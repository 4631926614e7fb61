-------------------------- MODULE DisciplineProofs --------------------------
(***************************************************************************)
(* Theorems about a disciplined caller of Runtime, for every value of its  *)
(* constants: connect and disconnect run alone, and calls on one           *)
(* enablement do not overlap.                                              *)
(***************************************************************************)
EXTENDS RuntimeProofs

-----------------------------------------------------------------------------
(* The invariant. *)

\* What a call in progress may count on.  A call that stops a plugin waits for
\* all tasks of that plugin; a disconnect has every enablement still running
\* before it, and none behind it; a start that waits is still connected when
\* it goes on, and a reload's plugin still registered.
CallOK(c) ==
    /\ call[c].pc # "stopping" => call[c].plugin = None
    /\ call[c].pc \in {"setup", "closing"} =>
         /\ call[c].op \in ConnectionOps
         /\ \A e \in Enablements : active[e] = None
    /\ call[c].pc = "stopping" =>
         /\ call[c].waits = plugin[call[c].plugin].tasks
         /\ plugin[call[c].plugin].enablement \in Enablements
         /\ call[c].op \in ConnectionOps =>
              \A e \in Enablements : active[e] # None => e \in call[c].todo
         /\ call[c].op \notin ConnectionOps =>
              call[c].enablement = plugin[call[c].plugin].enablement
         /\ call[c].op = "reload" => /\ active[call[c].enablement] = call[c].plugin
                                     /\ call[c].config \in Configs
         /\ call[c].op = "start" => connected /\ txQueue # None /\ call[c].config \in Configs

\* A plugin object is registered or in the hands of a call, has at most one
\* task, and no other object is of its enablement.
OnePlugin ==
    /\ \A p \in Plugins : plugin[p].enablement # None => Referenced(p)
    /\ \A p \in Plugins : plugin[p].enablement = None => plugin[p].tasks = {}
    /\ \A p \in Plugins : \A s, t \in plugin[p].tasks : s = t
    /\ \A p, q \in Plugins :
         plugin[p].enablement = plugin[q].enablement /\ plugin[p].enablement # None => p = q

\* Every task that has not ended is held by a plugin of its enablement, and by
\* the registered one if it was not cancelled.
Accounted ==
    \A t \in Tasks : task[t].state # "done" =>
        /\ task[t].enablement \in Enablements
        /\ \E p \in Plugins :
             /\ t \in plugin[p].tasks
             /\ plugin[p].enablement = task[t].enablement
             /\ task[t].state = "live" => active[task[t].enablement] = p

\* Registered plugins are on the current queue and have a config.
Served ==
    \A e \in Enablements : active[e] # None =>
        /\ connected /\ txQueue # None
        /\ plugin[active[e]].queue = txQueue
        /\ plugin[active[e]].config \in Configs

\* A link that sends is the current one, and none does while it is replaced.
Senders ==
    /\ \A l \in Links : link[l].sending > 0 =>
         l = clitool /\ link[l].sending = 1 /\ link[l].ran /\ connected
    /\ \A c \in Calls : call[c].pc \in {"setup", "closing"} =>
         \A l \in Links : link[l].sending = 0
    /\ \A c \in Calls : call[c].pc = "setup" =>
         call[c].link = clitool /\ clitool \in Links

Order == (\A c \in Calls : CallOK(c)) /\ OnePlugin /\ Accounted /\ Served

Orderly == Work /\ Disciplined /\ Order /\ Senders

-----------------------------------------------------------------------------
(* Calls that do not meet. *)

\* Calls that wait for plugins wait for different ones.
LEMMA OwnPlugin ==
    ASSUME Orderly, NEW c \in Calls, NEW d \in Calls, c # d, call[c].plugin # None
    PROVE  call[d].plugin # call[c].plugin
<1> SUFFICES ASSUME call[d].plugin = call[c].plugin PROVE FALSE
  OBVIOUS
<1>1. call[c].pc = "stopping" /\ call[d].pc = "stopping"
  BY DEF Orderly, Order, CallOK
<1>2. /\ call[c].op \notin ConnectionOps /\ call[d].op \notin ConnectionOps
      /\ call[c].enablement # call[d].enablement
  BY <1>1 DEF Orderly, Disciplined, Busy
<1> QED
  BY <1>1, <1>2 DEF Orderly, Order, CallOK

\* A call that goes on leaves the others alone if it changes no plugin of
\* theirs, and in the registry nothing but its own enablement, and the
\* connection only where it is a connect or disconnect.
LEMMA OthersOK ==
    ASSUME Orderly, Disciplined', NEW c \in Calls, call'[c].pc # "idle",
           \A d \in Calls \ {c} : call'[d] = call[d],
           \A q \in Plugins : \/ q = call[c].plugin
                              \/ ~Referenced(q)
                              \/ /\ plugin'[q].tasks = plugin[q].tasks
                                 /\ plugin'[q].enablement = plugin[q].enablement,
           call'[c].op \in ConnectionOps \/ UNCHANGED conn,
           call'[c].op \in ConnectionOps \/
             \A e \in Enablements : active'[e] = active[e] \/ e = call'[c].enablement
    PROVE  \A d \in Calls \ {c} : CallOK(d)'
<1> SUFFICES ASSUME NEW d \in Calls \ {c} PROVE CallOK(d)'
  OBVIOUS
<1>1. CallOK(d) /\ call'[d] = call[d]
  BY DEF Orderly, Order
<1>2. CASE call[d].pc = "idle"
  BY <1>1, <1>2 DEF CallOK
<1>3. CASE call[d].pc # "idle"
  <2>1. /\ call[d].op \notin ConnectionOps /\ call'[c].op \notin ConnectionOps
        /\ call[d].enablement # call'[c].enablement
    BY <1>1, <1>3 DEF Disciplined, Busy
  <2>2. CASE call[d].pc # "stopping"
    BY <1>1, <2>1, <2>2 DEF CallOK
  <2>3. CASE call[d].pc = "stopping"
    <3>1. call[d].plugin \in Plugins /\ Referenced(call[d].plugin)
      BY <2>3 DEF Referenced, Orderly, Work, Registry, Typed, StoppingHasPlugin
    <3>2. call[d].plugin # call[c].plugin
      BY <3>1, OwnPlugin, ConstantsAssumption
    <3>3. /\ plugin'[call[d].plugin].tasks = plugin[call[d].plugin].tasks
          /\ plugin'[call[d].plugin].enablement = plugin[call[d].plugin].enablement
      BY <3>1, <3>2
    <3>4. call[d].enablement \in Enablements
      BY <1>1, <2>1, <2>3 DEF CallOK
    <3>5. active'[call[d].enablement] = active[call[d].enablement] /\ UNCHANGED conn
      BY <2>1, <3>4
    <3> QED
      BY <1>1, <2>1, <2>3, <3>3, <3>5 DEF CallOK, conn
  <2> QED
    BY <2>2, <2>3
<1> QED
  BY <1>2, <1>3

-----------------------------------------------------------------------------
(* Plugin objects after a step. *)

LEMMA CollectedKept ==
    ASSUME Orderly, NEW pl, plugin' = Collect(pl), NEW q \in Plugins,
           pl[q].tasks = plugin[q].tasks, pl[q].enablement = plugin[q].enablement,
           Referenced(q) => Referenced(q)'
    PROVE  /\ plugin'[q].tasks = plugin[q].tasks
           /\ plugin'[q].enablement = plugin[q].enablement
<1>1. CASE Referenced(q)'
  BY <1>1, CollectKeeps
<1>2. CASE ~Referenced(q)'
  <2>1. plugin'[q] = NoPlugin
    BY <1>2 DEF Collect
  <2>2. plugin[q].enablement = None /\ plugin[q].tasks = {}
    BY <1>2 DEF Orderly, Order, OnePlugin
  <2> QED
    BY <2>1, <2>2 DEF NoPlugin
<1> QED
  BY <1>1, <1>2

LEMMA CollectedGone ==
    ASSUME NEW pl, plugin' = Collect(pl), NEW q \in Plugins, ~Referenced(q)'
    PROVE  plugin'[q].tasks = {} /\ plugin'[q].enablement = None
BY DEF Collect, NoPlugin

\* The call c holds no plugin, or one that was popped and whose tasks have
\* ended; pl are the plugin objects with that one emptied.
Ready(c, pl) ==
    /\ \A q \in Plugins : pl[q].enablement = plugin[q].enablement
    /\ \A q \in Plugins \ {call[c].plugin} :
         /\ pl[q].tasks = plugin[q].tasks
         /\ pl[q].queue = plugin[q].queue
         /\ pl[q].config = plugin[q].config
    /\ \A e \in Enablements : active[e] # None => active[e] # call[c].plugin
    /\ call[c].plugin # None =>
         \A t \in plugin[call[c].plugin].tasks : task[t].state = "done"

LEMMA IdleReady ==
    ASSUME Orderly, NEW c \in Calls, call[c].pc # "stopping"
    PROVE  Ready(c, plugin)
<1>1. call[c].plugin = None
  BY DEF Orderly, Order, CallOK
<1> QED
  BY <1>1, ConstantsAssumption DEF Ready

LEMMA WokenReady ==
    ASSUME Orderly, NEW c \in Calls, Woken(c), call[c].op # "reload"
    PROVE  Ready(c, StoppedBy(c)) /\ StoppedBy(c) \in [Plugins -> PluginRec]
<1>1. call[c].plugin \in Plugins /\ StoppedBy(c) \in [Plugins -> PluginRec]
  BY StoppedByType DEF Orderly, Work, Registry
<1>2. \A e \in Enablements : active[e] # call[c].plugin
  BY DEF Orderly, Work, Registry, PoppedOnce, Pops, Woken
<1>3. \A t \in plugin[call[c].plugin].tasks : task[t].state = "done"
  BY DEF Orderly, Order, CallOK, Woken
<1>4. /\ StoppedBy(c)[call[c].plugin].enablement = plugin[call[c].plugin].enablement
      /\ \A q \in Plugins \ {call[c].plugin} : StoppedBy(c)[q] = plugin[q]
  BY <1>1 DEF StoppedBy, Orderly, Work, Registry, Typed, TypeOK, PluginRec
<1> QED
  BY <1>1, <1>2, <1>3, <1>4 DEF Ready

-----------------------------------------------------------------------------
(* The kinds of steps, and what each leaves of Order. *)

\* The plugin a call gives up is gone, if nothing registers it again.
LEMMA GivesUp ==
    ASSUME Orderly, NEW c \in Calls, NEW pl, Ready(c, pl),
           \A d \in Calls \ {c} : call'[d] = call[d],
           NEW p \in Plugins, p = call[c].plugin,
           call'[c].plugin # p,
           \A e \in Enablements : active'[e] \in {None, active[e]} \/ active'[e] # p
    PROVE  ~Referenced(p)'
<1>1. p # None
  BY ConstantsAssumption
<1>2. \A e \in Enablements : active'[e] # p
  BY <1>1 DEF Ready
<1>3. \A d \in Calls : call'[d].plugin # p
  BY <1>1, OwnPlugin
<1> QED
  BY <1>2, <1>3 DEF Referenced

\* Popping a plugin and stopping it.
LEMMA PopOrder ==
    ASSUME Orderly, Disciplined', UNCHANGED conn,
           NEW c \in Calls, NEW rec \in CallRec, NEW e \in Enablements,
           NEW pl \in [Plugins -> PluginRec], Ready(c, pl),
           PopAndStop(c, rec, e, pl),
           \/ /\ rec.op \in ConnectionOps
              /\ \A x \in Enablements : x # e /\ active[x] # None => x \in rec.todo
           \/ rec.op = "stop" /\ rec.enablement = e
           \/ /\ rec.op = "start" /\ rec.enablement = e /\ rec.config \in Configs
              /\ connected /\ txQueue # None
    PROVE  Order'
<1> DEFINE p == active[e]
           more == [pl EXCEPT ![p].waiters = Append(@, c)]
<1>1. /\ p \in Plugins
      /\ p # call[c].plugin
      /\ plugin[p].enablement = e
  BY DEF PopAndStop, Ready, Orderly, Work, Registry, OneTask, Typed, TypeOK
<1>2. /\ active' = [active EXCEPT ![e] = None]
      /\ task' = Cancelled(plugin[p].tasks)
      /\ plugin' = Collect(more)
      /\ call' = [call EXCEPT ![c] = [rec EXCEPT !.pc = "stopping", !.plugin = p,
                                                 !.waits = plugin[p].tasks]]
  BY <1>1 DEF PopAndStop, StopUpToGather, Ready
<1>3. \A q \in Plugins : /\ more[q].tasks = pl[q].tasks
                         /\ more[q].queue = pl[q].queue
                         /\ more[q].config = pl[q].config
                         /\ more[q].enablement = pl[q].enablement
  BY DEF PluginRec
<1> HIDE DEF more
<1>4. /\ \A d \in Calls \ {c} : call'[d] = call[d]
      /\ call'[c].pc = "stopping" /\ call'[c].plugin = p
      /\ call'[c].waits = plugin[p].tasks /\ call'[c].op = rec.op
      /\ call'[c].enablement = rec.enablement /\ call'[c].config = rec.config
      /\ call'[c].todo = rec.todo
  BY <1>2 DEF CallRec, Orderly, Work, Registry, Typed, TypeOK
<1>5. \A x \in Enablements : active'[x] = IF x = e THEN None ELSE active[x]
  BY <1>2 DEF Orderly, Work, Registry, Typed, TypeOK
<1> HIDE DEF p
<1>6. ASSUME NEW q \in Plugins \ {call[c].plugin}
      PROVE  /\ plugin'[q].tasks = plugin[q].tasks
             /\ plugin'[q].enablement = plugin[q].enablement
  <2>1. Referenced(q) => Referenced(q)'
    BY <1>4, <1>5 DEF Referenced, p
  <2> QED
    BY <1>2, <1>3, <1>6, <2>1, CollectedKept DEF Ready
<1>7. ASSUME NEW q \in Plugins, q = call[c].plugin
      PROVE  plugin'[q].tasks = {} /\ plugin'[q].enablement = None
  <2>1. ~Referenced(q)'
    BY <1>1, <1>4, <1>5, <1>7, GivesUp
  <2> QED
    BY <1>2, <2>1, CollectedGone
<1>8. \A d \in Calls \ {c} : CallOK(d)'
  BY <1>4, <1>5, <1>6, OthersOK
<1>9. CallOK(c)'
  <2>1. plugin'[p].tasks = plugin[p].tasks /\ plugin'[p].enablement = e
    BY <1>1, <1>6
  <2>2. \A x \in Enablements : active'[x] # None => x # e /\ active[x] # None
    BY <1>5
  <2>3. "start" \notin ConnectionOps /\ "stop" \notin ConnectionOps /\ "reload" \notin ConnectionOps
    BY DEF ConnectionOps
  <2> QED
    BY <1>4, <2>1, <2>2, <2>3 DEF CallOK, conn
<1>10. OnePlugin'
  <2>1. \A q \in Plugins : ~Referenced(q)' => plugin'[q].enablement = None
    BY <1>2, CollectedGone
  <2> QED
    BY <1>6, <1>7, <2>1 DEF OnePlugin, Orderly, Order
<1>11. Accounted'
  <2> SUFFICES ASSUME NEW t \in Tasks, task'[t].state # "done"
               PROVE  /\ task'[t].enablement \in Enablements
                      /\ \E q \in Plugins :
                           /\ t \in plugin'[q].tasks
                           /\ plugin'[q].enablement = task'[t].enablement
                           /\ task'[t].state = "live" => active'[task'[t].enablement] = q
    BY DEF Accounted
  <2>1. /\ task'[t].enablement = task[t].enablement
        /\ task[t].state # "done"
        /\ task'[t].state = "live" => task[t].state = "live" /\ t \notin plugin[p].tasks
    BY <1>2 DEF Cancelled, Orderly, Work, Registry, Typed, TypeOK, TaskRec
  <2>2. PICK q \in Plugins :
          /\ task[t].enablement \in Enablements
          /\ t \in plugin[q].tasks
          /\ plugin[q].enablement = task[t].enablement
          /\ task[t].state = "live" => active[task[t].enablement] = q
    BY <2>1 DEF Orderly, Order, Accounted
  <2>3. q # call[c].plugin
    BY <2>1, <2>2, ConstantsAssumption DEF Ready
  <2>4. plugin'[q].tasks = plugin[q].tasks /\ plugin'[q].enablement = plugin[q].enablement
    BY <1>6, <2>3
  <2>5. task'[t].state = "live" => task[t].enablement # e
    BY <2>1, <2>2 DEF p
  <2> QED
    BY <1>5, <2>1, <2>2, <2>4, <2>5
<1>12. Served'
  <2> SUFFICES ASSUME NEW x \in Enablements, active'[x] # None
               PROVE  /\ connected' /\ txQueue' # None
                      /\ plugin'[active'[x]].queue = txQueue'
                      /\ plugin'[active'[x]].config \in Configs
    BY DEF Served
  <2>1. active'[x] = active[x] /\ active[x] # None /\ active[x] \in Plugins
    BY <1>5 DEF Orderly, Work, Registry, Typed, TypeOK
  <2>2. Referenced(active[x])'
    BY <2>1 DEF Referenced
  <2>3. plugin'[active[x]] = more[active[x]]
    BY <1>2, <2>1, <2>2, CollectKeeps
  <2>4. /\ plugin'[active[x]].queue = plugin[active[x]].queue
        /\ plugin'[active[x]].config = plugin[active[x]].config
    BY <1>3, <2>1, <2>3 DEF Ready
  <2> QED
    BY <2>1, <2>4 DEF Served, Orderly, Order, conn
<1> QED
  BY <1>8, <1>9, <1>10, <1>11, <1>12 DEF Order

\* A call returns, fails or turns to the link, and registers nothing.
LEMMA SettleOrder ==
    ASSUME Orderly, Disciplined', NEW c \in Calls, NEW pl, Ready(c, pl),
           UNCHANGED <<active, task>>,
           plugin' = Collect(pl) \/ (plugin' = plugin /\ call[c].pc # "stopping"),
           \A d \in Calls \ {c} : call'[d] = call[d],
           call'[c].plugin = None, call'[c].pc \in {"ok", "error", "setup", "closing"},
           \/ call'[c].pc \in {"ok", "error"} /\ UNCHANGED conn
           \/ /\ call'[c].op \in ConnectionOps
              /\ \A e \in Enablements : active[e] = None
    PROVE  Order'
<1>1. \A q \in Plugins : Referenced(q) => Referenced(q)' \/ q = call[c].plugin
  BY DEF Referenced
<1>2. ASSUME NEW q \in Plugins, q # call[c].plugin
      PROVE  /\ plugin'[q].tasks = plugin[q].tasks
             /\ plugin'[q].enablement = plugin[q].enablement
  BY <1>1, <1>2, CollectedKept DEF Ready
<1>3. ASSUME NEW q \in Plugins, ~Referenced(q)'
      PROVE  plugin'[q].tasks = {} /\ plugin'[q].enablement = None
  <2>1. CASE plugin' = Collect(pl)
    BY <1>3, <2>1, CollectedGone
  <2>2. CASE plugin' = plugin /\ call[c].pc # "stopping"
    <3>1. call[c].plugin = None
      BY <2>2 DEF Orderly, Order, CallOK
    <3>2. ~Referenced(q)
      BY <1>1, <1>3, <3>1, ConstantsAssumption
    <3> QED
      BY <2>2, <3>2 DEF Orderly, Order, OnePlugin
  <2> QED
    BY <2>1, <2>2
<1>4. ASSUME NEW q \in Plugins, q = call[c].plugin
      PROVE  plugin'[q].tasks = {} /\ plugin'[q].enablement = None
  <2>1. call'[c].plugin # q
    BY ConstantsAssumption
  <2>2. ~Referenced(q)'
    BY <1>4, <2>1, GivesUp
  <2> QED
    BY <1>3, <2>2
<1>5. \A d \in Calls \ {c} : CallOK(d)'
  BY <1>2, OthersOK
<1>6. CallOK(c)'
  BY DEF CallOK
<1>7. OnePlugin'
  BY <1>2, <1>3, <1>4 DEF OnePlugin, Orderly, Order
<1>8. Accounted'
  <2> SUFFICES ASSUME NEW t \in Tasks, task[t].state # "done"
               PROVE  /\ task[t].enablement \in Enablements
                      /\ \E q \in Plugins :
                           /\ t \in plugin'[q].tasks
                           /\ plugin'[q].enablement = task[t].enablement
                           /\ task[t].state = "live" => active[task[t].enablement] = q
    BY DEF Accounted
  <2>1. PICK q \in Plugins :
          /\ task[t].enablement \in Enablements
          /\ t \in plugin[q].tasks
          /\ plugin[q].enablement = task[t].enablement
          /\ task[t].state = "live" => active[task[t].enablement] = q
    BY DEF Orderly, Order, Accounted
  <2>2. q # call[c].plugin
    BY <2>1, ConstantsAssumption DEF Ready
  <2> QED
    BY <1>2, <2>1, <2>2
<1>9. Served'
  <2> SUFFICES ASSUME NEW x \in Enablements, active[x] # None
               PROVE  /\ connected' /\ txQueue' # None
                      /\ plugin'[active[x]].queue = txQueue'
                      /\ plugin'[active[x]].config \in Configs
    BY DEF Served
  <2>1. active[x] \in Plugins /\ Referenced(active[x])' /\ active[x] # call[c].plugin
    BY DEF Referenced, Ready, Orderly, Work, Registry, Typed, TypeOK
  <2>2. plugin'[active[x]] = pl[active[x]] \/ plugin' = plugin
    BY <2>1, CollectKeeps
  <2>3. /\ plugin'[active[x]].queue = plugin[active[x]].queue
        /\ plugin'[active[x]].config = plugin[active[x]].config
    BY <2>1, <2>2 DEF Ready
  <2> QED
    BY <2>3 DEF Served, Orderly, Order, conn
<1> QED
  BY <1>5, <1>6, <1>7, <1>8, <1>9 DEF Order

\* A start launches the enablement's plugin, when the old one is gone.
LEMMA LaunchOrder ==
    ASSUME Orderly, Disciplined', UNCHANGED conn,
           NEW c \in Calls, NEW rec \in CallRec,
           NEW pl \in [Plugins -> PluginRec], Ready(c, pl),
           rec.op = "start", rec.enablement \in Enablements,
           active[rec.enablement] = None, rec.config \in Configs,
           connected, txQueue # None, Launch(c, rec, pl)
    PROVE  Order'
<1>1. CASE rec.enablement \notin Registered
  <2>1. /\ Finish(c, rec, "error") /\ UNCHANGED <<active, task>> /\ plugin' = Collect(pl)
    BY <1>1 DEF Launch
  <2>2. /\ \A d \in Calls \ {c} : call'[d] = call[d]
        /\ call'[c].plugin = None /\ call'[c].pc = "error"
    BY <2>1 DEF Finish, Idle, Orderly, Work, Registry, Typed, TypeOK
  <2> QED
    BY <2>1, <2>2, SettleOrder
<1>2. ASSUME NEW p \in Plugins, NEW t \in Tasks,
             FreePlugin(p), FreeTask(t),
             active' = [active EXCEPT ![rec.enablement] = p],
             task' = [task EXCEPT ![t] = Worker(rec.enablement, txQueue, rec.config)],
             Finish(c, rec, "ok"),
             plugin' = Collect([pl EXCEPT ![p] =
               [enablement |-> rec.enablement, queue |-> txQueue,
                config |-> rec.config, tasks |-> {t}, waiters |-> <<>>]])
      PROVE  Order'
  <2> DEFINE e == rec.enablement
             new == [enablement |-> e, queue |-> txQueue,
                     config |-> rec.config, tasks |-> {t}, waiters |-> <<>>]
             more == [pl EXCEPT ![p] = new]
  <2>1. /\ new.tasks = {t} /\ new.enablement = e /\ new.queue = txQueue
        /\ new.config = rec.config
        /\ more[p] = new
        /\ \A q \in Plugins \ {p} : more[q] = pl[q]
    OBVIOUS
  <2>2. plugin' = Collect(more)
    BY <1>2
  <2> HIDE DEF new, more
  <2>3. /\ \A d \in Calls \ {c} : call'[d] = call[d]
        /\ call'[c].plugin = None /\ call'[c].pc = "ok" /\ call'[c].op = "start"
        /\ call'[c].enablement = e
    BY <1>2 DEF Finish, Idle, Orderly, Work, Registry, Typed, TypeOK
  <2>4. \A x \in Enablements : active'[x] = IF x = e THEN p ELSE active[x]
    BY <1>2 DEF Orderly, Work, Registry, Typed, TypeOK
  <2>5. Referenced(p)' /\ p # call[c].plugin
    BY <1>2, <2>4 DEF Referenced, FreePlugin
  <2>6. plugin'[p] = new
    BY <2>1, <2>2, <2>5, CollectKeeps
  <2>7. ASSUME NEW q \in Plugins, q # call[c].plugin, q # p
        PROVE  /\ plugin'[q].tasks = plugin[q].tasks
               /\ plugin'[q].enablement = plugin[q].enablement
    <3>1. Referenced(q) => Referenced(q)'
      BY <2>3, <2>4, <2>7, ConstantsAssumption DEF Referenced
    <3> QED
      BY <2>1, <2>2, <2>7, <3>1, CollectedKept DEF Ready
  <2>8. ASSUME NEW q \in Plugins, q = call[c].plugin
        PROVE  plugin'[q].tasks = {} /\ plugin'[q].enablement = None
    <3>1. ~Referenced(q)'
      BY <2>3, <2>4, <2>5, <2>8, GivesUp, ConstantsAssumption
    <3> QED
      BY <2>2, <3>1, CollectedGone
  <2>9. ASSUME NEW q \in Plugins, q # call[c].plugin, plugin[q].enablement = e
        PROVE  FALSE
    <3>1. Referenced(q)
      BY <2>9, ConstantsAssumption DEF Orderly, Order, OnePlugin
    <3>2. \A x \in Enablements : active[x] # q
      BY <2>9, ConstantsAssumption DEF Orderly, Work, Registry, OneTask
    <3>3. PICK d \in Calls : call[d].plugin = q
      BY <3>1, <3>2 DEF Referenced
    <3>4. d # c /\ call[d].pc = "stopping" /\ call'[d] = call[d]
      BY <2>3, <2>9, <3>3, ConstantsAssumption DEF Orderly, Order, CallOK
    <3>5. call[d].op \notin ConnectionOps /\ call[d].enablement # e
      BY <2>3, <3>4 DEF Disciplined, Busy
    <3> QED
      BY <2>9, <3>3, <3>4, <3>5 DEF Orderly, Order, CallOK
  <2>10. \A q \in Plugins : t \notin plugin[q].tasks
    BY <1>2 DEF FreeTask
  <2>11. \A d \in Calls \ {c} : CallOK(d)'
    BY <1>2, <2>3, <2>4, <2>7, OthersOK DEF FreePlugin
  <2>12. CallOK(c)'
    BY <2>3 DEF CallOK
  <2>13. OnePlugin'
    <3>1. \A q \in Plugins : ~Referenced(q)' => plugin'[q].enablement = None
      BY <2>2, CollectedGone
    <3>2. plugin'[p].enablement = e /\ plugin'[p].tasks = {t} /\ e # None
      BY <2>1, <2>6, ConstantsAssumption
    <3>3. \A q \in Plugins : q # p => plugin'[q].enablement # e
      BY <2>7, <2>8, <2>9, <3>2
    <3>4. \A q \in Plugins : plugin'[q].enablement = None => plugin'[q].tasks = {}
      BY <2>7, <2>8, <3>2 DEF OnePlugin, Orderly, Order
    <3>5. \A q \in Plugins : \A s, u \in plugin'[q].tasks : s = u
      BY <2>7, <2>8, <3>2 DEF OnePlugin, Orderly, Order
    <3>6. \A q, r \in Plugins :
            plugin'[q].enablement = plugin'[r].enablement /\ plugin'[q].enablement # None
              => q = r
      BY <2>7, <2>8, <3>2, <3>3 DEF OnePlugin, Orderly, Order
    <3> QED
      BY <3>1, <3>4, <3>5, <3>6 DEF OnePlugin
  <2>14. Accounted'
    <3> SUFFICES ASSUME NEW s \in Tasks, task'[s].state # "done"
                 PROVE  /\ task'[s].enablement \in Enablements
                        /\ \E q \in Plugins :
                             /\ s \in plugin'[q].tasks
                             /\ plugin'[q].enablement = task'[s].enablement
                             /\ task'[s].state = "live" => active'[task'[s].enablement] = q
      BY DEF Accounted
    <3>1. CASE s = t
      <4>1. task'[s].enablement = e
        BY <1>2, <3>1 DEF Worker, Orderly, Work, Registry, Typed, TypeOK
      <4> QED
        BY <2>1, <2>4, <2>6, <3>1, <4>1
    <3>2. CASE s # t
      <4>1. task'[s] = task[s]
        BY <1>2, <3>2 DEF Orderly, Work, Registry, Typed, TypeOK
      <4>2. PICK q \in Plugins :
              /\ task[s].enablement \in Enablements
              /\ s \in plugin[q].tasks
              /\ plugin[q].enablement = task[s].enablement
              /\ task[s].state = "live" => active[task[s].enablement] = q
        BY <4>1 DEF Orderly, Order, Accounted
      <4>3. q # call[c].plugin
        BY <4>1, <4>2, ConstantsAssumption DEF Ready
      <4>4. q # p
        BY <1>2, <4>2, ConstantsAssumption DEF FreePlugin, OnePlugin, Orderly, Order
      <4>5. task[s].enablement # e
        BY <2>9, <4>2, <4>3
      <4> QED
        BY <2>4, <2>7, <4>1, <4>2, <4>3, <4>4, <4>5
    <3> QED
      BY <3>1, <3>2
  <2>15. Served'
    <3> SUFFICES ASSUME NEW x \in Enablements, active'[x] # None
                 PROVE  /\ connected' /\ txQueue' # None
                        /\ plugin'[active'[x]].queue = txQueue'
                        /\ plugin'[active'[x]].config \in Configs
      BY DEF Served
    <3>1. CASE x = e
      BY <2>1, <2>4, <2>6, <3>1 DEF conn
    <3>2. CASE x # e
      <4>1. active'[x] = active[x] /\ active[x] # None /\ active[x] \in Plugins
        BY <2>4, <3>2 DEF Orderly, Work, Registry, Typed, TypeOK
      <4>2. Referenced(active[x])' /\ active[x] # p
        BY <1>2, <4>1 DEF Referenced, FreePlugin
      <4>3. plugin'[active[x]] = pl[active[x]]
        BY <2>1, <2>2, <4>1, <4>2, CollectKeeps
      <4>4. /\ plugin'[active[x]].queue = plugin[active[x]].queue
            /\ plugin'[active[x]].config = plugin[active[x]].config
        BY <4>1, <4>3 DEF Ready
      <4> QED
        BY <4>1, <4>4 DEF Served, Orderly, Order, conn
    <3> QED
      BY <3>1, <3>2
  <2> QED
    BY <2>11, <2>12, <2>13, <2>14, <2>15 DEF Order
<1> QED
  BY <1>1, <1>2 DEF Launch

\* A reload begins: its plugin stays registered and waits for its task.
LEMMA ReloadStopOrder ==
    ASSUME Orderly, Disciplined', UNCHANGED <<active, conn>>,
           NEW c \in Calls, call[c].pc = "idle",
           NEW rec \in CallRec, rec.op = "reload", rec.config \in Configs,
           NEW e \in Enablements, rec.enablement = e, active[e] # None,
           StopUpToGather(c, rec, active[e], plugin)
    PROVE  Order'
<1> DEFINE p == active[e]
           more == [plugin EXCEPT ![p].waiters = Append(@, c)]
<1>1. /\ p \in Plugins /\ plugin[p].enablement = e
      /\ call[c].plugin = None
  BY DEF Orderly, Order, CallOK, Work, Registry, OneTask, Typed, TypeOK
<1>2. /\ task' = Cancelled(plugin[p].tasks)
      /\ plugin' = Collect(more)
      /\ call' = [call EXCEPT ![c] = [rec EXCEPT !.pc = "stopping", !.plugin = p,
                                                 !.waits = plugin[p].tasks]]
  BY DEF StopUpToGather
<1>3. \A q \in Plugins : /\ more[q].tasks = plugin[q].tasks
                         /\ more[q].queue = plugin[q].queue
                         /\ more[q].config = plugin[q].config
                         /\ more[q].enablement = plugin[q].enablement
  BY DEF PluginRec, Orderly, Work, Registry, Typed, TypeOK
<1> HIDE DEF more
<1>4. /\ \A d \in Calls \ {c} : call'[d] = call[d]
      /\ call'[c].pc = "stopping" /\ call'[c].plugin = p
      /\ call'[c].waits = plugin[p].tasks /\ call'[c].op = "reload"
      /\ call'[c].enablement = e /\ call'[c].config = rec.config
  BY <1>2 DEF CallRec, Orderly, Work, Registry, Typed, TypeOK
<1> HIDE DEF p
<1>5. \A q \in Plugins : Referenced(q) => Referenced(q)'
  BY <1>1, <1>4, ConstantsAssumption DEF Referenced
<1>6. \A q \in Plugins : /\ plugin'[q].tasks = plugin[q].tasks
                         /\ plugin'[q].enablement = plugin[q].enablement
  BY <1>2, <1>3, <1>5, CollectedKept
<1>7. \A d \in Calls \ {c} : CallOK(d)'
  BY <1>4, <1>6, OthersOK
<1>8. CallOK(c)'
  <2>1. "reload" \notin ConnectionOps
    BY DEF ConnectionOps
  <2> QED
    BY <1>1, <1>4, <1>6, <2>1 DEF CallOK, p
<1>9. OnePlugin'
  <2>1. \A q \in Plugins : ~Referenced(q)' => plugin'[q].enablement = None
    BY <1>2, CollectedGone
  <2> QED
    BY <1>6, <2>1 DEF OnePlugin, Orderly, Order
<1>10. Accounted'
  <2>1. \A t \in Tasks : /\ task'[t].enablement = task[t].enablement
                         /\ task'[t].state # "done" => task[t].state # "done"
                         /\ task'[t].state = "live" => task[t].state = "live"
    BY <1>2 DEF Cancelled, Orderly, Work, Registry, Typed, TypeOK, TaskRec
  <2> QED
    BY <1>6, <2>1 DEF Accounted, Orderly, Order
<1>11. Served'
  <2> SUFFICES ASSUME NEW x \in Enablements, active[x] # None
               PROVE  /\ connected' /\ txQueue' # None
                      /\ plugin'[active[x]].queue = txQueue'
                      /\ plugin'[active[x]].config \in Configs
    BY DEF Served
  <2>1. active[x] \in Plugins /\ Referenced(active[x])'
    BY DEF Referenced, Orderly, Work, Registry, Typed, TypeOK
  <2>2. plugin'[active[x]] = more[active[x]]
    BY <1>2, <2>1, CollectKeeps
  <2> QED
    BY <1>3, <2>1, <2>2 DEF Served, Orderly, Order, conn
<1> QED
  BY <1>7, <1>8, <1>9, <1>10, <1>11 DEF Order

\* A reload ends: its plugin has the one new task.
LEMMA ReloadRestartsOrder ==
    ASSUME Orderly, Disciplined', NEW c \in Calls, ReloadRestarts(c)
    PROVE  Order'
<1> DEFINE p == call[c].plugin
<1>1. /\ p \in Plugins
      /\ StoppedBy(c) \in [Plugins -> PluginRec]
      /\ Woken(c) /\ UNCHANGED <<active, conn>>
      /\ call[c].op = "reload" /\ call[c].pc = "stopping"
  BY StoppedByType DEF ReloadRestarts, Orderly, Work, Registry, Woken
<1>2. PICK t \in Tasks :
        /\ FreeTask(t)
        /\ task' = [task EXCEPT ![t] = Restarted(c)]
        /\ Finish(c, call[c], "ok")
        /\ plugin' = Collect([StoppedBy(c) EXCEPT ![p] =
             [StoppedBy(c)[p] EXCEPT !.tasks = StoppedBy(c)[p].tasks \cup {t},
                                     !.config = call[c].config]])
  BY DEF ReloadRestarts
<1> DEFINE pl == [StoppedBy(c) EXCEPT ![p] =
             [StoppedBy(c)[p] EXCEPT !.tasks = StoppedBy(c)[p].tasks \cup {t},
                                     !.config = call[c].config]]
           e == plugin[p].enablement
<1>3. /\ StoppedBy(c)[p].tasks = {}
      /\ StoppedBy(c)[p].queue = plugin[p].queue
      /\ StoppedBy(c)[p].enablement = plugin[p].enablement
      /\ \A q \in Plugins : q # p => StoppedBy(c)[q] = plugin[q]
  BY <1>1 DEF StoppedBy, Orderly, Work, Registry, Typed, TypeOK, PluginRec
<1>4. /\ pl[p].tasks = {t} /\ pl[p].queue = plugin[p].queue
      /\ pl[p].config = call[c].config /\ pl[p].enablement = e
      /\ \A q \in Plugins : q # p => pl[q] = plugin[q]
  <2>1. StoppedBy(c)[p] \in PluginRec
    BY <1>1
  <2> DEFINE new == [StoppedBy(c)[p] EXCEPT !.tasks = StoppedBy(c)[p].tasks \cup {t},
                                            !.config = call[c].config]
  <2>2. /\ new.tasks = {t} /\ new.queue = plugin[p].queue /\ new.config = call[c].config
        /\ new.enablement = e
    BY <1>3, <2>1 DEF PluginRec
  <2>3. pl[p] = new /\ \A q \in Plugins : q # p => pl[q] = StoppedBy(c)[q]
    BY <1>1
  <2> HIDE DEF pl, new
  <2> QED
    BY <1>3, <2>2, <2>3
<1>5. plugin' = Collect(pl)
  BY <1>2
<1> HIDE DEF pl
<1>6. /\ call[c].enablement = e /\ e \in Enablements /\ active[e] = p
      /\ call[c].config \in Configs
      /\ \A s \in plugin[p].tasks : task[s].state = "done"
  BY <1>1 DEF Orderly, Order, CallOK, ConnectionOps, Woken
<1>7. /\ \A d \in Calls \ {c} : call'[d] = call[d]
      /\ call'[c].plugin = None /\ call'[c].pc = "ok" /\ call'[c].op = "reload"
  BY <1>1, <1>2 DEF Finish, Idle, Orderly, Work, Registry, Typed, TypeOK
<1>8. \A q \in Plugins : Referenced(q) => Referenced(q)'
  BY <1>1, <1>6, <1>7 DEF Referenced
<1>9. \A q \in Plugins : q # p => /\ plugin'[q].tasks = plugin[q].tasks
                                  /\ plugin'[q].enablement = plugin[q].enablement
  BY <1>4, <1>5, <1>8, CollectedKept
<1>10. plugin'[p] = pl[p]
  <2>1. PICK q \in Plugins : q = p
    BY <1>1
  <2>2. Referenced(q)'
    BY <1>1, <1>6, <2>1 DEF Referenced
  <2> QED
    BY <1>5, <2>1, <2>2, CollectKeeps
<1> HIDE DEF e, p
<1>11. \A d \in Calls \ {c} : CallOK(d)'
  BY <1>1, <1>7, <1>9, OthersOK DEF p
<1>12. CallOK(c)'
  BY <1>7 DEF CallOK
<1>13. OnePlugin'
  <2>1. \A q \in Plugins : ~Referenced(q)' => plugin'[q].enablement = None
    BY <1>5, CollectedGone
  <2> QED
    BY <1>4, <1>6, <1>9, <1>10, <2>1, ConstantsAssumption DEF OnePlugin, Orderly, Order, e
<1>14. Accounted'
  <2> SUFFICES ASSUME NEW s \in Tasks, task'[s].state # "done"
               PROVE  /\ task'[s].enablement \in Enablements
                      /\ \E q \in Plugins :
                           /\ s \in plugin'[q].tasks
                           /\ plugin'[q].enablement = task'[s].enablement
                           /\ task'[s].state = "live" => active'[task'[s].enablement] = q
    BY DEF Accounted
  <2>1. CASE s = t
    <3>1. task'[s].enablement = e
      BY <1>2, <2>1 DEF Restarted, Worker, Orderly, Work, Registry, Typed, TypeOK, e, p
    <3> QED
      BY <1>1, <1>4, <1>6, <1>10, <2>1, <3>1
  <2>2. CASE s # t
    <3>1. task'[s] = task[s]
      BY <1>2, <2>2 DEF Orderly, Work, Registry, Typed, TypeOK
    <3>2. PICK q \in Plugins :
            /\ task[s].enablement \in Enablements
            /\ s \in plugin[q].tasks
            /\ plugin[q].enablement = task[s].enablement
            /\ task[s].state = "live" => active[task[s].enablement] = q
      BY <3>1 DEF Orderly, Order, Accounted
    <3>3. q # p
      BY <1>6, <3>1, <3>2
    <3> QED
      BY <1>1, <1>9, <3>1, <3>2, <3>3
  <2> QED
    BY <2>1, <2>2
<1>15. Served'
  <2> SUFFICES ASSUME NEW x \in Enablements, active[x] # None
               PROVE  /\ connected' /\ txQueue' # None
                      /\ plugin'[active[x]].queue = txQueue'
                      /\ plugin'[active[x]].config \in Configs
    BY <1>1 DEF Served
  <2>1. active[x] \in Plugins /\ Referenced(active[x])'
    BY <1>1 DEF Referenced, Orderly, Work, Registry, Typed, TypeOK
  <2>2. plugin'[active[x]] = pl[active[x]]
    BY <1>1, <1>5, <2>1, CollectKeeps
  <2>3. /\ plugin[active[x]].queue = txQueue /\ plugin[active[x]].config \in Configs
        /\ connected /\ txQueue # None
    BY DEF Served, Orderly, Order
  <2> QED
    BY <1>1, <1>4, <1>6, <2>1, <2>2, <2>3 DEF conn
<1> QED
  BY <1>11, <1>12, <1>13, <1>14, <1>15 DEF Order

\* A worker that ends is missed by nobody.
LEMMA EndOrder ==
    ASSUME Orderly, NEW t \in Tasks, TaskEnds(t) \/ WorkerReturns(t)
    PROVE  Order'
<1>1. UNCHANGED <<conn, active, plugin, call>> /\ task' = [task EXCEPT ![t] = Done]
  BY DEF TaskEnds, WorkerReturns
<1>2. \A c \in Calls : CallOK(c)'
  BY <1>1 DEF CallOK, conn, Orderly, Order
<1>3. OnePlugin' /\ Served'
  BY <1>1 DEF OnePlugin, Served, Referenced, conn, Orderly, Order
<1>4. \A s \in Tasks : task'[s].state # "done" => task'[s] = task[s]
  BY <1>1 DEF Done, Orderly, Work, Registry, Typed, TypeOK
<1>5. Accounted'
  BY <1>1, <1>4 DEF Accounted, Orderly, Order
<1> QED
  BY <1>2, <1>3, <1>5 DEF Order

\* The loop of disconnect_tak: it pops what is left of its snapshot, and closes
\* the link when nothing is registered any more.
LEMMA DisconnectOrder ==
    ASSUME Orderly, Disciplined', NEW c \in Calls, NEW rec \in CallRec,
           NEW pl \in [Plugins -> PluginRec], Ready(c, pl),
           rec.op \in ConnectionOps,
           \A e \in Enablements : active[e] # None => e \in rec.todo,
           DisconnectFrom(c, rec, pl)
    PROVE  Order'
<1>1. ASSUME NEW e \in rec.todo, PopAndStop(c, [rec EXCEPT !.todo = @ \ {e}], e, pl),
             UNCHANGED conn
      PROVE  Order'
  <2> DEFINE less == [rec EXCEPT !.todo = @ \ {e}]
  <2>1. /\ e \in Enablements /\ less \in CallRec /\ less.op = rec.op
        /\ less.todo = rec.todo \ {e}
    BY DEF CallRec
  <2> HIDE DEF less
  <2>2. \A x \in Enablements : x # e /\ active[x] # None => x \in less.todo
    BY <2>1
  <2>3. PopAndStop(c, less, e, pl)
    BY <1>1 DEF less
  <2> QED
    BY <1>1, <2>1, <2>2, <2>3, PopOrder
<1>2. CASE /\ \A e \in rec.todo : active[e] = None
           /\ CloseLink(c, [Idle EXCEPT !.op = rec.op])
           /\ UNCHANGED <<active, task>>
           /\ plugin' = Collect(pl)
  <2> DEFINE r == [Idle EXCEPT !.op = rec.op]
  <2>1. r \in CallRec /\ r.plugin = None /\ r.op = rec.op
    BY DEF CallRec, Idle
  <2> HIDE DEF r
  <2>2. /\ \A d \in Calls \ {c} : call'[d] = call[d]
        /\ call'[c].plugin = None /\ call'[c].pc \in {"ok", "setup", "closing"}
        /\ call'[c].op = rec.op
    <3>1. CASE Finish(c, r, "ok")
      BY <2>1, <3>1 DEF Finish, Idle, Orderly, Work, Registry, Typed, TypeOK
    <3>2. CASE OpenLink(c, r)
      <4>1. PICK l \in Links : call' = [call EXCEPT ![c] = [r EXCEPT !.pc = "setup", !.link = l]]
        BY <3>2 DEF OpenLink
      <4> QED
        BY <2>1, <4>1 DEF CallRec, Orderly, Work, Registry, Typed, TypeOK
    <3>3. CASE call' = [call EXCEPT ![c] = [r EXCEPT !.pc = "closing"]]
      BY <2>1, <3>3 DEF CallRec, Orderly, Work, Registry, Typed, TypeOK
    <3> QED
      BY <1>2, <3>1, <3>2, <3>3 DEF CloseLink, Disconnected, r
  <2>3. \A e \in Enablements : active[e] = None
    BY <1>2
  <2> QED
    BY <1>2, <2>2, <2>3, SettleOrder
<1> QED
  BY <1>1, <1>2 DEF DisconnectFrom

\* Every step of a disciplined caller keeps the order.
LEMMA OrderStep ==
    ASSUME Orderly, Disciplined', Next
    PROVE  Order'
<1>0. /\ plugin \in [Plugins -> PluginRec] /\ call \in [Calls -> CallRec]
      /\ {"start", "stop", "reload"} \cap ConnectionOps = {}
  BY DEF Orderly, Work, Registry, Typed, TypeOK, ConnectionOps
<1>1. ASSUME NEW c \in Calls, NEW e \in Enablements, NEW f \in Configs, BeginStart(c, e, f)
      PROVE  Order'
  <2> DEFINE rec == [Idle EXCEPT !.op = "start", !.enablement = e, !.config = f]
  <2>1. /\ rec \in CallRec
        /\ rec.op = "start" /\ rec.enablement = e /\ rec.config = f
    BY BeginTypes DEF Idle
  <2>2. \/ Finish(c, rec, "error") /\ UNCHANGED <<active, plugin, task>>
        \/ CanStart /\ active[e] = None /\ Launch(c, rec, plugin)
        \/ CanStart /\ PopAndStop(c, rec, e, plugin)
    BY <1>1 DEF BeginStart, Running
  <2> HIDE DEF rec
  <2>3. call[c].pc = "idle" /\ UNCHANGED conn /\ Ready(c, plugin)
    BY <1>1, IdleReady DEF BeginStart
  <2>4. CASE Finish(c, rec, "error") /\ UNCHANGED <<active, plugin, task>>
    <3>1. /\ \A d \in Calls \ {c} : call'[d] = call[d]
          /\ call'[c].plugin = None /\ call'[c].pc = "error"
      BY <1>0, <2>4 DEF Finish, Idle
    <3> QED
      BY <2>3, <2>4, <3>1, SettleOrder
  <2>5. CASE CanStart /\ active[e] = None /\ Launch(c, rec, plugin)
    BY <1>0, <2>1, <2>3, <2>5, LaunchOrder DEF CanStart
  <2>6. CASE CanStart /\ PopAndStop(c, rec, e, plugin)
    BY <1>0, <2>1, <2>3, <2>6, PopOrder DEF CanStart
  <2> QED
    BY <2>2, <2>4, <2>5, <2>6
<1>2. ASSUME NEW c \in Calls, StartAfterStop(c)
      PROVE  Order'
  <2>1. /\ Woken(c) /\ call[c].op = "start" /\ call[c].pc = "stopping"
        /\ Launch(c, call[c], StoppedBy(c)) /\ UNCHANGED conn
    BY <1>2 DEF StartAfterStop, Woken
  <2>2. Ready(c, StoppedBy(c)) /\ StoppedBy(c) \in [Plugins -> PluginRec]
    BY <2>1, WokenReady
  <2>3. /\ connected /\ txQueue # None /\ call[c].config \in Configs
        /\ call[c].enablement = plugin[call[c].plugin].enablement
        /\ call[c].enablement \in Enablements
    BY <1>0, <2>1 DEF Orderly, Order, CallOK
  <2>4. active[call[c].enablement] = None
    <3> SUFFICES ASSUME active[call[c].enablement] # None PROVE FALSE
      OBVIOUS
    <3>1. /\ active[call[c].enablement] \in Plugins
          /\ plugin[active[call[c].enablement]].enablement = call[c].enablement
      BY <2>3 DEF Orderly, Work, Registry, OneTask, Typed, TypeOK
    <3>2. call[c].plugin \in Plugins /\ active[call[c].enablement] # call[c].plugin
      BY <2>1, <2>2, <2>3 DEF Ready, Orderly, Work, Registry, Typed, StoppingHasPlugin
    <3> QED
      BY <2>3, <3>1, <3>2, ConstantsAssumption DEF Orderly, Order, OnePlugin
  <2> QED
    BY <1>0, <2>1, <2>2, <2>3, <2>4, LaunchOrder
<1>3. ASSUME NEW c \in Calls, NEW e \in Enablements, BeginStop(c, e)
      PROVE  Order'
  <2> DEFINE rec == [Idle EXCEPT !.op = "stop", !.enablement = e]
  <2>1. rec \in CallRec /\ rec.op = "stop" /\ rec.enablement = e
    BY DEF Idle, CallRec, Ops
  <2>2. \/ Finish(c, rec, "ok") /\ UNCHANGED <<active, plugin, task>>
        \/ PopAndStop(c, rec, e, plugin)
    BY <1>3 DEF BeginStop
  <2> HIDE DEF rec
  <2>3. call[c].pc = "idle" /\ UNCHANGED conn /\ Ready(c, plugin)
    BY <1>3, IdleReady DEF BeginStop
  <2>4. CASE Finish(c, rec, "ok") /\ UNCHANGED <<active, plugin, task>>
    <3>1. /\ \A d \in Calls \ {c} : call'[d] = call[d]
          /\ call'[c].plugin = None /\ call'[c].pc = "ok"
      BY <1>0, <2>4 DEF Finish, Idle
    <3> QED
      BY <2>3, <2>4, <3>1, SettleOrder
  <2>5. CASE PopAndStop(c, rec, e, plugin)
    BY <1>0, <2>1, <2>3, <2>5, PopOrder
  <2> QED
    BY <2>2, <2>4, <2>5
<1>4. ASSUME NEW c \in Calls, StopReturns(c)
      PROVE  Order'
  <2>1. Ready(c, StoppedBy(c))
    BY <1>4, WokenReady DEF StopReturns
  <2>2. /\ \A d \in Calls \ {c} : call'[d] = call[d]
        /\ call'[c].plugin = None /\ call'[c].pc = "ok"
    BY <1>0, <1>4 DEF StopReturns, Finish, Idle
  <2> QED
    BY <1>4, <2>1, <2>2, SettleOrder DEF StopReturns
<1>5. ASSUME NEW c \in Calls, NEW e \in Enablements, NEW f \in Configs, BeginReload(c, e, f)
      PROVE  Order'
  <2> DEFINE rec == [Idle EXCEPT !.op = "reload", !.enablement = e, !.config = f]
  <2>1. /\ rec \in CallRec
        /\ rec.op = "reload" /\ rec.enablement = e /\ rec.config = f
    BY BeginTypes DEF Idle
  <2>2. \/ Finish(c, rec, "ok") /\ UNCHANGED <<active, plugin, task>>
        \/ active[e] # None /\ active' = active
           /\ StopUpToGather(c, rec, active[e], plugin)
    BY <1>5 DEF BeginReload
  <2> HIDE DEF rec
  <2>3. call[c].pc = "idle" /\ UNCHANGED conn /\ Ready(c, plugin)
    BY <1>5, IdleReady DEF BeginReload
  <2>4. CASE Finish(c, rec, "ok") /\ UNCHANGED <<active, plugin, task>>
    <3>1. /\ \A d \in Calls \ {c} : call'[d] = call[d]
          /\ call'[c].plugin = None /\ call'[c].pc = "ok"
      BY <1>0, <2>4 DEF Finish, Idle
    <3> QED
      BY <2>3, <2>4, <3>1, SettleOrder
  <2> QED
    BY <2>1, <2>2, <2>3, <2>4, ReloadStopOrder
<1>6. ASSUME NEW c \in Calls, BeginDisconnect(c) \/ BeginConnect(c)
      PROVE  Order'
  <2>1. \A op \in ConnectionOps :
          /\ [Idle EXCEPT !.op = op, !.todo = Snapshot] \in CallRec
          /\ [Idle EXCEPT !.op = op, !.todo = Snapshot].op = op
          /\ [Idle EXCEPT !.op = op, !.todo = Snapshot].todo = Snapshot
    BY DEF Idle, CallRec, Ops, ConnectionOps, Snapshot
  <2>2. call[c].pc = "idle" /\ Ready(c, plugin)
    BY <1>6, IdleReady DEF BeginDisconnect, BeginConnect
  <2>3. CASE ~connected /\ UNCHANGED <<active, plugin, task>>
             /\ OpenLink(c, [Idle EXCEPT !.op = "connect"])
    <3>1. /\ \A d \in Calls \ {c} : call'[d] = call[d]
          /\ call'[c].plugin = None /\ call'[c].pc = "setup" /\ call'[c].op = "connect"
      BY <1>0, <2>3 DEF OpenLink, Idle
    <3>2. \A e \in Enablements : active[e] = None
      BY <2>3 DEF Orderly, Order, Served
    <3> QED
      BY <2>2, <2>3, <3>1, <3>2, SettleOrder DEF ConnectionOps
  <2>4. ASSUME NEW op \in ConnectionOps,
               DisconnectFrom(c, [Idle EXCEPT !.op = op, !.todo = Snapshot], plugin)
        PROVE  Order'
    <3> DEFINE rec == [Idle EXCEPT !.op = op, !.todo = Snapshot]
    <3>1. rec \in CallRec /\ rec.op = op /\ rec.todo = Snapshot
      BY <2>1
    <3>2. DisconnectFrom(c, rec, plugin)
      BY <2>4
    <3> HIDE DEF rec
    <3>3. \A e \in Enablements : active[e] # None => e \in rec.todo
      BY <3>1 DEF Snapshot
    <3> QED
      BY <1>0, <2>2, <3>1, <3>2, <3>3, DisconnectOrder
  <2> QED
    BY <1>6, <2>3, <2>4 DEF BeginDisconnect, BeginConnect, ConnectionOps
<1>7. ASSUME NEW c \in Calls, DisconnectGoesOn(c)
      PROVE  Order'
  <2>1. /\ Woken(c) /\ call[c].op \in ConnectionOps /\ call[c].pc = "stopping"
        /\ call[c].op # "reload" /\ DisconnectFrom(c, call[c], StoppedBy(c))
    BY <1>7 DEF DisconnectGoesOn, Woken, ConnectionOps
  <2>2. \A e \in Enablements : active[e] # None => e \in call[c].todo
    BY <2>1 DEF Orderly, Order, CallOK
  <2> QED
    BY <1>0, <2>1, <2>2, WokenReady, DisconnectOrder
<1>8. ASSUME NEW c \in Calls, LinkClosed(c) \/ SetupReturns(c) \/ SetupFails(c)
      PROVE  Order'
  <2>1. /\ call[c].pc \in {"setup", "closing"} /\ UNCHANGED <<active, plugin, task>>
        /\ call[c].op \in ConnectionOps /\ call[c].plugin = None
        /\ \A e \in Enablements : active[e] = None
    BY <1>8 DEF LinkClosed, SetupReturns, SetupFails, Orderly, Order, CallOK
  <2>2. /\ \A d \in Calls \ {c} : call'[d] = call[d]
        /\ call'[c].plugin = None /\ call'[c].pc \in {"ok", "error", "setup"}
        /\ call'[c].op = call[c].op
    <3>1. CASE Finish(c, call[c], "ok") \/ Finish(c, call[c], "error")
      BY <1>0, <3>1 DEF Finish, Idle
    <3>2. CASE OpenLink(c, call[c])
      <4>1. PICK l \in Links : call' = [call EXCEPT ![c] = [call[c] EXCEPT !.pc = "setup", !.link = l]]
        BY <3>2 DEF OpenLink
      <4> QED
        BY <1>0, <2>1, <4>1 DEF CallRec
    <3> QED
      BY <1>8, <3>1, <3>2 DEF LinkClosed, Disconnected, SetupReturns, SetupFails
  <2> QED
    BY <2>1, <2>2, IdleReady, SettleOrder
<1>9. ASSUME NEW c \in Calls, Return(c)
      PROVE  Order'
  <2>1. /\ UNCHANGED <<conn, active, plugin, task>>
        /\ \A d \in Calls \ {c} : call'[d] = call[d]
        /\ call'[c] = Idle /\ call[c].plugin = None
    BY <1>0, <1>9 DEF Return, Orderly, Order, CallOK
  <2>2. \A d \in Calls : CallOK(d)'
    BY <2>1 DEF CallOK, Idle, conn, Orderly, Order
  <2>3. \A q \in Plugins : Referenced(q) => Referenced(q)'
    BY <2>1, ConstantsAssumption DEF Referenced
  <2>4. OnePlugin' /\ Served' /\ Accounted'
    BY <2>1, <2>3 DEF OnePlugin, Served, Accounted, conn, Orderly, Order
  <2> QED
    BY <2>2, <2>4 DEF Order
<1>10. ASSUME NEW l \in Links, LinkLost(l)
       PROVE  Order'
  BY <1>10 DEF LinkLost, Order, Orderly, CallOK, OnePlugin, Referenced, Served, Accounted, conn
<1> QED
  BY <1>1, <1>2, <1>3, <1>4, <1>5, <1>6, <1>7, <1>8, <1>9, <1>10, ReloadRestartsOrder,
     EndOrder DEF Next, Begin, Resume

-----------------------------------------------------------------------------
(* The senders. *)

\* Nothing sends on any link after the connect or disconnect c closed the
\* current one, or set it aside.
LEMMA DisconnectedSenders ==
    ASSUME Orderly, Disciplined', NEW c \in Calls, NEW rec \in CallRec,
           \A l \in Links : link[l].sending = 0,
           rec.op \in ConnectionOps,
           \/ Disconnected(c, rec)
           \/ OpenLink(c, rec) /\ UNCHANGED <<txQueue, connected>>
    PROVE  Senders'
<1>1. CASE Finish(c, rec, "ok") /\ UNCHANGED link
  <2>1. \A d \in Calls : call'[d].pc \in {"setup", "closing"} => d # c /\ call'[d] = call[d]
    BY <1>1, FinishIsQuiet DEF Finish, Idle, Orderly, Work, Registry, Typed, TypeOK
  <2>2. call'[c].op = rec.op /\ call'[c].pc = "ok"
    BY <1>1 DEF Finish, Idle, Orderly, Work, Registry, Typed, TypeOK
  <2>3. \A d \in Calls : call'[d].pc \in {"setup", "closing"} => FALSE
    BY <2>1, <2>2 DEF Disciplined, Busy
  <2> QED
    BY <1>1, <2>3 DEF Senders
<1>2. CASE OpenLink(c, rec)
  <2>1. PICK l \in Links :
          /\ clitool' = l
          /\ link' = [link EXCEPT ![l] = NewLink]
          /\ call' = [call EXCEPT ![c] = [rec EXCEPT !.pc = "setup", !.link = l]]
    BY <1>2 DEF OpenLink
  <2>2. \A k \in Links : link'[k].sending = 0
    BY <2>1 DEF NewLink, Orderly, Work, Registry, Typed, TypeOK
  <2>3. call'[c].op = rec.op /\ call'[c].pc = "setup" /\ call'[c].link = l
    BY <2>1 DEF CallRec, Orderly, Work, Registry, Typed, TypeOK
  <2>4. \A d \in Calls : call'[d].pc = "setup" => d = c
    BY <2>3 DEF Disciplined, Busy
  <2> QED
    BY <2>1, <2>2, <2>3, <2>4 DEF Senders
<1> QED
  BY <1>1, <1>2 DEF Disconnected

\* A step that leaves the link alone, or its TX worker less to do.
LEMMA QuietSenders ==
    ASSUME Orderly, UNCHANGED conn,
           UNCHANGED link \/ \E l \in Links : LinkLost(l),
           \A d \in Calls : call'[d] = call[d] \/ call'[d].pc \notin {"setup", "closing"}
    PROVE  Senders'
<1>1. CASE UNCHANGED link
  BY <1>1 DEF Senders, Orderly, conn
<1>2. ASSUME NEW l \in Links, LinkLost(l)
      PROVE  Senders'
  <2>1. \A k \in Links : link'[k] = link[k] \/ link'[k].sending = 0
    BY <1>2 DEF LinkLost, Orderly, Work, Registry, Typed, TypeOK, LinkRec
  <2> QED
    BY <2>1 DEF Senders, Orderly, conn
<1> QED
  BY <1>1, <1>2

LEMMA DisconnectSenders ==
    ASSUME Orderly, Disciplined', NEW c \in Calls, NEW rec \in CallRec, NEW pl,
           rec.op \in ConnectionOps, DisconnectFrom(c, rec, pl)
    PROVE  Senders'
<1>1. ASSUME NEW e \in rec.todo, PopAndStop(c, [rec EXCEPT !.todo = @ \ {e}], e, pl),
             UNCHANGED <<conn, link>>
      PROVE  Senders'
  <2>1. [rec EXCEPT !.todo = @ \ {e}] \in CallRec
    BY DEF CallRec
  <2>2. \A d \in Calls : call'[d] = call[d] \/ call'[d].pc \notin {"setup", "closing"}
    BY <1>1, <2>1 DEF PopAndStop, StopUpToGather, CallRec, Orderly, Work, Registry, Typed, TypeOK
  <2> QED
    BY <1>1, <2>2, QuietSenders
<1>2. CASE CloseLink(c, [Idle EXCEPT !.op = rec.op])
  <2> DEFINE r == [Idle EXCEPT !.op = rec.op]
  <2>1. r \in CallRec /\ r.op = rec.op
    BY DEF CallRec, Idle
  <2>2. CloseLink(c, r)
    BY <1>2
  <2> HIDE DEF r
  <2>3. \A l \in Links : link[l].sending \in Nat
    BY DEF Orderly, Work, Registry, Typed, TypeOK, LinkRec
  <2>4. \A l \in Links : link[l].sending # 0 => l = clitool /\ link[l].ran /\ connected
    BY <2>3 DEF Orderly, Senders
  <2>5. CASE LinkHasTasks
    <3>1. /\ link' = [link EXCEPT ![clitool].sending = 0] /\ UNCHANGED conn
          /\ call' = [call EXCEPT ![c] = [r EXCEPT !.pc = "closing"]]
          /\ clitool \in Links
      BY <2>2, <2>5 DEF CloseLink, LinkHasTasks, Orderly, Work, Registry, Typed, TypeOK
    <3>2. \A l \in Links : link'[l].sending = 0
      BY <2>4, <3>1 DEF Orderly, Work, Registry, Typed, TypeOK, LinkRec
    <3>3. call'[c].pc = "closing" /\ call'[c].op = rec.op
      BY <2>1, <3>1 DEF CallRec, Orderly, Work, Registry, Typed, TypeOK
    <3>4. \A d \in Calls : call'[d].pc = "setup" => FALSE
      BY <3>3 DEF Disciplined, Busy
    <3> QED
      BY <3>2, <3>4 DEF Senders
  <2>6. CASE ~LinkHasTasks
    <3>1. \A l \in Links : link[l].sending = 0
      BY <2>4, <2>6, ConstantsAssumption DEF LinkHasTasks
    <3> QED
      BY <2>1, <2>2, <2>6, <3>1, DisconnectedSenders DEF CloseLink
  <2> QED
    BY <2>5, <2>6
<1> QED
  BY <1>1, <1>2 DEF DisconnectFrom

\* setup() returns to the one connect there is, with the link it made.
LEMMA SetupSenders ==
    ASSUME Orderly, Disciplined', NEW c \in Calls, SetupReturns(c)
    PROVE  /\ Senders'
           /\ call'[c].pc = "ok"
           /\ connected' /\ txQueue' = clitool' /\ clitool' \in Links
           /\ link'[clitool'].sending = 1
           /\ \A d \in Calls \ {c} : call'[d] = call[d]
<1>1. /\ call[c].pc = "setup" /\ call[c].op \in ConnectionOps
      /\ call[c].link = clitool /\ clitool \in Links
      /\ \A l \in Links : link[l].sending = 0
  BY DEF SetupReturns, Orderly, Order, CallOK, Senders
<1> DEFINE ready == [link EXCEPT ![clitool].ready = TRUE]
<1>2. /\ ready \in [Links -> LinkRec]
      /\ ready[clitool].ready
      /\ \A l \in Links : ready[l].sending = 0
  BY <1>1 DEF Orderly, Work, Registry, Typed, TypeOK, LinkRec
<1>3. /\ link' = IF ready[clitool].ready THEN RunTasks(ready, clitool) ELSE ready
      /\ txQueue' = IF ready[clitool].ready THEN clitool ELSE None
      /\ connected' = TRUE /\ clitool' = clitool
      /\ Finish(c, call[c], "ok")
  BY <1>1, ConstantsAssumption DEF SetupReturns
<1> HIDE DEF ready
<1>4. /\ link' = RunTasks(ready, clitool) /\ txQueue' = clitool
  BY <1>2, <1>3
<1>5. /\ \A l \in Links : l # clitool => link'[l].sending = 0
      /\ link'[clitool].sending = 1 /\ link'[clitool].ran
  BY <1>1, <1>2, <1>4 DEF RunTasks
<1>6. /\ call'[c].op = call[c].op /\ call'[c].pc = "ok"
      /\ \A d \in Calls \ {c} : call'[d] = call[d]
  BY <1>3 DEF Finish, Idle, Orderly, Work, Registry, Typed, TypeOK
<1>7. \A d \in Calls : call'[d].pc \in {"setup", "closing"} => FALSE
  BY <1>1, <1>6 DEF Disciplined, Busy
<1> QED
  BY <1>1, <1>3, <1>4, <1>5, <1>6, <1>7 DEF Senders

LEMMA SendersStep ==
    ASSUME Orderly, Disciplined', Next
    PROVE  Senders'
<1>0. call \in [Calls -> CallRec]
  BY DEF Orderly, Work, Registry, Typed, TypeOK
<1>1. ASSUME NEW c \in Calls, NEW rec, NEW pc \in {"ok", "error"}, Finish(c, rec, pc)
      PROVE  \A d \in Calls : call'[d] = call[d] \/ call'[d].pc \notin {"setup", "closing"}
  BY <1>0, <1>1 DEF Finish, Idle
<1>2. ASSUME NEW c \in Calls, NEW rec \in CallRec, NEW p, NEW pl, StopUpToGather(c, rec, p, pl)
      PROVE  \A d \in Calls : call'[d] = call[d] \/ call'[d].pc \notin {"setup", "closing"}
  BY <1>0, <1>2 DEF StopUpToGather, CallRec
<1>3. ASSUME NEW c \in Calls, NEW e \in Enablements,
             BeginStop(c, e) \/ \E f \in Configs : BeginStart(c, e, f) \/ BeginReload(c, e, f)
      PROVE  Senders'
  <2>1. \E rec \in CallRec :
          \/ Finish(c, rec, "ok") \/ Finish(c, rec, "error")
          \/ \E p, pl : StopUpToGather(c, rec, p, pl)
    <3>1. [Idle EXCEPT !.op = "stop", !.enablement = e] \in CallRec
      BY DEF Idle, CallRec, Ops
    <3> QED
      BY <1>3, <3>1, BeginTypes DEF BeginStop, BeginStart, BeginReload, PopAndStop, Launch
  <2>2. UNCHANGED <<conn, link>>
    BY <1>3 DEF BeginStop, BeginStart, BeginReload
  <2> QED
    BY <1>1, <1>2, <2>1, <2>2, QuietSenders
<1>4. ASSUME NEW c \in Calls, StartAfterStop(c) \/ StopReturns(c) \/ ReloadRestarts(c)
      PROVE  Senders'
  <2>1. \/ Finish(c, call[c], "ok") \/ Finish(c, call[c], "error")
    BY <1>4 DEF StartAfterStop, StopReturns, ReloadRestarts, Launch
  <2>2. UNCHANGED <<conn, link>>
    BY <1>4 DEF StartAfterStop, StopReturns, ReloadRestarts
  <2> QED
    BY <1>1, <2>1, <2>2, QuietSenders
<1>5. ASSUME NEW c \in Calls, BeginDisconnect(c) \/ BeginConnect(c)
      PROVE  Senders'
  <2>1. ASSUME NEW op \in ConnectionOps
        PROVE  /\ [Idle EXCEPT !.op = op, !.todo = Snapshot] \in CallRec
               /\ [Idle EXCEPT !.op = op, !.todo = Snapshot].op = op
               /\ [Idle EXCEPT !.op = op] \in CallRec
               /\ [Idle EXCEPT !.op = op].op = op
    BY DEF Idle, CallRec, Ops, ConnectionOps, Snapshot
  <2>2. ASSUME NEW op \in ConnectionOps,
               DisconnectFrom(c, [Idle EXCEPT !.op = op, !.todo = Snapshot], plugin)
        PROVE  Senders'
    <3> DEFINE rec == [Idle EXCEPT !.op = op, !.todo = Snapshot]
    <3>1. rec \in CallRec /\ rec.op = op /\ DisconnectFrom(c, rec, plugin)
      BY <2>1, <2>2
    <3> HIDE DEF rec
    <3> QED
      BY <3>1, DisconnectSenders
  <2>3. CASE ~connected /\ OpenLink(c, [Idle EXCEPT !.op = "connect"])
             /\ UNCHANGED <<txQueue, connected>>
    <3>1. \A l \in Links : link[l].sending = 0
      BY <2>3 DEF Orderly, Senders, Work, Registry, Typed, TypeOK, LinkRec
    <3> DEFINE rec == [Idle EXCEPT !.op = "connect"]
    <3>2. rec \in CallRec /\ rec.op \in ConnectionOps /\ OpenLink(c, rec)
      BY <2>1, <2>3 DEF ConnectionOps
    <3> HIDE DEF rec
    <3> QED
      BY <2>3, <3>1, <3>2, DisconnectedSenders
  <2> QED
    BY <1>5, <2>2, <2>3 DEF BeginDisconnect, BeginConnect, ConnectionOps
<1>6. ASSUME NEW c \in Calls, DisconnectGoesOn(c)
      PROVE  Senders'
  <2>1. call[c] \in CallRec
    BY <1>0
  <2> QED
    BY <1>6, <2>1, DisconnectSenders DEF DisconnectGoesOn
<1>7. ASSUME NEW c \in Calls, LinkClosed(c)
      PROVE  Senders'
  <2>1. /\ call[c] \in CallRec /\ call[c].op \in ConnectionOps
        /\ \A l \in Links : link[l].sending = 0
    BY <1>0, <1>7 DEF LinkClosed, Orderly, Order, CallOK, Senders
  <2> QED
    BY <1>7, <2>1, DisconnectedSenders DEF LinkClosed
<1>8. ASSUME NEW c \in Calls, SetupFails(c)
      PROVE  Senders'
  <2>1. /\ call[c].op \in ConnectionOps
        /\ \A l \in Links : link[l].sending = 0
    BY <1>8 DEF SetupFails, Orderly, Order, CallOK, Senders
  <2>2. call'[c].op = call[c].op /\ call'[c].pc = "error"
    BY <1>0, <1>8 DEF SetupFails, Finish, Idle
  <2>3. \A d \in Calls : call'[d].pc \in {"setup", "closing"} => FALSE
    BY <2>1, <2>2 DEF Disciplined, Busy
  <2> QED
    BY <1>8, <2>1, <2>3 DEF SetupFails, Senders
<1>9. ASSUME NEW c \in Calls, Return(c)
      PROVE  Senders'
  <2>1. \A d \in Calls : call'[d] = call[d] \/ call'[d].pc \notin {"setup", "closing"}
    BY <1>0, <1>9 DEF Return, Idle
  <2> QED
    BY <1>9, <2>1, QuietSenders DEF Return
<1>10. ASSUME NEW t \in Tasks, TaskEnds(t) \/ WorkerReturns(t)
       PROVE  Senders'
  BY <1>10, QuietSenders DEF TaskEnds, WorkerReturns
<1>11. ASSUME NEW l \in Links, LinkLost(l)
       PROVE  Senders'
  BY <1>11, QuietSenders DEF LinkLost
<1> QED
  BY <1>3, <1>4, <1>5, <1>6, <1>7, <1>8, <1>9, <1>10, <1>11, SetupSenders
  DEF Next, Begin, Resume

-----------------------------------------------------------------------------
(* What the discipline buys. *)

LEMMA OrderlyInit == Init => Orderly
<1> SUFFICES ASSUME Init PROVE Orderly
  OBVIOUS
<1>1. Work
  BY RegistryInit DEF Init, Work, Apart, RegisteredWorks, NoPlugin
<1>2. Disciplined
  BY DEF Init, Idle, Disciplined, Busy
<1>3. \A c \in Calls : CallOK(c)
  BY DEF Init, Idle, CallOK
<1>4. OnePlugin /\ Accounted /\ Served
  BY DEF Init, NoPlugin, Done, OnePlugin, Accounted, Served
<1>5. Senders
  BY DEF Init, Idle, NewLink, Senders
<1> QED
  BY <1>1, <1>2, <1>3, <1>4, <1>5 DEF Orderly, Order

LEMMA OrderlyStep == Orderly /\ [Next /\ Disciplined']_vars => Orderly'
<1> SUFFICES ASSUME Orderly, [Next /\ Disciplined']_vars PROVE Orderly'
  OBVIOUS
<1>1. Work'
  BY WorkStep DEF Orderly
<1>2. CASE Next /\ Disciplined'
  BY <1>1, <1>2, OrderStep, SendersStep DEF Orderly
<1>3. CASE UNCHANGED vars
  <2>1. UNCHANGED <<clitool, txQueue, connected, active, link, plugin, task, call>>
    BY <1>3 DEF vars
  <2>2. Disciplined' /\ \A c \in Calls : CallOK(c)'
    BY <2>1 DEF Orderly, Order, Disciplined, Busy, CallOK
  <2>3. OnePlugin' /\ Accounted' /\ Served' /\ Senders'
    BY <2>1 DEF Orderly, Order, OnePlugin, Referenced, Accounted, Served, Senders
  <2> QED
    BY <1>1, <2>2, <2>3 DEF Orderly, Order
<1> QED
  BY <1>2, <1>3

\* A disciplined caller leaves no worker behind: each one that still works is
\* held by a registered plugin, and a stop can reach it.
THEOREM NoWorkerLeftBehind == DisciplinedSpec => []NoOrphan
<1>1. Orderly => NoOrphan
  BY ConstantsAssumption DEF Orderly, Order, Accounted, NoOrphan, Held
<1> QED
  BY <1>1, OrderlyInit, OrderlyStep, PTL DEF DisciplinedSpec

\* Nor are there ever two unfinished workers of an enablement.
THEOREM WorkersFollowEachOther == DisciplinedSpec => []OneWorker
<1>1. Orderly => OneWorker
  <2> SUFFICES ASSUME Orderly, NEW s \in Tasks, NEW t \in Tasks,
                      task[s].state # "done", task[t].state # "done",
                      task[s].enablement = task[t].enablement
               PROVE  s = t
    BY DEF OneWorker
  <2>1. PICK p \in Plugins : s \in plugin[p].tasks /\ plugin[p].enablement = task[s].enablement
    BY DEF Orderly, Order, Accounted
  <2>2. PICK q \in Plugins : t \in plugin[q].tasks /\ plugin[q].enablement = task[t].enablement
    BY DEF Orderly, Order, Accounted
  <2>3. task[s].enablement # None
    BY ConstantsAssumption DEF Orderly, Order, Accounted
  <2> QED
    BY <2>1, <2>2, <2>3 DEF Orderly, Order, OnePlugin
<1> QED
  BY <1>1, OrderlyInit, OrderlyStep, PTL DEF DisciplinedSpec

\* Its registered plugins are always on the current queue of a connected
\* manager.
THEOREM QueueIsCurrent == DisciplinedSpec => []CurrentQueue
<1>1. Orderly => CurrentQueue
  BY DEF Orderly, Order, Served, CurrentQueue
<1> QED
  BY <1>1, OrderlyInit, OrderlyStep, PTL DEF DisciplinedSpec

\* And only the current link has a TX worker, only one.
THEOREM SenderIsOne == DisciplinedSpec => []OneSender
<1>1. Orderly => OneSender
  BY DEF Orderly, Senders, OneSender
<1> QED
  BY <1>1, OrderlyInit, OrderlyStep, PTL DEF DisciplinedSpec

\* Only setup() lets a connect report success.
LEMMA ConnectReturns ==
    ASSUME Orderly, Next, NEW c \in Calls,
           call'[c].op = "connect", call'[c].pc = "ok", call[c].pc # "ok"
    PROVE  SetupReturns(c)
<1>0. call \in [Calls -> CallRec] /\ call'[c] # call[c]
  BY DEF Orderly, Work, Registry, Typed, TypeOK
<1>1. ASSUME NEW d \in Calls, NEW rec, rec.op # "connect", NEW pc, Finish(d, rec, pc)
      PROVE  FALSE
  BY <1>0, <1>1 DEF Finish, Idle
<1>2. ASSUME NEW d \in Calls, NEW rec \in CallRec, NEW p, NEW pl, StopUpToGather(d, rec, p, pl)
      PROVE  FALSE
  BY <1>0, <1>2 DEF StopUpToGather, CallRec
<1>3. ASSUME NEW d \in Calls, NEW rec \in CallRec,
             Disconnected(d, rec) \/ OpenLink(d, rec) \/ CloseLink(d, rec)
      PROVE  FALSE
  <2>1. ~OpenLink(d, rec)
    BY <1>0 DEF OpenLink, CallRec
  <2>2. ~Disconnected(d, rec)
    BY <1>1, <2>1 DEF Disconnected
  <2>3. call' # [call EXCEPT ![d] = [rec EXCEPT !.pc = "closing"]]
    BY <1>0 DEF CallRec
  <2> QED
    BY <1>3, <2>1, <2>2, <2>3 DEF CloseLink
<1>4. ASSUME NEW d \in Calls, NEW rec \in CallRec, NEW pl, DisconnectFrom(d, rec, pl)
      PROVE  FALSE
  <2>1. [Idle EXCEPT !.op = rec.op] \in CallRec
    BY DEF Idle, CallRec
  <2>2. \A e \in rec.todo : [rec EXCEPT !.todo = @ \ {e}] \in CallRec
    BY DEF CallRec
  <2> QED
    BY <1>2, <1>3, <1>4, <2>1, <2>2 DEF DisconnectFrom, PopAndStop
<1>5. ASSUME NEW d \in Calls, NEW e \in Enablements,
             BeginStop(d, e) \/ \E f \in Configs : BeginStart(d, e, f) \/ BeginReload(d, e, f)
      PROVE  FALSE
  <2>1. \E rec \in CallRec :
          /\ rec.op # "connect"
          /\ \/ Finish(d, rec, "ok") \/ Finish(d, rec, "error")
             \/ \E p, pl : StopUpToGather(d, rec, p, pl)
    <3>1. [Idle EXCEPT !.op = "stop", !.enablement = e] \in CallRec
          /\ [Idle EXCEPT !.op = "stop", !.enablement = e].op # "connect"
      BY DEF Idle, CallRec, Ops
    <3>2. \A f \in Configs :
            /\ [Idle EXCEPT !.op = "start", !.enablement = e, !.config = f].op # "connect"
            /\ [Idle EXCEPT !.op = "reload", !.enablement = e, !.config = f].op # "connect"
      BY DEF Idle
    <3> QED
      BY <1>5, <3>1, <3>2, BeginTypes DEF BeginStop, BeginStart, BeginReload, PopAndStop, Launch
  <2> QED
    BY <1>1, <1>2, <2>1
<1>6. ASSUME NEW d \in Calls, StartAfterStop(d) \/ StopReturns(d) \/ ReloadRestarts(d)
      PROVE  FALSE
  BY <1>1, <1>6 DEF StartAfterStop, StopReturns, ReloadRestarts, Launch
<1>7. ASSUME NEW d \in Calls, BeginDisconnect(d) \/ BeginConnect(d)
      PROVE  FALSE
  <2>1. /\ [Idle EXCEPT !.op = "disconnect", !.todo = Snapshot] \in CallRec
        /\ [Idle EXCEPT !.op = "connect", !.todo = Snapshot] \in CallRec
        /\ [Idle EXCEPT !.op = "connect"] \in CallRec
    BY DEF Idle, CallRec, Ops, ConnectionOps, Snapshot
  <2> QED
    BY <1>3, <1>4, <1>7, <2>1 DEF BeginDisconnect, BeginConnect
<1>8. ASSUME NEW d \in Calls, DisconnectGoesOn(d) \/ LinkClosed(d)
      PROVE  FALSE
  BY <1>0, <1>3, <1>4, <1>8 DEF DisconnectGoesOn, LinkClosed
<1>9. ASSUME NEW d \in Calls, Return(d) \/ SetupFails(d)
      PROVE  FALSE
  <2>1. Idle.pc = "idle"
    BY DEF Idle
  <2>2. CASE Return(d)
    BY <1>0, <2>1, <2>2 DEF Return
  <2>3. CASE SetupFails(d)
    <3>1. call'[d].pc = "error"
      BY <1>0, <2>3 DEF SetupFails, Finish, Idle
    <3>2. \A x \in Calls \ {d} : call'[x] = call[x]
      BY <1>0, <2>3 DEF SetupFails, Finish
    <3> QED
      BY <1>0, <3>1, <3>2
  <2> QED
    BY <1>9, <2>2, <2>3
<1>10. ASSUME NEW d \in Calls, SetupReturns(d), d # c
       PROVE  FALSE
  BY <1>0, <1>10 DEF SetupReturns, Finish
<1> QED
  BY <1>0, <1>5, <1>6, <1>7, <1>8, <1>9, <1>10
  DEF Next, Begin, Resume, TaskEnds, WorkerReturns, LinkLost

\* A connect that reports success leaves one link that sends, its queue
\* published and nothing registered on an older one.
THEOREM ConnectAlwaysRecovers == DisciplinedSpec => ConnectRecovers
<1> DEFINE Recovered(c) ==
      call'[c].op = "connect" /\ call'[c].pc = "ok" /\ call[c].pc # "ok" =>
        /\ connected' /\ txQueue' = clitool'
        /\ clitool' # None /\ link'[clitool'].sending = 1
        /\ \A e \in Enablements : active'[e] = None
<1>1. Orderly /\ [Next /\ Disciplined']_vars => [\A c \in Calls : Recovered(c)]_vars
  <2> SUFFICES ASSUME Orderly, Next, Disciplined', NEW c \in Calls,
                      call'[c].op = "connect", call'[c].pc = "ok", call[c].pc # "ok"
               PROVE  /\ connected' /\ txQueue' = clitool'
                      /\ clitool' # None /\ link'[clitool'].sending = 1
                      /\ \A e \in Enablements : active'[e] = None
    OBVIOUS
  <2>1. SetupReturns(c)
    BY ConnectReturns
  <2>2. \A e \in Enablements : active'[e] = None
    BY <2>1 DEF SetupReturns, Orderly, Order, CallOK
  <2> QED
    BY <2>1, <2>2, SetupSenders, ConstantsAssumption
<1> QED
  BY <1>1, OrderlyInit, OrderlyStep, PTL DEF DisciplinedSpec, ConnectRecovers

-----------------------------------------------------------------------------
(* The refinement of Lifecycle. *)

\* What an enablement runs with, as the refinement has it.
Config(e) == IF active[e] = None THEN None ELSE plugin[active[e]].config

LEMMA HasConfig ==
    ASSUME Orderly, NEW e \in Enablements
    PROVE  (Config(e) = None) <=> (active[e] = None)
BY ConstantsAssumption DEF Config, Orderly, Order, Served

\* Steps of Lifecycle, said of Config.
LEMMA AbstractStop ==
    ASSUME NEW e \in Enablements, Config(e) # None, Config(e)' = None,
           \A x \in Enablements : x # e => Config(x)' = Config(x), UNCHANGED connected
    PROVE  Abstract!Next
<1>1. Abstract!Stop(e)
  BY DEF Abstract!Stop, Config
<1> QED
  BY <1>1 DEF Abstract!Next

LEMMA AbstractStart ==
    ASSUME NEW e \in Enablements, NEW f \in Configs, connected,
           Config(e) = None, Config(e)' = f,
           \A x \in Enablements : x # e => Config(x)' = Config(x), UNCHANGED connected
    PROVE  Abstract!Next
<1>1. Abstract!Start(e, f)
  BY DEF Abstract!Start, Config
<1> QED
  BY <1>1 DEF Abstract!Next

LEMMA AbstractReload ==
    ASSUME NEW e \in Enablements, NEW f \in Configs,
           Config(e) # None, Config(e)' = f,
           \A x \in Enablements : x # e => Config(x)' = Config(x), UNCHANGED connected
    PROVE  Abstract!Next
<1>1. Abstract!Reload(e, f)
  BY DEF Abstract!Reload, Config
<1> QED
  BY <1>1 DEF Abstract!Next

LEMMA AbstractQuiet ==
    ASSUME Typed, Typed',
           \A x \in Enablements : Config(x)' = Config(x),
           connected' = connected \/ \A x \in Enablements : Config(x) = None
    PROVE  [Abstract!Next]_(Abstract!vars)
<1>1. [x \in Enablements |-> IF active[x] = None THEN None ELSE plugin[active[x]].config]'
       = [x \in Enablements |-> IF active[x] = None THEN None ELSE plugin[active[x]].config]
  BY DEF Config
<1>2. CASE connected' = connected
  BY <1>1, <1>2 DEF Abstract!vars
<1>3. CASE connected /\ ~connected'
  <2>1. Abstract!Disconnect
    BY <1>1, <1>3 DEF Abstract!Disconnect, Config, Typed, TypeOK
  <2> QED
    BY <2>1 DEF Abstract!Next
<1>4. CASE ~connected /\ connected'
  <2>1. Abstract!Connect
    BY <1>1, <1>4 DEF Abstract!Connect, Typed, TypeOK
  <2> QED
    BY <2>1 DEF Abstract!Next
<1> QED
  BY <1>2, <1>3, <1>4 DEF Typed, TypeOK

\* A registered plugin keeps its config through the collection.
LEMMA KeepsConfig ==
    ASSUME Orderly, NEW c \in Calls, NEW pl, Ready(c, pl), plugin' = Collect(pl),
           NEW x \in Enablements, active'[x] = active[x]
    PROVE  Config(x)' = Config(x)
<1>1. CASE active[x] = None
  BY <1>1 DEF Config
<1>2. CASE active[x] # None
  <2>1. active[x] \in Plugins /\ Referenced(active[x])' /\ active[x] # call[c].plugin
    BY <1>2 DEF Referenced, Ready, Orderly, Work, Registry, Typed, TypeOK
  <2>2. plugin'[active[x]] = pl[active[x]]
    BY <2>1, CollectKeeps
  <2> QED
    BY <1>2, <2>1, <2>2 DEF Ready, Config
<1> QED
  BY <1>1, <1>2

\* stop() up to its gather changes no config.
LEMMA GatherConfig ==
    ASSUME Orderly, NEW c \in Calls, NEW rec, NEW p \in Plugins,
           NEW pl \in [Plugins -> PluginRec], Ready(c, pl), StopUpToGather(c, rec, p, pl),
           NEW x \in Enablements, active'[x] = active[x]
    PROVE  Config(x)' = Config(x)
<1> DEFINE more == [pl EXCEPT ![p].waiters = Append(@, c)]
<1>1. \A q \in Plugins : /\ more[q].tasks = pl[q].tasks
                         /\ more[q].queue = pl[q].queue
                         /\ more[q].config = pl[q].config
                         /\ more[q].enablement = pl[q].enablement
  BY DEF PluginRec
<1>2. plugin' = Collect(more)
  BY DEF StopUpToGather
<1> HIDE DEF more
<1>3. Ready(c, more)
  BY <1>1 DEF Ready
<1> QED
  BY <1>2, <1>3, KeepsConfig

\* A pop takes one config away.
LEMMA PopConfig ==
    ASSUME Orderly, NEW c \in Calls, NEW rec, NEW e \in Enablements,
           NEW pl \in [Plugins -> PluginRec], Ready(c, pl), PopAndStop(c, rec, e, pl)
    PROVE  /\ Config(e) # None /\ Config(e)' = None
           /\ \A x \in Enablements : x # e => Config(x)' = Config(x)
<1>1. /\ active[e] \in Plugins /\ active[e] # None
      /\ active'[e] = None
      /\ \A x \in Enablements : x # e => active'[x] = active[x]
      /\ StopUpToGather(c, rec, active[e], pl)
  BY DEF PopAndStop, Orderly, Work, Registry, Typed, TypeOK
<1>2. \A x \in Enablements : x # e => Config(x)' = Config(x)
  BY <1>1, GatherConfig
<1>3. Config(e)' = None /\ Config(e) # None
  BY <1>1, HasConfig DEF Config
<1> QED
  BY <1>2, <1>3

\* A pop is a stop.
LEMMA PopStops ==
    ASSUME Orderly, NEW c \in Calls, NEW rec, NEW e \in Enablements,
           NEW pl \in [Plugins -> PluginRec], Ready(c, pl),
           PopAndStop(c, rec, e, pl), UNCHANGED connected
    PROVE  Abstract!Next
BY PopConfig, AbstractStop

\* A launch gives the enablement its config, if its type is known.
LEMMA LaunchConfig ==
    ASSUME Orderly, Typed', NEW c \in Calls, NEW rec,
           NEW pl \in [Plugins -> PluginRec], Ready(c, pl),
           NEW e \in Enablements, rec.enablement = e, active[e] = None,
           Launch(c, rec, pl)
    PROVE  \/ /\ e \notin Registered /\ Finish(c, rec, "error")
              /\ \A x \in Enablements : Config(x)' = Config(x)
           \/ /\ e \in Registered /\ Finish(c, rec, "ok")
              /\ Config(e) = None /\ Config(e)' = rec.config
              /\ \A x \in Enablements : x # e => Config(x)' = Config(x)
<1>1. ASSUME UNCHANGED active, plugin' = Collect(pl), NEW x \in Enablements
      PROVE  Config(x)' = Config(x)
  BY <1>1, KeepsConfig
<1>2. ASSUME NEW p \in Plugins, NEW t, FreePlugin(p),
             active' = [active EXCEPT ![rec.enablement] = p],
             plugin' = Collect([pl EXCEPT ![p] =
               [enablement |-> rec.enablement, queue |-> txQueue,
                config |-> rec.config, tasks |-> {t}, waiters |-> <<>>]])
      PROVE  /\ Config(e) = None /\ Config(e)' = rec.config
             /\ \A x \in Enablements : x # e => Config(x)' = Config(x)
  <2> DEFINE new == [enablement |-> rec.enablement, queue |-> txQueue,
                     config |-> rec.config, tasks |-> {t}, waiters |-> <<>>]
             more == [pl EXCEPT ![p] = new]
  <2>1. /\ new.config = rec.config /\ more[p] = new
        /\ \A q \in Plugins \ {p} : more[q] = pl[q]
    BY <1>2
  <2>2. plugin' = Collect(more)
    BY <1>2
  <2> HIDE DEF new, more
  <2>4. \A x \in Enablements : active'[x] = IF x = e THEN p ELSE active[x]
    BY <1>2 DEF Orderly, Work, Registry, Typed, TypeOK
  <2>5. Referenced(p)'
    BY <2>4 DEF Referenced
  <2>6. Config(e)' = rec.config
    BY <2>1, <2>2, <2>4, <2>5, CollectKeeps, ConstantsAssumption DEF Config
  <2>7. ASSUME NEW x \in Enablements, x # e
        PROVE  Config(x)' = Config(x)
    <3>1. CASE active[x] = None
      BY <2>4, <2>7, <3>1 DEF Config
    <3>2. CASE active[x] # None
      <4>1. /\ active'[x] = active[x] /\ active[x] \in Plugins /\ active[x] # p
            /\ active[x] # call[c].plugin
        BY <1>2, <2>4, <2>7, <3>2
           DEF FreePlugin, Referenced, Ready, Orderly, Work, Registry, Typed, TypeOK
      <4>2. Referenced(active[x])'
        BY <4>1 DEF Referenced
      <4>3. plugin'[active[x]] = pl[active[x]]
        BY <2>1, <2>2, <4>1, <4>2, CollectKeeps
      <4> QED
        BY <3>2, <4>1, <4>3 DEF Config, Ready
    <3> QED
      BY <3>1, <3>2
  <2>8. Config(e) = None
    BY DEF Config
  <2> QED
    BY <2>6, <2>7, <2>8
<1> QED
  BY <1>1, <1>2 DEF Launch

\* A launch is a start.
LEMMA LaunchStarts ==
    ASSUME Orderly, Typed', NEW c \in Calls, NEW rec,
           NEW pl \in [Plugins -> PluginRec], Ready(c, pl),
           rec.enablement \in Enablements, active[rec.enablement] = None,
           rec.config \in Configs, connected, UNCHANGED connected,
           Launch(c, rec, pl)
    PROVE  [Abstract!Next]_(Abstract!vars)
<1>1. PICK e \in Enablements : e = rec.enablement
  OBVIOUS
<1>2. CASE \A x \in Enablements : Config(x)' = Config(x)
  BY <1>2, AbstractQuiet DEF Orderly, Work, Registry
<1>3. CASE /\ Config(e) = None /\ Config(e)' = rec.config
           /\ \A x \in Enablements : x # e => Config(x)' = Config(x)
  BY <1>3, AbstractStart
<1> QED
  BY <1>1, <1>2, <1>3, LaunchConfig

\* A disconnect stops one enablement after the other, then goes down.
LEMMA DisconnectSimulates ==
    ASSUME Orderly, Typed', NEW c \in Calls, NEW rec, rec.todo \subseteq Enablements,
           \A e \in Enablements : active[e] # None => e \in rec.todo,
           NEW pl \in [Plugins -> PluginRec], Ready(c, pl),
           DisconnectFrom(c, rec, pl)
    PROVE  [Abstract!Next]_(Abstract!vars)
<1>1. ASSUME NEW e \in rec.todo, UNCHANGED conn,
             PopAndStop(c, [rec EXCEPT !.todo = @ \ {e}], e, pl)
      PROVE  Abstract!Next
  BY <1>1, PopStops DEF conn
<1>2. CASE /\ \A e \in rec.todo : active[e] = None
           /\ UNCHANGED active /\ plugin' = Collect(pl)
  <2>1. \A x \in Enablements : Config(x) = None
    BY <1>2 DEF Config
  <2>2. \A x \in Enablements : Config(x)' = Config(x)
    BY <1>2, KeepsConfig
  <2> QED
    BY <2>1, <2>2, AbstractQuiet DEF Orderly, Work, Registry
<1> QED
  BY <1>1, <1>2 DEF DisconnectFrom

\* A reload replaces one config by the one of its call.
LEMMA RestartConfig ==
    ASSUME Orderly, NEW c \in Calls, ReloadRestarts(c)
    PROVE  \E e \in Enablements, f \in Configs :
             /\ e = call[c].enablement /\ f = call[c].config
             /\ Config(e) # None /\ Config(e)' = f
             /\ \A x \in Enablements : x # e => Config(x)' = Config(x)
<1> DEFINE p == call[c].plugin
<1>1. /\ p \in Plugins
      /\ StoppedBy(c) \in [Plugins -> PluginRec]
      /\ Woken(c) /\ UNCHANGED <<active, conn>>
      /\ call[c].op = "reload" /\ call[c].pc = "stopping"
  BY StoppedByType DEF ReloadRestarts, Orderly, Work, Registry, Woken
<1>2. PICK t \in Tasks : plugin' = Collect([StoppedBy(c) EXCEPT ![p] =
             [StoppedBy(c)[p] EXCEPT !.tasks = StoppedBy(c)[p].tasks \cup {t},
                                     !.config = call[c].config]])
  BY DEF ReloadRestarts
<1> DEFINE pl == [StoppedBy(c) EXCEPT ![p] =
             [StoppedBy(c)[p] EXCEPT !.tasks = StoppedBy(c)[p].tasks \cup {t},
                                     !.config = call[c].config]]
<1>3. /\ pl[p].config = call[c].config
      /\ \A q \in Plugins : q # p => pl[q] = plugin[q]
  <2>1. StoppedBy(c)[p] \in PluginRec
    BY <1>1
  <2> DEFINE new == [StoppedBy(c)[p] EXCEPT !.tasks = StoppedBy(c)[p].tasks \cup {t},
                                            !.config = call[c].config]
  <2>2. new.config = call[c].config
    BY <2>1 DEF PluginRec
  <2>3. /\ pl[p] = new
        /\ \A q \in Plugins : q # p => pl[q] = StoppedBy(c)[q] /\ StoppedBy(c)[q] = plugin[q]
    BY <1>1 DEF StoppedBy, Orderly, Work, Registry, Typed, TypeOK
  <2> HIDE DEF pl, new
  <2> QED
    BY <2>2, <2>3
<1>4. plugin' = Collect(pl)
  BY <1>2
<1> HIDE DEF pl, p
<1>5. PICK e \in Enablements : /\ e = call[c].enablement /\ active[e] = p
                               /\ call[c].config \in Configs
  BY <1>1 DEF Orderly, Order, CallOK, ConnectionOps, p
<1>6. ASSUME NEW x \in Enablements, active[x] # None
      PROVE  Config(x)' = pl[active[x]].config
  <2>1. PICK q \in Plugins : q = active[x]
    BY <1>6 DEF Orderly, Work, Registry, Typed, TypeOK
  <2>2. Referenced(q)'
    BY <1>1, <2>1 DEF Referenced
  <2>3. plugin'[q] = pl[q]
    BY <1>4, <2>2, CollectKeeps
  <2> QED
    BY <1>1, <1>6, <2>1, <2>3 DEF Config
<1>7. Config(e)' = call[c].config /\ Config(e) # None
  BY <1>1, <1>3, <1>5, <1>6, HasConfig, ConstantsAssumption
<1>8. ASSUME NEW x \in Enablements, x # e
      PROVE  Config(x)' = Config(x)
  <2>1. CASE active[x] = None
    BY <1>1, <2>1 DEF Config
  <2>2. CASE active[x] # None
    <3>1. active[x] \in Plugins /\ active[x] # p
      BY <1>5, <1>8, <2>2 DEF Orderly, Work, Registry, OneTask, Typed, TypeOK
    <3> QED
      BY <1>3, <1>6, <2>2, <3>1 DEF Config
  <2> QED
    BY <2>1, <2>2
<1> QED
  BY <1>5, <1>7, <1>8

\* A reload is a reload.
LEMMA ReloadSimulates ==
    ASSUME Orderly, NEW c \in Calls, ReloadRestarts(c)
    PROVE  Abstract!Next
<1>1. PICK e \in Enablements, f \in Configs :
             /\ Config(e) # None /\ Config(e)' = f
             /\ \A x \in Enablements : x # e => Config(x)' = Config(x)
  BY RestartConfig
<1> QED
  BY <1>1, AbstractReload DEF ReloadRestarts, conn

\* A step that leaves the registry and the plugins alone is a stutter, or the
\* connection going up or down with nothing running.
LEMMA QuietSimulates ==
    ASSUME Orderly, Typed', UNCHANGED <<active, plugin>>,
           UNCHANGED connected \/ \A e \in Enablements : active[e] = None
    PROVE  [Abstract!Next]_(Abstract!vars)
<1>1. \A x \in Enablements : Config(x)' = Config(x)
  BY DEF Config
<1>2. connected' = connected \/ \A x \in Enablements : Config(x) = None
  BY DEF Config
<1> QED
  BY <1>1, <1>2, AbstractQuiet DEF Orderly, Work, Registry

LEMMA StartSimulates ==
    ASSUME Orderly, Typed', NEW c \in Calls,
           StartAfterStop(c) \/ \E e \in Enablements, f \in Configs : BeginStart(c, e, f)
    PROVE  [Abstract!Next]_(Abstract!vars)
<1>0. plugin \in [Plugins -> PluginRec] /\ call \in [Calls -> CallRec]
  BY DEF Orderly, Work, Registry, Typed, TypeOK
<1>1. ASSUME NEW e \in Enablements, NEW f \in Configs, BeginStart(c, e, f)
      PROVE  [Abstract!Next]_(Abstract!vars)
  <2> DEFINE rec == [Idle EXCEPT !.op = "start", !.enablement = e, !.config = f]
  <2>1. rec.enablement = e /\ rec.config = f
    BY BeginTypes DEF Idle
  <2>2. \/ UNCHANGED <<active, plugin>>
        \/ CanStart /\ active[e] = None /\ Launch(c, rec, plugin)
        \/ PopAndStop(c, rec, e, plugin)
    BY <1>1 DEF BeginStart, Running
  <2> HIDE DEF rec
  <2>3. UNCHANGED connected /\ Ready(c, plugin)
    BY <1>1, IdleReady DEF BeginStart, conn
  <2>4. CASE UNCHANGED <<active, plugin>>
    BY <2>3, <2>4, QuietSimulates
  <2>5. CASE CanStart /\ active[e] = None /\ Launch(c, rec, plugin)
    BY <1>0, <2>1, <2>3, <2>5, LaunchStarts DEF CanStart
  <2>6. CASE PopAndStop(c, rec, e, plugin)
    BY <1>0, <2>3, <2>6, PopStops
  <2> QED
    BY <2>2, <2>4, <2>5, <2>6
<1>2. CASE StartAfterStop(c)
  <2>1. /\ Woken(c) /\ call[c].op = "start" /\ call[c].pc = "stopping"
        /\ Launch(c, call[c], StoppedBy(c)) /\ UNCHANGED connected
    BY <1>2 DEF StartAfterStop, Woken, conn
  <2>2. Ready(c, StoppedBy(c)) /\ StoppedBy(c) \in [Plugins -> PluginRec]
    BY <2>1, WokenReady
  <2>3. /\ connected /\ call[c].config \in Configs
        /\ call[c].enablement = plugin[call[c].plugin].enablement
        /\ call[c].enablement \in Enablements
    BY <1>0, <2>1 DEF Orderly, Order, CallOK, ConnectionOps
  <2>4. active[call[c].enablement] = None
    <3> SUFFICES ASSUME active[call[c].enablement] # None PROVE FALSE
      OBVIOUS
    <3>1. /\ active[call[c].enablement] \in Plugins
          /\ plugin[active[call[c].enablement]].enablement = call[c].enablement
      BY <2>3 DEF Orderly, Work, Registry, OneTask, Typed, TypeOK
    <3>2. call[c].plugin \in Plugins /\ active[call[c].enablement] # call[c].plugin
      BY <2>1, <2>2, <2>3 DEF Ready, Orderly, Work, Registry, Typed, StoppingHasPlugin
    <3> QED
      BY <2>3, <3>1, <3>2, ConstantsAssumption DEF Orderly, Order, OnePlugin
  <2> QED
    BY <2>1, <2>2, <2>3, <2>4, LaunchStarts
<1> QED
  BY <1>1, <1>2

LEMMA ConnectionSimulates ==
    ASSUME Orderly, Typed', NEW c \in Calls,
           BeginDisconnect(c) \/ BeginConnect(c) \/ DisconnectGoesOn(c)
    PROVE  [Abstract!Next]_(Abstract!vars)
<1>0. plugin \in [Plugins -> PluginRec] /\ call \in [Calls -> CallRec]
  BY DEF Orderly, Work, Registry, Typed, TypeOK
<1>1. ASSUME NEW op \in ConnectionOps, call[c].pc = "idle",
             DisconnectFrom(c, [Idle EXCEPT !.op = op, !.todo = Snapshot], plugin)
      PROVE  [Abstract!Next]_(Abstract!vars)
  <2>1. [Idle EXCEPT !.op = op, !.todo = Snapshot].todo = Snapshot
    BY DEF Idle
  <2>2. /\ Snapshot \subseteq Enablements
        /\ \A e \in Enablements : active[e] # None => e \in Snapshot
    BY DEF Snapshot
  <2> QED
    BY <1>0, <1>1, <2>1, <2>2, IdleReady, DisconnectSimulates
<1>2. CASE call[c].pc = "idle" /\ UNCHANGED <<connected, active, plugin>>
  BY <1>2, QuietSimulates
<1>3. CASE DisconnectGoesOn(c)
  <2>1. /\ Woken(c) /\ call[c].op \in ConnectionOps /\ call[c].pc = "stopping"
        /\ DisconnectFrom(c, call[c], StoppedBy(c))
    BY <1>3 DEF DisconnectGoesOn, Woken
  <2>2. Ready(c, StoppedBy(c)) /\ StoppedBy(c) \in [Plugins -> PluginRec]
    BY <2>1, WokenReady DEF ConnectionOps
  <2>3. /\ call[c].todo \subseteq Enablements
        /\ \A e \in Enablements : active[e] # None => e \in call[c].todo
    BY <1>0, <2>1 DEF CallRec, Orderly, Order, CallOK
  <2> QED
    BY <2>1, <2>2, <2>3, DisconnectSimulates
<1> QED
  BY <1>1, <1>2, <1>3 DEF BeginDisconnect, BeginConnect, ConnectionOps

\* Every step of the manager is a step of Lifecycle or changes nothing of it.
LEMMA StepSimulates ==
    ASSUME Orderly, Typed', [Next]_vars
    PROVE  [Abstract!Next]_(Abstract!vars)
<1>0. plugin \in [Plugins -> PluginRec]
  BY DEF Orderly, Work, Registry, Typed, TypeOK
<1>1. ASSUME NEW c \in Calls, NEW e \in Enablements, BeginStop(c, e)
      PROVE  [Abstract!Next]_(Abstract!vars)
  <2>1. /\ call[c].pc = "idle" /\ UNCHANGED connected
        /\ \/ PopAndStop(c, [Idle EXCEPT !.op = "stop", !.enablement = e], e, plugin)
           \/ UNCHANGED <<active, plugin>>
    BY <1>1 DEF BeginStop, conn
  <2> QED
    BY <1>0, <2>1, IdleReady, PopStops, QuietSimulates
<1>2. ASSUME NEW c \in Calls, StopReturns(c)
      PROVE  [Abstract!Next]_(Abstract!vars)
  <2>1. /\ UNCHANGED <<connected, active>> /\ plugin' = Collect(StoppedBy(c))
        /\ Ready(c, StoppedBy(c))
    BY <1>2, WokenReady DEF StopReturns, conn
  <2>2. \A x \in Enablements : Config(x)' = Config(x)
    BY <2>1, KeepsConfig
  <2> QED
    BY <2>1, <2>2, AbstractQuiet DEF Orderly, Work, Registry
<1>3. ASSUME NEW c \in Calls, NEW e \in Enablements, NEW f \in Configs, BeginReload(c, e, f)
      PROVE  [Abstract!Next]_(Abstract!vars)
  <2> DEFINE rec == [Idle EXCEPT !.op = "reload", !.enablement = e, !.config = f]
  <2>1. /\ call[c].pc = "idle" /\ UNCHANGED connected
        /\ \/ UNCHANGED <<active, plugin>>
           \/ active[e] # None /\ active' = active
              /\ StopUpToGather(c, rec, active[e], plugin)
    BY <1>3 DEF BeginReload, conn
  <2> HIDE DEF rec
  <2>2. CASE UNCHANGED <<active, plugin>>
    BY <2>1, <2>2, QuietSimulates
  <2>3. CASE active[e] # None /\ active' = active
             /\ StopUpToGather(c, rec, active[e], plugin)
    <3>1. active[e] \in Plugins
      BY <2>3 DEF Orderly, Work, Registry, Typed, TypeOK
    <3>2. \A x \in Enablements : Config(x)' = Config(x)
      BY <1>0, <2>1, <2>3, <3>1, IdleReady, GatherConfig
    <3> QED
      BY <2>1, <3>2, AbstractQuiet DEF Orderly, Work, Registry
  <2> QED
    BY <2>1, <2>2, <2>3
<1>4. ASSUME NEW c \in Calls, LinkClosed(c) \/ SetupReturns(c) \/ SetupFails(c) \/ Return(c)
      PROVE  [Abstract!Next]_(Abstract!vars)
  <2>1. UNCHANGED <<active, plugin>>
    BY <1>4 DEF LinkClosed, SetupReturns, SetupFails, Return
  <2>2. call[c].pc \in {"setup", "closing"} \/ UNCHANGED connected
    BY <1>4 DEF LinkClosed, SetupReturns, SetupFails, Return, conn
  <2> QED
    BY <2>1, <2>2, QuietSimulates DEF Orderly, Order, CallOK
<1>5. ASSUME UNCHANGED <<conn, active, plugin>>
      PROVE  [Abstract!Next]_(Abstract!vars)
  BY <1>5, QuietSimulates DEF conn
<1>6. ASSUME NEW t \in Tasks, TaskEnds(t) \/ WorkerReturns(t)
      PROVE  UNCHANGED <<conn, active, plugin>>
  BY <1>6 DEF TaskEnds, WorkerReturns
<1>7. ASSUME NEW l \in Links, LinkLost(l)
      PROVE  UNCHANGED <<conn, active, plugin>>
  BY <1>7 DEF LinkLost
<1>8. CASE UNCHANGED vars
  BY <1>5, <1>8 DEF vars, conn
<1>9. ASSUME NEW c \in Calls, Begin(c)
      PROVE  [Abstract!Next]_(Abstract!vars)
  BY <1>1, <1>3, <1>9, StartSimulates, ConnectionSimulates DEF Begin
<1>10. ASSUME NEW c \in Calls, Resume(c)
       PROVE  [Abstract!Next]_(Abstract!vars)
  BY <1>2, <1>4, <1>10, StartSimulates, ReloadSimulates, ConnectionSimulates DEF Resume
<1> QED
  BY <1>4, <1>5, <1>6, <1>7, <1>8, <1>9, <1>10 DEF Next

\* The manager of a disciplined caller implements Lifecycle: each of its steps,
\* from one suspension to the next, is one start, stop, reload, connect or
\* disconnect of the abstract manager, or a step the caller cannot tell.
THEOREM LifecycleImplemented == DisciplinedSpec => ImplementsLifecycle
<1>1. ASSUME Init PROVE Abstract!Init
  BY <1>1 DEF Init, Abstract!Init
<1>2. ASSUME Orderly, Orderly', [Next /\ Disciplined']_vars
      PROVE  [Abstract!Next]_(Abstract!vars)
  BY <1>2, StepSimulates DEF Orderly, Work, Registry
<1> QED
  BY <1>1, <1>2, OrderlyInit, OrderlyStep, PTL
     DEF DisciplinedSpec, ImplementsLifecycle, Abstract!Spec

=============================================================================
