---------------------------- MODULE RuntimeProofs ----------------------------
(***************************************************************************)
(* Theorems about Runtime for every value of its constants: any number of  *)
(* enablements, calls, plugins, tasks and links.                           *)
(***************************************************************************)
EXTENDS RuntimeProperties, TLAPS

-----------------------------------------------------------------------------
(* Types. *)

\* A call suspended in plugin.stop() names the plugin it stops.
StoppingHasPlugin ==
    \A c \in Calls : call[c].pc = "stopping" => call[c].plugin \in Plugins

Typed == TypeOK /\ StoppingHasPlugin

\* Collecting unreferenced plugins keeps the types of the others.
LEMMA CollectType ==
    ASSUME NEW pl \in [Plugins -> PluginRec]
    PROVE  Collect(pl) \in [Plugins -> PluginRec]
<1>1. NoPlugin \in PluginRec
  BY DEF NoPlugin, PluginRec
<1> QED
  BY <1>1 DEF Collect

\* Cancelling tasks keeps their types.
LEMMA CancelledType ==
    ASSUME TypeOK, NEW ts
    PROVE  Cancelled(ts) \in [Tasks -> TaskRec]
BY DEF TypeOK, Cancelled, TaskRec

\* The record of a call that returned, or of one not in progress.
LEMMA IdleType == Idle \in CallRec
BY DEF Idle, CallRec

\* Finish leaves the other calls alone and takes c out of progress.
LEMMA FinishType ==
    ASSUME Typed, NEW c \in Calls, NEW rec \in CallRec, NEW pc \in {"ok", "error"},
           Finish(c, rec, pc)
    PROVE  /\ call' \in [Calls -> CallRec]
           /\ \A d \in Calls : call'[d].pc = "stopping" => call'[d].plugin \in Plugins
BY IdleType DEF Typed, TypeOK, StoppingHasPlugin, Finish, Idle, CallRec

\* stop() up to its gather.
LEMMA StopUpToGatherType ==
    ASSUME Typed, NEW c \in Calls, NEW rec \in CallRec, NEW p \in Plugins,
           NEW pl \in [Plugins -> PluginRec], StopUpToGather(c, rec, p, pl)
    PROVE  /\ call' \in [Calls -> CallRec]
           /\ \A d \in Calls : call'[d].pc = "stopping" => call'[d].plugin \in Plugins
           /\ task' \in [Tasks -> TaskRec]
           /\ plugin' \in [Plugins -> PluginRec]
<1>1. pl[p].tasks \in SUBSET Tasks
  BY DEF PluginRec
<1>2. [rec EXCEPT !.pc = "stopping", !.plugin = p, !.waits = pl[p].tasks] \in CallRec
  BY <1>1 DEF CallRec, InProgress
<1>3. /\ call' \in [Calls -> CallRec]
      /\ \A d \in Calls : call'[d].pc = "stopping" => call'[d].plugin \in Plugins
  BY <1>2 DEF StopUpToGather, Typed, TypeOK, StoppingHasPlugin, CallRec
<1>4. [pl EXCEPT ![p].waiters = Append(@, c)] \in [Plugins -> PluginRec]
  <2>1. Append(pl[p].waiters, c) \in Seq(Calls)
    BY DEF PluginRec
  <2>2. [pl[p] EXCEPT !.waiters = Append(@, c)] \in PluginRec
    BY <2>1 DEF PluginRec
  <2> QED
    BY <2>2
<1> QED
  BY <1>3, <1>4, CollectType, CancelledType DEF StopUpToGather, Typed

\* The plugin objects once c goes on after its gather.
LEMMA StoppedByType ==
    ASSUME Typed, NEW c \in Calls, Woken(c)
    PROVE  /\ call[c].plugin \in Plugins
           /\ StoppedBy(c) \in [Plugins -> PluginRec]
<1>1. call[c].plugin \in Plugins
  BY DEF Woken, Typed, StoppingHasPlugin
<1>2. /\ plugin[call[c].plugin].waiters \in Seq(Calls)
      /\ plugin[call[c].plugin].waiters # <<>>
  BY <1>1 DEF Woken, NextWaiter, Typed, TypeOK, PluginRec
<1>3. Tail(plugin[call[c].plugin].waiters) \in Seq(Calls)
  BY <1>2
<1>4. [plugin[call[c].plugin] EXCEPT !.tasks = {},
            !.waiters = Tail(plugin[call[c].plugin].waiters)] \in PluginRec
  BY <1>1, <1>3 DEF Typed, TypeOK, PluginRec
<1> QED
  BY <1>1, <1>4 DEF StoppedBy, Typed, TypeOK

\* Launching a plugin, for a call c whose record is rec.
LEMMA LaunchType ==
    ASSUME Typed, NEW c \in Calls, NEW rec \in CallRec,
           NEW pl \in [Plugins -> PluginRec], Launch(c, rec, pl)
    PROVE  /\ active' \in [Enablements -> Plugins \cup {None}]
           /\ plugin' \in [Plugins -> PluginRec]
           /\ task' \in [Tasks -> TaskRec]
           /\ call' \in [Calls -> CallRec]
           /\ \A d \in Calls : call'[d].pc = "stopping" => call'[d].plugin \in Plugins
<1>1. CASE rec.enablement \notin Registered
  BY <1>1, FinishType, CollectType DEF Launch, Typed, TypeOK
<1>2. CASE rec.enablement \in Registered
  <2>1. PICK p \in Plugins, t \in Tasks :
          /\ active' = [active EXCEPT ![rec.enablement] = p]
          /\ task' = [task EXCEPT
                        ![t] = Worker(rec.enablement, txQueue, rec.config)]
          /\ Finish(c, rec, "ok")
          /\ plugin' = Collect([pl EXCEPT ![p] =
               [enablement |-> rec.enablement, queue |-> txQueue,
                config |-> rec.config, tasks |-> {t}, waiters |-> <<>>]])
    BY <1>2 DEF Launch
  <2>2. /\ rec.enablement \in Enablements \cup {None}
        /\ rec.config \in Configs \cup {None}
        /\ txQueue \in Links \cup {None}
    BY DEF CallRec, Typed, TypeOK
  <2>3. Worker(rec.enablement, txQueue, rec.config) \in TaskRec
    BY <2>2 DEF Worker, TaskRec
  <2>4. <<>> \in Seq(Calls)
    OBVIOUS
  <2>5. [enablement |-> rec.enablement, queue |-> txQueue,
         config |-> rec.config, tasks |-> {t}, waiters |-> <<>>] \in PluginRec
    BY <2>2, <2>4 DEF PluginRec
  <2>6. [pl EXCEPT ![p] =
           [enablement |-> rec.enablement, queue |-> txQueue,
            config |-> rec.config, tasks |-> {t}, waiters |-> <<>>]]
          \in [Plugins -> PluginRec]
    BY <2>5
  <2> QED
    BY <2>1, <2>3, <2>6, FinishType, CollectType DEF Typed, TypeOK
<1> QED
  BY <1>1, <1>2

\* Popping a plugin and stopping it.
LEMMA PopAndStopType ==
    ASSUME Typed, NEW c \in Calls, NEW rec \in CallRec, NEW e \in Enablements,
           NEW pl \in [Plugins -> PluginRec], PopAndStop(c, rec, e, pl)
    PROVE  /\ active' \in [Enablements -> Plugins \cup {None}]
           /\ plugin' \in [Plugins -> PluginRec]
           /\ task' \in [Tasks -> TaskRec]
           /\ call' \in [Calls -> CallRec]
           /\ \A d \in Calls : call'[d].pc = "stopping" => call'[d].plugin \in Plugins
<1>1. active[e] \in Plugins /\ StopUpToGather(c, rec, active[e], pl)
  BY DEF PopAndStop, Typed, TypeOK
<1> QED
  BY <1>1, StopUpToGatherType DEF PopAndStop, Typed, TypeOK

\* The connection fields, links and calls, which OpenLink and the end of
\* disconnect_tak change.
ConnTypedNext ==
    /\ clitool' \in Links \cup {None}
    /\ txQueue' \in Links \cup {None}
    /\ connected' \in BOOLEAN
    /\ link' \in [Links -> LinkRec]
    /\ call' \in [Calls -> CallRec]
    /\ \A d \in Calls : call'[d].pc = "stopping" => call'[d].plugin \in Plugins

\* Opening a new link.
LEMMA OpenLinkType ==
    ASSUME Typed, NEW c \in Calls, NEW rec \in CallRec, OpenLink(c, rec)
    PROVE  /\ clitool' \in Links
           /\ link' \in [Links -> LinkRec]
           /\ call' \in [Calls -> CallRec]
           /\ \A d \in Calls : call'[d].pc = "stopping" => call'[d].plugin \in Plugins
<1>1. PICK l \in Links :
        /\ clitool' = l
        /\ link' = [link EXCEPT ![l] = NewLink]
        /\ call' = [call EXCEPT ![c] = [rec EXCEPT !.pc = "setup", !.link = l]]
  BY DEF OpenLink
<1>2. NewLink \in LinkRec
  BY DEF NewLink, LinkRec
<1>3. [rec EXCEPT !.pc = "setup", !.link = l] \in CallRec
  BY DEF CallRec, InProgress
<1>4. [rec EXCEPT !.pc = "setup", !.link = l].pc = "setup"
  BY DEF CallRec
<1> QED
  BY <1>1, <1>2, <1>3, <1>4 DEF Typed, TypeOK, StoppingHasPlugin

\* The end of disconnect_tak, and what connect_tak does after it.
LEMMA DisconnectedType ==
    ASSUME Typed, NEW c \in Calls, NEW rec \in CallRec, Disconnected(c, rec)
    PROVE  ConnTypedNext
<1>1. CASE rec.op = "disconnect" /\ clitool' = None /\ Finish(c, rec, "ok")
           /\ UNCHANGED link
  BY <1>1, FinishType DEF Disconnected, ConnTypedNext, Typed, TypeOK
<1>2. CASE rec.op = "connect" /\ OpenLink(c, rec)
  BY <1>2, OpenLinkType DEF Disconnected, ConnTypedNext
<1> QED
  BY <1>1, <1>2 DEF Disconnected

\* Cancelling the link's tasks.
LEMMA CloseLinkType ==
    ASSUME Typed, NEW c \in Calls, NEW rec \in CallRec, CloseLink(c, rec)
    PROVE  ConnTypedNext
<1>1. CASE LinkHasTasks
  <2>1. /\ link' = [link EXCEPT ![clitool].sending = 0]
        /\ call' = [call EXCEPT ![c] = [rec EXCEPT !.pc = "closing"]]
        /\ UNCHANGED conn
    BY <1>1 DEF CloseLink
  <2>2. [rec EXCEPT !.pc = "closing"] \in CallRec
    BY DEF CallRec, InProgress
  <2>3. [rec EXCEPT !.pc = "closing"].pc = "closing"
    BY DEF CallRec
  <2>4. link' \in [Links -> LinkRec]
    BY <2>1 DEF Typed, TypeOK, LinkRec
  <2> QED
    BY <2>1, <2>2, <2>3, <2>4 DEF ConnTypedNext, Typed, TypeOK, StoppingHasPlugin, conn
<1>2. CASE ~LinkHasTasks
  BY <1>2, DisconnectedType DEF CloseLink
<1> QED
  BY <1>1, <1>2

\* The loop of disconnect_tak from any snapshot on.
LEMMA DisconnectFromType ==
    ASSUME Typed, NEW c \in Calls, NEW rec \in CallRec,
           NEW pl \in [Plugins -> PluginRec], DisconnectFrom(c, rec, pl)
    PROVE  Typed'
<1>1. CASE \E e \in rec.todo :
             /\ PopAndStop(c, [rec EXCEPT !.todo = @ \ {e}], e, pl)
             /\ UNCHANGED <<conn, link>>
  <2>1. PICK e \in rec.todo :
             /\ PopAndStop(c, [rec EXCEPT !.todo = @ \ {e}], e, pl)
             /\ UNCHANGED <<conn, link>>
    BY <1>1
  <2>2. e \in Enablements /\ [rec EXCEPT !.todo = @ \ {e}] \in CallRec
    BY DEF CallRec
  <2> QED
    BY <2>1, <2>2, PopAndStopType DEF Typed, TypeOK, StoppingHasPlugin, conn
<1>2. CASE /\ CloseLink(c, [Idle EXCEPT !.op = rec.op])
           /\ UNCHANGED <<active, task>>
           /\ plugin' = Collect(pl)
  <2>1. [Idle EXCEPT !.op = rec.op] \in CallRec
    BY DEF CallRec, Idle
  <2>2. ConnTypedNext
    BY <1>2, <2>1, CloseLinkType
  <2> QED
    BY <1>2, <2>2, CollectType DEF Typed, TypeOK, StoppingHasPlugin, ConnTypedNext
<1> QED
  BY <1>1, <1>2 DEF DisconnectFrom

\* Records of the calls that begin.
LEMMA BeginTypes ==
    ASSUME NEW e \in Enablements, NEW f \in Configs
    PROVE  /\ [Idle EXCEPT !.op = "start", !.enablement = e, !.config = f] \in CallRec
           /\ [Idle EXCEPT !.op = "stop", !.enablement = e] \in CallRec
           /\ [Idle EXCEPT !.op = "reload", !.enablement = e, !.config = f] \in CallRec
BY DEF Idle, CallRec, Ops

\* run_tasks keeps the types of the links.
LEMMA RunTasksType ==
    ASSUME NEW lk \in [Links -> LinkRec], NEW l \in Links
    PROVE  RunTasks(lk, l) \in [Links -> LinkRec]
<1>1. [ready |-> lk[l].ready, ran |-> TRUE, sending |-> lk[l].sending + 1] \in LinkRec
  BY DEF LinkRec
<1> QED
  BY <1>1 DEF RunTasks

\* Every step keeps the types.
LEMMA TypedStep == Typed /\ [Next]_vars => Typed'
<1> SUFFICES ASSUME Typed, [Next]_vars PROVE Typed'
  OBVIOUS
<1> USE DEF ConstantsAssumption
<1>1. ASSUME NEW c \in Calls, NEW e \in Enablements, NEW f \in Configs,
             BeginStart(c, e, f)
      PROVE  Typed'
  <2> DEFINE rec == [Idle EXCEPT !.op = "start", !.enablement = e, !.config = f]
  <2>1. rec \in CallRec
    BY BeginTypes
  <2> HIDE DEF rec
  <2>2. CASE Finish(c, rec, "error") /\ UNCHANGED <<active, plugin, task>>
    BY <1>1, <2>1, <2>2, FinishType
       DEF BeginStart, Typed, TypeOK, StoppingHasPlugin, conn
  <2>3. CASE Launch(c, rec, plugin)
    BY <1>1, <2>1, <2>3, LaunchType DEF BeginStart, Typed, TypeOK, StoppingHasPlugin, conn
  <2>4. CASE PopAndStop(c, rec, e, plugin)
    BY <1>1, <2>1, <2>4, PopAndStopType
       DEF BeginStart, Typed, TypeOK, StoppingHasPlugin, conn
  <2> QED
    BY <1>1, <2>2, <2>3, <2>4 DEF BeginStart, rec
<1>2. ASSUME NEW c \in Calls, StartAfterStop(c)
      PROVE  Typed'
  BY <1>2, StoppedByType, LaunchType
     DEF StartAfterStop, Typed, TypeOK, StoppingHasPlugin, conn
<1>3. ASSUME NEW c \in Calls, NEW e \in Enablements, BeginStop(c, e)
      PROVE  Typed'
  <2> DEFINE rec == [Idle EXCEPT !.op = "stop", !.enablement = e]
  <2>1. rec \in CallRec
    BY DEF Idle, CallRec, Ops
  <2> HIDE DEF rec
  <2>2. CASE PopAndStop(c, rec, e, plugin)
    BY <1>3, <2>1, <2>2, PopAndStopType
       DEF BeginStop, Typed, TypeOK, StoppingHasPlugin, conn
  <2>3. CASE Finish(c, rec, "ok") /\ UNCHANGED <<active, plugin, task>>
    BY <1>3, <2>1, <2>3, FinishType
       DEF BeginStop, Typed, TypeOK, StoppingHasPlugin, conn
  <2> QED
    BY <1>3, <2>2, <2>3 DEF BeginStop, rec
<1>4. ASSUME NEW c \in Calls, StopReturns(c)
      PROVE  Typed'
  BY <1>4, StoppedByType, FinishType, CollectType
     DEF StopReturns, Typed, TypeOK, StoppingHasPlugin, conn
<1>5. ASSUME NEW c \in Calls, NEW e \in Enablements, NEW f \in Configs,
             BeginReload(c, e, f)
      PROVE  Typed'
  <2> DEFINE rec == [Idle EXCEPT !.op = "reload", !.enablement = e, !.config = f]
  <2>1. rec \in CallRec
    BY BeginTypes
  <2> HIDE DEF rec
  <2>2. CASE active[e] # None /\ active' = active
             /\ StopUpToGather(c, rec, active[e], plugin)
    BY <1>5, <2>1, <2>2, StopUpToGatherType
       DEF BeginReload, Typed, TypeOK, StoppingHasPlugin, conn
  <2>3. CASE Finish(c, rec, "ok") /\ UNCHANGED <<active, plugin, task>>
    BY <1>5, <2>1, <2>3, FinishType
       DEF BeginReload, Typed, TypeOK, StoppingHasPlugin, conn
  <2> QED
    BY <1>5, <2>2, <2>3 DEF BeginReload, rec
<1>6. ASSUME NEW c \in Calls, ReloadRestarts(c)
      PROVE  Typed'
  <2> DEFINE p == call[c].plugin
  <2>1. p \in Plugins /\ StoppedBy(c) \in [Plugins -> PluginRec]
    BY <1>6, StoppedByType DEF ReloadRestarts
  <2>2. PICK t \in Tasks :
          /\ task' = [task EXCEPT ![t] = Restarted(c)]
          /\ Finish(c, call[c], "ok")
          /\ UNCHANGED <<conn, link, active>>
          /\ plugin' = Collect([StoppedBy(c) EXCEPT ![p] =
               [StoppedBy(c)[p] EXCEPT !.tasks = StoppedBy(c)[p].tasks \cup {t},
                                       !.config = call[c].config]])
    BY <1>6 DEF ReloadRestarts
  <2>3. Restarted(c) \in TaskRec
    BY <2>1 DEF Restarted, Worker, TaskRec, Typed, TypeOK, PluginRec, CallRec
  <2>4. call[c].config \in Configs \cup {None} /\ StoppedBy(c)[p] \in PluginRec
    BY <2>1 DEF Typed, TypeOK, CallRec
  <2>5. [StoppedBy(c)[p] EXCEPT !.tasks = StoppedBy(c)[p].tasks \cup {t},
                                !.config = call[c].config] \in PluginRec
    BY <2>4 DEF PluginRec
  <2>6. [StoppedBy(c) EXCEPT ![p] =
           [StoppedBy(c)[p] EXCEPT !.tasks = StoppedBy(c)[p].tasks \cup {t},
                                   !.config = call[c].config]]
          \in [Plugins -> PluginRec]
    BY <2>1, <2>5
  <2> QED
    BY <2>2, <2>3, <2>6, CollectType, FinishType
       DEF Typed, TypeOK, StoppingHasPlugin, conn
<1>7. ASSUME NEW c \in Calls, BeginDisconnect(c)
      PROVE  Typed'
  <2>1. [Idle EXCEPT !.op = "disconnect", !.todo = Snapshot] \in CallRec
    BY DEF Idle, CallRec, Ops, ConnectionOps, Snapshot
  <2> QED
    BY <1>7, <2>1, DisconnectFromType DEF BeginDisconnect, Typed, TypeOK
<1>8. ASSUME NEW c \in Calls, BeginConnect(c)
      PROVE  Typed'
  <2>1. /\ [Idle EXCEPT !.op = "connect", !.todo = Snapshot] \in CallRec
        /\ [Idle EXCEPT !.op = "connect"] \in CallRec
    BY DEF Idle, CallRec, Ops, ConnectionOps, Snapshot
  <2>2. CASE connected
    BY <1>8, <2>1, <2>2, DisconnectFromType DEF BeginConnect, Typed, TypeOK
  <2>3. CASE ~connected
    BY <1>8, <2>1, <2>3, OpenLinkType DEF BeginConnect, Typed, TypeOK, StoppingHasPlugin
  <2> QED
    BY <2>2, <2>3
<1>9. ASSUME NEW c \in Calls, DisconnectGoesOn(c)
      PROVE  Typed'
  BY <1>9, StoppedByType, DisconnectFromType DEF DisconnectGoesOn, Typed, TypeOK
<1>10. ASSUME NEW c \in Calls, LinkClosed(c)
       PROVE  Typed'
  BY <1>10, DisconnectedType
     DEF LinkClosed, ConnTypedNext, Typed, TypeOK, StoppingHasPlugin
<1>11. ASSUME NEW c \in Calls, SetupReturns(c)
       PROVE  Typed'
  <2> DEFINE ready == [link EXCEPT ![call[c].link].ready = TRUE]
  <2>1. ready \in [Links -> LinkRec]
    BY DEF Typed, TypeOK, LinkRec
  <2> HIDE DEF ready
  <2>2. clitool # None => RunTasks(ready, clitool) \in [Links -> LinkRec]
    BY <2>1, RunTasksType DEF Typed, TypeOK
  <2>3. link' \in [Links -> LinkRec]
    BY <1>11, <2>1, <2>2 DEF SetupReturns, ready
  <2>4. CASE Finish(c, call[c], "ok") /\ clitool' = clitool /\ connected' = TRUE
             /\ txQueue' = IF ready[clitool].ready THEN clitool ELSE None
    BY <1>11, <2>3, <2>4, FinishType
       DEF SetupReturns, Typed, TypeOK, StoppingHasPlugin
  <2>5. CASE Finish(c, call[c], "error") /\ clitool' = None /\ connected' = FALSE
             /\ txQueue' = None
    BY <1>11, <2>3, <2>5, FinishType
       DEF SetupReturns, Typed, TypeOK, StoppingHasPlugin
  <2> QED
    BY <1>11, <2>4, <2>5 DEF SetupReturns, ready
<1>12. ASSUME NEW c \in Calls, SetupFails(c)
       PROVE  Typed'
  BY <1>12, FinishType DEF SetupFails, Typed, TypeOK, StoppingHasPlugin
<1>13. ASSUME NEW c \in Calls, Return(c)
       PROVE  Typed'
  BY <1>13, IdleType DEF Return, Idle, Typed, TypeOK, StoppingHasPlugin, conn
<1>14. ASSUME NEW t \in Tasks, TaskEnds(t) \/ WorkerReturns(t)
       PROVE  Typed'
  <2>1. Done \in TaskRec
    BY DEF Done, TaskRec
  <2> QED
    BY <1>14, <2>1 DEF TaskEnds, WorkerReturns, Typed, TypeOK, StoppingHasPlugin, conn
<1>15. ASSUME NEW l \in Links, LinkLost(l)
       PROVE  Typed'
  BY <1>15 DEF LinkLost, Typed, TypeOK, StoppingHasPlugin, conn, LinkRec
<1>16. CASE UNCHANGED vars
  BY <1>16 DEF vars, Typed, TypeOK, StoppingHasPlugin
<1> QED
  BY <1>1, <1>2, <1>3, <1>4, <1>5, <1>6, <1>7, <1>8, <1>9, <1>10, <1>11, <1>12,
     <1>13, <1>14, <1>15, <1>16 DEF Next, Begin, Resume

\* The initial state is typed.
LEMMA TypedInit == Init => Typed
<1>1. NewLink \in LinkRec
  BY DEF NewLink, LinkRec
<1>2. NoPlugin \in PluginRec
  BY DEF NoPlugin, PluginRec
<1>3. Done \in TaskRec
  BY DEF Done, TaskRec
<1>4. Idle.pc # "stopping"
  BY DEF Idle
<1> QED
  BY <1>1, <1>2, <1>3, <1>4, IdleType DEF Init, Typed, TypeOK, StoppingHasPlugin

\* Whatever calls overlap, every object and every call keeps its type.
THEOREM TypeCorrect == Spec => []TypeOK
<1>1. Typed => TypeOK
  BY DEF Typed
<1> QED
  BY <1>1, TypedInit, TypedStep, PTL DEF Spec

-----------------------------------------------------------------------------
(* The connection fields. *)

\* The queue is that of the current link and only there while connected.  Each
\* step that writes a field is one of these four helpers.
LEMMA QueueStep == QueueFollowsConnection /\ Typed /\ [Next]_vars => QueueFollowsConnection'
<1> SUFFICES ASSUME QueueFollowsConnection, Typed, [Next]_vars
             PROVE  QueueFollowsConnection'
  OBVIOUS
<1>0. ASSUME UNCHANGED conn
      PROVE  QueueFollowsConnection'
  BY <1>0 DEF conn, QueueFollowsConnection
<1>1. ASSUME NEW c \in Calls, NEW rec, Disconnected(c, rec)
      PROVE  QueueFollowsConnection'
  BY <1>1, ConstantsAssumption DEF Disconnected, OpenLink, QueueFollowsConnection
<1>2. ASSUME NEW c \in Calls, NEW rec, NEW pl, DisconnectFrom(c, rec, pl)
      PROVE  QueueFollowsConnection'
  BY <1>0, <1>1, <1>2 DEF DisconnectFrom, CloseLink
<1>3. ASSUME NEW c \in Calls, BeginConnect(c) \/ BeginDisconnect(c)
      PROVE  QueueFollowsConnection'
  <2>1. CASE ~connected /\ txQueue' = txQueue /\ connected' = connected
    BY <2>1 DEF QueueFollowsConnection
  <2> QED
    BY <1>2, <1>3, <2>1 DEF BeginConnect, BeginDisconnect
<1>4. ASSUME NEW c \in Calls, Resume(c)
      PROVE  QueueFollowsConnection'
  <2>1. CASE SetupReturns(c)
    BY <2>1 DEF SetupReturns, QueueFollowsConnection
  <2>2. CASE SetupFails(c)
    BY <2>2 DEF SetupFails, QueueFollowsConnection
  <2>3. CASE DisconnectGoesOn(c) \/ LinkClosed(c)
    BY <1>1, <1>2, <2>3 DEF DisconnectGoesOn, LinkClosed
  <2>4. CASE StartAfterStop(c) \/ StopReturns(c) \/ ReloadRestarts(c)
    BY <1>0, <2>4 DEF StartAfterStop, StopReturns, ReloadRestarts
  <2> QED
    BY <1>4, <2>1, <2>2, <2>3, <2>4 DEF Resume
<1>6. ASSUME NEW c \in Calls, Begin(c)
      PROVE  QueueFollowsConnection'
  BY <1>0, <1>3, <1>6 DEF Begin, BeginStop, BeginStart, BeginReload
<1> QED
  BY <1>0, <1>4, <1>6 DEF Next, Return, TaskEnds, WorkerReturns, LinkLost, vars, conn

\* Plugins are only ever handed the queue of the current CLITool, and only by
\* a connected manager, however connects and disconnects overlap.
THEOREM QueueConsistent == Spec => []QueueFollowsConnection
<1>1. Init => QueueFollowsConnection
  BY DEF Init, QueueFollowsConnection
<1> QED
  BY <1>1, TypedInit, TypedStep, QueueStep, PTL DEF Spec

-----------------------------------------------------------------------------
(* The registry. *)

\* OneTask, said of the plugin objects as pl has them.
HoldOneTask(pl) ==
    \A e \in Enablements : active[e] # None =>
        /\ pl[active[e]].enablement = e
        /\ \E t \in Tasks : pl[active[e]].tasks = {t}

Registry == Typed /\ OneTask /\ PoppedOnce

\* A collected plugin is not in the registry.
LEMMA CollectKeeps ==
    ASSUME NEW pl, NEW p \in Plugins, Referenced(p)'
    PROVE  Collect(pl)[p] = pl[p]
BY DEF Collect

\* Registered plugins survive the collection after a step that leaves the
\* registry alone.
LEMMA CollectHolds ==
    ASSUME Typed, NEW pl, HoldOneTask(pl), UNCHANGED active, plugin' = Collect(pl)
    PROVE  OneTask'
<1> SUFFICES ASSUME NEW e \in Enablements, active[e] # None
             PROVE  /\ plugin'[active[e]].enablement = e
                    /\ \E t \in Tasks : plugin'[active[e]].tasks = {t}
  BY DEF OneTask
<1>1. active[e] \in Plugins /\ Referenced(active[e])'
  BY DEF Typed, TypeOK, Referenced
<1>2. plugin'[active[e]] = pl[active[e]]
  BY <1>1, CollectKeeps
<1> QED
  BY <1>2 DEF HoldOneTask

\* The rest of stop() on a popped plugin does not touch a registered one.
LEMMA StoppedByHolds ==
    ASSUME Registry, NEW c \in Calls, Woken(c), call[c].op # "reload"
    PROVE  HoldOneTask(StoppedBy(c))
<1>1. \A e \in Enablements : active[e] # call[c].plugin
  BY DEF Registry, PoppedOnce, Pops, Woken
<1>2. \A e \in Enablements : active[e] # None =>
        active[e] \in Plugins /\ StoppedBy(c)[active[e]] = plugin[active[e]]
  BY <1>1 DEF StoppedBy, Registry, Typed, TypeOK
<1> QED
  BY <1>2 DEF HoldOneTask, Registry, OneTask

\* A call that is not left popping a plugin, in a step that registers nothing
\* but unreferenced plugins, keeps PoppedOnce.
LEMMA QuietKeepsPopped ==
    ASSUME Registry, NEW c \in Calls,
           \A d \in Calls \ {c} : call'[d] = call[d],
           call'[c].pc # "stopping" \/ call'[c].op = "reload",
           \A e \in Enablements : \/ active'[e] = None
                                  \/ active'[e] = active[e]
                                  \/ ~Referenced(active'[e])
    PROVE  PoppedOnce'
<1> SUFFICES ASSUME NEW d \in Calls, Pops(d)'
             PROVE  /\ \A e \in Enablements : active'[e] # call'[d].plugin
                    /\ \A x \in Calls \ {d} : Pops(x)' => call'[x].plugin # call'[d].plugin
  BY DEF PoppedOnce
<1>1. d # c /\ call'[d] = call[d] /\ Pops(d)
  BY DEF Pops
<1>2. /\ \A e \in Enablements : active[e] # call[d].plugin
      /\ \A x \in Calls \ {d} : Pops(x) => call[x].plugin # call[d].plugin
  BY <1>1 DEF Registry, PoppedOnce
<1>3. call[d].plugin \in Plugins /\ Referenced(call[d].plugin)
  BY <1>1 DEF Referenced, Registry, Typed, StoppingHasPlugin, Pops
<1>4. None \notin Plugins
  BY ConstantsAssumption
<1>5. \A x \in Calls \ {d} : Pops(x)' => x # c /\ call'[x] = call[x] /\ Pops(x)
  BY DEF Pops
<1> QED
  BY <1>1, <1>2, <1>3, <1>4, <1>5

\* What Finish says of the calls.
LEMMA FinishIsQuiet ==
    ASSUME Typed, NEW c \in Calls, NEW rec, NEW pc \in {"ok", "error"}, Finish(c, rec, pc)
    PROVE  /\ \A d \in Calls \ {c} : call'[d] = call[d]
           /\ call'[c].pc # "stopping"
BY DEF Finish, Idle, Typed, TypeOK

\* A launch registers a plugin nobody referred to, with one task.
LEMMA LaunchRegistry ==
    ASSUME Registry, NEW c \in Calls, NEW rec, NEW pl \in [Plugins -> PluginRec],
           HoldOneTask(pl), Launch(c, rec, pl)
    PROVE  OneTask' /\ PoppedOnce'
<1>1. CASE rec.enablement \notin Registered
  <2>1. Finish(c, rec, "error") /\ UNCHANGED active /\ plugin' = Collect(pl)
    BY <1>1 DEF Launch
  <2> QED
    BY <2>1, FinishIsQuiet, QuietKeepsPopped, CollectHolds DEF Registry
<1>2. CASE rec.enablement \in Registered
  <2>1. PICK p \in Plugins, t \in Tasks :
          /\ FreePlugin(p)
          /\ active' = [active EXCEPT ![rec.enablement] = p]
          /\ Finish(c, rec, "ok")
          /\ plugin' = Collect([pl EXCEPT ![p] =
               [enablement |-> rec.enablement, queue |-> txQueue,
                config |-> rec.config, tasks |-> {t}, waiters |-> <<>>]])
    BY <1>2 DEF Launch
  <2> DEFINE new == [enablement |-> rec.enablement, queue |-> txQueue,
                     config |-> rec.config, tasks |-> {t}, waiters |-> <<>>]
  <2>2. PoppedOnce'
    BY <2>1, FinishIsQuiet, QuietKeepsPopped DEF Registry, FreePlugin, Typed, TypeOK
  <2>3. ASSUME NEW e \in Enablements, active'[e] # None
        PROVE  /\ plugin'[active'[e]].enablement = e
               /\ \E s \in Tasks : plugin'[active'[e]].tasks = {s}
    <3>1. PICK q \in Plugins : active'[e] = q
      BY <2>1, <2>3 DEF Registry, Typed, TypeOK
    <3>2. Referenced(q)'
      BY <3>1 DEF Referenced
    <3>3. plugin'[q] = [pl EXCEPT ![p] = new][q]
      BY <2>1, <3>2, CollectKeeps
    <3>4. CASE e = rec.enablement
      <4>1. q = p
        BY <2>1, <3>1, <3>4 DEF Registry, Typed, TypeOK
      <4>2. plugin'[q] = new
        BY <3>3, <4>1
      <4>3. new.enablement = e /\ new.tasks = {t}
        BY <3>4
      <4> QED
        BY <3>1, <4>2, <4>3
    <3>5. CASE e # rec.enablement
      <4>1. q = active[e] /\ q # p
        BY <2>1, <3>1, <3>5 DEF Registry, Typed, TypeOK, FreePlugin, Referenced
      <4> QED
        BY <2>3, <3>1, <3>3, <4>1 DEF HoldOneTask
    <3> QED
      BY <3>4, <3>5
  <2> QED
    BY <2>2, <2>3 DEF OneTask
<1> QED
  BY <1>1, <1>2

\* A pop takes a plugin no other call has popped out of the registry.
LEMMA PopRegistry ==
    ASSUME Registry, NEW c \in Calls, NEW rec \in CallRec, NEW e \in Enablements,
           NEW pl \in [Plugins -> PluginRec], HoldOneTask(pl), PopAndStop(c, rec, e, pl)
    PROVE  OneTask' /\ PoppedOnce'
<1> DEFINE p == active[e]
<1>1. /\ p \in Plugins
      /\ active' = [active EXCEPT ![e] = None]
      /\ call' = [call EXCEPT ![c] = [rec EXCEPT !.pc = "stopping", !.plugin = p,
                                                 !.waits = pl[p].tasks]]
      /\ plugin' = Collect([pl EXCEPT ![p].waiters = Append(@, c)])
  BY DEF PopAndStop, StopUpToGather, Registry, Typed, TypeOK
<1>2. \A x \in Enablements : active'[x] # p
  <2> SUFFICES ASSUME NEW x \in Enablements, active'[x] = p PROVE FALSE
    OBVIOUS
  <2>1. x # e /\ active[x] = p
    BY <1>1, ConstantsAssumption DEF Registry, Typed, TypeOK
  <2>2. active[x] # None /\ active[e] # None
    BY <2>1 DEF PopAndStop
  <2> QED
    BY <2>1, <2>2 DEF HoldOneTask
<1>3. call'[c].plugin = p /\ \A d \in Calls \ {c} : call'[d] = call[d]
  BY <1>1 DEF Registry, Typed, TypeOK, CallRec
<1>4. \A d \in Calls \ {c} : Pops(d)' => call'[d].plugin # p
  BY <1>3 DEF Pops, Registry, PoppedOnce
<1>5. ASSUME NEW d \in Calls, Pops(d)'
      PROVE  /\ \A x \in Enablements : active'[x] # call'[d].plugin
             /\ \A y \in Calls \ {d} : Pops(y)' => call'[y].plugin # call'[d].plugin
  <2>1. CASE d = c
    BY <1>2, <1>3, <1>4, <2>1
  <2>2. CASE d # c
    <3>1. call'[d] = call[d] /\ Pops(d)
      BY <1>3, <1>5, <2>2 DEF Pops
    <3>2. /\ \A x \in Enablements : active[x] # call[d].plugin
          /\ \A y \in Calls \ {d} : Pops(y) => call[y].plugin # call[d].plugin
      BY <3>1 DEF Registry, PoppedOnce
    <3>3. call[d].plugin # None
      BY <3>1, ConstantsAssumption DEF Pops, Registry, Typed, StoppingHasPlugin
    <3>4. \A x \in Enablements : active'[x] # call'[d].plugin
      BY <1>1, <3>1, <3>2, <3>3 DEF Registry, Typed, TypeOK
    <3>5. \A y \in Calls \ {d} : Pops(y)' => call'[y].plugin # call'[d].plugin
      BY <1>3, <1>4, <1>5, <2>2, <3>1, <3>2 DEF Pops
    <3> QED
      BY <3>4, <3>5
  <2> QED
    BY <2>1, <2>2
<1>6. ASSUME NEW x \in Enablements, active'[x] # None
      PROVE  /\ plugin'[active'[x]].enablement = x
             /\ \E s \in Tasks : plugin'[active'[x]].tasks = {s}
  <2>1. x # e /\ active'[x] = active[x] /\ active[x] # p
    BY <1>1, <1>2, <1>6 DEF Registry, Typed, TypeOK
  <2>2. active[x] \in Plugins /\ Referenced(active[x])'
    BY <1>6, <2>1 DEF Registry, Typed, TypeOK, Referenced
  <2>3. plugin'[active[x]] = pl[active[x]]
    BY <1>1, <2>1, <2>2, CollectKeeps
  <2> QED
    BY <1>6, <2>1, <2>3 DEF HoldOneTask
<1> QED
  BY <1>5, <1>6 DEF OneTask, PoppedOnce

\* The loop of disconnect_tak pops one plugin, or closes the link and leaves
\* the registry as it is.
LEMMA DisconnectRegistry ==
    ASSUME Registry, NEW c \in Calls, NEW rec \in CallRec,
           NEW pl \in [Plugins -> PluginRec], HoldOneTask(pl), DisconnectFrom(c, rec, pl)
    PROVE  OneTask' /\ PoppedOnce'
<1>1. CASE \E e \in rec.todo : PopAndStop(c, [rec EXCEPT !.todo = @ \ {e}], e, pl)
  <2>1. PICK e \in rec.todo : PopAndStop(c, [rec EXCEPT !.todo = @ \ {e}], e, pl)
    BY <1>1
  <2>2. e \in Enablements /\ [rec EXCEPT !.todo = @ \ {e}] \in CallRec
    BY DEF CallRec
  <2> QED
    BY <2>1, <2>2, PopRegistry
<1>2. CASE /\ CloseLink(c, [Idle EXCEPT !.op = rec.op])
           /\ UNCHANGED active
           /\ plugin' = Collect(pl)
  <2> DEFINE r == [Idle EXCEPT !.op = rec.op]
  <2>1. r \in CallRec
    BY DEF CallRec, Idle
  <2> HIDE DEF r
  <2>2. /\ \A d \in Calls \ {c} : call'[d] = call[d]
        /\ call'[c].pc # "stopping"
    <3>1. CASE Finish(c, r, "ok")
      BY <3>1, FinishIsQuiet DEF Registry
    <3>2. CASE OpenLink(c, r)
      <4>1. PICK l \in Links : call' = [call EXCEPT ![c] = [r EXCEPT !.pc = "setup", !.link = l]]
        BY <3>2 DEF OpenLink
      <4> QED
        BY <2>1, <4>1 DEF CallRec, Registry, Typed, TypeOK
    <3>3. CASE call' = [call EXCEPT ![c] = [r EXCEPT !.pc = "closing"]]
      BY <2>1, <3>3 DEF CallRec, Registry, Typed, TypeOK
    <3> QED
      BY <1>2, <3>1, <3>2, <3>3 DEF CloseLink, Disconnected, r
  <2> QED
    BY <1>2, <2>2, QuietKeepsPopped, CollectHolds DEF Registry
<1> QED
  BY <1>1, <1>2 DEF DisconnectFrom

\* A reload stops the plugin without popping it.
LEMMA ReloadStopRegistry ==
    ASSUME Registry, NEW c \in Calls, NEW rec \in CallRec, rec.op = "reload",
           NEW e \in Enablements, active[e] # None, active' = active,
           StopUpToGather(c, rec, active[e], plugin)
    PROVE  OneTask' /\ PoppedOnce'
<1> DEFINE p == active[e]
           pl == [plugin EXCEPT ![p].waiters = Append(@, c)]
<1>1. p \in Plugins
  BY DEF Registry, Typed, TypeOK
<1>2. /\ call' = [call EXCEPT ![c] = [rec EXCEPT !.pc = "stopping", !.plugin = p,
                                                 !.waits = plugin[p].tasks]]
      /\ plugin' = Collect(pl)
  BY DEF StopUpToGather
<1>3. \A q \in Plugins : /\ pl[q].enablement = plugin[q].enablement
                         /\ pl[q].tasks = plugin[q].tasks
  BY DEF Registry, Typed, TypeOK, PluginRec
<1>4. \A x \in Enablements : active[x] # None => active[x] \in Plugins
  BY DEF Registry, Typed, TypeOK
<1>5. HoldOneTask(pl)
  <2> HIDE DEF pl
  <2> QED
    BY <1>3, <1>4 DEF HoldOneTask, Registry, OneTask
<1>6. OneTask'
  BY <1>2, <1>5, CollectHolds DEF Registry
<1>7. /\ \A d \in Calls \ {c} : call'[d] = call[d]
      /\ call'[c].op = "reload"
  BY <1>2 DEF CallRec, Registry, Typed, TypeOK
<1> QED
  BY <1>6, <1>7, QuietKeepsPopped

\* A reload that goes on leaves its plugin with the one new task, even if
\* other reloads of the plugin put tasks there since it began.
LEMMA ReloadRestartsRegistry ==
    ASSUME Registry, NEW c \in Calls, ReloadRestarts(c)
    PROVE  OneTask' /\ PoppedOnce'
<1> DEFINE p == call[c].plugin
<1>1. /\ p \in Plugins
      /\ StoppedBy(c) \in [Plugins -> PluginRec]
      /\ Woken(c)
  BY StoppedByType DEF ReloadRestarts, Registry
<1>2. PICK t \in Tasks :
        /\ Finish(c, call[c], "ok")
        /\ UNCHANGED active
        /\ plugin' = Collect([StoppedBy(c) EXCEPT ![p] =
             [StoppedBy(c)[p] EXCEPT !.tasks = StoppedBy(c)[p].tasks \cup {t},
                                     !.config = call[c].config]])
  BY DEF ReloadRestarts
<1> DEFINE pl == [StoppedBy(c) EXCEPT ![p] =
             [StoppedBy(c)[p] EXCEPT !.tasks = StoppedBy(c)[p].tasks \cup {t},
                                     !.config = call[c].config]]
<1>3. /\ StoppedBy(c)[p].tasks = {}
      /\ StoppedBy(c)[p].enablement = plugin[p].enablement
      /\ \A q \in Plugins : q # p => StoppedBy(c)[q] = plugin[q]
  BY <1>1 DEF StoppedBy, Registry, Typed, TypeOK, PluginRec
<1>4. /\ pl[p].tasks = {t}
      /\ pl[p].enablement = plugin[p].enablement
      /\ \A q \in Plugins : q # p => pl[q] = plugin[q]
  <2>1. StoppedBy(c)[p] \in PluginRec
    BY <1>1
  <2>2. [StoppedBy(c)[p] EXCEPT !.tasks = StoppedBy(c)[p].tasks \cup {t},
                                !.config = call[c].config].tasks = {t}
    BY <1>3, <2>1 DEF PluginRec
  <2>3. [StoppedBy(c)[p] EXCEPT !.tasks = StoppedBy(c)[p].tasks \cup {t},
                                !.config = call[c].config].enablement
          = plugin[p].enablement
    BY <1>3, <2>1 DEF PluginRec
  <2> QED
    BY <1>1, <1>3, <2>2, <2>3
<1>5. \A x \in Enablements : active[x] # None => active[x] \in Plugins
  BY DEF Registry, Typed, TypeOK
<1>6. HoldOneTask(pl)
  <2> HIDE DEF pl
  <2> QED
    BY <1>4, <1>5 DEF HoldOneTask, Registry, OneTask
<1>7. OneTask'
  BY <1>2, <1>6, CollectHolds DEF Registry
<1> QED
  BY <1>2, <1>7, FinishIsQuiet, QuietKeepsPopped DEF Registry

\* Every step keeps the registry in order.
LEMMA RegistryStep == Registry /\ [Next]_vars => Registry'
<1> SUFFICES ASSUME Registry, [Next]_vars PROVE OneTask' /\ PoppedOnce'
  BY TypedStep DEF Registry
<1>0. HoldOneTask(plugin) /\ plugin \in [Plugins -> PluginRec]
  BY DEF HoldOneTask, Registry, OneTask, Typed, TypeOK
<1>1. ASSUME UNCHANGED <<active, plugin>>, NEW c \in Calls,
             \A d \in Calls \ {c} : call'[d] = call[d], call'[c].pc # "stopping"
      PROVE  OneTask' /\ PoppedOnce'
  <2>1. PoppedOnce'
    BY <1>1, QuietKeepsPopped
  <2> QED
    BY <1>1, <2>1 DEF OneTask, Registry
<1>2. ASSUME NEW c \in Calls, NEW rec, NEW pc \in {"ok", "error"}, Finish(c, rec, pc),
             UNCHANGED <<active, plugin>>
      PROVE  OneTask' /\ PoppedOnce'
  BY <1>1, <1>2, FinishIsQuiet DEF Registry
<1>3. ASSUME NEW c \in Calls, NEW e \in Enablements, NEW f \in Configs, BeginStart(c, e, f)
      PROVE  OneTask' /\ PoppedOnce'
  <2> DEFINE rec == [Idle EXCEPT !.op = "start", !.enablement = e, !.config = f]
  <2>1. rec \in CallRec
    BY BeginTypes
  <2> HIDE DEF rec
  <2>2. \/ Finish(c, rec, "error") /\ UNCHANGED <<active, plugin>>
        \/ Launch(c, rec, plugin)
        \/ PopAndStop(c, rec, e, plugin)
    BY <1>3 DEF BeginStart, rec
  <2> QED
    BY <1>0, <1>2, <2>1, <2>2, LaunchRegistry, PopRegistry
<1>4. ASSUME NEW c \in Calls, StartAfterStop(c)
      PROVE  OneTask' /\ PoppedOnce'
  <2>1. HoldOneTask(StoppedBy(c)) /\ StoppedBy(c) \in [Plugins -> PluginRec]
    BY <1>4, StoppedByHolds, StoppedByType DEF StartAfterStop, Registry
  <2> QED
    BY <1>4, <2>1, LaunchRegistry DEF StartAfterStop
<1>5. ASSUME NEW c \in Calls, NEW e \in Enablements, BeginStop(c, e)
      PROVE  OneTask' /\ PoppedOnce'
  <2> DEFINE rec == [Idle EXCEPT !.op = "stop", !.enablement = e]
  <2>1. rec \in CallRec
    BY DEF Idle, CallRec, Ops
  <2> HIDE DEF rec
  <2>2. \/ Finish(c, rec, "ok") /\ UNCHANGED <<active, plugin>>
        \/ PopAndStop(c, rec, e, plugin)
    BY <1>5 DEF BeginStop, rec
  <2> QED
    BY <1>0, <1>2, <2>1, <2>2, PopRegistry
<1>6. ASSUME NEW c \in Calls, StopReturns(c)
      PROVE  OneTask' /\ PoppedOnce'
  <2>1. HoldOneTask(StoppedBy(c))
    BY <1>6, StoppedByHolds DEF StopReturns
  <2> QED
    BY <1>6, <2>1, FinishIsQuiet, QuietKeepsPopped, CollectHolds DEF StopReturns, Registry
<1>7. ASSUME NEW c \in Calls, NEW e \in Enablements, NEW f \in Configs, BeginReload(c, e, f)
      PROVE  OneTask' /\ PoppedOnce'
  <2> DEFINE rec == [Idle EXCEPT !.op = "reload", !.enablement = e, !.config = f]
  <2>1. rec \in CallRec /\ rec.op = "reload"
    BY BeginTypes DEF Idle
  <2> HIDE DEF rec
  <2>2. \/ Finish(c, rec, "ok") /\ UNCHANGED <<active, plugin>>
        \/ active[e] # None /\ active' = active
           /\ StopUpToGather(c, rec, active[e], plugin)
    BY <1>7 DEF BeginReload, rec
  <2> QED
    BY <1>2, <2>1, <2>2, ReloadStopRegistry
<1>8. ASSUME NEW c \in Calls, BeginDisconnect(c)
      PROVE  OneTask' /\ PoppedOnce'
  <2>1. [Idle EXCEPT !.op = "disconnect", !.todo = Snapshot] \in CallRec
    BY DEF Idle, CallRec, Ops, ConnectionOps, Snapshot
  <2> QED
    BY <1>0, <1>8, <2>1, DisconnectRegistry DEF BeginDisconnect
<1>9. ASSUME NEW c \in Calls, BeginConnect(c)
      PROVE  OneTask' /\ PoppedOnce'
  <2> DEFINE rec == [Idle EXCEPT !.op = "connect"]
  <2>1. [Idle EXCEPT !.op = "connect", !.todo = Snapshot] \in CallRec /\ rec \in CallRec
    BY DEF Idle, CallRec, Ops, ConnectionOps, Snapshot
  <2> HIDE DEF rec
  <2>2. CASE OpenLink(c, rec) /\ UNCHANGED <<active, plugin>>
    <3>1. PICK l \in Links : call' = [call EXCEPT ![c] = [rec EXCEPT !.pc = "setup", !.link = l]]
      BY <2>2 DEF OpenLink
    <3>2. call'[c].pc # "stopping" /\ \A d \in Calls \ {c} : call'[d] = call[d]
      BY <2>1, <3>1 DEF CallRec, Registry, Typed, TypeOK
    <3> QED
      BY <1>1, <2>2, <3>2
  <2> QED
    BY <1>0, <1>9, <2>1, <2>2, DisconnectRegistry DEF BeginConnect, rec
<1>10. ASSUME NEW c \in Calls, DisconnectGoesOn(c)
       PROVE  OneTask' /\ PoppedOnce'
  <2>1. /\ HoldOneTask(StoppedBy(c)) /\ StoppedBy(c) \in [Plugins -> PluginRec]
        /\ call[c] \in CallRec
    BY <1>10, StoppedByHolds, StoppedByType
       DEF DisconnectGoesOn, ConnectionOps, Registry, Typed, TypeOK
  <2> QED
    BY <1>10, <2>1, DisconnectRegistry DEF DisconnectGoesOn
<1>11. ASSUME NEW c \in Calls, LinkClosed(c)
       PROVE  OneTask' /\ PoppedOnce'
  <2>1. CASE Finish(c, call[c], "ok")
    BY <1>2, <1>11, <2>1 DEF LinkClosed
  <2>2. CASE OpenLink(c, call[c])
    <3>1. PICK l \in Links : call' = [call EXCEPT ![c] = [call[c] EXCEPT !.pc = "setup", !.link = l]]
      BY <2>2 DEF OpenLink
    <3>2. call'[c].pc # "stopping" /\ \A d \in Calls \ {c} : call'[d] = call[d]
      BY <3>1 DEF CallRec, Registry, Typed, TypeOK
    <3> QED
      BY <1>1, <1>11, <3>2 DEF LinkClosed
  <2> QED
    BY <1>11, <2>1, <2>2 DEF LinkClosed, Disconnected
<1>12. ASSUME NEW c \in Calls, SetupReturns(c) \/ SetupFails(c)
       PROVE  OneTask' /\ PoppedOnce'
  BY <1>2, <1>12 DEF SetupReturns, SetupFails
<1>13. ASSUME NEW c \in Calls, Return(c)
       PROVE  OneTask' /\ PoppedOnce'
  BY <1>1, <1>13 DEF Return, Idle, Registry, Typed, TypeOK
<1>14. ASSUME UNCHANGED <<active, plugin, call>>
       PROVE  OneTask' /\ PoppedOnce'
  BY <1>14 DEF Registry, OneTask, PoppedOnce, Pops
<1> QED
  BY <1>3, <1>4, <1>5, <1>6, <1>7, <1>8, <1>9, <1>10, <1>11, <1>12, <1>13, <1>14,
     ReloadRestartsRegistry
  DEF Next, Begin, Resume, TaskEnds, WorkerReturns, LinkLost, vars

\* The initial registry is empty.
LEMMA RegistryInit == Init => Registry
<1>1. Init => OneTask /\ PoppedOnce
  BY DEF Init, OneTask, PoppedOnce, Pops, Idle
<1> QED
  BY <1>1, TypedInit DEF Registry

\* However starts, stops, reloads and disconnects overlap, a registered plugin
\* is its enablement's own and holds exactly one task, so that every stop of it
\* has that task to cancel.
THEOREM OneTaskHeld == Spec => []OneTask
<1>1. Registry => OneTask
  BY DEF Registry
<1> QED
  BY <1>1, RegistryInit, RegistryStep, PTL DEF Spec

\* However they overlap, no plugin is stopped by two calls that popped it, and
\* none that was popped comes back into the registry.
THEOREM PopsAreExclusive == Spec => []PoppedOnce
<1>1. Registry => PoppedOnce
  BY DEF Registry
<1> QED
  BY <1>1, RegistryInit, RegistryStep, PTL DEF Spec

-----------------------------------------------------------------------------
(* The work of registered plugins. *)

\* No task is in the lists of two plugins: a stop cancels only its plugin's.
Apart(pl) ==
    \A p, q \in Plugins : p # q => pl[p].tasks \cap pl[q].tasks = {}

\* The tasks of p, with the objects pl and tk, work for e as p says they do.
WorksAs(e, p, pl, tk) ==
    \A t \in pl[p].tasks :
        \/ tk[t] = Worker(e, pl[p].queue, pl[p].config)
        \/ tk[t] = Done /\ pl[p].config \in Sourceless

Work == Registry /\ Apart(plugin) /\ RegisteredWorks

\* The plugin objects of pl hold no task they did not hold before, and the
\* registered ones say of their work what they said before.
Same(pl) ==
    /\ \A q \in Plugins : pl[q].tasks \subseteq plugin[q].tasks
    /\ \A e \in Enablements : active[e] # None =>
         /\ pl[active[e]].tasks = plugin[active[e]].tasks
         /\ pl[active[e]].queue = plugin[active[e]].queue
         /\ pl[active[e]].config = plugin[active[e]].config

LEMMA CollectApart ==
    ASSUME NEW pl, Apart(pl)
    PROVE  Apart(Collect(pl))
<1>1. NoPlugin.tasks = {}
  BY DEF NoPlugin
<1>2. \A p \in Plugins : Collect(pl)[p].tasks = pl[p].tasks \/ Collect(pl)[p].tasks = {}
  BY <1>1 DEF Collect
<1> QED
  BY <1>2 DEF Apart

LEMMA SameApart ==
    ASSUME Work, NEW pl, Same(pl)
    PROVE  Apart(pl)
BY DEF Work, Apart, Same

\* A plugin that stays registered works as before if its tasks are what they
\* were, it says of them what it said, and no reload of it has ended.
LEMMA KeepsWorking ==
    ASSUME Work, NEW e \in Enablements, active[e] # None,
           active'[e] = active[e],
           plugin'[active[e]].tasks = plugin[active[e]].tasks,
           plugin'[active[e]].queue = plugin[active[e]].queue,
           plugin'[active[e]].config = plugin[active[e]].config,
           \A t \in plugin[active[e]].tasks : task'[t] = task[t],
           \A d \in Calls : \/ call'[d] = call[d]
                            \/ call[d].pc # "stopping"
                            \/ call[d].op # "reload"
                            \/ call[d].plugin # active[e]
    PROVE  Reloading(active[e])' \/ WorksAs(e, active[e], plugin, task)'
<1>1. CASE Reloading(active[e])
  BY <1>1 DEF Reloading
<1>2. CASE WorksAs(e, active[e], plugin, task)
  BY <1>2 DEF WorksAs, Worker, Done
<1> QED
  BY <1>1, <1>2 DEF Work, RegisteredWorks, WorksAs

\* The same, where the plugin objects are collected after the step.
LEMMA CollectedWorks ==
    ASSUME Work, NEW pl, Same(pl), plugin' = Collect(pl),
           NEW e \in Enablements, active[e] # None, active'[e] = active[e],
           \A t \in plugin[active[e]].tasks : task'[t] = task[t],
           \A d \in Calls : \/ call'[d] = call[d]
                            \/ call[d].pc # "stopping"
                            \/ call[d].op # "reload"
                            \/ call[d].plugin # active[e]
    PROVE  Reloading(active[e])' \/ WorksAs(e, active[e], plugin, task)'
<1>1. active[e] \in Plugins /\ Referenced(active[e])'
  BY DEF Work, Registry, Typed, TypeOK, Referenced
<1>2. plugin'[active[e]] = pl[active[e]]
  BY <1>1, CollectKeeps
<1> QED
  BY <1>2, KeepsWorking DEF Same

\* A plugin that is stopped has its tasks cancelled, and no others.
LEMMA StopWork ==
    ASSUME Work, NEW c \in Calls, NEW rec \in CallRec, NEW p \in Plugins,
           NEW pl \in [Plugins -> PluginRec], Same(pl),
           call[c].pc # "stopping" \/ call[c].op # "reload",
           StopUpToGather(c, rec, p, pl)
    PROVE  /\ Apart(plugin')
           /\ \A e \in Enablements :
                active[e] \notin {None, p} /\ active'[e] = active[e] =>
                  Reloading(active[e])' \/ WorksAs(e, active[e], plugin, task)'
<1> DEFINE more == [pl EXCEPT ![p].waiters = Append(@, c)]
<1>1. plugin' = Collect(more) /\ task' = Cancelled(pl[p].tasks)
  BY DEF StopUpToGather
<1>2. \A d \in Calls : call'[d] = call[d] \/ d = c
  BY DEF StopUpToGather, Work, Registry, Typed, TypeOK
<1>3. \A q \in Plugins : /\ more[q].tasks = pl[q].tasks
                         /\ more[q].queue = pl[q].queue
                         /\ more[q].config = pl[q].config
  BY DEF PluginRec
<1> HIDE DEF more
<1>4. \A e \in Enablements : active[e] # None => active[e] \in Plugins
  BY DEF Work, Registry, Typed, TypeOK
<1>5. Same(more)
  BY <1>3, <1>4 DEF Same
<1>6. Apart(plugin')
  BY <1>1, <1>5, SameApart, CollectApart
<1>7. ASSUME NEW e \in Enablements, active[e] \notin {None, p}, active'[e] = active[e]
      PROVE  Reloading(active[e])' \/ WorksAs(e, active[e], plugin, task)'
  <2>1. plugin[active[e]].tasks \cap plugin[p].tasks = {}
    BY <1>4, <1>7 DEF Work, Apart
  <2>2. plugin[active[e]].tasks \subseteq Tasks
    BY <1>4, <1>7 DEF Work, Registry, Typed, TypeOK, PluginRec
  <2>3. \A t \in plugin[active[e]].tasks : task'[t] = task[t]
    BY <1>1, <2>1, <2>2 DEF Cancelled, Same
  <2> QED
    BY <1>1, <1>2, <1>5, <1>7, <2>3, CollectedWorks
<1> QED
  BY <1>6, <1>7

\* Popping a plugin and stopping it.
LEMMA PopWork ==
    ASSUME Work, NEW c \in Calls, NEW rec \in CallRec, NEW e \in Enablements,
           NEW pl \in [Plugins -> PluginRec], Same(pl),
           call[c].pc # "stopping" \/ call[c].op # "reload",
           PopAndStop(c, rec, e, pl)
    PROVE  Apart(plugin') /\ RegisteredWorks'
<1>1. /\ active[e] \in Plugins
      /\ active' = [active EXCEPT ![e] = None]
      /\ StopUpToGather(c, rec, active[e], pl)
  BY DEF PopAndStop, Work, Registry, Typed, TypeOK
<1>2. \A x \in Enablements : x # e /\ active[x] # None => active[x] # active[e]
  BY <1>1, ConstantsAssumption DEF Work, Registry, OneTask
<1>3. ASSUME NEW x \in Enablements, active'[x] # None
      PROVE  /\ active'[x] = active[x]
             /\ active[x] \notin {None, active[e]}
  BY <1>1, <1>2, <1>3 DEF Work, Registry, Typed, TypeOK
<1>4. \A x \in Enablements : active'[x] # None =>
        Reloading(active[x])' \/ WorksAs(x, active[x], plugin, task)'
  BY <1>1, <1>3, StopWork
<1> QED
  BY <1>1, <1>4, StopWork DEF RegisteredWorks, WorksAs

\* Stopping a plugin for a reload.
LEMMA ReloadStopWork ==
    ASSUME Work, NEW c \in Calls, call[c].pc = "idle",
           NEW rec \in CallRec, rec.op = "reload",
           NEW e \in Enablements, active[e] # None, active' = active,
           StopUpToGather(c, rec, active[e], plugin)
    PROVE  Apart(plugin') /\ RegisteredWorks'
<1>1. active[e] \in Plugins /\ Same(plugin) /\ plugin \in [Plugins -> PluginRec]
  BY DEF Work, Registry, Typed, TypeOK, Same
<1>2. Reloading(active[e])'
  BY DEF StopUpToGather, Reloading, CallRec, Work, Registry, Typed, TypeOK
<1>3. \A x \in Enablements : active'[x] # None =>
        Reloading(active[x])' \/ WorksAs(x, active[x], plugin, task)'
  BY <1>1, <1>2, StopWork
<1> QED
  BY <1>1, <1>3, StopWork DEF RegisteredWorks, WorksAs

\* A launch gives a plugin nobody knew a task nobody had.
LEMMA LaunchWork ==
    ASSUME Work, NEW c \in Calls, NEW rec \in CallRec,
           NEW pl \in [Plugins -> PluginRec], Same(pl),
           call[c].pc # "stopping" \/ call[c].op # "reload",
           Launch(c, rec, pl)
    PROVE  Apart(plugin') /\ RegisteredWorks'
<1>1. \A d \in Calls : call'[d] = call[d] \/ d = c
  BY FinishIsQuiet DEF Launch, Work, Registry
<1>2. CASE UNCHANGED <<active, task>> /\ plugin' = Collect(pl)
  <2>1. \A x \in Enablements : active'[x] # None =>
          Reloading(active[x])' \/ WorksAs(x, active[x], plugin, task)'
    BY <1>1, <1>2, CollectedWorks
  <2> QED
    BY <1>2, <2>1, SameApart, CollectApart DEF RegisteredWorks, WorksAs
<1>3. ASSUME NEW p \in Plugins, NEW t \in Tasks,
             FreePlugin(p), FreeTask(t), rec.enablement \in Registered,
             active' = [active EXCEPT ![rec.enablement] = p],
             task' = [task EXCEPT ![t] = Worker(rec.enablement, txQueue, rec.config)],
             plugin' = Collect([pl EXCEPT ![p] =
               [enablement |-> rec.enablement, queue |-> txQueue,
                config |-> rec.config, tasks |-> {t}, waiters |-> <<>>]])
      PROVE  Apart(plugin') /\ RegisteredWorks'
  <2> DEFINE new == [enablement |-> rec.enablement, queue |-> txQueue,
                     config |-> rec.config, tasks |-> {t}, waiters |-> <<>>]
             more == [pl EXCEPT ![p] = new]
  <2>1. /\ new.tasks = {t} /\ new.queue = txQueue /\ new.config = rec.config
        /\ more[p] = new
        /\ \A q \in Plugins : q # p => more[q] = pl[q]
    OBVIOUS
  <2> HIDE DEF new, more
  <2>2. plugin' = Collect(more)
    BY <1>3 DEF more, new
  <2>3. \A q \in Plugins : t \notin pl[q].tasks
    BY <1>3 DEF FreeTask, Same
  <2>4. Apart(more)
    <3>1. Apart(pl)
      BY SameApart
    <3> QED
      BY <2>1, <2>3, <3>1 DEF Apart
  <2>5. ASSUME NEW x \in Enablements, active'[x] # None
        PROVE  Reloading(active[x])' \/ WorksAs(x, active[x], plugin, task)'
    <3>1. CASE x = rec.enablement
      <4>1. active'[x] = p /\ Referenced(p)'
        BY <1>3, <3>1 DEF Referenced, Work, Registry, Typed, TypeOK
      <4>2. plugin'[p] = new
        BY <2>1, <2>2, <4>1, CollectKeeps
      <4>3. task'[t] = Worker(x, txQueue, rec.config)
        BY <1>3, <3>1 DEF Work, Registry, Typed, TypeOK
      <4> QED
        BY <2>1, <4>1, <4>2, <4>3 DEF WorksAs, Worker, Done
    <3>2. CASE x # rec.enablement
      <4>1. active'[x] = active[x] /\ active[x] \in Plugins /\ active[x] # p
        BY <1>3, <2>5, <3>2 DEF FreePlugin, Referenced, Work, Registry, Typed, TypeOK
      <4>2. Referenced(active[x])'
        BY <4>1 DEF Referenced
      <4>3. plugin'[active[x]] = pl[active[x]]
        BY <2>1, <2>2, <4>1, <4>2, CollectKeeps
      <4>4. \A s \in plugin[active[x]].tasks : task'[s] = task[s]
        BY <1>3, <4>1 DEF FreeTask, Work, Registry, Typed, TypeOK
      <4> QED
        BY <1>1, <2>5, <4>1, <4>3, <4>4, KeepsWorking DEF Same
    <3> QED
      BY <3>1, <3>2
  <2> QED
    BY <2>2, <2>4, <2>5, CollectApart DEF RegisteredWorks, WorksAs
<1> QED
  BY <1>2, <1>3 DEF Launch

\* A reload that goes on gives its plugin, registered or not, a new task that
\* works with the config the plugin takes.
LEMMA ReloadRestartsWork ==
    ASSUME Work, NEW c \in Calls, ReloadRestarts(c)
    PROVE  Apart(plugin') /\ RegisteredWorks'
<1> DEFINE p == call[c].plugin
<1>1. /\ p \in Plugins
      /\ StoppedBy(c) \in [Plugins -> PluginRec]
      /\ Woken(c) /\ UNCHANGED active
  BY StoppedByType DEF ReloadRestarts, Work, Registry
<1>2. PICK t \in Tasks :
        /\ FreeTask(t)
        /\ task' = [task EXCEPT ![t] = Restarted(c)]
        /\ Finish(c, call[c], "ok")
        /\ plugin' = Collect([StoppedBy(c) EXCEPT ![p] =
             [StoppedBy(c)[p] EXCEPT !.tasks = StoppedBy(c)[p].tasks \cup {t},
                                     !.config = call[c].config]])
  BY DEF ReloadRestarts
<1> DEFINE pl == [StoppedBy(c) EXCEPT ![p] =
             [StoppedBy(c)[p] EXCEPT !.tasks = StoppedBy(c)[p].tasks \cup {t},
                                     !.config = call[c].config]]
<1>3. /\ StoppedBy(c)[p].tasks = {}
      /\ StoppedBy(c)[p].queue = plugin[p].queue
      /\ \A q \in Plugins : q # p => StoppedBy(c)[q] = plugin[q]
  BY <1>1 DEF StoppedBy, Work, Registry, Typed, TypeOK, PluginRec
<1>4. /\ pl[p].tasks = {t} /\ pl[p].queue = plugin[p].queue
      /\ pl[p].config = call[c].config
      /\ \A q \in Plugins : q # p => pl[q] = plugin[q]
  <2>1. StoppedBy(c)[p] \in PluginRec
    BY <1>1
  <2> DEFINE new == [StoppedBy(c)[p] EXCEPT !.tasks = StoppedBy(c)[p].tasks \cup {t},
                                            !.config = call[c].config]
  <2>2. new.tasks = {t} /\ new.queue = plugin[p].queue /\ new.config = call[c].config
    BY <1>3, <2>1 DEF PluginRec
  <2>3. pl[p] = new /\ \A q \in Plugins : q # p => pl[q] = StoppedBy(c)[q]
    BY <1>1
  <2> HIDE DEF pl, new
  <2> QED
    BY <1>3, <2>2, <2>3
<1>5. plugin' = Collect(pl)
  BY <1>2
<1> HIDE DEF pl
<1>6. \A d \in Calls : call'[d] = call[d] \/ d = c
  BY <1>2, FinishIsQuiet DEF Work, Registry
<1>7. \A q \in Plugins : t \notin plugin[q].tasks
  BY <1>2 DEF FreeTask
<1>8. Apart(pl)
  BY <1>4, <1>7 DEF Work, Apart
<1>9. ASSUME NEW x \in Enablements, active'[x] # None
      PROVE  Reloading(active[x])' \/ WorksAs(x, active[x], plugin, task)'
  <2>1. /\ active'[x] = active[x] /\ active[x] \in Plugins
        /\ Referenced(active[x])'
    BY <1>1, <1>9 DEF Referenced, Work, Registry, Typed, TypeOK
  <2>2. plugin'[active[x]] = pl[active[x]]
    BY <1>5, <2>1, CollectKeeps
  <2>3. CASE active[x] = p
    <3>1. plugin[p].enablement = x
      BY <1>9, <2>1, <2>3 DEF Work, Registry, OneTask
    <3>2. task'[t] = Worker(x, plugin[p].queue, call[c].config)
      BY <1>2, <3>1 DEF Restarted, Work, Registry, Typed, TypeOK
    <3> QED
      BY <1>4, <2>1, <2>2, <2>3, <3>2 DEF WorksAs, Worker, Done
  <2>4. CASE active[x] # p
    <3>1. \A s \in plugin[active[x]].tasks : task'[s] = task[s]
      BY <1>2, <1>7, <2>1 DEF Work, Registry, Typed, TypeOK
    <3> QED
      BY <1>4, <1>6, <1>9, <2>1, <2>2, <2>4, <3>1, KeepsWorking
  <2> QED
    BY <2>3, <2>4
<1> QED
  BY <1>5, <1>8, <1>9, CollectApart DEF RegisteredWorks, WorksAs

\* The loop of disconnect_tak.
LEMMA DisconnectWork ==
    ASSUME Work, NEW c \in Calls, NEW rec \in CallRec,
           NEW pl \in [Plugins -> PluginRec], Same(pl),
           call[c].pc # "stopping" \/ call[c].op # "reload",
           DisconnectFrom(c, rec, pl)
    PROVE  Apart(plugin') /\ RegisteredWorks'
<1>1. CASE \E e \in rec.todo : PopAndStop(c, [rec EXCEPT !.todo = @ \ {e}], e, pl)
  <2>1. PICK e \in rec.todo : PopAndStop(c, [rec EXCEPT !.todo = @ \ {e}], e, pl)
    BY <1>1
  <2>2. e \in Enablements /\ [rec EXCEPT !.todo = @ \ {e}] \in CallRec
    BY DEF CallRec
  <2> QED
    BY <2>1, <2>2, PopWork
<1>2. CASE /\ CloseLink(c, [Idle EXCEPT !.op = rec.op])
           /\ UNCHANGED <<active, task>>
           /\ plugin' = Collect(pl)
  <2>1. \A d \in Calls : call'[d] = call[d] \/ d = c
    BY <1>2 DEF CloseLink, Disconnected, OpenLink, Finish, Work, Registry, Typed, TypeOK
  <2>2. \A x \in Enablements : active'[x] # None =>
          Reloading(active[x])' \/ WorksAs(x, active[x], plugin, task)'
    BY <1>2, <2>1, CollectedWorks
  <2> QED
    BY <1>2, <2>2, SameApart, CollectApart DEF RegisteredWorks, WorksAs
<1> QED
  BY <1>1, <1>2 DEF DisconnectFrom

\* A worker that ends was cancelled, or had no source.
LEMMA EndWork ==
    ASSUME Work, NEW t \in Tasks, TaskEnds(t) \/ WorkerReturns(t)
    PROVE  Apart(plugin') /\ RegisteredWorks'
<1>1. UNCHANGED <<active, plugin, call>> /\ task' = [task EXCEPT ![t] = Done]
  BY DEF TaskEnds, WorkerReturns
<1>2. ASSUME NEW e \in Enablements, active[e] # None, WorksAs(e, active[e], plugin, task)
      PROVE  WorksAs(e, active[e], plugin, task)'
  <2> SUFFICES ASSUME NEW s \in plugin[active[e]].tasks
               PROVE  \/ task'[s] = Worker(e, plugin[active[e]].queue, plugin[active[e]].config)
                      \/ task'[s] = Done /\ plugin[active[e]].config \in Sourceless
    BY <1>1 DEF WorksAs
  <2>1. \/ task[s] = Worker(e, plugin[active[e]].queue, plugin[active[e]].config)
        \/ task[s] = Done /\ plugin[active[e]].config \in Sourceless
    BY <1>2 DEF WorksAs
  <2>2. CASE s # t
    BY <1>1, <2>1, <2>2 DEF Work, Registry, Typed, TypeOK
  <2>3. CASE s = t
    <3>1. task'[s] = Done
      BY <1>1, <2>3 DEF Work, Registry, Typed, TypeOK
    <3>2. task[t].state = "live" /\ task[t].config \in Sourceless
      BY <2>1, <2>3 DEF TaskEnds, WorkerReturns, Worker, Done
    <3> QED
      BY <2>1, <2>3, <3>1, <3>2 DEF Worker, Done
  <2> QED
    BY <2>2, <2>3
<1>3. \A e \in Enablements : active[e] # None =>
        Reloading(active[e])' \/ WorksAs(e, active[e], plugin, task)'
  <2>1. \A e \in Enablements : active[e] # None =>
          Reloading(active[e]) \/ WorksAs(e, active[e], plugin, task)
    BY DEF Work, RegisteredWorks, WorksAs
  <2>2. \A e \in Enablements : Reloading(active[e]) => Reloading(active[e])'
    BY <1>1 DEF Reloading
  <2> QED
    BY <1>2, <2>1, <2>2
<1> QED
  BY <1>1, <1>3 DEF Work, Apart, RegisteredWorks, WorksAs

\* Every step keeps the registered plugins at work.
LEMMA WorkStep == Work /\ [Next]_vars => Work'
<1> SUFFICES ASSUME Work, [Next]_vars PROVE Apart(plugin') /\ RegisteredWorks'
  BY RegistryStep DEF Work, Apart
<1>0. Same(plugin) /\ plugin \in [Plugins -> PluginRec] /\ call \in [Calls -> CallRec]
  BY DEF Same, Work, Registry, Typed, TypeOK
<1>1. ASSUME NEW c \in Calls, \A d \in Calls : call'[d] = call[d] \/ d = c,
             UNCHANGED <<active, plugin, task>>,
             call[c].pc # "stopping"
      PROVE  Apart(plugin') /\ RegisteredWorks'
  <2>1. \A e \in Enablements : active'[e] # None =>
          Reloading(active[e])' \/ WorksAs(e, active[e], plugin, task)'
    BY <1>1, KeepsWorking
  <2> QED
    BY <1>1, <2>1 DEF Work, Apart, RegisteredWorks, WorksAs
<1>2. ASSUME NEW c \in Calls, Woken(c), call[c].op # "reload"
      PROVE  Same(StoppedBy(c)) /\ StoppedBy(c) \in [Plugins -> PluginRec]
  <2>1. \A e \in Enablements : active[e] # call[c].plugin
    BY <1>2 DEF Work, Registry, PoppedOnce, Pops, Woken
  <2>2. call[c].plugin \in Plugins
    BY <1>2, StoppedByType DEF Work, Registry
  <2>3. /\ StoppedBy(c)[call[c].plugin].tasks = {}
        /\ \A q \in Plugins : q # call[c].plugin => StoppedBy(c)[q] = plugin[q]
    BY <1>0, <2>2 DEF StoppedBy, PluginRec
  <2>4. \A e \in Enablements : active[e] # None => active[e] \in Plugins
    BY DEF Work, Registry, Typed, TypeOK
  <2> QED
    BY <1>2, <2>1, <2>3, <2>4, StoppedByType DEF Same, Work, Registry
<1>3. ASSUME NEW c \in Calls, NEW e \in Enablements, NEW f \in Configs, BeginStart(c, e, f)
      PROVE  Apart(plugin') /\ RegisteredWorks'
  <2> DEFINE rec == [Idle EXCEPT !.op = "start", !.enablement = e, !.config = f]
  <2>1. rec \in CallRec
    BY BeginTypes
  <2> HIDE DEF rec
  <2>2. \/ Finish(c, rec, "error") /\ UNCHANGED <<active, plugin, task>>
        \/ Launch(c, rec, plugin)
        \/ PopAndStop(c, rec, e, plugin)
    BY <1>3 DEF BeginStart, rec
  <2>3. call[c].pc # "stopping"
    BY <1>3 DEF BeginStart
  <2>4. Finish(c, rec, "error") => \A d \in Calls : call'[d] = call[d] \/ d = c
    BY <1>0 DEF Finish
  <2> QED
    BY <1>0, <1>1, <2>1, <2>2, <2>3, <2>4, LaunchWork, PopWork
<1>4. ASSUME NEW c \in Calls, StartAfterStop(c)
      PROVE  Apart(plugin') /\ RegisteredWorks'
  BY <1>0, <1>2, <1>4, LaunchWork DEF StartAfterStop
<1>5. ASSUME NEW c \in Calls, NEW e \in Enablements, BeginStop(c, e)
      PROVE  Apart(plugin') /\ RegisteredWorks'
  <2> DEFINE rec == [Idle EXCEPT !.op = "stop", !.enablement = e]
  <2>1. rec \in CallRec
    BY DEF Idle, CallRec, Ops
  <2> HIDE DEF rec
  <2>2. \/ Finish(c, rec, "ok") /\ UNCHANGED <<active, plugin, task>>
        \/ PopAndStop(c, rec, e, plugin)
    BY <1>5 DEF BeginStop, rec
  <2>3. call[c].pc # "stopping"
    BY <1>5 DEF BeginStop
  <2>4. Finish(c, rec, "ok") => \A d \in Calls : call'[d] = call[d] \/ d = c
    BY <1>0 DEF Finish
  <2> QED
    BY <1>0, <1>1, <2>1, <2>2, <2>3, <2>4, PopWork
<1>6. ASSUME NEW c \in Calls, StopReturns(c)
      PROVE  Apart(plugin') /\ RegisteredWorks'
  <2>1. \A d \in Calls : call'[d] = call[d] \/ d = c
    BY <1>0, <1>6 DEF StopReturns, Finish
  <2>2. Same(StoppedBy(c))
    BY <1>2, <1>6 DEF StopReturns
  <2>3. \A e \in Enablements : active'[e] # None =>
          Reloading(active[e])' \/ WorksAs(e, active[e], plugin, task)'
    BY <1>6, <2>1, <2>2, CollectedWorks DEF StopReturns
  <2> QED
    BY <1>6, <2>2, <2>3, SameApart, CollectApart DEF StopReturns, RegisteredWorks, WorksAs
<1>7. ASSUME NEW c \in Calls, NEW e \in Enablements, NEW f \in Configs, BeginReload(c, e, f)
      PROVE  Apart(plugin') /\ RegisteredWorks'
  <2> DEFINE rec == [Idle EXCEPT !.op = "reload", !.enablement = e, !.config = f]
  <2>1. rec \in CallRec /\ rec.op = "reload"
    BY BeginTypes DEF Idle
  <2> HIDE DEF rec
  <2>2. \/ Finish(c, rec, "ok") /\ UNCHANGED <<active, plugin, task>>
        \/ active[e] # None /\ active' = active
           /\ StopUpToGather(c, rec, active[e], plugin)
    BY <1>7 DEF BeginReload, rec
  <2>3. call[c].pc = "idle"
    BY <1>7 DEF BeginReload
  <2>4. Finish(c, rec, "ok") => \A d \in Calls : call'[d] = call[d] \/ d = c
    BY <1>0 DEF Finish
  <2> QED
    BY <1>1, <2>1, <2>2, <2>3, <2>4, ReloadStopWork
<1>8. ASSUME NEW c \in Calls, BeginDisconnect(c) \/ BeginConnect(c)
      PROVE  Apart(plugin') /\ RegisteredWorks'
  <2>1. \A op \in ConnectionOps : [Idle EXCEPT !.op = op, !.todo = Snapshot] \in CallRec
    BY DEF Idle, CallRec, Ops, ConnectionOps, Snapshot
  <2>2. call[c].pc = "idle"
    BY <1>8 DEF BeginDisconnect, BeginConnect
  <2>3. CASE UNCHANGED <<active, plugin, task>> /\ OpenLink(c, [Idle EXCEPT !.op = "connect"])
    <3>1. \A d \in Calls : call'[d] = call[d] \/ d = c
      BY <1>0, <2>3 DEF OpenLink
    <3> QED
      BY <1>1, <2>2, <2>3, <3>1
  <2>4. CASE \E op \in ConnectionOps :
               DisconnectFrom(c, [Idle EXCEPT !.op = op, !.todo = Snapshot], plugin)
    BY <1>0, <2>1, <2>2, <2>4, DisconnectWork
  <2> QED
    BY <1>8, <2>3, <2>4 DEF BeginDisconnect, BeginConnect, ConnectionOps
<1>9. ASSUME NEW c \in Calls, DisconnectGoesOn(c)
      PROVE  Apart(plugin') /\ RegisteredWorks'
  <2>1. call[c] \in CallRec /\ call[c].op # "reload" /\ Woken(c)
        /\ DisconnectFrom(c, call[c], StoppedBy(c))
    BY <1>0, <1>9 DEF DisconnectGoesOn, ConnectionOps
  <2> QED
    BY <1>2, <2>1, DisconnectWork
<1>10. ASSUME NEW c \in Calls,
              LinkClosed(c) \/ SetupReturns(c) \/ SetupFails(c) \/ Return(c)
       PROVE  Apart(plugin') /\ RegisteredWorks'
  <2>1. \A d \in Calls : call'[d] = call[d] \/ d = c
    BY <1>0, <1>10 DEF LinkClosed, SetupReturns, SetupFails, Return, Disconnected,
                       OpenLink, Finish
  <2>2. call[c].pc # "stopping" /\ UNCHANGED <<active, plugin, task>>
    BY <1>10 DEF LinkClosed, SetupReturns, SetupFails, Return
  <2> QED
    BY <1>1, <2>1, <2>2
<1>11. ASSUME UNCHANGED <<active, plugin, task, call>>
       PROVE  Apart(plugin') /\ RegisteredWorks'
  BY <1>11 DEF Work, Apart, RegisteredWorks, Reloading
<1> QED
  BY <1>3, <1>4, <1>5, <1>6, <1>7, <1>8, <1>9, <1>10, <1>11, ReloadRestartsWork, EndWork
  DEF Next, Begin, Resume, LinkLost, vars

\* However starts, stops, reloads and disconnects overlap, the worker of a
\* registered plugin works with the enablement, queue and config the plugin
\* shows, unless a reload is replacing it or it had no source.
THEOREM WorkIsAsShown == Spec => []RegisteredWorks
<1>1. Init => Work
  BY RegistryInit DEF Init, Work, Apart, RegisteredWorks, NoPlugin
<1>2. Work => RegisteredWorks
  BY DEF Work
<1> QED
  BY <1>1, <1>2, WorkStep, PTL DEF Spec

=============================================================================
