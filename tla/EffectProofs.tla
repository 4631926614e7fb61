---------------------------- MODULE EffectProofs ----------------------------
(***************************************************************************)
(* What each step of a RuntimeManager call means to its caller: what the   *)
(* call's record says after it, and what runs then.  For a disciplined     *)
(* caller, for every value of the constants of Runtime.                    *)
(***************************************************************************)
EXTENDS DisciplineProofs

-----------------------------------------------------------------------------
(* The effects. *)

\* the step is c's: no other call's record changes
StepOf(c) == \A d \in Calls \ {c} : call'[d] = call[d]

\* what runs changes for e at most
RunsBut(e) == \A x \in Enablements : x # e => Config(x)' = Config(x)

\* The step is one of c's start of e with the config f: an error, the new
\* plugin, or the wait for the old one.
StartEffect(c, e, f) ==
    /\ StepOf(c) /\ RunsBut(e) /\ UNCHANGED conn
    /\ call'[c].op = "start" /\ call'[c].enablement = e
    /\ \/ /\ call'[c].pc = "error"
          /\ Config(e)' = Config(e)
          /\ CanStart => Config(e) = None /\ e \notin Registered
       \/ /\ call'[c].pc = "ok"
          /\ CanStart /\ e \in Registered
          /\ Config(e) = None /\ Config(e)' = f
       \/ /\ call'[c].pc = "stopping" /\ call'[c].config = f
          /\ Config(e) # None /\ Config(e)' = None

\* ... of c's stop of e: whether or not it still waits, e no longer runs.
StopEffect(c, e) ==
    /\ StepOf(c) /\ RunsBut(e) /\ UNCHANGED conn
    /\ call'[c].op = "stop" /\ call'[c].enablement = e
    /\ call'[c].pc \in {"ok", "stopping"}
    /\ Config(e)' = None

\* ... of c's reload of e: nothing to reload, the new config, or the wait.
ReloadEffect(c, e, f) ==
    /\ StepOf(c) /\ RunsBut(e) /\ UNCHANGED conn
    /\ call'[c].op = "reload" /\ call'[c].enablement = e
    /\ \/ /\ call'[c].pc = "ok"
          /\ Config(e)' = IF Config(e) = None THEN None ELSE f
       \/ /\ call'[c].pc = "stopping" /\ call'[c].config = f
          /\ Config(e) # None /\ Config(e)' = Config(e)

\* ... of c's connect or disconnect: what ran still runs or does not, and a
\* connect that returns has a connection, one that raises none.
ConnectionEffect(c, op) ==
    /\ StepOf(c)
    /\ \A x \in Enablements : Config(x)' \in {None, Config(x)}
    /\ call'[c].op = op /\ call'[c].pc \in InProgress \cup {"ok", "error"}
    /\ op = "connect" => /\ call'[c].pc = "ok" => CanStart'
                         /\ call'[c].pc = "error" => ~connected'

-----------------------------------------------------------------------------
(* The steps have these effects. *)

\* The record of a call that returns or raises.
LEMMA FinishEffect ==
    ASSUME Typed, NEW c \in Calls, NEW rec, NEW pc, Finish(c, rec, pc)
    PROVE  /\ StepOf(c)
           /\ call'[c].pc = pc /\ call'[c].op = rec.op
           /\ call'[c].enablement = rec.enablement
BY DEF Finish, StepOf, Idle, Typed, TypeOK

\* The record of a call that waits for a plugin.
LEMMA WaitEffect ==
    ASSUME Typed, NEW c \in Calls, NEW rec \in CallRec, NEW p, NEW pl,
           StopUpToGather(c, rec, p, pl)
    PROVE  /\ StepOf(c)
           /\ call'[c].pc = "stopping" /\ call'[c].op = rec.op
           /\ call'[c].enablement = rec.enablement
           /\ call'[c].config = rec.config
BY DEF StopUpToGather, StepOf, CallRec, Typed, TypeOK

\* A call that stops the plugin it popped has nothing registered in its place.
LEMMA PoppedIsGone ==
    ASSUME Orderly, NEW c \in Calls, Woken(c), call[c].op \in {"start", "stop"}
    PROVE  call[c].enablement \in Enablements /\ active[call[c].enablement] = None
<1>1. /\ call[c].pc = "stopping" /\ call[c].plugin \in Plugins
      /\ Ready(c, StoppedBy(c))
  BY WokenReady DEF Woken, Orderly, Work, Registry, Typed, StoppingHasPlugin
<1>2. /\ call[c].enablement = plugin[call[c].plugin].enablement
      /\ call[c].enablement \in Enablements
  BY <1>1 DEF Orderly, Order, CallOK, ConnectionOps
<1> SUFFICES ASSUME active[call[c].enablement] # None PROVE FALSE
  BY <1>2
<1>3. /\ active[call[c].enablement] \in Plugins
      /\ plugin[active[call[c].enablement]].enablement = call[c].enablement
  BY <1>2 DEF Orderly, Work, Registry, OneTask, Typed, TypeOK
<1>4. active[call[c].enablement] # call[c].plugin
  BY <1>1, <1>2 DEF Ready
<1> QED
  BY <1>1, <1>2, <1>3, <1>4, ConstantsAssumption DEF Orderly, Order, OnePlugin

LEMMA StartsEffect ==
    ASSUME Orderly, Typed', NEW c \in Calls, NEW e \in Enablements, NEW f \in Configs,
           BeginStart(c, e, f)
    PROVE  StartEffect(c, e, f)
<1> DEFINE rec == [Idle EXCEPT !.op = "start", !.enablement = e, !.config = f]
<1>0. /\ rec.op = "start" /\ rec.enablement = e /\ rec.config = f /\ rec \in CallRec
      /\ call[c].pc = "idle" /\ UNCHANGED conn
      /\ plugin \in [Plugins -> PluginRec] /\ Typed
  BY BeginTypes DEF Idle, BeginStart, Orderly, Work, Registry, Typed, TypeOK
<1>1. \/ ~CanStart /\ Finish(c, rec, "error") /\ UNCHANGED <<active, plugin>>
      \/ CanStart /\ active[e] = None /\ Launch(c, rec, plugin)
      \/ CanStart /\ PopAndStop(c, rec, e, plugin)
  BY DEF BeginStart, Running
<1> HIDE DEF rec
<1>2. Ready(c, plugin)
  BY <1>0, IdleReady
<1>3. CASE ~CanStart /\ Finish(c, rec, "error") /\ UNCHANGED <<active, plugin>>
  <2>1. \A x \in Enablements : Config(x)' = Config(x)
    BY <1>3 DEF Config
  <2> QED
    BY <1>0, <1>3, <2>1, FinishEffect DEF StartEffect, RunsBut
<1>4. CASE CanStart /\ active[e] = None /\ Launch(c, rec, plugin)
  <2>1. \/ /\ e \notin Registered /\ Finish(c, rec, "error")
           /\ \A x \in Enablements : Config(x)' = Config(x)
        \/ /\ e \in Registered /\ Finish(c, rec, "ok")
           /\ Config(e) = None /\ Config(e)' = rec.config
           /\ \A x \in Enablements : x # e => Config(x)' = Config(x)
    BY <1>0, <1>2, <1>4, LaunchConfig
  <2>2. Config(e) = None
    BY <1>4 DEF Config
  <2> QED
    BY <1>0, <1>4, <2>1, <2>2, FinishEffect DEF StartEffect, RunsBut
<1>5. CASE CanStart /\ PopAndStop(c, rec, e, plugin)
  <2>1. /\ Config(e) # None /\ Config(e)' = None
        /\ \A x \in Enablements : x # e => Config(x)' = Config(x)
    BY <1>0, <1>2, <1>5, PopConfig
  <2>2. /\ StepOf(c) /\ call'[c].pc = "stopping" /\ call'[c].op = rec.op
        /\ call'[c].enablement = rec.enablement /\ call'[c].config = rec.config
    BY <1>0, <1>5, WaitEffect DEF PopAndStop
  <2> QED
    BY <1>0, <2>1, <2>2 DEF StartEffect, RunsBut
<1> QED
  BY <1>1, <1>3, <1>4, <1>5

LEMMA StartsAgainEffect ==
    ASSUME Orderly, Typed', NEW c \in Calls, StartAfterStop(c)
    PROVE  \E e \in Enablements, f \in Configs :
             /\ e = call[c].enablement /\ f = call[c].config
             /\ call[c].pc = "stopping"
             /\ StartEffect(c, e, f)
<1>1. /\ Woken(c) /\ call[c].op = "start" /\ call[c].pc = "stopping"
      /\ Launch(c, call[c], StoppedBy(c)) /\ UNCHANGED conn
      /\ Typed
  BY DEF StartAfterStop, Woken, Orderly, Work, Registry
<1>2. Ready(c, StoppedBy(c)) /\ StoppedBy(c) \in [Plugins -> PluginRec]
  BY <1>1, WokenReady
<1>3. CanStart /\ call[c].config \in Configs
  BY <1>1 DEF Orderly, Order, CallOK, ConnectionOps, CanStart
<1>4. PICK e \in Enablements, f \in Configs, rec \in CallRec :
        /\ rec = call[c] /\ e = rec.enablement /\ f = rec.config
        /\ active[e] = None /\ rec.op = "start"
  BY <1>1, <1>3, PoppedIsGone DEF Typed, TypeOK
<1>5. \/ /\ e \notin Registered /\ Finish(c, rec, "error")
         /\ \A x \in Enablements : Config(x)' = Config(x)
      \/ /\ e \in Registered /\ Finish(c, rec, "ok")
         /\ Config(e) = None /\ Config(e)' = rec.config
         /\ \A x \in Enablements : x # e => Config(x)' = Config(x)
  BY <1>1, <1>2, <1>4, LaunchConfig
<1>6. Config(e) = None
  BY <1>4 DEF Config
<1>7. StartEffect(c, e, f)
  BY <1>1, <1>3, <1>4, <1>5, <1>6, FinishEffect DEF StartEffect, RunsBut
<1> QED
  BY <1>1, <1>4, <1>7

LEMMA StopsEffect ==
    ASSUME Orderly, NEW c \in Calls, NEW e \in Enablements, BeginStop(c, e)
    PROVE  StopEffect(c, e)
<1> DEFINE rec == [Idle EXCEPT !.op = "stop", !.enablement = e]
<1>0. /\ rec.op = "stop" /\ rec.enablement = e
      /\ call[c].pc = "idle" /\ UNCHANGED conn
      /\ plugin \in [Plugins -> PluginRec] /\ Typed
  BY DEF Idle, BeginStop, Orderly, Work, Registry, Typed, TypeOK
<1>1. rec \in CallRec
  BY DEF Idle, CallRec, Ops
<1>2. \/ PopAndStop(c, rec, e, plugin)
      \/ active[e] = None /\ Finish(c, rec, "ok") /\ UNCHANGED <<active, plugin>>
  BY DEF BeginStop
<1> HIDE DEF rec
<1>3. CASE PopAndStop(c, rec, e, plugin)
  <2>1. /\ Config(e)' = None
        /\ \A x \in Enablements : x # e => Config(x)' = Config(x)
    BY <1>0, <1>3, IdleReady, PopConfig
  <2>2. StepOf(c) /\ call'[c].pc = "stopping" /\ call'[c].op = rec.op
        /\ call'[c].enablement = rec.enablement
    BY <1>0, <1>1, <1>3, WaitEffect DEF PopAndStop
  <2> QED
    BY <1>0, <2>1, <2>2 DEF StopEffect, RunsBut
<1>4. CASE active[e] = None /\ Finish(c, rec, "ok") /\ UNCHANGED <<active, plugin>>
  <2>1. Config(e)' = None /\ \A x \in Enablements : Config(x)' = Config(x)
    BY <1>4 DEF Config
  <2> QED
    BY <1>0, <1>4, <2>1, FinishEffect DEF StopEffect, RunsBut
<1> QED
  BY <1>2, <1>3, <1>4

LEMMA StoppedEffect ==
    ASSUME Orderly, NEW c \in Calls, StopReturns(c)
    PROVE  \E e \in Enablements : /\ e = call[c].enablement
                                  /\ call[c].pc = "stopping"
                                  /\ StopEffect(c, e)
<1>1. /\ Woken(c) /\ call[c].op = "stop" /\ call[c].pc = "stopping"
      /\ Finish(c, call[c], "ok") /\ UNCHANGED <<active, conn>>
      /\ plugin' = Collect(StoppedBy(c)) /\ Ready(c, StoppedBy(c))
      /\ Typed
  BY WokenReady DEF StopReturns, Woken, Orderly, Work, Registry, conn
<1>2. PICK e \in Enablements, rec \in CallRec :
        rec = call[c] /\ e = rec.enablement /\ active[e] = None /\ rec.op = "stop"
  BY <1>1, PoppedIsGone DEF Typed, TypeOK
<1>3. \A x \in Enablements : Config(x)' = Config(x)
  BY <1>1, KeepsConfig
<1>4. Config(e) = None
  BY <1>2 DEF Config
<1>5. StopEffect(c, e)
  BY <1>1, <1>2, <1>3, <1>4, FinishEffect DEF StopEffect, RunsBut
<1> QED
  BY <1>1, <1>2, <1>5

LEMMA ReloadsEffect ==
    ASSUME Orderly, NEW c \in Calls, NEW e \in Enablements, NEW f \in Configs,
           BeginReload(c, e, f)
    PROVE  ReloadEffect(c, e, f)
<1> DEFINE rec == [Idle EXCEPT !.op = "reload", !.enablement = e, !.config = f]
<1>0. /\ rec.op = "reload" /\ rec.enablement = e /\ rec.config = f /\ rec \in CallRec
      /\ call[c].pc = "idle" /\ UNCHANGED conn
      /\ plugin \in [Plugins -> PluginRec] /\ Typed
  BY BeginTypes DEF Idle, BeginReload, Orderly, Work, Registry, Typed, TypeOK
<1>1. \/ active[e] # None /\ active' = active /\ StopUpToGather(c, rec, active[e], plugin)
      \/ active[e] = None /\ Finish(c, rec, "ok") /\ UNCHANGED <<active, plugin>>
  BY DEF BeginReload
<1> HIDE DEF rec
<1>2. CASE active[e] # None /\ active' = active /\ StopUpToGather(c, rec, active[e], plugin)
  <2>1. PICK p \in Plugins : p = active[e]
    BY <1>2 DEF Orderly, Work, Registry, Typed, TypeOK
  <2>2. \A x \in Enablements : Config(x)' = Config(x)
    BY <1>0, <1>2, <2>1, IdleReady, GatherConfig
  <2>3. Config(e) # None
    BY <1>2, HasConfig
  <2>4. /\ StepOf(c) /\ call'[c].pc = "stopping" /\ call'[c].op = rec.op
        /\ call'[c].enablement = rec.enablement /\ call'[c].config = rec.config
    BY <1>0, <1>2, <2>1, WaitEffect
  <2> QED
    BY <1>0, <2>2, <2>3, <2>4 DEF ReloadEffect, RunsBut
<1>3. CASE active[e] = None /\ Finish(c, rec, "ok") /\ UNCHANGED <<active, plugin>>
  <2>1. Config(e) = None /\ \A x \in Enablements : Config(x)' = Config(x)
    BY <1>3 DEF Config
  <2> QED
    BY <1>0, <1>3, <2>1, FinishEffect DEF ReloadEffect, RunsBut
<1> QED
  BY <1>1, <1>2, <1>3

LEMMA ReloadedEffect ==
    ASSUME Orderly, NEW c \in Calls, ReloadRestarts(c)
    PROVE  \E e \in Enablements, f \in Configs :
             /\ e = call[c].enablement /\ f = call[c].config
             /\ call[c].pc = "stopping"
             /\ ReloadEffect(c, e, f) /\ call'[c].pc = "ok"
<1>1. /\ Finish(c, call[c], "ok") /\ UNCHANGED conn /\ Typed
      /\ call[c].op = "reload" /\ call[c].pc = "stopping"
  BY DEF ReloadRestarts, Woken, Orderly, Work, Registry, conn
<1>2. PICK e \in Enablements, f \in Configs :
             /\ e = call[c].enablement /\ f = call[c].config
             /\ Config(e) # None /\ Config(e)' = f
             /\ \A x \in Enablements : x # e => Config(x)' = Config(x)
  BY RestartConfig
<1>3. PICK rec : rec = call[c]
  OBVIOUS
<1>4. /\ StepOf(c) /\ call'[c].pc = "ok" /\ call'[c].op = "reload"
      /\ call'[c].enablement = e
  BY <1>1, <1>2, <1>3, FinishEffect
<1>5. ReloadEffect(c, e, f)
  BY <1>1, <1>2, <1>4 DEF ReloadEffect, RunsBut
<1> QED
  BY <1>1, <1>2, <1>4, <1>5

-----------------------------------------------------------------------------
(* Connect and disconnect. *)

\* The record of a call that turned to the link, for a connect or disconnect.
LinkStep(c, op) ==
    /\ StepOf(c)
    /\ call'[c].op = op /\ call'[c].pc \in InProgress \cup {"ok"}
    /\ call'[c].pc = "ok" => op = "disconnect"

LEMMA OpenLinkStep ==
    ASSUME Typed, NEW c \in Calls, NEW rec \in CallRec, OpenLink(c, rec)
    PROVE  LinkStep(c, rec.op)
<1>1. PICK l \in Links : call' = [call EXCEPT ![c] = [rec EXCEPT !.pc = "setup", !.link = l]]
  BY DEF OpenLink
<1>2. [rec EXCEPT !.pc = "setup", !.link = l].op = rec.op
      /\ [rec EXCEPT !.pc = "setup", !.link = l].pc = "setup"
  BY DEF CallRec
<1> QED
  BY <1>1, <1>2 DEF LinkStep, StepOf, InProgress, Typed, TypeOK

LEMMA DisconnectedStep ==
    ASSUME Typed, NEW c \in Calls, NEW rec \in CallRec, Disconnected(c, rec)
    PROVE  LinkStep(c, rec.op)
<1>1. CASE rec.op = "disconnect" /\ Finish(c, rec, "ok")
  BY <1>1, FinishEffect DEF LinkStep
<1> QED
  BY <1>1, OpenLinkStep DEF Disconnected

LEMMA CloseLinkStep ==
    ASSUME Typed, NEW c \in Calls, NEW rec \in CallRec, CloseLink(c, rec)
    PROVE  LinkStep(c, rec.op)
<1>1. CASE call' = [call EXCEPT ![c] = [rec EXCEPT !.pc = "closing"]]
  <2>1. [rec EXCEPT !.pc = "closing"].op = rec.op
        /\ [rec EXCEPT !.pc = "closing"].pc = "closing"
    BY DEF CallRec
  <2> QED
    BY <1>1, <2>1 DEF LinkStep, StepOf, InProgress, Typed, TypeOK
<1> QED
  BY <1>1, DisconnectedStep DEF CloseLink

LEMMA DisconnectFromStep ==
    ASSUME Orderly, NEW c \in Calls, NEW rec \in CallRec,
           NEW pl \in [Plugins -> PluginRec], Ready(c, pl), DisconnectFrom(c, rec, pl)
    PROVE  /\ LinkStep(c, rec.op)
           /\ \A x \in Enablements : Config(x)' \in {None, Config(x)}
<1>0. Typed
  BY DEF Orderly, Work, Registry
<1>1. ASSUME NEW e \in rec.todo, PopAndStop(c, [rec EXCEPT !.todo = @ \ {e}], e, pl)
      PROVE  /\ LinkStep(c, rec.op)
             /\ \A x \in Enablements : Config(x)' \in {None, Config(x)}
  <2> DEFINE less == [rec EXCEPT !.todo = @ \ {e}]
  <2>1. less \in CallRec /\ less.op = rec.op /\ e \in Enablements
    BY DEF CallRec
  <2>2. PopAndStop(c, less, e, pl)
    BY <1>1
  <2> HIDE DEF less
  <2>3. StepOf(c) /\ call'[c].pc = "stopping" /\ call'[c].op = less.op
    BY <1>0, <2>1, <2>2, WaitEffect DEF PopAndStop
  <2>4. /\ Config(e)' = None
        /\ \A x \in Enablements : x # e => Config(x)' = Config(x)
    BY <2>1, <2>2, PopConfig
  <2> QED
    BY <2>1, <2>3, <2>4 DEF LinkStep, InProgress
<1>2. ASSUME CloseLink(c, [Idle EXCEPT !.op = rec.op]), UNCHANGED active,
             plugin' = Collect(pl)
      PROVE  /\ LinkStep(c, rec.op)
             /\ \A x \in Enablements : Config(x)' \in {None, Config(x)}
  <2>1. [Idle EXCEPT !.op = rec.op] \in CallRec /\ [Idle EXCEPT !.op = rec.op].op = rec.op
    BY DEF CallRec, Idle
  <2>2. LinkStep(c, rec.op)
    BY <1>0, <1>2, <2>1, CloseLinkStep
  <2> QED
    BY <1>2, <2>2, KeepsConfig
<1> QED
  BY <1>1, <1>2 DEF DisconnectFrom

\* What leaves the registry and the plugins alone leaves what runs alone.
LEMMA ConfigKept ==
    ASSUME UNCHANGED <<active, plugin>>, NEW x
    PROVE  Config(x)' = Config(x)
BY DEF Config

LEMMA ConnectionBegins ==
    ASSUME Orderly, NEW c \in Calls, NEW op \in ConnectionOps,
           IF op = "connect" THEN BeginConnect(c) ELSE BeginDisconnect(c)
    PROVE  /\ LinkStep(c, op)
           /\ \A x \in Enablements : Config(x)' \in {None, Config(x)}
<1> DEFINE rec == [Idle EXCEPT !.op = op, !.todo = Snapshot]
           new == [Idle EXCEPT !.op = op]
<1>1. /\ rec \in CallRec /\ rec.op = op
      /\ new \in CallRec /\ new.op = op
  BY DEF Idle, CallRec, Ops, ConnectionOps, Snapshot
<1>2. call[c].pc = "idle"
  BY DEF BeginConnect, BeginDisconnect
<1>3. \/ DisconnectFrom(c, rec, plugin)
      \/ OpenLink(c, new) /\ UNCHANGED <<active, plugin>>
  BY DEF BeginConnect, BeginDisconnect, ConnectionOps
<1> HIDE DEF rec, new
<1>4. plugin \in [Plugins -> PluginRec] /\ Ready(c, plugin) /\ Typed
  BY <1>2, IdleReady DEF Orderly, Work, Registry, Typed, TypeOK
<1>5. CASE DisconnectFrom(c, rec, plugin)
  BY <1>1, <1>4, <1>5, DisconnectFromStep
<1>6. CASE OpenLink(c, new) /\ UNCHANGED <<active, plugin>>
  BY <1>1, <1>4, <1>6, OpenLinkStep, ConfigKept
<1> QED
  BY <1>3, <1>5, <1>6

\* setup() has returned to the only connect there is: its link runs.
LEMMA SetupConnects ==
    ASSUME Orderly, NEW c \in Calls, SetupReturns(c)
    PROVE  call'[c].pc = "ok" /\ call'[c].op = call[c].op /\ StepOf(c) /\ CanStart'
<1>1. clitool \in Links /\ call[c].link = clitool /\ link \in [Links -> LinkRec] /\ Typed
  BY DEF SetupReturns, Orderly, Senders, Work, Registry, Typed, TypeOK
<1> DEFINE ready == [link EXCEPT ![call[c].link].ready = TRUE]
<1>2. ready[clitool].ready
  BY <1>1 DEF LinkRec
<1>3. Finish(c, call[c], "ok") /\ connected' = TRUE
      /\ txQueue' = IF ready[clitool].ready THEN clitool ELSE None
  BY <1>1, ConstantsAssumption DEF SetupReturns
<1> HIDE DEF ready
<1>4. CanStart'
  BY <1>1, <1>2, <1>3, ConstantsAssumption DEF CanStart
<1>5. PICK rec : rec = call[c]
  OBVIOUS
<1> QED
  BY <1>1, <1>3, <1>4, <1>5, FinishEffect

LEMMA ConnectionEffects ==
    ASSUME Orderly, NEW c \in Calls, NEW op,
           \/ /\ op \in ConnectionOps
              /\ IF op = "connect" THEN BeginConnect(c) ELSE BeginDisconnect(c)
           \/ /\ op = call[c].op
              /\ \/ DisconnectGoesOn(c) \/ LinkClosed(c)
                 \/ SetupReturns(c) \/ SetupFails(c)
    PROVE  ConnectionEffect(c, op) /\ op \in ConnectionOps
<1>0. Typed /\ call[c] \in CallRec
  BY DEF Orderly, Work, Registry, Typed, TypeOK
<1>1. ASSUME op \in ConnectionOps, LinkStep(c, op),
             \A x \in Enablements : Config(x)' \in {None, Config(x)}
      PROVE  ConnectionEffect(c, op) /\ op \in ConnectionOps
  BY <1>1 DEF ConnectionEffect, LinkStep, InProgress
<1>2. CASE /\ op \in ConnectionOps
           /\ IF op = "connect" THEN BeginConnect(c) ELSE BeginDisconnect(c)
  BY <1>1, <1>2, ConnectionBegins
<1>3. CASE op = call[c].op /\ DisconnectGoesOn(c)
  <2>1. Woken(c) /\ op \in ConnectionOps /\ DisconnectFrom(c, call[c], StoppedBy(c))
    BY <1>3 DEF DisconnectGoesOn
  <2>2. Ready(c, StoppedBy(c)) /\ StoppedBy(c) \in [Plugins -> PluginRec]
    BY <1>3, <2>1, WokenReady DEF ConnectionOps
  <2>3. PICK rec \in CallRec : rec = call[c]
    BY <1>0
  <2>4. PICK pl \in [Plugins -> PluginRec] : pl = StoppedBy(c)
    BY <2>2
  <2> QED
    BY <1>1, <1>3, <2>1, <2>2, <2>3, <2>4, DisconnectFromStep
<1>4. CASE op = call[c].op /\ LinkClosed(c)
  <2>1. PICK rec \in CallRec : rec = call[c]
    BY <1>0
  <2>2. op \in ConnectionOps /\ Disconnected(c, rec) /\ UNCHANGED <<active, plugin>>
    BY <1>4, <2>1 DEF LinkClosed, Orderly, Order, CallOK
  <2> QED
    BY <1>0, <1>1, <1>4, <2>1, <2>2, DisconnectedStep, ConfigKept
<1>5. CASE op = call[c].op /\ SetupReturns(c)
  <2>1. op \in ConnectionOps /\ UNCHANGED <<active, plugin>>
    BY <1>5 DEF SetupReturns, Orderly, Order, CallOK
  <2> QED
    BY <1>5, <2>1, SetupConnects, ConfigKept DEF ConnectionEffect
<1>6. CASE op = call[c].op /\ SetupFails(c)
  <2>1. op \in ConnectionOps /\ UNCHANGED <<active, plugin>> /\ ~connected'
    BY <1>6 DEF SetupFails, Orderly, Order, CallOK
  <2>2. PICK rec : rec = call[c]
    OBVIOUS
  <2>3. StepOf(c) /\ call'[c].pc = "error" /\ call'[c].op = op
    BY <1>0, <1>6, <2>2, FinishEffect DEF SetupFails
  <2> QED
    BY <2>1, <2>3, ConfigKept DEF ConnectionEffect
<1> QED
  BY <1>2, <1>3, <1>4, <1>5, <1>6

=============================================================================
