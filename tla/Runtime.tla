------------------------------ MODULE Runtime ------------------------------
(***************************************************************************)
(* The RuntimeManager singleton (app/core/runtime_manager.py), the plugin  *)
(* objects it owns (app/enablements/base.py and the three plugin classes)  *)
(* and the asyncio tasks those plugins start.                              *)
(*                                                                         *)
(* Everything runs on one event loop, so code is atomic between two awaits *)
(* that really suspend.  Those are `await clitool.setup()', the gather of  *)
(* a plugin's cancelled tasks in plugin.stop(), and the gather of the      *)
(* link's tasks in disconnect_tak.  plugin.start() has no await inside.  A *)
(* method call in progress is a record call[c]; one action is everything   *)
(* the method does from one suspension to the next, including what its     *)
(* callers do after it returns to them without suspending.                 *)
(***************************************************************************)
EXTENDS Naturals, Sequences, FiniteSets

CONSTANTS
    Enablements,  \* ids of rows of the enablements table
    Registered,   \* the enablements whose type_id has a plugin class
    Configs,      \* configuration dicts, up to what the workers do with them
    Sourceless,   \* configs without an enabled source: the worker returns
    Calls,        \* RuntimeManager calls that can be in progress together
    Plugins,      \* identities of EnablementPlugin objects
    Tasks,        \* identities of worker tasks
    Links,        \* identities of CLITool objects, each with its tx_queue
    None

ASSUME ConstantsAssumption ==
    /\ Registered \subseteq Enablements
    /\ Sourceless \subseteq Configs
    /\ None \notin Enablements \cup Configs \cup Plugins \cup Tasks \cup Links

VARIABLES
    clitool,    \* self._clitool
    txQueue,    \* self._tx_queue: the link the queue belongs to
    connected,  \* self._connected
    active,     \* self._active_enablements
    link,       \* the CLITool objects
    plugin,     \* the EnablementPlugin objects
    task,       \* the asyncio tasks of the workers
    call        \* the coroutines of the RuntimeManager methods

conn == <<clitool, txQueue, connected>>
vars == <<clitool, txQueue, connected, active, link, plugin, task, call>>

-----------------------------------------------------------------------------
(* Objects. *)

\* A CLITool: setup() returned; running_tasks is not empty; how many of the
\* TX workers in running_tasks are alive.
NewLink == [ready |-> FALSE, ran |-> FALSE, sending |-> 0]

\* waiters: the calls suspended in stop() of this plugin, in the order of
\* their gathers, which is the order the event loop wakes them in.
NoPlugin == [enablement |-> None, queue |-> None, config |-> None,
             tasks |-> {}, waiters |-> <<>>]

\* A finished task keeps nothing that matters.
Done == [state |-> "done", enablement |-> None, queue |-> None, config |-> None]

Idle == [op |-> "none", pc |-> "idle", enablement |-> None, config |-> None,
         plugin |-> None, waits |-> {}, todo |-> {}, link |-> None]

ConnectionOps == {"connect", "disconnect"}
Ops == {"start", "stop", "reload"} \cup ConnectionOps
InProgress == {"setup", "stopping", "closing"}

LinkRec == [ready : BOOLEAN, ran : BOOLEAN, sending : Nat]
PluginRec == [enablement : Enablements \cup {None}, queue : Links \cup {None},
              config : Configs \cup {None}, tasks : SUBSET Tasks,
              waiters : Seq(Calls)]
TaskRec == [state : {"live", "cancelling", "done"},
            enablement : Enablements \cup {None}, queue : Links \cup {None},
            config : Configs \cup {None}]
CallRec == [op : Ops \cup {"none"}, pc : InProgress \cup {"idle", "ok", "error"},
            enablement : Enablements \cup {None}, config : Configs \cup {None},
            plugin : Plugins \cup {None}, waits : SUBSET Tasks,
            todo : SUBSET Enablements, link : Links \cup {None}]

\* Definitions named ..._slip are variants of the definition that follows them,
\* as a slip in the code would make it; no specification uses one.

\* The types of the variables, of every object and of every call in progress.
TypeOK ==
    /\ clitool \in Links \cup {None}
    /\ txQueue \in Links \cup {None}
    /\ connected \in BOOLEAN
    /\ active \in [Enablements -> Plugins \cup {None}]
    /\ link \in [Links -> LinkRec]
    /\ plugin \in [Plugins -> PluginRec]
    /\ task \in [Tasks -> TaskRec]
    /\ call \in [Calls -> CallRec]

Init ==
    /\ clitool = None
    /\ txQueue = None
    /\ connected = FALSE
    /\ active = [e \in Enablements |-> None]
    /\ link = [l \in Links |-> NewLink]
    /\ plugin = [p \in Plugins |-> NoPlugin]
    /\ task = [t \in Tasks |-> Done]
    /\ call = [c \in Calls |-> Idle]

-----------------------------------------------------------------------------
(* Identities: an object nothing refers to is collected, its name reused.  *)

Referenced(p) == \/ \E e \in Enablements : active[e] = p
                 \/ \E c \in Calls : call[c].plugin = p

\* plugin objects after a step: those still referenced, as pl has them
Collect(pl) == [p \in Plugins |-> IF Referenced(p)' THEN pl[p] ELSE NoPlugin]

FreePlugin(p) == ~Referenced(p)

FreeTask(t) ==
    /\ task[t].state = "done"
    /\ \A p \in Plugins : t \notin plugin[p].tasks
    /\ \A c \in Calls : t \notin call[c].waits

FreeLink(l) ==
    /\ clitool # l /\ txQueue # l /\ link[l].sending = 0
    /\ \A p \in Plugins : plugin[p].queue # l
    /\ \A t \in Tasks : task[t].queue # l
    /\ \A c \in Calls : call[c].link # l

\* Bounds of the model: a call that may need a new task or link begins only
\* when one is left for it beside those the calls in progress may need.
TaskRoom == Cardinality({t \in Tasks : FreeTask(t)})
              > Cardinality({d \in Calls : call[d].pc = "stopping"
                                        /\ call[d].op \in {"start", "reload"}})
LinkRoom == Cardinality({l \in Links : FreeLink(l)})
              > Cardinality({d \in Calls : call[d].pc \in {"stopping", "closing"}
                                        /\ call[d].op = "connect"})

-----------------------------------------------------------------------------
(* EnablementPlugin.start and stop, the same in the three plugin classes.  *)

\* task.cancel() for each of ts: a task that is already ending is unaffected
Cancelled(ts) ==
    [t \in Tasks |-> IF t \in ts /\ task[t].state = "live"
                     THEN [task[t] EXCEPT !.state = "cancelling"] ELSE task[t]]

\* plugin.stop() on p up to its gather, run by c, whose record will be rec.
\* The gather suspends: a plugin in the registry has a task (OneTask below).
StopUpToGather(c, rec, p, pl) ==
    /\ task' = Cancelled(pl[p].tasks)
    /\ call' = [call EXCEPT ![c] = [rec EXCEPT !.pc = "stopping", !.plugin = p,
                                               !.waits = pl[p].tasks]]
    /\ plugin' = Collect([pl EXCEPT ![p].waiters = Append(@, c)])

NextWaiter(p, c) == plugin[p].waiters # <<>> /\ Head(plugin[p].waiters) = c

\* the gather does not wait for the cancelled tasks
Woken_slip(c) == call[c].pc = "stopping" /\ NextWaiter(call[c].plugin, c)

\* the gather of c is over and the event loop wakes c
Woken(c) ==
    /\ call[c].pc = "stopping"
    /\ \A t \in call[c].waits : task[t].state = "done"
    /\ NextWaiter(call[c].plugin, c)

\* the task list is not cleared
StoppedBy_slip(c) == [plugin EXCEPT ![call[c].plugin].waiters = Tail(@)]

\* the plugin objects after the rest of stop(): self._tasks.clear()
StoppedBy(c) ==
    LET p == call[c].plugin IN
    [plugin EXCEPT ![p] = [plugin[p] EXCEPT !.tasks = {},
                                            !.waiters = Tail(plugin[p].waiters)]]

\* the task ensure_future makes for a plugin of enablement e
Worker(e, q, f) == [state |-> "live", enablement |-> e, queue |-> q, config |-> f]

\* the method returns to its caller, or raises
Finish(c, rec, pc) ==
    call' = [call EXCEPT ![c] = [Idle EXCEPT !.op = rec.op, !.pc = pc,
                                             !.enablement = rec.enablement]]

-----------------------------------------------------------------------------
(* start_enablement *)

\* from get_plugin_class on: a new plugin, its task, the registry entry
Launch(c, rec, pl) ==
    \/ /\ rec.enablement \notin Registered
       /\ Finish(c, rec, "error")
       /\ UNCHANGED <<active, task>>
       /\ plugin' = Collect(pl)
    \/ /\ rec.enablement \in Registered
       /\ \E p \in Plugins, t \in Tasks :
            /\ FreePlugin(p) /\ FreeTask(t)
            /\ active' = [active EXCEPT ![rec.enablement] = p]
            /\ task' = [task EXCEPT
                          ![t] = Worker(rec.enablement, txQueue, rec.config)]
            /\ Finish(c, rec, "ok")
            /\ plugin' = Collect([pl EXCEPT ![p] =
                 [enablement |-> rec.enablement, queue |-> txQueue,
                  config |-> rec.config, tasks |-> {t}, waiters |-> <<>>]])

\* get instead of pop
PopAndStop_slip(c, rec, e, pl) ==
    active[e] # None /\ active' = active /\ StopUpToGather(c, rec, active[e], pl)

\* self._active_enablements.pop(e), then plugin.stop() up to its gather
PopAndStop(c, rec, e, pl) ==
    /\ active[e] # None
    /\ active' = [active EXCEPT ![e] = None]
    /\ StopUpToGather(c, rec, active[e], pl)

\* the connection is not checked
CanStart_slip == TRUE

CanStart == connected /\ txQueue # None

\* the registry is not consulted before the new plugin is made
Running_slip(e) == FALSE

Running(e) == active[e] # None

BeginStart(c, e, f) ==
    LET rec == [Idle EXCEPT !.op = "start", !.enablement = e, !.config = f] IN
    /\ call[c].pc = "idle"
    /\ TaskRoom
    /\ \/ /\ ~CanStart
          /\ Finish(c, rec, "error")
          /\ UNCHANGED <<active, plugin, task>>
       \/ /\ CanStart
          /\ \/ ~Running(e) /\ Launch(c, rec, plugin)
             \/ Running(e) /\ PopAndStop(c, rec, e, plugin)
    /\ UNCHANGED <<conn, link>>

\* the old plugin is stopped; nothing is checked again before the new one
StartAfterStop(c) ==
    /\ call[c].op = "start" /\ Woken(c)
    /\ Launch(c, call[c], StoppedBy(c))
    /\ UNCHANGED <<conn, link>>

-----------------------------------------------------------------------------
(* stop_enablement *)

BeginStop(c, e) ==
    LET rec == [Idle EXCEPT !.op = "stop", !.enablement = e] IN
    /\ call[c].pc = "idle"
    /\ \/ PopAndStop(c, rec, e, plugin)
       \/ /\ active[e] = None
          /\ Finish(c, rec, "ok")
          /\ UNCHANGED <<active, plugin, task>>
    /\ UNCHANGED <<conn, link>>

StopReturns(c) ==
    /\ call[c].op = "stop" /\ Woken(c)
    /\ Finish(c, call[c], "ok")
    /\ UNCHANGED <<conn, link, active, task>>
    /\ plugin' = Collect(StoppedBy(c))

-----------------------------------------------------------------------------
(* restart_enablement and EnablementPlugin.on_config_updated *)

BeginReload(c, e, f) ==
    LET rec == [Idle EXCEPT !.op = "reload", !.enablement = e, !.config = f] IN
    /\ call[c].pc = "idle"
    /\ TaskRoom
    /\ \/ /\ active[e] # None
          /\ active' = active
          /\ StopUpToGather(c, rec, active[e], plugin)
       \/ /\ active[e] = None
          /\ Finish(c, rec, "ok")
          /\ UNCHANGED <<active, plugin, task>>
    /\ UNCHANGED <<conn, link>>

\* the worker is put on the manager's queue, not on its plugin's
Restarted_slip(c) == Worker(plugin[call[c].plugin].enablement, txQueue, call[c].config)

\* start() is given the plugin where it wants the enablement's config
RestartedType_slip(c) == Worker(plugin[call[c].plugin].enablement,
                                plugin[call[c].plugin].queue, call[c].plugin)

\* the task of the plugin c reloads, on the queue the plugin was made with
Restarted(c) == Worker(plugin[call[c].plugin].enablement,
                       plugin[call[c].plugin].queue, call[c].config)

\* the plugin takes the new config and starts again, whether or not it
\* is still in the registry
ReloadRestarts(c) ==
    LET p == call[c].plugin IN
    /\ call[c].op = "reload" /\ Woken(c)
    /\ \E t \in Tasks :
         /\ FreeTask(t)
         /\ task' = [task EXCEPT ![t] = Restarted(c)]
         /\ Finish(c, call[c], "ok")
         /\ UNCHANGED <<conn, link, active>>
         /\ plugin' = Collect([StoppedBy(c) EXCEPT ![p] =
              [StoppedBy(c)[p] EXCEPT !.tasks = StoppedBy(c)[p].tasks \cup {t},
                                      !.config = call[c].config]])

-----------------------------------------------------------------------------
(* connect_tak and disconnect_tak *)

\* self._clitool = CLITool(...), then setup() up to its first suspension
OpenLink(c, rec) ==
    \E l \in Links :
        /\ FreeLink(l)
        /\ clitool' = l
        /\ link' = [link EXCEPT ![l] = NewLink]
        /\ call' = [call EXCEPT ![c] = [rec EXCEPT !.pc = "setup", !.link = l]]

\* the end of disconnect_tak; connect_tak goes on to open its own link
Disconnected(c, rec) ==
    /\ txQueue' = None
    /\ connected' = FALSE
    /\ \/ /\ rec.op = "disconnect"
          /\ clitool' = None
          /\ Finish(c, rec, "ok")
          /\ UNCHANGED link
       \/ /\ rec.op = "connect"
          /\ OpenLink(c, rec)

\* the running tasks are not looked at
LinkHasTasks_slip == FALSE

LinkHasTasks == clitool # None /\ link[clitool].ran

\* cancel the link's running tasks and gather them, if there are any
CloseLink(c, rec) ==
    \/ /\ LinkHasTasks
       /\ link' = [link EXCEPT ![clitool].sending = 0]
       /\ call' = [call EXCEPT ![c] = [rec EXCEPT !.pc = "closing"]]
       /\ UNCHANGED conn
    \/ /\ ~LinkHasTasks
       /\ Disconnected(c, rec)

\* the loop over the snapshot rec.todo, up to its next suspension
DisconnectFrom(c, rec, pl) ==
    \/ \E e \in rec.todo :
         /\ PopAndStop(c, [rec EXCEPT !.todo = @ \ {e}], e, pl)
         /\ UNCHANGED <<conn, link>>
    \/ /\ \A e \in rec.todo : active[e] = None
       /\ CloseLink(c, [Idle EXCEPT !.op = rec.op])
       /\ UNCHANGED <<active, task>>
       /\ plugin' = Collect(pl)

\* the enablements are left alone
Snapshot_slip == {}

Snapshot == {e \in Enablements : active[e] # None}

BeginDisconnect(c) ==
    /\ call[c].pc = "idle"
    /\ DisconnectFrom(c, [Idle EXCEPT !.op = "disconnect", !.todo = Snapshot], plugin)

\* a manager that is connected has nothing to do
BeginConnect_slip(c) ==
    LET rec == [Idle EXCEPT !.op = "connect", !.todo = Snapshot] IN
    /\ call[c].pc = "idle"
    /\ LinkRoom
    /\ \/ /\ connected
          /\ Finish(c, rec, "ok")
          /\ UNCHANGED <<conn, active, link, plugin, task>>
       \/ /\ ~connected
          /\ OpenLink(c, [Idle EXCEPT !.op = "connect"])
          /\ UNCHANGED <<txQueue, connected, active, plugin, task>>

BeginConnect(c) ==
    LET rec == [Idle EXCEPT !.op = "connect", !.todo = Snapshot] IN
    /\ call[c].pc = "idle"
    /\ LinkRoom
    /\ \/ /\ connected
          /\ DisconnectFrom(c, rec, plugin)
       \/ /\ ~connected
          /\ OpenLink(c, [Idle EXCEPT !.op = "connect"])
          /\ UNCHANGED <<txQueue, connected, active, plugin, task>>

\* the loop runs until the registry is empty
DisconnectGoesOn_slip(c) ==
    /\ call[c].op \in ConnectionOps /\ Woken(c)
    /\ DisconnectFrom(c, [call[c] EXCEPT !.todo = Snapshot], StoppedBy(c))

DisconnectGoesOn(c) ==
    /\ call[c].op \in ConnectionOps /\ Woken(c)
    /\ DisconnectFrom(c, call[c], StoppedBy(c))

LinkClosed(c) ==
    /\ call[c].pc = "closing"
    /\ Disconnected(c, call[c])
    /\ UNCHANGED <<active, plugin, task>>

\* clitool.run_tasks() on l, with the links as lk has them
RunTasks(lk, l) == [lk EXCEPT ![l] = [ready |-> lk[l].ready, ran |-> TRUE,
                                      sending |-> lk[l].sending + 1]]

\* setup() returned.  What runs and is published is self._clitool, which may
\* by now be the link of another call, set up or not, or None (an exception).
SetupReturns(c) ==
    LET ready == [link EXCEPT ![call[c].link].ready = TRUE] IN
    /\ call[c].pc = "setup"
    /\ \/ /\ clitool # None
          /\ link' = IF ready[clitool].ready
                     THEN RunTasks(ready, clitool) ELSE ready
          /\ txQueue' = IF ready[clitool].ready THEN clitool ELSE None
          /\ connected' = TRUE
          /\ clitool' = clitool
          /\ Finish(c, call[c], "ok")
       \/ /\ clitool = None
          /\ link' = ready
          /\ txQueue' = None
          /\ connected' = FALSE
          /\ clitool' = None
          /\ Finish(c, call[c], "error")
    /\ UNCHANGED <<active, plugin, task>>

\* the queue is not reset
SetupFails_slip(c) ==
    /\ call[c].pc = "setup"
    /\ connected' = FALSE /\ clitool' = None
    /\ Finish(c, call[c], "error")
    /\ UNCHANGED <<txQueue, link, active, plugin, task>>

\* setup() raised
SetupFails(c) ==
    /\ call[c].pc = "setup"
    /\ connected' = FALSE
    /\ clitool' = None
    /\ txQueue' = None
    /\ Finish(c, call[c], "error")
    /\ UNCHANGED <<link, active, plugin, task>>

-----------------------------------------------------------------------------
(* Worker tasks, the link, and the callers. *)

\* a cancelled task runs its handlers and ends; it puts nothing more
TaskEnds(t) ==
    /\ task[t].state = "cancelling"
    /\ task' = [task EXCEPT ![t] = Done]
    /\ UNCHANGED <<conn, active, link, plugin, call>>

\* run() of a polling or streaming worker returns when no source is enabled
WorkerReturns(t) ==
    /\ task[t].state = "live" /\ task[t].config \in Sourceless
    /\ task' = [task EXCEPT ![t] = Done]
    /\ UNCHANGED <<conn, active, link, plugin, call>>

\* the TX worker of a link ends with its connection; nobody is told
LinkLost(l) ==
    /\ link[l].sending > 0
    /\ link' = [link EXCEPT ![l].sending = 0]
    /\ UNCHANGED <<conn, active, plugin, task, call>>

\* the caller has its answer
Return(c) ==
    /\ call[c].pc \in {"ok", "error"}
    /\ call' = [call EXCEPT ![c] = Idle]
    /\ UNCHANGED <<conn, active, link, plugin, task>>

Begin(c) ==
    \/ BeginConnect(c)
    \/ BeginDisconnect(c)
    \/ \E e \in Enablements :
         \/ BeginStop(c, e)
         \/ \E f \in Configs : BeginStart(c, e, f) \/ BeginReload(c, e, f)

Resume(c) ==
    \/ SetupReturns(c)
    \/ SetupFails(c)
    \/ StartAfterStop(c)
    \/ StopReturns(c)
    \/ ReloadRestarts(c)
    \/ DisconnectGoesOn(c)
    \/ LinkClosed(c)

Next ==
    \/ \E c \in Calls : Begin(c) \/ Resume(c) \/ Return(c)
    \/ \E t \in Tasks : TaskEnds(t) \/ WorkerReturns(t)
    \/ \E l \in Links : LinkLost(l)

Spec == Init /\ [][Next]_vars

\* A cancelled task ends, setup() and the link's gather come back, and the
\* event loop wakes every coroutine that can go on.
Fairness ==
    /\ \A c \in Calls : WF_vars(Resume(c))
    /\ \A t \in Tasks : WF_vars(TaskEnds(t))

FairSpec == Spec /\ Fairness

=============================================================================
