-------------------------- MODULE RuntimeProperties --------------------------
(***************************************************************************)
(* The properties of Runtime.  The first group holds for any calls in any  *)
(* overlap.  The second holds for a caller with the discipline below.  The *)
(* third states what the docs and docstrings say of the program without    *)
(* naming a discipline.                                                    *)
(***************************************************************************)
EXTENDS Runtime

-----------------------------------------------------------------------------
(* For any overlap of calls. *)

\* The published queue is the queue of the current CLITool, and is published
\* only while connected; a connected manager has a CLITool.  (connect_tak and
\* disconnect_tak write the three fields at different awaits.)
QueueFollowsConnection ==
    /\ txQueue \in {None, clitool}
    /\ txQueue # None => connected
    /\ connected => clitool # None

\* A registered plugin belongs to the enablement it is registered under, to
\* no other, and holds exactly one task, however reloads of it overlap: a
\* stop() of it therefore always suspends and always has something to cancel.
OneTask ==
    \A e \in Enablements : active[e] # None =>
        /\ plugin[active[e]].enablement = e
        /\ \E t \in Tasks : plugin[active[e]].tasks = {t}

Pops(c) == call[c].pc = "stopping" /\ call[c].op # "reload"

\* A plugin is taken out of the registry by one call only: no two calls run
\* stop_enablement on one object, and a popped plugin is not registered again.
PoppedOnce ==
    \A c \in Calls : Pops(c) =>
        /\ \A e \in Enablements : active[e] # call[c].plugin
        /\ \A d \in Calls \ {c} : Pops(d) => call[d].plugin # call[c].plugin

Reloading(p) ==
    \E c \in Calls : call[c].pc = "stopping" /\ call[c].op = "reload"
                     /\ call[c].plugin = p

\* The task a registered plugin holds works with that plugin's enablement,
\* queue and newest config, unless a reload is replacing it or it returned
\* for want of a source: overlapping reloads never leave an enablement listed
\* as active with a dead worker or with a config its plugin does not show.
RegisteredWorks ==
    \A e \in Enablements : active[e] # None =>
        LET p == active[e] IN
        \/ Reloading(p)
        \/ \A t \in plugin[p].tasks :
             \/ task[t] = Worker(e, plugin[p].queue, plugin[p].config)
             \/ task[t] = Done /\ plugin[p].config \in Sourceless

\* Every call ends: a disconnect goes over a snapshot, so it ends though
\* enablements keep being started behind it.
CallsEnd ==
    \A c \in Calls : call[c].pc \in InProgress ~> call[c].pc \notin InProgress

-----------------------------------------------------------------------------
(* For a disciplined caller: connect and disconnect run alone, and calls   *)
(* on one enablement do not overlap.  Calls on several enablements may.    *)

Busy(c) == call[c].pc # "idle"

Disciplined ==
    \A c, d \in Calls : c # d /\ Busy(c) /\ Busy(d) =>
        /\ {call[c].op, call[d].op} \cap ConnectionOps = {}
        /\ call[c].enablement # call[d].enablement

DisciplinedSpec == Init /\ [][Next /\ Disciplined']_vars

Held(t) == \E e \in Enablements :
              active[e] # None /\ t \in plugin[active[e]].tasks

\* Every task that still works is held by a registered plugin, so that a stop
\* can reach it: no worker is left behind by restarts and reloads.
NoOrphan == \A t \in Tasks : task[t].state = "live" => Held(t)

\* An enablement never has two unfinished workers: the new one starts only
\* after the old one has ended, its cancellation included.
OneWorker ==
    \A s, t \in Tasks : s # t /\ task[s].state # "done" /\ task[t].state # "done"
                        => task[s].enablement # task[t].enablement

\* What is registered puts on the current queue, and nothing is registered
\* while the manager is not connected.
CurrentQueue ==
    \A e \in Enablements : active[e] # None =>
        /\ connected
        /\ plugin[active[e]].queue = txQueue /\ txQueue # None

\* At most one TX worker is alive, on the current link.
OneSender ==
    \A l \in Links : link[l].sending > 0 => l = clitool /\ link[l].sending = 1

\* A connection that was lost leaves the manager as if connected, its queue
\* filling up.  A connect that reports success ends that state, whatever the
\* one before was: the queue it publishes is of a link that sends, the dead link
\* and what was registered on it are gone.
ConnectRecovers ==
    [][\A c \in Calls :
          call'[c].op = "connect" /\ call'[c].pc = "ok" /\ call[c].pc # "ok" =>
            /\ connected' /\ txQueue' = clitool'
            /\ clitool' # None /\ link'[clitool'].sending = 1
            /\ \A e \in Enablements : active'[e] = None]_vars

\* The disciplined manager implements the abstract one: an enablement runs
\* with the config of its registered plugin.
Abstract == INSTANCE Lifecycle WITH
    up <- connected,
    running <- [e \in Enablements |-> IF active[e] = None THEN None
                                      ELSE plugin[active[e]].config]

ImplementsLifecycle == Abstract!Spec

-----------------------------------------------------------------------------
(* What docs and docstrings promise. *)

\* README.md:362-363: a stop calls plugin.stop(), which cancels the tasks of
\* the enablement.  A task no registered plugin holds is beyond any stop, so
\* none works once no call is in progress.
StopCancelsTasks ==
    (\A c \in Calls : ~Busy(c)) =>
        \A t \in Tasks : task[t].state = "live" => Held(t)

=============================================================================
