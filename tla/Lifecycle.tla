----------------------------- MODULE Lifecycle -----------------------------
(***************************************************************************)
(* What the RuntimeManager promises a caller that lets one operation end   *)
(* before it issues the next on the same enablement: a connection that is  *)
(* up or down, and for every enablement the configuration it runs with.    *)
(* An enablement starts only on a connection that is up, the connection    *)
(* goes down only when nothing runs, and a configuration is replaced       *)
(* without the enablement ever being lost.                                 *)
(***************************************************************************)
CONSTANTS Enablements, Configs, None

VARIABLES up, running

vars == <<up, running>>

Init == up = FALSE /\ running = [e \in Enablements |-> None]

Connect == ~up /\ up' = TRUE /\ UNCHANGED running

Disconnect ==
    /\ up /\ \A e \in Enablements : running[e] = None
    /\ up' = FALSE
    /\ UNCHANGED running

Start(e, f) ==
    /\ up /\ running[e] = None
    /\ running' = [running EXCEPT ![e] = f]
    /\ UNCHANGED up

Stop(e) ==
    /\ running[e] # None
    /\ running' = [running EXCEPT ![e] = None]
    /\ UNCHANGED up

Reload(e, f) ==
    /\ running[e] # None
    /\ running' = [running EXCEPT ![e] = f]
    /\ UNCHANGED up

Next ==
    \/ Connect \/ Disconnect
    \/ \E e \in Enablements :
         Stop(e) \/ \E f \in Configs : Start(e, f) \/ Reload(e, f)

Spec == Init /\ [][Next]_vars

=============================================================================
