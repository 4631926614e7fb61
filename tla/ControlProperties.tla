-------------------------- MODULE ControlProperties --------------------------
(* The properties of ControlPlane. *)
EXTENDS ControlPlane

\* no handler is at work on e or on the connection
Quiet(e) == \A c \in Calls : req[c].at # "none" =>
                               req[c].e # e /\ req[c].e # None

\* its worker is at work and will not return for want of a source
Works(e) == \E t \in Tasks : /\ active[e] # None
                             /\ t \in plugin[active[e]].tasks
                             /\ task[t].state = "live"
                             /\ task[t].config \notin Sourceless

\* README.md:366-367, enablement_service.py:220: a restore with a connection
\* starts every row that is enabled and of a known type with its committed
\* configuration, and no other, whatever the crash before it interrupted.
RestoreExact ==
    [][server = "restoring" /\ server' = "up" /\ connected =>
         \A e \in Enablements :
           /\ active[e] # None <=> (Live(e) /\ row[e].enabled /\ e \in Registered)
           /\ active[e] # None =>
                plugin[active[e]].config = ConfigOf(e, row[e].fields)]_allVars

\* docs/frontend-build-brief.md:211 (and 117): when an enablement runs, edits
\* of its row and sources are reloaded without a restart by hand: a worker at
\* work uses the configuration the database holds once all is answered.
EditsInForce ==
    \A e \in Enablements : Quiet(e) /\ Works(e) =>
        plugin[active[e]].config = ConfigOf(e, row[e].fields)

-----------------------------------------------------------------------------
(* For clients that send one request at a time per enablement, and none    *)
(* beside a request for the connection.                                    *)

OneAtATime ==
    \A c, d \in Calls : c # d /\ req[c].at # "none" /\ req[d].at # "none" =>
        /\ req[c].e # None /\ req[d].e # None
        /\ req[c].e # req[d].e

OneAtATimeSpec == ControlInit /\ [][ControlNext /\ OneAtATime']_allVars

\* The same clients, but edits of one enablement may overlap: two operators
\* save the row and a source, or one saves two forms.
Edits == SourceOps \cup {"put"}

OnlyEditsOverlap ==
    \A c, d \in Calls : c # d /\ req[c].at # "none" /\ req[d].at # "none" =>
        req[c].op \in Edits /\ req[d].op \in Edits

EditsSpec == ControlInit /\ [][ControlNext /\ OnlyEditsOverlap']_allVars

\* What runs has a row: a deleted enablement leaves no plugin behind, which
\* no stop request could reach (its answer is 404).
NoGhost == \A e \in Enablements : Quiet(e) /\ active[e] # None => Live(e)

\* README.md:322 and 366-367: `enabled' decides what a restart re-arms, and
\* docs/frontend-build-brief.md:35 calls it distinct from what runs.  Row and
\* registry are written at different awaits, with a crash between them.  Once
\* requests are answered, the flag is what was asked for last, and an enablement
\* last asked to rest, by a stop or at its creation, does not run: so what runs
\* is marked and what was stopped is not.  Flag and plugin differ where a PUT
\* has set the flag alone.
FlagsAgree ==
    \A e \in Enablements : Quiet(e) /\ Live(e) =>
        /\ row[e].enabled <=> asked[e] = "run"
        /\ active[e] # None => asked[e] # "rest"

=============================================================================
