---------------------------- MODULE DurableTable ----------------------------
(***************************************************************************)
(* What the enablements table promises across restarts: rows change one at *)
(* a time and only while the service is up; a start either does not happen *)
(* or brings the table to the current schema and removes the stale rows,   *)
(* all at once; the end of the process, however it comes, loses nothing.   *)
(* A start that met an error of the database may leave either undone, but  *)
(* no column is lost by it, and of the rows it removes the stale or none.  *)
(***************************************************************************)
CONSTANTS
    Rows,    \* ids of rows
    Values,  \* what a row can hold
    Stale,   \* values a start removes
    Absent   \* no row

VARIABLES
    table,   \* the rows
    ready,   \* the table has every column the service uses
    serving, \* the process is past its migrations
    clean    \* ... and met no error of the database in them

vars == <<table, ready, serving, clean>>

Init ==
    /\ table \in [Rows -> Values \cup {Absent}]
    /\ ready \in BOOLEAN
    /\ serving = FALSE
    /\ clean = FALSE

\* the first start of all: an empty table
Create ==
    /\ ~serving /\ \A r \in Rows : table[r] = Absent
    /\ ready' = TRUE
    /\ UNCHANGED <<table, serving, clean>>

Cleared == [r \in Rows |-> IF table[r] \in Stale THEN Absent ELSE table[r]]

Start ==
    /\ ~serving
    /\ serving' = TRUE
    /\ clean' \in BOOLEAN
    /\ table' \in {table, Cleared} /\ (clean' => table' = Cleared)
    /\ ready' \in BOOLEAN /\ (ready \/ clean' => ready')

Change ==
    /\ serving
    /\ \E r \in Rows, v \in Values \cup {Absent} : table' = [table EXCEPT ![r] = v]
    /\ UNCHANGED <<ready, serving, clean>>

End ==
    /\ serving' = FALSE /\ clean' = FALSE
    /\ UNCHANGED <<table, ready>>

Next == Create \/ Start \/ Change \/ End

Spec == Init /\ [][Next]_vars

=============================================================================
