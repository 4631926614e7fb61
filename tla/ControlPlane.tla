---------------------------- MODULE ControlPlane ----------------------------
(***************************************************************************)
(* The request handlers of app/api/routes (enablements, sources,           *)
(* tak_config) and the restore at startup (enablement_service.py, main.py) *)
(* over the runtime of module Runtime and the rows of the database.        *)
(*                                                                         *)
(* Every request has its own database connection, and every query of it is *)
(* an await: other handlers run in between.  A row and its sources are two *)
(* queries, so a configuration can mix two states of the database.  What   *)
(* is read or written counts at the commit; a query that fails is left     *)
(* out.  A request c makes its RuntimeManager calls as call[c].            *)
(***************************************************************************)
EXTENDS Runtime

CONSTANTS
    Versions,  \* values of the configuration fields of an enablements row
    Sources,   \* ids a source can get
    PutFlags   \* values of `enabled' that clients send in a PUT

ASSUME ControlAssumption ==
    /\ Configs = [fields : Versions, sourced : BOOLEAN]
    /\ Sourceless = {f \in Configs : ~f.sourced}
    /\ PutFlags \subseteq BOOLEAN
    /\ None \notin Versions \cup Sources

VARIABLES
    row,     \* table enablements, by id; ids are never given twice
    source,  \* table sources, by enablement_id and id
    server,  \* the process
    req,     \* the handlers in progress
    asked    \* history: the last word of a client on whether each is to run

db == <<row, source, asked>>
control == <<row, source, server, req, asked>>
allVars == <<vars, row, source, server, req, asked>>

SourceStates == {"unborn", "on", "off", "gone"}
Stored == {"on", "off"}

SourceOps == {"add", "edit", "remove"}
RowOps == {"put", "start", "stop"} \cup SourceOps
Stages == {"none", "write", "check", "row", "sources", "act", "stop", "runtime"}

NoReq == [op |-> "none", at |-> "none", e |-> None, source |-> None,
          fields |-> None, config |-> None, todo |-> {}]

\* Types of the tables, the process and the handlers.
ControlTypeOK ==
    /\ row \in [Enablements -> [state : {"unborn", "live", "gone"},
                                fields : Versions, enabled : BOOLEAN]]
    /\ source \in [Enablements -> [Sources -> SourceStates]]
    /\ server \in {"down", "restoring", "up"}
    /\ req \in [Calls -> [op : RowOps \cup ConnectionOps \cup {"none", "delete", "restore"},
                          at : Stages, e : Enablements \cup {None},
                          source : Sources \cup {None},
                          fields : Versions \cup {None},
                          config : Configs \cup {None},
                          todo : SUBSET Enablements]]
    /\ asked \in [Enablements -> {"run", "rest", "unmark"}]

Live(e) == row[e].state = "live"

\* where there is no row, the fields do not matter
NoRow(state, fields) == [state |-> state, fields |-> fields, enabled |-> FALSE]

\* what build_enablement_config makes of a row read earlier and the sources now
ConfigOf(e, fields) ==
    [fields |-> fields, sourced |-> \E s \in Sources : source[e][s] = "on"]

\* what a create or an answered start or stop says of an enablement; a PUT
\* that takes the flag away unmarks it and leaves it running
Word(b) == IF b THEN "run" ELSE "rest"

\* RuntimeManager.is_enablement_running: a reload clears and sets _running in
\* one step with the new task, so a registered plugin has it set
IsRunning(e) ==
    /\ active[e] # None
    /\ \E t \in plugin[active[e]].tasks : task[t].state # "done"

\* The process is down; the database is any that earlier runs can leave.
ControlInit ==
    /\ Init
    /\ server = "down"
    /\ req = [c \in Calls |-> NoReq]
    /\ row \in [Enablements -> [state : {"unborn", "live"}, fields : Versions,
                                enabled : BOOLEAN]]
    /\ source \in [Enablements -> [Sources -> {"unborn"} \cup Stored]]
    /\ \A e \in Enablements : ~Live(e) =>
         /\ row[e] = NoRow("unborn", row[e].fields)
         /\ \A s \in Sources : source[e][s] = "unborn"
    /\ asked = [e \in Enablements |-> Word(row[e].enabled)]

-----------------------------------------------------------------------------
(* Handlers: the requests that name an enablement. *)

Arrives(c) == server = "up" /\ req[c].at = "none"

Answer(c) == req' = [req EXCEPT ![c] = NoReq]

GoesTo(c, at) == req' = [req EXCEPT ![c].at = at]

\* POST /enablements: the type is checked, the row inserted; nothing runs
Create(e) ==
    /\ server = "up"
    /\ row[e].state = "unborn" /\ e \in Registered
    /\ \E v \in Versions, b \in BOOLEAN :
         /\ row' = [row EXCEPT ![e] = [state |-> "live", fields |-> v, enabled |-> b]]
         /\ asked' = [asked EXCEPT ![e] = Word(b)]
    /\ UNCHANGED <<vars, source, server, req>>

\* Bound: one add at a time for each unused source id.
SourceRoom(e) ==
    Cardinality({s \in Sources : source[e][s] = "unborn"})
      > Cardinality({d \in Calls : req[d].op = "add" /\ req[d].e = e})

\* the queries that find the row, and for edit and remove the source, that
\* the request names; without them it is answered with 404
Found(c, op, e) ==
    /\ Arrives(c) /\ Live(e)
    /\ op = "add" => SourceRoom(e)
    /\ \E s \in IF op \in {"edit", "remove"} THEN Sources ELSE {None} :
         /\ s # None => source[e][s] \in Stored
         /\ req' = [req EXCEPT ![c] = [NoReq EXCEPT
                !.op = op, !.e = e, !.source = s, !.fields = row[e].fields,
                !.at = CASE op = "start" -> "sources"
                         [] op = "stop" -> "stop"
                         [] OTHER -> "write"]]
    /\ UNCHANGED <<vars, db, server>>

\* the new configuration is made of the row read before the update
PutWrites_slip(c) ==
    LET e == req[c].e IN
    /\ req[c].op = "put" /\ req[c].at = "write"
    /\ \E v \in Versions : row' = IF Live(e) THEN [row EXCEPT ![e].fields = v] ELSE row
    /\ GoesTo(c, "sources")
    /\ UNCHANGED <<vars, source, server, asked>>

\* the fields a request leaves out are written as NULL
PutType_slip(c) ==
    LET e == req[c].e IN
    /\ req[c].op = "put" /\ req[c].at = "write"
    /\ row' = IF Live(e) THEN [row EXCEPT ![e].fields = None] ELSE row
    /\ GoesTo(c, "row")
    /\ UNCHANGED <<vars, source, server, asked>>

\* PUT /enablements/{id}: UPDATE of the fields it names, `enabled' may be one,
\* and commit; no row, no effect.  Nothing is started or stopped for the flag.
PutWrites(c) ==
    LET e == req[c].e IN
    /\ req[c].op = "put" /\ req[c].at = "write"
    /\ IF Live(e)
       THEN \E v \in Versions, b \in PutFlags \cup {row[e].enabled} :
              /\ row' = [row EXCEPT ![e] = [state |-> "live", fields |-> v, enabled |-> b]]
              /\ asked' = [asked EXCEPT ![e] = IF b THEN "run"
                                               ELSE IF row[e].enabled THEN "unmark" ELSE @]
       ELSE UNCHANGED <<row, asked>>
    /\ GoesTo(c, "row")
    /\ UNCHANGED <<vars, source, server>>

\* POST, PUT and DELETE of a source: the statement and its commit.  An insert
\* for a row that is gone violates the foreign key: an error answer.
SourceWrites(c) ==
    LET e == req[c].e  s == req[c].source IN
    /\ req[c].op \in SourceOps /\ req[c].at = "write"
    /\ \/ /\ req[c].op = "add" /\ Live(e)
          /\ \E new \in Sources, st \in Stored :
               /\ source[e][new] = "unborn"
               /\ source' = [source EXCEPT ![e][new] = st]
          /\ GoesTo(c, "check")
       \/ /\ req[c].op = "add" /\ ~Live(e)
          /\ Answer(c)
          /\ UNCHANGED source
       \/ /\ req[c].op # "add"
          /\ \E st \in IF req[c].op = "edit" THEN Stored ELSE {"gone"} :
               source' = [source EXCEPT ![e][s] =
                            IF source[e][s] \in Stored THEN st ELSE source[e][s]]
          /\ GoesTo(c, "check")
    /\ UNCHANGED <<vars, row, server, asked>>

\* _maybe_reload looks whether the enablement runs before it reads the row
ChecksRunning(c) ==
    /\ req[c].at = "check"
    /\ IF IsRunning(req[c].e) THEN GoesTo(c, "row") ELSE Answer(c)
    /\ UNCHANGED <<vars, db, server>>

\* get_enablement reads the row again; if it is gone, nothing is reloaded
ReadsRow(c) ==
    LET e == req[c].e IN
    /\ req[c].at = "row"
    /\ IF Live(e)
       THEN req' = [req EXCEPT ![c].at = "sources", ![c].fields = row[e].fields]
       ELSE Answer(c)
    /\ UNCHANGED <<vars, db, server>>

\* ... and then its sources, from which the configuration is built
ReadsSources(c) ==
    /\ req[c].op # "restore" /\ req[c].at = "sources"
    /\ req' = [req EXCEPT ![c].at = "act", ![c].fields = None,
                          ![c].config = ConfigOf(req[c].e, req[c].fields)]
    /\ UNCHANGED <<vars, db, server>>

\* the reload; put_enablement looks only now whether the enablement runs
Reloads(c) ==
    LET e == req[c].e IN
    /\ req[c].op \in SourceOps \cup {"put"} /\ req[c].at = "act"
    /\ \/ /\ req[c].op = "put" /\ ~IsRunning(e)
          /\ Answer(c)
          /\ UNCHANGED vars
       \/ /\ req[c].op # "put" \/ IsRunning(e)
          /\ BeginReload(c, e, req[c].config)
          /\ GoesTo(c, "runtime")
    /\ UNCHANGED <<db, server>>

\* POST start: 409 without a connection, or RuntimeManager.start_enablement
Starts(c) ==
    LET e == req[c].e IN
    /\ req[c].op = "start" /\ req[c].at = "act"
    /\ \/ /\ ~connected
          /\ Answer(c)
          /\ UNCHANGED vars
       \/ /\ connected
          /\ BeginStart(c, e, req[c].config)
          /\ GoesTo(c, "runtime")
    /\ UNCHANGED <<db, server>>

Stops(c) ==
    /\ req[c].at = "stop"
    /\ BeginStop(c, req[c].e)
    /\ GoesTo(c, "runtime")
    /\ UNCHANGED <<db, server>>

\* the row is deleted, its plugin left running
Deletes_slip(c, e) ==
    /\ Arrives(c) /\ row[e].state # "unborn"
    /\ req' = [req EXCEPT ![c] = [NoReq EXCEPT !.op = "delete", !.e = e, !.at = "runtime"]]
    /\ call' = [call EXCEPT ![c] = [Idle EXCEPT !.op = "stop", !.pc = "ok"]]
    /\ UNCHANGED <<conn, link, active, plugin, task, db, server>>

\* DELETE /enablements/{id}: stops first and does not look for the row
Deletes(c, e) ==
    /\ Arrives(c) /\ row[e].state # "unborn"
    /\ BeginStop(c, e)
    /\ req' = [req EXCEPT ![c] = [NoReq EXCEPT !.op = "delete", !.e = e, !.at = "runtime"]]
    /\ UNCHANGED <<db, server>>

\* POST /tak/connect and /tak/disconnect
Connection(c) ==
    \E op \in ConnectionOps :
        /\ Arrives(c)
        /\ IF op = "connect" THEN BeginConnect(c) ELSE BeginDisconnect(c)
        /\ req' = [req EXCEPT ![c] = [NoReq EXCEPT !.op = op, !.at = "runtime"]]
        /\ UNCHANGED <<db, server>>

\* the RuntimeManager call of c has returned or raised; c is idle again
Back(c, pcs) ==
    /\ req[c].at = "runtime" /\ call[c].pc \in pcs
    /\ call' = [call EXCEPT ![c] = Idle]
    /\ UNCHANGED <<conn, active, link, plugin, task>>

\* the start is answered without marking the row
SetEnabled_slip(e, b) == row' = [row EXCEPT ![e].enabled = b /\ @]

\* the stop is answered and the row stays marked
SetEnabled_drop(e, b) == row' = [row EXCEPT ![e].enabled = b \/ @]

SetEnabled(e, b) == row' = [row EXCEPT ![e].enabled = IF Live(e) THEN b ELSE @]

\* what the handler still writes after its call, and the answer
Finishes(c) ==
    LET e == req[c].e IN
    /\ req[c].op # "restore"
    /\ Back(c, {"ok", "error"})
    /\ Answer(c)
    /\ \/ /\ req[c].op \in {"start", "stop"} /\ call[c].pc = "ok"
          /\ SetEnabled(e, req[c].op = "start")
          /\ asked' = [asked EXCEPT ![e] = IF Live(e) THEN Word(req[c].op = "start") ELSE @]
          /\ UNCHANGED source
       \/ /\ req[c].op = "delete"
          /\ row' = [row EXCEPT ![e] = NoRow("gone", row[e].fields)]
          /\ source' = [source EXCEPT ![e] = [s \in Sources |-> "gone"]]
          /\ asked' = [asked EXCEPT ![e] = Word(FALSE)]
       \/ /\ req[c].op # "delete"
          /\ ~(req[c].op \in {"start", "stop"} /\ call[c].pc = "ok")
          /\ UNCHANGED db
    /\ UNCHANGED server

-----------------------------------------------------------------------------
(* The process: lifespan of main.py, restore_active_enablements, a crash. *)

\* init_db, then the restore connects, unless no URL is configured
Startup ==
    /\ server = "down"
    /\ \/ /\ server' = "up"
          /\ UNCHANGED <<vars, req>>
       \/ /\ server' = "restoring"
          /\ \E c \in Calls :
               /\ BeginConnect(c)
               /\ req' = [req EXCEPT ![c] = [NoReq EXCEPT !.op = "restore",
                                                          !.at = "runtime"]]
    /\ UNCHANGED db

\* the flag is not asked for
Enabled_slip == {e \in Enablements : Live(e)}

\* SELECT * FROM enablements WHERE enabled = 1
Enabled == {e \in Enablements : Live(e) /\ row[e].enabled}

\* connect_tak came back: the rows are read, or the restore is given up.
\* No request is served before the restore ends, so rows and connection stay
\* what they are; one row after the other is started and its errors logged.
RestoreConnected(c) ==
    /\ req[c].op = "restore" /\ req[c].at = "runtime"
    /\ Back(c, {"ok", "error"})
    /\ \/ /\ call[c].op = "connect" /\ call[c].pc = "ok"
          /\ req' = [req EXCEPT ![c].at = "sources", ![c].todo = Enabled]
          /\ server' = server
       \/ /\ call[c].op = "connect" /\ call[c].pc = "error"
          /\ Answer(c)
          /\ server' = "up"
       \/ /\ call[c].op = "start"
          /\ GoesTo(c, "sources")
          /\ server' = server
    /\ UNCHANGED db

RestoreStarts(c) ==
    /\ req[c].op = "restore" /\ req[c].at = "sources"
    /\ \/ /\ \E e \in req[c].todo :
               /\ BeginStart(c, e, ConfigOf(e, row[e].fields))
               /\ req' = [req EXCEPT ![c].at = "runtime", ![c].todo = @ \ {e}]
          /\ server' = server
       \/ /\ req[c].todo = {}
          /\ Answer(c)
          /\ server' = "up"
          /\ UNCHANGED vars
    /\ UNCHANGED db

\* the process ends at any point: memory is lost, what is committed stays.
\* A shutdown is a disconnect followed by this.
Crash ==
    /\ server # "down"
    /\ server' = "down"
    /\ clitool' = None /\ txQueue' = None /\ connected' = FALSE
    /\ active' = [e \in Enablements |-> None]
    /\ link' = [l \in Links |-> NewLink]
    /\ plugin' = [p \in Plugins |-> NoPlugin]
    /\ task' = [t \in Tasks |-> Done]
    /\ call' = [c \in Calls |-> Idle]
    /\ req' = [c \in Calls |-> NoReq]
    /\ UNCHANGED db

Handles(c) ==
    \/ \E e \in Enablements :
         Deletes(c, e) \/ \E op \in RowOps : Found(c, op, e)
    \/ Connection(c)
    \/ PutWrites(c) \/ SourceWrites(c) \/ ChecksRunning(c) \/ ReadsRow(c)
    \/ ReadsSources(c) \/ Reloads(c) \/ Starts(c) \/ Stops(c) \/ Finishes(c)
    \/ RestoreConnected(c) \/ RestoreStarts(c)

RuntimeGoesOn ==
    /\ \/ \E c \in Calls : Resume(c)
       \/ \E t \in Tasks : TaskEnds(t) \/ WorkerReturns(t)
       \/ \E l \in Links : LinkLost(l)
    /\ UNCHANGED control

ControlNext ==
    \/ \E c \in Calls : Handles(c)
    \/ \E e \in Enablements : Create(e)
    \/ Startup
    \/ Crash
    \/ RuntimeGoesOn

ControlSpec == ControlInit /\ [][ControlNext]_allVars

=============================================================================
