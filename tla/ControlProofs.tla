---------------------------- MODULE ControlProofs ----------------------------
(***************************************************************************)
(* Theorems about the request handlers of ControlPlane, for every value of *)
(* its constants: types for any requests, the rest for clients that send   *)
(* one request at a time per enablement.                                   *)
(***************************************************************************)
EXTENDS ControlProperties, EffectProofs

-----------------------------------------------------------------------------
(* Types, and what a request says of itself. *)

ReqRec == [op : RowOps \cup ConnectionOps \cup {"none", "delete", "restore"},
           at : Stages, e : Enablements \cup {None},
           source : Sources \cup {None},
           fields : Versions \cup {None},
           config : Configs \cup {None},
           todo : SUBSET Enablements]

RowRec == [state : {"unborn", "live", "gone"}, fields : Versions, enabled : BOOLEAN]

Words == {"run", "rest", "unmark"}

\* A request in progress is for one enablement or for the connection, and at a
\* stage of its own handler.
Request(c) ==
    /\ req[c].at = "none" => req[c].op = "none" /\ req[c].e = None
    /\ req[c].at # "none" =>
         \/ req[c].e \in Enablements /\ req[c].op \in RowOps \cup {"delete"}
         \/ req[c].e = None /\ req[c].op \in ConnectionOps \cup {"restore"}
    /\ req[c].at \in {"write", "row"} => req[c].op \in Edits
    /\ req[c].at = "check" => req[c].op \in SourceOps
    /\ req[c].at = "sources" => req[c].op \in Edits \cup {"start", "restore"}
    /\ req[c].at = "sources" /\ req[c].op # "restore" => req[c].fields \in Versions
    /\ req[c].at = "act" => req[c].op \in Edits \cup {"start"} /\ req[c].config \in Configs
    /\ req[c].at = "stop" => req[c].op = "stop"

\* the flag of a row is what was asked for last
Flagged == \A e \in Enablements : row[e].enabled <=> asked[e] = "run"

Requests == ControlTypeOK /\ Flagged /\ \A c \in Calls : Request(c)

\* c's request goes to a stage and keeps the rest; or it is answered.
ReqMoves(c, at) ==
    /\ \A d \in Calls \ {c} : req'[d] = req[d]
    /\ req'[c].at = at
    /\ req'[c].op = req[c].op /\ req'[c].e = req[c].e
    /\ req'[c].source = req[c].source

ReqEnds(c) ==
    /\ \A d \in Calls \ {c} : req'[d] = req[d]
    /\ req'[c].at = "none" /\ req'[c].op = "none" /\ req'[c].e = None

\* c's request is new.
ReqComes(c, op, e, at) ==
    /\ \A d \in Calls \ {c} : req'[d] = req[d]
    /\ req'[c].at = at /\ req'[c].op = op /\ req'[c].e = e

ReqTyped == req \in [Calls -> ReqRec]

LEMMA GoesToMoves ==
    ASSUME ReqTyped, NEW c \in Calls, NEW at \in Stages, GoesTo(c, at)
    PROVE  /\ ReqTyped' /\ ReqMoves(c, at)
           /\ req'[c].fields = req[c].fields /\ req'[c].todo = req[c].todo
<1>1. req' = [req EXCEPT ![c] = [req[c] EXCEPT !.at = at]]
  BY DEF GoesTo
<1>2. PICK r : r = [req[c] EXCEPT !.at = at]
  OBVIOUS
<1>3. /\ r \in ReqRec /\ r.at = at /\ r.op = req[c].op /\ r.e = req[c].e
      /\ r.source = req[c].source /\ r.fields = req[c].fields /\ r.todo = req[c].todo
  BY <1>2 DEF ReqTyped, ReqRec
<1> QED
  BY <1>1, <1>2, <1>3 DEF ReqTyped, ReqMoves

LEMMA AnswerEnds ==
    ASSUME ReqTyped, NEW c \in Calls, Answer(c)
    PROVE  ReqTyped' /\ ReqEnds(c)
<1>1. /\ NoReq \in ReqRec
      /\ NoReq.at = "none" /\ NoReq.op = "none" /\ NoReq.e = None
  BY DEF NoReq, ReqRec, Stages
<1> QED
  BY <1>1 DEF Answer, ReqTyped, ReqEnds

LEMMA FoundComes ==
    ASSUME ReqTyped, row \in [Enablements -> RowRec], NEW c \in Calls, NEW op \in RowOps,
           NEW e \in Enablements, Found(c, op, e)
    PROVE  /\ ReqTyped'
           /\ \E at \in Stages :
                /\ ReqComes(c, op, e, at)
                /\ at = IF op = "start" THEN "sources" ELSE IF op = "stop" THEN "stop" ELSE "write"
           /\ req'[c].fields = row[e].fields
<1>1. PICK s \in Sources \cup {None} : req' = [req EXCEPT ![c] = [NoReq EXCEPT
                !.op = op, !.e = e, !.source = s, !.fields = row[e].fields,
                !.at = CASE op = "start" -> "sources"
                         [] op = "stop" -> "stop"
                         [] OTHER -> "write"]]
  BY DEF Found
<1> DEFINE at == CASE op = "start" -> "sources" [] op = "stop" -> "stop" [] OTHER -> "write"
           r == [NoReq EXCEPT !.op = op, !.e = e, !.source = s,
                              !.fields = row[e].fields, !.at = at]
<1>2. /\ at = IF op = "start" THEN "sources" ELSE IF op = "stop" THEN "stop" ELSE "write"
      /\ at \in Stages
  BY DEF Stages
<1>3. row[e].fields \in Versions
  BY DEF RowRec
<1> HIDE DEF at
<1>4. /\ r \in ReqRec /\ r.at = at /\ r.op = op /\ r.e = e /\ r.fields = row[e].fields
  BY <1>2, <1>3 DEF NoReq, ReqRec
<1>5. req' = [req EXCEPT ![c] = r]
  BY <1>1 DEF at
<1> HIDE DEF r
<1> QED
  BY <1>2, <1>4, <1>5 DEF ReqTyped, ReqComes

\* A request that goes to the runtime at once.
LEMMA NewComes ==
    ASSUME ReqTyped, NEW c \in Calls, NEW op \in ConnectionOps \cup {"delete", "restore"},
           NEW e \in Enablements \cup {None},
           req' = [req EXCEPT ![c] = [NoReq EXCEPT !.op = op, !.e = e, !.at = "runtime"]]
    PROVE  ReqTyped' /\ ReqComes(c, op, e, "runtime")
<1> DEFINE r == [NoReq EXCEPT !.op = op, !.e = e, !.at = "runtime"]
<1>1. r \in ReqRec /\ r.at = "runtime" /\ r.op = op /\ r.e = e
  BY DEF NoReq, ReqRec, Stages
<1> HIDE DEF r
<1>2. req' = [req EXCEPT ![c] = r]
  BY DEF r
<1> QED
  BY <1>1, <1>2 DEF ReqTyped, ReqComes

LEMMA NewConnectionComes ==
    ASSUME ReqTyped, NEW c \in Calls, NEW op \in ConnectionOps \cup {"restore"},
           req' = [req EXCEPT ![c] = [NoReq EXCEPT !.op = op, !.at = "runtime"]]
    PROVE  ReqTyped' /\ ReqComes(c, op, None, "runtime")
<1> DEFINE r == [NoReq EXCEPT !.op = op, !.at = "runtime"]
<1>1. r \in ReqRec /\ r.at = "runtime" /\ r.op = op /\ r.e = None
  BY DEF NoReq, ReqRec, Stages
<1> HIDE DEF r
<1>2. req' = [req EXCEPT ![c] = r]
  BY DEF r
<1> QED
  BY <1>1, <1>2 DEF ReqTyped, ReqComes

LEMMA SourcesRead ==
    ASSUME ReqTyped, NEW c \in Calls, ReadsSources(c), req[c].fields \in Versions
    PROVE  /\ ReqTyped' /\ ReqMoves(c, "act")
           /\ req'[c].config = ConfigOf(req[c].e, req[c].fields)
           /\ req'[c].config \in Configs
<1>0. ConfigOf(req[c].e, req[c].fields) \in Configs
  BY ControlAssumption DEF ConfigOf
<1>1. PICK f \in Configs : f = ConfigOf(req[c].e, req[c].fields)
  BY <1>0
<1>2. PICK p : p = [req[c] EXCEPT !.at = "act"]
  OBVIOUS
<1>3. PICK q : q = [p EXCEPT !.fields = None]
  OBVIOUS
<1>4. PICK r : r = [q EXCEPT !.config = f]
  OBVIOUS
<1>5. req' = [req EXCEPT ![c] = r]
  BY <1>1, <1>2, <1>3, <1>4 DEF ReadsSources, ReqTyped
<1>6. p \in ReqRec /\ p.at = "act" /\ p.op = req[c].op /\ p.e = req[c].e /\ p.source = req[c].source
  BY <1>2 DEF ReqTyped, ReqRec, Stages
<1>7. q \in ReqRec /\ q.at = "act" /\ q.op = p.op /\ q.e = p.e /\ q.source = p.source
  BY <1>3, <1>6 DEF ReqRec
<1>8. r \in ReqRec /\ r.at = "act" /\ r.op = q.op /\ r.e = q.e /\ r.source = q.source /\ r.config = f
  BY <1>4, <1>7 DEF ReqRec
<1> QED
  BY <1>1, <1>5, <1>6, <1>7, <1>8 DEF ReqTyped, ReqMoves

\* ... keeps the requests in shape.
LEMMA MovesShape ==
    ASSUME Requests, NEW c \in Calls, NEW at \in Stages \ {"none", "act"}, GoesTo(c, at),
           req[c].at # "none",
           at \in {"write", "row"} => req[c].op \in Edits,
           at = "check" => req[c].op \in SourceOps,
           at = "sources" => req[c].op = "restore",
           at = "stop" => req[c].op = "stop"
    PROVE  ReqTyped' /\ \A d \in Calls : Request(d)'
<1>1. ReqTyped
  BY DEF ReqTyped, ReqRec, Requests, ControlTypeOK
<1>2. ReqTyped' /\ ReqMoves(c, at)
  BY <1>1, GoesToMoves
<1>3. Request(c)'
  BY <1>2 DEF ReqMoves, Request, Requests
<1>4. \A d \in Calls \ {c} : Request(d)'
  BY <1>2 DEF ReqMoves, Request, Requests
<1> QED
  BY <1>2, <1>3, <1>4

LEMMA EndsShape ==
    ASSUME Requests, NEW c \in Calls, Answer(c)
    PROVE  ReqTyped' /\ \A d \in Calls : Request(d)'
<1>1. ReqTyped' /\ ReqEnds(c)
  BY AnswerEnds DEF ReqTyped, ReqRec, Requests, ControlTypeOK
<1>2. \A d \in Calls : Request(d)'
  BY <1>1 DEF ReqEnds, Request, Requests
<1> QED
  BY <1>1, <1>2

LEMMA ComesShape ==
    ASSUME Requests, NEW c \in Calls, NEW op, NEW e, NEW at, ReqComes(c, op, e, at),
           at = "sources" => req'[c].fields \in Versions,
           \/ /\ e \in Enablements /\ op \in RowOps
              /\ at = IF op = "start" THEN "sources" ELSE IF op = "stop" THEN "stop" ELSE "write"
           \/ e \in Enablements /\ op = "delete" /\ at = "runtime"
           \/ e = None /\ op \in ConnectionOps \cup {"restore"} /\ at = "runtime"
    PROVE  \A d \in Calls : Request(d)'
<1>1. Request(c)'
  BY DEF ReqComes, Request, RowOps, Edits
<1>2. \A d \in Calls \ {c} : Request(d)'
  BY DEF ReqComes, Request, Requests
<1> QED
  BY <1>1, <1>2

\* The tables keep their types, and the flags say what was asked for, whatever
\* a handler writes.
LEMMA TablesTyped ==
    ASSUME Requests, NEW c \in Calls,
           PutWrites(c) \/ SourceWrites(c) \/ Finishes(c)
    PROVE  /\ row' \in [Enablements -> RowRec]
           /\ source' \in [Enablements -> [Sources -> SourceStates]]
           /\ asked' \in [Enablements -> Words]
           /\ Flagged'
<1>0. /\ row \in [Enablements -> RowRec]
      /\ source \in [Enablements -> [Sources -> SourceStates]]
      /\ asked \in [Enablements -> Words]
      /\ Flagged
  BY DEF Requests, ControlTypeOK, RowRec, Words
<1>0a. ASSUME NEW e, NEW r, NEW w, row' = [row EXCEPT ![e] = r], asked' = [asked EXCEPT ![e] = w],
              e \in Enablements => r \in RowRec /\ w \in Words /\ (r.enabled <=> w = "run")
       PROVE  row' \in [Enablements -> RowRec] /\ asked' \in [Enablements -> Words] /\ Flagged'
  BY <1>0, <1>0a DEF Flagged
<1>1. CASE PutWrites(c)
  <2>1. CASE UNCHANGED <<row, asked>>
    BY <1>0, <1>1, <2>1 DEF PutWrites, Flagged
  <2>2. CASE req[c].e \in Enablements /\ Live(req[c].e)
    <3>1. PICK e \in Enablements : e = req[c].e
      BY <2>2
    <3>2. PICK v \in Versions, b \in PutFlags \cup {row[e].enabled} :
            /\ row' = [row EXCEPT ![e] = [state |-> "live", fields |-> v, enabled |-> b]]
            /\ asked' = [asked EXCEPT ![e] = IF b THEN "run"
                                             ELSE IF row[e].enabled THEN "unmark" ELSE @]
      BY <1>1, <2>2, <3>1 DEF PutWrites
    <3>3. PICK r : r = [state |-> "live", fields |-> v, enabled |-> b]
      OBVIOUS
    <3>4. PICK w : w = IF b THEN "run" ELSE IF row[e].enabled THEN "unmark" ELSE asked[e]
      OBVIOUS
    <3>5. b \in BOOLEAN
      BY <1>0, ControlAssumption DEF RowRec
    <3>6. r \in RowRec /\ (r.enabled <=> b)
      BY <3>3, <3>5 DEF RowRec
    <3>7. w \in Words /\ (b <=> w = "run")
      BY <1>0, <3>4 DEF Words, Flagged
    <3>8. row' = [row EXCEPT ![e] = r] /\ asked' = [asked EXCEPT ![e] = w]
      BY <1>0, <3>2, <3>3, <3>4
    <3> QED
      BY <1>0, <1>0a, <1>1, <3>6, <3>7, <3>8 DEF PutWrites
  <2> QED
    BY <1>1, <2>1, <2>2 DEF PutWrites, Requests, Request, Edits, SourceOps, ConnectionOps
<1>2. CASE SourceWrites(c)
  <2>1. Stored \subseteq SourceStates /\ "gone" \in SourceStates
    BY DEF Stored, SourceStates
  <2>2. PICK e \in Enablements : e = req[c].e
    BY <1>2 DEF SourceWrites, Requests, Request, SourceOps, ConnectionOps
  <2>3. ASSUME NEW s, NEW v, source' = [source EXCEPT ![e][s] = v],
               s \in Sources => v \in SourceStates
        PROVE  source' \in [Enablements -> [Sources -> SourceStates]]
    <3>1. [source[e] EXCEPT ![s] = v] \in [Sources -> SourceStates]
      BY <1>0, <2>3
    <3> QED
      BY <1>0, <2>3, <3>1
  <2>4. CASE req[c].op = "add"
    <3>1. source' = source
            \/ \E new \in Sources, st \in Stored : source' = [source EXCEPT ![e][new] = st]
      BY <1>2, <2>2, <2>4 DEF SourceWrites
    <3> QED
      BY <1>0, <1>2, <2>1, <2>3, <3>1 DEF SourceWrites, Flagged
  <2>5. CASE req[c].op # "add"
    <3> DEFINE s == req[c].source
    <3>1. PICK st \in Stored \cup {"gone"} :
            source' = [source EXCEPT ![e][s] =
                         IF source[e][s] \in Stored THEN st ELSE source[e][s]]
      BY <1>2, <2>2, <2>5 DEF SourceWrites
    <3> DEFINE v == IF source[e][s] \in Stored THEN st ELSE source[e][s]
    <3>2. s \in Sources => v \in SourceStates
      BY <1>0, <2>1
    <3>3. source' = [source EXCEPT ![e][s] = v]
      BY <3>1
    <3>4. PICK t, w : t = s /\ w = v
      OBVIOUS
    <3> HIDE DEF s, v
    <3>5. source' \in [Enablements -> [Sources -> SourceStates]]
      BY <2>3, <3>2, <3>3, <3>4
    <3> QED
      BY <1>0, <1>2, <3>5 DEF SourceWrites, Flagged
  <2> QED
    BY <2>4, <2>5
<1>3. CASE Finishes(c)
  <2> DEFINE e == req[c].e
  <2>1. CASE /\ SetEnabled(e, req[c].op = "start") /\ UNCHANGED source
             /\ asked' = [asked EXCEPT ![e] = IF Live(e) THEN Word(req[c].op = "start") ELSE @]
    <3>1. PICK b \in BOOLEAN : b <=> IF Live(e) THEN req[c].op = "start" ELSE row[e].enabled
      OBVIOUS
    <3>2. PICK r : r = [row[e] EXCEPT !.enabled = IF Live(e) THEN req[c].op = "start"
                                                  ELSE row[e].enabled]
      OBVIOUS
    <3>3. PICK w : w = IF Live(e) THEN Word(req[c].op = "start") ELSE asked[e]
      OBVIOUS
    <3>4. row' = [row EXCEPT ![e] = r] /\ asked' = [asked EXCEPT ![e] = w]
      BY <1>0, <2>1, <3>2, <3>3 DEF SetEnabled
    <3>5. ASSUME e \in Enablements PROVE r \in RowRec /\ w \in Words /\ (r.enabled <=> w = "run")
      <4>1. row[e] \in RowRec /\ row[e].enabled \in BOOLEAN
        BY <1>0, <3>5 DEF RowRec
      <4>2. r \in RowRec
        BY <3>2, <4>1 DEF RowRec
      <4>3. r.enabled = IF Live(e) THEN req[c].op = "start" ELSE row[e].enabled
        BY <3>2, <4>1 DEF RowRec
      <4>4. CASE Live(e)
        BY <3>3, <4>2, <4>3, <4>4 DEF Word, Words
      <4>5. CASE ~Live(e)
        BY <1>0, <3>3, <3>5, <4>2, <4>3, <4>5 DEF Flagged
      <4> QED
        BY <4>4, <4>5
    <3> HIDE DEF e
    <3> QED
      BY <1>0, <1>0a, <2>1, <3>4, <3>5
  <2>2. CASE /\ req[c].op = "delete"
             /\ row' = [row EXCEPT ![e] = NoRow("gone", row[e].fields)]
             /\ source' = [source EXCEPT ![e] = [s \in Sources |-> "gone"]]
             /\ asked' = [asked EXCEPT ![e] = Word(FALSE)]
    <3>1. "gone" \in SourceStates /\ e \in Enablements
      BY <2>2 DEF SourceStates, Requests, Request, ConnectionOps
    <3>2. row[e].fields \in Versions
      BY <1>0, <3>1 DEF RowRec
    <3>3. /\ NoRow("gone", row[e].fields) \in RowRec /\ ~NoRow("gone", row[e].fields).enabled
          /\ Word(FALSE) = "rest" /\ "rest" \in Words
      BY <3>2 DEF NoRow, RowRec, Word, Words
    <3>4. row' \in [Enablements -> RowRec] /\ asked' \in [Enablements -> Words] /\ Flagged'
      BY <1>0a, <2>2, <3>3
    <3> QED
      BY <1>0, <2>2, <3>1, <3>4
  <2>3. CASE UNCHANGED db
    BY <1>0, <2>3 DEF db, Flagged
  <2> QED
    BY <1>3, <2>1, <2>2, <2>3 DEF Finishes
<1> QED
  BY <1>1, <1>2, <1>3

LEMMA RequestsStep == Requests /\ [ControlNext]_allVars => Requests'
<1> SUFFICES ASSUME Requests, [ControlNext]_allVars PROVE Requests'
  OBVIOUS
<1>0. /\ ReqTyped /\ server \in {"down", "restoring", "up"}
      /\ row \in [Enablements -> RowRec]
      /\ source \in [Enablements -> [Sources -> SourceStates]]
      /\ asked \in [Enablements -> Words] /\ Flagged
  BY DEF Requests, ControlTypeOK, ReqTyped, ReqRec, RowRec, Words
<1> DEFINE Tables == /\ row' \in [Enablements -> RowRec]
                     /\ source' \in [Enablements -> [Sources -> SourceStates]]
                     /\ asked' \in [Enablements -> Words]
                     /\ Flagged'
                     /\ server' \in {"down", "restoring", "up"}
           Shape == ReqTyped' /\ \A d \in Calls : Request(d)'
<1>1. Tables /\ Shape => Requests'
  BY DEF Requests, ControlTypeOK, ReqTyped, ReqRec, RowRec, Words
<1>2. UNCHANGED <<db, server>> => Tables
  BY <1>0 DEF db, Flagged
<1>3. UNCHANGED req => Shape
  BY <1>0 DEF ReqTyped, Requests, Request
<1>4. "check" \in Stages \ {"none", "act"} /\ "row" \in Stages \ {"none", "act"}
      /\ "sources" \in Stages \ {"none", "act"} /\ "runtime" \in Stages \ {"none", "act"}
      /\ "act" \in Stages
  BY DEF Stages
<1>5. Edits \subseteq RowOps /\ SourceOps \subseteq Edits /\ "put" \in Edits
  BY DEF Edits, RowOps
<1>6. ASSUME NEW c \in Calls, NEW e \in Enablements, NEW op \in RowOps, Found(c, op, e)
      PROVE  Tables /\ Shape
  <2>1. UNCHANGED <<db, server>>
    BY <1>6 DEF Found
  <2>2. Shape
    <3>1. PICK at \in Stages : ReqComes(c, op, e, at)
                 /\ at = IF op = "start" THEN "sources" ELSE IF op = "stop" THEN "stop" ELSE "write"
      BY <1>0, <1>6, FoundComes
    <3>2. ReqTyped' /\ req'[c].fields \in Versions
      BY <1>0, <1>6, FoundComes DEF RowRec
    <3> QED
      BY <3>1, <3>2, ComesShape
  <2> QED
    BY <1>2, <2>1, <2>2
<1>7. ASSUME NEW c \in Calls, NEW e \in Enablements, Deletes(c, e)
      PROVE  Tables /\ Shape
  <2>1. /\ UNCHANGED <<db, server>>
        /\ req' = [req EXCEPT ![c] = [NoReq EXCEPT !.op = "delete", !.e = e, !.at = "runtime"]]
    BY <1>7 DEF Deletes
  <2>2. Shape
    BY <1>0, <2>1, NewComes, ComesShape
  <2> QED
    BY <1>2, <2>1, <2>2
<1>8. ASSUME NEW c \in Calls, NEW op \in ConnectionOps \cup {"restore"},
             req' = [req EXCEPT ![c] = [NoReq EXCEPT !.op = op, !.at = "runtime"]]
      PROVE  Shape
  BY <1>0, <1>8, NewConnectionComes, ComesShape
<1>9. ASSUME NEW c \in Calls, Connection(c)
      PROVE  Tables /\ Shape
  BY <1>2, <1>8, <1>9 DEF Connection
<1>10. ASSUME NEW c \in Calls, PutWrites(c)
       PROVE  Tables /\ Shape
  <2>1. Tables
    BY <1>0, <1>10, TablesTyped DEF PutWrites
  <2>2. Shape
    BY <1>4, <1>5, <1>10, MovesShape DEF PutWrites
  <2> QED
    BY <2>1, <2>2
<1>11. ASSUME NEW c \in Calls, SourceWrites(c)
       PROVE  Tables /\ Shape
  <2>1. Tables
    BY <1>0, <1>11, TablesTyped DEF SourceWrites
  <2>2. Shape
    BY <1>4, <1>11, MovesShape, EndsShape DEF SourceWrites
  <2> QED
    BY <2>1, <2>2
<1>12. ASSUME NEW c \in Calls, ChecksRunning(c)
       PROVE  Tables /\ Shape
  <2>1. req[c].op \in SourceOps
    BY <1>12 DEF ChecksRunning, Requests, Request
  <2> QED
    BY <1>2, <1>4, <1>5, <1>12, <2>1, MovesShape, EndsShape DEF ChecksRunning
<1>13. ASSUME NEW c \in Calls, ReadsRow(c)
       PROVE  Tables /\ Shape
  <2>1. req[c].op \in Edits /\ req[c].e \in Enablements
    BY <1>5, <1>13 DEF ReadsRow, Requests, Request, RowOps, SourceOps, ConnectionOps, Edits
  <2>2. ASSUME req' = [req EXCEPT ![c].at = "sources", ![c].fields = row[req[c].e].fields]
        PROVE  Shape
    <3>1. PICK r : r = [[req[c] EXCEPT !.at = "sources"] EXCEPT !.fields = row[req[c].e].fields]
      OBVIOUS
    <3>2. req' = [req EXCEPT ![c] = r]
      BY <1>0, <2>2, <3>1 DEF ReqTyped
    <3>3. [req[c] EXCEPT !.at = "sources"] \in ReqRec
      BY <1>0, <1>4 DEF ReqTyped, ReqRec
    <3>4. row[req[c].e].fields \in Versions
      BY <1>0, <2>1 DEF RowRec
    <3>5. /\ r \in ReqRec /\ r.at = "sources" /\ r.op = req[c].op /\ r.e = req[c].e
          /\ r.fields \in Versions
      BY <1>0, <1>4, <3>1, <3>3, <3>4 DEF ReqTyped, ReqRec
    <3>6. /\ ReqTyped' /\ \A d \in Calls \ {c} : req'[d] = req[d]
          /\ req'[c] = r
      BY <1>0, <3>2, <3>5 DEF ReqTyped
    <3>7. Request(c)'
      BY <1>5, <2>1, <3>5, <3>6 DEF Request, Requests
    <3>8. \A d \in Calls \ {c} : Request(d)'
      BY <3>6 DEF Request, Requests
    <3> QED
      BY <3>6, <3>7, <3>8
  <2> QED
    BY <1>2, <1>13, <2>2, EndsShape DEF ReadsRow
<1>13a. ASSUME NEW c \in Calls, ReadsSources(c)
        PROVE  Tables /\ Shape
  <2>2. /\ req[c].at = "sources" /\ req[c].op \in Edits \cup {"start"}
        /\ req[c].fields \in Versions
    BY <1>13a DEF ReadsSources, Requests, Request
  <2>1. /\ ReqTyped' /\ ReqMoves(c, "act")
        /\ req'[c].config \in Configs
    BY <1>0, <1>13a, <2>2, SourcesRead
  <2>3. req[c].e \in Enablements
    BY <1>5, <2>2 DEF Requests, Request, RowOps, SourceOps, ConnectionOps, Edits
  <2>4. Request(c)'
    BY <1>5, <2>1, <2>2, <2>3 DEF ReqMoves, Request, RowOps
  <2>5. \A d \in Calls \ {c} : Request(d)'
    BY <2>1 DEF ReqMoves, Request, Requests
  <2> QED
    BY <1>2, <1>13a, <2>1, <2>4, <2>5 DEF ReadsSources
<1>14. ASSUME NEW c \in Calls, Reloads(c) \/ Starts(c) \/ Stops(c)
       PROVE  Tables /\ Shape
  <2>1. req[c].at \in {"act", "stop"}
    BY <1>14 DEF Reloads, Starts, Stops
  <2> QED
    BY <1>2, <1>4, <1>14, <2>1, MovesShape, EndsShape DEF Reloads, Starts, Stops
<1>15. ASSUME NEW c \in Calls, Finishes(c)
       PROVE  Tables /\ Shape
  <2>1. Tables
    BY <1>0, <1>15, TablesTyped DEF Finishes
  <2> QED
    BY <1>15, <2>1, EndsShape DEF Finishes
<1>16. ASSUME NEW c \in Calls, req[c].op = "restore", req[c].at # "none",
              NEW todo \in SUBSET Enablements, NEW at \in {"sources", "runtime"},
              req' = [req EXCEPT ![c].at = at, ![c].todo = todo]
       PROVE  Shape
  <2>1. PICK r : r = [[req[c] EXCEPT !.at = at] EXCEPT !.todo = todo]
    OBVIOUS
  <2>2. req' = [req EXCEPT ![c] = r]
    BY <1>0, <1>16, <2>1 DEF ReqTyped
  <2>3. [req[c] EXCEPT !.at = at] \in ReqRec
    BY <1>0, <1>4 DEF ReqTyped, ReqRec
  <2>4. r \in ReqRec /\ r.at = at /\ r.op = req[c].op /\ r.e = req[c].e
    BY <1>0, <1>4, <2>1, <2>3 DEF ReqTyped, ReqRec
  <2>5. /\ ReqTyped' /\ \A d \in Calls \ {c} : req'[d] = req[d]
        /\ req'[c] = r
    BY <1>0, <2>2, <2>4 DEF ReqTyped
  <2>6. Request(c)'
    BY <1>16, <2>4, <2>5 DEF Request, Requests
  <2>7. \A d \in Calls \ {c} : Request(d)'
    BY <2>5 DEF Request, Requests
  <2> QED
    BY <2>5, <2>6, <2>7
<1>17. ASSUME NEW c \in Calls, RestoreConnected(c)
       PROVE  Tables /\ Shape
  <2>1. Enabled \in SUBSET Enablements
    BY DEF Enabled
  <2>2. Shape
    BY <1>4, <1>16, <1>17, <2>1, MovesShape, EndsShape DEF RestoreConnected
  <2> QED
    BY <1>0, <1>17, <2>2 DEF RestoreConnected, db, Flagged
<1>18. ASSUME NEW c \in Calls, RestoreStarts(c)
       PROVE  Tables /\ Shape
  <2>1. req[c].todo \in SUBSET Enablements
    BY <1>0 DEF ReqTyped, ReqRec
  <2>2. ASSUME NEW e, req' = [req EXCEPT ![c].at = "runtime", ![c].todo = @ \ {e}]
        PROVE  Shape
    <3>1. req' = [req EXCEPT ![c].at = "runtime", ![c].todo = req[c].todo \ {e}]
      BY <1>0, <2>2 DEF ReqTyped, ReqRec
    <3>2. req[c].todo \ {e} \in SUBSET Enablements
      BY <2>1
    <3> QED
      BY <1>16, <1>18, <3>1, <3>2 DEF RestoreStarts
  <2>3. Shape
    BY <1>18, <2>2, EndsShape DEF RestoreStarts
  <2> QED
    BY <1>0, <1>18, <2>3 DEF RestoreStarts, db, Flagged
<1>19. ASSUME NEW e \in Enablements, Create(e)
       PROVE  Tables /\ Shape
  <2>1. PICK v \in Versions, b \in BOOLEAN :
          /\ row' = [row EXCEPT ![e] = [state |-> "live", fields |-> v, enabled |-> b]]
          /\ asked' = [asked EXCEPT ![e] = Word(b)]
    BY <1>19 DEF Create
  <2>2. [state |-> "live", fields |-> v, enabled |-> b] \in RowRec
    BY DEF RowRec
  <2>3. Word(b) \in Words /\ (b <=> Word(b) = "run")
    BY DEF Word, Words
  <2>4. row' \in [Enablements -> RowRec] /\ asked' \in [Enablements -> Words]
    BY <1>0, <2>1, <2>2, <2>3
  <2>5. Flagged'
    BY <1>0, <2>1, <2>3 DEF Flagged
  <2> QED
    BY <1>0, <1>3, <1>19, <2>4, <2>5 DEF Create
<1>20. CASE Startup
  <2>1. Tables
    BY <1>0, <1>20 DEF Startup, db, Flagged
  <2> QED
    BY <1>1, <1>3, <1>8, <1>20, <2>1 DEF Startup
<1>21. CASE Crash
  <2>1. NoReq \in ReqRec /\ NoReq.at = "none" /\ NoReq.op = "none" /\ NoReq.e = None
    BY DEF NoReq, ReqRec, Stages
  <2>2. Tables
    BY <1>0, <1>21 DEF Crash, db, Flagged
  <2> QED
    BY <1>1, <1>21, <2>1, <2>2 DEF Crash, ReqTyped, Request
<1>22. CASE UNCHANGED <<row, source, server, req, asked>>
  BY <1>1, <1>2, <1>3, <1>22 DEF db
<1> HIDE DEF Tables, Shape
<1> QED
  BY <1>1, <1>6, <1>7, <1>9, <1>10, <1>11, <1>12, <1>13, <1>14, <1>15,
     <1>17, <1>18, <1>19, <1>20, <1>21, <1>22, <1>13a
  DEF ControlNext, Handles, RuntimeGoesOn, control, allVars

LEMMA RequestsInit == ControlInit => Requests
<1> SUFFICES ASSUME ControlInit PROVE Requests
  OBVIOUS
<1>1. NoReq \in ReqRec /\ NoReq.at = "none" /\ NoReq.op = "none" /\ NoReq.e = None
  BY DEF NoReq, ReqRec, Stages
<1>2. \A c \in Calls : Request(c)
  BY <1>1 DEF ControlInit, Request
<1>3. asked \in [Enablements -> Words] /\ Flagged
  BY DEF ControlInit, Word, Words, Flagged
<1>4. ControlTypeOK
  BY <1>1, <1>3 DEF ControlInit, ControlTypeOK, ReqRec, Stored, SourceStates, Words
<1> QED
  BY <1>2, <1>3, <1>4 DEF Requests

\* Whatever requests overlap, the rows, sources and requests have their types:
\* a row that was read exists, so that no handler reads the fields of none.
THEOREM ControlTypeCorrect == ControlSpec => []ControlTypeOK
<1>1. Requests => ControlTypeOK
  BY DEF Requests
<1> QED
  BY <1>1, RequestsInit, RequestsStep, PTL DEF ControlSpec

-----------------------------------------------------------------------------
(* The invariant, for clients that send one request at a time.             *)

\* A request is at the runtime exactly while its call is in progress, and the
\* call is the one its handler makes, for the enablement it names.
Handler(c) ==
    /\ req[c].at = "runtime" <=> call[c].pc # "idle"
    /\ req[c].at = "runtime" =>
         /\ req[c].op \in Edits => call[c].op = "reload"
         /\ req[c].op = "start" => call[c].op = "start"
         /\ req[c].op \in {"stop", "delete"} => call[c].op = "stop"
         /\ req[c].op \in ConnectionOps => call[c].op \in ConnectionOps
         /\ req[c].op = "restore" => call[c].op \in {"connect", "start"}
         /\ req[c].e # None => call[c].enablement = req[c].e

\* Nothing runs and nobody is served in a process that is down, and no request
\* but the restore before the process is up.
Serving ==
    /\ server = "down" => /\ \A c \in Calls : req[c].at = "none"
                          /\ \A e \in Enablements : Config(e) = None
    /\ server = "restoring" => \E c \in Calls : req[c].op = "restore"
    /\ \A c \in Calls : req[c].op = "restore" => server = "restoring"

Fresh(e) == Config(e) = ConfigOf(e, row[e].fields)

\* c's edit is written, and c still has to reload what runs
Pends(c) ==
    /\ req[c].op \in Edits
    /\ req[c].at \in {"check", "row", "sources", "act"} \/ call[c].pc = "stopping"

\* c has started its enablement, and still has to mark the row
Marks(c) == req[c].op = "start" /\ call[c].pc = "ok"

\* a step leaves the row of x, its sources and what was asked for alone
KeepsRow(x) == row'[x] = row[x] /\ source'[x] = source[x] /\ asked'[x] = asked[x]

\* Of what runs for e: it has a row; it is current, has no source to use, or is
\* going to be reloaded; and it was not asked to rest, or the word that it is to
\* run is going to be written.
Stands(e) ==
    Config(e) # None =>
        /\ Live(e)
        /\ Fresh(e) \/ Config(e) \in Sourceless \/ \E c \in Calls : req[c].e = e /\ Pends(c)
        /\ asked[e] = "rest" => \E c \in Calls : req[c].e = e /\ Marks(c)

\* Of a request c for e: its row is there; what it has stopped does not run;
\* and what it has read, or hands over to the manager, is current.
Knows(c, e) ==
    /\ IF req[c].op = "delete" THEN row[e].state # "unborn" ELSE Live(e)
    /\ req[c].at = "runtime" /\ req[c].op \in {"stop", "delete"} => Config(e) = None
    /\ req[c].at = "sources" => req[c].fields = row[e].fields
    /\ req[c].at = "act" => req[c].config = ConfigOf(e, row[e].fields)
    /\ call[c].pc = "stopping" /\ call[c].op \in {"start", "reload"} =>
         call[c].config = ConfigOf(e, row[e].fields)

\* The restore runs nothing before it is connected; from then on, the rows
\* before it are those that are to run and do not, and of the rows behind it
\* those run that are to run.
Restored(c) ==
    IF req[c].at = "runtime" /\ call[c].op = "connect"
    THEN /\ \A e \in Enablements : Config(e) = None
         /\ call[c].pc = "ok" => CanStart
         /\ call[c].pc = "error" => ~connected
    ELSE /\ CanStart
         /\ req[c].at = "runtime" => call[c].pc \in {"ok", "error"}
         /\ \A e \in Enablements :
              IF e \in req[c].todo
              THEN e \in Enabled /\ Config(e) = None
              ELSE /\ Config(e) # None <=> e \in Enabled /\ e \in Registered
                   /\ Config(e) # None => Fresh(e)

Handled ==
    /\ Requests
    /\ OneAtATime
    /\ \A c \in Calls : Handler(c)

Agreed ==
    /\ Serving
    /\ \A e \in Enablements : Stands(e)
    /\ \A c \in Calls, e \in Enablements : req[c].e = e => Knows(c, e)
    /\ \A c \in Calls : req[c].op = "restore" => Restored(c)

Controlled == Orderly /\ Handled /\ Agreed

-----------------------------------------------------------------------------
(* A step of the only request for an enablement.                           *)

\* What stands of e, when no request but c's can be for it.
Stays(c, e) ==
    Config(e) # None =>
        /\ Live(e)
        /\ Fresh(e) \/ Config(e) \in Sourceless \/ (req[c].e = e /\ Pends(c))
        /\ asked[e] = "rest" => req[c].e = e /\ Marks(c)

\* the step is of c's request for e, or begins it
ForRow(c, e) ==
    /\ \A d \in Calls \ {c} : req'[d] = req[d]
    /\ \/ req[c].e = e
       \/ req[c].at = "none" /\ server = "up" /\ req'[c].e = e

\* Then no other request is for e, and no restore is at work.
LEMMA OnlyOne ==
    ASSUME Controlled, Requests', OneAtATime', NEW c \in Calls, NEW e \in Enablements,
           ForRow(c, e)
    PROVE  /\ \A d \in Calls \ {c} : req[d].e # e /\ req[d].op # "restore"
           /\ req[c].op # "restore" /\ server = "up"
<1>0. e # None
  BY ConstantsAssumption
<1>1. ASSUME NEW d \in Calls \ {c}, req[d].e = e \/ req[d].op = "restore"
      PROVE  FALSE
  <2>1. req[d].at # "none" /\ (req[d].op = "restore" => req[d].e = None) /\ req'[d] = req[d]
    BY <1>0, <1>1 DEF ForRow, Controlled, Handled, Requests, Request, RowOps, SourceOps
  <2>2. CASE req[c].e = e
    <3>1. req[c].at # "none"
      BY <1>0, <2>2 DEF Controlled, Handled, Requests, Request
    <3> QED
      BY <1>1, <2>1, <2>2, <3>1 DEF Controlled, Handled, OneAtATime
  <2>3. CASE req'[c].e = e
    <3>1. req'[c].at # "none"
      BY <1>0, <2>3 DEF Requests, Request
    <3> QED
      BY <1>1, <2>1, <2>3, <3>1 DEF OneAtATime
  <2> QED
    BY <2>2, <2>3 DEF ForRow
<1>2. req[c].op # "restore"
  BY <1>0 DEF ForRow, Controlled, Handled, Requests, Request, RowOps, SourceOps
<1>3. server = "up"
  <2>1. CASE req[c].e = e
    <3>1. req[c].at # "none"
      BY <1>0, <2>1 DEF Controlled, Handled, Requests, Request
    <3> QED
      BY <1>1, <1>2, <3>1 DEF Controlled, Handled, Agreed, Serving, Requests, ControlTypeOK
  <2> QED
    BY <2>1 DEF ForRow
<1> QED
  BY <1>1, <1>2, <1>3

LEMMA StaysNow ==
    ASSUME Controlled, Requests', OneAtATime', NEW c \in Calls, NEW e \in Enablements,
           ForRow(c, e)
    PROVE  Stays(c, e)
BY OnlyOne DEF Controlled, Agreed, Stands, Stays

\* It is enough to look at what the step does for c and e.
LEMMA RowStep ==
    ASSUME Controlled, Requests', OneAtATime', NEW c \in Calls, NEW e \in Enablements,
           ForRow(c, e), StepOf(c), RunsBut(e), UNCHANGED server,
           \A x \in Enablements \ {e} : KeepsRow(x),
           req'[c].e \in {None, e}, req'[c].op # "restore",
           Handler(c)', Stays(c, e)', req'[c].e = e => Knows(c, e)'
    PROVE  (\A d \in Calls : Handler(d)') /\ Agreed'
<1>0. e # None /\ \A d \in Calls \ {c} : req'[d] = req[d] /\ call'[d] = call[d]
  BY ConstantsAssumption DEF ForRow, StepOf
<1>1. /\ \A d \in Calls \ {c} : req[d].e # e /\ req[d].op # "restore"
      /\ req[c].op # "restore" /\ server = "up"
  BY OnlyOne
<1>2. \A d \in Calls : Handler(d)'
  BY <1>0 DEF Handler, Controlled, Handled
<1>3. \A d \in Calls : req'[d].op # "restore"
  BY <1>0, <1>1
<1>4. Serving'
  BY <1>1, <1>3 DEF Serving
<1>5. ASSUME NEW x \in Enablements
      PROVE  Stands(x)'
  <2>1. CASE x = e
    BY <2>1 DEF Stays, Stands
  <2>2. CASE x # e
    <3>1. /\ Config(x)' = Config(x) /\ x # None
          /\ row'[x] = row[x] /\ source'[x] = source[x] /\ asked'[x] = asked[x]
      BY <2>2, ConstantsAssumption DEF RunsBut, KeepsRow
    <3>2. Stands(x)
      BY DEF Controlled, Agreed
    <3>3. \A d \in Calls : req[d].e = x => d # c
      BY <1>0, <2>2, <3>1 DEF ForRow, Controlled, Handled, Requests, Request
    <3>4. (\E d \in Calls : req[d].e = x /\ Pends(d)) => \E d \in Calls : req'[d].e = x /\ Pends(d)'
      BY <1>0, <3>3 DEF Pends
    <3>5. (\E d \in Calls : req[d].e = x /\ Marks(d)) => \E d \in Calls : req'[d].e = x /\ Marks(d)'
      BY <1>0, <3>3 DEF Marks
    <3>6. (Live(x)' <=> Live(x)) /\ (Fresh(x)' <=> Fresh(x))
      BY <3>1 DEF Live, Fresh, ConfigOf
    <3> QED
      BY <3>1, <3>2, <3>4, <3>5, <3>6 DEF Stands
  <2> QED
    BY <2>1, <2>2
<1>6. ASSUME NEW d \in Calls, NEW x \in Enablements, req'[d].e = x
      PROVE  Knows(d, x)'
  <2>1. CASE d = c
    BY <1>0, <1>6, <2>1, ConstantsAssumption
  <2>2. CASE d # c
    <3>1. /\ x # e /\ req'[d] = req[d] /\ call'[d] = call[d] /\ Knows(d, x)
      BY <1>0, <1>1, <1>6, <2>2 DEF Controlled, Agreed
    <3>2. Config(x)' = Config(x) /\ row'[x] = row[x] /\ source'[x] = source[x]
      BY <3>1 DEF RunsBut, KeepsRow
    <3> QED
      BY <3>1, <3>2 DEF Knows, Live, ConfigOf
  <2> QED
    BY <2>1, <2>2
<1> QED
  BY <1>2, <1>3, <1>4, <1>5, <1>6 DEF Agreed

-----------------------------------------------------------------------------
(* The handlers of requests for an enablement, one after the other.        *)

\* What a step may count on, and what it has to leave.
Stepping == Controlled /\ Typed' /\ Requests' /\ OneAtATime'

Leaves == (\A d \in Calls : Handler(d)') /\ Agreed'

\* A step that touches neither the manager nor, but for e, the tables.
LEMMA QuietRowStep ==
    ASSUME Stepping, NEW c \in Calls, NEW e \in Enablements, ForRow(c, e),
           UNCHANGED vars, UNCHANGED server,
           \A x \in Enablements \ {e} : KeepsRow(x),
           req'[c].e \in {None, e}, req'[c].op # "restore",
           req[c].at # "runtime", req'[c].at # "runtime",
           Config(e)' = Config(e) => Stays(c, e)',
           req'[c].e = e /\ call'[c].pc = "idle" => Knows(c, e)'
    PROVE  Leaves
<1>1. \A x \in Enablements : Config(x)' = Config(x)
  BY ConfigKept DEF vars
<1>2. StepOf(c) /\ call'[c] = call[c]
  BY DEF StepOf, vars
<1>3. call[c].pc = "idle"
  BY DEF Stepping, Controlled, Handled, Handler
<1>4. Handler(c)'
  BY <1>2, <1>3 DEF Handler
<1> QED
  BY <1>1, <1>2, <1>3, <1>4, RowStep DEF Stepping, RunsBut, Leaves

\* The enablement of a request in progress.
LEMMA ItsRow ==
    ASSUME Stepping, NEW c \in Calls, req[c].at # "none",
           req[c].op \in RowOps \cup {"delete"}
    PROVE  req[c].e \in Enablements
BY DEF Stepping, Controlled, Handled, Requests, Request, RowOps, SourceOps, ConnectionOps

LEMMA OpKinds ==
    /\ Edits \subseteq RowOps /\ SourceOps \subseteq Edits /\ "put" \in Edits
    /\ "start" \in RowOps \ Edits /\ "stop" \in RowOps \ Edits
    /\ "delete" \notin RowOps /\ "restore" \notin RowOps /\ "none" \notin RowOps
    /\ RowOps \cap ConnectionOps = {} /\ "delete" \notin ConnectionOps
BY DEF Edits, RowOps, SourceOps, ConnectionOps

LEMMA FoundStep ==
    ASSUME Stepping, NEW c \in Calls, NEW e \in Enablements, NEW op \in RowOps, Found(c, op, e)
    PROVE  Leaves
<1>1. /\ server = "up" /\ req[c].at = "none" /\ Live(e)
      /\ UNCHANGED vars /\ UNCHANGED <<row, source, server, asked>>
  BY DEF Found, Arrives, db
<1>2. PICK at \in Stages :
        /\ ReqComes(c, op, e, at)
        /\ at = IF op = "start" THEN "sources" ELSE IF op = "stop" THEN "stop" ELSE "write"
  BY FoundComes DEF Stepping, Controlled, Handled, Requests, ControlTypeOK, ReqTyped, ReqRec, RowRec
<1>3. req'[c].fields = row[e].fields
  BY FoundComes DEF Stepping, Controlled, Handled, Requests, ControlTypeOK, ReqTyped, ReqRec, RowRec
<1>4. ForRow(c, e)
  BY <1>1, <1>2 DEF ForRow, ReqComes
<1>5. req[c].e # e
  BY <1>1, ConstantsAssumption DEF Stepping, Controlled, Handled, Requests, Request
<1>6. ASSUME Config(e)' = Config(e) PROVE Stays(c, e)'
  <2>1. Stays(c, e)
    BY <1>4, StaysNow DEF Stepping
  <2> QED
    BY <1>1, <1>5, <1>6, <2>1 DEF Stays, Live, Fresh, ConfigOf
<1>7. ASSUME call'[c].pc = "idle" PROVE Knows(c, e)'
  BY <1>1, <1>2, <1>3, <1>7, OpKinds DEF ReqComes, Knows, Live
<1> QED
  BY <1>1, <1>2, <1>4, <1>6, <1>7, QuietRowStep, OpKinds DEF ReqComes, KeepsRow

LEMMA PutStep ==
    ASSUME Stepping, NEW c \in Calls, PutWrites(c)
    PROVE  Leaves
<1>1. /\ req[c].op = "put" /\ req[c].at = "write"
      /\ GoesTo(c, "row") /\ UNCHANGED vars /\ UNCHANGED <<source, server>>
  BY DEF PutWrites
<1>2. PICK e \in Enablements : e = req[c].e
  BY <1>1, ItsRow, OpKinds
<1>3. ReqMoves(c, "row")
  BY <1>1, GoesToMoves DEF Stepping, Controlled, Handled, Requests, ControlTypeOK, ReqTyped, ReqRec, Stages
<1>4. ForRow(c, e)
  BY <1>2, <1>3 DEF ForRow, ReqMoves
<1>5. Live(e) /\ row \in [Enablements -> RowRec]
  BY <1>1, <1>2 DEF Stepping, Controlled, Agreed, Knows, Handled, Requests, ControlTypeOK, RowRec
<1>6. PICK v \in Versions, b \in PutFlags \cup {row[e].enabled} :
        /\ row' = [row EXCEPT ![e] = [state |-> "live", fields |-> v, enabled |-> b]]
        /\ asked' = [asked EXCEPT ![e] = IF b THEN "run"
                                         ELSE IF row[e].enabled THEN "unmark" ELSE @]
  BY <1>2, <1>5 DEF PutWrites
<1>7. asked \in [Enablements -> Words]
  BY DEF Stepping, Controlled, Handled, Requests, ControlTypeOK, Words
<1>8. /\ row'[e].state = "live"
      /\ asked'[e] \in {"run", "unmark", asked[e]}
      /\ \A x \in Enablements \ {e} : KeepsRow(x)
  BY <1>1, <1>5, <1>6, <1>7 DEF KeepsRow
<1>9. ASSUME Config(e)' = Config(e) PROVE Stays(c, e)'
  <2>1. Stays(c, e)
    BY <1>4, StaysNow DEF Stepping
  <2>2. Live(e)' /\ Pends(c)' /\ req'[c].e = e
    BY <1>1, <1>2, <1>3, <1>8, OpKinds DEF Live, Pends, ReqMoves
  <2>3. Config(e) # None => asked'[e] # "rest"
    BY <1>1, <1>8, <2>1 DEF Stays, Marks
  <2> QED
    BY <1>9, <2>2, <2>3 DEF Stays
<1>10. ASSUME call'[c].pc = "idle" PROVE Knows(c, e)'
  BY <1>1, <1>3, <1>8, <1>10 DEF ReqMoves, Knows, Live
<1> QED
  BY <1>1, <1>2, <1>3, <1>4, <1>8, <1>9, <1>10, QuietRowStep DEF ReqMoves

LEMMA SourceStep ==
    ASSUME Stepping, NEW c \in Calls, SourceWrites(c)
    PROVE  Leaves
<1>1. /\ req[c].op \in SourceOps /\ req[c].at = "write"
      /\ UNCHANGED vars /\ UNCHANGED <<row, server, asked>>
  BY DEF SourceWrites
<1>2. PICK e \in Enablements : e = req[c].e
  BY <1>1, ItsRow, OpKinds
<1>3. Live(e)
  BY <1>1, <1>2, OpKinds DEF Stepping, Controlled, Agreed, Knows
<1>4. GoesTo(c, "check") /\ \E s, v : source' = [source EXCEPT ![e][s] = v]
  BY <1>2, <1>3 DEF SourceWrites
<1>5. ReqMoves(c, "check")
  BY <1>4, GoesToMoves DEF Stepping, Controlled, Handled, Requests, ControlTypeOK, ReqTyped, ReqRec, Stages
<1>6. ForRow(c, e)
  BY <1>2, <1>5 DEF ForRow, ReqMoves
<1>7. \A x \in Enablements \ {e} : KeepsRow(x)
  BY <1>1, <1>4 DEF Stepping, Controlled, Handled, Requests, ControlTypeOK, KeepsRow
<1>8. ASSUME Config(e)' = Config(e) PROVE Stays(c, e)'
  <2>1. Stays(c, e)
    BY <1>6, StaysNow DEF Stepping
  <2>2. Live(e)' /\ Pends(c)' /\ req'[c].e = e
    BY <1>1, <1>2, <1>3, <1>5, OpKinds DEF Live, Pends, ReqMoves
  <2>3. Config(e) # None => asked'[e] # "rest"
    BY <1>1, <2>1, OpKinds DEF Stays, Marks
  <2> QED
    BY <1>8, <2>2, <2>3 DEF Stays
<1>9. ASSUME call'[c].pc = "idle" PROVE Knows(c, e)'
  BY <1>1, <1>3, <1>5, <1>9, OpKinds DEF ReqMoves, Knows, Live
<1> QED
  BY <1>1, <1>2, <1>5, <1>6, <1>7, <1>8, <1>9, QuietRowStep, OpKinds DEF ReqMoves
\* Who reloads what is registered for e is a request for e.
LEMMA ReloaderOf ==
    ASSUME Controlled, NEW e \in Enablements, active[e] # None, Reloading(active[e])
    PROVE  \E d \in Calls : req[d].e = e /\ req[d].at = "runtime"
<1>1. PICK d \in Calls : /\ call[d].pc = "stopping" /\ call[d].op = "reload"
                         /\ call[d].plugin = active[e]
  BY DEF Reloading
<1>2. call[d].enablement = plugin[active[e]].enablement
  BY <1>1 DEF Controlled, Orderly, Order, CallOK, ConnectionOps
<1>3. plugin[active[e]].enablement = e
  BY DEF Controlled, Orderly, Work, Registry, OneTask
<1>4. req[d].at = "runtime"
  BY <1>1 DEF Controlled, Handled, Handler
<1>5. req[d].e # None
  BY <1>1, <1>4, ConstantsAssumption DEF Controlled, Handled, Handler, Requests, Request, ConnectionOps
<1> QED
  BY <1>1, <1>2, <1>3, <1>4, <1>5 DEF Controlled, Handled, Handler

\* What is registered and neither runs nor is being reloaded has returned for
\* want of a source.
LEMMA NotRunning ==
    ASSUME Controlled, NEW e \in Enablements, Config(e) # None, ~IsRunning(e),
           \A d \in Calls : req[d].e = e => req[d].at # "runtime"
    PROVE  Config(e) \in Sourceless
<1>1. active[e] # None /\ Config(e) = plugin[active[e]].config
  BY DEF Config
<1>2. ~Reloading(active[e])
  BY <1>1, ReloaderOf
<1>3. PICK t \in Tasks : plugin[active[e]].tasks = {t}
  BY <1>1 DEF Controlled, Orderly, Work, Registry, OneTask
<1>4. \/ task[t] = Worker(e, plugin[active[e]].queue, plugin[active[e]].config)
      \/ task[t] = Done /\ plugin[active[e]].config \in Sourceless
  BY <1>1, <1>2, <1>3 DEF Controlled, Orderly, Work, RegisteredWorks
<1>5. task[t].state = "done"
  BY <1>1, <1>3 DEF IsRunning
<1> QED
  BY <1>1, <1>4, <1>5 DEF Worker

\* A request that is answered because nothing runs.
LEMMA GivesUpStep ==
    ASSUME Stepping, NEW c \in Calls, Answer(c), UNCHANGED vars, UNCHANGED <<row, source, server, asked>>,
           NEW e \in Enablements, req[c].e = e, req[c].at \notin {"none", "runtime"},
           ~IsRunning(e) \/ req[c].op \notin Edits
    PROVE  Leaves
<1>1. ReqEnds(c)
  BY AnswerEnds DEF Stepping, Controlled, Handled, Requests, ControlTypeOK, ReqTyped, ReqRec
<1>2. ForRow(c, e)
  BY <1>1 DEF ForRow, ReqEnds
<1>3. e # None
  BY ConstantsAssumption
<1>4. \A d \in Calls \ {c} : req[d].e # e
  BY <1>2, OnlyOne DEF Stepping
<1>5. ASSUME Config(e)' = Config(e) PROVE Stays(c, e)'
  <2>1. Stays(c, e)
    BY <1>2, StaysNow DEF Stepping
  <2>2. Config(e) # None => Fresh(e) \/ Config(e) \in Sourceless
    BY <1>4, <2>1, NotRunning DEF Stepping, Stays, Pends
  <2>3. ~Marks(c)
    BY DEF Marks, Stepping, Controlled, Handled, Handler
  <2> QED
    BY <1>5, <2>1, <2>2, <2>3 DEF Stays, Live, Fresh, ConfigOf
<1> QED
  BY <1>1, <1>2, <1>3, <1>5, QuietRowStep DEF ReqEnds, KeepsRow

\* A stage on the way of an edit to its reload, or of a start.
LEMMA GoesOnStep ==
    ASSUME Stepping, NEW c \in Calls, NEW at \in {"row", "sources", "act"}, ReqMoves(c, at),
           UNCHANGED vars, UNCHANGED <<row, source, server, asked>>,
           req[c].at \notin {"none", "runtime"},
           req[c].op \in Edits \/ (req[c].op = "start" /\ at = "act"),
           at = "sources" => req'[c].fields = row[req[c].e].fields,
           at = "act" => req'[c].config = ConfigOf(req[c].e, row[req[c].e].fields)
    PROVE  Leaves
<1>1. PICK e \in Enablements : e = req[c].e
  BY ItsRow, OpKinds
<1>2. ForRow(c, e)
  BY <1>1 DEF ForRow, ReqMoves
<1>3. Live(e)
  BY <1>1, OpKinds DEF Stepping, Controlled, Agreed, Knows
<1>4. ASSUME Config(e)' = Config(e) PROVE Stays(c, e)'
  <2>1. Stays(c, e)
    BY <1>2, StaysNow DEF Stepping
  <2>2. Live(e)' /\ (Pends(c) => Pends(c)') /\ req'[c].e = e
    BY <1>1, <1>3, OpKinds DEF Live, Pends, ReqMoves, vars
  <2>3. ~Marks(c)
    BY DEF Marks, Stepping, Controlled, Handled, Handler
  <2>4. Config(e)' = Config(e) /\ (Fresh(e)' <=> Fresh(e))
    BY <1>4 DEF Fresh, ConfigOf
  <2> QED
    BY <1>1, <2>1, <2>2, <2>3, <2>4 DEF Stays
<1>5. ASSUME call'[c].pc = "idle" PROVE Knows(c, e)'
  BY <1>1, <1>3, <1>5, OpKinds DEF ReqMoves, Knows, Live, ConfigOf
<1> QED
  BY <1>1, <1>2, <1>4, <1>5, QuietRowStep, OpKinds DEF ReqMoves, KeepsRow

LEMMA CheckStep ==
    ASSUME Stepping, NEW c \in Calls, ChecksRunning(c)
    PROVE  Leaves
<1>1. /\ req[c].at = "check" /\ req[c].op \in SourceOps
      /\ UNCHANGED vars /\ UNCHANGED <<row, source, server, asked>>
  BY DEF ChecksRunning, db, Stepping, Controlled, Handled, Requests, Request
<1>2. PICK e \in Enablements : e = req[c].e
  BY <1>1, ItsRow, OpKinds
<1>3. CASE IsRunning(e) /\ GoesTo(c, "row")
  <2>1. ReqMoves(c, "row")
    BY <1>3, GoesToMoves DEF Stepping, Controlled, Handled, Requests, ControlTypeOK, ReqTyped, ReqRec, Stages
  <2> QED
    BY <1>1, <2>1, GoesOnStep, OpKinds
<1>4. CASE ~IsRunning(e) /\ Answer(c)
  BY <1>1, <1>2, <1>4, GivesUpStep
<1> QED
  BY <1>2, <1>3, <1>4 DEF ChecksRunning

LEMMA RowReadStep ==
    ASSUME Stepping, NEW c \in Calls, ReadsRow(c)
    PROVE  Leaves
<1>1. /\ req[c].at = "row" /\ req[c].op \in Edits
      /\ UNCHANGED vars /\ UNCHANGED <<row, source, server, asked>>
  BY DEF ReadsRow, db, Stepping, Controlled, Handled, Requests, Request
<1>2. PICK e \in Enablements : e = req[c].e
  BY <1>1, ItsRow, OpKinds
<1>3. Live(e)
  BY <1>1, <1>2, OpKinds DEF Stepping, Controlled, Agreed, Knows
<1>4. req' = [req EXCEPT ![c].at = "sources", ![c].fields = row[e].fields]
  BY <1>2, <1>3 DEF ReadsRow
<1>5. ReqMoves(c, "sources") /\ req'[c].fields = row[e].fields
  <2>1. req \in [Calls -> ReqRec]
    BY DEF Stepping, Controlled, Handled, Requests, ControlTypeOK, ReqRec
  <2>2. PICK r : r = [[req[c] EXCEPT !.at = "sources"] EXCEPT !.fields = row[e].fields]
    OBVIOUS
  <2>3. req' = [req EXCEPT ![c] = r]
    BY <1>4, <2>1, <2>2
  <2>4. PICK q : q = [req[c] EXCEPT !.at = "sources"]
    OBVIOUS
  <2>5. q \in [op : RowOps \cup ConnectionOps \cup {"none", "delete", "restore"},
               at : Stages, e : Enablements \cup {None}, source : Sources \cup {None},
               fields : Versions \cup {None}, config : Configs \cup {None},
               todo : SUBSET Enablements]
        /\ q.at = "sources" /\ q.op = req[c].op /\ q.e = req[c].e /\ q.source = req[c].source
    BY <2>1, <2>4 DEF ReqRec, Stages
  <2>6. r.at = "sources" /\ r.op = req[c].op /\ r.e = req[c].e
        /\ r.source = req[c].source /\ r.fields = row[e].fields
    BY <2>2, <2>4, <2>5
  <2> QED
    BY <2>1, <2>3, <2>6 DEF ReqMoves
<1> QED
  BY <1>1, <1>2, <1>5, GoesOnStep

LEMMA SourcesReadStep ==
    ASSUME Stepping, NEW c \in Calls, ReadsSources(c)
    PROVE  Leaves
<1>1. /\ req[c].at = "sources" /\ req[c].op \in Edits \cup {"start"}
      /\ req[c].fields \in Versions /\ ReqTyped
      /\ UNCHANGED vars /\ UNCHANGED <<row, source, server, asked>>
  BY DEF ReadsSources, db, Stepping, Controlled, Handled, Requests, Request,
         ControlTypeOK, ReqTyped, ReqRec
<1>2. PICK e \in Enablements : e = req[c].e
  BY <1>1, ItsRow, OpKinds
<1>3. req[c].fields = row[e].fields
  BY <1>1, <1>2 DEF Stepping, Controlled, Agreed, Knows
<1>4. ReqMoves(c, "act") /\ req'[c].config = ConfigOf(e, row[e].fields)
  BY <1>1, <1>2, <1>3, SourcesRead
<1> QED
  BY <1>1, <1>2, <1>4, GoesOnStep

-----------------------------------------------------------------------------
(* The steps of these handlers in the manager.                             *)

\* A start: it begins, or goes on when the old plugin is gone.
LEMMA StartingStep ==
    ASSUME Stepping, NEW c \in Calls, NEW e \in Enablements, NEW f, ForRow(c, e),
           f = ConfigOf(e, row[e].fields), StartEffect(c, e, f),
           UNCHANGED <<row, source, server, asked>>,
           req[c].e = e, req[c].op = "start", call[c].pc # "ok",
           req'[c].e = e, req'[c].op = "start", req'[c].at = "runtime"
    PROVE  Leaves
<1>1. Live(e)
  BY OpKinds DEF Stepping, Controlled, Agreed, Knows
<1>2. ConfigOf(e, row[e].fields)' = f /\ Live(e)'
  BY <1>1 DEF ConfigOf, Live
<1>3. Handler(c)'
  BY OpKinds, ConstantsAssumption DEF StartEffect, Handler
<1>4. Stays(c, e)'
  <2>1. CASE call'[c].pc = "ok"
    BY <1>2, <2>1 DEF StartEffect, Stays, Fresh, Marks
  <2>2. CASE call'[c].pc = "stopping"
    BY <2>2 DEF StartEffect, Stays
  <2>3. CASE call'[c].pc = "error"
    <3>1. Stays(c, e) /\ ~Pends(c) /\ ~Marks(c)
      BY StaysNow, OpKinds DEF Stepping, Pends, Marks
    <3>2. Config(e)' = Config(e)
      BY <2>3 DEF StartEffect
    <3> QED
      BY <1>2, <3>1, <3>2 DEF Stays, Fresh, ConfigOf
  <2> QED
    BY <2>1, <2>2, <2>3 DEF StartEffect
<1>5. Knows(c, e)'
  BY <1>2, OpKinds DEF StartEffect, Knows
<1> QED
  BY <1>3, <1>4, <1>5, RowStep DEF Stepping, StartEffect, Leaves, KeepsRow

\* A stop or a delete.
LEMMA StoppingStep ==
    ASSUME Stepping, NEW c \in Calls, NEW e \in Enablements, ForRow(c, e), StopEffect(c, e),
           UNCHANGED <<row, source, server, asked>>, NEW op \in {"stop", "delete"},
           IF op = "delete" THEN row[e].state # "unborn" ELSE Live(e),
           req'[c].e = e, req'[c].op = op, req'[c].at = "runtime"
    PROVE  Leaves
<1>1. Handler(c)'
  BY OpKinds, ConstantsAssumption DEF StopEffect, Handler
<1>2. Stays(c, e)'
  BY DEF StopEffect, Stays
<1>3. Knows(c, e)'
  BY DEF StopEffect, Knows, Live
<1> QED
  BY <1>1, <1>2, <1>3, RowStep DEF Stepping, StopEffect, Leaves, KeepsRow

\* A reload.
LEMMA ReloadingStep ==
    ASSUME Stepping, NEW c \in Calls, NEW e \in Enablements, NEW f, ForRow(c, e),
           f = ConfigOf(e, row[e].fields), ReloadEffect(c, e, f),
           UNCHANGED <<row, source, server, asked>>,
           req[c].e = e, req[c].op \in Edits,
           req'[c].e = e, req'[c].op = req[c].op, req'[c].at = "runtime"
    PROVE  Leaves
<1>1. Live(e)
  BY OpKinds DEF Stepping, Controlled, Agreed, Knows
<1>2. ConfigOf(e, row[e].fields)' = f /\ Live(e)'
  BY <1>1 DEF ConfigOf, Live
<1>3. Handler(c)'
  BY OpKinds, ConstantsAssumption DEF ReloadEffect, Handler
<1>4. Stays(c, e) /\ ~Marks(c)
  BY StaysNow, OpKinds DEF Stepping, Marks
<1>5. Stays(c, e)'
  BY <1>2, <1>4 DEF ReloadEffect, Stays, Fresh, Pends
<1>6. Knows(c, e)'
  BY <1>2, OpKinds DEF ReloadEffect, Knows
<1> QED
  BY <1>3, <1>5, <1>6, RowStep, OpKinds DEF Stepping, ReloadEffect, Leaves, KeepsRow

LEMMA ConfigOfType ==
    ASSUME Stepping, NEW e \in Enablements
    PROVE  ConfigOf(e, row[e].fields) \in Configs
BY ControlAssumption DEF ConfigOf, Stepping, Controlled, Handled, Requests, ControlTypeOK

\* A request for e at its stage `act' or `stop' goes to the runtime.
LEMMA ToRuntime ==
    ASSUME Stepping, NEW c \in Calls, req[c].at # "none", req[c].op \in RowOps,
           GoesTo(c, "runtime")
    PROVE  \E e \in Enablements :
             /\ req[c].e = e /\ ForRow(c, e)
             /\ req'[c].e = e /\ req'[c].op = req[c].op /\ req'[c].at = "runtime"
             /\ Live(e)
             /\ req[c].at = "act" => req[c].config = ConfigOf(e, row[e].fields)
<1>1. PICK e \in Enablements : e = req[c].e
  BY ItsRow
<1>2. ReqMoves(c, "runtime")
  BY GoesToMoves DEF Stepping, Controlled, Handled, Requests, ControlTypeOK, ReqTyped, ReqRec, Stages
<1>3. Knows(c, e)
  BY <1>1 DEF Stepping, Controlled, Agreed
<1> QED
  BY <1>1, <1>2, <1>3, OpKinds DEF ForRow, ReqMoves, Knows

LEMMA ReloadStep ==
    ASSUME Stepping, NEW c \in Calls, Reloads(c)
    PROVE  Leaves
<1>1. req[c].op \in Edits /\ req[c].at = "act" /\ UNCHANGED <<row, source, server, asked>>
  BY DEF Reloads, Edits, db
<1>2. PICK e \in Enablements : e = req[c].e
  BY <1>1, ItsRow, OpKinds
<1>3. CASE ~IsRunning(e) /\ Answer(c) /\ UNCHANGED vars
  BY <1>1, <1>2, <1>3, GivesUpStep
<1>4. CASE BeginReload(c, e, req[c].config) /\ GoesTo(c, "runtime")
  <2>1. /\ ForRow(c, e) /\ req[c].config = ConfigOf(e, row[e].fields)
        /\ req'[c].e = e /\ req'[c].op = req[c].op /\ req'[c].at = "runtime"
    BY <1>1, <1>2, <1>4, ToRuntime, OpKinds
  <2>2. PICK f \in Configs : f = ConfigOf(e, row[e].fields)
    BY ConfigOfType
  <2>3. ReloadEffect(c, e, f)
    BY <1>4, <2>1, <2>2, ReloadsEffect DEF Stepping, Controlled
  <2> QED
    BY <1>1, <1>2, <2>1, <2>2, <2>3, ReloadingStep
<1> QED
  BY <1>2, <1>3, <1>4 DEF Reloads

LEMMA StartStep ==
    ASSUME Stepping, NEW c \in Calls, Starts(c)
    PROVE  Leaves
<1>1. req[c].op = "start" /\ req[c].at = "act" /\ UNCHANGED <<row, source, server, asked>>
  BY DEF Starts, db
<1>2. PICK e \in Enablements : e = req[c].e
  BY <1>1, ItsRow, OpKinds
<1>3. CASE Answer(c) /\ UNCHANGED vars
  BY <1>1, <1>2, <1>3, GivesUpStep, OpKinds
<1>4. CASE BeginStart(c, e, req[c].config) /\ GoesTo(c, "runtime")
  <2>1. /\ ForRow(c, e) /\ req[c].config = ConfigOf(e, row[e].fields)
        /\ req'[c].e = e /\ req'[c].op = req[c].op /\ req'[c].at = "runtime"
    BY <1>1, <1>2, <1>4, ToRuntime, OpKinds
  <2>2. PICK f \in Configs : f = ConfigOf(e, row[e].fields)
    BY ConfigOfType
  <2>3. StartEffect(c, e, f) /\ call[c].pc # "ok"
    BY <1>4, <2>1, <2>2, StartsEffect DEF Stepping, Controlled, BeginStart
  <2> QED
    BY <1>1, <1>2, <2>1, <2>2, <2>3, StartingStep
<1> QED
  BY <1>2, <1>3, <1>4 DEF Starts

LEMMA StopStep ==
    ASSUME Stepping, NEW c \in Calls, Stops(c)
    PROVE  Leaves
<1>1. /\ req[c].op = "stop" /\ req[c].at = "stop" /\ UNCHANGED <<row, source, server, asked>>
      /\ BeginStop(c, req[c].e) /\ GoesTo(c, "runtime")
  BY DEF Stops, db, Stepping, Controlled, Handled, Requests, Request
<1>2. PICK e \in Enablements :
        /\ req[c].e = e /\ ForRow(c, e) /\ Live(e)
        /\ req'[c].e = e /\ req'[c].op = "stop" /\ req'[c].at = "runtime"
  BY <1>1, ToRuntime, OpKinds
<1>3. StopEffect(c, e)
  BY <1>1, <1>2, StopsEffect DEF Stepping, Controlled
<1> QED
  BY <1>1, <1>2, <1>3, StoppingStep

LEMMA DeleteStep ==
    ASSUME Stepping, NEW c \in Calls, NEW e \in Enablements, Deletes(c, e)
    PROVE  Leaves
<1>1. /\ server = "up" /\ req[c].at = "none" /\ row[e].state # "unborn"
      /\ UNCHANGED <<row, source, server, asked>> /\ BeginStop(c, e)
      /\ req' = [req EXCEPT ![c] = [NoReq EXCEPT !.op = "delete", !.e = e, !.at = "runtime"]]
  BY DEF Deletes, Arrives, db
<1>2. ReqComes(c, "delete", e, "runtime")
  BY <1>1, NewComes DEF Stepping, Controlled, Handled, Requests, ControlTypeOK, ReqTyped, ReqRec
<1>3. ForRow(c, e) /\ StopEffect(c, e)
  BY <1>1, <1>2, StopsEffect DEF ForRow, ReqComes, Stepping, Controlled
<1> QED
  BY <1>1, <1>2, <1>3, StoppingStep DEF ReqComes
\* The answer, with what is still written before it.
LEMMA RowAnswerStep ==
    ASSUME Stepping, NEW c \in Calls, Finishes(c), req[c].op \in RowOps \cup {"delete"}
    PROVE  Leaves
<1>1. /\ req[c].at = "runtime" /\ call[c].pc \in {"ok", "error"} /\ Answer(c)
      /\ call' = [call EXCEPT ![c] = Idle] /\ UNCHANGED <<active, plugin, server>>
  BY DEF Finishes, Back
<1>2. PICK e \in Enablements : e = req[c].e
  BY <1>1, ItsRow
<1>3. ReqEnds(c) /\ e # None
  BY <1>1, AnswerEnds, ConstantsAssumption
     DEF Stepping, Controlled, Handled, Requests, ControlTypeOK, ReqTyped, ReqRec
<1>4. ForRow(c, e)
  BY <1>2, <1>3 DEF ForRow, ReqEnds
<1>5. StepOf(c) /\ call'[c].pc = "idle"
  BY <1>1 DEF StepOf, Idle, Stepping, Controlled, Orderly, Work, Registry, Typed, TypeOK
<1>6. \A x \in Enablements : Config(x)' = Config(x)
  BY <1>1, ConfigKept
<1>7. /\ Stays(c, e) /\ Knows(c, e) /\ ~Pends(c) /\ row \in [Enablements -> RowRec]
      /\ asked \in [Enablements -> Words]
  BY <1>1, <1>2, <1>4, StaysNow
     DEF Stepping, Controlled, Agreed, Pends, Handled, Requests, ControlTypeOK, RowRec, Words
<1>8. (\A x \in Enablements \ {e} : KeepsRow(x)) /\ Stays(c, e)'
  <2>1. CASE /\ req[c].op \in {"start", "stop"} /\ call[c].pc = "ok"
             /\ SetEnabled(e, req[c].op = "start") /\ UNCHANGED source
             /\ asked' = [asked EXCEPT ![e] = IF Live(e) THEN Word(req[c].op = "start") ELSE @]
    <3>1. Live(e)
      BY <1>7, <2>1 DEF Knows
    <3>2. row' = [row EXCEPT ![e] = [row[e] EXCEPT !.enabled = (req[c].op = "start")]]
      BY <2>1, <3>1 DEF SetEnabled
    <3>3. /\ \A x \in Enablements \ {e} : KeepsRow(x)
          /\ row'[e].state = row[e].state /\ row'[e].fields = row[e].fields
      BY <1>7, <2>1, <3>2 DEF RowRec, KeepsRow
    <3>4. CASE req[c].op = "start"
      <4>1. asked'[e] = "run"
        BY <1>7, <2>1, <3>1, <3>4 DEF Word
      <4> QED
        BY <1>6, <1>7, <2>1, <3>3, <4>1 DEF Stays, Live, Fresh, ConfigOf
    <3>5. CASE req[c].op = "stop"
      BY <1>1, <1>6, <1>7, <2>1, <3>3, <3>5 DEF Stays, Knows
    <3> QED
      BY <2>1, <3>3, <3>4, <3>5
  <2>2. CASE /\ req[c].op = "delete" /\ row' = [row EXCEPT ![e] = NoRow("gone", row[e].fields)]
             /\ source' = [source EXCEPT ![e] = [s \in Sources |-> "gone"]]
             /\ asked' = [asked EXCEPT ![e] = Word(FALSE)]
    <3>1. \A x \in Enablements \ {e} : KeepsRow(x)
      BY <2>2 DEF Stepping, Controlled, Handled, Requests, ControlTypeOK, KeepsRow
    <3> QED
      BY <1>1, <1>6, <1>7, <2>2, <3>1 DEF Stays, Knows
  <2>3. CASE UNCHANGED <<row, source, asked>> /\ ~(req[c].op \in {"start", "stop"} /\ call[c].pc = "ok")
    BY <1>6, <1>7, <2>3 DEF Stays, Marks, Live, Fresh, ConfigOf, KeepsRow
  <2> QED
    BY <1>2, <2>1, <2>2, <2>3 DEF Finishes, db
<1>9. Handler(c)'
  BY <1>3, <1>5 DEF Handler, ReqEnds
<1> QED
  BY <1>1, <1>3, <1>4, <1>5, <1>6, <1>8, <1>9, RowStep DEF Stepping, ReqEnds, RunsBut, Leaves

\* The manager goes on with the call of such a request.
LEMMA RowResumes ==
    ASSUME Stepping, NEW c \in Calls, Resume(c), UNCHANGED control, req[c].e # None
    PROVE  Leaves
<1>1. UNCHANGED <<row, source, server, req, asked>>
  BY DEF control
<1>2. call[c].pc \in InProgress
  BY DEF Resume, SetupReturns, SetupFails, StartAfterStop, StopReturns, ReloadRestarts,
         DisconnectGoesOn, LinkClosed, Woken, InProgress
<1>3. req[c].at = "runtime" /\ call[c].enablement = req[c].e
  BY <1>2 DEF Stepping, Controlled, Handled, Handler, InProgress
<1>4. PICK e \in Enablements : e = req[c].e
  BY <1>3 DEF Stepping, Controlled, Handled, Requests, Request
<1>5. req[c].op \in RowOps \cup {"delete"} /\ ForRow(c, e) /\ Knows(c, e)
  BY <1>1, <1>3, <1>4 DEF ForRow, Stepping, Controlled, Handled, Requests, Request, Agreed
<1>6. \/ req[c].op \in Edits /\ call[c].op = "reload"
      \/ req[c].op = "start" /\ call[c].op = "start"
      \/ req[c].op \in {"stop", "delete"} /\ call[c].op = "stop"
  BY <1>3, <1>5 DEF Stepping, Controlled, Handled, Handler, RowOps, Edits
<1>7. StartAfterStop(c) \/ StopReturns(c) \/ ReloadRestarts(c)
  BY <1>6 DEF Resume, SetupReturns, SetupFails, DisconnectGoesOn, LinkClosed,
              Stepping, Controlled, Orderly, Order, CallOK, ConnectionOps
<1>8. CASE StartAfterStop(c)
  <2>1. PICK x \in Enablements, f \in Configs :
          x = call[c].enablement /\ f = call[c].config
          /\ call[c].pc = "stopping" /\ StartEffect(c, x, f)
    BY <1>8, StartsAgainEffect DEF Stepping, Controlled
  <2>2. call[c].op = "start" /\ req[c].op = "start" /\ x = e
    BY <1>3, <1>4, <1>6, <1>8, <2>1, OpKinds DEF StartAfterStop
  <2>3. f = ConfigOf(e, row[e].fields)
    BY <1>5, <2>1, <2>2 DEF Knows
  <2> QED
    BY <1>1, <1>3, <1>4, <1>5, <2>1, <2>2, <2>3, StartingStep
<1>9. CASE StopReturns(c)
  <2>1. PICK x \in Enablements : x = call[c].enablement /\ StopEffect(c, x)
    BY <1>9, StoppedEffect DEF Stepping, Controlled
  <2>2. req[c].op \in {"stop", "delete"} /\ x = e
    BY <1>3, <1>4, <1>6, <1>9, <2>1 DEF StopReturns
  <2>3. IF req[c].op = "delete" THEN row[e].state # "unborn" ELSE Live(e)
    BY <1>5 DEF Knows
  <2> QED
    BY <1>1, <1>3, <1>4, <1>5, <2>1, <2>2, <2>3, StoppingStep
<1>10. CASE ReloadRestarts(c)
  <2>1. PICK x \in Enablements, f \in Configs :
          x = call[c].enablement /\ f = call[c].config
          /\ call[c].pc = "stopping" /\ ReloadEffect(c, x, f)
    BY <1>10, ReloadedEffect DEF Stepping, Controlled
  <2>2. call[c].op = "reload" /\ req[c].op \in Edits /\ x = e
    BY <1>3, <1>4, <1>6, <1>10, <2>1 DEF ReloadRestarts
  <2>3. f = ConfigOf(e, row[e].fields)
    BY <1>5, <2>1, <2>2 DEF Knows
  <2> QED
    BY <1>1, <1>3, <1>4, <1>5, <2>1, <2>2, <2>3, ReloadingStep
<1> QED
  BY <1>7, <1>8, <1>9, <1>10

-----------------------------------------------------------------------------
(* Requests for the connection, and the restore.                           *)

\* the step is of c's request for the connection, the restore included, or
\* begins it
ForConnection(c) ==
    /\ \A d \in Calls \ {c} : req'[d] = req[d]
    /\ req[c].e = None
    /\ req[c].at # "none" \/ req'[c].at # "none"
    /\ req'[c].e = None

\* Then no other request is at work.
LEMMA AloneThen ==
    ASSUME Stepping, NEW c \in Calls, ForConnection(c)
    PROVE  \A d \in Calls : /\ req[d].e = None /\ req'[d].e = None
                            /\ d # c => req'[d].at = "none" /\ req'[d].op = "none"
<1>1. ASSUME NEW d \in Calls \ {c}, req[d].at # "none" PROVE FALSE
  BY <1>1 DEF ForConnection, Stepping, Controlled, Handled, OneAtATime
<1>2. \A d \in Calls \ {c} : req[d].op = "none" /\ req[d].e = None
  BY <1>1 DEF Stepping, Controlled, Handled, Requests, Request
<1> QED
  BY <1>1, <1>2 DEF ForConnection

\* A request for the connection, or the end of the restore.
LEMMA ConnectionStep ==
    ASSUME Stepping, NEW c \in Calls, ForConnection(c), StepOf(c),
           UNCHANGED <<row, source, asked>>, server' = "up", req'[c].op # "restore",
           \A x \in Enablements : Config(x)' \in {None, Config(x)}, Handler(c)'
    PROVE  Leaves
<1>1. \A d \in Calls : /\ req[d].e = None /\ req'[d].e = None
                       /\ d # c => req'[d].at = "none" /\ req'[d].op = "none"
  BY AloneThen
<1>2. \A d \in Calls : Handler(d)'
  BY DEF ForConnection, StepOf, Handler, Stepping, Controlled, Handled
<1>3. Serving'
  BY <1>1 DEF Serving
<1>4. ASSUME NEW x \in Enablements PROVE Stands(x)'
  <2>1. x # None /\ Stands(x)
    BY ConstantsAssumption DEF Stepping, Controlled, Agreed
  <2>2. Config(x) # None => /\ Live(x) /\ (Fresh(x) \/ Config(x) \in Sourceless)
                            /\ asked[x] # "rest"
    BY <1>1, <2>1 DEF Stands
  <2> QED
    BY <2>2 DEF Stands, Live, Fresh, ConfigOf
<1> QED
  BY <1>1, <1>2, <1>3, <1>4, ConstantsAssumption DEF Agreed, Leaves

\* A step of the restore.
LEMMA RestoreStep ==
    ASSUME Stepping, NEW c \in Calls, ForConnection(c), StepOf(c),
           server' = "restoring", req'[c].op = "restore", Handler(c)', Restored(c)'
    PROVE  Leaves
<1>1. \A d \in Calls : /\ req[d].e = None /\ req'[d].e = None
                       /\ d # c => req'[d].at = "none" /\ req'[d].op = "none"
  BY AloneThen
<1>2. \A d \in Calls : Handler(d)'
  BY DEF ForConnection, StepOf, Handler, Stepping, Controlled, Handled
<1>3. Serving'
  BY <1>1 DEF Serving
<1>4. \A x \in Enablements : Stands(x)'
  BY DEF Restored, Stands, Enabled, Stepping, Requests, Flagged
<1> QED
  BY <1>1, <1>2, <1>3, <1>4, ConstantsAssumption DEF Agreed, Leaves

LEMMA ConnectStep ==
    ASSUME Stepping, NEW c \in Calls, Connection(c)
    PROVE  Leaves
<1>1. PICK op \in ConnectionOps :
        /\ server = "up" /\ req[c].at = "none" /\ UNCHANGED <<row, source, server, asked>>
        /\ IF op = "connect" THEN BeginConnect(c) ELSE BeginDisconnect(c)
        /\ req' = [req EXCEPT ![c] = [NoReq EXCEPT !.op = op, !.at = "runtime"]]
  BY DEF Connection, Arrives, db
<1>2. ReqComes(c, op, None, "runtime")
  BY <1>1, NewConnectionComes
     DEF Stepping, Controlled, Handled, Requests, ControlTypeOK, ReqTyped, ReqRec
<1>3. ForConnection(c)
  BY <1>1, <1>2 DEF ForConnection, ReqComes, Stepping, Controlled, Handled, Requests, Request
<1>4. ConnectionEffect(c, op)
  BY <1>1, ConnectionEffects DEF Stepping, Controlled
<1>5. Handler(c)'
  BY <1>2, <1>4, OpKinds DEF ReqComes, ConnectionEffect, Handler, InProgress, ConnectionOps
<1> QED
  BY <1>1, <1>2, <1>3, <1>4, <1>5, ConnectionStep DEF ReqComes, ConnectionEffect, ConnectionOps

\* The answer to such a request.
LEMMA ConnectionAnswerStep ==
    ASSUME Stepping, NEW c \in Calls, Back(c, {"ok", "error"}), Answer(c), req[c].e = None,
           UNCHANGED <<row, source, asked>>, server' = "up"
    PROVE  Leaves
<1>1. /\ req[c].at = "runtime" /\ UNCHANGED <<active, plugin>>
      /\ call' = [call EXCEPT ![c] = Idle]
  BY DEF Back
<1>2. ReqEnds(c)
  BY AnswerEnds DEF Stepping, Controlled, Handled, Requests, ControlTypeOK, ReqTyped, ReqRec
<1>3. StepOf(c) /\ call'[c].pc = "idle"
  BY <1>1 DEF StepOf, Idle, Stepping, Controlled, Orderly, Work, Registry, Typed, TypeOK
<1>4. ForConnection(c) /\ Handler(c)'
  BY <1>1, <1>2, <1>3 DEF ForConnection, ReqEnds, Handler
<1>5. \A x \in Enablements : Config(x)' = Config(x)
  BY <1>1, ConfigKept
<1> QED
  BY <1>2, <1>3, <1>4, <1>5, ConnectionStep DEF ReqEnds

\* The start of the process.
LEMMA StartupStep ==
    ASSUME Stepping, Startup
    PROVE  Leaves
<1>1. /\ \A c \in Calls : req[c].at = "none" /\ req[c].op = "none" /\ req[c].e = None
      /\ \A e \in Enablements : Config(e) = None
      /\ UNCHANGED <<row, source, asked>>
  BY DEF Startup, db, Stepping, Controlled, Handled, Requests, Request, Agreed, Serving
<1>2. CASE server' = "up" /\ UNCHANGED <<vars, req>>
  <2>1. \A d \in Calls : Handler(d)'
    BY <1>2 DEF Handler, vars, Stepping, Controlled, Handled
  <2>2. \A x \in Enablements : Config(x)' = None
    BY <1>1, <1>2, ConfigKept DEF vars
  <2> QED
    BY <1>1, <1>2, <2>1, <2>2, ConstantsAssumption DEF Agreed, Serving, Stands, Leaves
<1>3. ASSUME NEW c \in Calls, server' = "restoring", BeginConnect(c),
             req' = [req EXCEPT ![c] = [NoReq EXCEPT !.op = "restore", !.at = "runtime"]]
      PROVE  Leaves
  <2>1. ReqComes(c, "restore", None, "runtime")
    BY <1>3, NewConnectionComes
       DEF Stepping, Controlled, Handled, Requests, ControlTypeOK, ReqTyped, ReqRec
  <2>2. ConnectionEffect(c, "connect")
    BY <1>3, ConnectionEffects DEF Stepping, Controlled, ConnectionOps
  <2>3. ForConnection(c) /\ Handler(c)'
    BY <1>1, <2>1, <2>2, OpKinds DEF ForConnection, ReqComes, ConnectionEffect, Handler,
                                     InProgress, ConnectionOps
  <2>4. Restored(c)'
    BY <1>1, <2>1, <2>2 DEF ReqComes, ConnectionEffect, Restored
  <2> QED
    BY <1>3, <2>1, <2>2, <2>3, <2>4, RestoreStep DEF ReqComes, ConnectionEffect
<1> QED
  BY <1>2, <1>3 DEF Startup
\* The restore is at work alone, while the process is restoring.
LEMMA RestoreNow ==
    ASSUME Stepping, NEW c \in Calls, req[c].op = "restore"
    PROVE  req[c].at # "none" /\ req[c].e = None /\ server = "restoring" /\ Restored(c)
BY OpKinds, ConstantsAssumption
   DEF Stepping, Controlled, Handled, Requests, Request, Agreed, Serving, ConnectionOps

LEMMA ConnectedStep ==
    ASSUME Stepping, NEW c \in Calls, RestoreConnected(c)
    PROVE  Leaves
<1>1. /\ req[c].op = "restore" /\ req[c].at = "runtime" /\ Back(c, {"ok", "error"})
      /\ UNCHANGED <<row, source, asked>> /\ UNCHANGED <<conn, active, plugin>>
      /\ call' = [call EXCEPT ![c] = Idle] /\ call[c].pc \in {"ok", "error"}
  BY DEF RestoreConnected, db, Back
<1>2. req[c].e = None /\ server = "restoring" /\ Restored(c)
  BY <1>1, RestoreNow
<1>3. req \in [Calls -> ReqRec] /\ ReqTyped
  BY DEF Stepping, Controlled, Handled, Requests, ControlTypeOK, ReqTyped, ReqRec
<1>4. StepOf(c) /\ call'[c].pc = "idle"
  BY <1>1 DEF StepOf, Idle, Stepping, Controlled, Orderly, Work, Registry, Typed, TypeOK
<1>5. \A x \in Enablements : Config(x)' = Config(x)
  BY <1>1, ConfigKept
<1>6. CanStart' <=> CanStart
  BY <1>1 DEF conn, CanStart
<1>7. ASSUME ReqMoves(c, "sources"), server' = server, Restored(c)' PROVE Leaves
  <2>1. ForConnection(c) /\ Handler(c)'
    BY <1>1, <1>2, <1>4, <1>7 DEF ForConnection, ReqMoves, Handler
  <2> QED
    BY <1>1, <1>2, <1>4, <1>7, <2>1, RestoreStep DEF ReqMoves
<1>8. \A x : x \in Enabled' <=> x \in Enabled
  BY <1>1 DEF Enabled, Live
<1>9. \A x \in Enablements : Fresh(x)' <=> Fresh(x)
  BY <1>1, <1>5 DEF Fresh, ConfigOf
<1>10. CASE /\ call[c].op = "connect" /\ call[c].pc = "ok" /\ server' = server
            /\ req' = [req EXCEPT ![c].at = "sources", ![c].todo = Enabled]
  <2>1. PICK q : q = [req[c] EXCEPT !.at = "sources"]
    OBVIOUS
  <2>2. PICK r : r = [q EXCEPT !.todo = Enabled]
    OBVIOUS
  <2>3. req' = [req EXCEPT ![c] = r]
    BY <1>3, <1>10, <2>1, <2>2
  <2>4. q \in ReqRec /\ q.at = "sources" /\ q.op = req[c].op /\ q.e = req[c].e
        /\ q.source = req[c].source
    BY <1>3, <2>1 DEF ReqRec, Stages
  <2>5. r.at = "sources" /\ r.op = req[c].op /\ r.e = req[c].e
        /\ r.source = req[c].source /\ r.todo = Enabled
    BY <2>2, <2>4 DEF ReqRec
  <2>6. ReqMoves(c, "sources") /\ req'[c].todo = Enabled
    BY <1>3, <2>3, <2>5 DEF ReqMoves
  <2>7. Restored(c)'
    BY <1>1, <1>2, <1>5, <1>6, <1>8, <1>10, <2>6 DEF Restored, ReqMoves
  <2> QED
    BY <1>7, <1>10, <2>6, <2>7
<1>11. CASE server' = "up" /\ Answer(c)
  BY <1>1, <1>2, <1>11, ConnectionAnswerStep
<1>12. CASE call[c].op = "start" /\ GoesTo(c, "sources") /\ server' = server
  <2>1. ReqMoves(c, "sources") /\ req'[c].todo = req[c].todo
    BY <1>3, <1>12, GoesToMoves DEF Stages
  <2>2. Restored(c)'
    BY <1>2, <1>5, <1>6, <1>8, <1>9, <1>12, <2>1 DEF Restored, ReqMoves
  <2> QED
    BY <1>7, <1>12, <2>1, <2>2
<1> QED
  BY <1>10, <1>11, <1>12 DEF RestoreConnected

LEMMA RestoreStartStep ==
    ASSUME Stepping, NEW c \in Calls, RestoreStarts(c)
    PROVE  Leaves
<1>1. req[c].op = "restore" /\ req[c].at = "sources" /\ UNCHANGED <<row, source, asked>>
  BY DEF RestoreStarts, db
<1>2. /\ req[c].e = None /\ server = "restoring" /\ Restored(c)
      /\ call[c].pc = "idle"
  BY <1>1, RestoreNow DEF Stepping, Controlled, Handled, Handler
<1>3. req \in [Calls -> ReqRec] /\ ReqTyped
  BY DEF Stepping, Controlled, Handled, Requests, ControlTypeOK, ReqTyped, ReqRec
<1>4. ASSUME NEW e \in req[c].todo, server' = server,
             BeginStart(c, e, ConfigOf(e, row[e].fields)),
             req' = [req EXCEPT ![c].at = "runtime", ![c].todo = @ \ {e}]
      PROVE  Leaves
  <2>1. e \in Enablements /\ e \in Enabled /\ Config(e) = None /\ CanStart
    BY <1>1, <1>2, <1>3, <1>4 DEF Restored, ReqRec
  <2>2. PICK f \in Configs : f = ConfigOf(e, row[e].fields)
    BY <2>1, ConfigOfType
  <2>3. StartEffect(c, e, f)
    BY <1>4, <2>1, <2>2, StartsEffect DEF Stepping, Controlled
  <2>4. PICK q : q = [req[c] EXCEPT !.at = "runtime"]
    OBVIOUS
  <2>5. PICK r : r = [q EXCEPT !.todo = req[c].todo \ {e}]
    OBVIOUS
  <2>6. q \in ReqRec /\ q.at = "runtime" /\ q.op = req[c].op /\ q.e = req[c].e
        /\ q.source = req[c].source
    BY <1>3, <2>4 DEF ReqRec, Stages
  <2>7. r.at = "runtime" /\ r.op = req[c].op /\ r.e = req[c].e
        /\ r.source = req[c].source /\ r.todo = req[c].todo \ {e}
    BY <2>5, <2>6 DEF ReqRec
  <2>8. req' = [req EXCEPT ![c] = r]
    BY <1>3, <1>4, <2>4, <2>5 DEF ReqRec
  <2>9. ReqMoves(c, "runtime") /\ req'[c].todo = req[c].todo \ {e}
    BY <1>3, <2>7, <2>8 DEF ReqMoves
  <2>10. /\ \A x : x \in Enabled' <=> x \in Enabled
         /\ CanStart' <=> CanStart
         /\ \A x \in Enablements : ConfigOf(x, row[x].fields)' = ConfigOf(x, row[x].fields)
    BY <1>1, <2>3 DEF Enabled, Live, StartEffect, conn, CanStart, ConfigOf
  <2>11. /\ call'[c].pc \in {"ok", "error"} /\ call'[c].op = "start"
         /\ Config(e)' # None <=> e \in Registered
         /\ Config(e)' # None => Config(e)' = f
    BY <2>1, <2>2, <2>3, ConstantsAssumption DEF StartEffect
  <2>12. ASSUME NEW x \in Enablements
         PROVE  IF x \in req'[c].todo
                THEN x \in Enabled' /\ Config(x)' = None
                ELSE /\ Config(x)' # None <=> x \in Enabled' /\ x \in Registered
                     /\ Config(x)' # None => Fresh(x)'
    <3>1. CASE x = e
      BY <2>1, <2>2, <2>9, <2>10, <2>11, <3>1 DEF Fresh
    <3>2. CASE x # e
      <4>1. Config(x)' = Config(x)
        BY <2>3, <3>2 DEF StartEffect, RunsBut
      <4> QED
        BY <1>1, <1>2, <2>9, <2>10, <3>2, <4>1 DEF Restored, Fresh
    <3> QED
      BY <3>1, <3>2
  <2>13. Restored(c)'
    BY <2>1, <2>10, <2>11, <2>12 DEF Restored
  <2>14. ForConnection(c) /\ StepOf(c) /\ Handler(c)'
    BY <1>1, <1>2, <2>3, <2>9, <2>11, OpKinds
       DEF ForConnection, ReqMoves, StartEffect, Handler, ConnectionOps
  <2> QED
    BY <1>1, <1>2, <1>4, <2>9, <2>13, <2>14, RestoreStep DEF ReqMoves
<1>5. CASE req[c].todo = {} /\ Answer(c) /\ server' = "up" /\ UNCHANGED vars
  <2>1. ReqEnds(c)
    BY <1>3, <1>5, AnswerEnds
  <2>2. StepOf(c) /\ call'[c] = call[c] /\ \A x \in Enablements : Config(x)' = Config(x)
    BY <1>5, ConfigKept DEF StepOf, vars
  <2>3. ForConnection(c) /\ Handler(c)'
    BY <1>1, <1>2, <2>1, <2>2 DEF ForConnection, ReqEnds, Handler
  <2> QED
    BY <1>1, <1>5, <2>1, <2>2, <2>3, ConnectionStep DEF ReqEnds
<1> QED
  BY <1>4, <1>5 DEF RestoreStarts

\* The manager goes on with a connect or disconnect.
LEMMA ConnectionResumes ==
    ASSUME Stepping, NEW c \in Calls, Resume(c), UNCHANGED control, req[c].e = None
    PROVE  Leaves
<1>1. UNCHANGED <<row, source, server, req, asked>>
  BY DEF control
<1>2. call[c].pc \in InProgress
  BY DEF Resume, SetupReturns, SetupFails, StartAfterStop, StopReturns, ReloadRestarts,
         DisconnectGoesOn, LinkClosed, Woken, InProgress
<1>3. req[c].at = "runtime" /\ req[c].op \in ConnectionOps \cup {"restore"}
  BY <1>2, ConstantsAssumption DEF Stepping, Controlled, Handled, Handler, InProgress, Requests, Request
<1>4. ForConnection(c)
  BY <1>1, <1>3 DEF ForConnection
<1>5. call[c].op \in ConnectionOps /\ (req[c].op = "restore" => call[c].op = "connect")
  BY <1>2, <1>3, RestoreNow, OpKinds
     DEF Stepping, Controlled, Handled, Handler, InProgress, Restored, ConnectionOps
<1>6. PICK op : op = call[c].op
  OBVIOUS
<1>7. ConnectionEffect(c, op)
  BY <1>5, <1>6, ConnectionEffects
     DEF Resume, StartAfterStop, StopReturns, ReloadRestarts, ConnectionOps, Stepping, Controlled
<1>8. Handler(c)'
  BY <1>1, <1>3, <1>5, <1>6, <1>7, OpKinds DEF ConnectionEffect, Handler, InProgress, ConnectionOps
<1>9. CASE req[c].op = "restore"
  <2>1. server = "restoring" /\ \A x \in Enablements : Config(x) = None
    BY <1>3, <1>5, <1>9, RestoreNow DEF Restored
  <2>2. Restored(c)'
    BY <1>1, <1>3, <1>5, <1>6, <1>7, <1>9, <2>1 DEF ConnectionEffect, Restored
  <2> QED
    BY <1>1, <1>4, <1>7, <1>8, <1>9, <2>1, <2>2, RestoreStep DEF ConnectionEffect
<1>10. CASE req[c].op # "restore"
  <2>1. server = "up"
    <3>1. \A d \in Calls : req[d].op # "restore"
      BY <1>1, <1>4, <1>10, AloneThen
    <3> QED
      BY <1>3, <3>1 DEF Stepping, Controlled, Agreed, Serving, Handled, Requests, ControlTypeOK
  <2> QED
    BY <1>1, <1>4, <1>7, <1>8, <1>10, <2>1, ConnectionStep DEF ConnectionEffect
<1> QED
  BY <1>9, <1>10

-----------------------------------------------------------------------------
(* The steps together.                                                     *)

LEMMA FinishStep ==
    ASSUME Stepping, NEW c \in Calls, Finishes(c)
    PROVE  Leaves
<1>1. /\ req[c].at = "runtime" /\ req[c].op # "restore"
      /\ Back(c, {"ok", "error"}) /\ Answer(c) /\ UNCHANGED server
  BY DEF Finishes, Back
<1>2. \/ req[c].e \in Enablements /\ req[c].op \in RowOps \cup {"delete"}
      \/ req[c].e = None /\ req[c].op \in ConnectionOps
  BY <1>1 DEF Stepping, Controlled, Handled, Requests, Request
<1>3. CASE req[c].e = None /\ req[c].op \in ConnectionOps
  <2>1. UNCHANGED <<row, source, asked>>
    BY <1>3, OpKinds DEF Finishes, db
  <2>2. ForConnection(c)
    <3>1. ReqEnds(c)
      BY <1>1, AnswerEnds
         DEF Stepping, Controlled, Handled, Requests, ControlTypeOK, ReqTyped, ReqRec
    <3> QED
      BY <1>1, <1>3, <3>1 DEF ForConnection, ReqEnds
  <2>3. \A d \in Calls : req[d].op # "restore"
    <3>1. \A d \in Calls \ {c} : req'[d].op = "none" /\ req'[d] = req[d]
      BY <2>2, AloneThen DEF ForConnection
    <3> QED
      BY <1>1, <3>1
  <2>4. server = "up"
    BY <1>1, <2>3 DEF Stepping, Controlled, Agreed, Serving, Handled, Requests, ControlTypeOK
  <2> QED
    BY <1>1, <1>3, <2>1, <2>4, ConnectionAnswerStep
<1> QED
  BY <1>2, <1>3, RowAnswerStep

\* A step that neither a caller nor the registry sees.
LEMMA QuietStep ==
    ASSUME Stepping, UNCHANGED <<call, active, plugin, conn, row, source, server, req, asked>>
    PROVE  Leaves
<1>1. \A x \in Enablements : Config(x)' = Config(x)
  BY ConfigKept
<1>2. \A d \in Calls : Handler(d)'
  BY DEF Handler, Stepping, Controlled, Handled
<1>3. Serving'
  BY <1>1 DEF Serving, Stepping, Controlled, Agreed
<1>4. /\ \A x \in Enablements : /\ Live(x)' <=> Live(x)
                                /\ Fresh(x)' <=> Fresh(x)
                                /\ ConfigOf(x, row[x].fields)' = ConfigOf(x, row[x].fields)
      /\ \A x : x \in Enabled' <=> x \in Enabled
      /\ CanStart' <=> CanStart
      /\ \A d \in Calls : (Pends(d)' <=> Pends(d)) /\ (Marks(d)' <=> Marks(d))
  BY <1>1 DEF Live, Fresh, ConfigOf, Enabled, conn, CanStart, Pends, Marks
<1>5. \A x \in Enablements : Stands(x)'
  BY <1>1, <1>4 DEF Stands, Stepping, Controlled, Agreed
<1>6. \A d \in Calls, x \in Enablements : req'[d].e = x => Knows(d, x)'
  BY <1>1, <1>4 DEF Knows, Stepping, Controlled, Agreed
<1>7. \A d \in Calls : req'[d].op = "restore" => Restored(d)'
  BY <1>1, <1>4 DEF Restored, conn, Stepping, Controlled, Agreed
<1> QED
  BY <1>2, <1>3, <1>5, <1>6, <1>7 DEF Agreed, Leaves

\* A new row: what does not exist does not run, and no request is for it.
LEMMA CreateStep ==
    ASSUME Stepping, NEW e \in Enablements, Create(e)
    PROVE  Leaves
<1>1. /\ server = "up" /\ row[e].state = "unborn"
      /\ UNCHANGED <<source, server, req>> /\ UNCHANGED <<call, active, plugin, conn>>
      /\ \A x \in Enablements \ {e} : row'[x] = row[x] /\ asked'[x] = asked[x]
  BY DEF Create, vars, conn, Stepping, Controlled, Handled, Requests, ControlTypeOK
<1>2. \A x \in Enablements : Config(x)' = Config(x)
  BY <1>1, ConfigKept
<1>3. Config(e) = None
  BY <1>1 DEF Stands, Live, Stepping, Controlled, Agreed
<1>4. \A d \in Calls : req[d].e # e
  BY <1>1 DEF Knows, Live, Stepping, Controlled, Agreed
<1>5. \A d \in Calls : Handler(d)'
  BY <1>1 DEF Handler, Stepping, Controlled, Handled
<1>6. Serving' /\ \A d \in Calls : req'[d].op # "restore"
  BY <1>1, <1>2 DEF Serving, Stepping, Controlled, Agreed
<1>7. \A d \in Calls : (Pends(d)' <=> Pends(d)) /\ (Marks(d)' <=> Marks(d))
  BY <1>1 DEF Pends, Marks
<1>8. ASSUME NEW x \in Enablements, x # e
      PROVE  /\ Live(x)' <=> Live(x)
             /\ Fresh(x)' <=> Fresh(x)
             /\ ConfigOf(x, row[x].fields)' = ConfigOf(x, row[x].fields)
             /\ row'[x] = row[x] /\ asked'[x] = asked[x]
  BY <1>1, <1>2, <1>8 DEF Live, Fresh, ConfigOf
<1>9. \A x \in Enablements : Stands(x)'
  BY <1>1, <1>2, <1>3, <1>7, <1>8 DEF Stands, Stepping, Controlled, Agreed
<1>10. \A d \in Calls, x \in Enablements : req'[d].e = x => Knows(d, x)'
  BY <1>1, <1>2, <1>4, <1>8 DEF Knows, Stepping, Controlled, Agreed
<1> QED
  BY <1>5, <1>6, <1>9, <1>10 DEF Agreed, Leaves

LEMMA GoesOn ==
    ASSUME Stepping, [RuntimeGoesOn]_allVars
    PROVE  Leaves
<1>1. CASE \E c \in Calls : Resume(c) /\ UNCHANGED control
  BY <1>1, RowResumes, ConnectionResumes
<1>2. CASE UNCHANGED <<call, active, plugin, conn>> /\ UNCHANGED control
  BY <1>2, QuietStep DEF control
<1> QED
  BY <1>1, <1>2 DEF RuntimeGoesOn, TaskEnds, WorkerReturns, LinkLost, allVars, vars, control, conn

\* Every step of a process that goes on leaves requests, tables and manager in
\* agreement.
LEMMA AgreedStep ==
    ASSUME Stepping, [ControlNext /\ ~Crash]_allVars
    PROVE  Leaves
<1>1. ASSUME NEW c \in Calls, Handles(c) PROVE Leaves
  BY <1>1, FoundStep, DeleteStep, ConnectStep, PutStep, SourceStep, CheckStep, RowReadStep, SourcesReadStep,
     ReloadStep, StartStep, StopStep, FinishStep, ConnectedStep, RestoreStartStep DEF Handles
<1> QED
  BY <1>1, CreateStep, StartupStep, GoesOn DEF ControlNext

\* The handlers call the manager as Next has it called.
LEMMA CallsManager ==
    ASSUME Controlled, [ControlNext /\ ~Crash]_allVars
    PROVE  [Next]_vars
<1>1. ASSUME NEW e \in Enablements, NEW v \in Versions PROVE ConfigOf(e, v) \in Configs
  BY ControlAssumption DEF ConfigOf
<1>2. /\ row \in [Enablements -> RowRec] /\ req \in [Calls -> ReqRec]
      /\ \A e \in Enablements : row[e].fields \in Versions
  BY DEF Controlled, Handled, Requests, ControlTypeOK, RowRec, ReqRec
<1>3. ASSUME NEW c \in Calls, req[c].at \in {"act", "stop"}
      PROVE  req[c].e \in Enablements /\ (req[c].at = "act" => req[c].config \in Configs)
  BY <1>3, OpKinds DEF Controlled, Handled, Requests, Request, ConnectionOps
<1>4. ASSUME NEW c \in Calls, Handles(c) PROVE Next \/ UNCHANGED vars
  <2>1. CASE Reloads(c) \/ Starts(c) \/ Stops(c)
    <3>1. req[c].at \in {"act", "stop"}
      BY <2>1 DEF Reloads, Starts, Stops
    <3> QED
      BY <1>3, <2>1, <3>1 DEF Reloads, Starts, Stops, Next, Begin, Controlled, Handled, Requests, Request
  <2>2. CASE RestoreStarts(c)
    <3>1. req[c].todo \subseteq Enablements
      BY <1>2 DEF ReqRec
    <3> QED
      BY <1>1, <1>2, <2>2, <3>1 DEF RestoreStarts, Next, Begin
  <2>3. CASE Finishes(c) \/ RestoreConnected(c)
    BY <2>3 DEF Finishes, RestoreConnected, Back, Next, Return
  <2>4. CASE Connection(c) \/ \E e \in Enablements : Deletes(c, e)
    BY <2>4 DEF Connection, Deletes, Next, Begin
  <2>5. CASE \/ \E e \in Enablements, op \in RowOps : Found(c, op, e)
             \/ PutWrites(c) \/ SourceWrites(c) \/ ChecksRunning(c) \/ ReadsRow(c)
             \/ ReadsSources(c)
    BY <2>5 DEF Found, PutWrites, SourceWrites, ChecksRunning, ReadsRow, ReadsSources
  <2> QED
    BY <1>4, <2>1, <2>2, <2>3, <2>4, <2>5 DEF Handles
<1> QED
  BY <1>4 DEF ControlNext, Create, Startup, RuntimeGoesOn, Next, Begin, allVars, vars

\* One request at a time is all the discipline the manager needs.
LEMMA Disciplines ==
    ASSUME Handled
    PROVE  Disciplined
<1> SUFFICES ASSUME NEW c \in Calls, NEW d \in Calls, c # d, Busy(c), Busy(d)
             PROVE  /\ {call[c].op, call[d].op} \cap ConnectionOps = {}
                    /\ call[c].enablement # call[d].enablement
  BY DEF Disciplined
<1>1. /\ req[c].at = "runtime" /\ req[d].at = "runtime"
      /\ req[c].e # None /\ req[d].e # None /\ req[c].e # req[d].e
  BY DEF Busy, Handler, OneAtATime, Handled
<1>2. \A b \in {c, d} : /\ call[b].enablement = req[b].e
                        /\ call[b].op \in {"reload", "start", "stop"}
  <2> SUFFICES ASSUME NEW b \in {c, d}
               PROVE  call[b].enablement = req[b].e /\ call[b].op \in {"reload", "start", "stop"}
    OBVIOUS
  <2>1. req[b].op \in RowOps \cup {"delete"}
    BY <1>1 DEF Handled, Requests, Request
  <2> QED
    BY <1>1, <2>1 DEF Handled, Handler, RowOps, Edits
<1> QED
  BY <1>1, <1>2 DEF ConnectionOps

LEMMA DisciplinesAgain == Handled' => Disciplined'
<1>1. Handled => Disciplined
  BY Disciplines
<1> QED
  BY <1>1, PTL

LEMMA ControlledInit == ControlInit => Controlled
<1> SUFFICES ASSUME ControlInit PROVE Controlled
  OBVIOUS
<1>1. Orderly /\ Requests
  BY OrderlyInit, RequestsInit DEF ControlInit
<1>2. /\ server = "down" /\ \A c \in Calls : req[c] = NoReq /\ call[c] = Idle
      /\ \A e \in Enablements : active[e] = None
  BY DEF ControlInit, Init
<1>3. /\ NoReq.at = "none" /\ NoReq.op = "none" /\ NoReq.e = None
      /\ Idle.pc = "idle"
  BY DEF NoReq, Idle
<1>4. Handled
  BY <1>1, <1>2, <1>3 DEF Handled, OneAtATime, Handler
<1>5. Agreed
  BY <1>2, <1>3, ConstantsAssumption DEF Agreed, Serving, Stands, Config
<1> QED
  BY <1>1, <1>4, <1>5 DEF Controlled

\* A crash leaves the process as it starts, whatever the rows are by then.
LEMMA OrderlyAgain == Init' => Orderly'
BY OrderlyInit, PTL

LEMMA CrashStep ==
    ASSUME Requests', Crash
    PROVE  Controlled'
<1>1. Init'
  BY DEF Crash, Init
<1>2. /\ server' = "down" /\ \A c \in Calls : req'[c] = NoReq /\ call'[c] = Idle
      /\ \A e \in Enablements : active'[e] = None
  BY DEF Crash
<1>3. /\ NoReq.at = "none" /\ NoReq.op = "none" /\ NoReq.e = None
      /\ Idle.pc = "idle"
  BY DEF NoReq, Idle
<1>4. Handled'
  BY <1>2, <1>3 DEF Handled, OneAtATime, Handler
<1>5. Agreed'
  BY <1>2, <1>3, ConstantsAssumption DEF Agreed, Serving, Stands, Config
<1> QED
  BY <1>1, <1>4, <1>5, OrderlyAgain DEF Controlled

LEMMA ControlledStep == Controlled /\ [ControlNext /\ OneAtATime']_allVars => Controlled'
<1> SUFFICES ASSUME Controlled, [ControlNext /\ OneAtATime']_allVars
             PROVE  Controlled'
  OBVIOUS
<1>1. Requests'
  BY RequestsStep DEF Controlled, Handled
<1>2. OneAtATime'
  BY DEF Controlled, Handled, OneAtATime, allVars
<1>3. CASE [ControlNext /\ ~Crash]_allVars
  <2>1. [Next]_vars
    BY <1>3, CallsManager
  <2>2. Typed'
    BY <2>1, WorkStep DEF Controlled, Orderly, Work, Registry
  <2>3. Leaves
    BY <1>1, <1>2, <1>3, <2>2, AgreedStep DEF Stepping
  <2>4. Handled'
    BY <1>1, <1>2, <2>3 DEF Leaves, Handled
  <2>5. Disciplined'
    BY <2>4, DisciplinesAgain
  <2>6. Orderly'
    BY <2>1, <2>5, OrderlyStep DEF Controlled
  <2> QED
    BY <2>3, <2>4, <2>6 DEF Leaves, Controlled
<1>4. CASE Crash
  BY <1>1, <1>4, CrashStep
<1> QED
  BY <1>3, <1>4

-----------------------------------------------------------------------------
(* What clients that send one request at a time can rely on.               *)

\* A deleted enablement leaves no plugin behind: the delete writes only when
\* nothing runs, and nothing is started from a row that is gone.
THEOREM DeletedIsGone == OneAtATimeSpec => []NoGhost
<1>1. Controlled => NoGhost
  <2> SUFFICES ASSUME Controlled, NEW e \in Enablements, active[e] # None
               PROVE  Live(e)
    BY DEF NoGhost
  <2>1. Config(e) # None
    BY HasConfig DEF Controlled
  <2> QED
    BY <2>1 DEF Controlled, Agreed, Stands
<1> QED
  BY <1>1, ControlledInit, ControlledStep, PTL DEF OneAtATimeSpec

\* The flag of a row is what was asked for last, and what was last asked to rest
\* does not run, once requests are answered, whatever PUTs set the flag: a start
\* is marked by the time it is answered, a stop leaves neither mark nor plugin,
\* and no reload, restart or reconnect brings one back.
THEOREM FlagsFollowRequests == OneAtATimeSpec => []FlagsAgree
<1>1. Controlled => FlagsAgree
  <2> SUFFICES ASSUME Controlled, NEW e \in Enablements, Quiet(e)
               PROVE  /\ row[e].enabled <=> asked[e] = "run"
                      /\ active[e] # None => asked[e] # "rest"
    BY DEF FlagsAgree
  <2>1. row[e].enabled <=> asked[e] = "run"
    BY DEF Controlled, Handled, Requests, Flagged
  <2>2. \A c \in Calls : req[c].e # e
    BY ConstantsAssumption DEF Quiet, Controlled, Handled, Requests, Request
  <2>3. ASSUME active[e] # None PROVE asked[e] # "rest"
    <3>1. Config(e) # None
      BY <2>3, HasConfig DEF Controlled
    <3> QED
      BY <2>2, <3>1 DEF Controlled, Agreed, Stands
  <2> QED
    BY <2>1, <2>3
<1> QED
  BY <1>1, ControlledInit, ControlledStep, PTL DEF OneAtATimeSpec

\* Edits are in force once they are answered: the reload reads what was
\* committed, and hands it to the worker that goes on.
THEOREM EditsReachWorkers == OneAtATimeSpec => []EditsInForce
<1>1. Controlled => EditsInForce
  <2> SUFFICES ASSUME Controlled, NEW e \in Enablements, Quiet(e), Works(e)
               PROVE  plugin[active[e]].config = ConfigOf(e, row[e].fields)
    BY DEF EditsInForce
  <2>1. PICK t \in Tasks : /\ active[e] # None /\ t \in plugin[active[e]].tasks
                           /\ task[t].state = "live" /\ task[t].config \notin Sourceless
    BY DEF Works
  <2>2. \A c \in Calls : req[c].e # e
    BY ConstantsAssumption DEF Quiet, Controlled, Handled, Requests, Request
  <2>3. Config(e) # None /\ Config(e) = plugin[active[e]].config
    BY <2>1, HasConfig DEF Controlled, Config
  <2>4. ~Reloading(active[e])
    BY <2>1, <2>2, ReloaderOf
  <2>5. task[t] = Worker(e, plugin[active[e]].queue, plugin[active[e]].config)
    BY <2>1, <2>4 DEF Controlled, Orderly, Work, RegisteredWorks, Done
  <2>6. Config(e) \notin Sourceless
    BY <2>1, <2>3, <2>5 DEF Worker
  <2> QED
    BY <2>2, <2>3, <2>6 DEF Controlled, Agreed, Stands, Fresh
<1> QED
  BY <1>1, ControlledInit, ControlledStep, PTL DEF OneAtATimeSpec

\* A restore that has its connection starts exactly what is enabled and of a
\* known type, each with its committed configuration, whatever the last run of
\* the process was doing when it ended.
THEOREM RestoreStartsEnabled == OneAtATimeSpec => RestoreExact
<1> DEFINE Exact == server = "restoring" /\ server' = "up" /\ connected =>
         \A e \in Enablements :
           /\ active[e] # None <=> (Live(e) /\ row[e].enabled /\ e \in Registered)
           /\ active[e] # None =>
                plugin[active[e]].config = ConfigOf(e, row[e].fields)
<1>1. Controlled /\ [ControlNext /\ OneAtATime']_allVars => [Exact]_allVars
  <2> SUFFICES ASSUME Controlled, ControlNext, server = "restoring", server' = "up", connected,
                      NEW e \in Enablements
               PROVE  /\ active[e] # None <=> (Live(e) /\ row[e].enabled /\ e \in Registered)
                      /\ active[e] # None =>
                           plugin[active[e]].config = ConfigOf(e, row[e].fields)
    OBVIOUS
  <2>1. PICK c \in Calls : RestoreConnected(c) \/ RestoreStarts(c)
    BY DEF ControlNext, Handles, Create, Startup, Crash, RuntimeGoesOn, control, Deletes, Found,
           Connection, PutWrites, SourceWrites, ChecksRunning, ReadsRow, ReadsSources, Reloads,
           Starts, Stops, Finishes
  <2>2. req[c].op = "restore" /\ Restored(c)
    BY <2>1 DEF RestoreConnected, RestoreStarts, Controlled, Agreed
  <2>3. req[c].at = "sources" /\ req[c].todo = {}
    <3>1. CASE RestoreConnected(c)
      BY <2>2, <3>1 DEF RestoreConnected, Restored
    <3>2. CASE RestoreStarts(c)
      BY <3>2 DEF RestoreStarts
    <3> QED
      BY <2>1, <3>1, <3>2
  <2>4. /\ Config(e) # None <=> e \in Enabled /\ e \in Registered
        /\ Config(e) # None => Fresh(e)
    BY <2>2, <2>3 DEF Restored
  <2>5. (Config(e) = None) <=> (active[e] = None)
    BY HasConfig DEF Controlled
  <2> QED
    BY <2>4, <2>5 DEF Enabled, Fresh, Config
<1> QED
  BY <1>1, ControlledInit, ControlledStep, PTL DEF OneAtATimeSpec, RestoreExact

=============================================================================
