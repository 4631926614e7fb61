----------------------------- MODULE StoreProofs -----------------------------
(***************************************************************************)
(* Theorems about Store, for any rows and any uploads: types, the schema,  *)
(* the files, the certificate of a connection, and that the table of the   *)
(* database implements DurableTable.                                       *)
(***************************************************************************)
EXTENDS Store, TLAPS

USE StoreAssumption DEF Files

RowValues == Values \cup {"absent"}

-----------------------------------------------------------------------------
(* Types. *)

LEMMA TypesAtStart == ASSUME StoreInit PROVE StoreTypeOK
<1>1. row \in [Rows -> RowValues]
  BY DEF StoreInit, Past, RowValues, Values
<1>2. cols \in SUBSET Columns
  BY DEF StoreInit, Current, OldSchemas, Columns
<1> QED
  BY <1>1, <1>2 DEF StoreInit, StoreTypeOK, RowValues, NoDraft, NoConn, NoLink

LEMMA ClearedType ==
  ASSUME NEW rows \in [Rows -> RowValues]
  PROVE  Cleared(rows) \in [Rows -> RowValues]
BY DEF Cleared, RowValues

LEMMA WrittenType == \A old : Written(old) \subseteq RowValues
BY DEF Written, RowValues, Values

LEMMA AddedIsColumn == \A k \in 1..3 : Added[k] \in Current
BY DEF Added, Current

LEMMA AppliedType ==
  ASSUME draft \in [cols : SUBSET Columns, row : [Rows -> RowValues]], NEW k \in 1..5
  PROVE  Applied(k) \in [cols : SUBSET Columns, row : [Rows -> RowValues]]
<1>1. draft.cols \in SUBSET Columns /\ draft.row \in [Rows -> RowValues]
  OBVIOUS
<1>2. Cleared(draft.row) \in [Rows -> RowValues]
  BY <1>1, ClearedType
<1>3. k <= 3 => Added[k] \in Columns
  BY AddedIsColumn DEF Columns
<1> QED
  BY <1>1, <1>2, <1>3 DEF Applied

LEMMA SetupType ==
  ASSUME NEW path \in Certs \cup {None}, NEW named \in Certs \cup {None},
         NEW restored \in BOOLEAN, Setup(path, named, restored)
  PROVE  link' \in [up : BOOLEAN, cert : Certs \cup {None},
                    named : Certs \cup {None}, restored : BOOLEAN]
<1>1. CASE link' = NoLink
  BY <1>1 DEF NoLink
<1>2. CASE link' = [up |-> TRUE, cert |-> path, named |-> named, restored |-> restored]
  BY <1>2
<1> QED
  BY <1>1, <1>2 DEF Setup

LEMMA TypesKept ==
  ASSUME StoreTypeOK, [StoreNext]_vars
  PROVE  StoreTypeOK'
<1> USE DEF StoreTypeOK
<1>1. CASE Startup
  BY <1>1 DEF Startup, directory, Columns, Current
<1>2. CASE Executes
  <2>1. draft' \in [cols : SUBSET Columns, row : [Rows -> RowValues]]
    <3>1. draft \in [cols : SUBSET Columns, row : [Rows -> RowValues]]
      BY DEF RowValues
    <3>2. step \in 1..5
      BY <1>2 DEF Executes
    <3> HIDE DEF StoreTypeOK
    <3>3. Applied(step) \in [cols : SUBSET Columns, row : [Rows -> RowValues]]
      BY <3>1, <3>2, AppliedType
    <3> QED
      BY <1>2, <3>1, <3>3 DEF Executes
  <2> QED BY <1>2, <2>1 DEF Executes, directory, RowValues
<1>3. CASE Commits
  BY <1>3 DEF Commits, NoDraft, directory
<1>4. CASE Restores
  <2> DEFINE path == IF certPath # None /\ Exists(certPath) THEN certPath ELSE None
  <2>1. path \in Certs \cup {None}
    OBVIOUS
  <2>2. Setup(path, certPath, TRUE)
    BY <1>4 DEF Restores
  <2>3. link' \in [up : BOOLEAN, cert : Certs \cup {None},
                   named : Certs \cup {None}, restored : BOOLEAN]
    BY <2>1, <2>2, SetupType
  <2> QED
    BY <1>4, <2>3 DEF Restores, directory
<1>5. CASE Crash
  BY <1>5 DEF Crash, NoDraft, NoConn, NoLink
<1>6. ASSUME NEW r \in Rows, WritesRow(r) PROVE StoreTypeOK'
  <2>1. PICK v \in Written(row[r]) : row' = [row EXCEPT ![r] = v]
    BY <1>6 DEF WritesRow
  <2>2. v \in RowValues
    BY WrittenType
  <2> QED
    BY <1>6, <2>1, <2>2 DEF WritesRow, RowValues, directory
<1>7. ASSUME NEW f \in Files, Saves(f) \/ Unlinks(f) PROVE StoreTypeOK'
  BY <1>7 DEF Saves, Unlinks
<1>8. CASE PutConfig
  BY <1>8 DEF PutConfig, directory
<1>9. CASE ReadsConfig
  BY <1>9 DEF ReadsConfig, NoConn, directory
<1>10. CASE Resolves
  <2>1. conn' \in [at : {"none", "resolve", "setup"}, named : Certs \cup {None},
                   path : Certs \cup {None}]
    BY <1>10 DEF Resolves, NoConn
  <2>2. CASE link' = NoLink
    BY <1>10, <2>1, <2>2 DEF Resolves, NoLink, directory
  <2>3. CASE link' = link
    BY <1>10, <2>1, <2>3 DEF Resolves, directory
  <2> QED
    BY <1>10, <2>2, <2>3 DEF Resolves
<1>11. CASE SetupReturns
  <2>1. link' \in [up : BOOLEAN, cert : Certs \cup {None},
                   named : Certs \cup {None}, restored : BOOLEAN]
    BY <1>11, SetupType DEF SetupReturns
  <2> QED
    BY <1>11, <2>1 DEF SetupReturns, NoConn, directory
<1>12. CASE Disconnects
  BY <1>12 DEF Disconnects, NoLink, directory
<1>13. CASE UNCHANGED vars
  BY <1>13 DEF vars
<1> QED
  BY <1>1, <1>2, <1>3, <1>4, <1>5, <1>6, <1>7, <1>8, <1>9, <1>10, <1>11, <1>12,
     <1>13 DEF StoreNext, UploadCert, UploadPackage, RemoveCert, RemovePackage

\* The variables of Store keep their types, for any rows and uploads.
THEOREM StoreTypeCorrect == StoreSpec => []StoreTypeOK
  BY TypesAtStart, TypesKept, PTL DEF StoreSpec

-----------------------------------------------------------------------------
(* The schema.  While init_db runs, its transaction has every column whose  *)
(* statement is behind it, and the rows as they were until the DELETE: that *)
(* is what makes the commit one step of DurableTable.  After an error that  *)
(* is none of the columns it still has the columns the table had, and the   *)
(* rows before or after the DELETE.                                         *)

NoDatabase == cols = {} => proc = "down" /\ \A r \in Rows : row[r] = "absent"

HasTable == cols # {} => "table" \in cols

DraftColumns ==
    proc = "init" => /\ "table" \in draft.cols
                     /\ cols \cap Current \subseteq draft.cols
                     /\ start = "clean" => \A k \in 1..3 : k < step => Added[k] \in draft.cols

DraftRows ==
    proc = "init" => /\ draft.row \in {row, Cleared(row)}
                     /\ step <= 4 => draft.row = row
                     /\ step > 4 /\ start = "clean" => draft.row = Cleared(row)

\* the counter of the loop, outside it
AtRest == proc # "init" => step = 1

SchemaParts ==
    AtRest /\ NoDatabase /\ HasTable /\ DraftColumns /\ DraftRows /\ SchemaReady

SchemaInv == StoreTypeOK /\ SchemaParts

LEMMA SchemaAtStart == ASSUME StoreInit PROVE SchemaInv
<1>1. StoreTypeOK
  BY TypesAtStart
<1>2. NoDatabase
  <2> SUFFICES ASSUME cols = {}, NEW r \in Rows PROVE proc = "down" /\ row[r] = "absent"
    BY DEF NoDatabase, StoreInit
  <2>1. row \in [Rows -> {"absent"}]
    BY DEF StoreInit, Past
  <2> QED
    BY <2>1 DEF StoreInit
<1>3. HasTable
  BY DEF HasTable, StoreInit, Current, OldSchemas
<1> QED
  BY <1>1, <1>2, <1>3 DEF SchemaInv, SchemaParts, DraftColumns, DraftRows, SchemaReady, AtRest, StoreInit

\* At the commit of a start without such an error the transaction has the
\* columns of the current schema.
LEMMA CommitReady ==
  ASSUME SchemaInv, Commits, start = "clean"
  PROVE  Current \subseteq draft.cols
<1>1. proc = "init" /\ step = 6
  BY DEF Commits
<1>2. "table" \in draft.cols
  BY <1>1 DEF SchemaInv, SchemaParts, DraftColumns
<1>3. \A k \in 1..3 : Added[k] \in draft.cols
  BY <1>1 DEF SchemaInv, SchemaParts, DraftColumns
<1>4. Added[1] = "geo" /\ Added[2] = "count" /\ Added[3] = "workload"
  BY DEF Added
<1> QED
  BY <1>2, <1>3, <1>4 DEF Current

LEMMA ExecutesKeeps ==
  ASSUME SchemaInv, Executes
  PROVE  DraftColumns' /\ DraftRows'
<1>1. /\ step \in 1..5 /\ proc = "init" /\ step' = step + 1
      /\ UNCHANGED <<proc, cols, row>> /\ (start # "clean" => start' # "clean")
      /\ draft \in [cols : SUBSET Columns, row : [Rows -> RowValues]]
  BY DEF Executes, SchemaInv, SchemaParts, StoreTypeOK, RowValues
<1>2. /\ "table" \in draft.cols /\ cols \cap Current \subseteq draft.cols
      /\ start = "clean" => \A k \in 1..3 : k < step => Added[k] \in draft.cols
      /\ draft.row \in {row, Cleared(row)}
      /\ step <= 4 => draft.row = row
      /\ step > 4 /\ start = "clean" => draft.row = Cleared(row)
  BY <1>1 DEF SchemaInv, SchemaParts, DraftColumns, DraftRows
<1>3. CASE step \in 1..3
  <2>1. start' = "clean" => Added[step] \in draft'.cols
    BY <1>3 DEF Executes, Fails, Applied
  <2>2. draft.cols \subseteq draft'.cols /\ draft'.row = draft.row
    BY <1>3 DEF Executes, Applied
  <2> QED
    BY <1>1, <1>2, <1>3, <2>1, <2>2 DEF DraftColumns, DraftRows
<1>4. CASE step = 4
  <2>1. start = "clean" => "count" \in draft.cols
    BY <1>2, <1>4 DEF Added
  <2>2. start' = "clean" => draft' = Applied(4)
    BY <1>1, <1>4, <2>1 DEF Executes, Fails
  <2>3. draft' \in {draft, Applied(4)}
    BY <1>4 DEF Executes
  <2>4. Applied(4) = [cols |-> draft.cols, row |-> Cleared(row)]
    BY <1>2, <1>4 DEF Applied
  <2>5. draft'.cols = draft.cols /\ draft'.row \in {row, Cleared(row)}
    BY <1>2, <1>4, <2>3, <2>4
  <2>6. start' = "clean" => draft'.row = Cleared(row)
    BY <2>2, <2>4
  <2> QED
    BY <1>1, <1>2, <1>4, <2>5, <2>6 DEF DraftColumns, DraftRows
<1>5. CASE step = 5
  <2>1. draft'.row = draft.row /\ start' = start
    BY <1>5 DEF Executes, Applied
  <2>2. draft.cols \ {"v1"} \subseteq draft'.cols
    BY <1>5 DEF Executes, Applied
  <2>3. \A k \in 1..3 : Added[k] # "v1"
    BY AddedIsColumn DEF Current
  <2>4. "v1" \notin Current
    BY DEF Current
  <2>5. "table" \in draft'.cols /\ cols \cap Current \subseteq draft'.cols
    BY <1>2, <2>2, <2>4
  <2>6. start = "clean" => \A k \in 1..3 : Added[k] \in draft'.cols
    BY <1>2, <1>5, <2>2, <2>3
  <2> QED
    BY <1>1, <1>2, <1>5, <2>1, <2>5, <2>6 DEF DraftColumns, DraftRows
<1> QED
  BY <1>1, <1>3, <1>4, <1>5

\* What the transaction has done cannot be seen before its commit, and every
\* other step that is not a start or a request on a row leaves the table.
StoreFrame ==
    /\ proc' = proc \/ (proc = "restore" /\ proc' = "up")
    /\ UNCHANGED <<step, cols, row, draft, start>>

LEMMA OthersLeaveTheTable ==
  ASSUME \/ Restores \/ UploadCert \/ UploadPackage \/ RemoveCert \/ RemovePackage
         \/ PutConfig \/ ReadsConfig \/ Resolves \/ SetupReturns \/ Disconnects
         \/ UNCHANGED vars
  PROVE  StoreFrame
BY DEF StoreFrame, Restores, UploadCert, UploadPackage, RemoveCert, RemovePackage,
       Saves, Unlinks, PutConfig, ReadsConfig, Resolves, SetupReturns,
       Disconnects, vars

LEMMA SchemaKept ==
  ASSUME SchemaInv, [StoreNext]_vars
  PROVE  SchemaInv'
<1>1. StoreTypeOK'
  BY TypesKept DEF SchemaInv, SchemaParts
<1> USE DEF SchemaParts, AtRest, NoDatabase, HasTable, DraftColumns, DraftRows, SchemaReady
<1> SUFFICES SchemaParts'
  BY <1>1 DEF SchemaInv
<1>2. CASE Startup
  <2>1. /\ cols' # {} /\ "table" \in cols' /\ proc' = "init" /\ step' = step
        /\ draft' = [cols |-> cols', row |-> row] /\ row' = row
    BY <1>2 DEF Startup, SchemaInv, Current
  <2>2. step = 1
    BY <1>2 DEF Startup, SchemaInv
  <2> QED
    BY <2>1, <2>2
<1>3. CASE Executes
  BY <1>3, ExecutesKeeps DEF Executes, SchemaInv
<1>4. CASE Commits
  <2>1. "table" \in cols'
    BY <1>4 DEF Commits, SchemaInv
  <2> QED
    BY <1>4, <2>1, CommitReady DEF Commits
<1>5. CASE Crash
  BY <1>5 DEF Crash, SchemaInv
<1>6. ASSUME NEW r \in Rows, WritesRow(r) PROVE SchemaParts'
  BY <1>6 DEF WritesRow, SchemaInv
<1>7. CASE StoreFrame
  BY <1>7 DEF StoreFrame, SchemaInv
<1> QED
  BY <1>2, <1>3, <1>4, <1>5, <1>6, <1>7, OthersLeaveTheTable DEF StoreNext

\* Past init_db the table has every column the queries name, unless a statement
\* of this very start failed on something else than its column: whatever starts
\* were cut short before, and whatever failed in them.
THEOREM SchemaAlwaysReady == StoreSpec => []SchemaReady
<1>1. SchemaInv => SchemaReady
  BY DEF SchemaInv, SchemaParts
<1> QED
  BY <1>1, SchemaAtStart, SchemaKept, PTL DEF StoreSpec

-----------------------------------------------------------------------------
(* The table implements DurableTable. *)

LEMMA TableInit == ASSUME StoreInit PROVE Table!Init
<1>1. row \in [Rows -> Values \cup {"absent"}]
  BY TypesAtStart DEF StoreTypeOK
<1> QED
  BY <1>1 DEF StoreInit, Table!Init

LEMMA StartupCreates ==
  ASSUME SchemaInv, Startup
  PROVE  Table!Create \/ UNCHANGED Table!vars
<1>1. CASE cols = {}
  BY <1>1 DEF Startup, SchemaInv, SchemaParts, NoDatabase, Table!Create
<1>2. CASE cols # {}
  BY <1>2 DEF Startup, Table!vars
<1> QED
  BY <1>1, <1>2

LEMMA CommitStarts == ASSUME SchemaInv, Commits PROVE Table!Start
<1>1. /\ proc = "init" /\ proc' = "restore" /\ step = 6 /\ start' = start
      /\ cols' = draft.cols /\ row' = draft.row
  BY DEF Commits, SchemaInv, StoreTypeOK
<1>2. /\ row' \in {row, Cleared(row)} /\ (start = "clean" => row' = Cleared(row))
      /\ cols \cap Current \subseteq cols'
  BY <1>1 DEF SchemaInv, SchemaParts, DraftRows, DraftColumns
<1>3. start = "clean" => Current \subseteq cols'
  BY <1>1, CommitReady
<1>4. Current \subseteq cols => Current \subseteq cols'
  BY <1>2
<1>5. Cleared(row) = Table!Cleared
  BY DEF Cleared, Wiped, Table!Cleared
<1> QED
  BY <1>1, <1>2, <1>3, <1>4, <1>5 DEF Table!Start

LEMMA WriteChanges ==
  ASSUME NEW r \in Rows, WritesRow(r)
  PROVE  Table!Change
<1>1. PICK v \in Written(row[r]) : row' = [row EXCEPT ![r] = v]
  BY DEF WritesRow
<1>2. v \in Values \cup {"absent"}
  BY WrittenType DEF RowValues
<1> QED
  BY <1>1, <1>2 DEF WritesRow, Table!Change

LEMMA FrameStutters == ASSUME StoreFrame PROVE UNCHANGED Table!vars
BY DEF StoreFrame, Table!vars

LEMMA TableNext ==
  ASSUME SchemaInv, [StoreNext]_vars
  PROVE  [Table!Next]_(Table!vars)
<1>1. CASE Startup
  BY <1>1, StartupCreates DEF Table!Next
<1>2. CASE Executes
  BY <1>2 DEF Executes, Table!vars
<1>3. CASE Commits
  BY <1>3, CommitStarts DEF Table!Next
<1>4. CASE Crash
  BY <1>4 DEF Crash, Table!Next, Table!End
<1>5. ASSUME NEW r \in Rows, WritesRow(r) PROVE [Table!Next]_(Table!vars)
  BY <1>5, WriteChanges DEF Table!Next
<1>6. CASE StoreFrame
  BY <1>6, FrameStutters
<1> QED
  BY <1>1, <1>2, <1>3, <1>4, <1>5, <1>6, OthersLeaveTheTable DEF StoreNext

\* Every start that ends, ends as one step of DurableTable, and the end of the
\* process loses nothing, for any rows and any history of versions, of crashes
\* and of statements that failed.
THEOREM TableImplemented == StoreSpec => ImplementsTable
<1>1. ASSUME StoreInit PROVE Table!Init
  BY <1>1, TableInit
<1>2. ASSUME SchemaInv, [StoreNext]_vars PROVE [Table!Next]_(Table!vars)
  BY <1>2, TableNext
<1> QED
  BY <1>1, <1>2, SchemaAtStart, SchemaKept, PTL
     DEF StoreSpec, ImplementsTable, Table!Spec

-----------------------------------------------------------------------------
(* Files and connections. *)

LEMMA WholeKept ==
  ASSUME StoreTypeOK, AnsweredIsWhole, [StoreNext]_vars
  PROVE  AnsweredIsWhole'
<1> USE DEF StoreTypeOK, AnsweredIsWhole
<1>1. ASSUME NEW f \in Files, Saves(f) PROVE AnsweredIsWhole'
  BY <1>1 DEF Saves
<1>2. ASSUME NEW f \in Files, Unlinks(f) PROVE AnsweredIsWhole'
  BY <1>2 DEF Unlinks
<1>3. CASE Crash
  BY <1>3 DEF Crash
<1>4. CASE UNCHANGED directory
  BY <1>4 DEF directory
<1> QED
  BY <1>1, <1>2, <1>3, <1>4 DEF StoreNext, UploadCert, UploadPackage, RemoveCert,
     RemovePackage, Startup, Executes, Commits, Restores, WritesRow, PutConfig,
     ReadsConfig, Resolves, SetupReturns, Disconnects, vars, directory

\* An upload that was answered stays whole until it is deleted.
THEOREM AnswersHold == StoreSpec => []AnsweredIsWhole
<1>1. StoreInit => AnsweredIsWhole
  BY DEF StoreInit, AnsweredIsWhole
<1>2. StoreTypeOK /\ AnsweredIsWhole /\ [StoreNext]_vars => AnsweredIsWhole'
  BY WholeKept
<1> QED
  BY <1>1, <1>2, StoreTypeCorrect, PTL DEF StoreSpec

\* What a connect is about to load is what its configuration names.
LoadsNamed == conn.at = "setup" => conn.path = conn.named

LEMMA CertKept ==
  ASSUME StoreTypeOK, ShowsItsCert, LoadsNamed, [StoreNext]_vars
  PROVE  ShowsItsCert' /\ LoadsNamed'
<1> USE DEF ShowsItsCert, LoadsNamed
<1>1. CASE ReadsConfig
  BY <1>1 DEF ReadsConfig
<1>2. CASE Resolves
  BY <1>2 DEF Resolves, NoConn, NoLink
<1>3. CASE SetupReturns
  BY <1>3 DEF SetupReturns, Setup, NoConn, NoLink
<1>4. CASE Disconnects
  BY <1>4 DEF Disconnects, NoLink
<1>5. CASE Restores
  <2> DEFINE path == IF certPath # None /\ Exists(certPath) THEN certPath ELSE None
  <2>1. path \in {None, certPath}
    OBVIOUS
  <2>2. Setup(path, certPath, TRUE) /\ UNCHANGED conn
    BY <1>5 DEF Restores
  <2> QED
    BY <2>1, <2>2 DEF Setup, NoLink
<1>6. CASE Crash
  BY <1>6 DEF Crash, NoConn, NoLink
<1>7. CASE UNCHANGED <<conn, link>>
  BY <1>7
<1> QED
  BY <1>1, <1>2, <1>3, <1>4, <1>5, <1>6, <1>7 DEF StoreNext, UploadCert,
     UploadPackage, RemoveCert, RemovePackage, Startup, Executes, Commits,
     WritesRow, PutConfig, Saves, Unlinks, vars

\* No request connects without the certificate its configuration names.
THEOREM CertIsNamed == StoreSpec => []ShowsItsCert
<1>1. StoreInit => ShowsItsCert /\ LoadsNamed
  BY DEF StoreInit, ShowsItsCert, LoadsNamed, NoConn, NoLink
<1>2. StoreTypeOK /\ ShowsItsCert /\ LoadsNamed /\ [StoreNext]_vars
      => ShowsItsCert' /\ LoadsNamed'
  BY CertKept
<1> QED
  BY <1>1, <1>2, StoreTypeCorrect, PTL DEF StoreSpec

=============================================================================
