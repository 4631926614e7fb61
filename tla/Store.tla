------------------------------- MODULE Store -------------------------------
(***************************************************************************)
(* The data directory and what is done with it: the database with its      *)
(* migrations at every start (app/models/db.py), uploaded certificates and *)
(* packages (cert_service.py, package_service.py and their routes), the    *)
(* TAK configuration that names a certificate, and the connections made    *)
(* with it by a request and by the restore.                                *)
(*                                                                         *)
(* Directory and committed tables outlive the process.  Python's sqlite3   *)
(* opens a transaction before the first INSERT of init_db and none of the  *)
(* statements after it ends it, so what the loop does shows at its commit. *)
(* A handler whose awaits do not matter to the rest is one step: an upload *)
(* keeps nothing before its write, and that is not interrupted but by the  *)
(* end of the process.                                                     *)
(***************************************************************************)
EXTENDS Naturals

CONSTANTS
    Rows,      \* ids of rows of the enablements table
    Certs,     \* ids uploaded certificates can get
    Packages,  \* ids uploaded packages can get
    None

ASSUME StoreAssumption ==
    /\ Certs \cap Packages = {}
    /\ None \notin Certs \cup Packages

Files == Certs \cup Packages

VARIABLES
    proc,      \* the process: down, in init_db, in the restore, or serving
    step,      \* the next statement of init_db's loop
    cols,      \* columns of the table, in groups that come and go together
    row,       \* its rows
    draft,     \* columns and rows as init_db's transaction sees them
    start,     \* history: "faulty" where a statement of this start's loop failed,
               \* but not for the columns that are there
    certPath,  \* tak_config.cert_path: the certificate it names
    file,      \* the two directories
    kept,      \* history: uploads answered with 201 and not deleted since
    conn,      \* POST /tak/connect in progress
    link       \* the established connection

directory == <<file, kept>>
vars == <<proc, step, cols, row, draft, start, certPath, file, kept, conn, link>>

\* A row is of another type than synthetic, or synthetic: with feature_count,
\* with NULL in it, or written under the v1 schema, which had no such column.
Values == {"other", "counted", "uncounted", "v1"}

\* Column groups: the geo filter, feature_count, the rest of the workload
\* model, the two columns of v1; "table" stands for those always there.
Current == {"table", "geo", "count", "workload"}
Columns == Current \cup {"v1"}
OldSchemas == {{"table"}, {"table", "geo"}, {"table", "geo", "v1"}}

NoDraft == [cols |-> {}, row |-> [r \in Rows |-> "absent"]]
NoConn == [at |-> "none", named |-> None, path |-> None]
NoLink == [up |-> FALSE, cert |-> None, named |-> None, restored |-> FALSE]

\* Definitions named ..._slip are variants of the definition that follows them,
\* as a slip in the code would make it; no specification uses one.

\* Types of the database, the directories and what the process remembers.
StoreTypeOK ==
    /\ proc \in {"down", "init", "restore", "up"}
    /\ step \in 1..6
    /\ cols \in SUBSET Columns
    /\ row \in [Rows -> Values \cup {"absent"}]
    /\ draft \in [cols : SUBSET Columns, row : [Rows -> Values \cup {"absent"}]]
    /\ start \in {"clean", "faulty"}
    /\ certPath \in Certs \cup {None}
    /\ file \in [Files -> {"unborn", "torn", "whole", "gone"}]
    /\ kept \in SUBSET Files
    /\ conn \in [at : {"none", "resolve", "setup"}, named : Certs \cup {None},
                 path : Certs \cup {None}]
    /\ link \in [up : BOOLEAN, cert : Certs \cup {None},
                 named : Certs \cup {None}, restored : BOOLEAN]

\* what rows the version with these columns can have written
Past(c) ==
    IF c = {} THEN {}
    ELSE IF c = Current THEN Values \ {"v1"}
    ELSE IF "v1" \in c THEN {"other", "v1"} ELSE {"other"}

\* No database yet, or one that an older version or this one left behind.
StoreInit ==
    /\ proc = "down" /\ step = 1
    /\ cols \in {{}, Current} \cup OldSchemas
    /\ row \in [Rows -> {"absent"} \cup Past(cols)]
    /\ draft = NoDraft /\ start = "clean"
    /\ certPath = None
    /\ file = [f \in Files |-> "unborn"]
    /\ kept = {}
    /\ conn = NoConn
    /\ link = NoLink

-----------------------------------------------------------------------------
(* init_db. *)

\* the script creates what is missing, in the current form, and commits; the
\* INSERT after it opens the transaction
Startup ==
    /\ proc = "down"
    /\ proc' = "init"
    /\ cols' = IF cols = {} THEN Current ELSE cols
    /\ draft' = [cols |-> cols', row |-> row]
    /\ UNCHANGED <<step, row, start, certPath, directory, conn, link>>

\* The loop: three groups of ADD COLUMN, the DELETE, the two DROP COLUMN.
Added == <<"geo", "count", "workload">>

\* type_id = 'synthetic' AND feature_count IS NULL
Wiped(v) == v \in {"uncounted", "v1"}
Cleared(rows) == [r \in Rows |-> IF Wiped(rows[r]) THEN "absent" ELSE rows[r]]

\* the transaction after statement k of the loop, where it does not fail
Applied(k) ==
    IF k <= 3 THEN [cols |-> draft.cols \cup {Added[k]}, row |-> draft.row]
    ELSE IF k = 4 THEN [cols |-> draft.cols, row |-> Cleared(draft.row)]
    ELSE [cols |-> draft.cols \ {"v1"}, row |-> draft.row]

\* the column is there already, or not there
Fails(k) ==
    IF k <= 3 THEN Added[k] \in draft.cols
    ELSE IF k = 4 THEN "count" \notin draft.cols ELSE "v1" \notin draft.cols

\* the try stands around the loop: the first error ends it
Executes_slip ==
    /\ proc = "init" /\ step <= 5
    /\ \/ Fails(step) /\ draft' = draft /\ step' = 6
       \/ ~Fails(step) /\ draft' = Applied(step) /\ step' = step + 1
    /\ UNCHANGED <<proc, cols, row, start, certPath, directory, conn, link>>

\* the loop goes past its end
Executes_end_slip ==
    /\ proc = "init" /\ step <= 6
    /\ draft' = IF Fails(step) THEN draft ELSE Applied(step)
    /\ step' = step + 1
    /\ UNCHANGED <<proc, cols, row, start, certPath, directory, conn, link>>

\* every statement commits on its own
Executes_commit_slip ==
    /\ proc = "init" /\ step <= 5
    /\ draft' = IF Fails(step) THEN draft ELSE Applied(step)
    /\ step' = step + 1
    /\ cols' = draft'.cols /\ row' = draft'.row
    /\ UNCHANGED <<proc, start, certPath, directory, conn, link>>

\* one statement; an error is passed over, whatever it is: the columns are there
\* or are not, DROP COLUMN is not known to an SQLite older than 3.35, or a
\* statement that could have done its work fails for another reason (a locked
\* database, a full disk)
Executes ==
    /\ proc = "init" /\ step <= 5
    /\ \/ ~Fails(step) /\ draft' = Applied(step) /\ start' = start
       \/ (Fails(step) \/ step = 5) /\ draft' = draft /\ start' = start
       \/ ~Fails(step) /\ step <= 4 /\ draft' = draft /\ start' = "faulty"
    /\ step' = step + 1
    /\ UNCHANGED <<proc, cols, row, certPath, directory, conn, link>>

Commits ==
    /\ proc = "init" /\ step = 6
    /\ proc' = "restore"
    /\ cols' = draft.cols /\ row' = draft.row
    /\ step' = 1 /\ draft' = NoDraft
    /\ UNCHANGED <<start, certPath, directory, conn, link>>

-----------------------------------------------------------------------------
(* Rows, as the routes write them. *)

\* POST, PUT and DELETE of an enablement.  feature_count is optional in a POST;
\* a PUT leaves out what is None, so it can set it and never clear it.  The
\* INSERT names every current column, the UPDATE those it sets.
Written(old) ==
    CASE old = "absent" ->
           IF Current \subseteq cols THEN {"other", "counted", "uncounted"} ELSE {}
      [] old \in {"uncounted", "v1"} ->
           {"absent"} \cup IF "count" \in cols THEN {"counted"} ELSE {}
      [] OTHER -> {"absent"}

WritesRow(r) ==
    /\ proc = "up"
    /\ \E v \in Written(row[r]) : row' = [row EXCEPT ![r] = v]
    /\ UNCHANGED <<proc, step, cols, draft, start, certPath, directory, conn, link>>

-----------------------------------------------------------------------------
(* Certificates and packages. *)

\* cert_path_for_id, package_path_for_id: whatever is there, torn or whole
Exists(f) == file[f] \in {"torn", "whole"}

\* write_bytes of data under a new name, then the answer; a write that fails
\* raises and leaves what it has written
Saves(f) ==
    /\ proc = "up" /\ file[f] = "unborn"
    /\ \/ /\ file' = [file EXCEPT ![f] = "whole"]
          /\ kept' = kept \cup {f}
       \/ /\ file' = [file EXCEPT ![f] = "torn"]
          /\ kept' = kept
    /\ UNCHANGED <<proc, step, cols, row, draft, start, certPath, conn, link>>

\* unlink
Unlinks(f) ==
    /\ proc = "up" /\ Exists(f)
    /\ file' = [file EXCEPT ![f] = "gone"]
    /\ kept' = kept \ {f}
    /\ UNCHANGED <<proc, step, cols, row, draft, start, certPath, conn, link>>

\* the answer does not wait for the data to be written
UploadCert_slip == \E f \in Certs :
    /\ proc = "up" /\ file[f] = "unborn"
    /\ file' = [file EXCEPT ![f] = "torn"]
    /\ kept' = kept \cup {f}
    /\ UNCHANGED <<proc, step, cols, row, draft, start, certPath, conn, link>>

\* POST: the name ends in .p12 and the data is neither empty nor too large; any
\* other upload changes nothing
UploadCert == \E f \in Certs : Saves(f)
UploadPackage == \E f \in Packages : Saves(f)

RemoveCert == \E f \in Certs : Unlinks(f)
RemovePackage == \E f \in Packages : Unlinks(f)

-----------------------------------------------------------------------------
(* The TAK configuration and connections. *)

\* PUT /tak/config: any certificate ever uploaded, still there or not, or none;
\* the code takes any string, and what is no id of a certificate is left out
PutConfig ==
    /\ proc = "up"
    /\ \E f \in {g \in Certs : file[g] # "unborn"} \cup {None} : certPath' = f
    /\ UNCHANGED <<proc, step, cols, row, draft, start, directory, conn, link>>

\* POST /tak/connect reads the configuration (without a URL it is a 400 and
\* changes nothing).  Bound: one at a time, what two
\* of them do to each other is in module Runtime.
ReadsConfig ==
    /\ proc = "up" /\ conn = NoConn
    /\ conn' = [at |-> "resolve", named |-> certPath, path |-> None]
    /\ UNCHANGED <<proc, step, cols, row, draft, start, certPath, directory, link>>

\* what is not found is left out, as the restore does it
Resolves_slip ==
    /\ conn.at = "resolve"
    /\ conn' = [at |-> "setup", named |-> conn.named,
                path |-> IF conn.named # None /\ Exists(conn.named)
                         THEN conn.named ELSE None]
    /\ link' = NoLink
    /\ UNCHANGED <<proc, step, cols, row, draft, start, certPath, directory>>

\* resolve_cert_path, or 400; then connect_tak gives up the old connection
\* and waits, first for the plugins and then for setup()
Resolves ==
    /\ conn.at = "resolve"
    /\ \/ /\ conn.named # None => Exists(conn.named)
          /\ conn' = [at |-> "setup", named |-> conn.named, path |-> conn.named]
          /\ link' = NoLink
       \/ /\ conn.named # None /\ ~Exists(conn.named)
          /\ conn' = NoConn
          /\ link' = link
    /\ UNCHANGED <<proc, step, cols, row, draft, start, certPath, directory>>

\* setup() loads the file at the path, if it is given one, and connects, or
\* raises
Setup(path, named, restored) ==
    \/ /\ path # None => file[path] = "whole"
       /\ link' = [up |-> TRUE, cert |-> path, named |-> named, restored |-> restored]
    \/ link' = NoLink

SetupReturns ==
    /\ conn.at = "setup"
    /\ Setup(conn.path, conn.named, FALSE)
    /\ conn' = NoConn
    /\ UNCHANGED <<proc, step, cols, row, draft, start, certPath, directory>>

\* POST /tak/disconnect
Disconnects ==
    /\ proc = "up" /\ link.up
    /\ link' = NoLink
    /\ UNCHANGED <<proc, step, cols, row, draft, start, certPath, directory, conn>>

\* the restore: a certificate that is not found is left out with a warning;
\* nothing else runs before it ends
Restores ==
    /\ proc = "restore"
    /\ proc' = "up"
    /\ Setup(IF certPath # None /\ Exists(certPath) THEN certPath ELSE None,
             certPath, TRUE)
    /\ UNCHANGED <<step, cols, row, draft, start, certPath, directory, conn>>

\* the process ends: the transaction is rolled back, and an upload without an
\* answer yet leaves what it has written, a part or all of it
Crash ==
    /\ proc # "down"
    /\ proc' = "down"
    /\ step' = 1 /\ draft' = NoDraft /\ start' = "clean"
    /\ conn' = NoConn /\ link' = NoLink
    /\ \/ file' = file
       \/ /\ proc = "up"
          /\ \E f \in Files, left \in {"torn", "whole"} :
               file[f] = "unborn" /\ file' = [file EXCEPT ![f] = left]
    /\ UNCHANGED <<cols, row, certPath, kept>>

StoreNext ==
    \/ Startup \/ Executes \/ Commits \/ Restores \/ Crash
    \/ \E r \in Rows : WritesRow(r)
    \/ UploadCert \/ UploadPackage \/ RemoveCert \/ RemovePackage
    \/ PutConfig \/ ReadsConfig \/ Resolves \/ SetupReturns \/ Disconnects

StoreSpec == StoreInit /\ [][StoreNext]_vars

-----------------------------------------------------------------------------
(* Properties. *)

\* Past init_db the table has every column the queries name, whatever version
\* left the database behind, however often a start was cut short, and whatever
\* statements failed in earlier starts: only a start that itself has an ADD COLUMN
\* fail on a column that is missing can serve without it (db.py:105 passes over
\* that too).
SchemaReady == proc \in {"restore", "up"} /\ start = "clean" => Current \subseteq cols

\* Start-up is all or nothing for the table: seen from the outside, rows change
\* by requests only, except that a start removes the synthetic rows without a
\* feature_count, together with the change of the schema.
Table == INSTANCE DurableTable WITH
    Stale <- {"uncounted", "v1"}, Absent <- "absent",
    table <- row, ready <- Current \subseteq cols,
    serving <- proc \in {"restore", "up"},
    clean <- proc \in {"restore", "up"} /\ start = "clean"

ImplementsTable == Table!Spec

\* An upload that was answered is whole until it is deleted, however often the
\* process ends: a part of one is only ever left by an upload without answer.
AnsweredIsWhole == \A f \in kept : file[f] = "whole"

\* A connection shows the certificate that the configuration it was made from
\* names.  Only the restore connects without one that is named, and only where
\* it is not there: a request never falls back to connecting without it,
\* though the file may vanish between any two of its steps.
ShowsItsCert ==
    link.up => \/ link.cert = link.named
               \/ link.restored /\ link.cert = None

\* README.md:362-363 ("the row stays in the DB"), db.py:86 ("stale synthetic
\* rows from v1 schema"): a start removes no row but those of v1.
OnlyV1Wiped ==
    [][proc # "up" => \A r \in Rows : row[r] # "v1" => row'[r] = row[r]]_vars

=============================================================================
