--------------------------- MODULE RuntimeDatabase ---------------------------
(***************************************************************************)
(* Opening the standalone catalog's database: persistence/database.ts and  *)
(* migrations.ts over the migrations of schema.ts, events/schema.ts and    *)
(* discovery/schema.ts.                                                    *)
(*                                                                         *)
(* Several starts may run on one data root (a development server beside a  *)
(* preview server, or a server restarted before the old one has closed),   *)
(* and each may crash at any point.  A step is what a start does between   *)
(* two awaits, or between two SQL statements where another process can get *)
(* in.  SQLite's part is modelled by what it promises: one writer at a     *)
(* time, readers see what is committed, a crash undoes what is not.        *)
(***************************************************************************)
EXTENDS Integers, FiniteSets

CONSTANTS
  Starts,    \* the starts of a server on this data root
  Projects,  \* current-project roots among the sources of an old database
  Origins    \* the data roots that may be found, as records of DataRoot

VARIABLES
  root,      \* the data root: "absent", "private" or "unsafe"
  file,      \* the database file: "absent", "private" or "unsafe"
  journal,   \* the rollback journal: "none", "private" or "unsafe"
  wal,       \* whether a WAL sidecar or a WAL header is there
  table,     \* runtime_migrations: "absent", "ours" or "foreign"
  ledger,    \* its committed rows: the versions applied
  drifted,   \* the rows whose checksum is not the migration's
  schema,    \* committed tables: what is defined under each name
  sources,   \* current-project roots in development_target_sources
  scopes,    \* development_target_project_scopes
  writer,    \* the start that holds SQLite's write lock, or None
  staged,    \* the writer's uncommitted schema and scopes
  pc,        \* where each start is
  born,      \* whether the start created the database file
  applied    \* the ledger as the start read it

disk == <<root, file, wal, table, ledger, drifted, sources>>
data == <<schema, scopes>>
lock == <<journal, writer, staged>>
database == <<disk, data, lock, born, applied>>

None == 0
ASSUME StartsAreNumbered == Starts \subseteq Nat \ {None}

-----------------------------------------------------------------------------

(* The migrations, each with the tables it creates.  What is defined under *)
(* a name is the table with its indexes and triggers; of those with a      *)
(* guard against deletion there are two versions, the one they are created *)
(* with (legacy) and the one that version 6 puts in its place (guarded).   *)
Versions == 1..9
Names == {"objects", "events", "sources", "hosts", "retirements", "scopes",
          "retention"}
Guards == {"events", "hosts"}
Nothing == [n \in Names |-> "absent"]
Created(n) == IF n \in Guards THEN "legacy" ELSE "defined"

ObjectMigrations == [v \in {1} |-> {"objects"}]
EventMigrations == [v \in {2} |-> {"events"}]
TargetMigrations == [v \in 3..9 |->
  CASE v = 3 -> {"sources"} [] v = 4 -> {"hosts"}     [] v = 5 -> {"retirements"}
    [] v = 7 -> {"scopes"}  [] v = 8 -> {"retention"} [] OTHER -> {}]

Creates == [v \in Versions |->
  IF v = 1 THEN ObjectMigrations[v]
    ELSE IF v = 2 THEN EventMigrations[v] ELSE TargetMigrations[v]]

(* CREATE TABLE fails on a name that is taken, DROP TRIGGER on one that is *)
(* not there.                                                              *)
Applies(v, s) ==
  /\ \A n \in Creates[v] : s[n] = "absent"
  /\ v = 6 => s["events"] # "absent" /\ s["hosts"] # "absent"
  /\ v = 9 => s["scopes"] # "absent" /\ s["sources"] # "absent"

Apply(v, s) ==
  [n \in Names |->
     IF n \in Creates[v]
       THEN Created(n)
       ELSE IF v = 6 /\ n \in Guards THEN "guarded" ELSE s[n]]

(* Faulty: the scopes start empty.                                         *)
BackfillNone(v, rows) == rows

(* The last migration makes a scope of each current project known.         *)
Backfill(v, rows) == IF v = 9 THEN rows \cup sources ELSE rows

(* Faulty: the first versions know their own trigger only.                 *)
VerifiesFirst(v, s) ==
  /\ \A n \in Creates[v] : s[n] = Created(n)
  /\ v = 6 => s["events"] = "guarded" /\ s["hosts"] = "guarded"
  /\ v = 9 => s["scopes"] = "defined"

(* What each migration's verify accepts: versions 2 and 4 also what        *)
(* version 6 makes of their triggers.                                      *)
Verifies(v, s) ==
  /\ \A n \in Creates[v] :
       s[n] = Created(n) \/ (n \in Guards /\ s[n] = "guarded")
  /\ v = 6 => s["events"] = "guarded" /\ s["hosts"] = "guarded"
  /\ v = 9 => s["scopes"] = "defined"

(* The schema that the first n migrations leave.                           *)
SchemaAt(n) ==
  [m \in Names |->
     IF \A v \in 1..n : m \notin Creates[v] THEN "absent"
       ELSE IF m \notin Guards THEN "defined"
       ELSE IF n < 6 THEN "legacy" ELSE "guarded"]

-----------------------------------------------------------------------------

(* What a first start may find.  Whoever built the database applied the    *)
(* migrations in order, perhaps fewer or more of them than are known here; *)
(* a database that is gone may have left its sidecars.                     *)
DataRoot ==
  {found \in
     [root : {"absent", "private", "unsafe"}, file : {"absent", "private", "unsafe"},
      journal : {"none", "unsafe"}, wal : BOOLEAN,
      table : {"absent", "ours", "foreign"}, ledger : SUBSET (1..10),
      drifted : SUBSET Versions] :
   /\ found.root = "absent" => found.file = "absent"
   /\ found.file = "absent" => found.table = "absent"
   /\ found.table = "absent" => found.ledger = {}
   /\ found.drifted \subseteq found.ledger}

ASSUME OriginsAssumption == Origins \subseteq DataRoot

DatabaseInit ==
  /\ \E o \in Origins :
       /\ root = o.root /\ file = o.file /\ journal = o.journal /\ wal = o.wal
       /\ table = o.table /\ ledger = o.ledger /\ drifted = o.drifted
       /\ schema = SchemaAt(Cardinality(o.ledger \cap Versions))
       /\ sources = IF 3 \in o.ledger THEN Projects ELSE {}
       /\ scopes = IF 9 \in o.ledger THEN Projects ELSE {}
  /\ writer = None
  /\ staged = [schema |-> Nothing, scopes |-> {}]
  /\ pc = [p \in Starts |-> "off"]
  /\ born = [p \in Starts |-> FALSE]
  /\ applied = [p \in Starts |-> {}]

Goto(p, at) == pc' = [pc EXCEPT ![p] = at]
OrRefuse(p, condition, at) == Goto(p, IF condition THEN at ELSE "refused")

-----------------------------------------------------------------------------

(* prepareRuntimeDataRoot: an existing root is attested, never repaired.   *)
LookAtRoot(p) ==
  /\ pc[p] = "off"
  /\ Goto(p, CASE root = "absent" -> "makeRoot"
               [] root = "private" -> "lookAtFile"
               [] OTHER -> "refused")
  /\ UNCHANGED database

(* mkdir fails when another start was faster.                              *)
MakeRoot(p) ==
  /\ pc[p] = "makeRoot"
  /\ OrRefuse(p, root = "absent", "lookAtFile")
  /\ root' = IF root = "absent" THEN "private" ELSE root
  /\ UNCHANGED <<file, wal, table, ledger, drifted, sources, data, lock, born, applied>>

LookAtFile(p) ==
  /\ pc[p] = "lookAtFile"
  /\ Goto(p, CASE file = "absent" -> "makeFile"
               [] file = "private" -> "checkFiles"
               [] OTHER -> "refused")
  /\ UNCHANGED database

(* Opened exclusively: of two starts that saw no file, one creates it.     *)
MakeFile(p) ==
  /\ pc[p] = "makeFile"
  /\ OrRefuse(p, file = "absent", "checkFiles")
  /\ file' = IF file = "absent" THEN "private" ELSE file
  /\ born' = [born EXCEPT ![p] = file = "absent"]
  /\ UNCHANGED <<root, wal, table, ledger, drifted, sources, data, lock, applied>>

(* The sidecars and the header: a private journal is one a writer has open *)
(* or a crash left; anything of WAL is refused.                            *)
CheckFiles(p) ==
  /\ pc[p] = "checkFiles"
  /\ OrRefuse(p, journal # "unsafe" /\ ~wal, "connect")
  /\ UNCHANGED database

(* Faulty: whoever connects creates the ledger it does not find.           *)
ConnectAndRepair(p) ==
  /\ pc[p] = "connect"
  /\ Goto(p, "initLedger")
  /\ journal' = IF writer = None THEN "none" ELSE journal
  /\ UNCHANGED <<disk, data, writer, staged, born, applied>>

(* The connection's first read undoes what a crashed writer left.  Only    *)
(* the start that created the file creates the ledger.                     *)
Connect(p) ==
  /\ pc[p] = "connect"
  /\ Goto(p, IF born[p] THEN "initLedger" ELSE "readLedger")
  /\ journal' = IF writer = None THEN "none" ELSE journal
  /\ UNCHANGED <<disk, data, writer, staged, born, applied>>

InitLedger(p) ==
  /\ pc[p] = "initLedger"
  /\ table' = IF table = "absent" THEN "ours" ELSE table
  /\ Goto(p, "readLedger")
  /\ UNCHANGED <<root, file, wal, ledger, drifted, sources, data, lock, born, applied>>

(* The ledger's own table is attested, then its rows: no gap, no version   *)
(* of a newer program, no other checksum.                                  *)
ReadLedger(p) ==
  /\ pc[p] = "readLedger"
  /\ OrRefuse(p, /\ table = "ours"
               /\ ledger = 1..Cardinality(ledger)
               /\ ledger \subseteq Versions
               /\ ledger \cap drifted = {}, "verify")
  /\ applied' = [applied EXCEPT ![p] = ledger]
  /\ UNCHANGED <<disk, data, lock, born>>

(* Each applied migration is verified on the schema of now, which another  *)
(* start may have taken further since the ledger was read.                 *)
VerifyApplied(p) ==
  /\ pc[p] = "verify"
  /\ OrRefuse(p, \A v \in applied[p] : Verifies(v, schema), "migrate")
  /\ UNCHANGED database

NextVersion(p) == Cardinality(applied[p]) + 1

(* A pending migration, in a transaction of its own: the schema changes.   *)
BeginMigration(p) ==
  /\ pc[p] = "migrate"
  /\ NextVersion(p) \in Versions
  /\ writer = None
  /\ LET v == NextVersion(p)
     IN  IF Applies(v, schema)
           THEN /\ writer' = p
                /\ journal' = "private"
                /\ staged' = [schema |-> Apply(v, schema), scopes |-> Backfill(v, scopes)]
                /\ Goto(p, "commit")
           ELSE Goto(p, "refused") /\ UNCHANGED lock
  /\ UNCHANGED <<disk, data, born, applied>>

(* Faulty: the migration and its ledger row are two transactions.          *)
CommitUnrecorded(p) ==
  /\ pc[p] = "commit"
  /\ LET v == NextVersion(p)
         sound == Verifies(v, staged.schema)
     IN  /\ OrRefuse(p, sound, "migrate")
         /\ ledger' = ledger
         /\ applied' = [applied EXCEPT ![p] = IF sound THEN @ \cup {v} ELSE @]
         /\ schema' = IF sound THEN staged.schema ELSE schema
         /\ scopes' = IF sound THEN staged.scopes ELSE scopes
  /\ writer' = None /\ journal' = "none"
  /\ UNCHANGED <<root, file, wal, table, drifted, sources, staged, born>>

(* ... is verified and recorded; the ledger's primary key refuses a        *)
(* version that is there already, and the transaction is undone.           *)
CommitMigration(p) ==
  /\ pc[p] = "commit"
  /\ LET v == NextVersion(p)
         sound == Verifies(v, staged.schema) /\ v \notin ledger
     IN  /\ OrRefuse(p, sound, "migrate")
         /\ ledger' = IF sound THEN ledger \cup {v} ELSE ledger
         /\ applied' = [applied EXCEPT ![p] = IF sound THEN @ \cup {v} ELSE @]
         /\ schema' = IF sound THEN staged.schema ELSE schema
         /\ scopes' = IF sound THEN staged.scopes ELSE scopes
  /\ writer' = None /\ journal' = "none"
  /\ UNCHANGED <<root, file, wal, table, drifted, sources, staged, born>>

(* Another start kept the lock longer than the busy timeout.               *)
Busy(p) ==
  /\ pc[p] = "migrate" /\ NextVersion(p) \in Versions
  /\ writer \notin {None, p}
  /\ Goto(p, "refused")
  /\ UNCHANGED database

Opened(p) ==
  /\ pc[p] = "migrate" /\ NextVersion(p) \notin Versions
  /\ Goto(p, "open")
  /\ UNCHANGED database

(* The process ends anywhere; its transaction is undone by the next        *)
(* connection, which finds the journal.                                    *)
CrashDatabase(p) ==
  /\ writer' = IF writer = p THEN None ELSE writer
  /\ UNCHANGED <<disk, data, journal, staged, born, applied>>

OpenNext(p) ==
  \/ LookAtRoot(p) \/ MakeRoot(p) \/ LookAtFile(p) \/ MakeFile(p)
  \/ CheckFiles(p) \/ Connect(p) \/ InitLedger(p) \/ ReadLedger(p)
  \/ VerifyApplied(p) \/ BeginMigration(p) \/ CommitMigration(p)
  \/ Busy(p) \/ Opened(p)

=============================================================================
