--------------------------- MODULE Workbench_proofs ---------------------------
(***************************************************************************)
(* Proofs about the workbench's database, its identity and its page, for   *)
(* any number of starts that overlap and crash anywhere, any data root     *)
(* they may find and any number of requests on their way.                  *)
(*                                                                         *)
(* The argument: a start that got past the reading of the ledger has seen  *)
(* a first part of the migrations in it, and none of them ever leaves.     *)
(* Whoever is in a transaction holds the lock, so its staged schema is the *)
(* next migration of its own on the schema of now.  It commits only if     *)
(* that migration is not in the ledger, and then the ledger holds exactly  *)
(* what this start has seen: the schema it builds on is the right one.     *)
(***************************************************************************)
EXTENDS Workbench, FiniteSetTheorems, TLAPS

(* Where a start may be.                                                   *)
Places ==
  {"off", "makeRoot", "lookAtFile", "makeFile", "checkFiles", "connect", "initLedger",
   "readLedger", "verify", "migrate", "commit"} \cup PastOpening \cup Ended

(* Where a start is that has read the ledger and found it in order.        *)
Past == {"verify", "migrate", "commit"} \cup PastOpening

Typed ==
  /\ pc \in [Starts -> Places]
  /\ applied \in [Starts -> SUBSET (1..10)]
  /\ ledger \subseteq 1..10
  /\ writer \in Starts \cup {None}

(* What such a start knows of the migrations: the first k are applied.     *)
Knows(p) ==
  \E k \in 0..9 :
    /\ applied[p] = 1..k /\ applied[p] \subseteq ledger
    /\ pc[p] = "commit" => k < 9
    /\ pc[p] \in PastOpening => k = 9

(* The ledger is then the program's own.                                   *)
Ordered == \E n \in 0..9 : ledger = 1..n

Read == \A p \in Starts : pc[p] \in Past => Knows(p) /\ Ordered

(* A transaction is its holder's next migration.                           *)
Locked ==
  /\ \A p \in Starts : pc[p] = "commit" <=> writer = p
  /\ \A p \in Starts : pc[p] = "commit" =>
       /\ staged.schema = Apply(NextVersion(p), schema)
       /\ staged.scopes = Backfill(NextVersion(p), scopes)

(* The last migration has made every current project a scope.              *)
Backfilled == ledger = 1..9 => sources \subseteq scopes

IInv == Typed /\ Read /\ Locked /\ LedgerTellsSchema /\ Backfilled

-----------------------------------------------------------------------------

(* Each table is created by one migration.                                 *)
LEMMA CreatesTables ==
  /\ Creates[1] = {"objects"} /\ Creates[2] = {"events"} /\ Creates[3] = {"sources"}
  /\ Creates[4] = {"hosts"} /\ Creates[5] = {"retirements"} /\ Creates[6] = {}
  /\ Creates[7] = {"scopes"} /\ Creates[8] = {"retention"} /\ Creates[9] = {}
BY DEF Creates, Versions, ObjectMigrations, EventMigrations, TargetMigrations

(* The schema of the first n migrations, one more applied, is that of the  *)
(* first n + 1.                                                            *)
LEMMA NextSchema ==
  ASSUME NEW n \in 0..8
  PROVE  Apply(n + 1, SchemaAt(n)) = SchemaAt(n + 1)
<1>1. SUFFICES ASSUME NEW m \in Names
               PROVE  Apply(n + 1, SchemaAt(n))[m] = SchemaAt(n + 1)[m]
  BY DEF Apply, SchemaAt
<1> DEFINE Before == \A v \in 1..n : m \notin Creates[v]
           Until == \A v \in 1..n + 1 : m \notin Creates[v]
<1>2. SchemaAt(n)[m] =
        IF Before THEN "absent" ELSE IF m \notin Guards THEN "defined"
        ELSE IF n < 6 THEN "legacy" ELSE "guarded"
  BY DEF SchemaAt
<1>3. SchemaAt(n + 1)[m] =
        IF Until THEN "absent" ELSE IF m \notin Guards THEN "defined"
        ELSE IF n + 1 < 6 THEN "legacy" ELSE "guarded"
  BY DEF SchemaAt
<1>4. Apply(n + 1, SchemaAt(n))[m] =
        IF m \in Creates[n + 1] THEN Created(m)
        ELSE IF n + 1 = 6 /\ m \in Guards THEN "guarded" ELSE SchemaAt(n)[m]
  BY DEF Apply
<1>5. 1..n + 1 = (1..n) \cup {n + 1}
  OBVIOUS
<1>6. Until <=> Before /\ m \notin Creates[n + 1]
  BY <1>5
<1>7. m \in Guards /\ m \in Creates[n + 1] => n + 1 < 6
  <2>1. n \in {5, 6, 7, 8} => Creates[n + 1] \cap Guards = {}
    BY CreatesTables DEF Guards
  <2> QED  BY <2>1
<1>8. m \in Guards /\ n + 1 = 6 => ~Before
  <2>1. SUFFICES ASSUME n = 5, m \in Guards PROVE ~Before
    OBVIOUS
  <2>2. 2 \in 1..n /\ 4 \in 1..n
    BY <2>1
  <2>3. m \in Creates[2] \/ m \in Creates[4]
    BY <2>1, CreatesTables DEF Guards
  <2> QED  BY <2>2, <2>3
<1> HIDE DEF Before, Until
<1>9. n \in Int
  OBVIOUS
<1> QED  BY <1>2, <1>3, <1>4, <1>6, <1>7, <1>8, <1>9 DEF Created

(* The versions that an initial part of the migrations has, counted.       *)
LEMMA Counting ==
  /\ \A k \in 0..9 : Cardinality(1..k) = k
  /\ \A k, n \in 0..9 : 1..k \subseteq 1..n => k <= n
  /\ \A k, n \in 0..9 : 1..k = 1..n => k = n
<1>1. ASSUME NEW k \in 0..9 PROVE Cardinality(1..k) = k
  <2>1. 1 \in Int /\ k \in Int /\ (1 > k <=> k = 0)
    OBVIOUS
  <2>2. Cardinality(1..k) = IF 1 > k THEN 0 ELSE k - 1 + 1
    BY <2>1, FS_Interval
  <2> QED  BY <2>1, <2>2
<1>2. ASSUME NEW k \in 0..9, NEW n \in 0..9, 1..k \subseteq 1..n PROVE k <= n
  <2>1. k = 0 \/ k \in 1..k
    OBVIOUS
  <2> QED  BY <1>2, <2>1
<1>3. ASSUME NEW k \in 0..9, NEW n \in 0..9, 1..k = 1..n PROVE k = n
  BY <1>1, <1>3
<1> QED  BY <1>1, <1>2, <1>3

-----------------------------------------------------------------------------

(* A data root that may be found is one that the migrations made.          *)
LEMMA InitIInv == Init => IInv
<1>1. SUFFICES ASSUME ServerInit PROVE IInv
  BY DEF Init
<1>2. PICK o \in Origins :
        /\ ledger = o.ledger
        /\ schema = SchemaAt(Cardinality(o.ledger \cap Versions))
        /\ sources = IF 3 \in o.ledger THEN Projects ELSE {}
        /\ scopes = IF 9 \in o.ledger THEN Projects ELSE {}
  BY <1>1 DEF ServerInit, DatabaseInit
<1>3. /\ writer = None /\ pc = [p \in Starts |-> "off"]
      /\ applied = [p \in Starts |-> {}]
  BY <1>1 DEF ServerInit, DatabaseInit
<1>4. ledger \subseteq 1..10
  BY <1>2, OriginsAssumption DEF DataRoot
<1>5. Typed
  <2>1. pc \in [Starts -> Places]
    BY <1>3 DEF Places
  <2>2. applied \in [Starts -> SUBSET (1..10)]
    <3>1. {} \in SUBSET (1..10)
      OBVIOUS
    <3>2. applied = [p \in Starts |-> {}]
      BY <1>3
    <3>3. \A p \in Starts : applied[p] \in SUBSET (1..10)
      BY <3>1, <3>2
    <3> QED  BY <3>2, <3>3
  <2> QED  BY <1>3, <1>4, <2>1, <2>2 DEF Typed
<1>6. Read
  BY <1>3 DEF Read, Past, PastOpening
<1>7. Locked
  BY <1>3, StartsAreNumbered DEF Locked
<1>8. LedgerTellsSchema
  <2>1. SUFFICES ASSUME NEW n \in 0..9, ledger = 1..n PROVE schema = SchemaAt(n)
    BY DEF LedgerTellsSchema
  <2>2. o.ledger \cap Versions = 1..n
    BY <1>2, <2>1 DEF Versions
  <2> QED  BY <1>2, <2>2, Counting
<1>9. Backfilled
  BY <1>2 DEF Backfilled
<1> QED  BY <1>5, <1>6, <1>7, <1>8, <1>9 DEF IInv

(* Steps that neither touch the database nor move a start.                 *)
LEMMA Stutters ==
  ASSUME IInv, UNCHANGED <<ledger, schema, scopes, sources, staged, applied, writer, pc>>
  PROVE  IInv'
<1>1. Typed'
  BY DEF IInv, Typed
<1>2. Read'
  <2>1. ASSUME NEW q \in Starts PROVE Knows(q)' <=> Knows(q)
    BY DEF Knows
  <2> QED  BY <2>1 DEF IInv, Read, Ordered
<1>3. Locked'
  BY DEF IInv, Locked, NextVersion, Backfill
<1>4. LedgerTellsSchema' /\ Backfilled'
  BY DEF IInv, LedgerTellsSchema, Backfilled
<1> QED  BY <1>1, <1>2, <1>3, <1>4 DEF IInv

(* Steps that move a start outside of a transaction, and a crash.          *)
LEMMA Moves ==
  ASSUME IInv, NEW p \in Starts, NEW at \in Places,
         pc' = [pc EXCEPT ![p] = at],
         UNCHANGED <<ledger, schema, scopes, sources, staged, applied>>,
         writer' = (IF writer = p THEN None ELSE writer),
         at # "commit",
         at \in Past => pc[p] \in Past /\ (at \in PastOpening => applied[p] = 1..9)
  PROVE  IInv'
<1>1. Typed'
  BY DEF IInv, Typed
<1>2. /\ pc'[p] = at
      /\ \A q \in Starts \ {p} : pc'[q] = pc[q]
  BY DEF IInv, Typed
<1>3. Read'
  <2>1. SUFFICES ASSUME NEW q \in Starts, pc'[q] \in Past PROVE Knows(q)' /\ Ordered'
    BY DEF Read
  <2>2. pc[q] \in Past
    BY <1>2, <2>1
  <2>3. Knows(q) /\ Ordered
    BY <2>2 DEF IInv, Read
  <2>4. PICK k \in 0..9 : /\ applied[q] = 1..k /\ applied[q] \subseteq ledger
                          /\ pc[q] = "commit" => k < 9
                          /\ pc[q] \in PastOpening => k = 9
    BY <2>3 DEF Knows
  <2>5. pc'[q] = "commit" => k < 9
    BY <1>2, <2>4
  <2>6. pc'[q] \in PastOpening => k = 9
    <3>1. CASE q = p
      <4>1. SUFFICES ASSUME pc'[q] \in PastOpening PROVE k = 9
        OBVIOUS
      <4>2. 1..k = 1..9
        BY <4>1, <3>1, <1>2, <2>1, <2>4
      <4> QED  BY <4>2, Counting
    <3>2. CASE q # p
      BY <3>2, <1>2, <2>4
    <3> QED  BY <3>1, <3>2
  <2>7. Knows(q)'
    BY <2>4, <2>5, <2>6 DEF Knows
  <2> QED  BY <2>3, <2>7 DEF Ordered
<1>4. Locked'
  <2>1. ASSUME NEW q \in Starts PROVE (pc'[q] = "commit") <=> (writer' = q)
    BY <1>2, StartsAreNumbered DEF IInv, Locked
  <2>2. ASSUME NEW q \in Starts, pc'[q] = "commit"
        PROVE  /\ staged'.schema = Apply(NextVersion(q), schema)'
               /\ staged'.scopes = Backfill(NextVersion(q), scopes)'
    BY <2>2, <1>2 DEF IInv, Locked, NextVersion, Apply, Backfill
  <2> QED  BY <2>1, <2>2 DEF Locked
<1>5. LedgerTellsSchema' /\ Backfilled'
  BY DEF IInv, LedgerTellsSchema, Backfilled
<1> QED  BY <1>1, <1>3, <1>4, <1>5 DEF IInv

-----------------------------------------------------------------------------

(* The steps of an opening outside of the ledger and of the transactions.  *)
LEMMA LooksKeepIInv ==
  ASSUME IInv, NEW p \in Starts,
         \/ LookAtRoot(p) \/ MakeRoot(p) \/ LookAtFile(p) \/ MakeFile(p)
         \/ CheckFiles(p) \/ Connect(p) \/ InitLedger(p) \/ Busy(p)
  PROVE  IInv'
<1>1. /\ UNCHANGED <<ledger, schema, scopes, sources, staged, applied, writer>>
      /\ pc[p] # "commit"
      /\ \E at \in Places \ Past : pc' = [pc EXCEPT ![p] = at]
  BY DEF LookAtRoot, MakeRoot, LookAtFile, MakeFile, CheckFiles, Connect, InitLedger, Busy,
         Goto, OrRefuse, database, disk, data, lock, Places, Past, PastOpening, Ended
<1>2. PICK at \in Places \ Past : pc' = [pc EXCEPT ![p] = at]
  BY <1>1
<1>3. writer # p
  BY <1>1 DEF IInv, Locked
<1>4. at # "commit"
  BY <1>2 DEF Past
<1> QED  BY <1>1, <1>2, <1>3, <1>4, Moves

(* A start that gets past the ledger has seen an initial part of the       *)
(* migrations, which is all there is in it at this moment.                 *)
LEMMA ReadLedgerKeepsIInv ==
  ASSUME IInv, NEW p \in Starts, ReadLedger(p)
  PROVE  IInv'
<1> DEFINE inOrder == /\ table = "ours" /\ ledger = 1..Cardinality(ledger)
                      /\ ledger \subseteq Versions /\ ledger \cap drifted = {}
           at == IF inOrder THEN "verify" ELSE "refused"
<1>1. /\ pc[p] = "readLedger"
      /\ pc' = [pc EXCEPT ![p] = at]
      /\ applied' = [applied EXCEPT ![p] = ledger]
      /\ UNCHANGED <<ledger, schema, scopes, sources, staged, writer>>
  BY DEF ReadLedger, Goto, OrRefuse, disk, data, lock
<1>2. inOrder => \E n \in 0..9 : ledger = 1..n
  <2>1. SUFFICES ASSUME inOrder PROVE \E n \in 0..9 : ledger = 1..n
    OBVIOUS
  <2>2. IsFiniteSet(1..10)
    <3>1. 1 \in Int /\ 10 \in Int
      OBVIOUS
    <3> QED  BY ONLY <3>1, FS_Interval
  <2>3. IsFiniteSet(ledger)
    BY <2>2, FS_Subset DEF IInv, Typed
  <2>4. Cardinality(ledger) \in Nat
    BY <2>3, FS_CardinalityType
  <2>5. ledger = 1..Cardinality(ledger) /\ ledger \subseteq 1..9
    BY <2>1 DEF Versions
  <2>6. ASSUME NEW c \in Nat, ledger = 1..c PROVE c \in 0..9
    <3>1. c = 0 \/ c \in 1..c
      OBVIOUS
    <3> QED  BY <2>5, <2>6, <3>1
  <2>7. Cardinality(ledger) \in 0..9
    BY <2>4, <2>5, <2>6
  <2> QED  BY <2>5, <2>7
<1> HIDE DEF inOrder
<1>3. /\ pc'[p] = at /\ applied'[p] = ledger
      /\ \A q \in Starts \ {p} : pc'[q] = pc[q] /\ applied'[q] = applied[q]
      /\ at \in {"verify", "refused"}
  BY <1>1 DEF IInv, Typed
<1>4. Typed'
  <2>1. at \in Places
    BY <1>3 DEF Places, Ended
  <2>2. ledger \in SUBSET (1..10)
    BY DEF IInv, Typed
  <2>3. pc' \in [Starts -> Places]
    BY <1>1, <2>1 DEF IInv, Typed
  <2>4. applied' \in [Starts -> SUBSET (1..10)]
    BY <1>1, <2>2 DEF IInv, Typed
  <2> QED  BY <1>1, <2>3, <2>4 DEF IInv, Typed
<1>5. Read'
  <2>1. SUFFICES ASSUME NEW q \in Starts, pc'[q] \in Past PROVE Knows(q)' /\ Ordered'
    BY DEF Read
  <2>2. CASE q = p
    <3>1. inOrder
      BY <1>3, <2>1, <2>2 DEF Past, PastOpening
    <3>2. PICK n \in 0..9 : ledger = 1..n
      BY <1>2, <3>1
    <3>3. pc'[p] \notin PastOpening /\ pc'[p] # "commit"
      BY <1>3 DEF PastOpening
    <3> QED  BY <1>1, <1>3, <2>2, <3>2, <3>3 DEF Knows, Ordered
  <2>3. CASE q # p
    <3>1. Knows(q) /\ Ordered
      BY <1>3, <2>1, <2>3 DEF IInv, Read
    <3> QED  BY <1>1, <1>3, <2>3, <3>1 DEF Knows, Ordered
  <2> QED  BY <2>2, <2>3
<1>6. Locked'
  <2>1. pc[p] # "commit" /\ pc'[p] # "commit"
    BY <1>1, <1>3
  <2> QED  BY <1>1, <1>3, <2>1 DEF IInv, Locked, NextVersion, Backfill
<1>7. LedgerTellsSchema' /\ Backfilled'
  BY <1>1 DEF IInv, LedgerTellsSchema, Backfilled
<1> QED  BY <1>4, <1>5, <1>6, <1>7 DEF IInv

(* The schema that was read is verified, and at the end of the migrations  *)
(* all nine of them are known to be there.                                 *)
LEMMA VerifyKeepsIInv ==
  ASSUME IInv, NEW p \in Starts, VerifyApplied(p) \/ Opened(p)
  PROVE  IInv'
<1>1. /\ UNCHANGED <<ledger, schema, scopes, sources, staged, applied, writer>>
      /\ pc[p] \in {"verify", "migrate"}
  BY DEF VerifyApplied, Opened, database, disk, data, lock
<1>2. pc[p] # "commit" /\ writer # p
  BY <1>1 DEF IInv, Locked
<1>3. CASE VerifyApplied(p)
  <2>1. PICK at \in {"migrate", "refused"} : pc' = [pc EXCEPT ![p] = at]
    BY <1>3 DEF VerifyApplied, Goto, OrRefuse
  <2>2. at \in Places /\ at # "commit" /\ at \notin PastOpening
    BY <2>1 DEF Places, Past, PastOpening, Ended
  <2>3. pc[p] \in Past
    BY <1>1 DEF Past
  <2> QED  BY <1>1, <1>2, <2>1, <2>2, <2>3, Moves
<1>4. CASE Opened(p)
  <2>1. pc' = [pc EXCEPT ![p] = "open"] /\ NextVersion(p) \notin Versions
    BY <1>4 DEF Opened, Goto
  <2>2. PICK k \in 0..9 : applied[p] = 1..k
    BY <1>1 DEF IInv, Read, Knows, Past
  <2>3. NextVersion(p) = k + 1
    BY <2>2, Counting DEF NextVersion
  <2>4. applied[p] = 1..9
    BY <2>1, <2>2, <2>3 DEF Versions
  <2>5. "open" \in Places /\ pc[p] \in Past
    BY <1>1 DEF Places, PastOpening, Past
  <2> QED  BY <1>1, <1>2, <2>1, <2>4, <2>5, Moves
<1> QED  BY <1>3, <1>4

(* A transaction begins under the lock, on the schema of now.              *)
LEMMA BeginKeepsIInv ==
  ASSUME IInv, NEW p \in Starts, BeginMigration(p)
  PROVE  IInv'
<1> DEFINE v == NextVersion(p)
<1>1. /\ pc[p] = "migrate" /\ v \in Versions /\ writer = None
      /\ UNCHANGED <<ledger, schema, scopes, sources, applied>>
  BY DEF BeginMigration, disk, data
<1>2. p # None /\ writer # p
  BY <1>1, StartsAreNumbered
<1>3. CASE ~Applies(v, schema)
  <2>1. pc' = [pc EXCEPT ![p] = "refused"] /\ UNCHANGED <<staged, writer>>
    BY <1>3 DEF BeginMigration, Goto, lock
  <2>2. "refused" \in Places /\ "refused" \notin Past
    BY DEF Places, Ended, Past, PastOpening
  <2> QED  BY <1>1, <1>2, <2>1, <2>2, Moves
<1>4. CASE Applies(v, schema)
  <2>1. /\ writer' = p /\ pc' = [pc EXCEPT ![p] = "commit"]
        /\ staged' = [schema |-> Apply(v, schema), scopes |-> Backfill(v, scopes)]
    BY <1>4 DEF BeginMigration, Goto
  <2>2. /\ pc'[p] = "commit"
        /\ \A q \in Starts \ {p} : pc'[q] = pc[q]
    BY <2>1 DEF IInv, Typed
  <2>3. Typed'
    <3>1. "commit" \in Places
      BY DEF Places
    <3> QED  BY <1>1, <2>1, <3>1 DEF IInv, Typed
  <2>4. Read'
    <3>1. SUFFICES ASSUME NEW q \in Starts, pc'[q] \in Past PROVE Knows(q)' /\ Ordered'
      BY DEF Read
    <3>2. Knows(q) /\ Ordered
      BY <1>1, <2>2, <3>1 DEF IInv, Read, Past
    <3>3. PICK k \in 0..9 : /\ applied[q] = 1..k /\ applied[q] \subseteq ledger
                            /\ pc[q] = "commit" => k < 9
                            /\ pc[q] \in PastOpening => k = 9
      BY <3>2 DEF Knows
    <3>4. pc'[q] = "commit" => k < 9
      <4>1. CASE q = p
        <5>1. v = k + 1
          BY <3>3, <4>1, Counting DEF NextVersion
        <5> HIDE DEF v
        <5> QED  BY <1>1, <5>1 DEF Versions
      <4>2. CASE q # p
        BY <2>2, <3>3, <4>2
      <4> QED  BY <4>1, <4>2
    <3>5. pc'[q] \in PastOpening => k = 9
      BY <2>2, <3>3 DEF PastOpening
    <3> QED  BY <1>1, <3>2, <3>3, <3>4, <3>5 DEF Knows, Ordered
  <2>5. Locked'
    <3>1. ASSUME NEW q \in Starts PROVE (pc'[q] = "commit") <=> (writer' = q)
      BY <1>1, <2>1, <2>2, StartsAreNumbered DEF IInv, Locked
    <3>2. /\ NextVersion(p)' = v
          /\ Backfill(v, scopes)' = Backfill(v, scopes)
      BY <1>1 DEF NextVersion, Backfill
    <3>3. ASSUME NEW q \in Starts, pc'[q] = "commit"
          PROVE  /\ staged'.schema = Apply(NextVersion(q), schema)'
                 /\ staged'.scopes = Backfill(NextVersion(q), scopes)'
      <4>1. q = p
        BY <2>1, <3>1, <3>3
      <4> QED  BY <1>1, <2>1, <4>1 DEF NextVersion, Backfill, Apply
    <3> QED  BY <3>1, <3>3 DEF Locked
  <2>6. LedgerTellsSchema' /\ Backfilled'
    BY <1>1 DEF IInv, LedgerTellsSchema, Backfilled
  <2> QED  BY <2>3, <2>4, <2>5, <2>6 DEF IInv
<1> QED  BY <1>3, <1>4

(* A commit: whoever commits has seen all there is in the ledger.          *)
LEMMA CommitKeepsIInv ==
  ASSUME IInv, NEW p \in Starts, CommitMigration(p)
  PROVE  IInv'
<1> DEFINE v == NextVersion(p)
           sound == Verifies(v, staged.schema) /\ v \notin ledger
<1>1. /\ pc[p] = "commit"
      /\ pc' = [pc EXCEPT ![p] = IF sound THEN "migrate" ELSE "refused"]
      /\ ledger' = IF sound THEN ledger \cup {v} ELSE ledger
      /\ applied' = [applied EXCEPT ![p] = IF sound THEN applied[p] \cup {v} ELSE applied[p]]
      /\ schema' = IF sound THEN staged.schema ELSE schema
      /\ scopes' = IF sound THEN staged.scopes ELSE scopes
      /\ writer' = None
      /\ UNCHANGED <<sources, staged>>
  BY DEF CommitMigration, OrRefuse, Goto
<1>2. /\ writer = p
      /\ staged.schema = Apply(v, schema) /\ staged.scopes = Backfill(v, scopes)
  BY <1>1 DEF IInv, Locked
<1>3. PICK k \in 0..9 : applied[p] = 1..k /\ applied[p] \subseteq ledger /\ k < 9
  BY <1>1 DEF IInv, Read, Knows, Past
<1>4. PICK n \in 0..9 : ledger = 1..n
  BY <1>1 DEF IInv, Read, Ordered, Past
<1>5. v = k + 1 /\ k <= n
  BY <1>3, <1>4, Counting DEF NextVersion
<1>6. sound => n = k /\ ledger' = 1..k + 1
  <2>1. SUFFICES ASSUME sound PROVE n = k /\ ledger' = 1..k + 1
    OBVIOUS
  <2>2. k + 1 \notin 1..n
    BY <1>4, <1>5, <2>1
  <2>3. n = k
    BY <1>5, <2>2
  <2>4. ledger' = (1..k) \cup {k + 1}
    BY <1>1, <1>4, <1>5, <2>1, <2>3
  <2> QED  BY <2>3, <2>4
<1> HIDE DEF sound, v
<1>7. /\ pc'[p] \in {"migrate", "refused"}
      /\ \A q \in Starts \ {p} : /\ pc'[q] = pc[q] /\ applied'[q] = applied[q]
                               /\ pc[q] # "commit"
      /\ applied'[p] = IF sound THEN applied[p] \cup {v} ELSE applied[p]
  <2>1. \A q \in Starts \ {p} : pc[q] # "commit"
    BY <1>2 DEF IInv, Locked
  <2> QED  BY <1>1, <2>1 DEF IInv, Typed
<1>8. Typed'
  <2>1. v \in 1..10
    BY <1>3, <1>5
  <2>2. pc' \in [Starts -> Places]
    <3>1. {"migrate", "refused"} \subseteq Places
      BY DEF Places, Ended
    <3>2. (IF sound THEN "migrate" ELSE "refused") \in Places
      BY <3>1
    <3> QED  BY <1>1, <3>2 DEF IInv, Typed
  <2>3. (IF sound THEN applied[p] \cup {v} ELSE applied[p]) \in SUBSET (1..10)
    BY <2>1 DEF IInv, Typed
  <2>4. applied' \in [Starts -> SUBSET (1..10)]
    BY <1>1, <2>3 DEF IInv, Typed
  <2>5. ledger' \subseteq 1..10
    BY <1>1, <2>1 DEF IInv, Typed
  <2> QED  BY <1>1, <2>2, <2>4, <2>5 DEF Typed
<1>9. Read'
  <2>1. Ordered'
    <3>1. CASE sound
      <4>1. k + 1 \in 0..9
        BY <1>3
      <4> QED  BY <1>6, <3>1, <4>1 DEF Ordered
    <3>2. CASE ~sound
      BY <1>1, <1>4, <3>2 DEF Ordered
    <3> QED  BY <3>1, <3>2
  <2>2. SUFFICES ASSUME NEW q \in Starts, pc'[q] \in Past PROVE Knows(q)'
    BY <2>1 DEF Read
  <2>3. CASE q = p
    <3>1. sound /\ pc'[p] = "migrate"
      BY <1>1, <1>7, <2>2, <2>3 DEF IInv, Typed, Past, PastOpening
    <3>2. applied'[p] = 1..k + 1 /\ applied'[p] \subseteq ledger'
      BY <1>3, <1>5, <1>6, <1>7, <3>1
    <3>3. k + 1 \in 0..9 /\ pc'[p] # "commit" /\ pc'[p] \notin PastOpening
      BY <1>3, <3>1 DEF PastOpening
    <3> QED  BY <2>3, <3>2, <3>3 DEF Knows
  <2>4. CASE q # p
    <3>1. PICK j \in 0..9 : /\ applied[q] = 1..j /\ applied[q] \subseteq ledger
                            /\ pc[q] \in PastOpening => j = 9
      BY <1>7, <2>2, <2>4 DEF IInv, Read, Knows
    <3>2. applied'[q] = 1..j /\ applied'[q] \subseteq ledger'
      BY <1>1, <1>7, <2>4, <3>1
    <3>3. pc'[q] # "commit" /\ (pc'[q] \in PastOpening => j = 9)
      BY <1>7, <2>4, <3>1
    <3> QED  BY <3>2, <3>3 DEF Knows
  <2> QED  BY <2>3, <2>4
<1>10. Locked'
  <2>1. \A q \in Starts : pc'[q] # "commit"
    BY <1>7
  <2> QED  BY <1>1, <2>1, StartsAreNumbered DEF Locked
<1>11. LedgerTellsSchema'
  <2>1. CASE sound
    <3>1. schema = SchemaAt(k)
      BY <1>4, <1>6, <2>1 DEF IInv, LedgerTellsSchema
    <3>2. schema' = SchemaAt(k + 1)
      <4>1. k \in 0..8
        BY <1>3
      <4> QED  BY <1>1, <1>2, <1>5, <2>1, <3>1, <4>1, NextSchema
    <3>3. ASSUME NEW m \in 0..9, ledger' = 1..m PROVE schema' = SchemaAt(m)
      <4>1. k + 1 \in 0..9 /\ 1..m = 1..k + 1
        BY <1>3, <1>6, <2>1, <3>3
      <4>2. m = k + 1
        BY <4>1, Counting
      <4> QED  BY <3>2, <4>2
    <3>4. \A m \in 0..9 : SchemaAt(m)' = SchemaAt(m)
      BY DEF SchemaAt, Creates, ObjectMigrations, EventMigrations, TargetMigrations
    <3> QED  BY <3>3, <3>4 DEF LedgerTellsSchema
  <2>2. CASE ~sound
    BY <1>1, <2>2 DEF IInv, LedgerTellsSchema
  <2> QED  BY <2>1, <2>2
<1>12. Backfilled'
  <2>1. CASE sound
    <3>1. SUFFICES ASSUME ledger' = 1..9 PROVE sources \subseteq scopes'
      BY <1>1 DEF Backfilled
    <3>2. v = 9
      <4>1. k + 1 \in 0..9 /\ 9 \in 0..9 /\ 1..k + 1 = 1..9
        BY <1>3, <1>6, <2>1, <3>1
      <4>2. k + 1 = 9
        BY <4>1, Counting
      <4> QED  BY <1>5, <4>2
    <3> QED  BY <1>1, <1>2, <2>1, <3>2 DEF Backfill
  <2>2. CASE ~sound
    BY <1>1, <2>2 DEF IInv, Backfilled
  <2> QED  BY <2>1, <2>2
<1> QED  BY <1>8, <1>9, <1>10, <1>11, <1>12 DEF IInv

LEMMA OpeningKeepsIInv ==
  ASSUME IInv, NEW p \in Starts, OpenNext(p)
  PROVE  IInv'
<1>1. CASE \/ LookAtRoot(p) \/ MakeRoot(p) \/ LookAtFile(p) \/ MakeFile(p)
           \/ CheckFiles(p) \/ Connect(p) \/ InitLedger(p) \/ Busy(p)
  BY <1>1, LooksKeepIInv
<1>2. CASE ReadLedger(p)
  BY <1>2, ReadLedgerKeepsIInv
<1>3. CASE VerifyApplied(p) \/ Opened(p)
  BY <1>3, VerifyKeepsIInv
<1>4. CASE BeginMigration(p)
  BY <1>4, BeginKeepsIInv
<1>5. CASE CommitMigration(p)
  BY <1>5, CommitKeepsIInv
<1> QED  BY <1>1, <1>2, <1>3, <1>4, <1>5 DEF OpenNext

(* What a server does with its open catalog leaves the database's schema   *)
(* and ledger alone, as does the end of its process.                       *)
LEMMA ServerKeepsIInv ==
  ASSUME IInv, NEW p \in Starts, StartStep(p)
  PROVE  IInv'
<1>1. CASE OpenNext(p)
  BY <1>1, OpeningKeepsIInv
<1>2. CASE \E r \in Roots : Register(p, r)
  <2>1. UNCHANGED <<ledger, schema, scopes, sources, staged, applied, writer, pc>>
    BY <1>2 DEF Register, database, disk, data, lock
  <2> QED  BY <2>1, Stutters
<1>3. CASE \/ ReadIdentity(p) \/ MintIdentity(p) \/ PersistIdentity(p) \/ Discover(p)
           \/ FailCandidate(p) \/ Listen(p) \/ CloseServer(p)
  <2>1. /\ UNCHANGED <<ledger, schema, scopes, sources, staged, applied, writer>>
        /\ pc[p] \in PastOpening
    BY <1>3 DEF ReadIdentity, MintIdentity, PersistIdentity, Discover, FailCandidate, Listen,
                CloseServer, database, disk, data, lock, PastOpening
  <2>2. PICK at \in PastOpening \cup Ended : pc' = [pc EXCEPT ![p] = at]
    BY <1>3 DEF ReadIdentity, MintIdentity, PersistIdentity, Discover, FailCandidate, Listen,
                CloseServer, Goto, PastOpening, Ended
  <2>3. pc[p] \in Past /\ applied[p] = 1..9
    BY <2>1 DEF IInv, Read, Knows, Past
  <2>4. pc[p] # "commit" /\ at # "commit" /\ at \in Places
    BY <2>1, <2>2 DEF PastOpening, Ended, Places
  <2>5. writer # p
    BY <2>4 DEF IInv, Locked
  <2> QED  BY <2>1, <2>2, <2>3, <2>4, <2>5, Moves
<1>4. CASE Crash(p)
  <2>1. /\ UNCHANGED <<ledger, schema, scopes, sources, staged, applied>>
        /\ writer' = IF writer = p THEN None ELSE writer
        /\ pc' = [pc EXCEPT ![p] = "crashed"]
    BY <1>4 DEF Crash, CrashDatabase, Goto, disk, data
  <2>2. "crashed" \in Places /\ "crashed" \notin Past
    BY DEF Places, Past, PastOpening, Ended
  <2>3. "crashed" # "commit"
    OBVIOUS
  <2> QED  BY <2>1, <2>2, <2>3, Moves
<1> QED  BY <1>1, <1>2, <1>3, <1>4 DEF StartStep, Serve

-----------------------------------------------------------------------------

(* The inductive invariant: what a start knows of the ledger, the lock,    *)
(* and the schema that the ledger tells.                                   *)
THEOREM DatabaseInvariance == Spec => []IInv
<1>1. IInv /\ [Next]_vars => IInv'
  <2> SUFFICES ASSUME IInv, [Next]_vars PROVE IInv'
    OBVIOUS
  <2>1. CASE \E p \in Starts : StartNext(p)
    BY <2>1, ServerKeepsIInv DEF StartNext
  <2>2. CASE PageNext \/ UNCHANGED vars
    <3>1. UNCHANGED <<ledger, schema, scopes, sources, staged, applied, writer, pc>>
      BY <2>2 DEF PageNext, vars, allVars, serverVars, database, disk, data, lock
    <3> QED  BY <3>1, Stutters
  <2> QED  BY <2>1, <2>2 DEF Next
<1> QED  BY InitIInv, <1>1, PTL DEF Spec

(* Whatever crashes and however starts overlap, the schema is the one that *)
(* the recorded migrations make: no migration is in the tables without its *)
(* row in the ledger, and no row without its migration.                    *)
THEOREM TheLedgerTellsTheSchema == Spec => []LedgerTellsSchema
<1>1. IInv => LedgerTellsSchema
  BY DEF IInv
<1> QED  BY <1>1, DatabaseInvariance, PTL

(* No start works on a database that is not migrated to the end, with all  *)
(* current projects among its scopes.                                      *)
THEOREM AnOpenCatalogIsWhole == Spec => []OpenHasWholeSchema
<1>1. ASSUME IInv PROVE OpenHasWholeSchema
  <2>1. SUFFICES ASSUME NEW p \in Starts, pc[p] \in PastOpening
                 PROVE  ledger = Versions /\ schema = SchemaAt(9) /\ sources \subseteq scopes
    BY DEF OpenHasWholeSchema
  <2>2. applied[p] = 1..9 /\ applied[p] \subseteq ledger /\ Ordered
    BY <1>1, <2>1 DEF IInv, Read, Knows, Past
  <2>3. PICK n \in 0..9 : ledger = 1..n
    BY <2>2 DEF Ordered
  <2>4. 9 \in 1..9
    OBVIOUS
  <2>5. n = 9
    BY <2>2, <2>3, <2>4
  <2> QED  BY <1>1, <2>3, <2>5 DEF IInv, LedgerTellsSchema, Backfilled, Versions
<1> QED  BY <1>1, DatabaseInvariance, PTL

-----------------------------------------------------------------------------
(* What is refused is left alone.                                            *)

(* A start has attested the root, the file, and the sidecars.              *)
InRoot == Places \ ({"off", "makeRoot"} \cup Ended)
InFile == InRoot \ {"lookAtFile", "makeFile"}
Connected == InFile \ {"checkFiles"}

(* The ledger is one that this program has written.                        *)
Own ==
  /\ table # "foreign" /\ ledger \cap drifted = {} /\ ledger \subseteq Versions
  /\ ledger = 1..Cardinality(ledger)

(* What is not there holds nothing, and what a start has attested stays so *)
(* as long as somebody builds on it.                                       *)
Attested ==
  /\ born \in [Starts -> BOOLEAN]
  /\ root = "absent" => file = "absent"
  /\ file = "absent" => table = "absent"
  /\ table = "absent" => ledger = {}
  /\ drifted \subseteq ledger
  /\ \A p \in Starts :
       /\ pc[p] \in InRoot => root = "private"
       /\ pc[p] \in InFile => file = "private"
       /\ pc[p] \in Connected => journal # "unsafe" /\ ~wal
       /\ pc[p] = "initLedger" => born[p]
       /\ born[p] => file = "private" /\ Own
       /\ pc[p] \in Past => table = "ours" /\ Own

Trusted == IInv /\ Attested

Suspect ==
  \/ Untrusted /\ (root = "unsafe" \/ file # "absent")
  \/ Unfinished /\ \A p \in Starts : ~Creating(p)

Kept == <<disk, data, identityFile, identity, rows>>

LEMMA PlacesDiffer ==
  /\ Past \subseteq Connected
  /\ InRoot = {"lookAtFile", "makeFile"} \cup InFile
  /\ InFile = {"checkFiles"} \cup Connected
  /\ Connected = {"connect", "initLedger", "readLedger"} \cup Past
  /\ {"off", "makeRoot", "lookAtFile", "makeFile", "checkFiles"} \cap Connected = {}
  /\ {"off", "makeRoot", "lookAtFile", "makeFile"} \cap InFile = {}
  /\ {"off", "makeRoot"} \cap InRoot = {}
  /\ Ended \cap InRoot = {}
  /\ {"connect", "initLedger", "readLedger"} \cap Past = {}
  BY DEF Places, Past, PastOpening, Ended, InRoot, InFile, Connected

LEMMA AttestedInit == Init => Attested
<1>1. SUFFICES ASSUME ServerInit PROVE Attested
  BY DEF Init
<1>2. PICK o \in Origins :
        /\ root = o.root /\ file = o.file /\ table = o.table
        /\ ledger = o.ledger /\ drifted = o.drifted
  BY <1>1 DEF ServerInit, DatabaseInit
<1>3. pc = [p \in Starts |-> "off"] /\ born = [p \in Starts |-> FALSE]
  BY <1>1 DEF ServerInit, DatabaseInit
<1>4. /\ root = "absent" => file = "absent"
      /\ file = "absent" => table = "absent"
      /\ table = "absent" => ledger = {}
      /\ drifted \subseteq ledger
  BY <1>2, OriginsAssumption DEF DataRoot
<1>5. \A p \in Starts : pc[p] = "off" /\ ~born[p]
  BY <1>3
<1>6. "off" \notin InRoot \cup InFile \cup Connected \cup Past /\ "off" # "initLedger"
  BY PlacesDiffer
<1> QED  BY <1>3, <1>4, <1>5, <1>6 DEF Attested

(* Steps that move one start and leave what is attested as it is.          *)
LEMMA MovesOn ==
  ASSUME Trusted, NEW p \in Starts, NEW at, pc' = [pc EXCEPT ![p] = at],
         UNCHANGED <<root, file, wal, table, ledger, drifted, born>>,
         journal' = "unsafe" => journal = "unsafe",
         at \in InRoot => root = "private",
         at \in InFile => file = "private",
         at \in Connected => journal # "unsafe" /\ ~wal,
         at = "initLedger" => born[p],
         at \in Past => table = "ours" /\ Own
  PROVE  Attested'
<1>1. pc'[p] = at /\ \A q \in Starts \ {p} : pc'[q] = pc[q]
  BY DEF Trusted, IInv, Typed
<1>2. Own' <=> Own
  BY DEF Own
<1>3. ASSUME NEW q \in Starts
      PROVE  /\ pc'[q] \in InRoot => root' = "private"
             /\ pc'[q] \in InFile => file' = "private"
             /\ pc'[q] \in Connected => journal' # "unsafe" /\ ~wal'
             /\ pc'[q] = "initLedger" => born'[q]
             /\ born'[q] => file' = "private" /\ Own'
             /\ pc'[q] \in Past => table' = "ours" /\ Own'
  <2>1. CASE q = p
    BY <1>1, <1>2, <2>1 DEF Trusted, Attested
  <2>2. CASE q # p
    BY <1>1, <1>2, <2>2 DEF Trusted, Attested
  <2> QED  BY <2>1, <2>2
<1> QED  BY <1>3 DEF Trusted, Attested

(* Nothing that anybody builds on moves.                                   *)
LEMMA StaysAttested ==
  ASSUME Trusted, UNCHANGED <<root, file, journal, wal, table, ledger, drifted, born, pc>>
  PROVE  Attested'
  BY DEF Trusted, Attested, Own

(* Where a start builds on the ledger, nothing is to be refused.           *)
LEMMA PastIsTrusted ==
  ASSUME Trusted, NEW p \in Starts, pc[p] \in Past
  PROVE  ~Suspect
<1>1. /\ root = "private" /\ file = "private" /\ journal # "unsafe" /\ ~wal
      /\ table = "ours" /\ Own
  BY PlacesDiffer DEF Trusted, Attested
<1> QED  BY <1>1 DEF Suspect, Untrusted, Unfinished, Own

(* Looking changes nothing, and a start goes on only if what it saw is in  *)
(* order.                                                                  *)
LEMMA LookingIsSafe ==
  ASSUME Trusted, NEW p \in Starts,
         LookAtRoot(p) \/ LookAtFile(p) \/ CheckFiles(p) \/ Connect(p)
  PROVE  Attested' /\ UNCHANGED <<disk, data>>
<1> USE PlacesDiffer
<1>1. CASE LookAtRoot(p)
  <2>1. PICK at \in {"makeRoot", "lookAtFile", "refused"} :
          pc' = [pc EXCEPT ![p] = at] /\ (at = "lookAtFile" => root = "private")
    BY <1>1 DEF LookAtRoot, Goto
  <2>2. at \in InRoot => at = "lookAtFile"
    BY DEF Ended
  <2>3. UNCHANGED database
    BY <1>1 DEF LookAtRoot
  <2> QED  BY <2>1, <2>2, <2>3, MovesOn DEF database, disk, data, lock
<1>2. CASE LookAtFile(p)
  <2>1. PICK at \in {"makeFile", "checkFiles", "refused"} :
          pc' = [pc EXCEPT ![p] = at] /\ (at = "checkFiles" => file = "private")
    BY <1>2 DEF LookAtFile, Goto
  <2>2. at \in InFile => at = "checkFiles"
    BY DEF Ended
  <2>3. root = "private"
    BY <1>2 DEF LookAtFile, Trusted, Attested
  <2>4. UNCHANGED database
    BY <1>2 DEF LookAtFile
  <2> QED  BY <2>1, <2>2, <2>3, <2>4, MovesOn DEF database, disk, data, lock
<1>3. CASE CheckFiles(p)
  <2>1. PICK at \in {"connect", "refused"} :
          pc' = [pc EXCEPT ![p] = at] /\ (at = "connect" => journal # "unsafe" /\ ~wal)
    BY <1>3 DEF CheckFiles, OrRefuse, Goto
  <2>2. at \in InRoot => at = "connect"
    BY DEF Ended
  <2>3. root = "private" /\ file = "private"
    BY <1>3 DEF CheckFiles, Trusted, Attested
  <2>4. UNCHANGED database
    BY <1>3 DEF CheckFiles
  <2> QED  BY <2>1, <2>2, <2>3, <2>4, MovesOn DEF database, disk, data, lock
<1>4. CASE Connect(p)
  <2>1. PICK at \in {"initLedger", "readLedger"} :
          pc' = [pc EXCEPT ![p] = at] /\ (at = "initLedger" => born[p])
    BY <1>4 DEF Connect, Goto
  <2>2. root = "private" /\ file = "private" /\ journal # "unsafe" /\ ~wal
    BY <1>4 DEF Connect, Trusted, Attested
  <2>3. /\ UNCHANGED <<disk, data, born>>
        /\ journal' \in {"none", journal}
    BY <1>4 DEF Connect
  <2> QED  BY <2>1, <2>2, <2>3, MovesOn DEF disk, data
<1> QED  BY <1>1, <1>2, <1>3, <1>4

(* A directory, a file or a ledger is made where there was none, and the   *)
(* ledger by nobody but the start that made the file.                      *)
LEMMA MakingIsSafe ==
  ASSUME Trusted, NEW p \in Starts, MakeRoot(p) \/ MakeFile(p) \/ InitLedger(p)
  PROVE  Attested' /\ (Suspect => UNCHANGED <<disk, data>>)
<1> USE PlacesDiffer
<1>1. CASE MakeRoot(p)
  <2>1. PICK at \in {"lookAtFile", "refused"} :
          /\ pc' = [pc EXCEPT ![p] = at]
          /\ at = "lookAtFile" <=> root = "absent"
    BY <1>1 DEF MakeRoot, OrRefuse, Goto
  <2>2. /\ root' = IF root = "absent" THEN "private" ELSE root
        /\ UNCHANGED <<file, journal, wal, table, ledger, drifted, sources, data, born>>
    BY <1>1 DEF MakeRoot, lock
  <2>3. Suspect => root # "absent"
    BY DEF Suspect, Unfinished, Trusted, Attested
  <2>4. /\ pc'[p] = at /\ \A q \in Starts \ {p} : pc'[q] = pc[q]
        /\ at \in InRoot => at = "lookAtFile"
    BY <2>1 DEF Trusted, IInv, Typed, Ended
  <2>5. Own' <=> Own
    BY <2>2 DEF Own
  <2>6. Attested'
    BY <2>1, <2>2, <2>4, <2>5 DEF Trusted, Attested
  <2> QED  BY <2>2, <2>3, <2>6 DEF disk, data
<1>2. CASE MakeFile(p)
  <2>1. PICK at \in {"checkFiles", "refused"} :
          /\ pc' = [pc EXCEPT ![p] = at]
          /\ at = "checkFiles" <=> file = "absent"
    BY <1>2 DEF MakeFile, OrRefuse, Goto
  <2>2. /\ file' = IF file = "absent" THEN "private" ELSE file
        /\ born' = [born EXCEPT ![p] = (file = "absent")]
        /\ UNCHANGED <<root, journal, wal, table, ledger, drifted, sources, data>>
    BY <1>2 DEF MakeFile, lock
  <2>3. root = "private"
    BY <1>2 DEF MakeFile, Trusted, Attested
  <2>4. Suspect => file # "absent"
    BY <2>3 DEF Suspect, Unfinished
  <2>5. /\ pc'[p] = at /\ \A q \in Starts \ {p} : pc'[q] = pc[q]
        /\ at \in InRoot => at = "checkFiles"
    BY <2>1 DEF Trusted, IInv, Typed, Ended
  <2>6. /\ born' \in [Starts -> BOOLEAN]
        /\ born'[p] <=> file = "absent"
        /\ \A q \in Starts \ {p} : born'[q] = born[q]
    BY <2>2 DEF Trusted, Attested
  <2>7. Own' <=> Own
    BY <2>2 DEF Own
  <2>8. file = "absent" => Own
    <3>1. SUFFICES ASSUME file = "absent" PROVE Own
      OBVIOUS
    <3>2. table = "absent" /\ ledger = {} /\ drifted = {}
      BY <3>1 DEF Trusted, Attested
    <3>3. Cardinality({}) = 0 /\ 1..0 = {}
      BY FS_EmptySet
    <3> QED  BY <3>2, <3>3 DEF Own
  <2>9. Attested'
    BY <2>1, <2>2, <2>3, <2>5, <2>6, <2>7, <2>8 DEF Trusted, Attested
  <2> QED  BY <2>2, <2>4, <2>9 DEF disk, data
<1>3. CASE InitLedger(p)
  <2>1. /\ pc[p] = "initLedger" /\ pc' = [pc EXCEPT ![p] = "readLedger"]
        /\ table' = IF table = "absent" THEN "ours" ELSE table
        /\ UNCHANGED <<root, file, journal, wal, ledger, drifted, sources, data, born>>
    BY <1>3 DEF InitLedger, Goto, lock
  <2>2. /\ root = "private" /\ file = "private" /\ journal # "unsafe" /\ ~wal
        /\ born[p] /\ Own
    BY <2>1 DEF Trusted, Attested
  <2>3. ~Suspect
    BY <2>1, <2>2 DEF Suspect, Untrusted, Unfinished, Creating, Own
  <2>4. pc'[p] = "readLedger" /\ \A q \in Starts \ {p} : pc'[q] = pc[q]
    BY <2>1 DEF Trusted, IInv, Typed
  <2>5. Own' /\ table' # "absent"
    BY <2>1, <2>2 DEF Own
  <2>6. \A q \in Starts : pc[q] \in Past => table' = "ours"
    BY <2>1 DEF Trusted, Attested
  <2>7. Attested'
    BY <2>1, <2>2, <2>4, <2>5, <2>6 DEF Trusted, Attested
  <2> QED  BY <2>3, <2>7
<1> QED  BY <1>1, <1>2, <1>3

(* Who reads the ledger builds on it only if it is the program's own.      *)
LEMMA ReadingIsSafe ==
  ASSUME Trusted, NEW p \in Starts,
         ReadLedger(p) \/ VerifyApplied(p) \/ Opened(p) \/ Busy(p)
  PROVE  Attested' /\ UNCHANGED <<disk, data>>
<1> USE PlacesDiffer
<1>1. /\ UNCHANGED <<disk, data, lock, born>>
      /\ pc[p] \in {"readLedger", "verify", "migrate"}
  BY DEF ReadLedger, VerifyApplied, Opened, Busy, database
<1>2. root = "private" /\ file = "private" /\ journal # "unsafe" /\ ~wal
  BY <1>1 DEF Trusted, Attested, Past
<1>3. PICK at \in {"verify", "migrate", "open", "refused"} :
        /\ pc' = [pc EXCEPT ![p] = at]
        /\ at # "refused" => table = "ours" /\ Own
  <2>1. CASE ReadLedger(p)
    BY <2>1 DEF ReadLedger, OrRefuse, Goto, Own
  <2>2. CASE VerifyApplied(p) \/ Opened(p) \/ Busy(p)
    <3>1. table = "ours" /\ Own
      BY <2>2 DEF VerifyApplied, Opened, Busy, Trusted, Attested, Past
    <3> QED  BY <2>2, <3>1 DEF VerifyApplied, Opened, Busy, OrRefuse, Goto
  <2> QED  BY <2>1, <2>2
<1>4. at \in InRoot => at # "refused"
  BY DEF Ended
<1> QED  BY <1>1, <1>2, <1>3, <1>4, MovesOn DEF disk, data, lock

(* A migration extends the program's own ledger by the version that        *)
(* follows.                                                                *)
LEMMA MigratingIsSafe ==
  ASSUME Trusted, NEW p \in Starts, BeginMigration(p) \/ CommitMigration(p)
  PROVE  Attested' /\ ~Suspect
<1> USE PlacesDiffer
<1>1. pc[p] \in {"migrate", "commit"} /\ pc[p] \in Past
  BY DEF BeginMigration, CommitMigration, Past
<1>2. /\ root = "private" /\ file = "private" /\ journal # "unsafe" /\ ~wal
      /\ table = "ours" /\ Own
  BY <1>1 DEF Trusted, Attested
<1>3. CASE BeginMigration(p)
  <2>1. PICK at \in {"commit", "refused"} : pc' = [pc EXCEPT ![p] = at]
    BY <1>3 DEF BeginMigration, Goto
  <2>2. UNCHANGED <<disk, born>> /\ (journal' = "unsafe" => journal = "unsafe")
    BY <1>3 DEF BeginMigration, lock
  <2>3. at # "initLedger"
    BY <2>1
  <2>4. Attested'
    BY <1>2, <2>1, <2>2, <2>3, MovesOn DEF disk
  <2> QED  BY <1>1, <2>4, PastIsTrusted
<1>4. CASE CommitMigration(p)
  <2> DEFINE v == NextVersion(p)
             sound == Verifies(v, staged.schema) /\ v \notin ledger
  <2>1. /\ pc[p] = "commit"
        /\ pc' = [pc EXCEPT ![p] = IF sound THEN "migrate" ELSE "refused"]
        /\ ledger' = IF sound THEN ledger \cup {v} ELSE ledger
        /\ journal' = "none"
        /\ UNCHANGED <<root, file, wal, table, drifted, born>>
    BY <1>4 DEF CommitMigration, OrRefuse, Goto
  <2>2. PICK k \in 0..9 : applied[p] = 1..k /\ applied[p] \subseteq ledger /\ k < 9
    BY <2>1 DEF Trusted, IInv, Read, Knows, Past
  <2>3. PICK n \in 0..9 : ledger = 1..n
    BY <1>1 DEF Trusted, IInv, Read, Ordered
  <2>4. v = k + 1 /\ k <= n
    BY <2>2, <2>3, Counting DEF NextVersion
  <2>5. sound => ledger' = 1..k + 1
    <3>1. SUFFICES ASSUME sound PROVE ledger' = 1..k + 1
      OBVIOUS
    <3>2. k + 1 \notin 1..n
      BY <2>3, <2>4, <3>1
    <3>3. n = k
      BY <2>4, <3>2
    <3> QED  BY <2>1, <2>3, <2>4, <3>1, <3>3
  <2> HIDE DEF sound, v
  <2>6. Own'
    <3>1. CASE sound
      <4>1. k + 1 \in 0..9
        BY <2>2
      <4>2. Cardinality(1..k + 1) = k + 1
        BY <4>1, Counting
      <4>3. ledger' = 1..Cardinality(ledger') /\ ledger' \subseteq Versions
        BY <2>2, <2>5, <3>1, <4>2 DEF Versions
      <4>4. ledger' \cap drifted' = {}
        <5>1. drifted \subseteq ledger /\ ledger \cap drifted = {}
          BY <1>2 DEF Trusted, Attested, Own
        <5> QED  BY <2>1, <5>1
      <4> QED  BY <1>2, <2>1, <4>3, <4>4 DEF Own
    <3>2. CASE ~sound
      BY <1>2, <2>1, <3>2 DEF Own
    <3> QED  BY <3>1, <3>2
  <2>7. /\ pc'[p] \in {"migrate", "refused"}
        /\ \A q \in Starts \ {p} : pc'[q] = pc[q]
    BY <2>1 DEF Trusted, IInv, Typed
  <2>8. drifted' \subseteq ledger'
    BY <2>1 DEF Trusted, Attested
  <2>9. \A q \in Starts : pc'[q] = "initLedger" => pc[q] = "initLedger"
    BY <2>7
  <2>10. ASSUME NEW q \in Starts
         PROVE  /\ pc'[q] \in InRoot => root' = "private"
                /\ pc'[q] \in InFile => file' = "private"
                /\ pc'[q] \in Connected => journal' # "unsafe" /\ ~wal'
                /\ pc'[q] = "initLedger" => born'[q]
                /\ born'[q] => file' = "private" /\ Own'
                /\ pc'[q] \in Past => table' = "ours" /\ Own'
    BY <1>2, <2>1, <2>6, <2>9 DEF Trusted, Attested
  <2>11. Attested'
    BY <1>2, <2>1, <2>8, <2>10 DEF Trusted, Attested
  <2> QED  BY <1>1, <2>11, PastIsTrusted
<1> QED  BY <1>1, <1>3, <1>4, PastIsTrusted

(* A server works on a catalog that it opened.                             *)
LEMMA ServingIsSafe ==
  ASSUME Trusted, NEW p \in Starts,
         \/ ReadIdentity(p) \/ MintIdentity(p) \/ PersistIdentity(p) \/ Discover(p)
         \/ \E r \in Roots : Register(p, r)
         \/ FailCandidate(p) \/ Listen(p) \/ CloseServer(p)
  PROVE  Attested' /\ ~Suspect
<1> USE PlacesDiffer
<1>1. pc[p] \in PastOpening /\ UNCHANGED database
  BY DEF ReadIdentity, MintIdentity, PersistIdentity, Discover, Register, FailCandidate, Listen,
         CloseServer, PastOpening
<1>2. pc[p] \in Past
  BY <1>1 DEF Past
<1>3. UNCHANGED <<root, file, journal, wal, table, ledger, drifted, born>>
  BY <1>1 DEF database, disk, data, lock
<1>4. pc' = pc \/ \E at \in PastOpening \cup Ended : pc' = [pc EXCEPT ![p] = at]
  BY DEF ReadIdentity, MintIdentity, PersistIdentity, Discover, Register, FailCandidate, Listen,
         CloseServer, Goto, PastOpening, Ended
<1>5. CASE pc' = pc
  BY <1>2, <1>3, <1>5, StaysAttested, PastIsTrusted
<1>6. CASE \E at \in PastOpening \cup Ended : pc' = [pc EXCEPT ![p] = at]
  <2>1. PICK at \in PastOpening \cup Ended : pc' = [pc EXCEPT ![p] = at]
    BY <1>6
  <2>2. /\ root = "private" /\ file = "private" /\ journal # "unsafe" /\ ~wal
        /\ table = "ours" /\ Own
    BY <1>2 DEF Trusted, Attested
  <2>3. at # "initLedger"
    BY DEF PastOpening, Ended
  <2> QED  BY <1>2, <1>3, <2>1, <2>2, <2>3, MovesOn, PastIsTrusted
<1> QED  BY <1>4, <1>5, <1>6

LEMMA StartIsSafe ==
  ASSUME Trusted, NEW p \in Starts, StartStep(p)
  PROVE  Attested' /\ (Suspect => UNCHANGED Kept)
<1>1. CASE OpenNext(p) /\ UNCHANGED server
  <2>1. Attested' /\ (Suspect => UNCHANGED <<disk, data>>)
    BY <1>1, LookingIsSafe, MakingIsSafe, ReadingIsSafe, MigratingIsSafe DEF OpenNext
  <2> QED  BY <1>1, <2>1 DEF server, identities, Kept
<1>2. CASE \/ ReadIdentity(p) \/ MintIdentity(p) \/ PersistIdentity(p) \/ Discover(p)
           \/ \E r \in Roots : Register(p, r)
           \/ FailCandidate(p) \/ Listen(p) \/ CloseServer(p)
  BY <1>2, ServingIsSafe
<1>3. CASE Crash(p)
  <2>1. /\ pc' = [pc EXCEPT ![p] = "crashed"]
        /\ UNCHANGED <<disk, data, journal, born, server>>
    BY <1>3 DEF Crash, CrashDatabase, Goto
  <2>2. "crashed" \notin InRoot \cup InFile \cup Connected \cup Past /\ "crashed" # "initLedger"
    BY PlacesDiffer DEF Ended
  <2>3. Attested'
    BY <2>1, <2>2, MovesOn DEF disk
  <2> QED  BY <2>1, <2>3 DEF server, identities, Kept
<1> QED  BY <1>1, <1>2, <1>3 DEF StartStep, Serve

LEMMA TrustedNext ==
  ASSUME Trusted, [Next]_vars
  PROVE  Attested' /\ (Suspect => UNCHANGED Kept)
<1>1. CASE \E p \in Starts : StartNext(p)
  BY <1>1, StartIsSafe DEF StartNext
<1>2. CASE PageNext \/ UNCHANGED vars
  <2>1. UNCHANGED <<database, pc, server>>
    BY <1>2 DEF PageNext, vars, allVars, serverVars
  <2> QED  BY <2>1, StaysAttested DEF database, disk, data, lock, server, identities, Kept
<1> QED  BY <1>1, <1>2 DEF Next

(* A database that must be refused is never written to: not by the start   *)
(* that refuses it, nor by one that created the file, read the ledger or   *)
(* holds a transaction while somebody else looks (openRuntimeDatabase,     *)
(* applyRuntimeMigrations).                                                *)
THEOREM RefusedIsUntouched == Spec => RefusalChangesNothing
<1>1. Init => Attested
  BY AttestedInit
<1>2. IInv /\ Attested /\ [Next]_vars => Attested'
  BY TrustedNext DEF Trusted
<1>3. IInv /\ Attested /\ [Next]_vars => (Suspect => UNCHANGED Kept)
  BY TrustedNext DEF Trusted
<1>4. Spec => []Attested
  BY <1>1, <1>2, DatabaseInvariance, PTL DEF Spec
<1>5. IInv /\ Attested /\ [Next]_vars =>
        [\/ Untrusted /\ (root = "unsafe" \/ file # "absent")
         \/ Unfinished /\ \A p \in Starts : ~Creating(p)
         => UNCHANGED <<disk, data, identityFile, identity, rows>>]_vars
  BY <1>3 DEF Suspect, Kept
<1> QED  BY <1>4, <1>5, DatabaseInvariance, PTL DEF Spec, RefusalChangesNothing

-----------------------------------------------------------------------------
(* A root keeps its id.                                                      *)

Identities == [principal : Starts \cup {None}, keys : [Slots -> Starts \cup {None}]]
Listing == {"register", "serving"} \cup Ended
Holding == {"persist", "discover", "register"}

ServerTyped ==
  /\ identity \in Identities
  /\ mine \in [Starts -> Identities]
  /\ listed \in [Starts -> SUBSET (Roots \X Starts)]
  /\ \A k \in DOMAIN rows : rows[k].id \in Starts

(* Who runs beside another start is known to have done so.                 *)
Company ==
  \A p, q \in Starts : p # q /\ Under(p) /\ Under(q) => p \in met

(* What a start lists is a row of its principal.                           *)
Rows ==
  \A p \in Starts :
    /\ listed[p] # {} => pc[p] \in Listing
    /\ \A t \in listed[p] :
         LET at == <<mine[p].principal, t[1]>>
         IN  at \in DOMAIN rows /\ rows[at].id = t[2]

(* A start that met no other and has written its identity has settled the  *)
(* principal: nobody is about to mint another, or holds one in memory.     *)
Lasting ==
  \A p \in Starts \ met :
    pc[p] \in {"discover", "register", "serving"} \/ listed[p] # {} =>
      /\ identityFile = "private" /\ identity.principal = mine[p].principal
      /\ \A q \in Starts :
           /\ pc[q] # "mint"
           /\ pc[q] \in Holding => mine[q].principal = identity.principal

Lists == ServerTyped /\ Company /\ Rows /\ Lasting

LEMMA ListsInit == Init => Lists
<1>1. SUFFICES ASSUME ServerInit PROVE Lists
  BY DEF Init
<1>2. /\ identity = NoIdentity /\ rows = [k \in {} |-> None]
      /\ mine = [p \in Starts |-> NoIdentity] /\ listed = [p \in Starts |-> {}]
      /\ pc = [p \in Starts |-> "off"]
  BY <1>1 DEF ServerInit, DatabaseInit
<1>3. NoIdentity \in Identities
  BY DEF NoIdentity, NoKeys, Identities
<1>4. \A p \in Starts : pc[p] = "off" /\ listed[p] = {}
  BY <1>2
<1>5. ServerTyped
  BY <1>2, <1>3 DEF ServerTyped
<1>6. Company /\ Rows /\ Lasting
  BY <1>4 DEF Company, Rows, Lasting, Under
<1> QED  BY <1>5, <1>6 DEF Lists

(* The history of meetings follows the starts.                             *)
LEMMA CompanyKept ==
  ASSUME NEW p \in Starts, StartStep(p)
  PROVE  Company' /\ met \subseteq met'
  BY DEF StartStep, Company, Under

(* A start that moves without touching identities and rows, or that goes   *)
(* where none of them matters.                                             *)
LEMMA MovingKeepsLists ==
  ASSUME IInv, Lists, NEW p \in Starts, NEW at, pc' = [pc EXCEPT ![p] = at],
         UNCHANGED <<identityFile, identity, mine, rows, listed>>,
         met \subseteq met', Company',
         at # "mint", at \in Holding => pc[p] \in Holding,
         at \in {"discover", "register", "serving"} =>
           pc[p] \in {"discover", "register", "serving"},
         pc[p] \in Listing => at \in Listing
  PROVE  Lists'
<1>1. pc'[p] = at /\ \A q \in Starts \ {p} : pc'[q] = pc[q]
  BY DEF IInv, Typed
<1>2. ServerTyped'
  BY DEF Lists, ServerTyped
<1>3. Rows'
  BY <1>1 DEF Lists, Rows
<1>4. Lasting'
  <2>1. SUFFICES ASSUME NEW q \in Starts \ met',
                        pc'[q] \in {"discover", "register", "serving"} \/ listed[q] # {}
                 PROVE  /\ identityFile = "private" /\ identity.principal = mine[q].principal
                        /\ \A o \in Starts :
                             /\ pc'[o] # "mint"
                             /\ pc'[o] \in Holding => mine[o].principal = identity.principal
    BY DEF Lasting
  <2>2. q \in Starts \ met
    BY <2>1
  <2>3. pc[q] \in {"discover", "register", "serving"} \/ listed[q] # {}
    BY <1>1, <2>1
  <2>4. /\ identityFile = "private" /\ identity.principal = mine[q].principal
        /\ \A o \in Starts :
             /\ pc[o] # "mint"
             /\ pc[o] \in Holding => mine[o].principal = identity.principal
    BY <2>2, <2>3 DEF Lists, Lasting
  <2> QED  BY <1>1, <2>4
<1> QED  BY <1>2, <1>3, <1>4 DEF Lists

LEMMA StandingKeepsLists ==
  ASSUME Lists, UNCHANGED <<identityFile, identity, mine, rows, listed, pc, met>>
  PROVE  Lists'
<1>1. ServerTyped' /\ Rows' /\ Lasting'
  BY DEF Lists, ServerTyped, Rows, Lasting
<1>2. Company'
  BY DEF Lists, Company, Under
<1> QED  BY <1>1, <1>2 DEF Lists

LEMMA OpeningKeepsLists ==
  ASSUME IInv, Lists, NEW p \in Starts, OpenNext(p), UNCHANGED server,
         met \subseteq met', Company'
  PROVE  Lists'
<1> DEFINE Opening == Places \ (PastOpening \cup Ended)
<1>1. pc[p] \in Opening
  BY DEF OpenNext, LookAtRoot, MakeRoot, LookAtFile, MakeFile, CheckFiles, Connect, InitLedger,
         ReadLedger, VerifyApplied, BeginMigration, CommitMigration, Busy, Opened,
         Places, PastOpening, Ended
<1>2. PICK at \in Opening \cup {"open", "refused"} : pc' = [pc EXCEPT ![p] = at]
  BY DEF OpenNext, LookAtRoot, MakeRoot, LookAtFile, MakeFile, CheckFiles, Connect, InitLedger,
         ReadLedger, VerifyApplied, BeginMigration, CommitMigration, Busy, Opened, Goto, OrRefuse,
         Places, PastOpening, Ended
<1>3. /\ at # "mint" /\ at \notin Holding
      /\ at \notin {"discover", "register", "serving"} /\ pc[p] \notin Listing
  BY <1>1, <1>2 DEF Places, PastOpening, Ended, Holding, Listing
<1> QED  BY <1>2, <1>3, MovingKeepsLists DEF server, identities

LEMMA EndingKeepsLists ==
  ASSUME IInv, Lists, NEW p \in Starts,
         Discover(p) \/ FailCandidate(p) \/ Listen(p) \/ CloseServer(p) \/ Crash(p),
         met \subseteq met', Company'
  PROVE  Lists'
<1>1. UNCHANGED <<identityFile, identity, mine, rows, listed>>
  BY DEF Discover, FailCandidate, Listen, CloseServer, Crash, server, identities
<1>2. PICK at \in {"register", "failed", "serving", "closed", "crashed"} :
        /\ pc' = [pc EXCEPT ![p] = at]
        /\ at = "register" => pc[p] = "discover"
        /\ at = "serving" => pc[p] = "register"
  BY DEF Discover, FailCandidate, Listen, CloseServer, Crash, Goto
<1>3. /\ at # "mint" /\ (at \in Holding => pc[p] \in Holding) /\ at \in Listing
      /\ at \in {"discover", "register", "serving"} =>
           pc[p] \in {"discover", "register", "serving"}
  BY <1>2 DEF Holding, Listing, Ended
<1> QED  BY <1>1, <1>2, <1>3, MovingKeepsLists

(* The identity is read: the one that is settled, if one is.               *)
LEMMA ReadingKeepsLists ==
  ASSUME IInv, Lists, NEW p \in Starts, ReadIdentity(p), met \subseteq met', Company'
  PROVE  Lists'
<1>1. PICK at \in {"mint", "persist", "failed"} :
        /\ pc' = [pc EXCEPT ![p] = at]
        /\ at = "mint" => identityFile = "absent"
  BY DEF ReadIdentity, Goto
<1>2. /\ pc[p] = "open" /\ mine' = [mine EXCEPT ![p] = identity]
      /\ UNCHANGED <<identityFile, identity, rows, listed>>
  BY DEF ReadIdentity
<1>3. /\ pc'[p] = at /\ \A q \in Starts \ {p} : pc'[q] = pc[q]
      /\ mine'[p] = identity /\ \A q \in Starts \ {p} : mine'[q] = mine[q]
      /\ listed[p] = {}
  <2>1. "open" \notin Listing
    BY DEF Listing, Ended
  <2> QED  BY <1>1, <1>2, <2>1 DEF IInv, Typed, Lists, ServerTyped, Rows
<1>4. ServerTyped'
  BY <1>2 DEF Lists, ServerTyped
<1>5. Rows'
  BY <1>2, <1>3 DEF Lists, Rows
<1>6. Lasting'
  <2>1. SUFFICES ASSUME NEW q \in Starts \ met',
                        pc'[q] \in {"discover", "register", "serving"} \/ listed[q] # {}
                 PROVE  /\ identityFile = "private" /\ identity.principal = mine'[q].principal
                        /\ \A o \in Starts :
                             /\ pc'[o] # "mint"
                             /\ pc'[o] \in Holding => mine'[o].principal = identity.principal
    BY <1>2 DEF Lasting
  <2>2. q # p /\ q \in Starts \ met
    BY <1>1, <1>3, <2>1
  <2>3. /\ identityFile = "private" /\ identity.principal = mine[q].principal
        /\ \A o \in Starts :
             /\ pc[o] # "mint"
             /\ pc[o] \in Holding => mine[o].principal = identity.principal
    BY <1>3, <2>1, <2>2 DEF Lists, Lasting
  <2> QED  BY <1>1, <1>3, <2>2, <2>3
<1> QED  BY <1>4, <1>5, <1>6 DEF Lists

(* Nobody mints an identity once one is settled.                           *)
LEMMA MintingKeepsLists ==
  ASSUME IInv, Lists, NEW p \in Starts, MintIdentity(p), met \subseteq met', Company'
  PROVE  Lists'
<1> DEFINE new == [principal |-> p, keys |-> NoKeys]
<1>1. /\ pc[p] = "mint" /\ pc' = [pc EXCEPT ![p] = "persist"]
      /\ mine' = [mine EXCEPT ![p] = new] /\ identity' = new
      /\ UNCHANGED <<rows, listed>>
  BY DEF MintIdentity, Goto
<1>2. new \in Identities
  BY DEF Identities, NoKeys
<1>3. /\ pc'[p] = "persist" /\ \A q \in Starts \ {p} : pc'[q] = pc[q]
      /\ \A q \in Starts \ {p} : mine'[q] = mine[q]
      /\ listed[p] = {}
  <2>1. "mint" \notin Listing
    BY DEF Listing, Ended
  <2> QED  BY <1>1, <2>1 DEF IInv, Typed, Lists, ServerTyped, Rows
<1>4. ServerTyped'
  <2> HIDE DEF new
  <2> QED  BY <1>1, <1>2 DEF Lists, ServerTyped
<1>5. Rows'
  BY <1>1, <1>3 DEF Lists, Rows
<1>6. Lasting'
  <2>1. SUFFICES ASSUME NEW q \in Starts \ met',
                        pc'[q] \in {"discover", "register", "serving"} \/ listed[q] # {}
                 PROVE  FALSE
    BY <1>1 DEF Lasting
  <2>2. q # p /\ q \in Starts \ met
    BY <1>3, <2>1
  <2>3. pc[p] # "mint"
    BY <1>3, <2>1, <2>2 DEF Lists, Lasting
  <2> QED  BY <1>1, <2>3
<1> QED  BY <1>4, <1>5, <1>6 DEF Lists

(* Whoever persists what it holds alone settles the principal, and nobody  *)
(* persists another.                                                       *)
LEMMA PersistingKeepsLists ==
  ASSUME IInv, Lists, NEW p \in Starts, PersistIdentity(p), met \subseteq met', Company'
  PROVE  Lists'
<1> DEFINE keys == [s \in Slots |->
                      IF s \in DOMAIN Config[p] THEN KeyOf(p, mine[p].keys, s) ELSE None]
           new == [principal |-> mine[p].principal, keys |-> keys]
<1>1. /\ pc[p] = "persist" /\ pc' = [pc EXCEPT ![p] = "discover"]
      /\ mine' = [mine EXCEPT ![p] = new] /\ identity' = new /\ identityFile' = "private"
      /\ UNCHANGED <<rows, listed>>
  BY DEF PersistIdentity, Goto
<1>2. new \in Identities
  <2>1. mine[p] \in Identities
    BY DEF Lists, ServerTyped
  <2>2. \A s \in Slots : keys[s] \in Starts \cup {None}
    BY <2>1 DEF Identities, KeyOf
  <2> QED  BY <2>1, <2>2 DEF Identities
<1>3. new.principal = mine[p].principal
  OBVIOUS
<1> HIDE DEF new
<1>4. /\ pc'[p] = "discover" /\ \A q \in Starts \ {p} : pc'[q] = pc[q]
      /\ mine'[p] = new /\ \A q \in Starts \ {p} : mine'[q] = mine[q]
      /\ listed[p] = {}
  <2>1. "persist" \notin Listing
    BY DEF Listing, Ended
  <2> QED  BY <1>1, <2>1 DEF IInv, Typed, Lists, ServerTyped, Rows
<1>5. ServerTyped'
  BY <1>1, <1>2 DEF Lists, ServerTyped
<1>6. Rows'
  BY <1>1, <1>4 DEF Lists, Rows
<1>7. Lasting'
  <2>1. SUFFICES ASSUME NEW q \in Starts \ met',
                        pc'[q] \in {"discover", "register", "serving"} \/ listed[q] # {}
                 PROVE  /\ new.principal = mine'[q].principal
                        /\ \A o \in Starts :
                             /\ pc'[o] # "mint"
                             /\ pc'[o] \in Holding => mine'[o].principal = new.principal
    BY <1>1 DEF Lasting
  <2>2. CASE q = p
    <3>1. "discover" \notin {"off", "serving"} \cup Ended
      BY DEF Ended
    <3>2. \A o \in Starts \ {p} : ~Under(o)'
      BY <1>4, <2>1, <2>2, <3>1 DEF Company, Under
    <3>3. ({"mint"} \cup Holding) \cap ({"off", "serving"} \cup Ended) = {}
      BY DEF Holding, Ended
    <3>4. \A o \in Starts \ {p} : pc'[o] # "mint" /\ pc'[o] \notin Holding
      BY <3>2, <3>3 DEF Under
    <3> QED  BY <1>4, <2>2, <3>4
  <2>3. CASE q # p
    <3>1. /\ identity.principal = mine[q].principal
          /\ \A o \in Starts :
               /\ pc[o] # "mint"
               /\ pc[o] \in Holding => mine[o].principal = identity.principal
      BY <1>4, <2>1, <2>3 DEF Lists, Lasting
    <3>2. mine[p].principal = identity.principal
      BY <1>1, <3>1 DEF Holding
    <3> QED  BY <1>3, <1>4, <2>3, <3>1, <3>2 DEF Holding
  <2> QED  BY <2>2, <2>3
<1> QED  BY <1>5, <1>6, <1>7 DEF Lists

(* A row that is there keeps its id.                                       *)
LEMMA RegisteringKeepsLists ==
  ASSUME IInv, Lists, NEW p \in Starts, NEW r \in Roots, Register(p, r),
         met \subseteq met', Company'
  PROVE  Lists'
<1> DEFINE at == <<mine[p].principal, r>>
           row == RowOf(p, r)
<1>1. /\ pc[p] = "register"
      /\ rows' = [k \in DOMAIN rows \cup {at} |-> IF k = at THEN row ELSE rows[k]]
      /\ listed' = [listed EXCEPT ![p] = listed[p] \cup {<<r, row.id>>}]
      /\ UNCHANGED <<pc, identityFile, identity, mine>>
  BY DEF Register, Target, identities
<1>2. row.id = IF at \in DOMAIN rows THEN rows[at].id ELSE p
  BY DEF RowOf
<1> HIDE DEF at, row
<1>3. row.id \in Starts
  BY <1>2 DEF Lists, ServerTyped
<1>4. /\ DOMAIN rows' = DOMAIN rows \cup {at} /\ rows'[at] = row
      /\ \A k \in DOMAIN rows : rows'[k].id = rows[k].id
  BY <1>1, <1>2
<1>5. /\ listed'[p] = listed[p] \cup {<<r, row.id>>}
      /\ \A q \in Starts \ {p} : listed'[q] = listed[q]
  BY <1>1 DEF Lists, ServerTyped
<1>6. ServerTyped'
  <2>1. listed' \in [Starts -> SUBSET (Roots \X Starts)]
    <3>1. listed[p] \cup {<<r, row.id>>} \in SUBSET (Roots \X Starts)
      BY <1>3 DEF Lists, ServerTyped
    <3> QED  BY <1>1, <3>1 DEF Lists, ServerTyped
  <2>2. \A k \in DOMAIN rows' : rows'[k].id \in Starts
    BY <1>3, <1>4 DEF Lists, ServerTyped
  <2> QED  BY <1>1, <2>1, <2>2 DEF Lists, ServerTyped
<1>7. Rows'
  <2>1. ASSUME NEW q \in Starts, NEW t \in listed'[q]
        PROVE  LET place == <<mine[q].principal, t[1]>>
               IN  place \in DOMAIN rows' /\ rows'[place].id = t[2]
    <3>1. CASE t \in listed[q]
      BY <1>4, <3>1 DEF Lists, Rows
    <3>2. CASE t \notin listed[q]
      <4>1. q = p /\ t = <<r, row.id>>
        BY <1>5, <2>1, <3>2
      <4>2. <<mine[q].principal, t[1]>> = at /\ t[2] = row.id
        BY <4>1 DEF at
      <4> QED  BY <1>4, <4>2
    <3> QED  BY <3>1, <3>2
  <2>2. \A q \in Starts : listed'[q] # {} => pc[q] \in Listing
    BY <1>1, <1>5 DEF Lists, Rows, Listing
  <2> QED  BY <1>1, <2>1, <2>2 DEF Rows
<1>8. Lasting'
  <2>1. \A q \in Starts : listed'[q] # {} => listed[q] # {} \/ pc[q] = "register"
    BY <1>1, <1>5
  <2> QED  BY <1>1, <2>1 DEF Lists, Lasting
<1> QED  BY <1>6, <1>7, <1>8 DEF Lists

LEMMA ListsNext == ASSUME IInv, Lists, [Next]_vars PROVE Lists'
<1>1. ASSUME NEW p \in Starts, StartStep(p) PROVE Lists'
  <2> Company' /\ met \subseteq met'
    BY <1>1, CompanyKept
  <2>1. CASE OpenNext(p) /\ UNCHANGED server
    BY <2>1, OpeningKeepsLists
  <2>2. CASE Discover(p) \/ FailCandidate(p) \/ Listen(p) \/ CloseServer(p) \/ Crash(p)
    BY <2>2, EndingKeepsLists
  <2>3. CASE ReadIdentity(p)
    BY <2>3, ReadingKeepsLists
  <2>4. CASE MintIdentity(p)
    BY <2>4, MintingKeepsLists
  <2>5. CASE PersistIdentity(p)
    BY <2>5, PersistingKeepsLists
  <2>6. CASE \E r \in Roots : Register(p, r)
    BY <2>6, RegisteringKeepsLists
  <2> QED  BY <1>1, <2>1, <2>2, <2>3, <2>4, <2>5, <2>6 DEF StartStep, Serve
<1>2. CASE PageNext \/ UNCHANGED vars
  BY <1>2, StandingKeepsLists DEF PageNext, vars, allVars, serverVars, server, identities
<1> QED  BY <1>1, <1>2 DEF Next, StartNext

(* Which starts hold an identity, and from where on they may.              *)
Has(p) == mine[p].principal # None
Held == {"mint", "persist", "discover", "register", "serving"} \cup Ended
Over == {"serving"} \cup Ended

(* Whoever has no principal has no key, and whoever persists has one.      *)
Named ==
  /\ identityFile = "absent" <=> identity.principal = None
  /\ identity.principal = None => \A s \in Slots : identity.keys[s] = None
  /\ \A p \in Starts :
       /\ ~Has(p) => \A s \in Slots : mine[p].keys[s] = None
       /\ Has(p) => pc[p] \in Held
       /\ pc[p] = "persist" => Has(p)

(* Of two starts, not both of which met another, the first is over, or     *)
(* serves, when the second is under way or holds an identity.              *)
InTurn ==
  \A p, o \in Starts :
    p < o /\ (Under(o) \/ Has(o)) /\ ~(p \in met /\ o \in met) => pc[p] \in Over

(* A start's key for a slot that none after it leaves out stays in the     *)
(* file and in the memory of whoever reads it.                             *)
UsedSince(p, s) == \A o \in Starts : p <= o /\ Has(o) => s \in DOMAIN Config[o]
Stays(p, s) ==
  /\ identityFile # "absent" /\ identity.keys[s] = mine[p].keys[s]
  /\ \A o \in Starts : p < o =>
       /\ pc[o] # "mint"
       /\ mine[o].keys[s] \in {None, mine[p].keys[s]}
       /\ pc[o] = "persist" => mine[o].keys[s] = mine[p].keys[s]
Filed ==
  \A p \in Starts \ met, s \in Slots :
    mine[p].keys[s] # None /\ UsedSince(p, s) => Stays(p, s)

Between(p, q, s) == \A o \in Starts : p <= o /\ o <= q => s \in DOMAIN Config[o]
OneKey(p, q, s) ==
  mine[p].keys[s] = mine[q].keys[s] \/ None \in {mine[p].keys[s], mine[q].keys[s]}
Same ==
  \A p, q \in Starts \ met, s \in Slots : p < q /\ Between(p, q, s) => OneKey(p, q, s)

Keyed == Named /\ InTurn /\ Filed /\ Same

LEMMA KeyedInit == Init => Keyed
<1>1. SUFFICES ASSUME ServerInit PROVE Keyed
  BY DEF Init
<1>2. /\ identityFile = "absent" /\ identity = NoIdentity /\ met = {}
      /\ mine = [p \in Starts |-> NoIdentity] /\ pc = [p \in Starts |-> "off"]
  BY <1>1 DEF ServerInit, DatabaseInit
<1>3. NoIdentity.principal = None /\ \A s \in Slots : NoIdentity.keys[s] = None
  BY DEF NoIdentity, NoKeys
<1>4. \A p \in Starts : mine[p] = NoIdentity /\ pc[p] = "off"
  BY <1>2
<1>5. Named
  BY <1>2, <1>3, <1>4 DEF Named, Has
<1>6. InTurn /\ Filed /\ Same
  BY <1>3, <1>4 DEF InTurn, Filed, Same, OneKey, Has, Under
<1> QED  BY <1>5, <1>6 DEF Keyed

(* A step of a start moves it on, and changes identities in three ways.    *)
Quiet(p, at) ==
  /\ UNCHANGED <<identityFile, identity, mine>>
  /\ at \notin {"mint", "persist"} /\ (pc[p] \in Held => at \in Held)

LEMMA StepsOfAStart ==
  ASSUME IInv, NEW p \in Starts, StartStep(p)
  PROVE  \E at : /\ pc' = [pc EXCEPT ![p] = at]
                 /\ pc[p] \in Over => at \in Over
                 /\ Quiet(p, at) \/ ReadIdentity(p) \/ MintIdentity(p) \/ PersistIdentity(p)
<1> DEFINE Opening == Places \ (PastOpening \cup Ended)
<1>1. CASE OpenNext(p) /\ UNCHANGED server
  <2>1. pc[p] \in Opening
    BY <1>1 DEF OpenNext, LookAtRoot, MakeRoot, LookAtFile, MakeFile, CheckFiles, Connect,
           InitLedger, ReadLedger, VerifyApplied, BeginMigration, CommitMigration, Busy, Opened,
           Places, PastOpening, Ended
  <2>2. PICK at \in Opening \cup {"open", "refused"} : pc' = [pc EXCEPT ![p] = at]
    BY <1>1 DEF OpenNext, LookAtRoot, MakeRoot, LookAtFile, MakeFile, CheckFiles, Connect,
           InitLedger, ReadLedger, VerifyApplied, BeginMigration, CommitMigration, Busy, Opened,
           Goto, OrRefuse, Places, PastOpening, Ended
  <2>3. at \notin {"mint", "persist"} /\ pc[p] \notin Held /\ pc[p] \notin Over
    BY <2>1, <2>2 DEF Places, PastOpening, Ended, Held, Over
  <2> QED  BY <1>1, <2>2, <2>3 DEF Quiet, server, identities
<1>2. CASE Discover(p) \/ FailCandidate(p) \/ Listen(p) \/ CloseServer(p) \/ Crash(p)
  <2>1. UNCHANGED <<identityFile, identity, mine>>
    BY <1>2 DEF Discover, FailCandidate, Listen, CloseServer, Crash, server, identities
  <2>2. PICK at \in {"register", "failed", "serving", "closed", "crashed"} :
          /\ pc' = [pc EXCEPT ![p] = at]
          /\ at = "register" => pc[p] = "discover"
    BY <1>2 DEF Discover, FailCandidate, Listen, CloseServer, Crash, Goto
  <2>3. /\ at \notin {"mint", "persist"} /\ at \in Held
        /\ pc[p] \in Over => at \in Over
    BY <2>2 DEF Held, Over, Ended
  <2> QED  BY <2>1, <2>2, <2>3 DEF Quiet
<1>3. CASE \E r \in Roots : Register(p, r)
  <2>1. UNCHANGED <<identityFile, identity, mine, pc>> /\ pc[p] = "register"
    BY <1>3 DEF Register, identities
  <2>2. pc' = [pc EXCEPT ![p] = pc[p]]
    BY <2>1 DEF IInv, Typed
  <2> QED  BY <2>1, <2>2 DEF Quiet
<1>4. CASE ReadIdentity(p) \/ MintIdentity(p) \/ PersistIdentity(p)
  <2>1. pc[p] \in {"open", "mint", "persist"} /\ \E at : pc' = [pc EXCEPT ![p] = at]
    BY <1>4 DEF ReadIdentity, MintIdentity, PersistIdentity, Goto
  <2>2. pc[p] \notin Over
    BY <2>1 DEF Over, Ended
  <2> QED  BY <1>4, <2>1, <2>2
<1> QED  BY <1>1, <1>2, <1>3, <1>4 DEF StartStep, Serve

(* The three ways, seen from any slot.                                     *)
LEMMA Changes ==
  ASSUME IInv, Lists, NEW p \in Starts,
         ReadIdentity(p) \/ MintIdentity(p) \/ PersistIdentity(p)
  PROVE  /\ pc[p] \in {"open", "mint", "persist"} /\ Under(p)
         /\ \A q \in Starts \ {p} : mine'[q] = mine[q] /\ pc'[q] = pc[q]
         /\ \/ /\ pc[p] = "open" /\ mine'[p] = identity
               /\ UNCHANGED <<identityFile, identity>>
               /\ pc'[p] \in {"mint", "persist", "failed"}
               /\ pc'[p] = "mint" => identityFile = "absent"
               /\ pc'[p] = "persist" => identityFile # "absent"
            \/ /\ pc[p] = "mint" /\ pc'[p] = "persist"
               /\ mine'[p] = identity' /\ identityFile' = "private"
               /\ identity'.principal = p
               /\ \A s \in Slots : identity'.keys[s] = None
            \/ /\ pc[p] = "persist" /\ pc'[p] = "discover"
               /\ mine'[p] = identity' /\ identityFile' = "private"
               /\ identity'.principal = mine[p].principal
               /\ \A s \in Slots :
                    identity'.keys[s] = IF s \in DOMAIN Config[p]
                                          THEN KeyOf(p, mine[p].keys, s) ELSE None
<1>0. mine \in [Starts -> Identities] /\ pc \in [Starts -> Places]
  BY DEF Lists, ServerTyped, IInv, Typed
<1>1. CASE ReadIdentity(p)
  <2>1. PICK at \in {"mint", "persist", "failed"} :
          /\ pc' = [pc EXCEPT ![p] = at]
          /\ at = "mint" => identityFile = "absent"
          /\ at = "persist" => identityFile # "absent"
    BY <1>1 DEF ReadIdentity, Goto
  <2>2. pc[p] = "open" /\ mine' = [mine EXCEPT ![p] = identity] /\ UNCHANGED <<identityFile, identity>>
    BY <1>1 DEF ReadIdentity
  <2> QED  BY <1>0, <2>1, <2>2 DEF Under, Ended
<1>2. CASE MintIdentity(p)
  <2> DEFINE new == [principal |-> p, keys |-> NoKeys]
  <2>1. /\ pc[p] = "mint" /\ pc' = [pc EXCEPT ![p] = "persist"]
        /\ mine' = [mine EXCEPT ![p] = new] /\ identity' = new /\ identityFile' = "private"
    BY <1>2 DEF MintIdentity, Goto
  <2>2. new.principal = p /\ \A s \in Slots : new.keys[s] = None
    BY DEF NoKeys
  <2> HIDE DEF new
  <2> QED  BY <1>0, <2>1, <2>2 DEF Under, Ended
<1>3. CASE PersistIdentity(p)
  <2> DEFINE keys == [s \in Slots |->
                        IF s \in DOMAIN Config[p] THEN KeyOf(p, mine[p].keys, s) ELSE None]
             new == [principal |-> mine[p].principal, keys |-> keys]
  <2>1. /\ pc[p] = "persist" /\ pc' = [pc EXCEPT ![p] = "discover"]
        /\ mine' = [mine EXCEPT ![p] = new] /\ identity' = new /\ identityFile' = "private"
    BY <1>3 DEF PersistIdentity, Goto
  <2>2. new.principal = mine[p].principal /\ \A s \in Slots : new.keys[s] = keys[s]
    OBVIOUS
  <2> HIDE DEF new
  <2> QED  BY <1>0, <2>1, <2>2 DEF Under, Ended
<1> QED  BY <1>1, <1>2, <1>3

LEMMA NamedNext ==
  ASSUME IInv, Lists, Named, NEW p \in Starts, NEW at, pc' = [pc EXCEPT ![p] = at],
         Quiet(p, at) \/ ReadIdentity(p) \/ MintIdentity(p) \/ PersistIdentity(p)
  PROVE  Named'
<1>0. pc'[p] = at /\ \A q \in Starts \ {p} : pc'[q] = pc[q]
  BY DEF IInv, Typed
<1>1. CASE Quiet(p, at)
  BY <1>0, <1>1 DEF Named, Quiet, Has
<1>2. CASE ReadIdentity(p) \/ MintIdentity(p) \/ PersistIdentity(p)
  <2>1. {"mint", "persist", "failed", "discover"} \subseteq Held /\ p # None
    BY StartsAreNumbered DEF Held, Ended
  <2>2. \A q \in Starts \ {p} :
          /\ ~Has(q)' => \A s \in Slots : mine'[q].keys[s] = None
          /\ Has(q)' => pc'[q] \in Held
          /\ pc'[q] = "persist" => Has(q)'
    BY <1>2, Changes DEF Named, Has
  <2>3. /\ identityFile' = "absent" <=> identity'.principal = None
        /\ identity'.principal = None => \A s \in Slots : identity'.keys[s] = None
    BY <1>2, <2>1, Changes DEF Named, Has
  <2>4. /\ ~Has(p)' => \A s \in Slots : mine'[p].keys[s] = None
        /\ Has(p)' => pc'[p] \in Held
        /\ pc'[p] = "persist" => Has(p)'
    BY <1>2, <2>1, <2>3, Changes DEF Named, Has
  <2> QED  BY <2>2, <2>3, <2>4 DEF Named
<1> QED  BY <1>1, <1>2

(* Starts come one after the other.                                        *)
LEMMA InTurnNext ==
  ASSUME IInv, InTurn, NEW p \in Starts, StartStep(p), NEW at, pc' = [pc EXCEPT ![p] = at],
         pc[p] \in Over => at \in Over,
         \A q \in Starts \ {p} : Has(q)' <=> Has(q), Has(p)' => Has(p) \/ Under(p)
  PROVE  InTurn'
<1>0. pc'[p] = at /\ \A q \in Starts \ {p} : pc'[q] = pc[q]
  BY DEF IInv, Typed
<1>1. \A q \in Starts \ {p} : Under(q)' <=> Under(q)
  BY <1>0 DEF Under
<1>2. /\ \A q \in Starts : q < p => pc[q] # "off"
      /\ met' = met \cup {q \in Starts : Under(q)' /\ \E o \in Starts \ {q} : Under(o)'}
  BY DEF StartStep
<1>3. SUFFICES ASSUME NEW q \in Starts, NEW o \in Starts, q < o, Under(o)' \/ Has(o)',
                      ~(q \in met' /\ o \in met')
               PROVE  pc'[q] \in Over
  BY DEF InTurn
<1>4. q # o /\ ~(q \in met /\ o \in met)
  BY <1>2, <1>3, StartsAreNumbered
<1>5. CASE Under(o) \/ Has(o)
  <2>1. pc[q] \in Over
    BY <1>3, <1>4, <1>5 DEF InTurn
  <2> QED  BY <1>0, <2>1
<1>6. CASE ~(Under(o) \/ Has(o))
  <2>1. o = p /\ Under(p)'
    BY <1>1, <1>3, <1>6
  <2>2. pc[q] # "off" /\ ~Under(q)
    BY <1>1, <1>2, <1>3, <1>4, <2>1
  <2> QED  BY <1>0, <1>4, <2>1, <2>2 DEF Under, Over
<1> QED  BY <1>5, <1>6

(* Whoever is in one of the three steps is under way: no start after it    *)
(* holds anything, unless both met another.                                *)
LEMMA Changing ==
  ASSUME IInv, Lists, Named, InTurn, NEW p \in Starts,
         ReadIdentity(p) \/ MintIdentity(p) \/ PersistIdentity(p)
  PROVE  /\ \A o \in Starts : p < o /\ ~(p \in met /\ o \in met) => ~Under(o) /\ ~Has(o)
         /\ \A o \in Starts \ {p} : Has(o)' <=> Has(o)
         /\ Has(p) => Has(p)'
<1>1. pc[p] \notin Over
  BY Changes DEF Over, Ended
<1>2. \A o \in Starts : p < o /\ ~(p \in met /\ o \in met) => ~Under(o) /\ ~Has(o)
  BY <1>1 DEF InTurn
<1>3. \A o \in Starts \ {p} : Has(o)' <=> Has(o)
  BY Changes DEF Has
<1>4. "open" \notin Held /\ p # None
  BY StartsAreNumbered DEF Held, Ended
<1>5. Has(p) => Has(p)'
  BY <1>4, Changes DEF Has, Named
<1> QED  BY <1>2, <1>3, <1>5

LEMMA FiledNext ==
  ASSUME IInv, Lists, Keyed, NEW p \in Starts, NEW at, pc' = [pc EXCEPT ![p] = at],
         Quiet(p, at) \/ ReadIdentity(p) \/ MintIdentity(p) \/ PersistIdentity(p),
         met \subseteq met'
  PROVE  Filed'
<1>1. SUFFICES ASSUME NEW n \in Starts \ met', NEW s \in Slots,
                      mine'[n].keys[s] # None, UsedSince(n, s)'
               PROVE  Stays(n, s)'
  BY DEF Filed
<1>2. n \notin met /\ (\A o \in Starts : n < o => o # n)
  BY <1>1, StartsAreNumbered
<1>3. CASE Quiet(p, at)
  <2>1. UNCHANGED <<identityFile, identity, mine>> /\ at \notin {"mint", "persist"}
    BY <1>3 DEF Quiet
  <2>2. UsedSince(n, s) /\ mine[n].keys[s] # None
    BY <1>1, <2>1 DEF UsedSince, Has
  <2>3. Stays(n, s)
    BY <1>2, <2>2 DEF Keyed, Filed
  <2>4. pc'[p] = at /\ \A q \in Starts \ {p} : pc'[q] = pc[q]
    BY DEF IInv, Typed
  <2> QED  BY <2>1, <2>3, <2>4 DEF Stays
<1>4. CASE ReadIdentity(p) \/ MintIdentity(p) \/ PersistIdentity(p)
  <2>0. Named /\ InTurn /\ Filed
    BY DEF Keyed
  <2>1. CASE n = p
    <3>1. /\ mine'[p] = identity'
          /\ identityFile' # "absent"
      BY <1>1, <1>4, <2>0, <2>1, Changes DEF Named
    <3>2. ASSUME NEW o \in Starts, p < o
          PROVE  pc'[o] # "mint" /\ pc'[o] # "persist" /\ mine'[o].keys[s] = None
      <4>1. o # p /\ ~Under(o) /\ ~Has(o)
        BY <1>2, <1>4, <2>0, <2>1, <3>2, Changing
      <4>2. pc'[o] = pc[o] /\ mine'[o] = mine[o]
        BY <1>4, <4>1, Changes
      <4>3. mine[o].keys[s] = None
        BY <4>1, <2>0 DEF Named
      <4> QED  BY <4>1, <4>2, <4>3 DEF Under, Ended
    <3> QED  BY <2>1, <3>1, <3>2 DEF Stays
  <2>2. CASE n # p
    <3>1. mine'[n] = mine[n] /\ Has(n) /\ mine[n].keys[s] # None
      BY <1>1, <1>4, <2>0, <2>2, Changes DEF Named
    <3>2. n < p
      BY <1>2, <1>4, <2>0, <2>2, <3>1, Changing, StartsAreNumbered
    <3>3. UsedSince(n, s)
      BY <1>1, <1>4, <2>0, Changing DEF UsedSince
    <3>4. Stays(n, s)
      BY <1>2, <2>0, <3>1, <3>3 DEF Filed
    <3>5. identityFile # "absent" /\ identity.keys[s] = mine[n].keys[s] /\ pc[p] # "mint"
          /\ (pc[p] = "persist" => mine[p].keys[s] = mine[n].keys[s])
      BY <3>2, <3>4 DEF Stays
    <3>6. pc[p] = "persist" => s \in DOMAIN Config[p]
      <4>1. n <= p
        BY <3>2, StartsAreNumbered
      <4> QED  BY <2>0, <3>3, <4>1 DEF Named, UsedSince
    <3>7. /\ identityFile' # "absent" /\ identity'.keys[s] = mine[n].keys[s]
          /\ mine'[p].keys[s] = mine[n].keys[s] /\ pc'[p] # "mint"
      BY <1>4, <3>1, <3>5, <3>6, Changes DEF KeyOf
    <3>8. ASSUME NEW o \in Starts, n < o
          PROVE  /\ pc'[o] # "mint"
                 /\ mine'[o].keys[s] \in {None, mine[n].keys[s]}
                 /\ pc'[o] = "persist" => mine'[o].keys[s] = mine[n].keys[s]
      <4>1. CASE o = p
        BY <3>7, <4>1
      <4>2. CASE o # p
        BY <1>4, <3>4, <3>8, <4>2, Changes DEF Stays
      <4> QED  BY <4>1, <4>2
    <3> QED  BY <3>1, <3>7, <3>8 DEF Stays
  <2> QED  BY <2>1, <2>2
<1> QED  BY <1>3, <1>4

LEMMA SameNext ==
  ASSUME IInv, Lists, Keyed, Filed', NEW p \in Starts, NEW at,
         Quiet(p, at) \/ ReadIdentity(p) \/ MintIdentity(p) \/ PersistIdentity(p),
         met \subseteq met'
  PROVE  Same'
<1>1. SUFFICES ASSUME NEW n \in Starts \ met', NEW q \in Starts \ met', NEW s \in Slots,
                      n < q, Between(n, q, s)
               PROVE  OneKey(n, q, s)'
  BY DEF Same, Between
<1>2. n \notin met /\ q \notin met /\ OneKey(n, q, s) /\ Named /\ InTurn
  BY <1>1 DEF Keyed, Same
<1>3. CASE Quiet(p, at)
  BY <1>2, <1>3 DEF Quiet, OneKey
<1>4. CASE ReadIdentity(p) \/ MintIdentity(p) \/ PersistIdentity(p)
  <2>1. CASE p \notin {n, q}
    <3>1. mine'[n] = mine[n] /\ mine'[q] = mine[q]
      BY <1>4, <2>1, Changes
    <3> QED  BY <1>2, <3>1 DEF OneKey
  <2>2. CASE p = n
    <3>1. ~Has(q) /\ q # p
      BY <1>1, <1>2, <1>4, <2>2, Changing, StartsAreNumbered
    <3>2. mine'[q].keys[s] = None
      BY <1>2, <1>4, <3>1, Changes DEF Named
    <3> QED  BY <3>2 DEF OneKey
  <2>3. CASE p = q
    <3>1. ASSUME NEW o \in Starts, n <= o, Has(o)' PROVE s \in DOMAIN Config[o]
      <4>1. ~ q < o
        <5>1. SUFFICES ASSUME q < o PROVE FALSE
          OBVIOUS
        <5>2. o # p
          BY <2>3, <5>1, StartsAreNumbered
        <5> QED  BY <1>2, <1>4, <2>3, <3>1, <5>1, <5>2, Changing
      <4>2. o <= q
        BY <4>1, StartsAreNumbered
      <4> QED  BY <1>1, <3>1, <4>2 DEF Between
    <3>2. UsedSince(n, s)'
      BY <3>1 DEF UsedSince
    <3>3. CASE mine'[n].keys[s] = None
      BY <3>3 DEF OneKey
    <3>4. CASE mine'[n].keys[s] # None
      <4>1. Stays(n, s)'
        BY <1>1, <3>2, <3>4 DEF Filed
      <4> QED  BY <1>1, <4>1 DEF Stays, OneKey
    <3> QED  BY <3>3, <3>4
  <2> QED  BY <2>1, <2>2, <2>3
<1> QED  BY <1>3, <1>4

LEMMA KeyedNext == ASSUME IInv, Lists, Keyed, [Next]_vars PROVE Keyed'
<1>1. ASSUME NEW p \in Starts, StartStep(p) PROVE Keyed'
  <2>1. PICK at : /\ pc' = [pc EXCEPT ![p] = at]
                  /\ pc[p] \in Over => at \in Over
                  /\ Quiet(p, at) \/ ReadIdentity(p) \/ MintIdentity(p) \/ PersistIdentity(p)
    BY <1>1, StepsOfAStart
  <2>2. Named /\ InTurn /\ met \subseteq met'
    BY <1>1, CompanyKept DEF Keyed
  <2>3. (\A q \in Starts \ {p} : Has(q)' <=> Has(q)) /\ (Has(p)' => Has(p) \/ Under(p))
    <3>1. CASE Quiet(p, at)
      BY <3>1 DEF Quiet, Has
    <3>2. CASE ReadIdentity(p) \/ MintIdentity(p) \/ PersistIdentity(p)
      BY <3>2, <2>2, Changing, Changes
    <3> QED  BY <2>1, <3>1, <3>2
  <2>4. Named'
    BY <2>1, <2>2, NamedNext
  <2>5. InTurn'
    BY <1>1, <2>1, <2>2, <2>3, InTurnNext
  <2>6. Filed'
    BY <2>1, <2>2, FiledNext
  <2>7. Same'
    BY <2>1, <2>2, <2>6, SameNext
  <2> QED  BY <2>4, <2>5, <2>6, <2>7 DEF Keyed
<1>2. CASE PageNext \/ UNCHANGED vars
  <2>1. UNCHANGED <<identityFile, identity, mine, pc, met>>
    BY <1>2 DEF PageNext, vars, allVars, serverVars, server, identities
  <2> QED  BY <2>1 DEF Keyed, Named, InTurn, Filed, Same, Has, Under, UsedSince, Stays, OneKey
<1> QED  BY <1>1, <1>2 DEF Next, StartNext

(* Two starts that met no other list a root under one id, and hold one key *)
(* for a slot no start from one to the other leaves out, however many      *)
(* starts ran, met, crashed or failed before, between and after them       *)
(* (loadWorkbenchServerIdentity, persistWorkbenchServerIdentity).          *)
THEOREM RootsKeepTheirIds == Spec => []RestartKeepsIds
<1>1. ASSUME Lists, Keyed PROVE RestartKeepsIds
  <2>1. ASSUME NEW p \in Starts \ met, NEW q \in Starts \ met,
               NEW s \in listed[p], NEW t \in listed[q], s[1] = t[1]
        PROVE  s[2] = t[2]
    <3>1. mine[p].principal = identity.principal /\ mine[q].principal = identity.principal
      BY <1>1, <2>1 DEF Lists, Lasting
    <3>2. rows[<<mine[p].principal, s[1]>>].id = s[2] /\ rows[<<mine[q].principal, t[1]>>].id = t[2]
      BY <1>1, <2>1 DEF Lists, Rows
    <3> QED  BY <2>1, <3>1, <3>2
  <2>2. ASSUME NEW p \in Starts \ met, NEW q \in Starts \ met, NEW s \in Slots, p < q,
               \A o \in Starts : p <= o /\ o <= q => s \in DOMAIN Config[o]
        PROVE  mine[p].keys[s] = mine[q].keys[s] \/ None \in {mine[p].keys[s], mine[q].keys[s]}
    BY <1>1, <2>2 DEF Keyed, Same, Between, OneKey
  <2> QED  BY <2>1, <2>2 DEF RestartKeepsIds
<1>2. IInv /\ Lists /\ Keyed /\ [Next]_vars => Lists' /\ Keyed'
  BY ListsNext, KeyedNext
<1> QED  BY <1>1, <1>2, ListsInit, KeyedInit, DatabaseInvariance, PTL DEF Spec

-----------------------------------------------------------------------------
(* A sound database can be opened.                                           *)

(* No table is created twice.                                                *)
LEMMA CreatedOnce ==
  \A v, w \in Versions : v # w => Creates[v] \cap Creates[w] = {}
<1>1. Versions = {1, 2, 3, 4, 5, 6, 7, 8, 9}
  BY DEF Versions
<1> QED  BY <1>1, CreatesTables

LEMMA CreatesNames == \A v \in Versions : Creates[v] \subseteq Names
<1>1. Versions = {1, 2, 3, 4, 5, 6, 7, 8, 9}
  BY DEF Versions
<1> QED  BY <1>1, CreatesTables DEF Names

(* What the first n migrations leave is what each of them verifies, and what *)
(* the next can be applied to.                                               *)
LEMMA SchemaVerifies ==
  ASSUME NEW n \in 0..9, NEW v \in 1..n
  PROVE  Verifies(v, SchemaAt(n))
<1>0. v \in Versions /\ v <= n /\ n \in Int /\ v \in Int
  BY DEF Versions
<1>1. ASSUME NEW m \in Names, NEW w \in 1..n, m \in Creates[w]
      PROVE  SchemaAt(n)[m] = IF m \notin Guards THEN "defined"
                              ELSE IF n < 6 THEN "legacy" ELSE "guarded"
  BY <1>1 DEF SchemaAt
<1>2. ASSUME NEW m \in Creates[v]
      PROVE  SchemaAt(n)[m] = Created(m) \/ (m \in Guards /\ SchemaAt(n)[m] = "guarded")
  <2>1. m \in Names
    BY <1>0, CreatesNames
  <2> QED  BY <1>1, <2>1 DEF Created
<1>3. ASSUME v = 6 PROVE SchemaAt(n)["events"] = "guarded" /\ SchemaAt(n)["hosts"] = "guarded"
  <2>1. 2 \in 1..n /\ 4 \in 1..n /\ ~(n < 6)
    BY <1>0, <1>3
  <2>2. /\ "events" \in Names /\ "hosts" \in Names /\ "events" \in Guards /\ "hosts" \in Guards
        /\ "events" \in Creates[2] /\ "hosts" \in Creates[4]
    BY CreatesTables DEF Names, Guards
  <2> QED  BY <1>1, <2>1, <2>2
<1>4. ASSUME v = 9 PROVE SchemaAt(n)["scopes"] = "defined"
  <2>1. 7 \in 1..n
    BY <1>0, <1>4
  <2>2. "scopes" \in Names /\ "scopes" \notin Guards /\ "scopes" \in Creates[7]
    BY CreatesTables DEF Names, Guards
  <2> QED  BY <1>1, <2>1, <2>2
<1> QED  BY <1>2, <1>3, <1>4 DEF Verifies

LEMMA SchemaApplies ==
  ASSUME NEW n \in 0..8
  PROVE  Applies(n + 1, SchemaAt(n))
<1>0. n \in Int /\ n + 1 \in Versions
  BY DEF Versions
<1>1. ASSUME NEW m \in Creates[n + 1] PROVE SchemaAt(n)[m] = "absent"
  <2>1. m \in Names
    BY <1>0, CreatesNames
  <2>2. ASSUME NEW v \in 1..n PROVE m \notin Creates[v]
    <3>1. v \in Versions /\ v # n + 1
      BY DEF Versions
    <3> QED  BY <1>0, <3>1, CreatedOnce
  <2> QED  BY <2>1, <2>2 DEF SchemaAt
<1>2. ASSUME NEW m \in Names, NEW v \in 1..n, m \in Creates[v] PROVE SchemaAt(n)[m] # "absent"
  <2>1. SchemaAt(n)[m] = IF m \notin Guards THEN "defined"
                         ELSE IF n < 6 THEN "legacy" ELSE "guarded"
    BY <1>2 DEF SchemaAt
  <2> QED  BY <2>1
<1>3. ASSUME n + 1 = 6 PROVE SchemaAt(n)["events"] # "absent" /\ SchemaAt(n)["hosts"] # "absent"
  <2>1. 2 \in 1..n /\ 4 \in 1..n
    BY <1>3
  <2>2. "events" \in Names /\ "hosts" \in Names /\ "events" \in Creates[2] /\ "hosts" \in Creates[4]
    BY CreatesTables DEF Names
  <2> QED  BY <1>2, <2>1, <2>2
<1>4. ASSUME n + 1 = 9 PROVE SchemaAt(n)["scopes"] # "absent" /\ SchemaAt(n)["sources"] # "absent"
  <2>1. 7 \in 1..n /\ 3 \in 1..n
    BY <1>4
  <2>2. "scopes" \in Names /\ "sources" \in Names /\ "scopes" \in Creates[7] /\ "sources" \in Creates[3]
    BY CreatesTables DEF Names
  <2> QED  BY <1>2, <2>1, <2>2
<1> QED  BY <1>1, <1>3, <1>4 DEF Applies

-----------------------------------------------------------------------------

Early == {"off", "makeRoot", "lookAtFile", "makeFile"}

(* What a start that is beside no other has seen is still so, and what     *)
(* refused it still is.                                                    *)
Seen(p) ==
  /\ pc[p] = "makeRoot" => root = "absent"
  /\ pc[p] = "makeFile" => file = "absent"
  /\ pc[p] \in {"verify", "migrate", "commit"} => applied[p] = ledger
  /\ pc[p] = "refused" => Suspect

Sole ==
  /\ root \in {"absent", "private", "unsafe"} /\ file \in {"absent", "private", "unsafe"}
  /\ table \in {"absent", "ours", "foreign"}
  /\ \A p \in Starts : pc[p] \in Early => ~born[p]
  /\ \A p \in Starts \ met : Seen(p)

LEMMA SoleInit == Init => Sole
<1>1. SUFFICES ASSUME ServerInit PROVE Sole
  BY DEF Init
<1>2. PICK o \in Origins : root = o.root /\ file = o.file /\ table = o.table
  BY <1>1 DEF ServerInit, DatabaseInit
<1>3. pc = [p \in Starts |-> "off"] /\ born = [p \in Starts |-> FALSE]
  BY <1>1 DEF ServerInit, DatabaseInit
<1>4. /\ root \in {"absent", "private", "unsafe"} /\ file \in {"absent", "private", "unsafe"}
      /\ table \in {"absent", "ours", "foreign"}
  BY <1>2, OriginsAssumption DEF DataRoot
<1>5. \A p \in Starts : pc[p] = "off" /\ ~born[p]
  BY <1>3
<1> QED  BY <1>4, <1>5 DEF Sole, Seen

(* A start that is beside no other, on its way.                            *)
LEMMA NobodyElse ==
  ASSUME Company, NEW p \in Starts \ met, Under(p), NEW q \in Starts \ {p}
  PROVE  ~Under(q)
  BY DEF Company

(* What has to be refused stays so.                                        *)
LEMMA JournalStays ==
  ASSUME Trusted, NEW p \in Starts, StartStep(p), journal = "unsafe"
  PROVE  journal' = "unsafe"
<1>1. \A q \in Starts : pc[q] \notin Connected
  BY DEF Trusted, Attested
<1>2. ~Connect(p) /\ ~BeginMigration(p) /\ ~CommitMigration(p)
  <2>1. {"connect", "migrate", "commit"} \subseteq Connected
    BY PlacesDiffer DEF Past
  <2> QED  BY <1>1, <2>1 DEF Connect, BeginMigration, CommitMigration
<1>3. CASE OpenNext(p)
  BY <1>2, <1>3 DEF OpenNext, LookAtRoot, MakeRoot, LookAtFile, MakeFile, CheckFiles, InitLedger,
       ReadLedger, VerifyApplied, Busy, Opened, database, lock
<1>4. CASE ~OpenNext(p)
  BY <1>4 DEF StartStep, Serve, ReadIdentity, MintIdentity, PersistIdentity, Discover, Register,
       FailCandidate, Listen, CloseServer, Crash, CrashDatabase, database, lock
<1> QED  BY <1>3, <1>4

LEMMA OneMoves ==
  ASSUME IInv, NEW p \in Starts, StartStep(p)
  PROVE  \A q \in Starts \ {p} :
           pc'[q] = pc[q] /\ applied'[q] = applied[q] /\ (Attested => born'[q] = born[q])
<1>1. \E at : pc' = [pc EXCEPT ![p] = at]
  <2>1. CASE OpenNext(p)
    BY <2>1 DEF OpenNext, LookAtRoot, MakeRoot, LookAtFile, MakeFile, CheckFiles, Connect,
         InitLedger, ReadLedger, VerifyApplied, BeginMigration, CommitMigration, Busy, Opened,
         Goto, OrRefuse
  <2>2. CASE \E r \in Roots : Register(p, r)
    <3>1. pc' = pc
      BY <2>2 DEF Register
    <3>2. pc' = [pc EXCEPT ![p] = pc[p]]
      BY <3>1 DEF IInv, Typed
    <3> QED  BY <3>2
  <2>3. CASE ~OpenNext(p) /\ ~\E r \in Roots : Register(p, r)
    BY <2>3 DEF StartStep, Serve, ReadIdentity, MintIdentity, PersistIdentity, Discover,
         FailCandidate, Listen, CloseServer, Crash, Goto
  <2> QED  BY <2>1, <2>2, <2>3
<1>2. applied' = applied \/ \E new : applied' = [applied EXCEPT ![p] = new]
  <2>1. CASE OpenNext(p)
    BY <2>1 DEF OpenNext, LookAtRoot, MakeRoot, LookAtFile, MakeFile, CheckFiles, Connect,
         InitLedger, ReadLedger, VerifyApplied, BeginMigration, CommitMigration, Busy, Opened,
         database
  <2>2. CASE ~OpenNext(p)
    BY <2>2 DEF StartStep, Serve, ReadIdentity, MintIdentity, PersistIdentity, Discover, Register,
         FailCandidate, Listen, CloseServer, Crash, CrashDatabase, database
  <2> QED  BY <2>1, <2>2
<1>3. born' = born \/ \E new : born' = [born EXCEPT ![p] = new]
  <2>1. CASE OpenNext(p)
    BY <2>1 DEF OpenNext, LookAtRoot, MakeRoot, LookAtFile, MakeFile, CheckFiles, Connect,
         InitLedger, ReadLedger, VerifyApplied, BeginMigration, CommitMigration, Busy, Opened,
         database
  <2>2. CASE ~OpenNext(p)
    BY <2>2 DEF StartStep, Serve, ReadIdentity, MintIdentity, PersistIdentity, Discover, Register,
         FailCandidate, Listen, CloseServer, Crash, CrashDatabase, database
  <2> QED  BY <2>1, <2>2
<1>4. ASSUME NEW q \in Starts \ {p} PROVE pc'[q] = pc[q] /\ applied'[q] = applied[q]
  BY <1>1, <1>2 DEF IInv, Typed
<1>5. ASSUME NEW q \in Starts \ {p}, Attested PROVE born'[q] = born[q]
  BY <1>3, <1>5 DEF Attested
<1> QED  BY <1>4, <1>5

(* Who has made the file is past the looking at it.                        *)
LEMMA MakersMove ==
  ASSUME Trusted, Sole, NEW p \in Starts, StartStep(p)
  PROVE  /\ pc'[p] \in Early => ~born'[p]
         /\ Creating(p)' => Creating(p) \/ file = "absent"
<1> /\ pc \in [Starts -> Places] /\ born \in [Starts -> BOOLEAN]
  BY DEF Trusted, IInv, Typed, Attested
<1>1. pc[p] \in Early => ~born[p]
  BY DEF Sole
<1>2. CASE MakeFile(p)
  <2>1. born'[p] = (file = "absent") /\ pc'[p] \in {"checkFiles", "refused"}
    BY <1>2 DEF MakeFile, OrRefuse, Goto
  <2> QED  BY <2>1 DEF Creating, Early
<1>3. CASE ~MakeFile(p)
  <2>1. born' = born
    <3>1. CASE OpenNext(p)
      BY <1>3, <3>1 DEF OpenNext, LookAtRoot, MakeRoot, LookAtFile, CheckFiles, Connect,
           InitLedger, ReadLedger, VerifyApplied, BeginMigration, CommitMigration, Busy, Opened,
           database
    <3>2. CASE ~OpenNext(p)
      BY <3>2 DEF StartStep, Serve, ReadIdentity, MintIdentity, PersistIdentity, Discover, Register,
           FailCandidate, Listen, CloseServer, Crash, CrashDatabase, database
    <3> QED  BY <3>1, <3>2
  <2>2. CASE LookAtRoot(p) \/ MakeRoot(p) \/ LookAtFile(p)
    <3>1. pc[p] \in Early
      BY <2>2 DEF LookAtRoot, MakeRoot, LookAtFile, Early
    <3>2. ~born'[p]
      BY <1>1, <2>1, <3>1
    <3> QED  BY <3>2 DEF Creating
  <2>3. CASE ~LookAtRoot(p) /\ ~MakeRoot(p) /\ ~LookAtFile(p)
    <3>1. \/ pc'[p] \notin Early \cup {"checkFiles", "connect", "initLedger"}
          \/ CheckFiles(p) \/ Connect(p) \/ pc' = pc
      <4>1. CASE OpenNext(p)
        BY <1>3, <2>3, <4>1 DEF OpenNext, InitLedger, ReadLedger, VerifyApplied, BeginMigration,
             CommitMigration, Busy, Opened, Goto, OrRefuse, Early
      <4>2. CASE ~OpenNext(p)
        BY <4>2 DEF StartStep, Serve, ReadIdentity, MintIdentity, PersistIdentity, Discover, Register,
             FailCandidate, Listen, CloseServer, Crash, Goto, Early
      <4> QED  BY <4>1, <4>2
    <3>2. CASE CheckFiles(p) \/ Connect(p)
      <4>1. pc[p] \in {"checkFiles", "connect"} /\ pc'[p] \notin Early
        BY <3>2 DEF CheckFiles, Connect, OrRefuse, Goto, Early
      <4> QED  BY <2>1, <4>1 DEF Creating
    <3>3. CASE pc' = pc
      BY <1>1, <2>1, <3>3 DEF Creating
    <3> QED  BY <3>1, <3>2, <3>3 DEF Creating
  <2> QED  BY <2>2, <2>3
<1> QED  BY <1>2, <1>3

LEMMA SuspectStays ==
  ASSUME Trusted, Sole, NEW p \in Starts, StartStep(p), Suspect
  PROVE  Suspect'
<1>1. UNCHANGED Kept
  BY StartIsSafe
<1>2. UNCHANGED <<root, file, wal, table, ledger, drifted>>
  BY <1>1 DEF Kept, disk
<1>3. journal = "unsafe" => journal' = "unsafe"
  BY JournalStays
<1>4. Untrusted => Untrusted'
  BY <1>2, <1>3 DEF Untrusted
<1>5. ASSUME Unfinished, \A q \in Starts : ~Creating(q)
      PROVE  Unfinished' /\ \A q \in Starts : ~Creating(q)'
  <2>1. ~Creating(p)'
    BY <1>5, MakersMove DEF Unfinished
  <2>2. \A q \in Starts \ {p} : ~Creating(q)'
    BY <1>5, OneMoves DEF Trusted, Creating
  <2> QED  BY <1>2, <1>5, <2>1, <2>2 DEF Unfinished
<1> QED  BY <1>2, <1>4, <1>5 DEF Suspect

(* The others have seen what they have seen: while one is on its way that  *)
(* meets no other, nobody else touches the database.                       *)
LEMMA OthersHaveSeen ==
  ASSUME Trusted, Sole, Company, NEW p \in Starts, StartStep(p), met \subseteq met',
         NEW q \in Starts \ met', q # p
  PROVE  Seen(q)'
<1>1. pc'[q] = pc[q] /\ applied'[q] = applied[q] /\ q \in Starts \ met /\ Seen(q)
  BY OneMoves DEF Trusted, Sole
<1>2. CASE Under(p)
  <2>1. ~Under(q)
    BY <1>1, <1>2, NobodyElse
  <2>2. pc[q] \notin {"makeRoot", "makeFile", "verify", "migrate", "commit"}
    BY <2>1 DEF Under, Ended
  <2> QED  BY <1>1, <2>2, SuspectStays DEF Seen
<1>3. CASE ~Under(p)
  <2>1. pc[p] \in {"off", "serving"} \cup Ended
    BY <1>3 DEF Under
  <2>2. UNCHANGED <<root, file, ledger>>
    <3>1. LookAtRoot(p) \/ CloseServer(p) \/ Crash(p)
      BY <2>1 DEF StartStep, Serve, OpenNext, MakeRoot, LookAtFile, MakeFile, CheckFiles, Connect,
           InitLedger, ReadLedger, VerifyApplied, BeginMigration, CommitMigration, Busy, Opened,
           ReadIdentity, MintIdentity, PersistIdentity, Discover, Register, FailCandidate, Listen, Ended
    <3> QED  BY <3>1 DEF LookAtRoot, CloseServer, Crash, CrashDatabase, database, disk
  <2> QED  BY <1>1, <2>2, SuspectStays DEF Seen
<1> QED  BY <1>2, <1>3

(* The start itself is refused only what has to be.                        *)
LEMMA LookingSees ==
  ASSUME Trusted, Sole, NEW p \in Starts,
         LookAtRoot(p) \/ MakeRoot(p) \/ LookAtFile(p) \/ MakeFile(p) \/ CheckFiles(p),
         Seen(p)
  PROVE  Seen(p)'
<1> pc \in [Starts -> Places]
  BY DEF Trusted, IInv, Typed
<1>1. CASE LookAtRoot(p)
  <2>1. /\ UNCHANGED <<root, file, journal, wal, table, ledger, drifted>>
        /\ pc'[p] = (CASE root = "absent" -> "makeRoot"
                       [] root = "private" -> "lookAtFile"
                       [] OTHER -> "refused")
    BY <1>1 DEF LookAtRoot, Goto, database, disk, lock
  <2>2. pc'[p] = "refused" => root = "unsafe"
    BY <2>1 DEF Sole
  <2>3. pc'[p] = "makeRoot" => root = "absent"
    BY <2>1 DEF Sole
  <2>4. pc'[p] \in {"makeRoot", "lookAtFile", "refused"}
    BY <2>1 DEF Sole
  <2> QED  BY <2>1, <2>2, <2>3, <2>4 DEF Seen, Suspect, Untrusted
<1>2. CASE MakeRoot(p)
  <2>1. pc'[p] = "lookAtFile"
    BY <1>2 DEF MakeRoot, OrRefuse, Goto, Seen
  <2> QED  BY <2>1 DEF Seen
<1>3. CASE LookAtFile(p)
  <2>1. /\ UNCHANGED <<root, file, journal, wal, table, ledger, drifted>>
        /\ pc'[p] = (CASE file = "absent" -> "makeFile"
                       [] file = "private" -> "checkFiles"
                       [] OTHER -> "refused")
    BY <1>3 DEF LookAtFile, Goto, database, disk, lock
  <2>2. pc'[p] = "refused" => file = "unsafe"
    BY <2>1 DEF Sole
  <2>3. pc'[p] = "makeFile" => file = "absent"
    BY <2>1 DEF Sole
  <2>4. pc'[p] \in {"makeFile", "checkFiles", "refused"}
    BY <2>1 DEF Sole
  <2> QED  BY <2>1, <2>2, <2>3, <2>4 DEF Seen, Suspect, Untrusted
<1>4. CASE MakeFile(p)
  <2>1. pc'[p] = "checkFiles"
    BY <1>4 DEF MakeFile, OrRefuse, Goto, Seen
  <2> QED  BY <2>1 DEF Seen
<1>5. CASE CheckFiles(p)
  <2>1. /\ UNCHANGED <<root, file, journal, wal, table, ledger, drifted>>
        /\ pc'[p] = IF journal # "unsafe" /\ ~wal THEN "connect" ELSE "refused"
    BY <1>5 DEF CheckFiles, OrRefuse, Goto, database, disk, lock
  <2>2. file = "private"
    BY <1>5, PlacesDiffer DEF CheckFiles, Trusted, Attested
  <2> QED  BY <2>1, <2>2 DEF Seen, Suspect, Untrusted
<1> QED  BY <1>1, <1>2, <1>3, <1>4, <1>5

LEMMA ReadingSees ==
  ASSUME Trusted, Sole, NEW p \in Starts, ReadLedger(p), \A q \in Starts \ {p} : ~Under(q)
  PROVE  Seen(p)'
<1>1. pc \in [Starts -> Places] /\ applied \in [Starts -> SUBSET (1..10)]
  BY DEF Trusted, IInv, Typed
<1> DEFINE fits == /\ table = "ours" /\ ledger = 1..Cardinality(ledger)
                   /\ ledger \subseteq Versions /\ ledger \cap drifted = {}
<1>2. /\ UNCHANGED <<root, file, journal, wal, table, ledger, drifted, born>>
      /\ pc'[p] = IF fits THEN "verify" ELSE "refused"
      /\ applied'[p] = ledger /\ \A q \in Starts \ {p} : pc'[q] = pc[q]
      /\ pc[p] = "readLedger"
  BY <1>1 DEF ReadLedger, OrRefuse, Goto, disk, lock
<1>3. CASE fits
  BY <1>2, <1>3 DEF Seen
<1>4. CASE ~fits
  <2>1. file = "private"
    BY <1>2, PlacesDiffer DEF Trusted, Attested
  <2>2. Untrusted \/ table = "absent"
    BY <1>4 DEF Untrusted, Sole
  <2>3. \A q \in Starts : ~Creating(q)'
    BY <1>2, <1>4 DEF Creating, Under, Ended
  <2>4. Untrusted => Untrusted'
    BY <1>2 DEF Untrusted
  <2>5. Suspect'
    BY <1>2, <2>1, <2>2, <2>3, <2>4 DEF Suspect, Unfinished
  <2> QED  BY <1>2, <1>4, <2>5 DEF Seen
<1> QED  BY <1>3, <1>4

(* What a lone start knows is the ledger, and the schema is that of it.    *)
LEMMA KnowsAll ==
  ASSUME IInv, NEW p \in Starts, pc[p] \in {"verify", "migrate", "commit"}, Seen(p)
  PROVE  \E k \in 0..9 : /\ applied[p] = 1..k /\ ledger = 1..k /\ schema = SchemaAt(k)
                         /\ NextVersion(p) = k + 1
                         /\ pc[p] = "commit" => k < 9
<1>1. Knows(p)
  BY DEF IInv, Read, Past
<1>2. PICK k \in 0..9 : applied[p] = 1..k /\ (pc[p] = "commit" => k < 9)
  BY <1>1 DEF Knows
<1>3. ledger = 1..k
  BY <1>2 DEF Seen
<1>4. schema = SchemaAt(k)
  BY <1>3 DEF IInv, LedgerTellsSchema
<1>5. NextVersion(p) = k + 1
  BY <1>2, Counting DEF NextVersion
<1> QED  BY <1>2, <1>3, <1>4, <1>5

LEMMA MigratingSees ==
  ASSUME Trusted, Sole, NEW p \in Starts, \A q \in Starts \ {p} : ~Under(q), Seen(p),
         \/ VerifyApplied(p) \/ BeginMigration(p) \/ CommitMigration(p) \/ Busy(p) \/ Opened(p)
  PROVE  Seen(p)'
<1>1. pc \in [Starts -> Places] /\ applied \in [Starts -> SUBSET (1..10)] /\ writer \in Starts \cup {None}
  BY DEF Trusted, IInv, Typed
<1>2. PICK k \in 0..9 : /\ applied[p] = 1..k /\ ledger = 1..k /\ schema = SchemaAt(k)
                        /\ NextVersion(p) = k + 1
                        /\ pc[p] = "commit" => k < 9
  BY KnowsAll DEF Trusted, VerifyApplied, BeginMigration, CommitMigration, Busy, Opened
<1>3. CASE VerifyApplied(p)
  <2>1. \A v \in applied[p] : Verifies(v, schema)
    BY <1>2, SchemaVerifies
  <2>2. pc'[p] = "migrate" /\ UNCHANGED <<applied, ledger>>
    BY <1>1, <1>3, <2>1 DEF VerifyApplied, OrRefuse, Goto, database, disk
  <2> QED  BY <1>3, <2>2 DEF Seen, VerifyApplied
<1>4. CASE BeginMigration(p)
  <2>1. k \in 0..8
    BY <1>2, <1>4 DEF BeginMigration, Versions
  <2>2. Applies(NextVersion(p), schema)
    BY <1>2, <2>1, SchemaApplies
  <2>3. pc'[p] = "commit" /\ UNCHANGED <<applied, ledger>>
    BY <1>1, <1>4, <2>2 DEF BeginMigration, Goto, disk
  <2> QED  BY <1>4, <2>3 DEF Seen, BeginMigration
<1>5. CASE CommitMigration(p)
  <2>1. k \in 0..8 /\ staged.schema = Apply(k + 1, SchemaAt(k))
    BY <1>2, <1>5 DEF CommitMigration, Trusted, IInv, Locked
  <2>2. staged.schema = SchemaAt(k + 1)
    BY <2>1, NextSchema
  <2>3. Verifies(NextVersion(p), staged.schema) /\ NextVersion(p) \notin ledger
    <3>1. k + 1 \in 0..9 /\ k + 1 \in 1..k + 1 /\ k + 1 \notin 1..k
      BY <2>1
    <3> QED  BY <1>2, <2>2, <3>1, SchemaVerifies
  <2>4. pc'[p] = "migrate" /\ ledger' = ledger \cup {NextVersion(p)}
        /\ applied'[p] = applied[p] \cup {NextVersion(p)}
    BY <1>1, <1>5, <2>3 DEF CommitMigration, OrRefuse, Goto
  <2> QED  BY <1>2, <2>4 DEF Seen
<1>6. CASE Busy(p)
  <2>1. PICK q \in Starts \ {p} : writer = q
    BY <1>1, <1>6 DEF Busy
  <2>2. pc[q] = "commit"
    BY <2>1 DEF Trusted, IInv, Locked
  <2> QED  BY <2>1, <2>2 DEF Under, Ended
<1>7. CASE Opened(p)
  <2>1. pc'[p] = "open"
    BY <1>1, <1>7 DEF Opened, Goto
  <2> QED  BY <2>1 DEF Seen
<1> QED  BY <1>3, <1>4, <1>5, <1>6, <1>7

LEMMA SoleStep ==
  ASSUME Trusted, Sole, Company, NEW p \in Starts, StartStep(p), Company', met \subseteq met'
  PROVE  Sole'
<1>1. /\ root' \in {"absent", "private", "unsafe"} /\ file' \in {"absent", "private", "unsafe"}
      /\ table' \in {"absent", "ours", "foreign"}
  <2>1. CASE OpenNext(p)
    BY <2>1 DEF Sole, OpenNext, LookAtRoot, MakeRoot, LookAtFile, MakeFile, CheckFiles, Connect,
         InitLedger, ReadLedger, VerifyApplied, BeginMigration, CommitMigration, Busy, Opened,
         database, disk
  <2>2. CASE ~OpenNext(p)
    BY <2>2 DEF Sole, StartStep, Serve, ReadIdentity, MintIdentity, PersistIdentity, Discover, Register,
         FailCandidate, Listen, CloseServer, Crash, CrashDatabase, database, disk
  <2> QED  BY <2>1, <2>2
<1>2. \A q \in Starts : pc'[q] \in Early => ~born'[q]
  BY MakersMove, OneMoves DEF Trusted, Sole
<1>3. ASSUME NEW q \in Starts \ met' PROVE Seen(q)'
  <2>1. CASE q # p
    BY <1>3, <2>1, OthersHaveSeen
  <2>2. CASE q = p
    <3>1. Seen(p) /\ (Under(p) => \A o \in Starts \ {p} : ~Under(o))
      BY <1>3, <2>2, NobodyElse DEF Sole
    <3>2. CASE OpenNext(p)
      <4>1. CASE \/ LookAtRoot(p) \/ MakeRoot(p) \/ LookAtFile(p) \/ MakeFile(p) \/ CheckFiles(p)
        BY <2>2, <3>1, <4>1, LookingSees
      <4>2. CASE Connect(p) \/ InitLedger(p)
        <5>1. pc'[p] \in {"initLedger", "readLedger"}
          BY <4>2 DEF Connect, InitLedger, Goto, Trusted, IInv, Typed
        <5> QED  BY <2>2, <5>1 DEF Seen
      <4>3. CASE ReadLedger(p)
        <5>1. Under(p)
          BY <4>3 DEF ReadLedger, Under, Ended
        <5> QED  BY <2>2, <3>1, <4>3, <5>1, ReadingSees
      <4>4. CASE VerifyApplied(p) \/ BeginMigration(p) \/ CommitMigration(p) \/ Busy(p) \/ Opened(p)
        <5>1. Under(p)
          BY <4>4 DEF VerifyApplied, BeginMigration, CommitMigration, Busy, Opened, Under, Ended
        <5> QED  BY <2>2, <3>1, <4>4, <5>1, MigratingSees
      <4> QED  BY <3>2, <4>1, <4>2, <4>3, <4>4 DEF OpenNext
    <3>3. CASE \E r \in Roots : Register(p, r)
      <4>1. pc'[p] = "register"
        BY <3>3 DEF Register
      <4> QED  BY <2>2, <4>1 DEF Seen
    <3>4. CASE ~OpenNext(p) /\ ~\E r \in Roots : Register(p, r)
      <4>1. pc'[p] \in {"mint", "persist", "discover", "register", "serving", "failed", "closed", "crashed"}
        BY <3>4 DEF Serve, StartStep, ReadIdentity, MintIdentity, PersistIdentity, Discover,
             FailCandidate, Listen, CloseServer, Crash, Goto, Trusted, IInv, Typed
      <4> QED  BY <2>2, <4>1 DEF Seen
    <3> QED  BY <3>2, <3>3, <3>4
  <2> QED  BY <2>1, <2>2
<1> QED  BY <1>1, <1>2, <1>3 DEF Sole

LEMMA SoleNext == ASSUME Trusted, Sole, Lists, [Next]_vars PROVE Sole'
<1>1. ASSUME NEW p \in Starts, StartStep(p) PROVE Sole'
  BY <1>1, CompanyKept, SoleStep DEF Lists
<1>2. CASE PageNext \/ UNCHANGED vars
  <2>1. UNCHANGED <<root, file, journal, wal, table, ledger, drifted, born, applied, pc, met>>
    BY <1>2 DEF PageNext, vars, allVars, serverVars, database, disk, lock
  <2>2. Suspect' <=> Suspect
    BY <2>1 DEF Suspect, Untrusted, Unfinished, Creating
  <2> QED  BY <2>1, <2>2 DEF Sole, Seen
<1> QED  BY <1>1, <1>2 DEF Next, StartNext

(* A start that never ran beside another is refused only a database that   *)
(* has to be: whatever the starts before it left, wherever they crashed    *)
(* and between whichever two migrations, it verifies what it reads, every  *)
(* migration that is left can be applied, and nobody holds the lock        *)
(* (openRuntimeDatabase, applyRuntimeMigrations).                          *)
THEOREM SoundDatabasesOpen == Spec => []SoundStartsSucceed
<1>1. Sole => SoundStartsSucceed
  BY DEF Sole, Seen, SoundStartsSucceed, Suspect
<1>2. Spec => []IInv /\ []Attested /\ []Lists
  <2>1. IInv /\ Attested /\ [Next]_vars => Attested'
    BY TrustedNext DEF Trusted
  <2>2. IInv /\ Lists /\ [Next]_vars => Lists'
    BY ListsNext
  <2> QED  BY <2>1, <2>2, AttestedInit, ListsInit, DatabaseInvariance, PTL DEF Spec
<1>3. IInv /\ Attested /\ Lists /\ Sole /\ [Next]_vars => Sole'
  BY SoleNext DEF Trusted
<1> QED  BY <1>1, <1>2, <1>3, SoleInit, PTL DEF Spec

-----------------------------------------------------------------------------
(* The page shows what was asked for.                                        *)

Request(Targets, Answers) ==
  [asked : Targets, live : BOOLEAN, at : {"free", "sent", "answered"}, answer : Answers]
Asking == \E Targets, Answers : requests \in [Requests -> Request(Targets, Answers)]

(* What a server answers is about the target it was asked for.             *)
Answers(asked, a) ==
  a.ok =>
    /\ asked # NoTarget => a.selected \in {NoTarget, asked}
    /\ asked \notin a.targets \cup {NoTarget} => a.unavailable

(* The page and what it shows, but for the mode, which App's effects see   *)
(* to.                                                                     *)
ShowsTarget ==
  /\ shown.asked = page.target
  /\ page.target # NoTarget => shown.selected \in {NoTarget, page.target}
  /\ shown.targets # {} /\ page.target \notin shown.targets \cup {NoTarget} => shown.unavailable
  /\ page.refused => shown = [Blank(NoTarget) EXCEPT !.unavailable = TRUE]

Viewed ==
  /\ page.open \in BOOLEAN /\ page.refused \in BOOLEAN
  /\ page.refused => page.target = NoTarget
  /\ due \in {"none", "app", "all"} /\ (due # "none" => page.open)
  /\ Asking
  /\ \A q \in Requests :
       /\ requests[q].at = "answered" => Answers(requests[q].asked, requests[q].answer)
       /\ requests[q].live => page.open
       /\ due # "all" /\ requests[q].live => requests[q].asked = page.target /\ ~page.refused
  /\ page.open /\ due # "all" => ShowsTarget /\ (due = "none" => ~Impossible)

LEMMA ViewedInit == Init => Viewed
<1> SUFFICES ASSUME BrowserInit PROVE Viewed
  BY DEF Init
<1>1. /\ page = Nowhere /\ due = "none" /\ requests = [q \in Requests |-> Free]
  BY DEF BrowserInit
<1>2. Free \in Request({NoTarget}, {NoSession})
  BY DEF Free, Request
<1>3. Asking
  BY <1>1, <1>2 DEF Asking
<1>4. \A q \in Requests : requests[q].at = "free" /\ ~requests[q].live
  BY <1>1 DEF Free
<1>5. page.open = FALSE /\ page.refused = FALSE
  BY <1>1 DEF Nowhere
<1> QED  BY <1>1, <1>3, <1>4, <1>5 DEF Viewed

(* A new page of which all effects are due.                                *)
LEMMA OpeningKeepsViewed ==
  ASSUME Viewed, NEW link \in Links, OpenPage(link)
  PROVE  Viewed'
<1>0. link.refused \in BOOLEAN
  BY BrowserAssumption
<1>1. page' = Page(link.target, link.refused, link.mode) /\ due' = "all" /\ requests' = requests
  BY DEF OpenPage
<1>2. /\ page'.open = TRUE /\ page'.refused \in BOOLEAN
      /\ page'.refused => page'.target = NoTarget
  BY <1>0, <1>1 DEF Page
<1> QED  BY <1>1, <1>2 DEF Viewed, Asking, Answers

(* A page that its user changed or went back to.                           *)
LEMMA ChangingKeepsViewed ==
  ASSUME Viewed, page.open, NEW target, NEW mode, page' = Page(target, FALSE, mode),
         due' = Renders(page, page', due), UNCHANGED <<requests, shown>>
  PROVE  Viewed'
<1>1. /\ page' = Page(target, FALSE, mode) /\ due' = Renders(page, page', due)
      /\ UNCHANGED <<requests, shown>> /\ page.open
  OBVIOUS
<1>2. /\ page'.open = TRUE /\ page'.refused = FALSE
  BY <1>1 DEF Page
<1>3. CASE page.target # page'.target \/ page.refused # page'.refused
  <2>1. due' = "all"
    BY <1>1, <1>3 DEF Renders
  <2> QED  BY <1>1, <1>2, <2>1 DEF Viewed, Asking, Answers
<1>4. CASE page.target = page'.target /\ page.refused = page'.refused
  <2>1. /\ due' \in {"none", "app", "all"} /\ (due' = "all" <=> due = "all")
        /\ due' = "none" => page' = page /\ due = "none"
    BY <1>1, <1>4 DEF Renders, Viewed
  <2>2. ShowsTarget => ShowsTarget'
    BY <1>1, <1>4 DEF ShowsTarget, Blank
  <2>3. page' = page => (Impossible' <=> Impossible)
    BY <1>1 DEF Impossible
  <2> QED  BY <1>1, <1>2, <1>4, <2>1, <2>2, <2>3 DEF Viewed, Asking, Answers
<1> QED  BY <1>3, <1>4

LEMMA RefreshKeepsViewed ==
  ASSUME Viewed, Refresh
  PROVE  Viewed'
<1>1. page.open /\ due' = "all" /\ UNCHANGED <<page, requests>>
  BY DEF Refresh
<1> QED  BY <1>1 DEF Viewed, Asking, Answers

(* What App's effects make of the page.                                    *)
LEMMA AppLeaves ==
  ASSUME Viewed, page.open
  PROVE  /\ AppEffects.open = TRUE /\ AppEffects.refused \in BOOLEAN
         /\ AppEffects.refused => AppEffects.target = NoTarget
         /\ Impossible => AppEffects.mode = "fixture"
<1> DEFINE chosen == IF Automatic = NoTarget THEN page ELSE Page(Automatic, FALSE, page.mode)
<1>1. /\ chosen.open = TRUE /\ chosen.refused \in BOOLEAN
      /\ chosen.refused => chosen.target = NoTarget
  <2>1. CASE Automatic = NoTarget
    BY <2>1 DEF Viewed
  <2>2. CASE Automatic # NoTarget
    BY <2>2 DEF Page
  <2> QED  BY <2>1, <2>2
<1>2. AppEffects = IF Impossible THEN Page(chosen.target, FALSE, "fixture") ELSE chosen
  BY DEF AppEffects
<1> HIDE DEF chosen
<1>3. CASE Impossible
  BY <1>2, <1>3 DEF Page
<1>4. CASE ~Impossible
  BY <1>1, <1>2, <1>4
<1> QED  BY <1>3, <1>4

(* The request is for the target that is on the page when it is sent.      *)
LEMMA SendAsks ==
  ASSUME Asking, Send
  PROVE  /\ Asking'
         /\ \A q \in Requests :
              /\ requests'[q].live => requests'[q].asked = page.target /\ ~page.refused
              /\ requests'[q].at = "answered" =>
                   /\ requests[q].at = "answered" /\ requests'[q].asked = requests[q].asked
                   /\ requests'[q].answer = requests[q].answer
<1>1. PICK T, A : requests \in [Requests -> Request(T, A)]
  BY DEF Asking
<1>2. /\ Superseded \in [Requests -> Request(T, A)]
      /\ \A q \in Requests :
           /\ Superseded[q].live = FALSE /\ Superseded[q].asked = requests[q].asked
           /\ Superseded[q].at = requests[q].at /\ Superseded[q].answer = requests[q].answer
  BY <1>1 DEF Superseded, Request
<1>3. CASE page.refused
  <2>1. requests' = Superseded
    BY <1>3 DEF Send
  <2> QED  BY <1>2, <2>1 DEF Asking
<1>4. CASE ~page.refused
  <2> DEFINE new == [asked |-> page.target, live |-> TRUE, at |-> "sent", answer |-> NoSession]
             U == T \cup {page.target}
             B == A \cup {NoSession}
  <2>1. PICK q \in Requests : requests' = [Superseded EXCEPT ![q] = new]
    BY <1>4 DEF Send
  <2>2. new \in Request(U, B) /\ Superseded \in [Requests -> Request(U, B)]
    BY <1>2 DEF Request
  <2>3. new.live /\ new.asked = page.target /\ new.at = "sent"
    OBVIOUS
  <2> HIDE DEF new, U, B
  <2>4. requests' \in [Requests -> Request(U, B)] /\ requests'[q] = new
        /\ \A other \in Requests \ {q} : requests'[other] = Superseded[other]
    BY <2>1, <2>2
  <2> QED  BY <1>2, <1>4, <2>3, <2>4 DEF Asking
<1> QED  BY <1>3, <1>4

LEMMA EffectsKeepViewed ==
  ASSUME Viewed, Effects
  PROVE  Viewed'
<1>1. due # "none" /\ page' = AppEffects /\ due' = Renders(page, page', "none") /\ page.open
  BY DEF Effects, Viewed
<1>2. /\ page'.open = TRUE /\ page'.refused \in BOOLEAN
      /\ page'.refused => page'.target = NoTarget
      /\ Impossible => page'.mode = "fixture"
  BY <1>1, AppLeaves
<1>3. /\ due' \in {"none", "app", "all"}
      /\ due' # "all" => page'.target = page.target /\ page'.refused = page.refused
      /\ due' = "none" => page' = page
  BY <1>1 DEF Renders
<1>4. CASE due = "all"
  <2>1. Send /\ shown' = [Blank(page.target) EXCEPT !.unavailable = page.refused]
    BY <1>4 DEF Effects
  <2>2. /\ Asking'
        /\ \A q \in Requests :
              /\ requests'[q].live => requests'[q].asked = page.target /\ ~page.refused
              /\ requests'[q].at = "answered" => Answers(requests'[q].asked, requests'[q].answer)
    BY <2>1, SendAsks DEF Viewed
  <2>3. /\ shown'.asked = page.target /\ shown'.targets = {} /\ shown'.selected = NoTarget
        /\ shown'.modes = {} /\ shown'.error = FALSE
        /\ page.refused => shown' = [Blank(NoTarget) EXCEPT !.unavailable = TRUE]
    BY <2>1 DEF Blank, Viewed
  <2>4. ASSUME due' # "all" PROVE ShowsTarget' /\ ~Impossible'
    BY <1>3, <2>3, <2>4 DEF ShowsTarget, Impossible, Blank
  <2> QED  BY <1>2, <1>3, <2>2, <2>4 DEF Viewed, Answers
<1>5. CASE due = "app"
  <2>1. UNCHANGED <<requests, shown>>
    BY <1>5 DEF Effects
  <2>2. ShowsTarget
    BY <1>1, <1>5 DEF Viewed
  <2>3. due' # "all" => ShowsTarget'
    BY <1>3, <2>1, <2>2 DEF ShowsTarget, Blank
  <2>4. due' = "none" => ~Impossible'
    <3>1. SUFFICES ASSUME due' = "none", Impossible PROVE FALSE
      BY <1>3, <2>1 DEF Impossible
    <3>2. page.mode = "fixture"
      BY <1>2, <1>3, <3>1
    <3> QED  BY <3>1, <3>2 DEF Impossible
  <2> QED  BY <1>2, <1>3, <1>5, <2>1, <2>3, <2>4 DEF Viewed, Asking, Answers
<1> QED  BY <1>1, <1>4, <1>5 DEF Viewed

(* A server answers for the target it was asked for.                       *)
LEMMA ServersAnswer ==
  ASSUME NEW p, NEW asked
  PROVE  Answers(asked, Session(p, asked))
<1> DEFINE only == CHOOSE t \in listed[p] : TRUE
           selected == IF asked # NoTarget
                         THEN IF asked \in listed[p] THEN asked ELSE NoTarget
                         ELSE IF Cardinality(listed[p]) = 1 THEN only ELSE NoTarget
           unavailable == asked # NoTarget /\ asked \notin listed[p]
<1>1. /\ Session(p, asked).selected = selected /\ Session(p, asked).targets = listed[p]
      /\ Session(p, asked).unavailable = unavailable
  BY DEF Session
<1>2. asked # NoTarget => selected \in {NoTarget, asked}
  OBVIOUS
<1>3. asked \notin listed[p] \cup {NoTarget} => unavailable
  OBVIOUS
<1> HIDE DEF selected, unavailable
<1> QED  BY <1>1, <1>2, <1>3 DEF Answers

LEMMA AnswerKeepsViewed ==
  ASSUME Viewed, NEW q \in Requests, Answer(q)
  PROVE  Viewed'
<1>1. UNCHANGED <<page, due, shown>>
  BY DEF Answer
<1>2. PICK asked, live : asked = requests[q].asked /\ live = requests[q].live
  OBVIOUS
<1>3. PICK a : /\ Answers(asked, a)
               /\ requests' = [requests EXCEPT ![q] =
                    [asked |-> asked, live |-> live, at |-> "answered", answer |-> a]]
  <2>1. PICK a \in {NoSession} \cup
                  UNION {Bodies(p, asked) : p \in {s \in Starts : pc[s] = "serving"}} :
          requests' = [requests EXCEPT ![q] =
            [asked |-> asked, live |-> live, at |-> "answered", answer |-> a]]
    BY <1>2 DEF Answer
  <2>2. Answers(asked, NoSession)
    <3>1. NoSession.ok = FALSE
      BY DEF NoSession
    <3> QED  BY <3>1 DEF Answers
  <2>3. Answers(asked, a)
    BY <2>1, <2>2, ServersAnswer DEF Bodies
  <2> QED  BY <2>1, <2>3
<1> DEFINE new == [asked |-> asked, live |-> live, at |-> "answered", answer |-> a]
<1>4. PICK T, A : requests \in [Requests -> Request(T, A)]
  BY DEF Viewed, Asking
<1> DEFINE B == A \cup {a}
<1>5. new \in Request(T, B) /\ requests \in [Requests -> Request(T, B)]
  BY <1>2, <1>4 DEF Request
<1>6. new.asked = asked /\ new.live = live /\ new.at = "answered" /\ new.answer = a
  OBVIOUS
<1>7. requests' = [requests EXCEPT ![q] = new]
  BY <1>3
<1> HIDE DEF new, B
<1>8. /\ requests' \in [Requests -> Request(T, B)] /\ requests'[q] = new
      /\ \A other \in Requests \ {q} : requests'[other] = requests[other]
  BY <1>5, <1>7
<1>9. ASSUME NEW other \in Requests
      PROVE  /\ requests'[other].at = "answered" => Answers(requests'[other].asked, requests'[other].answer)
             /\ requests'[other].live => page.open
             /\ due # "all" /\ requests'[other].live => requests'[other].asked = page.target /\ ~page.refused
  <2>1. CASE other = q
    BY <1>2, <1>3, <1>6, <1>8, <2>1 DEF Viewed
  <2>2. CASE other # q
    BY <1>8, <2>2 DEF Viewed
  <2> QED  BY <2>1, <2>2
<1>10. (ShowsTarget' <=> ShowsTarget) /\ (Impossible' <=> Impossible)
  BY <1>1 DEF ShowsTarget, Impossible, Blank
<1> QED  BY <1>1, <1>8, <1>9, <1>10 DEF Viewed, Asking, Answers

LEMMA DeliverKeepsViewed ==
  ASSUME Viewed, NEW q \in Requests, Deliver(q)
  PROVE  Viewed'
<1>1. /\ requests[q].at = "answered" /\ page' = page /\ requests' = [requests EXCEPT ![q] = Free]
  BY DEF Deliver
<1>2. PICK asked, a : asked = requests[q].asked /\ a = requests[q].answer
  OBVIOUS
<1>3. PICK T, A : requests \in [Requests -> Request(T, A)]
  BY DEF Viewed, Asking
<1> DEFINE U == T \cup {NoTarget}
           B == A \cup {NoSession}
<1>4. Free \in Request(U, B) /\ requests \in [Requests -> Request(U, B)] /\ Free.at = "free" /\ ~Free.live
  BY <1>3 DEF Request, Free
<1> HIDE DEF U, B
<1>5. /\ requests' \in [Requests -> Request(U, B)] /\ requests'[q] = Free
      /\ \A other \in Requests \ {q} : requests'[other] = requests[other]
  BY <1>1, <1>4
<1>6. ASSUME NEW other \in Requests
      PROVE  /\ requests'[other].at = "answered" => Answers(requests'[other].asked, requests'[other].answer)
             /\ requests'[other].live => page.open
             /\ due # "all" /\ requests'[other].live => requests'[other].asked = page.target /\ ~page.refused
  <2>1. CASE other = q
    BY <1>4, <1>5, <2>1
  <2>2. CASE other # q
    BY <1>5, <2>2 DEF Viewed
  <2> QED  BY <2>1, <2>2
<1>7. CASE requests[q].live
  <2>1. shown' = Result(asked, a) /\ due' = IF due = "none" THEN "app" ELSE due
    BY <1>2, <1>7 DEF Deliver
  <2>2. due' \in {"app", "all"} /\ (due' = "all" <=> due = "all") /\ (due # "none" => page.open)
    BY <2>1 DEF Viewed
  <2>3. Answers(asked, a) /\ (due # "all" => asked = page.target /\ ~page.refused)
    BY <1>1, <1>2, <1>7 DEF Viewed
  <2>4. /\ shown'.asked = asked
        /\ asked # NoTarget => shown'.selected \in {NoTarget, asked}
        /\ shown'.targets # {} /\ asked \notin shown'.targets \cup {NoTarget} => shown'.unavailable
    <3>1. CASE Accepted(a)
      <4>1. shown' = [asked |-> asked, targets |-> a.targets, selected |-> a.selected,
                      unavailable |-> a.unavailable, modes |-> Capabilities(a.inspection), error |-> FALSE]
        BY <2>1, <3>1 DEF Result
      <4>2. a.ok
        BY <3>1 DEF Accepted
      <4> QED  BY <2>3, <4>1, <4>2 DEF Answers
    <3>2. CASE ~Accepted(a)
      <4>1. shown' = [Blank(asked) EXCEPT !.error = TRUE]
        BY <2>1, <3>2 DEF Result
      <4> QED  BY <4>1 DEF Blank
    <3> QED  BY <3>1, <3>2
  <2>5. due' # "all" => ShowsTarget'
    BY <1>1, <2>2, <2>3, <2>4 DEF ShowsTarget
  <2>6. page.open
    BY <1>7 DEF Viewed
  <2> QED  BY <1>1, <1>5, <1>6, <2>2, <2>5, <2>6 DEF Viewed, Asking, Answers
<1>8. CASE ~requests[q].live
  <2>1. shown' = shown /\ due' = due
    BY <1>8 DEF Deliver
  <2>2. (ShowsTarget' <=> ShowsTarget) /\ (Impossible' <=> Impossible)
    BY <1>1, <2>1 DEF ShowsTarget, Impossible, Blank
  <2> QED  BY <1>1, <1>5, <1>6, <2>1, <2>2 DEF Viewed, Asking, Answers
<1> QED  BY <1>7, <1>8 DEF Deliver

LEMMA ViewedNext == Viewed /\ [Next]_vars => Viewed'
<1>1. CASE UNCHANGED browserVars
  <2>1. /\ UNCHANGED <<page, due, requests, shown>>
        /\ (ShowsTarget' <=> ShowsTarget) /\ (Impossible' <=> Impossible)
    BY <1>1 DEF browserVars, ShowsTarget, Impossible, Blank
  <2> QED  BY <2>1 DEF Viewed, Asking, Answers
<1>2. CASE PageNext
  <2>1. ASSUME Viewed, NEW q \in Requests, Answer(q) \/ Deliver(q) PROVE Viewed'
    BY <2>1, AnswerKeepsViewed, DeliverKeepsViewed
  <2>2. ASSUME Viewed, NEW link \in Links, OpenPage(link) PROVE Viewed'
    BY <2>2, OpeningKeepsViewed
  <2>3. ASSUME Viewed, ChangeTarget \/ ChangeView \/ PopState PROVE Viewed'
    <3>1. ASSUME NEW t, NEW m, ChangePage(t, m) PROVE Viewed'
      BY <2>3, <3>1, ChangingKeepsViewed DEF ChangePage
    <3>2. CASE PopState
      BY <2>3, <3>2, ChangingKeepsViewed DEF PopState
    <3> QED  BY <2>3, <3>1, <3>2 DEF ChangeTarget, ChangeView
  <2>4. Viewed /\ BrowserNext => Viewed'
    BY <2>1, <2>2, <2>3, RefreshKeepsViewed, EffectsKeepViewed DEF BrowserNext
  <2> QED  BY <1>2, <2>4 DEF PageNext
<1> QED  BY <1>1, <1>2 DEF Next, StartNext, vars, allVars

(* Once its effects have run, the page shows an answer to its own target   *)
(* or none, in whatever order answers come in and whichever server gave    *)
(* them, however many requests are on their way: a request is given up     *)
(* before the page that sent it changes its target (usePluginInspection).  *)
(* An answer about another target, or a mode it does not offer, is not     *)
(* shown, and a refused target is asked of no server (App.tsx).            *)
THEOREM ShowsWhatItAskedFor == Spec => []ShownIsAsked
<1>1. Viewed => ShownIsAsked
  BY DEF Viewed, ShowsTarget, Impossible, ShownIsAsked
<1> QED  BY <1>1, ViewedInit, ViewedNext, PTL DEF Spec
=============================================================================
