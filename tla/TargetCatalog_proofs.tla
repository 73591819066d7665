------------------------ MODULE TargetCatalog_proofs -------------------------
(***************************************************************************)
(* What holds of the catalog for any roots, projects and contents, any     *)
(* number of callers, any limits and any clock.  Only IntegrityIsKept      *)
(* needs a clock that does not step back.                                  *)
(***************************************************************************)
EXTENDS TargetCatalog, EventRetention_proofs

LEMMA PersistStores ==
  ASSUME NEW batch, NEW born, NEW observed, Persist(batch, born, observed)
  PROVE  Store(batch, born, observed)
BY DEF Persist

(* What a transaction leaves of the rows: some retired targets forgotten.  *)
LEMMA Persisted ==
  ASSUME NEW batch, NEW born, NEW observed, Store(batch, born, observed)
  PROVE  \E forgotten \in SUBSET DOMAIN RetirementsOf(batch) :
           /\ objects' = Without(Stored(batch), forgotten)
           /\ retirements' = Without(RetirementsOf(batch), forgotten)
           /\ hosts' = Without(observed, forgotten)
BY DEF Store

(* A target is in the batch as retired when a transaction makes it leave   *)
(* the active ones: only retired targets are forgotten.                    *)
LEMMA LeavingIsRetired ==
  ASSUME NEW batch, NEW born, NEW observed, Store(batch, born, observed),
         NEW i \in Active, i \notin DOMAIN objects' \ DOMAIN retirements'
  PROVE  i \in DOMAIN batch /\ batch[i].type = "retired"
<1>1. PICK forgotten \in SUBSET DOMAIN RetirementsOf(batch) :
        /\ objects' = Without(Stored(batch), forgotten)
        /\ retirements' = Without(RetirementsOf(batch), forgotten)
  BY Persisted
<1>2. DOMAIN objects' = (DOMAIN objects \cup DOMAIN batch) \ forgotten
  BY <1>1 DEF Without, Stored
<1>3. DOMAIN retirements' = DOMAIN RetirementsOf(batch) \ forgotten
  BY <1>1 DEF Without
<1>4. i \in DOMAIN RetirementsOf(batch)
  BY <1>1, <1>2, <1>3 DEF Active
<1> QED
  BY <1>4 DEF RetirementsOf, Active, Retired

(* A snapshot retires only what it did not find below the paths covered.   *)
LEMMA SnapshotRetires ==
  ASSUME NEW candidates, NEW covered, NEW now, Snapshot(candidates, covered, now),
         NEW i \in Active, i \notin DOMAIN objects' \ DOMAIN retirements'
  PROVE  roots[i] \in covered
<1> DEFINE found == UNION {KeptAt(root) : root \in DOMAIN candidates}
           new   == DOMAIN candidates \ {roots[j] : j \in found}
           same  == {j \in found \ Retired : candidates[roots[j]] = objects[j].content}
           gone  == {j \in Active \ found : roots[j] \in covered}
           drawn(born)  == {born[p] : p \in new}
           rootOf(born) == [j \in drawn(born) |-> CHOOSE p \in new : born[p] = j]
           entry(born, j) ==
             IF j \in gone
               THEN [type |-> "retired",
                     row |-> Revised(objects[j], objects[j].content,
                                     objects[j].native, now)]
             ELSE IF j \in drawn(born)
               THEN [type |-> "created",
                     row |-> NewRow(candidates[rootOf(born)[j]], now)]
               ELSE [type |-> Written(j), row |-> NextRow(j, candidates[roots[j]], now)]
           batch(born) == [j \in (found \ same) \cup gone \cup drawn(born) |-> entry(born, j)]
<1>1. PICK born : Persist(batch(born), rootOf(born), hosts)
  BY Zenon DEF Snapshot
<1>2. i \in DOMAIN batch(born) /\ batch(born)[i].type = "retired"
  <2> HIDE DEF batch, rootOf
  <2> QED BY <1>1, PersistStores, LeavingIsRetired
<1>3. batch(born)[i] = entry(born, i)
  BY <1>2
<1>4. CASE i \in gone
  BY <1>4
<1>5. CASE i \notin gone
  <2>1. entry(born, i).type \in {"created", "updated", "reopened"}
    BY <1>5 DEF Written
  <2> QED BY <2>1, <1>2, <1>3
<1> QED BY <1>4, <1>5

(* The other operations that write retire nothing.                         *)
LEMMA OthersRetireNothing ==
  ASSUME NEW i \in Active, i \notin DOMAIN objects' \ DOMAIN retirements'
  PROVE  /\ \A root, content, id, now : ~ RefreshNew(root, content, id, now)
         /\ \A id, content, now : ~ RefreshKnown(id, content, now)
         /\ \A caller, c, observed, now : ~ CommitReconcile(caller, c, observed, now)
<1>1. ASSUME NEW root, NEW content, NEW id, NEW now, RefreshNew(root, content, id, now)
      PROVE  FALSE
  <2> DEFINE batch == [j \in {id} |-> [type |-> "created", row |-> NewRow(content, now)]]
  <2>1. Persist(batch, [j \in {id} |-> root], hosts)
    BY <1>1 DEF RefreshNew
  <2>2. \A j \in DOMAIN batch : batch[j].type = "created"
    OBVIOUS
  <2> HIDE DEF batch
  <2> QED BY <2>1, <2>2, PersistStores, LeavingIsRetired
<1>2. ASSUME NEW id, NEW content, NEW now, RefreshKnown(id, content, now)
      PROVE  FALSE
  <2> DEFINE batch == [j \in {id} |-> [type |-> Written(id), row |-> NextRow(id, content, now)]]
  <2>1. Persist(batch, Empty, hosts)
    BY <1>2 DEF RefreshKnown
  <2>2. \A j \in DOMAIN batch : batch[j].type \in {"updated", "reopened"}
    BY DEF Written
  <2> HIDE DEF batch
  <2> QED BY <2>1, <2>2, PersistStores, LeavingIsRetired
<1>3. ASSUME NEW caller, NEW c, NEW observed, NEW now, CommitReconcile(caller, c, observed, now)
      PROVE  FALSE
  <2> DEFINE id  == inflight[caller].object
             row == inflight[caller].row
             batch == [j \in {id} |->
                         [type |-> "reconciled",
                          row |-> Revised(row, row.content, observed, now)]]
  <2>1. Persist(batch, Empty, Observed(id, observed))
    BY <1>3, Zenon DEF CommitReconcile
  <2>2. \A j \in DOMAIN batch : batch[j].type = "reconciled"
    BY Zenon
  <2> HIDE DEF batch
  <2> QED BY <2>1, <2>2, PersistStores, LeavingIsRetired
<1> QED BY <1>1, <1>2, <1>3

(* What a snapshot claims when something leaves the active targets.        *)
LEMMA ClaimIsMade ==
  ASSUME NEW scanned, NEW doubted, Claim(scanned, doubted),
         NEW i \in Active, i \notin DOMAIN objects' \ DOMAIN retirements'
  PROVE  asked' = [scopes |-> scanned, doubted |-> doubted]
BY DEF Claim

(* A target is retired only by a snapshot that scanned every registered    *)
(* project the target lies in and left none of them in doubt: the rule of  *)
(* shouldReconcileSource, for any forest of paths.                         *)
THEOREM RetiredByItsOwnScans == Spec => RetiredOnlyWhenScanned
<1> DEFINE above(i, S) == {s \in S : <<roots[i], s>> \in Inside}
           Scanned(i) == /\ above(i, asked'.scopes) # {}
                         /\ above(i, scopes) \subseteq asked'.scopes
                         /\ above(i, asked'.doubted) = {}
<1>1. ASSUME Next, NEW i \in Active, i \notin DOMAIN objects' \ DOMAIN retirements'
      PROVE  Scanned(i)
  <2> USE CatalogAssumption DEF CatalogAssumption
  <2>1. ASSUME NEW candidates, NEW now, SnapshotOfAll(candidates, now)
        PROVE  Scanned(i)
    <3>1. roots[i] \in Paths
      BY <1>1, <2>1, SnapshotRetires DEF SnapshotOfAll
    <3>2. asked' = [scopes |-> Paths, doubted |-> {}]
      BY <1>1, <2>1, ClaimIsMade DEF SnapshotOfAll
    <3> QED BY <3>1, <3>2
  <2>2. ASSUME NEW candidates, NEW A, NEW U, NEW now,
               SnapshotOfSome(candidates, A, U, now)
        PROVE  Scanned(i)
    <3>1. roots[i] \in SpeaksFor(scopes, A, U)
      BY <1>1, <2>2, SnapshotRetires DEF SnapshotOfSome
    <3>2. asked' = [scopes |-> A, doubted |-> U]
      BY <1>1, <2>2, ClaimIsMade DEF SnapshotOfSome
    <3>3. PICK a \in A : <<roots[i], a>> \in Inside
      BY <3>1 DEF SpeaksFor, Below
    <3>4. above(i, scopes) \subseteq A
      <4> SUFFICES ASSUME NEW s \in scopes, <<roots[i], s>> \in Inside, s \notin A
                   PROVE  FALSE
        OBVIOUS
      <4>1. roots[i] \in Paths /\ s \in Paths /\ a \in Paths
        BY <3>3
      <4>2. s \in Unscanned(scopes, A)
        BY <4>1, <3>3 DEF Unscanned, Overlap
      <4> QED BY <3>1, <4>1, <4>2 DEF SpeaksFor, Below
    <3> QED BY <3>1, <3>2, <3>3, <3>4 DEF SpeaksFor, Below
  <2>3. ASSUME NEW candidates, NEW C, NEW U, NEW now,
               SnapshotOfCurrent(candidates, C, U, now)
        PROVE  Scanned(i)
    <3>1. roots[i] \in SpeaksForAll(scopes, C, U)
      BY <1>1, <2>3, SnapshotRetires DEF SnapshotOfCurrent
    <3>2. asked' = [scopes |-> scopes \cup C, doubted |-> U]
      BY <1>1, <2>3, ClaimIsMade DEF SnapshotOfCurrent
    <3> QED BY <3>1, <3>2 DEF SpeaksForAll, Below
  <2>4. ~ UNCHANGED tables
    BY <1>1 DEF tables, Active, Retired
  <2> QED
    BY <1>1, <2>1, <2>2, <2>3, <2>4, OthersRetireNothing
       DEF Next, Operation, RegisterProjectScopes, BeginReconcile, AbandonReconcile
<1>2. ASSUME UNCHANGED vars, NEW i \in Active
      PROVE  i \in DOMAIN objects' \ DOMAIN retirements'
  BY <1>2 DEF vars, tables, Active, Retired
<1>3. [Next]_vars =>
        \A i \in Active : i \notin (DOMAIN objects' \ DOMAIN retirements') => Scanned(i)
  BY <1>1, <1>2
<1> QED
  BY <1>3, PTL DEF Spec, RetiredOnlyWhenScanned

-----------------------------------------------------------------------------

(* The rows as the operations need them: ids are never drawn twice, and a  *)
(* suspended reconciliation holds a whole row of a target once drawn.      *)
Rows ==
  /\ cast \in Casts
  /\ IsFiniteSet(DOMAIN objects)
  /\ DOMAIN objects \subseteq used
  /\ \A i \in DOMAIN objects : objects[i] \in Object
  /\ Retired \subseteq DOMAIN objects
  /\ \A c \in DOMAIN inflight : inflight[c].object \in used /\ inflight[c].row \in Object

(* A row read before an await is the row of now as long as the revision is *)
(* the same, and its target was not retired since.                         *)
Suspended ==
  \A c \in DOMAIN inflight :
    inflight[c].object \in DOMAIN objects =>
      /\ inflight[c].row.revision <= objects[inflight[c].object].revision
      /\ inflight[c].row.revision = objects[inflight[c].object].revision =>
           /\ inflight[c].row = objects[inflight[c].object]
           /\ inflight[c].object \notin Retired

(* Sequence numbers identify events and lie below the counter, as every    *)
(* checkpoint does.                                                        *)
Numbered ==
  /\ nextSequence \in Nat \ {0}
  /\ IsFiniteSet(events)
  /\ \A e \in events : /\ e.sequence \in Nat /\ 0 < e.sequence /\ e.sequence < nextSequence
                       /\ e.type \in EventTypes
  /\ \A e, f \in events : e.sequence = f.sequence => e = f
  /\ \A i \in DOMAIN retention : retention[i] \in Nat /\ retention[i] < nextSequence

(* Every row has its root, a root has one target, and the limits hold.     *)
Placed ==
  /\ DOMAIN roots = DOMAIN objects
  /\ \A i, j \in DOMAIN roots : roots[i] = roots[j] => i = j
  /\ Cardinality(DOMAIN roots) <= MaxHistory
  /\ Cardinality(Active) <= MaxTargets

(* An attested native state is the row's own.                              *)
Attested == \A i \in DOMAIN hosts : i \in DOMAIN objects /\ objects[i].native = hosts[i]

(* An event after which its target was not retired or reopened again, and  *)
(* one after which no native state was attested.                           *)
IsTurn(e) == e.type \in {"retired", "reopened"}
LastTurn(e) ==
  IsTurn(e) /\ \A f \in events : f.object = e.object /\ IsTurn(f) => f.sequence <= e.sequence
LastObservation(e) ==
  /\ e.type = "reconciled"
  /\ \A f \in events : f.object = e.object /\ f.type = "reconciled" => f.sequence <= e.sequence

(* What the integrity check asks beyond that: retirements and checkpoints  *)
(* belong to rows and agree with them, every event to a row that is as     *)
(* old, every attested state to an event; the last turn of a target is the *)
(* one it took, and no target has more events than its bound.              *)
Booked ==
  /\ \A i \in Retired : /\ retirements[i].revision = objects[i].revision
                        /\ retirements[i].at = objects[i].updated
  /\ \A i \in DOMAIN hosts : \E e \in events : e.object = i /\ e.type = "reconciled"
  /\ \A e \in events : /\ e.object \in DOMAIN objects
                       /\ e.revision \in Nat /\ e.revision <= objects[e.object].revision
                       /\ e.type = "reconciled" => e.object \in DOMAIN hosts
  /\ \A e \in events : LastTurn(e) => (e.type = "retired" <=> e.object \in Retired)
  /\ DOMAIN retention \subseteq DOMAIN objects
  /\ \A i \in DOMAIN objects : Cardinality(EventsOf(events, i)) <= MaxEvents

(* As long as the clock does not step back, no row is stamped later than   *)
(* now, no event later than its row, and no attested state was observed    *)
(* later than it was written.                                              *)
Timed ==
  /\ clock \in Nat
  /\ \A i \in DOMAIN objects : objects[i].updated <= clock
  /\ \A e \in events : e.at \in Nat /\ e.at <= objects[e.object].updated
  /\ \A i \in DOMAIN hosts : hosts[i] \in Nat
  /\ \A e \in events : LastObservation(e) => hosts[e.object] <= e.at

IInv ==
  /\ Rows /\ Suspended /\ Placed /\ Attested /\ Numbered /\ RowsMatchJournal
  /\ Booked /\ (MonotoneClock => Timed)

(* What the operations hand to a transaction: the next revision of known   *)
(* targets and the first of new ones, and nothing of a retired target but  *)
(* its reopening or another retirement.                                    *)
WellFormed(batch, born) ==
  /\ IsFiniteSet(DOMAIN batch)
  /\ DOMAIN born \subseteq DOMAIN batch
  /\ DOMAIN born \cap used = {}
  /\ DOMAIN batch \subseteq DOMAIN objects \cup DOMAIN born
  /\ \A i \in DOMAIN batch : batch[i].type \in EventTypes /\ batch[i].row \in Object
  /\ \A i \in DOMAIN batch : batch[i].type # "reopened" => i \notin Retired
  /\ \A i \in DOMAIN batch \cap DOMAIN objects :
       batch[i].row.revision = objects[i].revision + 1

(* The active targets after a batch, before anything is forgotten.         *)
ActiveAfter(batch, born) == (DOMAIN roots \cup DOMAIN born) \ DOMAIN RetirementsOf(batch)

(* What else the operations see to: new targets start at their own roots,  *)
(* all rows are stamped alike, and the active targets fit the limit.       *)
Placeable(batch, born) ==
  /\ \A i \in DOMAIN born : batch[i].type = "created" /\ batch[i].row.revision = 1
  /\ \A i \in DOMAIN batch : batch[i].row.updated = clock'
  /\ \A i \in DOMAIN born, j \in DOMAIN roots : born[i] # roots[j]
  /\ \A i, j \in DOMAIN born : born[i] = born[j] => i = j
  /\ Cardinality(ActiveAfter(batch, born)) <= MaxTargets

(* What the operations see to of native states: they keep the attested     *)
(* ones, and only a reconciliation brings one, no later than it is written.*)
Observes(batch, observed) ==
  /\ DOMAIN hosts \subseteq DOMAIN observed
  /\ \A i \in DOMAIN observed :
       \/ i \in DOMAIN batch /\ batch[i].type = "reconciled"
       \/ i \in DOMAIN hosts /\ observed[i] = hosts[i]
  /\ \A i \in DOMAIN batch : i \in DOMAIN observed => batch[i].row.native = observed[i]
  /\ \A i \in DOMAIN batch : batch[i].type = "reconciled" =>
       i \in DOMAIN observed /\ observed[i] \in Nat /\ observed[i] <= clock'
  /\ clock' \in Nat /\ (MonotoneClock => clock <= clock')

(* Every operation that writes hands over a well-formed batch and forgets  *)
(* no more of the suspended rows than its own.                             *)
Writes(batch, born, observed) ==
  /\ WellFormed(batch, born)
  /\ Placeable(batch, born)
  /\ Observes(batch, observed)
  /\ Store(batch, born, observed)
  /\ \A c \in DOMAIN inflight' : c \in DOMAIN inflight /\ inflight'[c] = inflight[c]

(* The first row of a target and the next one.                             *)
LEMMA RowsWritten ==
  ASSUME Rows, NEW now \in Nat, NEW content \in Contents
  PROVE  /\ NewRow(content, now) \in Object
         /\ NewRow(content, now).revision = 1 /\ NewRow(content, now).updated = now
         /\ \A row \in Object, native \in Nat :
              /\ Revised(row, content, native, now) \in Object
              /\ Revised(row, content, native, now).revision = row.revision + 1
              /\ Revised(row, content, native, now).updated = now
         /\ \A i \in DOMAIN objects :
              /\ NextRow(i, content, now) \in Object
              /\ NextRow(i, content, now).revision = objects[i].revision + 1
              /\ NextRow(i, content, now).updated = now
<1>1. /\ NewRow(content, now) \in Object
      /\ NewRow(content, now).revision = 1 /\ NewRow(content, now).updated = now
  BY DEF Object, NewRow
<1>2. \A row \in Object, native \in Nat :
        /\ Revised(row, content, native, now) \in Object
        /\ Revised(row, content, native, now).revision = row.revision + 1
        /\ Revised(row, content, native, now).updated = now
  BY DEF Object, Revised
<1>3. ASSUME NEW i \in DOMAIN objects
      PROVE  (IF i \in DOMAIN hosts THEN objects[i].native ELSE 0) \in Nat
  BY DEF Rows, Object
<1> QED
  BY <1>1, <1>2, <1>3 DEF Rows, NextRow

(* How many targets are active when one is added, or none.                 *)
LEMMA ActiveCount ==
  ASSUME Rows, Placed
  PROVE  /\ IsFiniteSet(Active) /\ Cardinality(Active) \in Nat
         /\ MaxTargets \in Nat /\ MaxHistory \in Nat
         /\ \A i : (i \notin Active /\ Cardinality(Active) < MaxTargets)
              => Cardinality(Active \cup {i}) <= MaxTargets
<1>1. IsFiniteSet(Active)
  BY FS_Subset DEF Rows, Active
<1>2. Cardinality(Active) \in Nat
  BY <1>1, FS_CardinalityType
<1>3. \A i : i \notin Active => Cardinality(Active \cup {i}) = Cardinality(Active) + 1
  BY <1>1, FS_AddElement
<1> QED BY <1>1, <1>2, <1>3, CatalogAssumption DEF CatalogAssumption

(* refresh writes the first row of a root, or the next.                    *)
LEMMA RefreshWrites ==
  ASSUME Rows, Placed, Attested, NEW i \in cast.ids, NEW content \in Contents,
         NEW now \in Nat, MonotoneClock => clock <= now
  PROVE  /\ \A root : RefreshNew(root, content, i, now) =>
              \E batch, born : Writes(batch, born, hosts)
         /\ RefreshKnown(i, content, now) =>
              \E batch, born : Writes(batch, born, hosts)
<1>1. ASSUME NEW root, RefreshNew(root, content, i, now)
      PROVE  \E batch, born : Writes(batch, born, hosts)
  <2> DEFINE batch == [j \in {i} |-> [type |-> "created", row |-> NewRow(content, now)]]
             born  == [j \in {i} |-> root]
  <2>1. Persist(batch, born, hosts)
    BY <1>1 DEF RefreshNew
  <2>2. i \notin used /\ i \notin Retired /\ i \notin DOMAIN objects
    BY <1>1 DEF RefreshNew, Rows
  <2>3. WellFormed(batch, born)
    BY <2>2, RowsWritten, FS_Singleton DEF WellFormed, EventTypes
  <2>4. inflight' = inflight /\ clock' = now
    BY <1>1 DEF RefreshNew
  <2>5. Placeable(batch, born)
    <3>1. batch[i].row.revision = 1 /\ batch[i].row.updated = now
      BY RowsWritten
    <3>2. \A j \in DOMAIN roots : roots[j] # root
      BY <1>1 DEF RefreshNew, KeptAt
    <3>3. ActiveAfter(batch, born) = Active \cup {i}
      BY <2>2 DEF ActiveAfter, RetirementsOf, Active, Retired, Placed
    <3>4. Cardinality(Active) < MaxTargets /\ i \notin Active
      BY <1>1, <2>2 DEF RefreshNew, Active
    <3>5. Cardinality(ActiveAfter(batch, born)) <= MaxTargets
      BY <3>3, <3>4, ActiveCount
    <3> QED BY <2>4, <3>1, <3>2, <3>5 DEF Placeable
  <2>6. Observes(batch, hosts)
    <3>1. i \notin DOMAIN hosts
      BY <2>2 DEF Attested
    <3> QED BY <2>4, <3>1 DEF Observes
  <2> QED BY <2>1, <2>3, <2>4, <2>5, <2>6, PersistStores DEF Writes
<1>2. ASSUME RefreshKnown(i, content, now)
      PROVE  \E batch, born : Writes(batch, born, hosts)
  <2> DEFINE batch == [j \in {i} |-> [type |-> Written(i), row |-> NextRow(i, content, now)]]
  <2>1. Persist(batch, Empty, hosts)
    BY <1>2 DEF RefreshKnown
  <2>2. i \in DOMAIN objects
    BY <1>2 DEF RefreshKnown, IntegrityHolds, StructureIntact
  <2>3. Written(i) \in EventTypes /\ (Written(i) # "reopened" => i \notin Retired)
    BY DEF Written, EventTypes
  <2>4. WellFormed(batch, Empty)
    <3>1. IsFiniteSet(DOMAIN batch) /\ DOMAIN Empty = {}
      BY FS_Singleton DEF Empty
    <3>2. NextRow(i, content, now) \in Object
            /\ NextRow(i, content, now).revision = objects[i].revision + 1
      BY <2>2, RowsWritten
    <3> QED BY <2>2, <2>3, <3>1, <3>2 DEF WellFormed
  <2>5. inflight' = inflight /\ clock' = now
    BY <1>2 DEF RefreshKnown
  <2>6. Placeable(batch, Empty)
    <3>1. batch[i].row.updated = now
      BY <2>2, RowsWritten
    <3>2. CASE i \in Retired
      <4>1. ActiveAfter(batch, Empty) = Active \cup {i} /\ i \notin Active
        BY <2>2, <3>2 DEF ActiveAfter, RetirementsOf, Active, Retired, Placed, Empty, Written
      <4>2. Cardinality(Active) < MaxTargets
        BY <1>2, <3>2 DEF RefreshKnown
      <4>3. Cardinality(ActiveAfter(batch, Empty)) <= MaxTargets
        BY <4>1, <4>2, ActiveCount
      <4> QED BY <2>5, <3>1, <4>3 DEF Placeable, Empty
    <3>3. CASE i \notin Retired
      <4>1. ActiveAfter(batch, Empty) = Active
        BY <2>2, <3>3 DEF ActiveAfter, RetirementsOf, Active, Retired, Placed, Empty, Written
      <4> QED BY <2>5, <3>1, <4>1 DEF Placeable, Empty, Placed
    <3> QED BY <3>2, <3>3
  <2>7. Observes(batch, hosts)
    <3>1. i \in DOMAIN hosts => NextRow(i, content, now).native = hosts[i]
      BY DEF NextRow, Revised, Attested
    <3>2. batch[i].type # "reconciled"
      BY DEF Written
    <3> QED BY <2>5, <3>1, <3>2 DEF Observes
  <2> QED BY <2>1, <2>4, <2>5, <2>6, <2>7, PersistStores DEF Writes
<1> QED BY <1>1, <1>2

(* reconcileNative writes the next revision of the row it read, which is   *)
(* still the row that is there.                                            *)
LEMMA CommitWrites ==
  ASSUME Rows, Suspended, Placed, Attested, NEW caller, NEW candidate,
         NEW observed \in Nat, NEW now \in Nat, MonotoneClock => clock <= now,
         CommitReconcile(caller, candidate, observed, now)
  PROVE  LET i == inflight[caller].object
         IN  /\ i \in Active /\ inflight[caller].row = objects[i]
             /\ Writes([j \in {i} |->
                          [type |-> "reconciled",
                           row |-> Revised(objects[i], objects[i].content, observed, now)]],
                       Empty, Observed(i, observed))
<1> DEFINE i == inflight[caller].object
           row == inflight[caller].row
           batch == [j \in {i} |-> [type |-> "reconciled",
                                   row |-> Revised(row, row.content, observed, now)]]
<1>1. Persist(batch, Empty, Observed(i, observed)) /\ Current(i, row)
  BY Zenon DEF CommitReconcile
<1>2. caller \in DOMAIN inflight /\ inflight' = Without(inflight, {caller})
  BY DEF CommitReconcile
<1>3. row = objects[i] /\ i \in Active
  BY <1>1, <1>2 DEF Current, Suspended, Active, Rows, Object
<1>4. row \in Object /\ row.content \in Contents
  BY <1>2 DEF Rows, Object
<1>5. WellFormed(batch, Empty)
  <2>1. IsFiniteSet(DOMAIN batch) /\ DOMAIN Empty = {}
    BY FS_Singleton DEF Empty
  <2>2. Revised(row, row.content, observed, now) \in Object
          /\ Revised(row, row.content, observed, now).revision = objects[i].revision + 1
    <3>1. \A r \in Object, native \in Nat :
            /\ Revised(r, row.content, native, now) \in Object
            /\ Revised(r, row.content, native, now).revision = r.revision + 1
      <4> DEFINE content == row.content
      <4>1. content \in Contents
        BY <1>4
      <4> HIDE DEF content
      <4>2. \A r \in Object, native \in Nat :
              /\ Revised(r, content, native, now) \in Object
              /\ Revised(r, content, native, now).revision = r.revision + 1
        BY <4>1, RowsWritten
      <4> QED BY <4>2 DEF content
    <3> QED BY <1>3, <1>4, <3>1
  <2>3. batch[i].type \in EventTypes
    BY DEF EventTypes
  <2> QED BY <1>3, <2>1, <2>2, <2>3 DEF WellFormed, Active
<1>6. \A c \in DOMAIN inflight' : c \in DOMAIN inflight /\ inflight'[c] = inflight[c]
  BY <1>2 DEF Without
<1>7. Placeable(batch, Empty)
  <2>1. clock' = now
    BY DEF CommitReconcile
  <2>2. batch[i].row.updated = now
    BY DEF Revised
  <2>3. ActiveAfter(batch, Empty) = Active
    BY <1>3 DEF ActiveAfter, RetirementsOf, Active, Retired, Placed, Empty
  <2> QED BY <2>1, <2>2, <2>3 DEF Placeable, Empty, Placed
<1>8. Observes(batch, Observed(i, observed))
  <2>1. clock' = now /\ observed <= now
    BY DEF CommitReconcile
  <2>2. batch[i].row.native = observed
    BY DEF Revised
  <2>3. /\ DOMAIN Observed(i, observed) = DOMAIN hosts \cup {i}
        /\ Observed(i, observed)[i] = observed
        /\ \A j \in DOMAIN hosts : j # i => Observed(i, observed)[j] = hosts[j]
    BY DEF Observed, Put
  <2> HIDE DEF i
  <2> QED BY <2>1, <2>2, <2>3 DEF Observes
<1>9. Writes(batch, Empty, Observed(i, observed))
  BY <1>1, <1>5, <1>6, <1>7, <1>8, PersistStores DEF Writes
<1> QED BY <1>3, <1>9

(* A snapshot writes what it found anew or changed, and what it retires.   *)
LEMMA SnapshotWrites ==
  ASSUME Rows, Placed, Attested, NEW candidates, NEW covered,
         NEW now \in Nat, MonotoneClock => clock <= now,
         IsFiniteSet(DOMAIN candidates),
         \A p \in DOMAIN candidates : candidates[p] \in Contents,
         Snapshot(candidates, covered, now)
  PROVE  \E batch, born : Writes(batch, born, hosts)
<1> DEFINE found == UNION {KeptAt(root) : root \in DOMAIN candidates}
           new   == DOMAIN candidates \ {roots[j] : j \in found}
           same  == {j \in found \ Retired : candidates[roots[j]] = objects[j].content}
           gone  == {j \in Active \ found : roots[j] \in covered}
           drawn(born)  == {born[p] : p \in new}
           rootOf(born) == [j \in drawn(born) |-> CHOOSE p \in new : born[p] = j]
           entry(born, j) ==
             IF j \in gone
               THEN [type |-> "retired",
                     row |-> Revised(objects[j], objects[j].content,
                                     objects[j].native, now)]
             ELSE IF j \in drawn(born)
               THEN [type |-> "created",
                     row |-> NewRow(candidates[rootOf(born)[j]], now)]
               ELSE [type |-> Written(j), row |-> NextRow(j, candidates[roots[j]], now)]
           batch(born) == [j \in (found \ same) \cup gone \cup drawn(born) |-> entry(born, j)]
           next  == Cardinality(Active) - Cardinality(gone)
                      + Cardinality(new) + Cardinality(found \cap Retired)
<1>1. PICK born \in [new -> cast.ids \ used] :
        /\ Persist(batch(born), rootOf(born), hosts)
        /\ Cardinality(drawn(born)) = Cardinality(new)
  BY Zenon DEF Snapshot
<1>2. found \subseteq DOMAIN objects
  BY DEF Snapshot, IntegrityHolds, StructureIntact, KeptAt
<1>3. gone \subseteq DOMAIN objects
  BY DEF Active
<1>4. drawn(born) \cap used = {}
  BY <1>1
<1>5. IsFiniteSet(DOMAIN batch(born))
  <2>1. IsFiniteSet(new)
    BY FS_Subset
  <2>2. IsFiniteSet(drawn(born))
    <3>1. born \in Surjection(new, drawn(born))
      BY <1>1 DEF Surjection
    <3> QED BY <2>1, <3>1, FS_Surjection
  <2>3. IsFiniteSet((found \ same) \cup gone)
    BY <1>2, <1>3, FS_Subset DEF Rows
  <2> QED BY <2>2, <2>3, FS_Union
<1>6. ASSUME NEW j \in DOMAIN batch(born)
      PROVE  /\ batch(born)[j].type \in EventTypes /\ batch(born)[j].row \in Object
             /\ batch(born)[j].row.updated = now
             /\ batch(born)[j].type # "reopened" => j \notin Retired
             /\ j \in DOMAIN objects =>
                  batch(born)[j].row.revision = objects[j].revision + 1
             /\ j \in drawn(born) =>
                  batch(born)[j].type = "created" /\ batch(born)[j].row.revision = 1
             /\ batch(born)[j].type = "retired" <=> j \in gone
             /\ j \in found \cap Retired => batch(born)[j].type = "reopened"
             /\ batch(born)[j].type # "reconciled"
             /\ j \in DOMAIN hosts => batch(born)[j].row.native = hosts[j]
  <2>0. /\ j \in found \/ j \in gone \/ j \in drawn(born)
        /\ j \in found => j \notin gone /\ j \in DOMAIN objects /\ roots[j] \in DOMAIN candidates
        /\ j \in gone => j \in DOMAIN objects /\ j \notin Retired
        /\ j \in drawn(born) => j \notin DOMAIN objects /\ j \notin Retired
    BY <1>2, <1>3, <1>4 DEF Rows, Active, KeptAt
  <2> DEFINE r == batch(born)[j]
  <2>1. CASE j \in gone
    <3>1. r = [type |-> "retired",
               row |-> Revised(objects[j], objects[j].content, objects[j].native, now)]
      BY <2>1
    <3>2. objects[j] \in Object /\ objects[j].content \in Contents /\ objects[j].native \in Nat
      BY <2>1, <1>3 DEF Rows, Object
    <3>3. /\ Revised(objects[j], objects[j].content, objects[j].native, now) \in Object
          /\ Revised(objects[j], objects[j].content, objects[j].native, now).revision
               = objects[j].revision + 1
          /\ Revised(objects[j], objects[j].content, objects[j].native, now).updated = now
          /\ Revised(objects[j], objects[j].content, objects[j].native, now).native
               = objects[j].native
      <4> DEFINE content == objects[j].content
      <4>1. content \in Contents
        BY <3>2
      <4> HIDE DEF content
      <4>2. \A row \in Object, native \in Nat :
              /\ Revised(row, content, native, now) \in Object
              /\ Revised(row, content, native, now).revision = row.revision + 1
              /\ Revised(row, content, native, now).updated = now
        BY <4>1, RowsWritten
      <4>3. \A row, native : Revised(row, content, native, now).native = native
        BY DEF Revised
      <4> QED BY <3>2, <4>2, <4>3 DEF content
    <3> HIDE DEF found, gone, drawn, r
    <3> QED BY <2>0, <2>1, <3>1, <3>3 DEF EventTypes, r, Attested
  <2>2. CASE j \in drawn(born)
    <3>1. rootOf(born)[j] \in DOMAIN candidates
      BY <2>2
    <3>2. r = [type |-> "created", row |-> NewRow(candidates[rootOf(born)[j]], now)]
      <4>1. j \notin gone
        BY <2>0, <2>2
      <4> HIDE DEF gone, rootOf, drawn, found, same
      <4> QED BY <2>2, <4>1 DEF r
    <3> HIDE DEF found, gone, drawn, r, rootOf
    <3>3. /\ NewRow(candidates[rootOf(born)[j]], now) \in Object
          /\ NewRow(candidates[rootOf(born)[j]], now).revision = 1
          /\ NewRow(candidates[rootOf(born)[j]], now).updated = now
      BY <3>1, RowsWritten
    <3>4. j \notin DOMAIN hosts
      BY <2>0, <2>2 DEF Attested
    <3> QED BY <2>0, <2>2, <3>2, <3>3, <3>4 DEF EventTypes, r
  <2>3. CASE j \notin gone /\ j \notin drawn(born)
    <3>1. r = [type |-> Written(j), row |-> NextRow(j, candidates[roots[j]], now)]
      <4> HIDE DEF gone, rootOf, drawn, found, same
      <4> QED BY <2>3 DEF r
    <3> HIDE DEF found, gone, drawn, r
    <3>2. j \in found
      BY <2>0, <2>3
    <3>3. /\ NextRow(j, candidates[roots[j]], now) \in Object
          /\ NextRow(j, candidates[roots[j]], now).revision = objects[j].revision + 1
          /\ NextRow(j, candidates[roots[j]], now).updated = now
      BY <2>0, <3>2, RowsWritten
    <3>4. Written(j) \in {"updated", "reopened"} /\ (Written(j) = "reopened" <=> j \in Retired)
      BY DEF Written
    <3>5. j \in DOMAIN hosts => NextRow(j, candidates[roots[j]], now).native = hosts[j]
      BY DEF NextRow, Revised, Attested
    <3> QED BY <2>0, <2>3, <3>1, <3>2, <3>3, <3>4, <3>5 DEF EventTypes, r
  <2> QED BY <2>1, <2>2, <2>3
<1>7. /\ DOMAIN batch(born) = (found \ same) \cup gone \cup drawn(born)
      /\ DOMAIN rootOf(born) = drawn(born)
  OBVIOUS
<1>8. WellFormed(batch(born), rootOf(born))
  <2> HIDE DEF batch, rootOf, found, same, gone, drawn
  <2>1. DOMAIN batch(born) \subseteq DOMAIN objects \cup DOMAIN rootOf(born)
    BY <1>2, <1>3, <1>7
  <2>2. DOMAIN rootOf(born) \subseteq DOMAIN batch(born) /\ DOMAIN rootOf(born) \cap used = {}
    BY <1>4, <1>7
  <2> QED BY <2>1, <2>2, <1>5, <1>6 DEF WellFormed
<1>9. inflight' = inflight /\ clock' = now
  BY DEF Snapshot
<1>10. /\ \A j \in drawn(born) : rootOf(born)[j] \in new /\ born[rootOf(born)[j]] = j
       /\ \A p \in new, k \in DOMAIN roots : roots[k] # p
  BY DEF KeptAt
<1>11. Cardinality(ActiveAfter(batch(born), rootOf(born))) = next
  <2>1. DOMAIN roots = DOMAIN objects
    BY DEF Placed
  <2>2. gone \subseteq Active /\ found \cap gone = {} /\ same \cap Retired = {}
    OBVIOUS
  <2>3. IsFiniteSet(new)
    BY FS_Subset
  <2> DEFINE G == gone
             F == found
             D == drawn(born)
             B == batch(born)
             R == rootOf(born)
  <2>4. D \cap DOMAIN objects = {}
    BY <1>4 DEF Rows
  <2>5. \A k \in DOMAIN B : /\ B[k].type = "retired" <=> k \in G
                            /\ k \in F \cap Retired => B[k].type = "reopened"
                            /\ B[k].type # "reopened" => k \notin Retired
    BY <1>6
  <2>6. DOMAIN B = (F \ same) \cup G \cup D /\ DOMAIN R = D
    BY <1>7
  <2>7. Cardinality(D) = Cardinality(new)
    BY <1>1
  <2> HIDE DEF G, F, D, B, R, found, same, gone, new, drawn, batch, rootOf
  <2>8. ActiveAfter(B, R) = ((Active \ G) \cup D) \cup (F \cap Retired)
    <3>1. DOMAIN RetirementsOf(B) =
            (Retired \ {k \in DOMAIN B : B[k].type = "reopened"}) \cup G
      BY <2>5, <2>6 DEF RetirementsOf
    <3> QED BY <3>1, <2>1, <2>2, <2>4, <2>5, <2>6, <1>2 DEF ActiveAfter, Active, Rows, F, G
  <2>9. /\ IsFiniteSet(Active) /\ IsFiniteSet(G) /\ IsFiniteSet(F \cap Retired)
        /\ G \subseteq Active
    BY <2>2, <1>2, FS_Subset DEF Rows, Active, G, F
  <2>10. IsFiniteSet(D)
    BY <1>5, <2>6, FS_Subset DEF B
  <2>11. IsFiniteSet(Active \ G) /\ Cardinality(Active \ G) = Cardinality(Active) - Cardinality(G)
    <3>1. Active \cap G = G
      BY <2>9
    <3> QED BY <2>9, <3>1, FS_Difference
  <2>12. /\ IsFiniteSet((Active \ G) \cup D)
         /\ Cardinality((Active \ G) \cup D) = Cardinality(Active \ G) + Cardinality(D)
    <3>1. (Active \ G) \cap D = {}
      BY <2>4 DEF Active
    <3>2. /\ IsFiniteSet((Active \ G) \cup D)
          /\ Cardinality((Active \ G) \cup D) = Cardinality(Active \ G) + Cardinality(D) - Cardinality({})
      BY <2>10, <2>11, <3>1, FS_Union
    <3>3. Cardinality(Active \ G) \in Nat /\ Cardinality(D) \in Nat /\ Cardinality({}) = 0
      BY <2>10, <2>11, FS_CardinalityType, FS_EmptySet
    <3> QED BY <3>2, <3>3
  <2>13. Cardinality(((Active \ G) \cup D) \cup (F \cap Retired))
           = Cardinality((Active \ G) \cup D) + Cardinality(F \cap Retired)
    <3>1. ((Active \ G) \cup D) \cap (F \cap Retired) = {}
      BY <2>4, <1>2 DEF Active, F
    <3>2. Cardinality(((Active \ G) \cup D) \cup (F \cap Retired))
           = Cardinality((Active \ G) \cup D) + Cardinality(F \cap Retired) - Cardinality({})
      BY <2>9, <2>12, <3>1, FS_Union
    <3>3. /\ Cardinality((Active \ G) \cup D) \in Nat
          /\ Cardinality(F \cap Retired) \in Nat /\ Cardinality({}) = 0
      BY <2>9, <2>12, FS_CardinalityType, FS_EmptySet
    <3> QED BY <3>2, <3>3
  <2> QED BY <2>7, <2>8, <2>11, <2>12, <2>13 DEF F, G, D, B, R
<1>12. next <= MaxTargets
  BY Zenon DEF Snapshot
<1>13. Placeable(batch(born), rootOf(born))
  <2>1. \A j \in drawn(born), k \in DOMAIN roots : rootOf(born)[j] # roots[k]
    BY <1>10
  <2>2. \A j, k \in drawn(born) : rootOf(born)[j] = rootOf(born)[k] => j = k
    BY <1>10
  <2> HIDE DEF batch, rootOf, found, same, gone, drawn, next
  <2> QED BY <2>1, <2>2, <1>6, <1>7, <1>9, <1>11, <1>12 DEF Placeable
<1> HIDE DEF batch, rootOf
<1>14. Observes(batch(born), hosts)
  BY <1>6, <1>9 DEF Observes
<1> QED BY <1>1, <1>8, <1>9, <1>13, <1>14, PersistStores DEF Writes

-----------------------------------------------------------------------------

(* A well-formed batch keeps the rows and what is known of suspended ones. *)
LEMMA WritesKeepRows ==
  ASSUME Rows, Suspended, NEW batch, NEW born, NEW observed, Writes(batch, born, observed),
         cast' = cast
  PROVE  Rows' /\ Suspended'
<1>1. PICK forgotten \in SUBSET DOMAIN RetirementsOf(batch) :
        /\ objects' = Without(Stored(batch), forgotten)
        /\ retirements' = Without(RetirementsOf(batch), forgotten)
  BY Persisted DEF Writes
<1>2. used' = used \cup DOMAIN born
  BY DEF Writes, Store
<1>3. /\ DOMAIN objects' = (DOMAIN objects \cup DOMAIN batch) \ forgotten
      /\ \A i \in DOMAIN objects' :
           objects'[i] = IF i \in DOMAIN batch THEN batch[i].row ELSE objects[i]
  BY <1>1 DEF Without, Stored
<1>4. /\ Retired' = DOMAIN RetirementsOf(batch) \ forgotten
      /\ DOMAIN RetirementsOf(batch) =
           (Retired \ {i \in DOMAIN batch : batch[i].type = "reopened"})
             \cup {i \in DOMAIN batch : batch[i].type = "retired"}
  BY <1>1 DEF Without, RetirementsOf, Retired
<1> USE DEF WellFormed, Writes
<1>5. IsFiniteSet(DOMAIN objects')
  <2>1. IsFiniteSet(DOMAIN objects \cup DOMAIN batch)
    BY FS_Union DEF Rows
  <2> QED BY <2>1, <1>3, FS_Subset
<1>6. /\ DOMAIN objects' \subseteq used'
      /\ \A i \in DOMAIN objects' : objects'[i] \in Object
      /\ Retired' \subseteq DOMAIN objects'
  BY <1>2, <1>3, <1>4 DEF Rows
<1>7. \A c \in DOMAIN inflight' : inflight'[c].object \in used' /\ inflight'[c].row \in Object
  BY <1>2 DEF Rows
<1>8. Rows'
  BY <1>5, <1>6, <1>7 DEF Rows, Object
<1>9. ASSUME NEW c \in DOMAIN inflight', inflight'[c].object \in DOMAIN objects'
      PROVE  /\ inflight'[c].row.revision <= objects'[inflight'[c].object].revision
             /\ inflight'[c].row.revision = objects'[inflight'[c].object].revision =>
                  /\ inflight'[c].row = objects'[inflight'[c].object]
                  /\ inflight'[c].object \notin Retired'
  <2> DEFINE i == inflight[c].object
             row == inflight[c].row
  <2>1. c \in DOMAIN inflight /\ inflight'[c].object = i /\ inflight'[c].row = row
    BY <1>9
  <2>2. i \in used /\ row.revision \in Nat
    BY <2>1 DEF Rows, Object
  <2>3. i \in DOMAIN objects
    BY <1>9, <2>1, <2>2, <1>3
  <2>4. objects[i].revision \in Nat
    BY <2>3 DEF Rows, Object
  <2>5. /\ row.revision <= objects[i].revision
        /\ row.revision = objects[i].revision => row = objects[i] /\ i \notin Retired
    BY <2>1, <2>3 DEF Suspended
  <2>6. CASE i \in DOMAIN batch
    <3>1. objects'[i].revision = objects[i].revision + 1
      BY <2>1, <2>3, <2>6, <1>3, <1>9
    <3> HIDE DEF i, row
    <3> QED BY <3>1, <2>1, <2>2, <2>4, <2>5
  <2>7. CASE i \notin DOMAIN batch
    <3>1. objects'[i] = objects[i] /\ (i \notin Retired => i \notin Retired')
      BY <2>1, <2>7, <1>3, <1>4, <1>9
    <3> HIDE DEF i, row
    <3> QED BY <3>1, <2>1, <2>5
  <2> QED BY <2>6, <2>7
<1>10. Suspended'
  BY <1>9 DEF Suspended
<1> QED BY <1>8, <1>10

(* The event a transaction journals for a target.                          *)
Entry(batch, order, i) ==
  [sequence |-> nextSequence + order[i], type |-> batch[i].type, object |-> i,
   revision |-> batch[i].row.revision, at |-> batch[i].row.updated]

LEMMA TypesFit == IsFiniteSet(EventTypes) /\ MaxEvents \in Nat /\ Cardinality(EventTypes) <= MaxEvents
<1>1. IsFiniteSet({"created", "updated", "retired", "reopened", "reconciled"})
  <2>1. IsFiniteSet({"created"} \cup {"updated"} \cup {"retired"} \cup {"reopened"} \cup {"reconciled"})
    BY FS_Singleton, FS_Union
  <2>2. {"created"} \cup {"updated"} \cup {"retired"} \cup {"reopened"} \cup {"reconciled"}
          = {"created", "updated", "retired", "reopened", "reconciled"}
    OBVIOUS
  <2> QED BY <2>1, <2>2
<1> QED BY <1>1, CatalogAssumption DEF CatalogAssumption, EventTypes

(* The written target's events are a log whose newest is the new one; it   *)
(* stays above the checkpoint that compaction computes.                    *)
LEMMA EntryIsNewest ==
  ASSUME Numbered, NEW batch, NEW born, WellFormed(batch, born),
         NEW order \in Orders(batch), NEW i \in DOMAIN batch
  PROVE  LET mine == Appended(batch, order, i)
             n == nextSequence + order[i]
         IN  /\ n \in Nat /\ nextSequence <= n /\ n < nextSequence + Cardinality(DOMAIN batch)
             /\ mine = EventsOf(events, i) \cup {Entry(batch, order, i)}
             /\ \A e \in mine : e = Entry(batch, order, i) \/ e.sequence < n
             /\ FirstExpired(mine, MaxEvents) \in Nat
             /\ FirstExpired(mine, MaxEvents) < n
             /\ Entry(batch, order, i) \in Compacted(mine, MaxEvents)
             /\ Compacted(mine, MaxEvents) \subseteq mine
             /\ IsLog(mine, n)
             /\ \A e \in mine : e.sequence > 0 /\ e.type \in EventTypes
<1> DEFINE mine == Appended(batch, order, i)
           n == nextSequence + order[i]
           new == Entry(batch, order, i)
<1>1. Cardinality(DOMAIN batch) \in Nat
  BY FS_CardinalityType DEF WellFormed
<1>2. order[i] \in 0..Cardinality(DOMAIN batch) - 1
  BY DEF Orders
<1>3. n \in Nat /\ nextSequence <= n /\ n < nextSequence + Cardinality(DOMAIN batch)
  BY <1>1, <1>2 DEF Numbered
<1>4. mine = EventsOf(events, i) \cup {new}
  BY DEF Appended, Entry
<1>5. new.sequence = n /\ new.type \in EventTypes
  BY DEF Entry, WellFormed
<1>6. \A e \in EventsOf(events, i) :
        /\ e.sequence \in Nat /\ 0 < e.sequence /\ e.sequence < nextSequence
        /\ e.type \in EventTypes
  BY DEF Numbered, EventsOf
<1>7. IsFiniteSet(mine)
  <2>1. IsFiniteSet(EventsOf(events, i))
    BY FS_Subset DEF Numbered, EventsOf
  <2> QED BY <2>1, <1>4, FS_AddElement
<1>8. nextSequence \in Nat /\ 0 < nextSequence
  BY DEF Numbered
<1> HIDE DEF mine, n, new
<1>9. /\ \A e \in mine : e.sequence \in Nat /\ 0 < e.sequence /\ e.sequence <= n
                        /\ e.type \in EventTypes
      /\ \A e \in mine : e = new \/ e.sequence < n
  BY <1>3, <1>4, <1>5, <1>6, <1>8
<1>10. \A e, f \in mine : e.sequence = f.sequence => e = f
  <2>1. \A e, f \in EventsOf(events, i) : e.sequence = f.sequence => e = f
    BY DEF Numbered, EventsOf
  <2> QED BY <2>1, <1>3, <1>4, <1>5, <1>9
<1>11. IsLog(mine, n)
  BY <1>3, <1>7, <1>9, <1>10 DEF IsLog
<1>12. FirstExpired(mine, MaxEvents) \in Nat
  BY <1>11, TypesFit, FirstExpiredType, <1>3
<1>13. FirstExpired(mine, MaxEvents) < n
  <2>1. new \in mine /\ \A e \in mine : e.sequence <= new.sequence
    BY <1>4, <1>5, <1>9
  <2>2. new.sequence > 0 /\ \A e \in mine : e.type \in EventTypes
    BY <2>1, <1>9
  <2>3. FirstExpired(mine, MaxEvents) < new.sequence
    BY <1>11, <2>1, <2>2, TypesFit, NewestSurvives
  <2> QED BY <2>3, <1>5
<1>14. new \in Compacted(mine, MaxEvents) /\ Compacted(mine, MaxEvents) \subseteq mine
  BY <1>4, <1>5, <1>11, <1>13, TypesFit, CompactedKeeps
<1>15. \A e \in mine : e.sequence > 0 /\ e.type \in EventTypes
  BY <1>9
<1> QED BY <1>3, <1>4, <1>9, <1>11, <1>12, <1>13, <1>14, <1>15 DEF mine, n, new

(* Of the written target's events the new one is kept, and with it, for    *)
(* each type, one that is as late as any; the bound is kept.               *)
LEMMA KeptOfTheWritten ==
  ASSUME Numbered, NEW batch, NEW born, WellFormed(batch, born),
         NEW order \in Orders(batch), NEW i \in DOMAIN batch
  PROVE  LET kept == Compacted(Appended(batch, order, i), MaxEvents)
             new == Entry(batch, order, i)
         IN  /\ new \in kept
             /\ \A e \in kept : e = new \/ (e \in EventsOf(events, i) /\ e.sequence < new.sequence)
             /\ \A f \in EventsOf(events, i) :
                  \E a \in kept : a.type = f.type /\ f.sequence <= a.sequence
             /\ Cardinality(kept) <= MaxEvents
<1> DEFINE mine == Appended(batch, order, i)
           kept == Compacted(mine, MaxEvents)
           new == Entry(batch, order, i)
           n == nextSequence + order[i]
<1>1. /\ mine = EventsOf(events, i) \cup {new}
      /\ \A e \in mine : e = new \/ e.sequence < n
      /\ new \in kept /\ kept \subseteq mine
      /\ IsLog(mine, n)
      /\ \A e \in mine : e.sequence > 0 /\ e.type \in EventTypes
  BY EntryIsNewest
<1>2. new.sequence = n
  BY DEF Entry
<1> HIDE DEF mine, new, n
<1>3. Cardinality(kept) <= MaxEvents
  BY <1>1, TypesFit, CompactedFits
<1>4. Anchors(mine) \subseteq kept
  BY <1>1, TypesFit, CompactedKeepsAnchors
<1>5. ASSUME NEW f \in EventsOf(events, i)
      PROVE  \E a \in kept : a.type = f.type /\ f.sequence <= a.sequence
  BY <1>1, <1>4, AnchorAbove
<1>6. \A e \in kept : e = new \/ (e \in EventsOf(events, i) /\ e.sequence < new.sequence)
  BY <1>1, <1>2
<1> QED BY <1>1, <1>3, <1>5, <1>6 DEF mine, new

(* What a transaction leaves of the journal: the events of the targets it  *)
(* writes are compacted with the new one, the others' are untouched.       *)
LEMMA JournalWritten ==
  ASSUME Numbered, NEW batch, NEW born, NEW observed, Writes(batch, born, observed)
  PROVE  \E order \in Orders(batch), forgotten \in SUBSET DOMAIN RetirementsOf(batch) :
           /\ objects' = Without(Stored(batch), forgotten)
           /\ retirements' = Without(RetirementsOf(batch), forgotten)
           /\ hosts' = Without(observed, forgotten)
           /\ retention' = Without(Checkpoints(batch, order), forgotten)
           /\ events' = {e \in Log(batch, order) : e.object \notin forgotten}
           /\ \A e \in events' :
                e \in events \/ \E i \in DOMAIN batch : e = Entry(batch, order, i)
           /\ \A i : i \notin forgotten =>
                EventsOf(events', i) =
                  IF i \in DOMAIN batch THEN Compacted(Appended(batch, order, i), MaxEvents)
                                        ELSE EventsOf(events, i)
<1>1. PICK order \in Orders(batch), forgotten \in SUBSET DOMAIN RetirementsOf(batch) :
        /\ objects' = Without(Stored(batch), forgotten)
        /\ retirements' = Without(RetirementsOf(batch), forgotten)
        /\ hosts' = Without(observed, forgotten)
        /\ retention' = Without(Checkpoints(batch, order), forgotten)
        /\ events' = {e \in Log(batch, order) : e.object \notin forgotten}
  BY DEF Writes, Store
<1>2. \A j \in DOMAIN batch :
        /\ Appended(batch, order, j) = EventsOf(events, j) \cup {Entry(batch, order, j)}
        /\ Compacted(Appended(batch, order, j), MaxEvents) \subseteq Appended(batch, order, j)
  BY EntryIsNewest DEF Writes
<1>3. \A j \in DOMAIN batch : \A e \in Compacted(Appended(batch, order, j), MaxEvents) :
        e.object = j /\ (e \in events \/ e = Entry(batch, order, j))
  BY <1>2 DEF EventsOf, Entry
<1>4. \A e \in events' :
        e \in events \/ \E i \in DOMAIN batch : e = Entry(batch, order, i)
  BY <1>1, <1>3 DEF Log
<1>5. ASSUME NEW i, i \notin forgotten
      PROVE  EventsOf(events', i) =
               IF i \in DOMAIN batch THEN Compacted(Appended(batch, order, i), MaxEvents)
                                     ELSE EventsOf(events, i)
  BY <1>1, <1>3, <1>5 DEF Log, EventsOf
<1> QED BY <1>1, <1>4, <1>5

(* A well-formed batch keeps the numbering.                                *)
LEMMA WritesKeepNumbers ==
  ASSUME Numbered, NEW batch, NEW born, NEW observed, Writes(batch, born, observed)
  PROVE  Numbered'
<1> DEFINE C == Cardinality(DOMAIN batch)
<1>1. PICK order \in Orders(batch), forgotten \in SUBSET DOMAIN RetirementsOf(batch) :
        /\ retention' = Without(Checkpoints(batch, order), forgotten)
        /\ \A e \in events' :
             e \in events \/ \E i \in DOMAIN batch : e = Entry(batch, order, i)
  BY JournalWritten
<1>2. nextSequence' = nextSequence + C /\ C \in Nat
  BY FS_CardinalityType DEF Writes, WellFormed, Store
<1>3. nextSequence \in Nat /\ 0 < nextSequence
  BY DEF Numbered
<1>4. \A i \in DOMAIN batch :
        /\ nextSequence + order[i] \in Nat
        /\ nextSequence <= nextSequence + order[i]
        /\ nextSequence + order[i] < nextSequence + C
        /\ FirstExpired(Appended(batch, order, i), MaxEvents) \in Nat
        /\ FirstExpired(Appended(batch, order, i), MaxEvents) < nextSequence + order[i]
  BY EntryIsNewest DEF Writes
<1>5. \A i \in DOMAIN batch :
        /\ Entry(batch, order, i).sequence = nextSequence + order[i]
        /\ Entry(batch, order, i).type \in EventTypes
  BY DEF Entry, Writes, WellFormed
<1>6. nextSequence' \in Nat \ {0}
  BY <1>2, <1>3
<1>7. IsFiniteSet(events')
  <2> DEFINE news == {Entry(batch, order, i) : i \in DOMAIN batch}
             f == [i \in DOMAIN batch |-> Entry(batch, order, i)]
  <2>1. f \in Surjection(DOMAIN batch, news)
    BY DEF Surjection
  <2>2. IsFiniteSet(news)
    BY <2>1, FS_Surjection DEF Writes, WellFormed
  <2>3. IsFiniteSet(events \cup news)
    BY <2>2, FS_Union DEF Numbered
  <2>4. events' \subseteq events \cup news
    BY <1>1
  <2> QED BY <2>3, <2>4, FS_Subset
<1>8. \A e \in events : /\ e.sequence \in Nat /\ 0 < e.sequence /\ e.sequence < nextSequence
                        /\ e.type \in EventTypes
  BY DEF Numbered
<1>9. \A e \in events' : /\ e.sequence \in Nat /\ 0 < e.sequence /\ e.sequence < nextSequence'
                         /\ e.type \in EventTypes
  <2> SUFFICES ASSUME NEW e \in events'
               PROVE  /\ e.sequence \in Nat /\ 0 < e.sequence /\ e.sequence < nextSequence'
                      /\ e.type \in EventTypes
    OBVIOUS
  <2>1. CASE e \in events
    BY <2>1, <1>2, <1>3, <1>8
  <2>2. CASE \E i \in DOMAIN batch : e = Entry(batch, order, i)
    BY <2>2, <1>2, <1>3, <1>4, <1>5
  <2> QED BY <2>1, <2>2, <1>1
<1>10. \A e, f \in events' : e.sequence = f.sequence => e = f
  <2> SUFFICES ASSUME NEW e \in events', NEW f \in events', e.sequence = f.sequence
               PROVE  e = f
    OBVIOUS
  <2>1. CASE e \in events /\ f \in events
    BY <2>1 DEF Numbered
  <2>2. ASSUME NEW i \in DOMAIN batch, NEW j \in DOMAIN batch,
               e = Entry(batch, order, i), f = Entry(batch, order, j)
        PROVE  e = f
    <3>1. order[i] \in Nat /\ order[j] \in Nat
      BY <1>2 DEF Orders
    <3>2. order[i] = order[j]
      BY <2>2, <3>1, <1>3, <1>5
    <3>3. i = j
      BY <3>2 DEF Orders
    <3> QED BY <2>2, <3>3
  <2>3. ASSUME NEW i \in DOMAIN batch
        PROVE  \A g \in events : g.sequence # Entry(batch, order, i).sequence
    BY <1>3, <1>4, <1>5, <1>8
  <2> QED BY <2>1, <2>2, <2>3, <1>1
<1>11. \A i \in DOMAIN retention' : retention'[i] \in Nat /\ retention'[i] < nextSequence'
  <2> SUFFICES ASSUME NEW i \in DOMAIN retention'
               PROVE  retention'[i] \in Nat /\ retention'[i] < nextSequence'
    OBVIOUS
  <2>1. \/ i \in DOMAIN batch /\ retention'[i] = FirstExpired(Appended(batch, order, i), MaxEvents)
        \/ i \in DOMAIN retention /\ retention'[i] = retention[i]
    BY <1>1 DEF Without, Checkpoints
  <2>2. i \in DOMAIN retention => retention[i] \in Nat /\ retention[i] < nextSequence
    BY DEF Numbered
  <2> QED BY <2>1, <2>2, <1>2, <1>3, <1>4
<1> QED BY <1>6, <1>7, <1>9, <1>10, <1>11 DEF Numbered

(* A well-formed batch keeps rows and journal in agreement.                *)
LEMMA WritesKeepAgreement ==
  ASSUME IInv, NEW batch, NEW born, NEW observed, Writes(batch, born, observed)
  PROVE  RowsMatchJournal'
<1> USE DEF IInv
<1>1. PICK order \in Orders(batch), forgotten \in SUBSET DOMAIN RetirementsOf(batch) :
        /\ objects' = Without(Stored(batch), forgotten)
        /\ retirements' = Without(RetirementsOf(batch), forgotten)
        /\ retention' = Without(Checkpoints(batch, order), forgotten)
        /\ \A i : i \notin forgotten =>
             EventsOf(events', i) =
               IF i \in DOMAIN batch THEN Compacted(Appended(batch, order, i), MaxEvents)
                                     ELSE EventsOf(events, i)
  BY JournalWritten
<1> SUFFICES ASSUME NEW i \in DOMAIN objects'
             PROVE  /\ EventsOf(events', i) # {}
                    /\ LET e == Latest(EventsOf(events', i))
                       IN  /\ e.revision = objects'[i].revision
                           /\ e.at = objects'[i].updated
                           /\ e.type = "retired" <=> i \in Retired'
                           /\ i \in DOMAIN retention' => e.sequence > retention'[i]
  BY DEF RowsMatchJournal, Latest
<1>2. /\ i \notin forgotten
      /\ i \in DOMAIN objects \cup DOMAIN batch
      /\ objects'[i] = IF i \in DOMAIN batch THEN batch[i].row ELSE objects[i]
  BY <1>1 DEF Without, Stored
<1>3. i \in Retired' <=>
        \/ i \in Retired /\ ~ (i \in DOMAIN batch /\ batch[i].type = "reopened")
        \/ i \in DOMAIN batch /\ batch[i].type = "retired"
  BY <1>1, <1>2 DEF Without, RetirementsOf, Retired
<1>4. CASE i \in DOMAIN batch
  <2> DEFINE new == Entry(batch, order, i)
             n == nextSequence + order[i]
             kept == Compacted(Appended(batch, order, i), MaxEvents)
  <2>1. EventsOf(events', i) = kept
    BY <1>1, <1>2, <1>4
  <2>2. /\ n \in Nat /\ nextSequence <= n
        /\ \A e \in kept : e = new \/ e.sequence < n
        /\ FirstExpired(Appended(batch, order, i), MaxEvents) < n
        /\ new \in kept
    BY <1>4, EntryIsNewest DEF Writes
  <2>3. /\ new.sequence = n /\ new.type = batch[i].type
        /\ new.revision = batch[i].row.revision /\ new.at = batch[i].row.updated
    BY DEF Entry
  <2>4. \A e \in kept : e # new => e.sequence \in Nat
    BY <1>4, EntryIsNewest DEF Writes, EventsOf, Numbered
  <2> HIDE DEF new, n, kept
  <2>5. Latest(kept) = new
    <3>1. \A f \in kept : f.sequence <= new.sequence
      BY <2>2, <2>3, <2>4
    <3>2. \A e \in kept : (\A f \in kept : f.sequence <= e.sequence) => e = new
      BY <2>2, <2>3, <2>4
    <3> QED BY <2>2, <3>1, <3>2 DEF Latest
  <2>6. new.type = "retired" <=> i \in Retired'
    BY <1>3, <1>4, <2>3 DEF Writes, WellFormed
  <2>7. i \in DOMAIN retention' => new.sequence > retention'[i]
    <3> SUFFICES ASSUME i \in DOMAIN retention' PROVE new.sequence > retention'[i]
      OBVIOUS
    <3>1. \/ retention'[i] = FirstExpired(Appended(batch, order, i), MaxEvents)
          \/ i \in DOMAIN retention /\ retention'[i] = retention[i]
      BY <1>1 DEF Without, Checkpoints
    <3>2. i \in DOMAIN retention => retention[i] \in Nat /\ retention[i] < nextSequence
      BY DEF Numbered
    <3>3. nextSequence \in Nat
      BY DEF Numbered
    <3>4. FirstExpired(Appended(batch, order, i), MaxEvents) \in Nat
      BY <1>4, EntryIsNewest DEF Writes
    <3> QED BY <2>2, <2>3, <3>1, <3>2, <3>3, <3>4
  <2> QED BY <1>2, <1>4, <2>1, <2>2, <2>3, <2>5, <2>6, <2>7
<1>5. CASE i \notin DOMAIN batch
  <2>1. EventsOf(events', i) = EventsOf(events, i) /\ objects'[i] = objects[i]
    BY <1>1, <1>2, <1>5
  <2>2. i \in DOMAIN objects /\ (i \in Retired' <=> i \in Retired)
    BY <1>2, <1>3, <1>5
  <2>3. i \in DOMAIN retention' => i \in DOMAIN retention /\ retention'[i] = retention[i]
    BY <1>1, <1>5 DEF Without, Checkpoints
  <2> QED BY <2>1, <2>2, <2>3 DEF RowsMatchJournal
<1> QED BY <1>4, <1>5

(* What a transaction leaves of the journal, event by event.               *)
LEMMA EventsWritten ==
  ASSUME IInv, NEW batch, NEW born, NEW observed, Writes(batch, born, observed)
  PROVE  \E order \in Orders(batch), forgotten \in SUBSET DOMAIN RetirementsOf(batch) :
           /\ objects' = Without(Stored(batch), forgotten)
           /\ retirements' = Without(RetirementsOf(batch), forgotten)
           /\ hosts' = Without(observed, forgotten)
           /\ retention' = Without(Checkpoints(batch, order), forgotten)
           /\ \A e \in events' :
                /\ e.object \notin forgotten
                /\ \/ e \in events
                   \/ e.object \in DOMAIN batch /\ e = Entry(batch, order, e.object)
           /\ \A i \in DOMAIN batch \ forgotten :
                /\ Entry(batch, order, i) \in events'
                /\ \A f \in events' : f.object = i /\ f # Entry(batch, order, i) =>
                     f.sequence < Entry(batch, order, i).sequence
           /\ \A f \in events : f.object \notin forgotten =>
                \E a \in events' :
                  a.object = f.object /\ a.type = f.type /\ f.sequence <= a.sequence
           /\ \A i \in DOMAIN objects' : Cardinality(EventsOf(events', i)) <= MaxEvents
<1> USE DEF IInv
<1>1. PICK order \in Orders(batch), forgotten \in SUBSET DOMAIN RetirementsOf(batch) :
        /\ objects' = Without(Stored(batch), forgotten)
        /\ retirements' = Without(RetirementsOf(batch), forgotten)
        /\ hosts' = Without(observed, forgotten)
        /\ retention' = Without(Checkpoints(batch, order), forgotten)
        /\ events' = {e \in Log(batch, order) : e.object \notin forgotten}
        /\ \A e \in events' :
             e \in events \/ \E i \in DOMAIN batch : e = Entry(batch, order, i)
        /\ \A i : i \notin forgotten =>
             EventsOf(events', i) =
               IF i \in DOMAIN batch THEN Compacted(Appended(batch, order, i), MaxEvents)
                                     ELSE EventsOf(events, i)
  BY JournalWritten
<1> DEFINE kept(i) == Compacted(Appended(batch, order, i), MaxEvents)
           new(i) == Entry(batch, order, i)
<1>2. \A i \in DOMAIN batch :
        /\ new(i) \in kept(i)
        /\ \A e \in kept(i) :
             e = new(i) \/ (e \in EventsOf(events, i) /\ e.sequence < new(i).sequence)
        /\ \A f \in EventsOf(events, i) :
             \E a \in kept(i) : a.type = f.type /\ f.sequence <= a.sequence
        /\ Cardinality(kept(i)) <= MaxEvents
  BY KeptOfTheWritten DEF Writes
<1>3. \A i \in DOMAIN batch : new(i).object = i
  BY DEF Entry
<1>4. \A i \in DOMAIN batch : i \notin forgotten => EventsOf(events', i) = kept(i)
  BY <1>1
<1>5. \A i : i \notin forgotten /\ i \notin DOMAIN batch => EventsOf(events', i) = EventsOf(events, i)
  BY <1>1
<1>6. \A e \in events' : e.object \notin forgotten
  BY <1>1
<1>7. \A e \in events' : e \in events \/ (e.object \in DOMAIN batch /\ e = new(e.object))
  BY <1>1, <1>3
<1> HIDE DEF kept, new
<1>8. \A i \in DOMAIN batch \ forgotten :
        /\ new(i) \in events'
        /\ \A f \in events' : f.object = i /\ f # new(i) => f.sequence < new(i).sequence
  <2> SUFFICES ASSUME NEW i \in DOMAIN batch \ forgotten
               PROVE  /\ new(i) \in events'
                      /\ \A f \in events' : f.object = i /\ f # new(i) => f.sequence < new(i).sequence
    OBVIOUS
  <2>1. EventsOf(events', i) = kept(i)
    BY <1>4
  <2>2. new(i) \in EventsOf(events', i)
    BY <1>2, <2>1
  <2>3. \A f \in events' : f.object = i => f \in kept(i)
    BY <2>1 DEF EventsOf
  <2> QED BY <1>2, <2>2, <2>3 DEF EventsOf
<1>9. ASSUME NEW f \in events, f.object \notin forgotten
      PROVE  \E a \in events' :
               a.object = f.object /\ a.type = f.type /\ f.sequence <= a.sequence
  <2>1. f \in EventsOf(events, f.object)
    BY DEF EventsOf
  <2>2. CASE f.object \in DOMAIN batch
    <3>1. PICK a \in kept(f.object) : a.type = f.type /\ f.sequence <= a.sequence
      BY <1>2, <2>1, <2>2
    <3>2. a \in EventsOf(events', f.object)
      BY <1>4, <1>9, <2>2, <3>1
    <3> QED BY <3>1, <3>2 DEF EventsOf
  <2>3. CASE f.object \notin DOMAIN batch
    <3>1. f \in EventsOf(events', f.object)
      BY <1>5, <1>9, <2>1, <2>3
    <3>2. f.sequence \in Nat
      BY DEF Numbered
    <3>3. f.sequence <= f.sequence
      BY <3>2
    <3> QED BY <3>1, <3>3 DEF EventsOf
  <2> QED BY <2>2, <2>3
<1>10. ASSUME NEW i \in DOMAIN objects'
       PROVE  Cardinality(EventsOf(events', i)) <= MaxEvents
  <2>1. i \notin forgotten /\ i \in DOMAIN objects \cup DOMAIN batch
    BY <1>1 DEF Without, Stored
  <2>2. CASE i \in DOMAIN batch
    BY <1>2, <1>4, <2>1, <2>2
  <2>3. CASE i \notin DOMAIN batch
    BY <1>5, <2>1, <2>3 DEF Booked
  <2> QED BY <2>2, <2>3
<1> QED BY <1>1, <1>6, <1>7, <1>8, <1>9, <1>10 DEF new

(* A well-formed batch keeps the books.                                    *)
LEMMA WritesKeepBooks ==
  ASSUME IInv, NEW batch, NEW born, NEW observed, Writes(batch, born, observed)
  PROVE  Attested' /\ Booked'
<1> USE DEF IInv
<1>1. PICK order \in Orders(batch), forgotten \in SUBSET DOMAIN RetirementsOf(batch) :
        /\ objects' = Without(Stored(batch), forgotten)
        /\ retirements' = Without(RetirementsOf(batch), forgotten)
        /\ hosts' = Without(observed, forgotten)
        /\ retention' = Without(Checkpoints(batch, order), forgotten)
        /\ \A e \in events' :
             /\ e.object \notin forgotten
             /\ \/ e \in events
                \/ e.object \in DOMAIN batch /\ e = Entry(batch, order, e.object)
        /\ \A i \in DOMAIN batch \ forgotten :
             /\ Entry(batch, order, i) \in events'
             /\ \A f \in events' : f.object = i /\ f # Entry(batch, order, i) =>
                  f.sequence < Entry(batch, order, i).sequence
        /\ \A f \in events : f.object \notin forgotten =>
             \E a \in events' :
               a.object = f.object /\ a.type = f.type /\ f.sequence <= a.sequence
        /\ \A i \in DOMAIN objects' : Cardinality(EventsOf(events', i)) <= MaxEvents
  BY EventsWritten
<1>2. /\ DOMAIN objects' = (DOMAIN objects \cup DOMAIN batch) \ forgotten
      /\ \A i \in DOMAIN objects' :
           objects'[i] = IF i \in DOMAIN batch THEN batch[i].row ELSE objects[i]
      /\ DOMAIN hosts' = DOMAIN observed \ forgotten
      /\ \A i \in DOMAIN hosts' : hosts'[i] = observed[i]
      /\ DOMAIN retention' \subseteq (DOMAIN retention \cup DOMAIN batch) \ forgotten
  BY <1>1 DEF Without, Stored, Checkpoints
<1>3. /\ DOMAIN retirements' = DOMAIN RetirementsOf(batch) \ forgotten
      /\ \A i \in DOMAIN retirements' : retirements'[i] = RetirementsOf(batch)[i]
  BY <1>1 DEF Without
<1>4. \A i : i \notin forgotten =>
        (i \in Retired' <=>
          \/ i \in Retired /\ ~ (i \in DOMAIN batch /\ batch[i].type = "reopened")
          \/ i \in DOMAIN batch /\ batch[i].type = "retired")
  BY <1>3 DEF RetirementsOf, Retired
<1>5. \A i \in DOMAIN batch : batch[i].type # "reopened" => i \notin Retired
  BY DEF Writes, WellFormed
<1>6. \A i \in DOMAIN batch :
        /\ Entry(batch, order, i).object = i
        /\ Entry(batch, order, i).type = batch[i].type
        /\ Entry(batch, order, i).revision = batch[i].row.revision
  BY DEF Entry
<1>7. /\ DOMAIN hosts \subseteq DOMAIN observed
      /\ \A i \in DOMAIN observed :
           \/ i \in DOMAIN batch /\ batch[i].type = "reconciled"
           \/ i \in DOMAIN hosts /\ observed[i] = hosts[i]
      /\ \A i \in DOMAIN batch : i \in DOMAIN observed => batch[i].row.native = observed[i]
      /\ \A i \in DOMAIN batch : batch[i].type = "reconciled" => i \in DOMAIN observed
  BY DEF Writes, Observes
<1>8. /\ \A i \in DOMAIN batch : batch[i].row.revision \in Nat
      /\ \A i \in DOMAIN objects : objects[i].revision \in Nat
      /\ \A i \in DOMAIN batch \cap DOMAIN objects : batch[i].row.revision = objects[i].revision + 1
  BY DEF Writes, WellFormed, Rows, Object
<1>9. Attested'
  BY <1>2, <1>7 DEF Attested
<1>10. \A i \in Retired' : /\ retirements'[i].revision = objects'[i].revision
                           /\ retirements'[i].at = objects'[i].updated
  <2> SUFFICES ASSUME NEW i \in Retired'
               PROVE  /\ retirements'[i].revision = objects'[i].revision
                      /\ retirements'[i].at = objects'[i].updated
    OBVIOUS
  <2>1. i \notin forgotten /\ retirements'[i] = RetirementsOf(batch)[i]
    BY <1>3 DEF Retired
  <2>2. CASE i \in DOMAIN batch /\ batch[i].type = "retired"
    <3>1. RetirementsOf(batch)[i] = [at |-> batch[i].row.updated, revision |-> batch[i].row.revision]
      BY <2>2 DEF RetirementsOf
    <3>2. objects'[i] = batch[i].row
      BY <1>2, <2>1, <2>2
    <3> QED BY <2>1, <3>1, <3>2
  <2>3. CASE ~ (i \in DOMAIN batch /\ batch[i].type = "retired")
    <3>1. i \in Retired /\ i \notin DOMAIN batch
      BY <1>4, <1>5, <2>1, <2>3
    <3>2. RetirementsOf(batch)[i] = retirements[i]
      BY <3>1 DEF RetirementsOf
    <3>3. objects'[i] = objects[i]
      BY <1>2, <2>1, <3>1 DEF Rows
    <3> QED BY <2>1, <3>1, <3>2, <3>3 DEF Booked
  <2> QED BY <2>2, <2>3
<1>11. \A i \in DOMAIN hosts' : \E e \in events' : e.object = i /\ e.type = "reconciled"
  <2> SUFFICES ASSUME NEW i \in DOMAIN hosts'
               PROVE  \E e \in events' : e.object = i /\ e.type = "reconciled"
    OBVIOUS
  <2>1. i \in DOMAIN observed /\ i \notin forgotten
    BY <1>2
  <2>2. CASE i \in DOMAIN batch /\ batch[i].type = "reconciled"
    BY <1>1, <1>6, <2>1, <2>2
  <2>3. CASE i \in DOMAIN hosts
    <3>1. PICK f \in events : f.object = i /\ f.type = "reconciled"
      BY <2>3 DEF Booked
    <3> QED BY <1>1, <2>1, <3>1
  <2> QED BY <1>7, <2>1, <2>2, <2>3
<1>12. \A e \in events' : /\ e.object \in DOMAIN objects'
                          /\ e.revision \in Nat /\ e.revision <= objects'[e.object].revision
                          /\ e.type = "reconciled" => e.object \in DOMAIN hosts'
  <2> SUFFICES ASSUME NEW e \in events'
               PROVE  /\ e.object \in DOMAIN objects'
                      /\ e.revision \in Nat /\ e.revision <= objects'[e.object].revision
                      /\ e.type = "reconciled" => e.object \in DOMAIN hosts'
    OBVIOUS
  <2>1. e.object \notin forgotten
    BY <1>1
  <2>2. CASE e \in events
    <3>1. /\ e.object \in DOMAIN objects
          /\ e.revision \in Nat /\ e.revision <= objects[e.object].revision
          /\ e.type = "reconciled" => e.object \in DOMAIN hosts
      BY <2>2 DEF Booked
    <3>2. e.object \in DOMAIN objects'
      BY <1>2, <2>1, <3>1
    <3>3. objects[e.object].revision <= objects'[e.object].revision
      BY <1>2, <1>8, <3>1, <3>2
    <3>4. objects[e.object].revision \in Nat /\ objects'[e.object].revision \in Nat
      BY <1>2, <1>8, <3>1, <3>2
    <3> QED BY <1>2, <1>7, <2>1, <3>1, <3>2, <3>3, <3>4
  <2>3. CASE e.object \in DOMAIN batch /\ e = Entry(batch, order, e.object)
    <3>1. e.type = batch[e.object].type /\ e.revision = batch[e.object].row.revision
      BY <1>6, <2>3
    <3>2. e.object \in DOMAIN objects' /\ objects'[e.object] = batch[e.object].row
      BY <1>2, <2>1, <2>3
    <3> QED BY <1>2, <1>7, <1>8, <2>1, <2>3, <3>1, <3>2
  <2> QED BY <1>1, <2>2, <2>3
<1>13. ASSUME NEW e \in events', LastTurn(e)'
       PROVE  e.type = "retired" <=> e.object \in Retired'
  <2>1. /\ IsTurn(e)
        /\ \A f \in events' : f.object = e.object /\ IsTurn(f) => f.sequence <= e.sequence
    BY <1>13 DEF LastTurn
  <2>2. e.object \notin forgotten
    BY <1>1
  <2>3. CASE e \in events /\ (e.object \in DOMAIN batch => ~ IsTurn(Entry(batch, order, e.object)))
    <3>1. e.object \in Retired' <=> e.object \in Retired
      BY <1>4, <1>6, <2>2, <2>3 DEF IsTurn
    <3>2. ASSUME NEW f \in events, f.object = e.object, IsTurn(f)
          PROVE  f.sequence <= e.sequence
      <4>1. PICK a \in events' : a.object = f.object /\ a.type = f.type /\ f.sequence <= a.sequence
        BY <1>1, <2>2, <3>2
      <4>2. a.sequence <= e.sequence
        BY <2>1, <3>2, <4>1 DEF IsTurn
      <4>3. f.sequence \in Nat /\ e.sequence \in Nat /\ a.sequence \in Nat
        BY <2>3, WritesKeepNumbers DEF Numbered
      <4> QED BY <4>1, <4>2, <4>3
    <3>3. LastTurn(e)
      BY <2>1, <3>2 DEF LastTurn
    <3> QED BY <2>3, <3>1, <3>3 DEF Booked
  <2>4. CASE e.object \in DOMAIN batch /\ IsTurn(Entry(batch, order, e.object))
    <3> DEFINE new == Entry(batch, order, e.object)
    <3>1. new \in events' /\ new.object = e.object
      BY <1>1, <1>6, <2>2, <2>4
    <3>2. e # new => e.sequence < new.sequence
      BY <1>1, <2>2, <2>4
    <3>3. new.sequence <= e.sequence
      BY <2>1, <2>4, <3>1
    <3>4. e.sequence \in Nat /\ new.sequence \in Nat
      BY <3>1, WritesKeepNumbers DEF Numbered
    <3>5. e = new
      BY <3>2, <3>3, <3>4
    <3>6. e.type = batch[e.object].type
      BY <1>6, <2>4, <3>5
    <3> QED BY <1>4, <1>5, <2>1, <2>2, <2>4, <3>6 DEF IsTurn
  <2>5. CASE e \notin events
    <3>1. e.object \in DOMAIN batch /\ e = Entry(batch, order, e.object)
      BY <1>1, <2>5
    <3> QED BY <2>1, <2>4, <3>1
  <2> QED BY <2>3, <2>4, <2>5
<1>14. DOMAIN retention' \subseteq DOMAIN objects'
  BY <1>2 DEF Booked
<1>15. \A e \in events' : LastTurn(e)' => (e.type = "retired" <=> e.object \in Retired')
  BY <1>13
<1>16. \A i \in DOMAIN objects' : Cardinality(EventsOf(events', i)) <= MaxEvents
  BY <1>1
<1>17. Booked'
  BY <1>10, <1>11, <1>12, <1>14, <1>15, <1>16 DEF Booked, EventsOf
<1> QED BY <1>9, <1>17

(* Under a clock that does not step back it keeps the stamps in order.     *)
LEMMA WritesKeepTime ==
  ASSUME IInv, MonotoneClock, NEW batch, NEW born, NEW observed, Writes(batch, born, observed)
  PROVE  Timed'
<1> USE DEF IInv
<1>1. PICK order \in Orders(batch), forgotten \in SUBSET DOMAIN RetirementsOf(batch) :
        /\ objects' = Without(Stored(batch), forgotten)
        /\ hosts' = Without(observed, forgotten)
        /\ \A e \in events' :
             /\ e.object \notin forgotten
             /\ \/ e \in events
                \/ e.object \in DOMAIN batch /\ e = Entry(batch, order, e.object)
        /\ \A i \in DOMAIN batch \ forgotten :
             /\ Entry(batch, order, i) \in events'
             /\ \A f \in events' : f.object = i /\ f # Entry(batch, order, i) =>
                  f.sequence < Entry(batch, order, i).sequence
        /\ \A f \in events : f.object \notin forgotten =>
             \E a \in events' :
               a.object = f.object /\ a.type = f.type /\ f.sequence <= a.sequence
  BY EventsWritten
<1>2. /\ DOMAIN objects' = (DOMAIN objects \cup DOMAIN batch) \ forgotten
      /\ \A i \in DOMAIN objects' :
           objects'[i] = IF i \in DOMAIN batch THEN batch[i].row ELSE objects[i]
      /\ DOMAIN hosts' = DOMAIN observed \ forgotten
      /\ \A i \in DOMAIN hosts' : hosts'[i] = observed[i]
  BY <1>1 DEF Without, Stored
<1>3. /\ clock' \in Nat /\ clock \in Nat /\ clock <= clock'
      /\ \A i \in DOMAIN batch : batch[i].row.updated = clock'
  BY DEF Writes, Observes, Placeable, Timed
<1>4. \A i \in DOMAIN batch :
        /\ Entry(batch, order, i).object = i
        /\ Entry(batch, order, i).type = batch[i].type
        /\ Entry(batch, order, i).at = clock'
  BY <1>3 DEF Entry
<1>5. /\ DOMAIN hosts \subseteq DOMAIN observed
      /\ \A i \in DOMAIN observed :
           \/ i \in DOMAIN batch /\ batch[i].type = "reconciled"
           \/ i \in DOMAIN hosts /\ observed[i] = hosts[i]
      /\ \A i \in DOMAIN batch : batch[i].type = "reconciled" =>
           i \in DOMAIN observed /\ observed[i] \in Nat /\ observed[i] <= clock'
  BY DEF Writes, Observes
<1>6. \A i \in DOMAIN objects : objects[i].updated \in Nat
  BY DEF Rows, Object
<1>7. \A i \in DOMAIN objects' : objects'[i].updated <= clock'
  BY <1>2, <1>3, <1>6 DEF Timed
<1>8. ASSUME NEW e \in events'
      PROVE  e.at \in Nat /\ e.at <= objects'[e.object].updated
  <2>1. e.object \notin forgotten
    BY <1>1
  <2>2. CASE e \in events
    <3>1. e.object \in DOMAIN objects /\ e.at \in Nat /\ e.at <= objects[e.object].updated
      BY <2>2 DEF Booked, Timed
    <3>2. objects[e.object].updated <= clock
      BY <3>1 DEF Timed
    <3>3. \/ objects'[e.object] = objects[e.object]
          \/ objects'[e.object].updated = clock'
      BY <1>2, <1>3, <2>1, <3>1
    <3> QED BY <1>3, <1>6, <3>1, <3>2, <3>3
  <2>3. CASE e.object \in DOMAIN batch /\ e = Entry(batch, order, e.object)
    <3>1. e.at = clock' /\ objects'[e.object].updated = clock'
      BY <1>2, <1>3, <1>4, <2>1, <2>3
    <3> QED BY <1>3, <3>1
  <2> QED BY <1>1, <2>2, <2>3
<1>9. \A i \in DOMAIN hosts' : hosts'[i] \in Nat
  BY <1>2, <1>5 DEF Timed
<1>10. ASSUME NEW e \in events', LastObservation(e)'
       PROVE  hosts'[e.object] <= e.at
  <2>1. /\ e.type = "reconciled"
        /\ \A f \in events' : f.object = e.object /\ f.type = "reconciled" => f.sequence <= e.sequence
    BY <1>10 DEF LastObservation
  <2>2. e.object \notin forgotten
    BY <1>1
  <2>3. CASE e \in events /\ ~ (e.object \in DOMAIN batch /\ batch[e.object].type = "reconciled")
    <3>1. ASSUME NEW f \in events, f.object = e.object, f.type = "reconciled"
          PROVE  f.sequence <= e.sequence
      <4>1. PICK a \in events' : a.object = f.object /\ a.type = f.type /\ f.sequence <= a.sequence
        BY <1>1, <2>2, <3>1
      <4>2. a.sequence <= e.sequence
        BY <2>1, <3>1, <4>1
      <4>3. f.sequence \in Nat /\ e.sequence \in Nat /\ a.sequence \in Nat
        BY <2>3, WritesKeepNumbers DEF Numbered
      <4> QED BY <4>1, <4>2, <4>3
    <3>2. LastObservation(e)
      BY <2>1, <3>1 DEF LastObservation
    <3>3. e.object \in DOMAIN hosts
      BY <2>1, <2>3 DEF Booked
    <3>4. hosts'[e.object] = hosts[e.object]
      BY <1>2, <1>5, <2>2, <2>3, <3>3
    <3> QED BY <2>3, <3>2, <3>4 DEF Timed
  <2>4. CASE e.object \in DOMAIN batch /\ batch[e.object].type = "reconciled"
    <3> DEFINE new == Entry(batch, order, e.object)
    <3>1. new \in events' /\ new.object = e.object /\ new.type = "reconciled" /\ new.at = clock'
      BY <1>1, <1>4, <2>2, <2>4
    <3>2. e # new => e.sequence < new.sequence
      BY <1>1, <2>2, <2>4
    <3>3. new.sequence <= e.sequence
      BY <2>1, <3>1
    <3>4. e.sequence \in Nat /\ new.sequence \in Nat
      BY <3>1, WritesKeepNumbers DEF Numbered
    <3> HIDE DEF new
    <3>5. e = new
      BY <3>2, <3>3, <3>4
    <3>6. hosts'[e.object] <= clock'
      BY <1>2, <1>5, <2>2, <2>4
    <3> QED BY <3>1, <3>5, <3>6
  <2>5. CASE e \notin events /\ ~ (e.object \in DOMAIN batch /\ batch[e.object].type = "reconciled")
    <3>1. e.object \in DOMAIN batch /\ e = Entry(batch, order, e.object)
      BY <1>1, <2>5
    <3> QED BY <1>4, <2>1, <2>5, <3>1
  <2> QED BY <2>3, <2>4, <2>5
<1> QED BY <1>3, <1>7, <1>8, <1>9, <1>10 DEF Timed

-----------------------------------------------------------------------------

(* What a transaction leaves of roots and retirements, and what it forgets.*)
LEMMA PlacesWritten ==
  ASSUME Rows, Placed, NEW batch, NEW born, NEW observed, Writes(batch, born, observed)
  PROVE  \E forgotten \in SUBSET DOMAIN RetirementsOf(batch) :
           /\ Oldest(forgotten, RetirementsOf(batch), Excess(born))
           /\ objects' = Without(Stored(batch), forgotten)
           /\ roots' = Without(Places(born), forgotten)
           /\ retirements' = Without(RetirementsOf(batch), forgotten)
           /\ used' = used \cup DOMAIN born
           /\ forgotten \subseteq DOMAIN roots
           /\ forgotten \cap DOMAIN born = {}
<1>1. PICK forgotten \in SUBSET DOMAIN RetirementsOf(batch) :
        /\ Oldest(forgotten, RetirementsOf(batch), Excess(born))
        /\ objects' = Without(Stored(batch), forgotten)
        /\ roots' = Without(Places(born), forgotten)
        /\ retirements' = Without(RetirementsOf(batch), forgotten)
        /\ used' = used \cup DOMAIN born
  BY DEF Writes, Store
<1>2. DOMAIN RetirementsOf(batch) \subseteq
        Retired \cup {i \in DOMAIN batch : batch[i].type = "retired"}
  BY DEF RetirementsOf
<1>3. forgotten \subseteq DOMAIN roots /\ forgotten \cap DOMAIN born = {}
  BY <1>1, <1>2 DEF Writes, WellFormed, Placeable, Rows, Placed
<1> QED BY <1>1, <1>3

(* Every row keeps one root of its own, and the limits hold after it.      *)
LEMMA WritesKeepPlaces ==
  ASSUME Rows, Placed, NEW batch, NEW born, NEW observed, Writes(batch, born, observed)
  PROVE  Placed'
<1>1. PICK forgotten \in SUBSET DOMAIN RetirementsOf(batch) :
        /\ Oldest(forgotten, RetirementsOf(batch), Excess(born))
        /\ objects' = Without(Stored(batch), forgotten)
        /\ roots' = Without(Places(born), forgotten)
        /\ retirements' = Without(RetirementsOf(batch), forgotten)
        /\ forgotten \subseteq DOMAIN roots
        /\ forgotten \cap DOMAIN born = {}
  BY PlacesWritten
<1>2. /\ DOMAIN roots' = (DOMAIN roots \cup DOMAIN born) \ forgotten
      /\ \A i \in DOMAIN roots' :
           roots'[i] = IF i \in DOMAIN born THEN born[i] ELSE roots[i]
  BY <1>1 DEF Without, Places
<1>3. DOMAIN objects' = (DOMAIN objects \cup DOMAIN batch) \ forgotten
  BY <1>1 DEF Without, Stored
<1>4. DOMAIN roots' = DOMAIN objects'
  BY <1>2, <1>3 DEF Placed, Writes, WellFormed
<1>5. \A i, j \in DOMAIN roots' : roots'[i] = roots'[j] => i = j
  BY <1>2 DEF Placed, Writes, Placeable
<1>6. /\ IsFiniteSet(DOMAIN roots \cup DOMAIN born) /\ IsFiniteSet(forgotten)
      /\ Cardinality(DOMAIN roots \cup DOMAIN born) \in Nat
  <2>1. IsFiniteSet(DOMAIN roots)
    BY DEF Rows, Placed
  <2>2. IsFiniteSet(DOMAIN born)
    BY FS_Subset DEF Writes, WellFormed
  <2>3. IsFiniteSet(DOMAIN roots \cup DOMAIN born)
    BY <2>1, <2>2, FS_Union
  <2> QED BY <2>1, <2>3, <1>1, FS_Subset, FS_CardinalityType
<1>7. /\ Cardinality(DOMAIN roots') = Cardinality(DOMAIN roots \cup DOMAIN born) - Excess(born)
      /\ Excess(born) = IF Cardinality(DOMAIN roots \cup DOMAIN born) <= MaxHistory THEN 0
                          ELSE Cardinality(DOMAIN roots \cup DOMAIN born) - MaxHistory
  <2>1. (DOMAIN roots \cup DOMAIN born) \cap forgotten = forgotten
    BY <1>1
  <2>2. Cardinality(DOMAIN roots') = Cardinality(DOMAIN roots \cup DOMAIN born) - Cardinality(forgotten)
    BY <2>1, <1>2, <1>6, FS_Difference
  <2>3. Cardinality(forgotten) = Excess(born)
    BY <1>1 DEF Oldest
  <2>4. DOMAIN Places(born) = DOMAIN roots \cup DOMAIN born
    BY DEF Places
  <2> QED BY <2>2, <2>3, <2>4 DEF Excess
<1>8. Cardinality(DOMAIN roots') <= MaxHistory
  BY <1>6, <1>7, ActiveCount
<1>9. Cardinality(Active') <= MaxTargets
  <2>1. Retired' = DOMAIN RetirementsOf(batch) \ forgotten
    BY <1>1 DEF Without, Retired
  <2>2. Active' = ActiveAfter(batch, born)
    BY <2>1, <1>1, <1>2, <1>4 DEF Active, ActiveAfter
  <2> QED BY <2>2 DEF Writes, Placeable
<1> QED BY <1>4, <1>5, <1>8, <1>9 DEF Placed

-----------------------------------------------------------------------------

(* The empty catalog satisfies the invariant.                              *)
LEMMA InitInvariant == Init => IInv
<1> SUFFICES ASSUME Init PROVE IInv
  OBVIOUS
<1> USE CatalogAssumption DEF Init, Empty
<1>1. IsFiniteSet({}) /\ Cardinality({}) = 0
  BY FS_EmptySet
<1>2. Rows /\ Suspended /\ Numbered /\ RowsMatchJournal
  BY <1>1 DEF Rows, Suspended, Numbered, RowsMatchJournal, Retired
<1>4. Attested /\ Booked /\ (MonotoneClock => Timed)
  <2>1. DOMAIN hosts = {} /\ Retired = {} /\ DOMAIN objects = {} /\ DOMAIN retention = {}
    BY DEF Retired
  <2> QED BY <2>1 DEF Attested, Booked, Timed
<1>3. Placed
  <2>1. DOMAIN roots = {} /\ DOMAIN objects = {} /\ Active = {}
    BY DEF Active
  <2>2. 0 <= MaxHistory /\ 0 <= MaxTargets
    BY DEF CatalogAssumption
  <2> QED BY <1>1, <2>1, <2>2 DEF Placed
<1> QED BY <1>2, <1>3, <1>4 DEF IInv

(* Every operation writes a well-formed batch, keeping the host rows but   *)
(* for the one a reconciliation writes, or leaves the tables alone.        *)
LEMMA EveryOperation ==
  ASSUME IInv, Next
  PROVE  \/ \E batch, born : Writes(batch, born, hosts)
         \/ \E caller \in DOMAIN inflight, observed \in Nat, now \in Nat :
              LET i == inflight[caller].object
              IN  /\ i \in Active
                  /\ i \in DOMAIN hosts => observed > hosts[i]
                  /\ Writes([j \in {i} |->
                              [type |-> "reconciled",
                               row |-> Revised(objects[i], objects[i].content, observed, now)]],
                            Empty, Observed(i, observed))
         \/ /\ UNCHANGED <<tables, used, clock>>
            /\ \A c \in DOMAIN inflight' :
                 \/ c \in DOMAIN inflight /\ inflight'[c] = inflight[c]
                 \/ \E i \in Active : inflight'[c] = [object |-> i, row |-> objects[i]]
<1> USE DEF IInv
<1>1. cast \in Cast
  BY CatalogAssumption DEF CatalogAssumption, Rows
<1>2. /\ cast.contents \subseteq Contents
      /\ cast.roots \subseteq Roots /\ IsFiniteSet(Roots)
      /\ cast.clock \in Nat
  BY <1>1, CatalogAssumption DEF Cast, CatalogAssumption
<1>3. \A now \in Reading : now \in Nat /\ (MonotoneClock => clock <= now)
  BY <1>2 DEF Reading
<1>4. ASSUME NEW candidates \in Found, NEW now \in Reading, NEW covered,
             Snapshot(candidates, covered, now)
      PROVE  \E batch, born : Writes(batch, born, hosts)
  <2>1. PICK S \in SUBSET cast.roots : candidates \in [S -> cast.contents]
    BY DEF Found
  <2>2. IsFiniteSet(DOMAIN candidates)
    BY <2>1, <1>2, FS_Subset
  <2>3. \A p \in DOMAIN candidates : candidates[p] \in Contents
    BY <2>1, <1>2
  <2> QED BY <2>2, <2>3, <1>3, <1>4, SnapshotWrites
<1>5. ASSUME NEW i \in cast.ids, NEW c \in cast.contents, NEW now \in Reading
      PROVE  /\ \A root : RefreshNew(root, c, i, now) =>
                  \E batch, born : Writes(batch, born, hosts)
             /\ RefreshKnown(i, c, now) => \E batch, born : Writes(batch, born, hosts)
  BY <1>2, <1>3, RefreshWrites
<1>6. ASSUME NEW caller, NEW c, NEW observed \in 1..cast.clock, NEW now \in Reading,
             CommitReconcile(caller, c, observed, now)
      PROVE  /\ caller \in DOMAIN inflight /\ observed \in Nat /\ now \in Nat
             /\ LET i == inflight[caller].object
                IN  /\ i \in Active
                    /\ i \in DOMAIN hosts => observed > hosts[i]
                    /\ Writes([j \in {i} |->
                                [type |-> "reconciled",
                                 row |-> Revised(objects[i], objects[i].content, observed, now)]],
                              Empty, Observed(i, observed))
  <2>1. observed \in Nat /\ now \in Nat /\ (MonotoneClock => clock <= now)
    BY <1>2, <1>3
  <2>2. /\ caller \in DOMAIN inflight
        /\ inflight[caller].object \in DOMAIN hosts => observed > hosts[inflight[caller].object]
    BY <1>6 DEF CommitReconcile
  <2> QED BY <2>1, <2>2, <1>6, CommitWrites
<1>7. ASSUME NEW caller, NEW i, BeginReconcile(caller, i)
      PROVE  /\ UNCHANGED <<tables, used, clock>>
             /\ \A c \in DOMAIN inflight' :
                 \/ c \in DOMAIN inflight /\ inflight'[c] = inflight[c]
                 \/ \E k \in Active : inflight'[c] = [object |-> k, row |-> objects[k]]
  BY <1>7 DEF BeginReconcile, Put
<1>8. ASSUME NEW caller, AbandonReconcile(caller)
      PROVE  /\ UNCHANGED <<tables, used, clock>>
             /\ \A c \in DOMAIN inflight' : c \in DOMAIN inflight /\ inflight'[c] = inflight[c]
  BY <1>8 DEF AbandonReconcile, Without
<1>9. ASSUME NEW S, RegisterProjectScopes(S)
      PROVE  UNCHANGED <<tables, used, clock>> /\ inflight' = inflight
  BY <1>9 DEF RegisterProjectScopes
<1> QED
  BY <1>4, <1>5, <1>6, <1>7, <1>8, <1>9
     DEF Next, Operation, SnapshotOfAll, SnapshotOfSome, SnapshotOfCurrent

(* The empty step, and the beginning and the end of a reconciliation.      *)
LEMMA LeavingTablesAlone ==
  ASSUME IInv, UNCHANGED <<tables, used, cast, clock>>,
         \A c \in DOMAIN inflight' :
           \/ c \in DOMAIN inflight /\ inflight'[c] = inflight[c]
           \/ \E i \in Active : inflight'[c] = [object |-> i, row |-> objects[i]]
  PROVE  IInv'
<1> USE DEF IInv, tables
<1>1. Rows'
  BY DEF Rows, Retired, Active, Object
<1>2. Numbered'
  BY DEF Numbered
<1>3. RowsMatchJournal' /\ Placed'
  BY DEF RowsMatchJournal, Retired, Placed, Active
<1>4. Suspended'
  <2> SUFFICES ASSUME NEW c \in DOMAIN inflight', inflight'[c].object \in DOMAIN objects
               PROVE  /\ inflight'[c].row.revision <= objects[inflight'[c].object].revision
                      /\ inflight'[c].row.revision = objects[inflight'[c].object].revision =>
                           /\ inflight'[c].row = objects[inflight'[c].object]
                           /\ inflight'[c].object \notin Retired
    BY DEF Suspended, Retired
  <2>1. CASE c \in DOMAIN inflight /\ inflight'[c] = inflight[c]
    BY <2>1 DEF Suspended
  <2>2. ASSUME NEW i \in Active, inflight'[c] = [object |-> i, row |-> objects[i]]
        PROVE  /\ inflight'[c].object = i /\ inflight'[c].row = objects[i]
               /\ objects[i].revision \in Nat /\ i \notin Retired
    BY <2>2 DEF Active, Rows, Object
  <2>3. \A n \in Nat : n <= n
    OBVIOUS
  <2> QED BY <2>1, <2>2, <2>3
<1>5. Attested' /\ Booked'
  BY DEF Attested, Booked, LastTurn, Retired
<1>6. MonotoneClock => Timed'
  BY DEF Timed, LastObservation
<1> QED BY <1>1, <1>2, <1>3, <1>4, <1>5, <1>6

(* Every step keeps the invariant.                                         *)
LEMMA StepInvariant == IInv /\ [Next]_vars => IInv'
<1>1. ASSUME IInv, Next, NEW batch, NEW born, NEW observed, Writes(batch, born, observed)
      PROVE  IInv'
  BY <1>1, WritesKeepRows, WritesKeepPlaces, WritesKeepNumbers, WritesKeepAgreement,
     WritesKeepBooks, WritesKeepTime DEF IInv, Next
<1>2. ASSUME IInv, UNCHANGED vars
      PROVE  IInv'
  BY <1>2, LeavingTablesAlone DEF vars
<1> QED
  BY <1>1, <1>2, EveryOperation, LeavingTablesAlone DEF Next

(* Together: rows, suspended reconciliations, numbering and journal.       *)
THEOREM CatalogInvariance == Spec => []IInv
BY InitInvariant, StepInvariant, PTL DEF Spec

(* The journal tells each retained target's present, whatever is written   *)
(* and compacted: no row is written without its event, and compaction      *)
(* never takes the event of the current revision.                          *)
THEOREM JournalTellsThePresent == Spec => []RowsMatchJournal
<1>1. IInv => RowsMatchJournal
  BY DEF IInv
<1> QED BY <1>1, CatalogInvariance, PTL

(* The latest of some events is one of them.                               *)
LEMMA LatestIsOne ==
  ASSUME Numbered, NEW es, es \subseteq events, es # {}
  PROVE  Latest(es) \in es /\ \A f \in es : f.sequence <= Latest(es).sequence
<1> DEFINE numbers == {e.sequence : e \in es}
<1>1. numbers \subseteq Nat /\ numbers # {} /\ nextSequence \in Nat
  BY DEF Numbered
<1>2. \A x \in numbers : x <= nextSequence
  BY DEF Numbered
<1>3. \E m \in numbers : \A x \in numbers : x <= m
  <2> HIDE DEF numbers
  <2> QED BY <1>1, <1>2, GreatestNatural
<1>4. \E e \in es : \A f \in es : f.sequence <= e.sequence
  BY <1>3
<1> QED BY <1>4 DEF Latest

(* The invariant is all that the integrity check asks of rows and rows.    *)
LEMMA RowsAreIntact == ASSUME IInv PROVE StructureIntact
<1> USE DEF IInv
<1>1. DOMAIN roots = DOMAIN objects /\ Cardinality(DOMAIN roots) <= MaxHistory
  BY DEF Placed
<1>2. Retired \subseteq DOMAIN objects
  BY DEF Rows
<1>3. \A i : EventsOf(events, i) \subseteq events
  BY DEF EventsOf
<1>4. \A i \in DOMAIN objects :
        /\ Latest(EventsOf(events, i)) \in EventsOf(events, i)
        /\ Latest(EventsOf(events, i)).revision = objects[i].revision
        /\ Latest(EventsOf(events, i)).at = objects[i].updated
        /\ Latest(EventsOf(events, i)).type = "retired" <=> i \in Retired
        /\ i \in DOMAIN retention => Latest(EventsOf(events, i)).sequence > retention[i]
  BY <1>3, LatestIsOne DEF RowsMatchJournal
<1>5. ASSUME NEW i \in Retired
      PROVE  \E e \in Of("retired", i) :
               /\ retirements[i].revision = objects[i].revision
               /\ e.revision = retirements[i].revision
               /\ e.at = retirements[i].at
  <2>1. Latest(EventsOf(events, i)) \in Of("retired", i)
    BY <1>2, <1>4 DEF Of
  <2> QED BY <1>2, <1>4, <2>1 DEF Booked
<1>6. ASSUME NEW i \in DOMAIN hosts
      PROVE  /\ i \in DOMAIN objects
             /\ Of("reconciled", i) # {}
             /\ Latest(Of("reconciled", i)).revision <= objects[i].revision
             /\ objects[i].native = hosts[i]
  <2>1. Of("reconciled", i) # {} /\ Of("reconciled", i) \subseteq events
    BY DEF Booked, Of, EventsOf
  <2>2. Latest(Of("reconciled", i)) \in Of("reconciled", i)
    BY <2>1, LatestIsOne
  <2>3. /\ Latest(Of("reconciled", i)) \in events
        /\ Latest(Of("reconciled", i)).object = i
    BY <2>2 DEF Of, EventsOf
  <2> QED BY <2>1, <2>3 DEF Booked, Attested
<1>7. \A e \in events :
        /\ e.object \in DOMAIN objects /\ e.revision <= objects[e.object].revision
        /\ e.type = "reconciled" => e.object \in DOMAIN hosts
  BY DEF Booked
<1>8. ASSUME NEW e \in events, e \in Turns(e.object), e = Latest(Turns(e.object))
      PROVE  e.type = "retired" <=> e.object \in Retired
  <2>1. Turns(e.object) = {f \in events : f.object = e.object /\ IsTurn(f)}
    BY DEF Turns, Of, EventsOf, IsTurn
  <2>2. \A f \in Turns(e.object) : f.sequence <= e.sequence
    BY <1>8, <2>1, LatestIsOne
  <2>3. LastTurn(e)
    BY <1>8, <2>1, <2>2 DEF LastTurn
  <2> QED BY <2>3 DEF Booked
<1>9. \A i \in DOMAIN retention :
        i \in DOMAIN objects /\ \E e \in EventsOf(events, i) : e.sequence > retention[i]
  BY <1>4 DEF Booked
<1>10. \A i \in DOMAIN objects : Cardinality(EventsOf(events, i)) <= MaxEvents
  BY DEF Booked
<1> QED BY <1>1, <1>2, <1>5, <1>6, <1>7, <1>8, <1>9, <1>10 DEF StructureIntact

(* And, while the clock does not step back, of timestamps.                 *)
LEMMA TimesAreOrdered == ASSUME IInv, MonotoneClock PROVE TimesOrdered
<1> USE DEF IInv
<1>1. Timed
  OBVIOUS
<1>2. ASSUME NEW i \in DOMAIN hosts
      PROVE  hosts[i] <= Latest(Of("reconciled", i)).at
  <2> DEFINE last == Latest(Of("reconciled", i))
  <2>1. Of("reconciled", i) = {e \in events : e.object = i /\ e.type = "reconciled"}
    BY DEF Of, EventsOf
  <2>2. Of("reconciled", i) # {}
    BY <2>1 DEF Booked
  <2>3. last \in Of("reconciled", i) /\ \A f \in Of("reconciled", i) : f.sequence <= last.sequence
    BY <2>1, <2>2, LatestIsOne
  <2> HIDE DEF last
  <2>4. last \in events /\ last.object = i /\ LastObservation(last)
    BY <2>1, <2>3 DEF LastObservation
  <2>5. hosts[i] <= last.at
    BY <1>1, <2>4 DEF Timed
  <2> QED BY <2>5 DEF last
<1>3. \A e \in events : e.at <= objects[e.object].updated
  BY <1>1 DEF Timed
<1>4. \A i \in Retired : retirements[i].at = objects[i].updated
  BY DEF Booked
<1> QED BY <1>2, <1>3, <1>4 DEF TimesOrdered

(* The clauses of the integrity check that compare rows with rows hold     *)
(* whatever is written, retired, purged and compacted, under any clock.    *)
THEOREM StructureStaysIntact == Spec => []StructureIntact
BY RowsAreIntact, CatalogInvariance, PTL

(* While the clock does not step back, no sequence of operations makes the *)
(* catalog's own integrity check fail.                                     *)
THEOREM IntegrityIsKept == MonotoneClock => (Spec => []IntegrityHolds)
<1> SUFFICES ASSUME MonotoneClock PROVE Spec => []IntegrityHolds
  OBVIOUS
<1>1. IInv => IntegrityHolds
  BY RowsAreIntact, TimesAreOrdered DEF IntegrityHolds
<1> QED BY <1>1, CatalogInvariance, PTL

(* An attested state is a number.                                          *)
LEMMA ObservedAt == ASSUME Rows, Attested, NEW i \in DOMAIN hosts PROVE hosts[i] \in Nat
BY DEF Rows, Attested, Object

(* A reconciliation suspended while others wrote changes nothing but the   *)
(* native state of the row it finds, which is then the row it read; and    *)
(* the native state of a target only ever gives way to a newer one.        *)
THEOREM LateReconciliationsAreHarmless == Spec => ReconcilesWhatItRead
<1> DEFINE Harmless(i) ==
             /\ i \in Active /\ i \notin Retired'
             /\ objects'[i].content = objects[i].content
             /\ objects'[i].revision = objects[i].revision + 1
           Told(i) == IF i \in DOMAIN hosts THEN hosts[i] # hosts'[i] ELSE TRUE
           Later(i) == i \in DOMAIN hosts' /\ hosts[i] <= hosts'[i]
           Retold == /\ \A i \in DOMAIN hosts' : Told(i) => Harmless(i)
                     /\ \A i \in DOMAIN hosts \cap DOMAIN objects' : Later(i)
<1>1. ASSUME Rows, Attested, NEW batch, NEW born, Writes(batch, born, hosts)
      PROVE  Retold
  <2>1. PICK forgotten : hosts' = Without(hosts, forgotten)
                         /\ objects' = Without(Stored(batch), forgotten)
    BY <1>1, Persisted DEF Writes
  <2>2. \A i \in DOMAIN hosts' : ~ Told(i)
    BY <2>1 DEF Without
  <2>3. ASSUME NEW i \in DOMAIN hosts \cap DOMAIN objects'
        PROVE  Later(i)
    <3>1. i \in DOMAIN hosts' /\ hosts'[i] = hosts[i]
      BY <2>1 DEF Without
    <3>2. hosts[i] \in Nat
      BY <1>1, ObservedAt
    <3> QED BY <3>1, <3>2
  <2> QED BY <2>2, <2>3
<1>2. ASSUME Rows, Attested, NEW k \in Active, NEW observed \in Nat, NEW now \in Nat,
             k \in DOMAIN hosts => observed > hosts[k],
             Writes([j \in {k} |->
                      [type |-> "reconciled",
                       row |-> Revised(objects[k], objects[k].content, observed, now)]],
                    Empty, Observed(k, observed))
      PROVE  Retold
  <2> DEFINE batch == [j \in {k} |->
                         [type |-> "reconciled",
                          row |-> Revised(objects[k], objects[k].content, observed, now)]]
  <2>1. PICK forgotten \in SUBSET DOMAIN RetirementsOf(batch) :
          /\ objects' = Without(Stored(batch), forgotten)
          /\ retirements' = Without(RetirementsOf(batch), forgotten)
          /\ hosts' = Without(Observed(k, observed), forgotten)
    <3>1. Store(batch, Empty, Observed(k, observed))
      BY <1>2 DEF Writes
    <3> HIDE DEF batch
    <3> QED BY <3>1, Persisted
  <2>2. \A i \in DOMAIN hosts' : Told(i) => i = k
    BY <1>2, <2>1 DEF Without, Observed, Put
  <2>3. k \notin DOMAIN RetirementsOf(batch)
    BY <1>2 DEF RetirementsOf, Active, Retired
  <2>4. k \notin Retired' /\ k \notin forgotten
    BY <2>1, <2>3 DEF Without, Retired
  <2>5. objects'[k] = Revised(objects[k], objects[k].content, observed, now)
    BY <2>1, <2>4 DEF Without, Stored
  <2> HIDE DEF batch
  <2>6. Harmless(k)
    BY <1>2, <2>4, <2>5 DEF Revised
  <2>7. ASSUME NEW i \in DOMAIN hosts \cap DOMAIN objects'
        PROVE  Later(i)
    <3>1. i \notin forgotten
      BY <2>1 DEF Without
    <3>2. i \in DOMAIN hosts' /\ hosts'[i] = IF i = k THEN observed ELSE hosts[i]
      BY <2>1, <3>1 DEF Without, Observed, Put
    <3>3. hosts[i] \in Nat
      BY <1>2, ObservedAt
    <3> QED BY <1>2, <3>2, <3>3
  <2> QED BY <2>2, <2>6, <2>7
<1>3. ASSUME Rows, Attested, UNCHANGED tables
      PROVE  Retold
  <2>1. \A i \in DOMAIN hosts : hosts[i] \in Nat
    BY <1>3, ObservedAt
  <2> QED BY <1>3, <2>1 DEF tables
<1>4. IInv /\ [Next]_vars => Retold
  <2> SUFFICES ASSUME IInv, [Next]_vars
               PROVE  Retold
    OBVIOUS
  <2>1. Rows /\ Attested
    BY DEF IInv
  <2> HIDE DEF Retold
  <2>2. CASE UNCHANGED vars
    BY <2>1, <2>2, <1>3 DEF vars
  <2>3. CASE Next
    BY <2>1, <2>3, EveryOperation, <1>1, <1>2, <1>3
  <2> QED BY <2>2, <2>3
<1>5. IInv' => \A i \in DOMAIN hosts' : objects'[i].native = hosts'[i]
  BY DEF IInv, Attested
<1>6. IInv /\ IInv' /\ [Next]_vars =>
        /\ \A i \in DOMAIN hosts' :
             (IF i \in DOMAIN hosts THEN hosts[i] # hosts'[i] ELSE TRUE) =>
               /\ i \in Active /\ i \notin Retired'
               /\ objects'[i].content = objects[i].content
               /\ objects'[i].revision = objects[i].revision + 1
        /\ \A i \in DOMAIN hosts \cap DOMAIN objects' :
             i \in DOMAIN hosts' /\ hosts[i] <= hosts'[i] /\ objects'[i].native = hosts'[i]
  BY <1>4, <1>5
<1> QED
  BY <1>6, CatalogInvariance, PTL DEF Spec, ReconcilesWhatItRead

-----------------------------------------------------------------------------

(* The lifecycle counts as the catalog does.                               *)
LEMMA SameCount == \A S : Lifecycle!Cardinality(S) = Cardinality(S)
BY DEF Lifecycle!Cardinality, Cardinality

(* A transaction is a step of the lifecycle: every operation writes rows   *)
(* with the next revision, and forgets the longest retired of a full       *)
(* history.                                                                *)
LEMMA WritesLive ==
  ASSUME Rows, Placed, NEW batch, NEW born, NEW observed, Writes(batch, born, observed)
  PROVE  Lifecycle!Next
<1> DEFINE past == RetirementsOf(batch)
           revision == [i \in DOMAIN objects |-> objects[i].revision]
           revisionNow == [i \in DOMAIN objects' |-> objects'[i].revision]
           retiredAt == [i \in Retired |-> retirements[i].at]
           retiredAtNow == [i \in Retired' |-> retirements'[i].at]
<1>0. Placed'
  BY WritesKeepPlaces
<1>1. PICK forgotten \in SUBSET DOMAIN past :
        /\ Oldest(forgotten, past, Excess(born))
        /\ objects' = Without(Stored(batch), forgotten)
        /\ roots' = Without(Places(born), forgotten)
        /\ retirements' = Without(past, forgotten)
        /\ used' = used \cup DOMAIN born
        /\ forgotten \subseteq DOMAIN roots
        /\ forgotten \cap DOMAIN born = {}
  BY PlacesWritten
<1>2. /\ DOMAIN roots' = (DOMAIN roots \cup DOMAIN born) \ forgotten
      /\ \A i \in DOMAIN roots' :
           roots'[i] = IF i \in DOMAIN born THEN born[i] ELSE roots[i]
      /\ DOMAIN born \cap DOMAIN roots = {}
  BY <1>1 DEF Without, Places, Writes, WellFormed, Rows, Placed
<1>3. /\ DOMAIN objects' = DOMAIN roots' /\ DOMAIN objects = DOMAIN roots
      /\ \A i \in DOMAIN objects' :
           objects'[i] = IF i \in DOMAIN batch THEN batch[i].row ELSE objects[i]
  BY <1>0, <1>1 DEF Without, Stored, Placed
<1>4. /\ DOMAIN past = (Retired \ {i \in DOMAIN batch : batch[i].type = "reopened"})
                         \cup {i \in DOMAIN batch : batch[i].type = "retired"}
      /\ \A i \in DOMAIN past :
           past[i].at = IF i \in DOMAIN batch /\ batch[i].type = "retired"
                          THEN clock' ELSE retirements[i].at
  BY DEF RetirementsOf, Writes, Placeable
<1>5. /\ Retired' = DOMAIN past \ forgotten
      /\ \A i \in Retired' : retirements'[i] = past[i]
  BY <1>1 DEF Without, Retired
<1>6. /\ \A i \in DOMAIN batch : batch[i].type # "reopened" => i \notin Retired
      /\ \A i \in DOMAIN batch \cap DOMAIN objects :
           batch[i].row.revision = objects[i].revision + 1
      /\ \A i \in DOMAIN born :
           i \in DOMAIN batch /\ batch[i].type = "created" /\ batch[i].row.revision = 1
           /\ i \notin used
      /\ DOMAIN batch \subseteq DOMAIN objects \cup DOMAIN born
  BY DEF Writes, WellFormed, Placeable
<1>7. Retired \subseteq DOMAIN objects /\ DOMAIN objects \subseteq used /\ Retired' \subseteq DOMAIN objects'
  BY <1>1, <1>2, <1>3, <1>4, <1>5, <1>6 DEF Rows
<1> HIDE DEF past
<1>8. used' = used \cup DOMAIN roots'
  BY <1>1, <1>2, <1>3, <1>7
<1>9. ASSUME NEW i \in DOMAIN roots' \ DOMAIN roots
      PROVE  i \notin used /\ revisionNow[i] = 1 /\ i \notin Retired'
  BY <1>2, <1>3, <1>4, <1>5, <1>6, <1>7
<1>10. ASSUME NEW i \in DOMAIN roots' \cap DOMAIN roots
       PROVE  /\ roots'[i] = roots[i]
              /\ \/ /\ revisionNow[i] = revision[i]
                    /\ i \in Retired <=> i \in Retired'
                 \/ /\ revisionNow[i] = revision[i] + 1
                    /\ i \in Retired => i \notin Retired'
                    /\ i \in Retired' => retiredAtNow[i] = clock'
              /\ (i \in Retired /\ i \in Retired') => retiredAtNow[i] = retiredAt[i]
  <2>1. i \notin DOMAIN born /\ roots'[i] = roots[i] /\ i \notin forgotten
    BY <1>2
  <2>2. /\ revisionNow[i] = IF i \in DOMAIN batch THEN batch[i].row.revision ELSE objects[i].revision
        /\ revision[i] = objects[i].revision
    BY <1>3
  <2>3. CASE i \in DOMAIN batch
    <3>1. revisionNow[i] = revision[i] + 1
      BY <2>2, <2>3, <1>3, <1>6
    <3>2. i \in Retired => i \notin Retired'
      BY <2>3, <1>4, <1>5, <1>6
    <3>3. i \in Retired' => retiredAtNow[i] = clock'
      BY <2>3, <1>4, <1>5, <1>6
    <3> QED BY <2>1, <3>1, <3>2, <3>3
  <2>4. CASE i \notin DOMAIN batch
    <3>1. revisionNow[i] = revision[i]
      BY <2>2, <2>4
    <3>2. i \in Retired <=> i \in Retired'
      BY <2>1, <2>4, <1>4, <1>5
    <3>3. i \in Retired => retiredAtNow[i] = retiredAt[i]
      BY <2>4, <3>2, <1>4, <1>5
    <3> QED BY <2>1, <3>1, <3>2, <3>3
  <2> QED BY <2>3, <2>4
<1>11. ASSUME NEW i \in DOMAIN roots \ DOMAIN roots'
       PROVE  /\ Cardinality(DOMAIN roots') = MaxHistory
              /\ \A j \in Retired' :
                   (IF i \in Retired THEN retiredAt[i] ELSE clock') <= retiredAtNow[j]
  <2>1. i \in forgotten
    BY <1>2
  <2>2. Cardinality(DOMAIN roots') = MaxHistory
    <3>1. /\ IsFiniteSet(DOMAIN roots \cup DOMAIN born) /\ IsFiniteSet(forgotten)
          /\ Cardinality(DOMAIN roots \cup DOMAIN born) \in Nat
      <4>1. IsFiniteSet(DOMAIN roots) /\ IsFiniteSet(DOMAIN born)
        BY FS_Subset DEF Rows, Placed, Writes, WellFormed
      <4>2. IsFiniteSet(DOMAIN roots \cup DOMAIN born)
        BY <4>1, FS_Union
      <4> QED BY <4>1, <4>2, <1>1, FS_Subset, FS_CardinalityType
    <3>2. Cardinality(DOMAIN roots') =
            Cardinality(DOMAIN roots \cup DOMAIN born) - Cardinality(forgotten)
      <4>1. (DOMAIN roots \cup DOMAIN born) \cap forgotten = forgotten
        BY <1>1
      <4> QED BY <4>1, <3>1, <1>2, FS_Difference
    <3>3. Cardinality(forgotten) = Excess(born) /\ Cardinality(forgotten) \in Nat \ {0}
      BY <1>1, <2>1, <3>1, FS_CardinalityType, FS_EmptySet DEF Oldest
    <3>4. DOMAIN Places(born) = DOMAIN roots \cup DOMAIN born
      BY DEF Places
    <3> QED BY <3>1, <3>2, <3>3, <3>4, ActiveCount DEF Excess
  <2>3. \A j \in Retired' : past[i].at <= past[j].at
    BY <1>1, <1>5, <2>1 DEF Oldest
  <2>4. \A j \in Retired' : retiredAtNow[j] = past[j].at
    BY <1>5
  <2>5. past[i].at = IF i \in Retired THEN retiredAt[i] ELSE clock'
    BY <2>1, <1>1, <1>4, <1>6
  <2> QED BY <2>2, <2>3, <2>4, <2>5
<1>12. Lifecycle!Bounded
  <2>1. Lifecycle!Living' = Active'
    BY <1>3 DEF Active, Lifecycle!Living
  <2>2. /\ Lifecycle!Cardinality(Active') <= MaxTargets
        /\ Lifecycle!Cardinality(DOMAIN roots') <= MaxHistory
    BY <1>0, SameCount DEF Placed
  <2> QED BY <1>0, <2>1, <2>2 DEF Placed, Lifecycle!Bounded
<1>13. \A i \in DOMAIN roots' \ DOMAIN roots : Lifecycle!Starts(i)
  BY <1>9 DEF Lifecycle!Starts
<1>14. \A i \in DOMAIN roots' \cap DOMAIN roots : Lifecycle!Continues(i)
  BY <1>10 DEF Lifecycle!Continues
<1>15. \A i \in DOMAIN roots \ DOMAIN roots' : Lifecycle!Forgotten(i)
  <2>1. Lifecycle!Cardinality(DOMAIN roots') = Cardinality(DOMAIN roots')
    BY SameCount
  <2> QED BY <1>11, <2>1 DEF Lifecycle!Forgotten
<1> QED
  BY <1>3, <1>7, <1>8, <1>12, <1>13, <1>14, <1>15 DEF Lifecycle!Next

(* The catalog implements the lifecycle of stable identities: one id for a *)
(* root while it is retained, revisions that count by one, the longest     *)
(* retired forgotten first and only from a full history, ids that never    *)
(* return, and both limits kept.                                           *)
THEOREM CatalogImplementsLifecycle == Spec => ImplementsLifecycle
<1>1. Init => Lifecycle!Init
  BY DEF Init, Empty, Retired, Lifecycle!Init
<1>2. ASSUME IInv, Next
      PROVE  Lifecycle!Next \/ UNCHANGED Lifecycle!lifecycle
  <2>1. ASSUME NEW batch, NEW born, NEW observed, Writes(batch, born, observed)
        PROVE  Lifecycle!Next
    BY <1>2, <2>1, WritesLive DEF IInv
  <2>2. ASSUME UNCHANGED <<tables, used>>, clock' = clock
        PROVE  UNCHANGED Lifecycle!lifecycle
    BY <2>2 DEF tables, Retired, Lifecycle!lifecycle
  <2> QED BY <1>2, <2>1, <2>2, EveryOperation
<1>3. ASSUME UNCHANGED vars
      PROVE  UNCHANGED Lifecycle!lifecycle
  BY <1>3 DEF vars, tables, Retired, Lifecycle!lifecycle
<1>4. IInv /\ [Next]_vars => [Lifecycle!Next]_(Lifecycle!lifecycle)
  BY <1>2, <1>3
<1> QED
  BY <1>1, <1>4, CatalogInvariance, PTL DEF Spec, ImplementsLifecycle, Lifecycle!Spec

-----------------------------------------------------------------------------

(* Of finitely many, any number can be the ones with the least values.     *)
LEMMA LeastOnes ==
  ASSUME NEW S, IsFiniteSet(S), NEW at, \A i \in S : at[i] \in Nat,
         NEW k \in Nat, k <= Cardinality(S)
  PROVE  \E F \in SUBSET S :
           Cardinality(F) = k /\ \A i \in F, j \in S \ F : at[i] <= at[j]
<1> DEFINE Least(n) == \E F \in SUBSET S :
             Cardinality(F) = n /\ \A i \in F, j \in S \ F : at[i] <= at[j]
           bad == {n \in 0..Cardinality(S) : ~Least(n)}
<1>1. Cardinality(S) \in Nat
  BY FS_CardinalityType
<1>2. SUFFICES ASSUME bad # {} PROVE FALSE
  BY <1>1
<1>3. PICK m \in bad : \A n \in bad : m <= n
  <2>1. bad \subseteq Nat
    OBVIOUS
  <2> HIDE DEF bad
  <2> QED BY <1>2, <2>1, LeastNatural
<1>4. m \in Nat /\ m <= Cardinality(S) /\ ~Least(m)
  BY <1>1, <1>3
<1>5. m # 0
  <2>1. Cardinality({}) = 0
    BY FS_EmptySet
  <2> QED BY <1>4, <2>1
<1>6. m - 1 \in Nat /\ m - 1 < m
  BY <1>4, <1>5
<1>7. Least(m - 1)
  <2>1. m - 1 \notin bad
    BY <1>3, <1>4, <1>6
  <2> QED BY <1>1, <1>4, <1>6, <2>1
<1>8. PICK F \in SUBSET S : Cardinality(F) = m - 1 /\ \A i \in F, j \in S \ F : at[i] <= at[j]
  BY <1>7
<1>9. IsFiniteSet(F) /\ S \ F # {}
  <2>1. IsFiniteSet(F)
    BY FS_Subset
  <2> QED BY <1>1, <1>4, <1>6, <1>8, <2>1
<1>10. PICK l \in S \ F : \A j \in S \ F : at[l] <= at[j]
  <2> DEFINE values == {at[j] : j \in S \ F}
  <2>1. values \subseteq Nat /\ values # {}
    BY <1>9
  <2>2. PICK v \in values : \A w \in values : v <= w
    <3> HIDE DEF values
    <3> QED BY <2>1, LeastNatural
  <2>3. PICK l \in S \ F : v = at[l]
    BY <2>2
  <2>4. \A j \in S \ F : at[j] \in values
    OBVIOUS
  <2> QED BY <2>2, <2>3, <2>4
<1>11. Cardinality(F \cup {l}) = m
  <2>1. Cardinality(F \cup {l}) = Cardinality(F) + 1
    BY <1>9, <1>10, FS_AddElement
  <2> QED BY <1>4, <1>8, <2>1
<1>12. \A i \in F \cup {l}, j \in S \ (F \cup {l}) : at[i] <= at[j]
  BY <1>8, <1>10
<1>13. F \cup {l} \in SUBSET S
  OBVIOUS
<1> QED BY <1>4, <1>11, <1>12, <1>13

(* Whatever a transaction writes, there are as many retired targets as it  *)
(* has to forget: those that stay active fit the history.                  *)
LEMMA EnoughToForget ==
  ASSUME Rows, Placed, Booked, NEW batch, NEW born, WellFormed(batch, born),
         Cardinality(ActiveAfter(batch, born)) <= MaxTargets
  PROVE  \E forgotten \in SUBSET DOMAIN RetirementsOf(batch) :
           Oldest(forgotten, RetirementsOf(batch), Excess(born))
<1> DEFINE past == RetirementsOf(batch)
           leaving == {i \in DOMAIN batch : batch[i].type = "retired"}
           back == {i \in DOMAIN batch : batch[i].type = "reopened"}
           all == DOMAIN roots \cup DOMAIN born
           at == [i \in DOMAIN past |-> past[i].at]
<1>1. /\ DOMAIN past = (Retired \ back) \cup leaving
      /\ \A i \in DOMAIN past : past[i] =
           IF i \in leaving THEN [at |-> batch[i].row.updated, revision |-> batch[i].row.revision]
             ELSE retirements[i]
  BY DEF RetirementsOf
<1>2. DOMAIN past \subseteq all
  BY <1>1 DEF Rows, Placed, WellFormed
<1>3. IsFiniteSet(all) /\ IsFiniteSet(DOMAIN past)
  <2>1. IsFiniteSet(DOMAIN roots) /\ IsFiniteSet(DOMAIN born)
    BY FS_Subset DEF Rows, Placed, WellFormed
  <2>2. IsFiniteSet(all)
    BY <2>1, FS_Union
  <2> HIDE DEF all, past
  <2> QED BY <1>2, <2>2, FS_Subset
<1>4. \A i \in DOMAIN past : at[i] \in Nat
  <2> SUFFICES ASSUME NEW i \in DOMAIN past PROVE past[i].at \in Nat
    OBVIOUS
  <2>1. CASE i \in leaving
    <3>1. batch[i].row.updated \in Nat
      BY <2>1 DEF WellFormed, Object
    <3>2. past[i] = [at |-> batch[i].row.updated, revision |-> batch[i].row.revision]
      <4> HIDE DEF past, leaving
      <4> QED BY <1>1, <2>1
    <3> HIDE DEF past
    <3> QED BY <3>1, <3>2
  <2>2. CASE i \notin leaving
    <3>1. i \in Retired /\ past[i] = retirements[i]
      <4> HIDE DEF past, leaving
      <4> QED BY <1>1, <2>2
    <3>2. objects[i].updated \in Nat
      BY <3>1 DEF Rows, Object
    <3> QED BY <3>1, <3>2 DEF Booked
  <2> QED BY <2>1, <2>2
<1>5. Excess(born) \in Nat /\ Excess(born) <= Cardinality(DOMAIN past)
  <2>1. ActiveAfter(batch, born) = all \ DOMAIN past
    BY DEF ActiveAfter
  <2>2. all \cap DOMAIN past = DOMAIN past
    BY <1>2
  <2>3. Cardinality(ActiveAfter(batch, born)) = Cardinality(all) - Cardinality(DOMAIN past)
    <3> HIDE DEF all, past
    <3> QED BY <1>3, <2>1, <2>2, FS_Difference
  <2>4. Cardinality(all) \in Nat /\ Cardinality(DOMAIN past) \in Nat
    BY <1>3, FS_CardinalityType
  <2>5. MaxTargets \in Nat /\ MaxHistory \in Nat /\ MaxTargets <= MaxHistory
    BY CatalogAssumption DEF CatalogAssumption
  <2>6. DOMAIN Places(born) = all
    BY DEF Places
  <2> HIDE DEF all, past
  <2> QED BY <2>3, <2>4, <2>5, <2>6 DEF Excess
<1>6. PICK F \in SUBSET DOMAIN past :
        Cardinality(F) = Excess(born) /\ \A i \in F, j \in DOMAIN past \ F : at[i] <= at[j]
  <2> HIDE DEF past, at
  <2> QED BY <1>3, <1>4, <1>5, LeastOnes
<1> QED BY <1>6 DEF Oldest

(* What the creation of a target hands to its transaction.                 *)
NewTarget(i, content, now) == [j \in {i} |-> [type |-> "created", row |-> NewRow(content, now)]]
AtRoot(i, root) == [j \in {i} |-> root]

MayBeNew(i, root) == KeptAt(root) = {} /\ i \notin used /\ Cardinality(Active) < MaxTargets

LEMMA NewTargetFits ==
  ASSUME Rows, Placed, NEW i, NEW root, MayBeNew(i, root), NEW content \in Contents, NEW now \in Nat
  PROVE  /\ WellFormed(NewTarget(i, content, now), AtRoot(i, root))
         /\ Cardinality(ActiveAfter(NewTarget(i, content, now), AtRoot(i, root))) <= MaxTargets
         /\ i \notin DOMAIN objects /\ i \notin Retired
         /\ NewTarget(i, content, now)[i].row.revision = 1
         /\ NewTarget(i, content, now)[i].row.updated = now
<1>1. i \notin used /\ i \notin Retired /\ i \notin DOMAIN objects /\ i \notin Active
  BY DEF MayBeNew, Rows, Active
<1>2. WellFormed(NewTarget(i, content, now), AtRoot(i, root))
  BY <1>1, RowsWritten, FS_Singleton DEF WellFormed, EventTypes, NewTarget, AtRoot
<1>3. ActiveAfter(NewTarget(i, content, now), AtRoot(i, root)) = Active \cup {i}
  BY <1>1 DEF ActiveAfter, RetirementsOf, Active, Retired, Placed, NewTarget, AtRoot
<1>4. Cardinality(Active \cup {i}) <= MaxTargets
  BY <1>1, ActiveCount DEF MayBeNew
<1>5. NewTarget(i, content, now)[i].row.revision = 1 /\ NewTarget(i, content, now)[i].row.updated = now
  BY RowsWritten DEF NewTarget
<1> QED BY <1>1, <1>2, <1>3, <1>4, <1>5

(* Before the second check, the creation of a target has written what the  *)
(* invariant asks of every write.                                          *)
LEMMA NewTargetWrites ==
  ASSUME Rows, Placed, Attested, NEW i, NEW root, MayBeNew(i, root),
         NEW content \in Contents, NEW now \in Nat, MonotoneClock => clock <= now,
         Store(NewTarget(i, content, now), AtRoot(i, root), hosts),
         clock' = now, inflight' = inflight
  PROVE  Writes(NewTarget(i, content, now), AtRoot(i, root), hosts)
<1> DEFINE batch == NewTarget(i, content, now)
           born == AtRoot(i, root)
<1>1. /\ WellFormed(batch, born) /\ Cardinality(ActiveAfter(batch, born)) <= MaxTargets
      /\ i \notin DOMAIN objects /\ batch[i].row.revision = 1 /\ batch[i].row.updated = now
  BY NewTargetFits
<1>2. DOMAIN batch = {i} /\ DOMAIN born = {i} /\ born[i] = root /\ batch[i].type = "created"
  BY DEF NewTarget, AtRoot
<1>3. \A j \in DOMAIN roots : roots[j] # root
  BY DEF MayBeNew, KeptAt
<1>4. i \notin DOMAIN hosts
  BY <1>1 DEF Attested
<1> HIDE DEF batch, born
<1>5. Placeable(batch, born)
  BY <1>1, <1>2, <1>3 DEF Placeable
<1>6. Observes(batch, hosts)
  BY <1>2, <1>4 DEF Observes
<1> QED BY <1>1, <1>5, <1>6 DEF Writes, batch, born

(* However the clock runs, a full history makes room: whenever an active   *)
(* target may still be added, the transaction that refresh opens for an    *)
(* unknown root can number its event, and compactRetainedHistory finds as  *)
(* many retired targets as it has to forget.                               *)
MakesRoom ==
  \A i \in Ids, root \in Roots, content \in Contents, now \in Nat :
    MayBeNew(i, root) =>
      LET batch == NewTarget(i, content, now)
          born  == AtRoot(i, root)
      IN  /\ Orders(batch) # {}
          /\ \E forgotten \in SUBSET DOMAIN RetirementsOf(batch) :
               Oldest(forgotten, RetirementsOf(batch), Excess(born))

(* A batch of one is appended in the only order it has.                    *)
LEMMA OneHasItsOrder ==
  ASSUME NEW i, NEW content, NEW now
  PROVE  Orders(NewTarget(i, content, now)) # {}
<1> DEFINE batch == NewTarget(i, content, now)
           order == [j \in {i} |-> 0]
<1>1. DOMAIN batch = {i}
  BY DEF NewTarget
<1>2. Cardinality(DOMAIN batch) = 1
  BY <1>1, FS_Singleton
<1>3. order \in [DOMAIN batch -> 0..Cardinality(DOMAIN batch) - 1]
  <2> HIDE DEF batch
  <2> QED BY <1>1, <1>2
<1>4. \A j, k \in DOMAIN batch :
        /\ order[j] = order[k] => j = k
        /\ (batch[j].type = "retired" /\ batch[k].type # "retired") => order[j] < order[k]
  <2>1. \A j, k \in DOMAIN batch : j = k
    BY <1>1
  <2> HIDE DEF batch
  <2> QED BY <2>1
<1>5. order \in Orders(batch)
  <2> HIDE DEF batch, order
  <2> QED BY <1>3, <1>4 DEF Orders
<1> QED BY <1>5

(* refresh never fails for want of something to forget: the targets that   *)
(* stay active fit the history with the new one, so what exceeds it is     *)
(* among the retired.                                                      *)
THEOREM AFullHistoryMakesRoom == Spec => []MakesRoom
<1>1. ASSUME IInv PROVE MakesRoom
  <2> SUFFICES ASSUME NEW i \in Ids, NEW root \in Roots, NEW content \in Contents,
                      NEW now \in Nat, MayBeNew(i, root)
               PROVE  /\ Orders(NewTarget(i, content, now)) # {}
                      /\ \E forgotten \in SUBSET DOMAIN RetirementsOf(NewTarget(i, content, now)) :
                           Oldest(forgotten, RetirementsOf(NewTarget(i, content, now)),
                                  Excess(AtRoot(i, root)))
    BY DEF MakesRoom
  <2>1. Rows /\ Placed /\ Booked
    BY <1>1 DEF IInv
  <2> QED BY <2>1, OneHasItsOrder, NewTargetFits, EnoughToForget
<1> QED BY <1>1, CatalogInvariance, PTL

(* Nothing an operation writes makes the integrity check fail.             *)
LEMMA WritesKeepIntegrity ==
  ASSUME IInv, MonotoneClock, NEW batch, NEW born, NEW observed,
         Writes(batch, born, observed), UNCHANGED cast
  PROVE  IntegrityHolds'
<1>1. IInv'
  BY WritesKeepRows, WritesKeepPlaces, WritesKeepNumbers, WritesKeepAgreement,
     WritesKeepBooks, WritesKeepTime DEF IInv
<1>2. StructureIntact'
  BY <1>1, RowsAreIntact, PTL
<1>3. TimesOrdered'
  BY <1>1, TimesAreOrdered, PTL
<1> QED BY <1>2, <1>3 DEF IntegrityHolds

(* The second integrity check never rolls a new target back: whatever      *)
(* compactRetainedHistory forgot, once the transaction of refresh has      *)
(* stored an unknown root the catalog passes, while the clock does not     *)
(* step back.                                                              *)
THEOREM TheSecondCheckPasses ==
  ASSUME IInv, MonotoneClock,
         NEW i \in Ids, NEW root \in Roots, NEW content \in Contents, NEW now \in Nat,
         MayBeNew(i, root), clock <= now,
         Store(NewTarget(i, content, now), AtRoot(i, root), hosts),
         clock' = now, UNCHANGED <<inflight, cast>>
  PROVE  IntegrityHolds'
<1>1. Rows /\ Placed /\ Attested
  BY DEF IInv
<1>2. Writes(NewTarget(i, content, now), AtRoot(i, root), hosts)
  BY <1>1, NewTargetWrites
<1> QED BY <1>2, WritesKeepIntegrity

=============================================================================
