--------------------------- MODULE TargetCatalog ----------------------------
(***************************************************************************)
(* The development-target catalog of one principal and bb context:         *)
(* discovery/catalog.ts over the tables of discovery/catalog-storage.ts,   *)
(* with the integrity check that every operation starts with.              *)
(*                                                                         *)
(* A table is a function from the ids that have a row.  The process is     *)
(* single-threaded and a transaction is synchronous, so an operation is    *)
(* one step from its last await on; only reconcileNative reads the catalog *)
(* before it awaits, and has two.  An operation that throws rolls back and *)
(* changes nothing, so failures are guards here.                           *)
(***************************************************************************)
EXTENDS EventRetention

CONSTANTS
  Ids,            \* opaque object ids, never drawn twice
  Roots,          \* canonical source roots that a scan may find
  Projects,       \* canonical paths that may be registered as scopes
  Inside,         \* <<p, q>>: path p is q or lies below q
  Contents,       \* what a source root may hold: plugin, version, detail
  Callers,        \* concurrent callers of reconcileNative
  MaxTargets,     \* TARGET_LIST_MAX_TARGETS
  MaxHistory,     \* TARGET_HISTORY_MAX_TARGETS
  MaxEvents,      \* TARGET_EVENT_MAX_EVENTS_PER_TARGET
  Casts,          \* bounds of the model: who may take part, as Cast records
  MonotoneClock   \* whether the system clock never steps back

Paths == Roots \cup Projects
EventTypes == {"created", "updated", "retired", "reopened", "reconciled"}

(* Who takes part in a behaviour, how many events are ever appended and    *)
(* how far the clock runs.                                                 *)
Cast ==
  [ids : SUBSET Ids, roots : SUBSET Roots, projects : SUBSET Projects,
   contents : SUBSET Contents, callers : SUBSET Callers, events : Nat, clock : Nat]

ASSUME CatalogAssumption ==
  /\ IsFiniteSet(Roots)
  /\ Inside \subseteq Paths \X Paths
  /\ \A p \in Paths : <<p, p>> \in Inside
  /\ \A p, q, r \in Paths :
       (<<p, q>> \in Inside /\ <<p, r>> \in Inside)
         => (<<q, r>> \in Inside \/ <<r, q>> \in Inside)
  /\ \A c \in Contents : {"plugin", "version"} \subseteq DOMAIN c
  /\ MaxTargets \in Nat /\ MaxHistory \in Nat /\ MaxTargets <= MaxHistory
  /\ MaxEvents \in Nat /\ Cardinality(EventTypes) <= MaxEvents
  /\ Casts \subseteq Cast
  /\ MonotoneClock \in BOOLEAN

VARIABLES
  objects,       \* runtime_objects
  roots,         \* development_target_sources: canonical_root
  retirements,   \* development_target_retirements
  hosts,         \* development_target_host_observations: observed_at
  retention,     \* development_target_event_retention
  events,        \* runtime_events
  scopes,        \* development_target_project_scopes
  nextSequence,  \* AUTOINCREMENT counter of runtime_events
  clock,         \* the last clock reading
  inflight,      \* reconciliations suspended in their await: the row read
  cast,          \* bound of the model: who takes part in this behaviour
  used,          \* history: ids ever drawn
  asked          \* history: what a snapshot that retired claimed to have scanned

tables == <<objects, roots, retirements, hosts, retention, events, nextSequence>>
vars == <<tables, scopes, clock, inflight, used, asked, cast>>

(* native: observedAt of the attested native state, 0 while it is absent.  *)
Object == [revision : Nat \ {0}, created : Nat, updated : Nat,
           content : Contents, native : Nat]
Event == [sequence : Nat \ {0}, type : EventTypes, object : Ids,
          revision : Nat \ {0}, at : Nat]
Unasked == [scopes |-> {}, doubted |-> {}]

Empty == [i \in {} |-> 0]
Put(table, id, row) ==
  [i \in DOMAIN table \cup {id} |-> IF i = id THEN row ELSE table[i]]
Without(table, ids) == [i \in DOMAIN table \ ids |-> table[i]]

Retired == DOMAIN retirements
Active == DOMAIN objects \ Retired

Init ==
  /\ objects = Empty /\ roots = Empty /\ retirements = Empty
  /\ hosts = Empty /\ retention = Empty
  /\ events = {} /\ scopes = {} /\ nextSequence = 1
  /\ clock = 1 /\ inflight = Empty /\ used = {} /\ asked = Unasked
  /\ cast \in Casts

(* Date.now() or the clock option: nothing makes it monotone.              *)
Reading == {n \in 1..cast.clock : MonotoneClock => n >= clock}

-----------------------------------------------------------------------------

Of(type, i) == {e \in EventsOf(events, i) : e.type = type}
Latest(es) == CHOOSE e \in es : \A f \in es : f.sequence <= e.sequence
Turns(i) == Of("retired", i) \cup Of("reopened", i)

(* The clauses of the integrity query that compare rows with rows: every   *)
(* event, retirement, host observation and checkpoint belongs to a         *)
(* retained target and agrees with its revision.  These hold whatever the  *)
(* clock does.                                                             *)
StructureIntact ==
  /\ DOMAIN roots = DOMAIN objects
  /\ Retired \subseteq DOMAIN objects
  /\ \A i \in Retired : \E e \in Of("retired", i) :
       /\ retirements[i].revision = objects[i].revision
       /\ e.revision = retirements[i].revision
       /\ e.at = retirements[i].at
  /\ \A i \in DOMAIN hosts :
       /\ i \in DOMAIN objects
       /\ Of("reconciled", i) # {}
       /\ Latest(Of("reconciled", i)).revision <= objects[i].revision
       /\ objects[i].native = hosts[i]
  /\ \A e \in events :
       e.type \in {"reconciled", "retired", "reopened"} =>
         /\ e.object \in DOMAIN objects
         /\ e.revision <= objects[e.object].revision
  /\ \A e \in events : e.type = "reconciled" => e.object \in DOMAIN hosts
  /\ \A e \in events :
       (e \in Turns(e.object) /\ e = Latest(Turns(e.object))) =>
         (e.type = "retired" <=> e.object \in Retired)
  /\ Cardinality(DOMAIN roots) <= MaxHistory
  /\ \A i \in DOMAIN retention :
       /\ i \in DOMAIN objects
       /\ \E e \in EventsOf(events, i) : e.sequence > retention[i]
  /\ \A i \in DOMAIN objects : Cardinality(EventsOf(events, i)) <= MaxEvents

(* The clauses that compare timestamps.                                    *)
TimesOrdered ==
  /\ \A i \in DOMAIN hosts : hosts[i] <= Latest(Of("reconciled", i)).at
  /\ \A e \in events :
       e.type \in {"reconciled", "retired", "reopened"} =>
         e.at <= objects[e.object].updated
  /\ \A i \in Retired : retirements[i].at = objects[i].updated

(* assertIntegrity: what every operation and every reopening checks first, *)
(* and fails with corrupt_data when it does not hold.  No legal sequence   *)
(* of operations may lead out of it, for the catalog is then unusable.     *)
IntegrityHolds == StructureIntact /\ TimesOrdered

-----------------------------------------------------------------------------

(* One transaction.  batch gives each written target its event type and    *)
(* its new object row; born the roots of the created ones.  A snapshot     *)
(* appends the retirements first and otherwise in the order it was given.  *)
Stored(batch) ==
  [i \in DOMAIN objects \cup DOMAIN batch |->
     IF i \in DOMAIN batch THEN batch[i].row ELSE objects[i]]

RetirementsOf(batch) ==
  LET leaving == {i \in DOMAIN batch : batch[i].type = "retired"}
      back    == {i \in DOMAIN batch : batch[i].type = "reopened"}
  IN  [i \in (Retired \ back) \cup leaving |->
         IF i \in leaving
           THEN [at |-> batch[i].row.updated, revision |-> batch[i].row.revision]
           ELSE retirements[i]]

Orders(batch) ==
  {order \in [DOMAIN batch -> 0..Cardinality(DOMAIN batch) - 1] :
     \A i, j \in DOMAIN batch :
       /\ order[i] = order[j] => i = j
       /\ (batch[i].type = "retired" /\ batch[j].type # "retired")
            => order[i] < order[j]}

Appended(batch, order, i) ==
  EventsOf(events, i) \cup
    {[sequence |-> nextSequence + order[i], type |-> batch[i].type, object |-> i,
      revision |-> batch[i].row.revision, at |-> batch[i].row.updated]}

Log(batch, order) ==
  {e \in events : e.object \notin DOMAIN batch}
    \cup UNION {Compacted(Appended(batch, order, i), MaxEvents) : i \in DOMAIN batch}

(* The checkpoint's upsert takes the larger of the two.                    *)
Checkpoints(batch, order) ==
  LET full == {i \in DOMAIN batch :
                 Cardinality(Appended(batch, order, i)) > MaxEvents}
      now(i) == FirstExpired(Appended(batch, order, i), MaxEvents)
  IN  [i \in DOMAIN retention \cup full |->
         IF i \in full /\ (i \in DOMAIN retention => retention[i] <= now(i))
           THEN now(i)
           ELSE retention[i]]

(* Faulty: the latest retirements are forgotten first.                     *)
Newest(forgotten, retired, excess) ==
  /\ Cardinality(forgotten) = excess
  /\ \A i \in forgotten, j \in DOMAIN retired \ forgotten :
       retired[i].at >= retired[j].at

(* Faulty: targets retired at the same time are never told apart.          *)
OldestStrict(forgotten, retired, excess) ==
  /\ Cardinality(forgotten) = excess
  /\ \A i \in forgotten, j \in DOMAIN retired \ forgotten :
       retired[i].at < retired[j].at

(* compactRetainedHistory forgets the excess over the history bound, the   *)
(* targets retired longest ago; ids break ties, and ids are random.        *)
Oldest(forgotten, retired, excess) ==
  /\ Cardinality(forgotten) = excess
  /\ \A i \in forgotten, j \in DOMAIN retired \ forgotten :
       retired[i].at <= retired[j].at

(* The source roots after a write, and by how many they exceed the history.*)
Places(born) ==
  [i \in DOMAIN roots \cup DOMAIN born |-> IF i \in DOMAIN born THEN born[i] ELSE roots[i]]
Excess(born) ==
  IF Cardinality(DOMAIN Places(born)) <= MaxHistory THEN 0
    ELSE Cardinality(DOMAIN Places(born)) - MaxHistory

Store(batch, born, observed) ==
  /\ nextSequence + Cardinality(DOMAIN batch) <= cast.events + 1
  /\ \E order \in Orders(batch), forgotten \in SUBSET DOMAIN RetirementsOf(batch) :
       /\ Oldest(forgotten, RetirementsOf(batch), Excess(born))
       /\ objects' = Without(Stored(batch), forgotten)
       /\ roots' = Without(Places(born), forgotten)
       /\ retirements' = Without(RetirementsOf(batch), forgotten)
       /\ hosts' = Without(observed, forgotten)
       /\ retention' = Without(Checkpoints(batch, order), forgotten)
       /\ events' = {e \in Log(batch, order) : e.object \notin forgotten}
  /\ nextSequence' = nextSequence + Cardinality(DOMAIN batch)
  /\ used' = used \cup DOMAIN born

(* Who forgets a target checks the integrity again, inside the transaction.*)
Persist(batch, born, observed) ==
  Store(batch, born, observed) /\ (Excess(born) > 0 => IntegrityHolds')

-----------------------------------------------------------------------------

NewRow(content, now) ==
  [revision |-> 1, created |-> now, updated |-> now, content |-> content,
   native |-> 0]

(* A row's next revision.                                                  *)
Revised(row, content, native, now) ==
  [revision |-> row.revision + 1, created |-> row.created, updated |-> now,
   content |-> content, native |-> native]

(* The next row of a known target: an attested native state outlives the   *)
(* new source facts, an unattested one is replaced by the candidate's.     *)
NextRow(i, content, now) ==
  Revised(objects[i], content, IF i \in DOMAIN hosts THEN objects[i].native ELSE 0, now)

(* A target with attested native state keeps its plugin id.                *)
Admissible(i, content) ==
  i \in DOMAIN hosts => content.plugin = objects[i].content.plugin

(* findByRoot, which finds retired targets too.                            *)
KeptAt(root) == {i \in DOMAIN roots : roots[i] = root}

(* refresh of a root no retained target has.                               *)
RefreshNew(root, content, i, now) ==
  /\ IntegrityHolds
  /\ KeptAt(root) = {}
  /\ i \notin used
  /\ Cardinality(Active) < MaxTargets
  /\ Persist([j \in {i} |-> [type |-> "created", row |-> NewRow(content, now)]],
             [j \in {i} |-> root], hosts)
  /\ clock' = now
  /\ asked' = Unasked
  /\ UNCHANGED <<scopes, inflight>>

(* Faulty: a retired target is updated without being reopened.             *)
InPlace(i) == "updated"

(* What the write of a known target's new facts is, by its retirement row. *)
Written(i) == IF i \in Retired THEN "reopened" ELSE "updated"

(* refresh of a known root, which reopens a retired target.  A caller that *)
(* passes expectedRevision passes the row's own, or gets conflict.         *)
RefreshKnown(i, content, now) ==
  /\ IntegrityHolds
  /\ i \in DOMAIN roots
  /\ Admissible(i, content)
  /\ i \in Retired => Cardinality(Active) < MaxTargets
  /\ now >= objects[i].created
  /\ Persist([j \in {i} |-> [type |-> Written(i), row |-> NextRow(i, content, now)]],
             Empty, hosts)
  /\ clock' = now
  /\ asked' = Unasked
  /\ UNCHANGED <<scopes, inflight>>

(* refreshCompleteSnapshot after its scopes are resolved: candidates maps  *)
(* the roots found to their contents, and of the targets not found those   *)
(* whose root lies in covered are retired.                                 *)
Snapshot(candidates, covered, now) ==
  LET found == UNION {KeptAt(root) : root \in DOMAIN candidates}
      new   == DOMAIN candidates \ {roots[i] : i \in found}
      same  == {i \in found \ Retired : candidates[roots[i]] = objects[i].content}
      gone  == {i \in Active \ found : roots[i] \in covered}
      next  == Cardinality(Active) - Cardinality(gone)
                 + Cardinality(new) + Cardinality(found \cap Retired)
  IN  /\ IntegrityHolds
      /\ \A i \in found : Admissible(i, candidates[roots[i]])
      /\ \A i \in (found \ same) \cup gone : now >= objects[i].created
      /\ next <= MaxTargets
      /\ \E born \in [new -> cast.ids \ used] :
           LET drawn == {born[p] : p \in new}
               rootOf == [i \in drawn |-> CHOOSE p \in new : born[p] = i]
               entry(i) ==
                 IF i \in gone
                   THEN [type |-> "retired",
                         row |-> Revised(objects[i], objects[i].content,
                                         objects[i].native, now)]
                 ELSE IF i \in drawn
                   THEN [type |-> "created",
                         row |-> NewRow(candidates[rootOf[i]], now)]
                   ELSE [type |-> Written(i), row |-> NextRow(i, candidates[roots[i]], now)]
           IN  /\ Cardinality(drawn) = Cardinality(new)
               /\ Persist([i \in (found \ same) \cup gone \cup drawn |-> entry(i)],
                          rootOf, hosts)
      /\ clock' = now
      /\ UNCHANGED inflight

(* What a snapshot that retires something claims to have scanned.          *)
Claim(scanned, doubted) ==
  asked' = IF Active \subseteq DOMAIN objects' \ DOMAIN retirements' THEN Unasked
             ELSE [scopes |-> scanned, doubted |-> doubted]

INSTANCE SourceScopes

(* The two scope writes at the end of a snapshot's transaction: an insert  *)
(* that ignores the scopes already there, and a delete before an insert.   *)
AddScopes(added) == scopes' = scopes \cup added
ReplaceScopes(current) == scopes' = current

(* A snapshot that claims nothing about scopes speaks for every root.      *)
SnapshotOfAll(candidates, now) ==
  /\ Snapshot(candidates, Paths, now)
  /\ Claim(Paths, {})
  /\ UNCHANGED scopes

(* Faulty: registered scopes nested in a scanned one are not doubted.      *)
SnapshotOfSomeNested(candidates, authoritative, requested, now) ==
  /\ Snapshot(candidates, Below(authoritative) \ Below(requested), now)
  /\ Claim(authoritative, requested)
  /\ AddScopes(authoritative)

(* One that scanned some scopes: registered scopes that it did not scan    *)
(* but that overlap one it did are doubted, with those it names itself.    *)
SnapshotOfSome(candidates, authoritative, requested, now) ==
  /\ Snapshot(candidates, SpeaksFor(scopes, authoritative, requested), now)
  /\ Claim(authoritative, requested)
  /\ AddScopes(authoritative)

(* One that gives the whole list of current scopes: it speaks for those    *)
(* and for the registered ones, which it replaces.                         *)
SnapshotOfCurrent(candidates, current, requested, now) ==
  /\ DOMAIN candidates \subseteq Below(current)
  /\ Snapshot(candidates, SpeaksForAll(scopes, current, requested), now)
  /\ Claim(scopes \cup current, requested)
  /\ ReplaceScopes(current)

RegisterProjectScopes(added) ==
  /\ IntegrityHolds
  /\ AddScopes(added)
  /\ asked' = Unasked
  /\ UNCHANGED <<tables, clock, inflight, used>>

-----------------------------------------------------------------------------

(* reconcileNative up to its await: the row it read, at the revision the   *)
(* caller expected.                                                        *)
BeginReconcile(caller, i) ==
  /\ caller \notin DOMAIN inflight
  /\ IntegrityHolds
  /\ i \in Active
  /\ inflight' = Put(inflight, caller, [object |-> i, row |-> objects[i]])
  /\ asked' = Unasked
  /\ UNCHANGED <<tables, scopes, clock, used>>

(* Faulty: the write is not a compare-and-swap.                            *)
Exists(i, row) == i \in DOMAIN objects

(* updateObject changes one row, or none when another write came first.    *)
Current(i, row) == i \in DOMAIN objects /\ objects[i].revision = row.revision

(* The observation's row, updated or inserted.                             *)
Observed(i, at) == Put(hosts, i, at)

(* From the await on, without a second integrity check: the candidate is   *)
(* the package that was read, the observation is newer than the stored     *)
(* one, and the write is a compare-and-swap on the revision.               *)
CommitReconcile(caller, candidate, observed, now) ==
  /\ caller \in DOMAIN inflight
  /\ LET i   == inflight[caller].object
         row == inflight[caller].row
     IN  /\ candidate.plugin = row.content.plugin
         /\ candidate.version = row.content.version
         /\ observed <= now /\ now >= row.created
         /\ i \in DOMAIN hosts => observed > hosts[i]
         /\ Current(i, row)
         /\ Persist([j \in {i} |->
                       [type |-> "reconciled",
                        row |-> Revised(row, row.content, observed, now)]],
                    Empty, Observed(i, observed))
  /\ inflight' = Without(inflight, {caller})
  /\ clock' = now
  /\ asked' = Unasked
  /\ UNCHANGED scopes

(* Any failure after the await.                                            *)
AbandonReconcile(caller) ==
  /\ caller \in DOMAIN inflight
  /\ inflight' = Without(inflight, {caller})
  /\ asked' = Unasked
  /\ UNCHANGED <<tables, scopes, clock, used>>

-----------------------------------------------------------------------------

(* What a scan can find: contents for some set of roots.                   *)
Found == UNION {[S -> cast.contents] : S \in SUBSET cast.roots}

Operation ==
  \/ \E p \in cast.roots, c \in cast.contents, i \in cast.ids, now \in Reading :
       RefreshNew(p, c, i, now)
  \/ \E i \in cast.ids, c \in cast.contents, now \in Reading : RefreshKnown(i, c, now)
  \/ \E found \in Found, now \in Reading : SnapshotOfAll(found, now)
  \/ \E found \in Found, A, U \in SUBSET cast.projects, now \in Reading :
       SnapshotOfSome(found, A, U, now)
  \/ \E found \in Found, C, U \in SUBSET cast.projects, now \in Reading :
       SnapshotOfCurrent(found, C, U, now)
  \/ \E S \in SUBSET cast.projects : RegisterProjectScopes(S)
  \/ \E caller \in cast.callers, i \in cast.ids : BeginReconcile(caller, i)
  \/ \E caller \in cast.callers, c \in cast.contents, observed \in 1..cast.clock,
        now \in Reading : CommitReconcile(caller, c, observed, now)
  \/ \E caller \in cast.callers : AbandonReconcile(caller)

Next == Operation /\ UNCHANGED cast

Spec == Init /\ [][Next]_vars

-----------------------------------------------------------------------------

TypeOK ==
  /\ DOMAIN objects \subseteq used /\ objects \in [DOMAIN objects -> Object]
  /\ DOMAIN roots \subseteq used /\ roots \in [DOMAIN roots -> Roots]
  /\ retirements \in [Retired -> [at : Nat, revision : Nat \ {0}]]
  /\ hosts \in [DOMAIN hosts -> Nat \ {0}]
  /\ retention \in [DOMAIN retention -> Nat]
  /\ events \subseteq Event
  /\ scopes \subseteq Projects
  /\ nextSequence \in 1..cast.events + 1
  /\ clock \in 1..cast.clock
  /\ DOMAIN inflight \subseteq Callers
  /\ inflight \in [DOMAIN inflight -> [object : Ids, row : Object]]
  /\ used \subseteq cast.ids /\ cast \in Casts
  /\ asked \in [scopes : SUBSET Paths, doubted : SUBSET Projects]

(* The journal tells each retained target's present: its newest event is   *)
(* the write of its current revision, and retires it exactly when the      *)
(* target is retired.  No operation writes a row without its event, and    *)
(* compaction never takes the event of the current revision.               *)
RowsMatchJournal ==
  \A i \in DOMAIN objects :
    /\ EventsOf(events, i) # {}
    /\ LET e == Latest(EventsOf(events, i))
       IN  /\ e.revision = objects[i].revision
           /\ e.at = objects[i].updated
           /\ e.type = "retired" <=> i \in Retired
           /\ i \in DOMAIN retention => e.sequence > retention[i]

(* A reconciliation that was suspended while others wrote changes nothing  *)
(* but the native state of the row it finds: it never brings back content  *)
(* it read before the await, nor a target retired or forgotten meanwhile.  *)
(* And as long as a target is kept, an attested native state gives way     *)
(* only to a newer one, in whatever order observations arrive, and no      *)
(* write of source facts, no retirement and no reopening takes it away.    *)
ReconcilesWhatItRead ==
  [][/\ \A i \in DOMAIN hosts' :
          (IF i \in DOMAIN hosts THEN hosts[i] # hosts'[i] ELSE TRUE) =>
            /\ i \in Active /\ i \notin Retired'
            /\ objects'[i].content = objects[i].content
            /\ objects'[i].revision = objects[i].revision + 1
     /\ \A i \in DOMAIN hosts \cap DOMAIN objects' :
          i \in DOMAIN hosts' /\ hosts[i] <= hosts'[i] /\ objects'[i].native = hosts'[i]]_vars

(* A target is retired only by a snapshot that scanned every registered    *)
(* project the target lies in, and left none of them in doubt: a scan of   *)
(* an outer project never retires what only a nested one can see.          *)
RetiredOnlyWhenScanned ==
  [][\A i \in Active :
       i \notin (DOMAIN objects' \ DOMAIN retirements') =>
         LET above(S) == {s \in S : <<roots[i], s>> \in Inside}
         IN  /\ above(asked'.scopes) # {}
             /\ above(scopes) \subseteq asked'.scopes
             /\ above(asked'.doubted) = {}]_vars

(* A full history never blocks a new target: while there is room among the *)
(* active ones, refresh of an unknown root gets through the integrity      *)
(* check, finds as many retired targets as it must forget, and passes the  *)
(* second integrity check inside the transaction.                          *)
HistoryNeverBlocks ==
  \A root \in cast.roots \ {roots[j] : j \in DOMAIN roots}, i \in cast.ids \ used,
     content \in cast.contents :
    (Cardinality(Active) < MaxTargets /\ nextSequence <= cast.events)
      => ENABLED RefreshNew(root, content, i, clock)

(* The rows behind the promise: ids are places, places are roots.          *)
Lifecycle == INSTANCE TargetLifecycle WITH
  place <- roots,
  revision <- [i \in DOMAIN objects |-> objects[i].revision],
  retiredAt <- [i \in Retired |-> retirements[i].at],
  spent <- used, time <- clock

(* The catalog implements the lifecycle of stable identities.              *)
ImplementsLifecycle == Lifecycle!Spec

=============================================================================
