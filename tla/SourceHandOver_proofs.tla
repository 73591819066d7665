------------------------- MODULE SourceHandOver_proofs -------------------------
(***************************************************************************)
(* Proofs about SourceHandOver, for any callers, texts, configurations,    *)
(* lists and number of changes of the tree:                                *)
(*                                                                         *)
(*   - one caller at most is given what lies in one directory: candidates  *)
(*     differ in their directories (Recorded), and one that is taken is    *)
(*     marked in the same step (Taken), so of the callers that are busy    *)
(*     with a candidate no two have the same one;                          *)
(*   - a command that was cut off has nothing left running when it is      *)
(*     answered: the timer that settles it is set only when the group was  *)
(*     killed and the child's end is known (Killing);                      *)
(*   - the runtime accepts every observation the observer sends, and what  *)
(*     is written of a target says no more than bb said: a row is only     *)
(*     trimmed of what its flaws took (Observing);                         *)
(*   - what is handed over was in the tree as it says, in one moment: a    *)
(*     mixture of two directories is found only when the name is given     *)
(*     away and back during the scan, and again during each of the looks   *)
(*     that follow, so it takes eight changes (Placed, Owed);              *)
(*   - while the tree stays as it was, every look sees the same, so a      *)
(*     plugin is found and of those that ask for it somebody has it        *)
(*     (Found, Undisturbed).                                               *)
(***************************************************************************)
EXTENDS SourceHandOver, FiniteSetTheorems, SequenceTheorems, TLAPS

------------------------------------------------------------------------------
(* One caller for one directory.                                             *)

Steps == {"free", "refused", "before", "inspect", "after", "given", "validate", "written"}
Busy == {"before", "inspect", "after", "given", "validate", "written"}

(* What a caller does, with which candidate, and what it has seen of it;   *)
(* the sets of all but the first are those there happen to be.             *)
Parts(Ons, Seens, Fails) == [step : Steps, on : Ons, seen : Seens, failed : Fails]
Shaped == \E Ons, Seens, Fails : hand \in [Callers -> Parts(Ons, Seens, Fails)]

OneForAPath ==
  \A known, other \in candidates : known.path = other.path => known = other

Taken ==
  /\ Shaped
  /\ consumed \subseteq candidates
  /\ \A caller \in Callers : hand[caller].step \in Busy => hand[caller].on \in consumed
  /\ \A one, other \in Callers :
       /\ hand[one].step \in Busy /\ hand[other].step \in Busy
       /\ hand[one].on = hand[other].on
       => one = other

Once == OneForAPath /\ Taken

LEMMA OnceInit == Init => Once
<1>1. SUFFICES ASSUME DiscoveryInit, HandingInit PROVE Once
  BY DEF Init
<1>2. hand = [caller \in Callers |-> Free] /\ candidates = {} /\ consumed = {}
  BY <1>1 DEF DiscoveryInit, HandingInit
<1>3. Free \in Parts({<<>>}, {<<>>}, {FALSE})
  BY DEF Free, Parts, Steps
<1>4. Shaped
  BY <1>2, <1>3 DEF Shaped
<1>5. \A caller \in Callers : hand[caller].step = "free"
  BY <1>2 DEF Free
<1>6. QED BY <1>2, <1>4, <1>5 DEF Once, OneForAPath, Taken, Busy

LEMMA Part ==
  ASSUME Shaped, NEW caller \in Callers
  PROVE  hand[caller].step \in Steps
  BY DEF Shaped, Parts

(* One caller's part is replaced.                                            *)
LEMMA StaysShaped ==
  ASSUME Shaped, NEW caller \in Callers, NEW step \in Steps, NEW on, NEW seen,
         NEW failed, Puts(caller, step, on, seen, failed)
  PROVE  /\ Shaped'
         /\ hand'[caller].step = step /\ hand'[caller].on = on
         /\ hand'[caller].seen = seen /\ hand'[caller].failed = failed
         /\ \A other \in Callers \ {caller} : hand'[other] = hand[other]
<1>1. PICK Ons, Seens, Fails : hand \in [Callers -> Parts(Ons, Seens, Fails)]
  BY DEF Shaped
<1> DEFINE More == Parts(Ons \cup {on}, Seens \cup {seen}, Fails \cup {failed})
           new == [step |-> step, on |-> on, seen |-> seen, failed |-> failed]
<1>2. new \in More
  BY DEF Parts
<1>3. \A other \in Callers : hand[other] \in More
  BY <1>1 DEF Parts
<1>4. hand' \in [Callers -> More]
  <2> HIDE DEF More, new
  <2>1. hand' = [hand EXCEPT ![caller] = new]
    BY DEF new, Puts
  <2>2. QED BY <1>1, <1>2, <1>3, <2>1
<1>5. hand'[caller] = new /\ \A other \in Callers \ {caller} : hand'[other] = hand[other]
  <2> HIDE DEF new
  <2>1. hand' = [hand EXCEPT ![caller] = new]
    BY DEF new, Puts
  <2>2. QED BY <1>1, <2>1
<1>6. QED BY <1>4, <1>5 DEF Shaped

(* A caller that goes on, or gives up, with the candidate it has.            *)
LEMMA GoesOn ==
  ASSUME Once, NEW caller \in Callers, NEW step \in Steps, NEW seen, NEW failed,
         Puts(caller, step, hand[caller].on, seen, failed),
         step \in Busy => hand[caller].step \in Busy,
         consumed' = consumed, candidates' = candidates
  PROVE  Once'
<1>1. /\ Shaped'
      /\ hand'[caller].step = step /\ hand'[caller].on = hand[caller].on
      /\ \A other \in Callers \ {caller} : hand'[other] = hand[other]
  BY StaysShaped DEF Once, Taken
<1>2. QED BY <1>1 DEF Once, OneForAPath, Taken

LEMMA Still ==
  ASSUME Once, UNCHANGED handing, candidates' = candidates
  PROVE  Once'
  BY DEF Once, OneForAPath, Taken, Shaped, handing

LEMMA BecomesGoesOn ==
  ASSUME Once, NEW caller \in Callers, NEW step \in Steps, Becomes(caller, step),
         step \in Busy => hand[caller].step \in Busy,
         consumed' = consumed, candidates' = candidates
  PROVE  Once'
  BY Part, GoesOn DEF Becomes, Once, Taken

(* Whoever takes a candidate is the only one that has it.                    *)
LEMMA TakeKeepsOnce ==
  ASSUME Once, NEW caller \in Callers, Take(caller), candidates' = candidates
  PROVE  Once'
<1>1. PICK on \in candidates :
        IF on \in consumed
        THEN Becomes(caller, "refused") /\ UNCHANGED consumed
        ELSE /\ Puts(caller, "before", on, <<>>, FALSE)
             /\ consumed' = consumed \cup {on}
  BY DEF Take
<1>2. CASE on \in consumed
  BY <1>1, <1>2, BecomesGoesOn DEF Busy, Steps
<1>3. CASE on \notin consumed
  <2>1. consumed' = consumed \cup {on} /\ Puts(caller, "before", on, <<>>, FALSE)
    BY <1>1, <1>3
  <2>2. /\ Shaped'
        /\ hand'[caller].step = "before" /\ hand'[caller].on = on
        /\ \A other \in Callers \ {caller} : hand'[other] = hand[other]
    <3>1. "before" \in Steps
      BY DEF Steps
    <3>2. QED BY <2>1, <3>1, StaysShaped DEF Once, Taken
  <2>3. \A other \in Callers : hand[other].step \in Busy => hand[other].on # on
    BY <1>3 DEF Once, Taken
  <2>4. QED BY <2>1, <2>2, <2>3 DEF Once, OneForAPath, Taken
<1>4. QED BY <1>2, <1>3

LEMMA HandOverKeepsOnce ==
  ASSUME Once, NEW caller \in Callers, HandOver(caller), candidates' = candidates
  PROVE  Once'
<1> /\ {"refused", "inspect", "after", "given", "validate"} \subseteq Steps
    /\ {"before", "inspect", "after", "given", "validate"} \subseteq Busy
    /\ "refused" \notin Busy
  BY DEF Steps, Busy
<1>1. CASE Take(caller)
  BY <1>1, TakeKeepsOnce
<1>2. CASE HandCall(caller)
  BY <1>2, Part, GoesOn DEF HandCall, Once, Taken
<1>3. CASE StartConsumer(caller)
  BY <1>3, BecomesGoesOn DEF StartConsumer
<1>4. CASE ConsumerReturns(caller)
  BY <1>4, GoesOn DEF ConsumerReturns
<1>5. CASE Give(caller)
  <2>1. PICK step \in {"refused", "given"} : Becomes(caller, step)
    BY <1>5 DEF Give
  <2>2. hand[caller].step \in Busy /\ consumed' = consumed
    BY <1>5 DEF Give
  <2>3. QED BY <2>1, <2>2, BecomesGoesOn
<1>6. CASE HandFails(caller)
  BY <1>6, BecomesGoesOn DEF HandFails, Refuse
<1>7. CASE StartWrite(caller)
  BY <1>7, BecomesGoesOn DEF StartWrite
<1>8. QED BY <1>1, <1>2, <1>3, <1>4, <1>5, <1>6, <1>7 DEF HandOver

(* The catalog writes, or refuses, what a caller has.                        *)
LEMMA WritingKeepsOnce ==
  ASSUME Once, WriteTarget
  PROVE  Once'
<1>1. PICK caller \in Callers :
        Validated(caller) /\ (Write(caller) \/ Refuse(caller))
  BY DEF WriteTarget, Refresh, WriteNative
<1>2. candidates' = candidates /\ consumed' = consumed
  BY <1>1 DEF WriteTarget, discovery, Write, Refuse
<1>3. hand[caller].step \in Busy
  BY <1>1 DEF Validated, Busy
<1>4. PICK step \in {"written", "refused"} : Becomes(caller, step)
  BY <1>1 DEF Write, Refuse
<1>5. QED BY <1>2, <1>3, <1>4, BecomesGoesOn DEF Steps

(* A directory that is known already is not recorded again.                  *)
LEMMA ScanKeepsOnce ==
  ASSUME Once, Scan, UNCHANGED handing
  PROVE  Once'
<1>1. CASE candidates' = candidates
  BY <1>1, Still
<1>2. CASE candidates' # candidates
  <2>1. candidates' = Recorded
    BY <1>2 DEF Scan, NextRoot, ScanCall, ScanStep, NoCandidate, ScanFails, ScanDirectory
  <2>2. \A known \in candidates : known.path # Here
    BY <1>2, <2>1 DEF Recorded
  <2>3. PICK new : candidates' = candidates \cup {new} /\ new.path = Here
    BY <1>2, <2>1 DEF Recorded
  <2>4. OneForAPath'
    BY <2>2, <2>3 DEF Once, OneForAPath
  <2>5. Taken'
    BY <2>3 DEF Once, Taken, Shaped, handing
  <2>6. QED BY <2>4, <2>5 DEF Once
<1>3. QED BY <1>1, <1>2

LEMMA OnceNext == Once /\ [Next]_vars => Once'
<1> SUFFICES ASSUME Once, [Next]_vars PROVE Once'
  OBVIOUS
<1>1. CASE TreeChanges
  BY <1>1, Still DEF TreeChanges, discovery, handing, Watch, Once, OneForAPath, Taken, Shaped
<1>2. CASE AdmitRoots
  BY <1>2, Still DEF AdmitRoots, discovery
<1>3. CASE ScanRoots
  BY <1>3, ScanKeepsOnce DEF ScanRoots
<1>4. CASE HandOverCandidates
  BY <1>4, HandOverKeepsOnce DEF HandOverCandidates, discovery
<1>5. CASE WriteTarget
  BY <1>5, WritingKeepsOnce
<1>6. CASE AskNative
  BY <1>6, Still DEF AskNative, discovery
<1>7. CASE RunCommand
  BY <1>7, Still DEF RunCommand, discovery
<1>8. CASE TakeAnswer
  BY <1>8, Still DEF TakeAnswer, discovery
<1>9. CASE ReadInventory
  BY <1>9, Still DEF ReadInventory, discovery
<1>10. CASE UNCHANGED vars
  BY <1>10, Still DEF vars, discovery
<1>11. QED
  BY <1>1, <1>2, <1>3, <1>4, <1>5, <1>6, <1>7, <1>8, <1>9, <1>10 DEF Next

(* However many roots, spellings and callers there are, what lies in one   *)
(* directory is given to one caller (consumeIssuedSourceCandidate,         *)
(* recordCandidate).                                                       *)
THEOREM GivenToOne == Spec => []HandedOverOnce
<1>1. Once => HandedOverOnce
  BY DEF Once, OneForAPath, Taken, HandedOverOnce, Has, Busy
<1>2. QED BY <1>1, OnceInit, OnceNext, PTL DEF Spec

------------------------------------------------------------------------------
(* Nothing left running.                                                     *)

Codes == {0, 1, Killed, Unset}

(* Somebody holds the write ends of the pipes. *)
Holding == child = "running" \/ helper = "alive" \/ stray = "alive"

(* The promise is settled for a reason only by the timer, and the timer is *)
(* set only when the group was killed.  No timer outlives the answer: it   *)
(* came from that timer, or from the close of pipes that nobody holds.     *)
Killing ==
  /\ code \in Codes /\ ended \in Codes
  /\ cause \in {"none", "timeout", "overflow"}
  /\ child = "none" => cause = "none" /\ timers = {} /\ ~killSent
  /\ killSent => child = "exited" /\ helper # "alive"
  /\ "settle" \in timers => killSent
  /\ result \in {124, 125} => killSent
  /\ killSent \/ ~(timers \subseteq {"deadline"}) => Terminating
  /\ Settled => timers = {}
  /\ (Settled /\ ~Terminating) \/ child = "none" => ~Holding

LEMMA CodesDiffer == \A exit \in Codes : exit # 124 /\ exit # 125
  BY DEF Codes, Killed, Unset

LEMMA KillingInit == Init => Killing
  BY DEF Init, CommandInit, Killing, Codes, Unset, Holding, Settled

LEMMA Untouched == ASSUME Killing, UNCHANGED command PROVE Killing'
  BY DEF Killing, Codes, command, processes, handler, Holding, Settled, Terminating

LEMMA ProcessesKeepKilling ==
  ASSUME Killing, Processes
  PROVE  Killing'
<1>1. CASE Exits
  BY <1>1 DEF Exits, Killing, Codes, handler, Holding, Settled, Terminating
<1>2. CASE HelperEnds
  BY <1>2 DEF HelperEnds, Killing, Codes, handler, Holding, Settled, Terminating
<1>3. CASE StrayEnds
  BY <1>3 DEF StrayEnds, Killing, Codes, handler, Holding, Settled, Terminating
<1>4. CASE Forks
  BY <1>4 DEF Forks, Killing, Codes, handler, Holding, Settled, Terminating
<1>5. QED BY <1>1, <1>2, <1>3, <1>4 DEF Processes

(* An answer without a cause is one that the child gave.                     *)
LEMMA SettledWithoutCause ==
  ASSUME cause = "none", NEW with \in Codes, Settle(with)
  PROVE  result' \notin {124, 125} /\ timers' = {}
<1>1. result' = IF with \in {Unset, Killed} THEN 1 ELSE with
  BY DEF Settle
<1>2. QED BY <1>1, CodesDiffer DEF Settle

LEMMA HandlerKeepsKilling ==
  ASSUME Killing, child # "none", Handler
  PROVE  Killing'
<1>1. ASSUME NEW why \in {"timeout", "overflow"}, ~Settled, Terminate(why) PROVE Killing'
  BY <1>1 DEF Terminate, Killing, Codes, processes, Holding, Settled, Terminating
<1>2. CASE Overflows \/ Deadline
  <2>1. ~Settled
    BY <1>2 DEF Overflows, Deadline, Killing, Holding, PipesOpen
  <2>2. QED BY <1>1, <1>2, <2>1 DEF Overflows, Deadline
<1>3. CASE Kill
  <2>1. code' \in Codes /\ ended' \in Codes
    BY <1>3 DEF Kill, Killing, Codes
  <2>2. child' = "exited" /\ helper' # "alive" /\ killSent' = TRUE /\ cause' = cause
    BY <1>3 DEF Kill
  <2>3. ~Settled /\ Terminating /\ result' = result
    BY <1>3 DEF Kill, Killing, Settled, Terminating
  <2>4. QED BY <2>1, <2>2, <2>3 DEF Killing, Settled, Terminating
<1>4. CASE ExitEvent
  <2>1. ("settle" \in timers' => killSent) /\ (Settled => timers' = {})
    BY <1>4 DEF ExitEvent, Killing, Scheduled
  <2>2. timers' \subseteq timers \cup {"settle"} /\ (Terminating \/ timers' = timers)
    BY <1>4 DEF ExitEvent, Scheduled
  <2>3. QED BY <1>4, <2>1, <2>2 DEF ExitEvent, Killing, Codes, processes, Holding, Settled,
                                     Terminating
<1>5. CASE CloseEvent /\ ~Terminating
  <2>1. Settle(code) /\ UNCHANGED <<processes, cause, killSent, ended>> /\ ~PipesOpen
    BY <1>5 DEF CloseEvent
  <2>2. cause = "none" /\ code \in Codes
    BY <1>5 DEF Terminating, Killing
  <2>3. result' \notin {124, 125} /\ timers' = {}
    BY <2>1, <2>2, SettledWithoutCause
  <2>4. ~Holding
    BY <1>5, <2>1 DEF PipesOpen, Holding
  <2>5. QED BY <2>1, <2>3, <2>4 DEF Killing, Codes, processes, Holding, Settled, Terminating
<1>6. CASE CloseEvent /\ Terminating
  <2> DEFINE exit == IF ended = Unset THEN code ELSE ended
  <2>1. /\ ended' = exit /\ timers' = Scheduled(timers, killSent, exit)
        /\ UNCHANGED <<processes, cause, killSent, result>>
    BY <1>6 DEF CloseEvent
  <2>2. ("settle" \in timers' => killSent) /\ (Settled => timers' = {})
    BY <2>1 DEF Killing, Scheduled
  <2>3. timers' \subseteq timers \cup {"settle"}
    BY <2>1 DEF Scheduled
  <2>4. QED BY <1>6, <2>1, <2>2, <2>3 DEF Killing, Codes, processes, Holding, Settled, Terminating
<1>7. CASE SettleNow
  <2>1. killSent /\ timers' = {} /\ Terminating
    BY <1>7 DEF SettleNow, Settle, Killing, Terminating
  <2>2. QED BY <1>7, <2>1 DEF SettleNow, Killing, Codes, processes, Holding, Settled, Terminating
<1>8. QED BY <1>2, <1>3, <1>4, <1>5, <1>6, <1>7 DEF Handler

LEMMA StartingKeepsKilling ==
  ASSUME Killing, Spawn \/ SpawnFails
  PROVE  Killing'
<1>1. CASE Spawn
  BY <1>1 DEF Spawn, Killing, Codes, Holding, Settled, Terminating
<1>2. CASE SpawnFails
  <2>1. Settle(1) /\ cause = "none" /\ ~killSent
    BY <1>2 DEF SpawnFails, Killing
  <2>2. 1 \in Codes
    BY DEF Codes
  <2>3. result' \notin {124, 125} /\ timers' = {}
    BY <2>1, <2>2, SettledWithoutCause
  <2>4. ~Holding
    BY <1>2 DEF SpawnFails, Killing
  <2>5. QED BY <1>2, <2>1, <2>3, <2>4 DEF SpawnFails, Killing, Codes, Holding, Settled, Terminating
<1>3. QED BY <1>1, <1>2

LEMMA KillingNext == Killing /\ [Next]_vars => Killing'
<1> SUFFICES ASSUME Killing, [Next]_vars PROVE Killing'
  OBVIOUS
<1>1. CASE AskNative
  BY <1>1, StartingKeepsKilling DEF AskNative
<1>2. CASE RunCommand
  BY <1>2, ProcessesKeepKilling, HandlerKeepsKilling DEF RunCommand
<1>3. CASE TakeAnswer
  BY <1>3 DEF TakeAnswer, Killing, Codes, Unset, Holding, Settled, Terminating
<1>4. CASE UNCHANGED command
  BY <1>4, Untouched
<1>5. CASE TreeChanges \/ AdmitRoots \/ ScanRoots \/ HandOverCandidates
  BY <1>4, <1>5 DEF TreeChanges, AdmitRoots, ScanRoots, HandOverCandidates
<1>6. CASE WriteTarget \/ ReadInventory \/ UNCHANGED vars
  BY <1>4, <1>6 DEF WriteTarget, ReadInventory, vars
<1>7. QED BY <1>1, <1>2, <1>3, <1>5, <1>6 DEF Next

(* When a command that ran into its deadline or said too much is answered, *)
(* neither the child nor a helper in its group runs on, in whatever order  *)
(* exit, close, kill and timers came, and however a command was answered,  *)
(* no timer is left or set again (runCapturedCommand).                     *)
THEOREM CutOffIsOver == Spec => []NothingLeftRunning
<1>1. Killing => NothingLeftRunning
  BY DEF Killing, NothingLeftRunning, Settled
<1>2. QED BY <1>1, KillingInit, KillingNext, PTL DEF Spec

------------------------------------------------------------------------------
(* What bb printed, and what was made of it.                                 *)

Endings == {"command-error", "output-limit", "malformed", "entry-limit"}
Read == Len(listed) - Len(printed)

(* The rows that are left are the end of the list. *)
RowsLeft ==
  /\ listed \in Seq(ListRow) /\ printed \in Seq(ListRow)
  /\ Len(printed) <= Len(listed) /\ Len(listed) <= MaxRows
  /\ \A i \in 1 .. Len(printed) : printed[i] = listed[Read + i]
  /\ \E pairs : led \in Seq(pairs)
  /\ Len(led) = Read

(* Before the list is read there is nothing to tell of it, and a command   *)
(* runs only then.                                                          *)
InOrder ==
  /\ facts = [status |-> facts.status, entries |-> facts.entries, malformed |-> facts.malformed]
  /\ facts.status \in {"none", "reading", "ok"} \cup Endings
  /\ inventory \in {"none", "observed", "trusted", "spent"}
  /\ inventory # "none" => facts.status \in {"ok"} \cup Endings
  /\ facts.status \notin {"reading", "ok"} => facts.entries = {} /\ facts.malformed = {}
  /\ facts.status = "ok" => printed = <<>>
  /\ child # "none" => facts.status = "none"
  /\ result # Unset => child # "none"
  /\ verdict # NoVerdict => inventory = "spent"

(* What is told of a row: an entry of a clean one, and else a malformed one *)
(* that keeps its id, and its root if both of its names led there.          *)
KindOf(row) ==
  IF row.source = "builtin" /\ row.provenance = "catalog" THEN "catalog" ELSE row.source
TellsOf(entry) ==
  /\ entry.index \in 0 .. Read - 1
  /\ Clean(listed[entry.index + 1])
  /\ entry.id = listed[entry.index + 1].id
  /\ entry.kind = KindOf(listed[entry.index + 1])
  /\ LedHere(entry.index + 1) <=> entry.kind = "path" /\ entry.root = SourceRoot
  /\ EntryFits(entry)
SpoilsOf(row) ==
  /\ row.index \in 0 .. Read - 1
  /\ row.id = Readable(listed[row.index + 1])
  /\ LedHere(row.index + 1) => row.root = SourceRoot
  /\ RowFits(row)

(* One of either for each row that was read. *)
Told ==
  /\ \A entry \in facts.entries : TellsOf(entry)
  /\ \A row \in facts.malformed : SpoilsOf(row)
  /\ \A one, other \in facts.entries : one.index = other.index => one = other
  /\ \A one, other \in facts.malformed : one.index = other.index => one = other
  /\ facts.status \in {"reading", "ok"} =>
       \A i \in 0 .. Read - 1 :
         \E one \in facts.entries \cup facts.malformed : one.index = i
  /\ IsFiniteSet(facts.entries) /\ IsFiniteSet(facts.malformed)
  /\ facts.status \in {"reading", "ok"} =>
       Cardinality(facts.entries) + Cardinality(facts.malformed) <= Read

Observing == scene \in Scenes /\ RowsLeft /\ InOrder /\ Told

LEMMA ObservingInit == Init => Observing /\ VerdictTells
<1> SUFFICES ASSUME Init PROVE Observing /\ VerdictTells
  OBVIOUS
<1>1. /\ printed = <<>> /\ listed = <<>> /\ led = <<>> /\ facts = NoFacts /\ inventory = "none"
      /\ verdict = NoVerdict /\ scene \in Scenes /\ child = "none" /\ result = Unset
  BY DEF Init, NativeInit, CommandInit
<1>2. RowsLeft
  BY <1>1, ScenesAssumption DEF RowsLeft, Read
<1>3. InOrder
  BY <1>1 DEF InOrder, NoFacts
<1>4. Told
  BY <1>1, FS_EmptySet DEF Told, NoFacts, Read
<1>5. QED BY <1>1, <1>2, <1>3, <1>4 DEF Observing, VerdictTells

(* Whoever leaves the observation, the list and the command's state alone.  *)
LEMMA ObservingStill ==
  ASSUME Observing, UNCHANGED <<native, scene>>,
         child' # "none" => facts.status = "none", result' # Unset => child' # "none"
  PROVE  Observing'
<1>1. RowsLeft'
  BY DEF Observing, RowsLeft, Read, native
<1>2. InOrder'
  BY DEF Observing, InOrder, native
<1>3. Told'
  <2>1. facts' = facts /\ listed' = listed /\ printed' = printed
    BY DEF native
  <2>2. led' = led
    BY DEF native
  <2>3. QED BY <2>1, <2>2 DEF Observing, Told, TellsOf, SpoilsOf, Read, LedHere
<1>4. QED BY <1>1, <1>2, <1>3 DEF Observing

(* The row that is read next.                                                *)
LEMMA NextRow ==
  ASSUME RowsLeft, printed # <<>>
  PROVE  /\ Row \in ListRow /\ Row = listed[Read + 1]
         /\ Read \in Nat /\ Len(listed) \in Nat /\ Read + 1 \in 1 .. Len(listed) /\ Read < MaxRows
<1>1. Len(printed) \in 1 .. Len(listed) /\ Len(listed) \in Nat /\ Row = printed[1]
  BY DEF RowsLeft, Row
<1>2. Row \in ListRow /\ Row = listed[Read + 1]
  BY <1>1 DEF RowsLeft
<1>3. QED BY <1>1, <1>2, ScenesAssumption DEF RowsLeft, Read

(* What a clean row is turned into fits the bridge's schema.                 *)
LEMMA CleanFits ==
  ASSUME NEW row \in ListRow, Clean(row), NEW names, RootIssues(row, names) = {}, NEW index
  PROVE  EntryFits([index |-> index, id |-> row.id, kind |-> KindOf(row),
                    root |-> RootOf(row, names), provenance |-> row.provenance,
                    orphaned |-> row.orphaned])
<1>1. /\ row.flaws = {} /\ row.source \in {"path", "npm", "git", "builtin"}
      /\ row.provenance \in {"builtin", "direct", "catalog"} /\ row.orphaned \in BOOLEAN
      /\ Kind(row) = row.source
  BY DEF Clean, ListRow, Kind
<1>2. SourceFits(row) /\ (row.orphaned => row.source = "builtin")
  BY <1>1 DEF Clean, Contradictions
<1>3. (row.source = "path") = (RootOf(row, names) # None)
  <2>1. CASE row.source = "path"
    <3>1. Resolves(row)
      BY <1>1, <1>2, <2>1 DEF Resolves, SourceFits
    <3>2. QED BY <2>1, <3>1 DEF RootOf, RootIssues
  <2>2. CASE row.source # "path"
    BY <1>1, <2>2 DEF RootOf, Resolves
  <2>3. QED BY <2>1, <2>2
<1>4. CASE row.source = "builtin"
  BY <1>1, <1>2, <1>3, <1>4 DEF EntryFits, KindOf, SourceFits
<1>5. CASE row.source # "builtin"
  BY <1>1, <1>2, <1>3, <1>5 DEF EntryFits, KindOf, SourceFits
<1>6. QED BY <1>4, <1>5

(* So does what is kept of any other.                                        *)
LEMMA RestFits ==
  ASSUME NEW row \in ListRow, NEW names, NEW index, index < MaxRows,
         NEW issues, issues = row.flaws \cup Contradictions(row) \cup RootIssues(row, names),
         issues # {}
  PROVE  RowFits([index |-> index, id |-> Readable(row), root |-> RootOf(row, names),
                  issues |-> issues])
<1>1. ASSUME RootOf(row, names) # None PROVE issues \cap Unsafe = {}
  <2>1. Resolves(row) /\ RootIssues(row, names) = {}
    BY <1>1 DEF RootOf
  <2>2. row.flaws \cap {"row", "source", "rootDir", "provenance"} = {}
    BY <2>1 DEF Resolves, Kind
  <2>3. row.flaws \subseteq Fields /\ "source-provenance" \notin Contradictions(row)
    BY <2>1 DEF ListRow, Contradictions, Resolves, SourceFits, Kind
  <2>4. Contradictions(row) \subseteq {"isOrphanedBuiltin"}
    BY <2>3 DEF Contradictions
  <2>5. QED BY <2>1, <2>2, <2>3, <2>4 DEF Unsafe, Fields
<1>2. QED BY <1>1 DEF RowFits

(* What is kept of the roots of a row is where both of them led to.          *)
LEMMA RootIsWhereTheyLed ==
  ASSUME NEW row \in ListRow, NEW one, NEW other, ~Resolves(row) => one = None
  PROVE  LET names == <<one, other>>
             here == names = <<SourceRoot, SourceRoot>>
         IN  /\ here => RootOf(row, names) = SourceRoot
             /\ Clean(row) /\ RootIssues(row, names) = {} =>
                  (here <=> KindOf(row) = "path" /\ RootOf(row, names) = SourceRoot)
<1> DEFINE names == <<one, other>>
           here == names = <<SourceRoot, SourceRoot>>
<1>1. SourceRoot # None /\ names[1] = one /\ names[2] = other
      /\ (here <=> one = SourceRoot /\ other = SourceRoot)
  BY ScenesAssumption
<1>2. here => Resolves(row) /\ RootOf(row, names) = SourceRoot
  BY <1>1 DEF RootOf, RootIssues
<1>3. Resolves(row) => KindOf(row) = "path"
  BY DEF Resolves, KindOf, Kind
<1>4. ASSUME Clean(row), RootIssues(row, names) = {}, KindOf(row) = "path",
             RootOf(row, names) = SourceRoot
      PROVE  here
  <2>1. row.source = "path" /\ row.flaws = {} /\ Contradictions(row) = {}
    BY <1>4 DEF Clean, KindOf
  <2>2. Resolves(row)
    BY <2>1 DEF Resolves, Kind, Contradictions, SourceFits
  <2>3. one = other /\ other = SourceRoot
    BY <1>1, <1>4, <2>2 DEF RootIssues, RootOf
  <2>4. QED BY <1>1, <2>3
<1>5. QED BY <1>2, <1>3, <1>4

(* A row that is read is told of once.                                       *)
LEMMA ReadRowKeepsTold ==
  ASSUME Observing, ReadRow, child' = child, result' = result, scene' = scene
  PROVE  Observing'
<1>0. PICK row, index, names :
        /\ row = Row /\ index = Read
        /\ names = IF Resolves(row) THEN <<Resolution(1), Resolution(2)>>
                   ELSE <<None, None>>
  OBVIOUS
<1> DEFINE issues == row.flaws \cup Contradictions(row) \cup RootIssues(row, names)
           entry == [index |-> index, id |-> row.id, kind |-> KindOf(row),
                     root |-> RootOf(row, names), provenance |-> row.provenance,
                     orphaned |-> row.orphaned]
           rest == [index |-> index, id |-> Readable(row), root |-> RootOf(row, names),
                    issues |-> issues]
<1>1. /\ RowsLeft /\ InOrder /\ Told
      /\ facts.status = "reading" /\ printed # <<>>
      /\ printed' = Tail(printed) /\ listed' = listed /\ inventory' = inventory
      /\ verdict' = verdict
      /\ facts' = Parsed(row, names) /\ led' = Append(led, names)
  BY <1>0 DEF Observing, ReadRow, Reading, Canonicals
<1>2. /\ row \in ListRow /\ row = listed[index + 1] /\ index = Read
      /\ Read \in Nat /\ Len(listed) \in Nat /\ Read + 1 \in 1 .. Len(listed) /\ Read < MaxRows
  BY <1>0, <1>1, NextRow
<1>3. /\ Len(printed) \in Nat \ {0} /\ Len(printed') = Len(printed) - 1
      /\ \A i \in 1 .. Len(printed') : printed'[i] = printed[i + 1]
      /\ printed' \in Seq(ListRow) /\ Read' = Read + 1 /\ Len(listed) \in Nat
  BY <1>1 DEF RowsLeft, Read
<1>15. /\ \E pairs : led' \in Seq(pairs)
       /\ Len(led') = Read' /\ led'[index + 1] = names
       /\ \A i \in 0 .. Read - 1 : led'[i + 1] = led[i + 1]
  <2>1. PICK pairs : led \in Seq(pairs)
    BY <1>1 DEF RowsLeft
  <2>2. led \in Seq(pairs \cup {names}) /\ names \in pairs \cup {names}
    BY <2>1
  <2>3. Len(led) = Read
    BY <1>1 DEF RowsLeft
  <2> HIDE DEF Read
  <2>4. led' \in Seq(pairs \cup {names}) /\ Len(led') = Len(led) + 1 /\ led'[Len(led) + 1] = names
        /\ \A i \in 1 .. Len(led) : led'[i] = led[i]
    BY <1>1, <2>2
  <2>5. \A i \in 0 .. Read - 1 : i + 1 \in 1 .. Len(led)
    BY <1>2, <2>3
  <2>6. QED BY <1>2, <1>3, <2>3, <2>4, <2>5
<1>4. RowsLeft'
  BY <1>1, <1>2, <1>3, <1>15 DEF RowsLeft, Read
<1>16. /\ names = <<SourceRoot, SourceRoot>> => RootOf(row, names) = SourceRoot
       /\ Clean(row) /\ RootIssues(row, names) = {} =>
            (names = <<SourceRoot, SourceRoot>>
               <=> KindOf(row) = "path" /\ RootOf(row, names) = SourceRoot)
  <2>1. PICK one, other : names = <<one, other>> /\ (~Resolves(row) => one = None)
    BY <1>0
  <2>2. QED BY <1>2, <2>1, RootIsWhereTheyLed
<1>5. /\ facts'.status = "reading"
      /\ facts' = [status |-> facts'.status, entries |-> facts'.entries,
                   malformed |-> facts'.malformed]
      /\ IF issues # {}
         THEN facts'.entries = facts.entries /\ facts'.malformed = facts.malformed \cup {rest}
         ELSE facts'.entries = facts.entries \cup {entry} /\ facts'.malformed = facts.malformed
  <2> HIDE DEF issues
  <2>1. facts' = IF issues # {}
                 THEN [facts EXCEPT !.malformed = @ \cup {rest}]
                 ELSE [facts EXCEPT !.entries = @ \cup {entry}]
    BY <1>1, <1>2 DEF Parsed, issues, Read, KindOf
  <2>2. facts = [status |-> facts.status, entries |-> facts.entries, malformed |-> facts.malformed]
        /\ facts.status = "reading"
    BY <1>1 DEF InOrder
  <2> HIDE DEF rest, entry
  <2>3. QED BY <2>1, <2>2
<1>6. InOrder'
  BY <1>1, <1>5 DEF InOrder
<1>7. \A one \in facts.entries \cup facts.malformed : one.index \in 0 .. Read - 1
  BY <1>1, <1>3 DEF Told, TellsOf, SpoilsOf
<1>13. ASSUME NEW one \in facts.entries PROVE TellsOf(one)'
  <2>1. TellsOf(one) /\ one.index \in 0 .. Read' - 1
    BY <1>1, <1>2, <1>3, <1>7 DEF Told
  <2>2. led'[one.index + 1] = led[one.index + 1]
    BY <1>7, <1>15
  <2>3. QED BY <1>1, <2>1, <2>2 DEF TellsOf, LedHere
<1>14. ASSUME NEW one \in facts.malformed PROVE SpoilsOf(one)'
  <2>1. SpoilsOf(one) /\ one.index \in 0 .. Read' - 1
    BY <1>1, <1>2, <1>3, <1>7 DEF Told
  <2>2. led'[one.index + 1] = led[one.index + 1]
    BY <1>7, <1>15
  <2>3. QED BY <1>1, <2>1, <2>2 DEF SpoilsOf, LedHere
<1>8. \A i \in 0 .. Read' - 1 : i = Read \/ \E one \in facts.entries \cup facts.malformed : one.index = i
  BY <1>1, <1>2, <1>3 DEF Told
<1>9. ASSUME issues # {} PROVE Told'
  <2>1. facts'.entries = facts.entries /\ facts'.malformed = facts.malformed \cup {rest}
    BY <1>5, <1>9
  <2>2. SpoilsOf(rest)'
    <3>1. RowFits(rest)
      BY <1>2, <1>9, RestFits
    <3>2. RowFits(rest)' <=> RowFits(rest)
      BY DEF RowFits
    <3>3. rest.index \in 0 .. Read' - 1 /\ rest.id = Readable(listed'[rest.index + 1])
      BY <1>1, <1>2, <1>3
    <3>4. LedHere(rest.index + 1)' => rest.root = SourceRoot
      BY <1>15, <1>16 DEF LedHere
    <3>5. QED BY <3>1, <3>2, <3>3, <3>4 DEF SpoilsOf
  <2>3. rest.index = Read
    BY <1>2
  <2> HIDE DEF rest, entry, issues
  <2>4. IsFiniteSet(facts'.malformed) /\ Cardinality(facts'.malformed) = Cardinality(facts.malformed) + 1
    <3>1. rest \notin facts.malformed
      BY <1>2, <1>3, <1>7, <2>3
    <3>2. IsFiniteSet(facts.malformed)
      BY <1>1 DEF Told
    <3>3. QED BY <2>1, <3>1, <3>2, FS_AddElement
  <2>5. /\ Cardinality(facts.entries) \in Nat /\ Cardinality(facts.malformed) \in Nat
        /\ Cardinality(facts.entries) + Cardinality(facts.malformed) <= Read
    BY <1>1, FS_CardinalityType DEF Told
  <2>6. /\ \A one \in facts'.entries : TellsOf(one)'
        /\ \A one \in facts'.malformed : SpoilsOf(one)'
    BY <1>13, <1>14, <2>1, <2>2
  <2>7. /\ \A one, other \in facts'.entries : one.index = other.index => one = other
        /\ \A one, other \in facts'.malformed : one.index = other.index => one = other
    <3>1. Read \notin 0 .. Read - 1
      BY <1>2, <1>3
    <3>2. QED BY <1>1, <1>7, <2>1, <2>3, <3>1 DEF Told
  <2>8. \A i \in 0 .. Read' - 1 :
          \E one \in facts'.entries \cup facts'.malformed : one.index = i
    BY <1>8, <2>1, <2>3
  <2>9. /\ IsFiniteSet(facts'.entries) /\ IsFiniteSet(facts'.malformed)
        /\ Cardinality(facts'.entries) + Cardinality(facts'.malformed) <= Read'
    <3>1. IsFiniteSet(facts.entries) /\ IsFiniteSet(facts.malformed)
      BY <1>1 DEF Told
    <3>2. IsFiniteSet(facts'.entries) /\ IsFiniteSet(facts'.malformed)
      BY <2>1, <2>4, <3>1
    <3>3. Cardinality(facts'.entries) + Cardinality(facts'.malformed)
            = Cardinality(facts.entries) + Cardinality(facts.malformed) + 1
      BY <2>1, <2>4, <2>5
    <3>4. QED BY <1>2, <1>3, <2>5, <3>2, <3>3
  <2>10. QED BY <1>5, <2>6, <2>7, <2>8, <2>9 DEF Told
<1>10. ASSUME issues = {} PROVE Told'
  <2>1. facts'.entries = facts.entries \cup {entry} /\ facts'.malformed = facts.malformed
    BY <1>5, <1>10
  <2>2. TellsOf(entry)'
    <3>1. Clean(row) /\ RootIssues(row, names) = {}
      BY <1>10 DEF Clean
    <3>2. EntryFits(entry)
      BY <1>2, <3>1, CleanFits
    <3>3. entry.index \in 0 .. Read' - 1 /\ row = listed'[entry.index + 1]
      BY <1>1, <1>2, <1>3
    <3>4. LedHere(entry.index + 1)' <=> entry.kind = "path" /\ entry.root = SourceRoot
      BY <1>15, <1>16, <3>1 DEF LedHere
    <3>5. QED BY <3>1, <3>2, <3>3, <3>4 DEF TellsOf
  <2>3. entry.index = Read
    BY <1>2
  <2> HIDE DEF rest, entry, issues
  <2>4. IsFiniteSet(facts'.entries) /\ Cardinality(facts'.entries) = Cardinality(facts.entries) + 1
    <3>1. entry \notin facts.entries
      BY <1>2, <1>3, <1>7, <2>3
    <3>2. IsFiniteSet(facts.entries)
      BY <1>1 DEF Told
    <3>3. QED BY <2>1, <3>1, <3>2, FS_AddElement
  <2>5. /\ Cardinality(facts.entries) \in Nat /\ Cardinality(facts.malformed) \in Nat
        /\ Cardinality(facts.entries) + Cardinality(facts.malformed) <= Read
    BY <1>1, FS_CardinalityType DEF Told
  <2>6. /\ \A one \in facts'.entries : TellsOf(one)'
        /\ \A one \in facts'.malformed : SpoilsOf(one)'
    BY <1>13, <1>14, <2>1, <2>2
  <2>7. /\ \A one, other \in facts'.entries : one.index = other.index => one = other
        /\ \A one, other \in facts'.malformed : one.index = other.index => one = other
    <3>1. Read \notin 0 .. Read - 1
      BY <1>2, <1>3
    <3>2. QED BY <1>1, <1>7, <2>1, <2>3, <3>1 DEF Told
  <2>8. \A i \in 0 .. Read' - 1 :
          \E one \in facts'.entries \cup facts'.malformed : one.index = i
    BY <1>8, <2>1, <2>3
  <2>9. /\ IsFiniteSet(facts'.entries) /\ IsFiniteSet(facts'.malformed)
        /\ Cardinality(facts'.entries) + Cardinality(facts'.malformed) <= Read'
    <3>1. IsFiniteSet(facts.entries) /\ IsFiniteSet(facts.malformed)
      BY <1>1 DEF Told
    <3>2. IsFiniteSet(facts'.entries) /\ IsFiniteSet(facts'.malformed)
      BY <2>1, <2>4, <3>1
    <3>3. Cardinality(facts'.entries) + Cardinality(facts'.malformed)
            = Cardinality(facts.entries) + Cardinality(facts.malformed) + 1
      BY <2>1, <2>4, <2>5
    <3>4. QED BY <1>2, <1>3, <2>5, <3>2, <3>3
  <2>10. QED BY <1>5, <2>6, <2>7, <2>8, <2>9 DEF Told
<1>11. Told'
  BY <1>9, <1>10
<1>12. QED BY <1>4, <1>6, <1>11 DEF Observing

(* An answer that cannot be read as a list.                                  *)
LEMMA ObserveKeepsObserving ==
  ASSUME Observing, facts.status = "none", NEW status \in Endings, Observe(status),
         child' = "none", result' = Unset, scene' = scene
  PROVE  Observing'
<1>1. /\ facts' = [status |-> status, entries |-> {}, malformed |-> {}]
      /\ inventory' = "observed" /\ verdict' = verdict
      /\ printed' = printed /\ listed' = listed /\ led' = led
  BY DEF Observe, NoFacts
<1>2. status \notin {"reading", "ok"}
  BY DEF Endings
<1>3. RowsLeft'
  BY <1>1 DEF Observing, RowsLeft, Read
<1>4. verdict = NoVerdict
  BY DEF Observing, InOrder, Endings
<1>5. InOrder'
  BY <1>1, <1>2, <1>4 DEF InOrder
<1>6. Told'
  BY <1>1, <1>2, FS_EmptySet DEF Told
<1>7. QED BY <1>3, <1>5, <1>6 DEF Observing

LEMMA TakeAnswerKeepsObserving ==
  ASSUME Observing, TakeAnswer
  PROVE  Observing'
<1>1. /\ facts.status = "none" /\ verdict = NoVerdict /\ inventory = "none"
      /\ child' = "none" /\ result' = Unset /\ scene' = scene
  BY DEF TakeAnswer, Settled, Observing, InOrder, Endings
<1>2. CASE \E status \in Endings : Observe(status)
  BY <1>1, <1>2, ObserveKeepsObserving
<1>3. ASSUME NEW rows \in scene.lists, Len(rows) <= MaxRows, OutputRead(rows)
      PROVE  Observing'
  <2>1. rows \in Seq(ListRow) /\ Len(rows) \in Nat /\ MaxRows \in Nat
    BY ScenesAssumption DEF Observing
  <2>2. /\ facts' = [status |-> "reading", entries |-> {}, malformed |-> {}]
        /\ inventory' = inventory /\ verdict' = verdict
        /\ printed' = rows /\ listed' = rows /\ led' = <<>>
    BY <1>3, <2>1 DEF OutputRead, NoFacts
  <2>3. RowsLeft' /\ Read' = 0
    BY <1>3, <2>1, <2>2 DEF RowsLeft, Read
  <2>4. InOrder'
    BY <1>1, <2>2 DEF InOrder
  <2>5. Told'
    BY <2>2, <2>3, FS_EmptySet DEF Told
  <2>6. QED BY <1>1, <2>3, <2>4, <2>5 DEF Observing
<1>4. CASE \E rows \in scene.lists : OutputRead(rows)
  <2>1. PICK rows \in scene.lists : OutputRead(rows)
    BY <1>4
  <2>2. rows \in Seq(ListRow) /\ Len(rows) \in Nat /\ MaxRows \in Nat
    BY ScenesAssumption DEF Observing
  <2>3. CASE Len(rows) > MaxRows
    BY <1>2, <2>1, <2>3 DEF OutputRead, Endings
  <2>4. CASE Len(rows) <= MaxRows
    BY <1>3, <2>1, <2>4
  <2>5. QED BY <2>2, <2>3, <2>4
<1>5. CASE result # 0 /\ CommandFailed(result)
  BY <1>2, <1>5 DEF CommandFailed, Endings
<1>6. CASE OutputUnreadable
  BY <1>2, <1>6 DEF OutputUnreadable, Endings
<1>7. QED BY <1>4, <1>5, <1>6 DEF TakeAnswer

(* The last row was read, or the bridge has taken the observation: it fits. *)
LEMMA ObservedIsAcceptable ==
  ASSUME Observing, inventory = "observed"
  PROVE  Acceptable
<1>1. /\ facts.status \in {"ok"} \cup Endings /\ Told /\ RowsLeft
  BY DEF Observing, InOrder
<1>2. Len(printed) \in Nat /\ Len(listed) \in Nat /\ Read <= MaxRows /\ MaxRows \in Nat
      /\ Read \in Nat
  BY <1>1, ScenesAssumption DEF RowsLeft, Read
<1>3. Cardinality(facts.entries) + Cardinality(facts.malformed) <= MaxRows
  <2>1. CASE facts.status = "ok"
    <3>1. /\ Cardinality(facts.entries) \in Nat /\ Cardinality(facts.malformed) \in Nat
      BY <1>1, FS_CardinalityType DEF Told
    <3>2. QED BY <1>1, <1>2, <2>1, <3>1 DEF Told
  <2>2. CASE facts.status # "ok"
    <3>1. facts.entries = {} /\ facts.malformed = {}
      BY <1>1, <2>2 DEF Observing, InOrder, Endings
    <3>2. QED BY <1>2, <3>1, FS_EmptySet
  <2>3. QED BY <2>1, <2>2
<1>4. QED BY <1>1, <1>3 DEF Acceptable, Told, TellsOf, SpoilsOf, Endings

LEMMA ReadInventoryKeepsObserving ==
  ASSUME Observing, ReadInventory
  PROVE  Observing'
<1>1. child' = child /\ result' = result /\ scene' = scene
  BY DEF ReadInventory, command, processes, handler
<1>2. CASE ReadRow
  BY <1>1, <1>2, ReadRowKeepsTold
<1>3. ASSUME ResolveFirst \/ AllRead \/ Accept PROVE Observing'
  <2>1. RowsLeft'
    BY <1>3 DEF Observing, RowsLeft, Read, ResolveFirst, AllRead, Accept
  <2>2. InOrder'
    <3>1. CASE ResolveFirst
      BY <1>1, <3>1 DEF Observing, InOrder, ResolveFirst
    <3>2. CASE AllRead
      <4>1. facts' = [status |-> "ok", entries |-> facts.entries, malformed |-> facts.malformed]
        BY <3>2 DEF AllRead, Observing, InOrder
      <4>2. facts.status = "reading" /\ inventory' = "observed" /\ printed' = <<>>
            /\ verdict' = verdict
        BY <3>2 DEF AllRead, Reading
      <4>3. verdict = NoVerdict /\ child = "none"
        BY <4>2 DEF Observing, InOrder, Endings
      <4>4. QED BY <1>1, <4>1, <4>2, <4>3 DEF Observing, InOrder
    <3>3. CASE Accept
      <4>1. inventory' = "trusted" /\ verdict = NoVerdict /\ inventory = "observed"
            /\ facts' = facts /\ printed' = printed /\ verdict' = verdict
        BY <3>3, ObservedIsAcceptable DEF Accept, Observing, InOrder
      <4>2. QED BY <1>1, <4>1 DEF Observing, InOrder
    <3>4. QED BY <1>3, <3>1, <3>2, <3>3
  <2>3. Told'
    <3>1. /\ facts'.entries = facts.entries /\ facts'.malformed = facts.malformed
          /\ facts'.status \in {"reading", "ok"} => facts.status \in {"reading", "ok"}
          /\ Read' = Read /\ listed' = listed /\ led' = led
      <4>1. CASE AllRead
        BY <4>1 DEF AllRead, Reading, Observing, InOrder, Read
      <4>2. CASE ResolveFirst \/ Accept
        BY <4>2 DEF ResolveFirst, Accept, Read
      <4>3. QED BY <1>3, <4>1, <4>2
    <3>2. /\ \A entry \in facts.entries : TellsOf(entry) <=> TellsOf(entry)'
          /\ \A row \in facts.malformed : SpoilsOf(row) <=> SpoilsOf(row)'
      BY <3>1 DEF TellsOf, SpoilsOf, LedHere
    <3>3. QED BY <3>1, <3>2 DEF Observing, Told
  <2>4. QED BY <1>1, <2>1, <2>2, <2>3 DEF Observing
<1>4. QED BY <1>2, <1>3 DEF ReadInventory, ReadList

(* The comparison, once, of what was accepted.                               *)
LEMMA ReconcileKeepsObserving ==
  ASSUME Observing, NEW age, Reconcile(age), child' = child, result' = result, scene' = scene
  PROVE  Observing'
<1>1. /\ inventory' = "spent" /\ inventory = "trusted"
      /\ facts' = facts /\ printed' = printed /\ listed' = listed /\ led' = led
  BY DEF Reconcile
<1>2. RowsLeft'
  BY <1>1 DEF Observing, RowsLeft, Read
<1>3. InOrder'
  BY <1>1 DEF Observing, InOrder
<1>4. Told'
  BY <1>1 DEF Observing, Told, TellsOf, SpoilsOf, Read, LedHere
<1>5. QED BY <1>2, <1>3, <1>4 DEF Observing

LEMMA ObservingNext == Observing /\ [Next]_vars => Observing'
<1> SUFFICES ASSUME Observing, [Next]_vars PROVE Observing'
  OBVIOUS
<1>1. child # "none" => facts.status = "none"
  BY DEF Observing, InOrder
<1>2. CASE TreeChanges \/ AdmitRoots \/ ScanRoots \/ HandOverCandidates \/ UNCHANGED vars
  <2>1. UNCHANGED <<native, scene>> /\ child' = child /\ result' = result
    BY <1>2 DEF TreeChanges, AdmitRoots, ScanRoots, HandOverCandidates, vars, command,
                processes, handler
  <2>2. QED BY <1>1, <2>1, ObservingStill DEF Observing, InOrder
<1>3. CASE WriteTarget
  <2>1. child' = child /\ result' = result /\ scene' = scene
    BY <1>3 DEF WriteTarget, command, processes, handler
  <2>2. UNCHANGED native \/ \E age \in {"future", "fresh", "stale"} : Reconcile(age)
    BY <1>3 DEF WriteTarget, Refresh, WriteNative
  <2>3. CASE UNCHANGED native
    BY <2>1, <2>3, <1>1, ObservingStill DEF Observing, InOrder
  <2>4. QED BY <2>1, <2>2, <2>3, ReconcileKeepsObserving
<1>4. CASE AskNative
  <2>1. UNCHANGED <<native, scene>> /\ facts.status = "none" /\ child' # "none"
    BY <1>4 DEF AskNative, NoFacts, Spawn, SpawnFails
  <2>2. QED BY <2>1, ObservingStill
<1>5. CASE RunCommand
  <2>1. UNCHANGED <<native, scene>> /\ child # "none"
    BY <1>5 DEF RunCommand
  <2>2. child' # "none"
    BY <1>5, <2>1 DEF RunCommand, Processes, Exits, HelperEnds, StrayEnds, Forks, Handler,
                      Overflows, Deadline, Terminate, Kill, ExitEvent, CloseEvent, SettleNow,
                      processes
  <2>3. QED BY <1>1, <2>1, <2>2, ObservingStill
<1>6. CASE TakeAnswer
  BY <1>6, TakeAnswerKeepsObserving
<1>7. CASE ReadInventory
  BY <1>7, ReadInventoryKeepsObserving
<1>8. QED BY <1>2, <1>3, <1>4, <1>5, <1>6, <1>7 DEF Next

(* Whatever bb prints, and whatever the tree does between two resolutions, *)
(* the runtime accepts what the observer made of it (native-inventory-     *)
(* row.ts against the schemas of native-inventory.ts).                     *)
THEOREM ObservedIsAccepted == Spec => []ObservationsAreAcceptable
<1>1. Observing => ObservationsAreAcceptable
  BY DEF Observing, InOrder, ObservationsAreAcceptable
<1>2. QED BY <1>1, ObservingInit, ObservingNext, PTL DEF Spec

------------------------------------------------------------------------------
(* What is written of a target is what bb said of it.                        *)

LEMMA TwoConcern ==
  ASSUME NEW S, IsFiniteSet(S), NEW one \in S, NEW other \in S, one # other
  PROVE  Cardinality(S) > 1
<1>1. S # {} /\ S \ {one} # {} /\ IsFiniteSet(S \ {one})
  BY FS_RemoveElement
<1>2. Cardinality(S) \in Nat /\ Cardinality(S \ {one}) \in Nat
      /\ Cardinality(S \ {one}) = Cardinality(S) - 1
  BY <1>1, FS_RemoveElement, FS_CardinalityType
<1>3. Cardinality(S \ {one}) # 0
  BY <1>1, FS_EmptySet
<1>4. QED BY <1>2, <1>3

LEMMA MoreThanOne ==
  ASSUME NEW S, IsFiniteSet(S), Cardinality(S) > 1
  PROVE  \E one, other \in S : one # other
<1>1. S # {}
  BY FS_EmptySet
<1>2. PICK one \in S : TRUE
  BY <1>1
<1>3. S # {one}
  <2>1. Cardinality({one}) = 1
    BY FS_Singleton
  <2>2. QED BY <2>1
<1>4. QED BY <1>2, <1>3

(* What is told of the target was said of it.                                *)
LEMMA ToldIsSaid ==
  ASSUME Observing, NEW entry \in Matching
  PROVE  /\ entry.index + 1 \in About /\ Clean(listed[entry.index + 1]) /\ entry.index \in Nat
         /\ entry.id = listed[entry.index + 1].id
         /\ entry.kind = KindOf(listed[entry.index + 1])
         /\ entry.kind = "path" =>
              (entry.root = SourceRoot <=> LedHere(entry.index + 1))
<1>1. listed \in Seq(ListRow) /\ Len(listed) \in Nat /\ Read <= Len(listed) /\ Read \in Nat
  BY DEF Observing, RowsLeft, Read
<1>2. TellsOf(entry) /\ Concerns(entry)
  BY DEF Matching, Observing, Told
<1>3. entry.index \in Nat /\ entry.index + 1 \in DOMAIN listed
  BY <1>1, <1>2 DEF TellsOf
<1>4. /\ Clean(listed[entry.index + 1]) /\ entry.id = listed[entry.index + 1].id
      /\ entry.kind = KindOf(listed[entry.index + 1])
      /\ entry.kind = "path" => (entry.root = SourceRoot <=> LedHere(entry.index + 1))
  BY <1>2 DEF TellsOf
<1>5. Named(listed[entry.index + 1]) \/ LedHere(entry.index + 1)
  BY <1>2, <1>4 DEF Concerns, Named, Clean
<1>6. QED BY <1>3, <1>4, <1>5 DEF About

(* What was said of the target is told of it, unless what tells of it        *)
(* spoils the comparison.                                                    *)
LEMMA SaidIsTold ==
  ASSUME Observing, facts.status = "ok", \A row \in facts.malformed : ~Spoils(row),
         NEW i \in About
  PROVE  i \in Nat /\ \E entry \in Matching : entry.index = i - 1
<1>1. listed \in Seq(ListRow) /\ Read = Len(listed) /\ Len(listed) \in Nat
  BY DEF Observing, RowsLeft, InOrder, Read
<1>2. i \in 1 .. Len(listed) /\ (Named(listed[i]) \/ LedHere(i)) /\ listed[i] \in ListRow
  BY <1>1 DEF About
<1>3. PICK one \in facts.entries \cup facts.malformed : one.index = i - 1
  BY <1>1, <1>2 DEF Observing, Told
<1>4. CASE one \in facts.entries
  <2>1. one.index + 1 = i
    BY <1>2, <1>3
  <2>2. TellsOf(one)
    BY <1>4 DEF Observing, Told
  <2>3. one.id = listed[i].id /\ (LedHere(i) <=> one.kind = "path" /\ one.root = SourceRoot)
    BY <2>1, <2>2 DEF TellsOf
  <2>4. QED BY <1>2, <1>3, <1>4, <2>3 DEF Matching, Concerns, Named
<1>5. CASE one \in facts.malformed
  <2>1. one.index + 1 = i
    BY <1>2, <1>3
  <2>2. SpoilsOf(one)
    BY <1>5 DEF Observing, Told
  <2>3. one.id = Readable(listed[i]) /\ (LedHere(i) => one.root = SourceRoot)
    BY <2>1, <2>2 DEF SpoilsOf
  <2>4. Spoils(one)
    BY <1>2, <2>3 DEF Named, Readable, Spoils
  <2>5. QED BY <1>5, <2>4
<1>6. QED BY <1>3, <1>4, <1>5

LEMMA VerdictIsTold ==
  ASSUME Observing, NEW age \in {"future", "fresh", "stale"}, NEW status, status = Compared(age)
  PROVE  /\ status \in Installed \cup {"absent"} => age = "fresh" /\ facts.status = "ok"
         /\ status = "absent" => About = {}
         /\ status = "duplicate" => Cardinality(About) > 1
         /\ status \in Installed =>
              \E i \in About : /\ About = {i} /\ Named(listed[i]) /\ Clean(listed[i])
                              /\ status = RowSays(i)
<1>1. CASE status \notin Installed \cup {"absent", "duplicate"}
  BY <1>1
<1>2. CASE status = "duplicate"
  <2>1. Cardinality(Matching) > 1
    BY <1>2 DEF Compared, StatusOf
  <2>2. Matching \subseteq facts.entries /\ IsFiniteSet(facts.entries)
        /\ \A one, other \in facts.entries : one.index = other.index => one = other
    BY DEF Matching, Observing, Told
  <2>3. PICK one, other \in Matching : one # other
    BY <2>1, <2>2, FS_Subset, MoreThanOne
  <2>4. /\ one.index + 1 \in About /\ other.index + 1 \in About
        /\ one.index \in Nat /\ other.index \in Nat
    BY ToldIsSaid
  <2>5. one.index + 1 # other.index + 1
    BY <2>2, <2>3, <2>4
  <2>6. IsFiniteSet(About)
    <3>1. About \subseteq 1 .. Len(listed) /\ Len(listed) \in Nat
      BY DEF About, Observing, RowsLeft
    <3>2. IsFiniteSet(1 .. Len(listed))
      BY <3>1, FS_Interval, 1 \in Int, Len(listed) \in Int
    <3>3. QED BY <3>1, <3>2, FS_Subset
  <2>7. QED BY <1>2, <2>4, <2>5, <2>6, TwoConcern DEF Installed
<1>3. CASE status \in Installed \cup {"absent"}
  <2>1. /\ facts.status = "ok" /\ age = "fresh"
        /\ \A row \in facts.malformed : ~Spoils(row)
        /\ ~(Cardinality(Matching) > 1)
        /\ \A entry \in Matching : ~OtherPlugin(entry)
        /\ IF Naming = {} THEN status = "absent"
           ELSE status = StatusOf(CHOOSE entry \in Naming : TRUE)
    BY <1>3 DEF Compared, Installed
  <2>2. Matching = Naming
    BY <2>1 DEF Matching, Naming, Concerns, OtherPlugin
  <2>3. CASE Naming = {}
    <3>1. About = {}
      BY <2>1, <2>2, <2>3, SaidIsTold
    <3>2. QED BY <2>1, <2>3, <3>1 DEF Installed
  <2>4. CASE Naming # {}
    <3>1. PICK entry \in Naming : status = StatusOf(entry)
      BY <2>1, <2>4
    <3> DEFINE i == entry.index + 1
    <3>2. /\ i \in About /\ Clean(listed[i]) /\ entry.index \in Nat /\ entry.id = listed[i].id
          /\ entry.kind = KindOf(listed[i])
          /\ entry.kind = "path" => (entry.root = SourceRoot <=> LedHere(i))
      BY <2>2, ToldIsSaid
    <3>3. Named(listed[i]) /\ listed[i] \in ListRow
      BY <3>2 DEF Named, Clean, Naming, About, Observing, RowsLeft
    <3>4. ASSUME NEW j \in About PROVE j = i
      <4>1. PICK other \in Matching : other.index = j - 1 /\ j \in Nat
        BY <2>1, SaidIsTold
      <4>2. IsFiniteSet(Matching)
        BY FS_Subset DEF Matching, Observing, Told
      <4>3. other = entry
        BY <2>1, <2>2, <4>2, TwoConcern
      <4>4. QED BY <3>2, <4>1, <4>3
    <3>5. listed[i].source \in {"path", "npm", "git", "builtin"}
      BY <3>3 DEF ListRow
    <3>6. status = RowSays(i) /\ status # "absent"
      <4> HIDE DEF i
      <4>1. KindOf(listed[i]) = "path" <=> listed[i].source = "path"
        BY <3>5 DEF KindOf
      <4>2. CASE listed[i].source = "path"
        BY <3>1, <3>2, <4>1, <4>2 DEF StatusOf, RowSays
      <4>3. CASE listed[i].source \in {"npm", "git"}
        BY <3>1, <3>2, <4>3 DEF StatusOf, RowSays, KindOf
      <4>4. CASE listed[i].source = "builtin"
        BY <3>1, <3>2, <4>4 DEF StatusOf, RowSays, KindOf
      <4>5. QED BY <3>5, <4>2, <4>3, <4>4
    <3>7. About = {i}
      BY <3>2, <3>4
    <3>8. age = "fresh" /\ facts.status = "ok" /\ status # "duplicate"
      BY <1>3, <2>1 DEF Installed
    <3>9. QED BY <3>2, <3>3, <3>6, <3>7, <3>8
  <2>5. QED BY <2>3, <2>4
<1>4. QED BY <1>1, <1>2, <1>3

LEMMA VerdictNext == Observing /\ VerdictTells /\ [Next]_vars => VerdictTells'
<1> SUFFICES ASSUME Observing, VerdictTells, [Next]_vars PROVE VerdictTells'
  OBVIOUS
<1>1. CASE UNCHANGED <<verdict, facts, listed, led>>
  <2>1. About' = About /\ \A i : RowSays(i)' = RowSays(i)
    BY <1>1 DEF About, RowSays, LedHere, Named
  <2>2. QED BY <1>1, <2>1 DEF VerdictTells, Named, Clean
<1>2. CASE verdict' = NoVerdict
  BY <1>2 DEF VerdictTells
<1>3. ASSUME NEW age \in {"future", "fresh", "stale"}, Reconcile(age)
      PROVE  VerdictTells'
  <2>1. /\ verdict' = [status |-> Compared(age), age |-> age]
        /\ UNCHANGED <<facts, listed, led>>
    BY <1>3 DEF Reconcile
  <2>2. PICK status : status = Compared(age)
    OBVIOUS
  <2>3. verdict'.status = status /\ verdict'.age = age
    BY <2>1, <2>2
  <2>4. About' = About /\ \A i : RowSays(i)' = RowSays(i)
    BY <2>1 DEF About, RowSays, LedHere, Named
  <2>5. QED BY <2>1, <2>2, <2>3, <2>4, VerdictIsTold DEF VerdictTells, Named, Clean
<1>4. CASE TakeAnswer
  <2>1. verdict = NoVerdict
    BY <1>4 DEF TakeAnswer, Settled, Observing, InOrder, Endings
  <2>2. verdict' = verdict
    BY <1>4 DEF TakeAnswer, CommandFailed, OutputUnreadable, OutputRead, Observe
  <2>3. QED BY <1>2, <2>1, <2>2
<1>5. CASE ReadInventory
  <2>1. CASE inventory = "spent"
    BY <1>1, <1>5, <2>1 DEF Observing, InOrder, Endings, ReadInventory, ReadList, ResolveFirst,
                           ReadRow, AllRead, Accept, Reading
  <2>2. CASE inventory # "spent"
    BY <1>2, <1>5, <2>2 DEF Observing, InOrder, ReadInventory, ReadList, ResolveFirst,
                           ReadRow, AllRead, Accept
  <2>3. QED BY <2>1, <2>2
<1>6. CASE WriteTarget
  BY <1>1, <1>3, <1>6 DEF WriteTarget, Refresh, WriteNative, native
<1>7. CASE TreeChanges \/ AdmitRoots \/ ScanRoots \/ HandOverCandidates \/ AskNative \/ RunCommand
           \/ UNCHANGED vars
  BY <1>1, <1>7 DEF TreeChanges, AdmitRoots, ScanRoots, HandOverCandidates, AskNative, RunCommand,
                    vars, native
<1>8. QED BY <1>4, <1>5, <1>6, <1>7 DEF Next

(* A target is said to be absent when no row is about it, ambiguous when   *)
(* several are, and installed from its own directory, from another one, as *)
(* a managed copy or as a builtin when one sound row, which names it, has  *)
(* it so; and the first and the last only of a list that was read in whole *)
(* and is of this time (reconcileNativeTarget).                            *)
THEOREM VerdictIsWhatWasSaid == Spec => []VerdictTells
<1>1. Observing /\ VerdictTells /\ [Next]_vars => (Observing /\ VerdictTells)'
  BY ObservingNext, VerdictNext
<1>2. QED BY <1>1, ObservingInit, PTL DEF Spec

------------------------------------------------------------------------------
(* Where things stand in the tree, and how often it was changed.             *)

Spent == scene.changes - changes

TreeOK ==
  /\ scene \in Scenes /\ changes \in Nat /\ changes <= scene.changes
  /\ top \in RootDirs \cup {Link, None}
  /\ inner \in [RootDirs -> PackageDirs \cup {Link, None}]
  /\ file \in [PackageDirs \cup {"xp"} -> Inodes \cup {Link, None}]
  /\ \A dir \in PackageDirs : file[dir] \in Files(dir) \cup {Link, None}
  /\ file["xp"] = "mx"
  /\ text \in [Inodes -> Texts]

(* The directories a root can lead to, by name.                              *)
Canonical == {"root", "pkg", "out", "outPkg"}
Reach(canonical) ==
  {canonical} \cup (IF canonical = "root" THEN {"pkg"}
                    ELSE IF canonical = "out" THEN {"outPkg"} ELSE {})

(* What the calls answer.                                                    *)
Marks == RootDirs \cup PackageDirs \cup Inodes \cup Canonical \cup {"x", "xp", Link, None}

RootsOK ==
  /\ inputs \in Seq([path : Places, key : STRING, flaw : STRING])
  /\ looked \in Seq(Marks)
  /\ Len(looked) >= 2 => looked[2] \in Canonical \cup {None}
  /\ roots \in Seq([key : STRING, canonical : Canonical])

(* A candidate that stands, or could: what was seen of it belongs together. *)
Sound(on) ==
  \/ on.path = "pkg" /\ on.dir \in PackageDirs /\ on.inode \in Files(on.dir)
  \/ on.path = "outPkg" /\ on.dir = "xp" /\ on.inode = "mx"

FoundDirs(path) == IF path = "pkg" THEN PackageDirs \cup {"xp"} ELSE {"xp"}
FoundFiles(path) == IF path = "pkg" THEN Inodes ELSE {"mx"}

CandidatesOK ==
  \A on \in candidates :
    /\ on.path \in {"pkg", "outPkg"}
    /\ on.dir \in FoundDirs(on.path) /\ on.inode \in FoundFiles(on.path)
    /\ ~Sound(on) => Spent >= 2

------------------------------------------------------------------------------
(* What the scan knows of the directory it is at.                            *)

Late == {"stable", "enter", "entries", "leave"}

Opened ==
  IF scan.step = "manifest" THEN IF Len(scan.seen) = 2 THEN {scan.seen[2]} ELSE {}
  ELSE IF scan.step \in {"declared", "issue"} THEN {scan.manifest[1]}
  ELSE IF scan.step \in Late /\ Len(scan.manifest) = 3 THEN {scan.manifest[2]} ELSE {}
Issued ==
  IF scan.step = "issue" THEN IF Len(scan.seen) = 1 THEN {scan.seen[1]} ELSE {}
  ELSE IF scan.step \in Late /\ Len(scan.manifest) = 3 THEN {scan.manifest[1]} ELSE {}

Answers == Marks \cup Texts

ScanShape ==
  /\ scan.queue \in Seq(Reach(scan.root.canonical))
  /\ scan.inside \in Seq(Reach(scan.root.canonical))
  /\ scan.seen \in Seq(Marks) /\ scan.attested \in Seq(Marks) /\ scan.manifest \in Seq(Answers)

ScanKnows ==
  /\ scan.root.canonical \in Canonical
  /\ scan.step \in {"attest", "manifest", "declared", "issue"} \cup Late
  /\ Len(scan.seen) < Len(CallsOf(scan.step))
  /\ scan.step # "attest" => Len(scan.attested) = 2
  /\ scan.step \in {"attest", "manifest"} => Len(scan.manifest) = 0
  /\ scan.step \in {"declared", "issue"} => Len(scan.manifest) = 2
  /\ scan.step \in Late => Len(scan.manifest) \in {0, 3}
  /\ Here \notin {"pkg", "outPkg"} =>
       /\ Len(scan.manifest) = 0
       /\ scan.step = "manifest" => Len(scan.seen) = 0
  /\ Here \in {"pkg", "outPkg"} =>
       Issued \subseteq FoundDirs(Here) /\ Opened \subseteq FoundFiles(Here)

ScanOK == ScanShape /\ (Scanning => ScanKnows)

(* What was seen does not belong together: the directory that was attested *)
(* is not the one that resolves, or the manifest or the last identity is    *)
(* another's.                                                               *)
Off ==
  \/ scan.attested[1] = "xp"
  \/ ~(Opened \subseteq Files(scan.attested[1]))
  \/ ~(Issued \subseteq {scan.attested[1]})

(* Then the name was given away, and back.                                  *)
ScanCost ==
  Scanning /\ Here = "pkg" =>
    /\ scan.step = "attest" /\ Len(scan.seen) = 1 =>
         /\ scan.seen[1] \in FoundDirs("pkg")
         /\ LStat("pkg") # scan.seen[1] => Spent >= 1
    /\ scan.step # "attest" =>
         /\ scan.attested[1] \in FoundDirs("pkg")
         /\ LStat("pkg") # scan.attested[1] => Spent >= 1
         /\ Off => Spent >= 1 /\ (LStat("pkg") = scan.attested[1] => Spent >= 2)
         /\ Off /\ scan.step = "stable" /\ Len(scan.seen) = 1 /\ scan.seen[1] = scan.attested[1]
              => Spent >= 2
         /\ Off /\ scan.step \in {"enter", "entries", "leave"} => Spent >= 2

------------------------------------------------------------------------------
(* What a caller has seen of its candidate.                                  *)

HandOf(caller) ==
  /\ Handing(caller) =>
       /\ hand[caller].seen \in Seq(Answers)
       /\ Len(hand[caller].seen) < Len(HandCalls(hand[caller].step))
       /\ HandAgrees(hand[caller].step, hand[caller].on, hand[caller].seen)
  /\ ~Handing(caller) => hand[caller].seen = <<>>

HandOK == \A caller \in Callers : HandOf(caller)

Base(step) == CASE step = "before" -> 2 [] step = "inspect" -> 4 [] step = "after" -> 6 [] OTHER -> 8
Opens(step) == IF step \in {"inspect", "validate"} THEN 5 ELSE 4

(* What shows that a candidate does not belong together. *)
Shown(step, on, seen) ==
  IF on.dir = "xp" THEN Len(seen) >= 2 /\ seen[1] = on.dir /\ seen[2] = on.path
  ELSE Len(seen) >= Opens(step) /\ seen[1] = on.dir /\ seen[Opens(step)] = on.inode

HandCost(step, on, seen) ==
  /\ Spent >= Base(step)
  /\ step \in {"before", "inspect", "after"} =>
       /\ Len(seen) >= 1 /\ seen[1] = on.dir /\ LStat(on.path) # on.dir => Spent >= Base(step) + 1
       /\ Shown(step, on, seen) =>
            Spent >= Base(step) + 1 /\ (LStat(on.path) = on.dir => Spent >= Base(step) + 2)
       /\ step # "inspect" /\ Shown(step, on, seen) /\ Len(seen) >= 6 /\ seen[6] = on.dir
            => Spent >= Base(step) + 2

CostOf(caller) ==
  LET now == hand[caller]
  IN  /\ now.step \in {"before", "inspect", "given", "validate", "written"}
           \/ (now.step = "after" /\ ~now.failed)
      /\ ~Sound(now.on)
      => HandCost(now.step, now.on, now.seen)

Costs == \A caller \in Callers : CostOf(caller)

(* And what shows that one that does was there.                              *)
HoldOf(caller) ==
  LET now == hand[caller]
      i == Opens(now.step)
  IN  Sound(now.on) =>
        /\ now.step \in {"given", "written"} => held[caller]
        /\ now.step \in Watched =>
             /\ Len(now.seen) >= i /\ now.seen[i] = now.on.inode
                  /\ text[now.on.inode] = now.on.said
                  => held[caller]
             /\ Len(now.seen) > i /\ now.seen[i] = now.on.inode /\ now.seen[i + 1] = now.on.said
                  => held[caller]

Holds == \A caller \in Callers : HoldOf(caller)

Placed == TreeOK /\ RootsOK /\ CandidatesOK /\ ScanOK /\ ScanCost
Owed == HandOK /\ Costs /\ Holds

------------------------------------------------------------------------------
(* The tree's answers.                                                       *)

LEMMA FixedNames ==
  /\ LStat("outPkg") = "xp" /\ LStat("out") = "x" /\ LStat("root") = top /\ LStat("spelled") = top
  /\ RealPath("outPkg") = "outPkg" /\ RealPath("out") = "out"
  /\ RealPath("root") \in {None, "out", "root"} /\ RealPath("spelled") \in {None, "out", "root"}
  BY DEF LStat, RealPath

LEMMA PkgName ==
  /\ LStat("pkg") = IF top \in RootDirs THEN inner[top] ELSE IF top = Link THEN "xp" ELSE None
  /\ RealPath("pkg") = IF LStat("pkg") = None THEN None
                       ELSE IF top = Link \/ LStat("pkg") = Link THEN "outPkg" ELSE "pkg"
<1>1. LStat("pkg") = IF top \in RootDirs THEN inner[top] ELSE IF top = Link THEN "xp" ELSE None
  BY DEF LStat
<1>2. RealPath("pkg") = IF LStat("pkg") = None THEN None
                       ELSE IF top = Link \/ LStat("pkg") = Link THEN "outPkg" ELSE "pkg"
  BY DEF RealPath
<1>3. QED BY <1>1, <1>2

LEMMA WhatFiles ==
  /\ Files("p1") = {"m1", "m3"} /\ Files("p2") = {"m2"} /\ Files("xp") = {"mx"}
  BY DEF Files

LEMMA PkgFacts ==
  ASSUME TreeOK
  PROVE  /\ LStat("pkg") \in PackageDirs \cup {"xp", Link, None}
         /\ RealPath("pkg") \in {"pkg", "outPkg", None}
         /\ RealPath("pkg") = "pkg" => LStat("pkg") \in PackageDirs
         /\ LStat("pkg") \in PackageDirs => RealPath("pkg") = "pkg"
<1>1. top \in {"r1", "r2", "link", "none"} /\ inner \in [RootDirs -> PackageDirs \cup {Link, None}]
  BY DEF TreeOK, RootDirs, Link, None
<1>2. CASE top \in RootDirs
  <2>1. inner[top] \in PackageDirs \cup {Link, None} /\ LStat("pkg") = inner[top] /\ top # Link
    BY <1>1, <1>2, PkgName DEF RootDirs, Link
  <2>2. QED BY <2>1, PkgName DEF PackageDirs, Link, None
<1>3. CASE top \notin RootDirs
  BY <1>1, <1>3, PkgName DEF RootDirs, PackageDirs, Link, None
<1>4. QED BY <1>2, <1>3

LEMMA ManifestFacts ==
  ASSUME TreeOK
  PROVE  /\ LStatManifest("root") = None /\ LStatManifest("out") = None
         /\ LStatManifest("outPkg") = "mx"
         /\ LStatManifest("pkg") \in Inodes \cup {Link, None}
         /\ LStatManifest("pkg") \in Inodes =>
              \/ LStat("pkg") \in PackageDirs /\ LStatManifest("pkg") \in Files(LStat("pkg"))
              \/ LStat("pkg") \notin PackageDirs /\ LStatManifest("pkg") = "mx"
<1>1. DOMAIN file = {"p1", "p2", "xp"} /\ file["xp"] = "mx" /\ top \in {"r1", "r2", "link", "none"}
  BY DEF TreeOK, PackageDirs, RootDirs, Link, None
<1>2. LStatManifest("root") = None
  <2>1. LeadsTo("root") \in {"r1", "r2", "none", "x"}
    BY <1>1, FixedNames DEF LeadsTo, Link
  <2>2. QED BY <1>1, <2>1 DEF LStatManifest
<1>3. LStatManifest("out") = None
  BY <1>1, FixedNames DEF LStatManifest, LeadsTo, Link
<1>4. LStatManifest("outPkg") = "mx"
  BY <1>1, FixedNames DEF LStatManifest, LeadsTo, Link
<1>5. LeadsTo("pkg") = IF LStat("pkg") = Link THEN "xp" ELSE LStat("pkg")
  BY DEF LeadsTo
<1>6. LStat("pkg") \in {"p1", "p2", "xp", "link", "none"}
  BY PkgFacts DEF PackageDirs, Link, None
<1>7. CASE LStat("pkg") \in PackageDirs
  <2>1. LStatManifest("pkg") = file[LStat("pkg")]
    BY <1>1, <1>5, <1>7 DEF LStatManifest, PackageDirs, Link
  <2>2. file[LStat("pkg")] \in Files(LStat("pkg")) \cup {Link, None}
    BY <1>7 DEF TreeOK
  <2>3. Files(LStat("pkg")) \subseteq Inodes /\ Link \notin Inodes /\ None \notin Inodes
    BY <1>7, WhatFiles DEF PackageDirs, Inodes, Link, None
  <2>4. QED BY <1>2, <1>3, <1>4, <1>7, <2>1, <2>2, <2>3
<1>8. CASE LStat("pkg") \notin PackageDirs
  <2>1. LStatManifest("pkg") \in {"mx", None}
    BY <1>1, <1>5, <1>6, <1>8 DEF LStatManifest, PackageDirs, Link, None
  <2>2. QED BY <1>2, <1>3, <1>4, <1>8, <2>1 DEF Inodes, None
<1>9. QED BY <1>7, <1>8

LEMMA Disjoint ==
  ASSUME NEW dir \in PackageDirs \cup {"xp"}, NEW other \in PackageDirs \cup {"xp"},
         NEW inode, inode \in Files(dir), inode \in Files(other)
  PROVE  dir = other
  BY WhatFiles DEF PackageDirs

(* A manifest that is another directory's is not found in this one.         *)
LEMMA ManifestElsewhere ==
  ASSUME TreeOK, NEW dir \in PackageDirs, LStatManifest("pkg") \in Inodes,
         LStatManifest("pkg") \notin Files(dir)
  PROVE  LStat("pkg") # dir
  BY ManifestFacts

(* One that belongs to the directory is found only where that stands.       *)
LEMMA ManifestHere ==
  ASSUME TreeOK, NEW on, Sound(on), LStatManifest(on.path) = on.inode
  PROVE  RealPath(on.path) = on.path /\ LStat(on.path) = on.dir
<1>1. CASE on.path = "outPkg"
  BY <1>1, FixedNames DEF Sound
<1>2. CASE on.path # "outPkg"
  <2>1. on.path = "pkg" /\ on.dir \in PackageDirs /\ on.inode \in Files(on.dir)
    BY <1>2 DEF Sound
  <2>2. on.inode \in Inodes /\ on.inode # "mx"
    BY <2>1, WhatFiles DEF PackageDirs, Inodes
  <2>3. LStat("pkg") \in PackageDirs /\ on.inode \in Files(LStat("pkg"))
    BY <2>1, <2>2, ManifestFacts
  <2>4. LStat("pkg") = on.dir
    BY <2>1, <2>3, Disjoint
  <2>5. QED BY <2>1, <2>3, <2>4, PkgFacts
<1>3. QED BY <1>1, <1>2

(* The tree is changed, or not.                                              *)
LEMMA TreeStands ==
  ASSUME UNCHANGED <<tree, scene>>
  PROVE  /\ TreeOK => TreeOK'
         /\ Spent' = Spent /\ text' = text
         /\ LStat("pkg")' = LStat("pkg")
<1>1. /\ top' = top /\ inner' = inner /\ file' = file /\ text' = text /\ changes' = changes
      /\ scene' = scene
  BY DEF tree
<1>2. TreeOK => TreeOK'
  BY <1>1 DEF TreeOK
<1>3. LStat("pkg")' = LStat("pkg")
  BY <1>1 DEF LStat
<1>4. QED BY <1>1, <1>2, <1>3 DEF Spent

LEMMA TreeMoves ==
  ASSUME TreeOK, ChangeTree, scene' = scene
  PROVE  TreeOK' /\ Spent \in Nat /\ Spent' = Spent + 1
<1>1. changes' \in Nat /\ changes' <= scene'.changes /\ scene' \in Scenes
      /\ Spent \in Nat /\ Spent' = Spent + 1
  BY ScenesAssumption DEF TreeOK, ChangeTree, MoveRoot, MovePackage, ReplaceManifest, EditManifest,
                          Changed, Spent
<1>2. CASE MoveRoot
  BY <1>1, <1>2 DEF TreeOK, MoveRoot
<1>3. CASE MovePackage
  <2>1. PICK found \in PackageDirs \cup {Link, None} :
          inner' = [dir \in RootDirs |->
                      IF dir = top THEN found
                      ELSE IF inner[dir] = found /\ IsDirectory(found) THEN None
                      ELSE inner[dir]]
    BY <1>3 DEF MovePackage
  <2>2. inner' \in [RootDirs -> PackageDirs \cup {Link, None}]
    BY <2>1 DEF TreeOK
  <2>3. QED BY <1>1, <1>3, <2>2 DEF TreeOK, MovePackage
<1>4. CASE ReplaceManifest
  <2>1. PICK found \in Files(inner[top]) \cup {Link, None} :
          file' = [file EXCEPT ![inner[top]] = found]
    BY <1>4 DEF ReplaceManifest
  <2>2. inner[top] \in PackageDirs /\ inner[top] # "xp"
    BY <1>4 DEF ReplaceManifest, Standing, PackageDirs
  <2>3. Files(inner[top]) \subseteq Inodes
    BY <2>2, WhatFiles DEF PackageDirs, Inodes
  <2>4. /\ file' \in [PackageDirs \cup {"xp"} -> Inodes \cup {Link, None}]
        /\ \A dir \in PackageDirs : file'[dir] \in Files(dir) \cup {Link, None}
        /\ file'["xp"] = "mx"
    BY <2>1, <2>2, <2>3 DEF TreeOK
  <2>5. QED BY <1>1, <1>4, <2>4 DEF TreeOK, ReplaceManifest
<1>5. CASE EditManifest
  <2>1. text' \in [Inodes -> Texts]
    BY <1>5 DEF EditManifest, TreeOK
  <2>2. QED BY <1>1, <1>5, <2>1 DEF TreeOK, EditManifest
<1>6. QED BY <1>2, <1>3, <1>4, <1>5 DEF ChangeTree

(* A manifest is given its text back where it is looked for.                *)
LEMMA TextIsGivenBack ==
  ASSUME TreeOK, ChangeTree, scene' = scene, NEW on, Sound(on),
         text[on.inode] # on.said, text'[on.inode] = on.said
  PROVE  Vouched(on)'
<1>1. EditManifest
  BY DEF ChangeTree, MoveRoot, MovePackage, ReplaceManifest
<1> DEFINE dir == inner[top]
<1>2. /\ top \in RootDirs /\ dir \in PackageDirs
      /\ top' = top /\ inner' = inner /\ file' = file
  BY <1>1 DEF EditManifest, Standing
<1>3. \E said : text' = [text EXCEPT ![file[dir]] = said]
  BY <1>1 DEF EditManifest
<1>4. on.inode = file[dir] /\ file[dir] \in Inodes
  BY <1>1, <1>3 DEF EditManifest, TreeOK
<1>5. file[dir] \in Files(dir)
  BY <1>2, <1>4 DEF TreeOK, Inodes, Link, None
<1>6. on.path = "pkg" /\ on.dir = dir
  BY <1>2, <1>4, <1>5, WhatFiles, Disjoint DEF Sound, PackageDirs
<1>7. LStat("pkg")' = dir
  BY <1>2 DEF LStat
<1>8. RealPath("pkg")' = "pkg"
  BY <1>2, <1>7 DEF RealPath, RootDirs, PackageDirs, Link, None
<1>9. LStatManifest("pkg")' = file[dir]
  BY <1>2, <1>7 DEF LStatManifest, LeadsTo, PackageDirs, Link, TreeOK
<1>10. QED BY <1>4, <1>6, <1>7, <1>8, <1>9 DEF Vouched

------------------------------------------------------------------------------
(* Roots are admitted under names that are known.                            *)

LEMMA PlaceAnswers ==
  ASSUME TreeOK, NEW path \in Places
  PROVE  LStat(path) \in Marks /\ RealPath(path) \in Canonical \cup {None}
<1>1. top \in Marks
  BY DEF TreeOK, Marks
<1>2. LStat("pkg") \in Marks
  BY PkgFacts DEF Marks
<1>3. QED BY <1>1, <1>2, FixedNames, PkgFacts DEF Places, Canonical, Marks

LEMMA AdmitKeepsRoots ==
  ASSUME TreeOK, RootsOK, Admit
  PROVE  RootsOK'
<1> DEFINE Inputs == [path : Places, key : STRING, flaw : STRING]
           Roots == [key : STRING, canonical : Canonical]
           path == Head(inputs).path
<1>1. /\ inputs \in Seq(Inputs) /\ looked \in Seq(Marks) /\ roots \in Seq(Roots)
      /\ Len(looked) >= 2 => looked[2] \in Canonical \cup {None}
      /\ inputs # <<>>
  BY DEF RootsOK, Admit, RejectInput, LookAtRoot, DecideRoot
<1>2. Head(inputs) \in Inputs /\ Tail(inputs) \in Seq(Inputs) /\ Len(looked) \in Nat
  <2> HIDE DEF Inputs
  <2>1. QED BY <1>1
<1>3. path \in Places /\ Head(inputs).key \in STRING
  BY <1>2
<1>4. LStat(path) \in Marks /\ RealPath(path) \in Canonical \cup {None} /\ RealPath(path) \in Marks
  BY <1>3, PlaceAnswers DEF Marks
<1> HIDE DEF Inputs, Roots
<1>4a. /\ Looking = IF Len(looked) % 2 = 0 THEN LStat(path) ELSE RealPath(path)
       /\ Looking \in Marks
  BY <1>4 DEF Looking
<1>5. ASSUME NEW why, Dismiss(why) PROVE RootsOK'
  BY <1>1, <1>2, <1>5 DEF Dismiss, RootsOK, Inputs, Roots
<1>6. ASSUME looked' = Append(looked, Looking), UNCHANGED <<inputs, roots>>
      PROVE  RootsOK'
  <2>1. /\ looked' \in Seq(Marks) /\ Len(looked') = Len(looked) + 1
        /\ looked'[Len(looked) + 1] = Looking
        /\ \A i \in 1 .. Len(looked) : looked'[i] = looked[i]
    BY <1>1, <1>6, <1>4a
  <2>2. Len(looked') >= 2 => looked'[2] \in Canonical \cup {None}
    <3>1. CASE Len(looked) = 1
      BY <1>4, <1>4a, <2>1, <3>1
    <3>2. CASE Len(looked) >= 2
      <4>1. 2 \in 1 .. Len(looked)
        BY <1>2, <3>2
      <4>2. QED BY <1>1, <2>1, <3>2, <4>1
    <3>3. CASE Len(looked) = 0
      BY <2>1, <3>3
    <3>4. Len(looked) = 0 \/ Len(looked) = 1 \/ Len(looked) >= 2
      <4>1. \A n \in Nat : n = 0 \/ n = 1 \/ n >= 2
        OBVIOUS
      <4>2. QED BY <1>2, <4>1
    <3>5. QED BY <3>1, <3>2, <3>3, <3>4
  <2>3. QED BY <1>1, <1>6, <2>1, <2>2 DEF RootsOK, Inputs, Roots
<1>7. CASE RejectInput
  BY <1>5, <1>7 DEF RejectInput
<1>8. CASE LookAtRoot
  BY <1>5, <1>6, <1>8 DEF LookAtRoot
<1>9. CASE DecideRoot
  <2> DEFINE seen == Append(looked, Looking)
             key == Head(inputs).key
  <2>1. Len(looked) = 3
    BY <1>9 DEF DecideRoot
  <2>2. seen[2] = looked[2]
    <3>1. 2 \in 1 .. Len(looked)
      BY <2>1
    <3>2. QED BY <1>1, <1>4a, <3>1
  <2> HIDE DEF seen
  <2>3. ASSUME SameRoot(seen), Trust(key, seen[2]) PROVE RootsOK'
    <3>1. seen[2] \in Canonical
      BY <1>1, <2>1, <2>2, <2>3 DEF SameRoot
    <3>2. [key |-> key, canonical |-> seen[2]] \in Roots
      BY <1>3, <3>1 DEF Roots
    <3>3. roots' \in Seq(Roots) /\ inputs' = Tail(inputs) /\ looked' = <<>>
      BY <1>1, <2>3, <3>2 DEF Trust
    <3>4. QED BY <1>2, <3>3 DEF RootsOK, Inputs, Roots
  <2>4. ASSUME Alias(key, seen[2]) PROVE RootsOK'
    BY <1>1, <1>2, <2>4 DEF Alias, RootsOK, Inputs, Roots
  <2>5. QED
    <3>1. \/ \E why : Dismiss(why)
          \/ Alias(key, seen[2])
          \/ SameRoot(seen) /\ Trust(key, seen[2])
      BY <1>9 DEF DecideRoot, seen
    <3>2. QED BY <1>5, <2>3, <2>4, <3>1
<1>10. QED BY <1>7, <1>8, <1>9 DEF Admit

------------------------------------------------------------------------------
(* The scan.                                                                 *)

Attesting == {"attest", "issue", "stable", "enter", "leave"}

LEMMA CallsAre ==
  /\ \A step \in Attesting : CallsOf(step) = <<"lstat", "realpath">>
  /\ CallsOf("manifest") = <<"leaf", "open", "read">>
  /\ CallsOf("declared") = <<"realpath", "realpath">>
  /\ CallsOf("entries") = <<"readdir">>
  BY DEF CallsOf, Attesting, Attest, Snapshot

LEMMA AsksAre ==
  ASSUME NEW path, NEW seen
  PROVE  /\ Ask("lstat", path, seen) = LStat(path) /\ Ask("realpath", path, seen) = RealPath(path)
         /\ Ask("leaf", path, seen) = LStatManifest(path)
         /\ Ask("open", path, seen) = LStatManifest(path)
         /\ Ask("settle", path, seen) = LStatManifest(path)
         /\ Ask("read", path, seen) = text[seen[Len(seen)]]
         /\ Ask("readdir", path, seen) = Inside(path)
  BY DEF Ask

(* Where the scan can be.                                                    *)
LEMMA HereIs ==
  ASSUME ScanOK, Scanning
  PROVE  /\ Here \in Canonical
         /\ Tail(scan.queue) \in Seq(Reach(scan.root.canonical))
         /\ Here = "pkg" => scan.root.canonical \in {"root", "pkg"}
         /\ Here = "root" => scan.root.canonical = "root"
         /\ Here = "out" => scan.root.canonical = "out"
<1> DEFINE R == Reach(scan.root.canonical)
<1>1. scan.queue \in Seq(R) /\ scan.queue # <<>> /\ scan.root.canonical \in Canonical
  BY DEF ScanOK, ScanShape, ScanKnows, Scanning
<1>2. Here \in R /\ Tail(scan.queue) \in Seq(R)
  <2> HIDE DEF R
  <2>1. QED BY <1>1 DEF Here
<1>3. QED BY <1>1, <1>2 DEF Reach, Canonical

LEMMA HereAnswers ==
  ASSUME TreeOK, ScanOK, Scanning
  PROVE  /\ LStat(Here) \in Marks /\ RealPath(Here) \in Marks /\ LStatManifest(Here) \in Marks
         /\ Here \notin {"pkg", "outPkg"} => LStatManifest(Here) = None
         /\ Here \in {"pkg", "outPkg"} /\ IsDirectory(LStat(Here)) => LStat(Here) \in FoundDirs(Here)
         /\ Here \in {"pkg", "outPkg"} /\ IsFile(LStatManifest(Here)) =>
              LStatManifest(Here) \in FoundFiles(Here)
<1>1. Here \in Canonical /\ Canonical \subseteq Places
  BY HereIs DEF Canonical, Places
<1>2. LStat(Here) \in Marks /\ RealPath(Here) \in Marks
  BY <1>1, PlaceAnswers DEF Marks
<1>3. CASE Here = "pkg"
  BY <1>2, <1>3, ManifestFacts, PkgFacts DEF FoundDirs, FoundFiles, Marks, IsDirectory, IsFile
<1>4. CASE Here = "outPkg"
  BY <1>2, <1>4, ManifestFacts, FixedNames DEF FoundDirs, FoundFiles, Marks, Inodes
<1>5. CASE Here \in {"root", "out"}
  BY <1>2, <1>5, ManifestFacts DEF Marks
<1>6. QED BY <1>1, <1>3, <1>4, <1>5 DEF Canonical

(* What is seen next.                                                        *)
LEMMA SeeingIs ==
  ASSUME TreeOK, ScanOK, Scanning
  PROVE  /\ scan.step \in Attesting =>
              /\ Len(scan.seen) \in {0, 1}
              /\ Len(scan.seen) = 0 => Seeing = Append(scan.seen, LStat(Here))
              /\ Len(scan.seen) = 1 => Seeing = Append(scan.seen, RealPath(Here))
         /\ scan.step = "manifest" =>
              /\ Len(scan.seen) \in {0, 1, 2}
              /\ Len(scan.seen) < 2 => Seeing = Append(scan.seen, LStatManifest(Here))
              /\ Len(scan.seen) = 2 => Seeing = Append(scan.seen, text[scan.seen[2]])
         /\ scan.step = "declared" =>
              Len(scan.seen) \in {0, 1} /\ Seeing = Append(scan.seen, RealPath(Here))
         /\ scan.step = "entries" =>
              Len(scan.seen) = 0 /\ Seeing = Append(scan.seen, Inside(Here))
<1> DEFINE n == Len(scan.seen)
<1>1. n \in Nat /\ n < Len(CallsOf(scan.step))
  BY DEF ScanOK, ScanShape, ScanKnows
<1>2. CASE scan.step \in Attesting
  <2>1. CallsOf(scan.step) = <<"lstat", "realpath">> /\ n \in {0, 1}
    <3>1. CallsOf(scan.step) = <<"lstat", "realpath">>
      BY <1>2, CallsAre
    <3>2. Len(CallsOf(scan.step)) = 2
      BY <3>1
    <3>3. \A k \in Nat : (k < 2 => k \in {0, 1}) /\ (k < 3 => k \in {0, 1, 2})
      OBVIOUS
    <3>4. n \in Nat
      BY <1>1
    <3>5. QED BY <1>1, <3>1, <3>2, <3>3, <3>4
  <2>2. n = 0 => CallsOf(scan.step)[n + 1] = "lstat"
    BY <2>1
  <2>3. n = 1 => CallsOf(scan.step)[n + 1] = "realpath"
    BY <2>1
  <2>4. QED BY <1>2, <2>1, <2>2, <2>3, AsksAre DEF Seeing, Attesting
<1>3. CASE scan.step = "manifest"
  <2>1. CallsOf(scan.step) = <<"leaf", "open", "read">> /\ n \in {0, 1, 2}
    <3>1. CallsOf(scan.step) = <<"leaf", "open", "read">>
      BY <1>3, CallsAre
    <3>2. Len(CallsOf(scan.step)) = 3
      BY <3>1
    <3>3. \A k \in Nat : (k < 2 => k \in {0, 1}) /\ (k < 3 => k \in {0, 1, 2})
      OBVIOUS
    <3>4. n \in Nat
      BY <1>1
    <3>5. QED BY <1>1, <3>1, <3>2, <3>3, <3>4
  <2>2. n < 2 => CallsOf(scan.step)[n + 1] \in {"leaf", "open"}
    BY <2>1
  <2>3. n = 2 => CallsOf(scan.step)[n + 1] = "read"
    BY <2>1
  <2>4. QED BY <1>3, <2>1, <2>2, <2>3, AsksAre DEF Seeing, Attesting
<1>4. CASE scan.step = "declared"
  <2>1. CallsOf(scan.step) = <<"realpath", "realpath">> /\ n \in {0, 1}
    <3>1. CallsOf(scan.step) = <<"realpath", "realpath">>
      BY <1>4, CallsAre
    <3>2. Len(CallsOf(scan.step)) = 2
      BY <3>1
    <3>3. \A k \in Nat : (k < 2 => k \in {0, 1}) /\ (k < 3 => k \in {0, 1, 2})
      OBVIOUS
    <3>4. n \in Nat
      BY <1>1
    <3>5. QED BY <1>1, <3>1, <3>2, <3>3, <3>4
  <2>2. n = 0 => CallsOf(scan.step)[n + 1] = "realpath"
    BY <2>1
  <2>3. n = 1 => CallsOf(scan.step)[n + 1] = "realpath"
    BY <2>1
  <2>4. CallsOf(scan.step)[n + 1] = "realpath"
    BY <2>1, <2>2, <2>3
  <2>5. QED BY <1>4, <2>1, <2>4, AsksAre DEF Seeing, Attesting
<1>5. CASE scan.step = "entries"
  <2>1. CallsOf(scan.step) = <<"readdir">>
    BY <1>5, CallsAre
  <2>2. Len(CallsOf(scan.step)) = 1 /\ CallsOf(scan.step)[1] = "readdir"
    BY <2>1
  <2>3. n = 0
    BY <1>1, <2>2
  <2>4. QED BY <1>5, <2>2, <2>3, AsksAre DEF Seeing, Attesting
<1>6. QED BY <1>2, <1>3, <1>4, <1>5 DEF ScanOK, ScanShape, ScanKnows, Attesting

(* The scan goes to another directory.                                       *)
LEMMA FreshScan ==
  ASSUME NEW root, NEW done, NEW queue \in Seq(Reach(root.canonical)),
         root.canonical \in Canonical, scan' = At(root, done, queue)
  PROVE  ScanOK' /\ ScanCost'
<1>1. /\ scan'.root = root /\ scan'.queue = queue /\ scan'.step = "attest" /\ scan'.seen = <<>>
      /\ scan'.attested = <<>> /\ scan'.manifest = <<>> /\ scan'.inside = <<>>
  BY DEF At
<1>2. Opened' = {} /\ Issued' = {}
  BY <1>1 DEF Opened, Issued, Late
<1>3. CallsOf("attest") = <<"lstat", "realpath">>
  BY CallsAre DEF Attesting
<1>4. ScanOK'
  <2>1. Len(scan'.seen) = 0 /\ Len(scan'.manifest) = 0 /\ Len(CallsOf(scan'.step)) = 2
    BY <1>1, <1>3
  <2>2. /\ scan'.queue \in Seq(Reach(scan'.root.canonical))
        /\ scan'.inside \in Seq(Reach(scan'.root.canonical))
        /\ scan'.seen \in Seq(Marks) /\ scan'.attested \in Seq(Marks) /\ scan'.manifest \in Seq(Answers)
    BY <1>1
  <2>3. Issued' \subseteq FoundDirs(Here') /\ Opened' \subseteq FoundFiles(Here')
    BY <1>2
  <2>4. ScanKnows'
    <3>1. scan'.root.canonical \in Canonical /\ scan'.step = "attest"
      BY <1>1
    <3>2. QED BY <2>1, <2>3, <3>1 DEF ScanKnows, Late
  <2>5. QED BY <2>2, <2>4 DEF ScanOK, ScanShape
<1>5. ScanCost'
  BY <1>1 DEF ScanCost
<1>6. QED BY <1>4, <1>5

(* It goes on in this one.                                                   *)
LEMMA SameDirectoryStill ==
  ASSUME Scanning, NEW step, NEW seen, NEW attested, NEW manifest, NEW inside,
         Scans(step, seen, attested, manifest, inside)
  PROVE  /\ scan'.root = scan.root /\ scan'.queue = scan.queue /\ scan'.step = step
         /\ scan'.seen = seen /\ scan'.attested = attested /\ scan'.manifest = manifest
         /\ scan'.inside = inside /\ Here' = Here /\ Scanning'
  BY DEF Scans, Here, Scanning

Keeps == ScanOK' /\ ScanCost'

LEMMA Appended ==
  ASSUME NEW S, NEW s \in Seq(S), NEW x \in S
  PROVE  /\ Append(s, x) \in Seq(S) /\ Len(Append(s, x)) = Len(s) + 1
         /\ Append(s, x)[Len(s) + 1] = x
         /\ \A i \in 1 .. Len(s) : Append(s, x)[i] = s[i]
  OBVIOUS

LEMMA SeeingGrows ==
  ASSUME ScanOK, Scanning, NEW x \in Answers, Seeing = Append(scan.seen, x)
  PROVE  /\ x \in Marks => Seeing \in Seq(Marks)
         /\ Len(scan.seen) = 0 => Len(Seeing) = 1 /\ Seeing[1] = x
         /\ Len(scan.seen) = 1 => Len(Seeing) = 2 /\ Seeing[2] = x /\ Seeing[1] = scan.seen[1]
         /\ Len(scan.seen) = 2 => Len(Seeing) = 3 /\ Seeing[3] = x /\ Seeing[2] = scan.seen[2]
<1>1. scan.seen \in Seq(Marks) /\ scan.seen \in Seq(Answers)
  BY DEF ScanOK, ScanShape, Answers
<1>2. x \in Marks => Seeing \in Seq(Marks)
  BY <1>1, Appended
<1>3. /\ Len(Seeing) = Len(scan.seen) + 1 /\ Seeing[Len(scan.seen) + 1] = x
      /\ \A i \in 1 .. Len(scan.seen) : Seeing[i] = scan.seen[i]
  BY <1>1, Appended
<1>4. Len(scan.seen) = 0 => Len(Seeing) = 1 /\ Seeing[1] = x
  BY <1>3
<1>5. ASSUME Len(scan.seen) = 1
      PROVE  Len(Seeing) = 2 /\ Seeing[2] = x /\ Seeing[1] = scan.seen[1]
  <2>1. 1 \in 1 .. Len(scan.seen)
    BY <1>5
  <2>2. QED BY <1>3, <1>5, <2>1
<1>6. ASSUME Len(scan.seen) = 2
      PROVE  Len(Seeing) = 3 /\ Seeing[3] = x /\ Seeing[2] = scan.seen[2]
  <2>1. 2 \in 1 .. Len(scan.seen)
    BY <1>6
  <2>2. QED BY <1>3, <1>6, <2>1
<1>7. QED BY <1>2, <1>4, <1>5, <1>6

(* A call that does not end its step, and one that does.                     *)
LEMMA CallOrStep ==
  ASSUME Len(Seeing) \in Nat, Len(CallsOf(scan.step)) \in Nat, ScanCall \/ ScanStep
  PROVE  /\ Len(Seeing) < Len(CallsOf(scan.step)) => ScanCall
         /\ Len(Seeing) = Len(CallsOf(scan.step)) => ScanStep
<1>1. ScanCall => Len(Seeing) < Len(CallsOf(scan.step))
  BY DEF ScanCall
<1>2. ScanStep => Len(Seeing) = Len(CallsOf(scan.step))
  BY DEF ScanStep
<1>3. QED BY <1>1, <1>2

(* The first look at a directory that is, or will be, attested, and the     *)
(* steps that end by it.                                                     *)
LEMMA AttestKeeps ==
  ASSUME TreeOK, ScanOK, ScanCost, Scanning, UNCHANGED <<tree, scene>>,
         scan.step = "attest", Agrees(Seeing), ScanCall \/ ScanStep
  PROVE  Keeps
<1>1. /\ scan.attested \in Seq(Marks) /\ scan.manifest \in Seq(Answers)
      /\ scan.inside \in Seq(Reach(scan.root.canonical))
      /\ scan.queue \in Seq(Reach(scan.root.canonical)) /\ scan.seen \in Seq(Marks)
      /\ Len(scan.manifest) = 0 /\ scan.root.canonical \in Canonical
  BY DEF ScanOK, ScanShape, ScanKnows
<1>2. CallsOf("attest") = <<"lstat", "realpath">> /\ CallsOf("manifest") = <<"leaf", "open", "read">>
  BY CallsAre DEF Attesting
<1>3. Len(CallsOf("attest")) = 2 /\ Len(CallsOf("manifest")) = 3 /\ Len(CallsOf(scan.step)) = 2
  BY <1>2
<1>4. Attests(scan.root.canonical, Seeing, <<>>)
  BY DEF Agrees, ScanRoot
<1>5. Spent' = Spent /\ LStat("pkg")' = LStat("pkg")
  BY TreeStands
<1>6. CASE Len(scan.seen) = 0
  <2>1. Seeing = Append(scan.seen, LStat(Here)) /\ LStat(Here) \in Marks
    BY <1>6, SeeingIs, HereAnswers DEF Attesting
  <2>2. Seeing \in Seq(Marks) /\ Len(Seeing) = 1 /\ Seeing[1] = LStat(Here)
    BY <1>6, <2>1, SeeingGrows DEF Answers
  <2>3. ScanCall
    <3>1. Len(Seeing) \in Nat /\ Len(CallsOf(scan.step)) \in Nat
      BY <1>3, <2>2
    <3>2. QED BY <1>3, <2>2, <3>1, CallOrStep
  <2>4. Scans(scan.step, Seeing, scan.attested, scan.manifest, scan.inside)
    BY <2>3 DEF ScanCall
  <2>5. /\ scan'.root = scan.root /\ scan'.queue = scan.queue /\ scan'.step = "attest"
        /\ scan'.seen = Seeing /\ scan'.attested = scan.attested /\ scan'.manifest = scan.manifest
        /\ scan'.inside = scan.inside /\ Here' = Here /\ Scanning'
    BY <2>4, SameDirectoryStill
  <2>6. ScanShape'
    BY <1>1, <2>2, <2>5 DEF ScanShape
  <2>7. ScanKnows'
    <3>1. Issued' = {} /\ Opened' = {}
      BY <2>5 DEF Issued, Opened, Late
    <3>2. Len(scan'.seen) = 1 /\ Len(CallsOf(scan'.step)) = 2 /\ Len(scan'.manifest) = 0
      BY <1>1, <1>3, <2>2, <2>5
    <3>3. scan'.root.canonical \in Canonical /\ scan'.step = "attest"
      BY <1>1, <2>5
    <3>4. QED BY <3>1, <3>2, <3>3 DEF ScanKnows, Late
  <2>8. Here = "pkg" => Seeing[1] \in FoundDirs("pkg") /\ LStat("pkg") = Seeing[1]
    BY <1>4, <2>2, HereAnswers DEF Attests
  <2>9. ScanCost'
    BY <1>5, <2>5, <2>8 DEF ScanCost
  <2>10. QED BY <2>6, <2>7, <2>9 DEF Keeps, ScanOK
<1>7. CASE Len(scan.seen) = 1
  <2>1. Seeing = Append(scan.seen, RealPath(Here)) /\ RealPath(Here) \in Marks
    BY <1>7, SeeingIs, HereAnswers DEF Attesting
  <2>2. Seeing \in Seq(Marks) /\ Len(Seeing) = 2 /\ Seeing[2] = RealPath(Here)
        /\ Seeing[1] = scan.seen[1]
    BY <1>7, <2>1, SeeingGrows DEF Answers
  <2>3. ScanStep
    <3>1. Len(Seeing) \in Nat /\ Len(CallsOf(scan.step)) \in Nat
      BY <1>3, <2>2
    <3>2. QED BY <1>3, <2>2, <3>1, CallOrStep
  <2>4. Scans("manifest", <<>>, Seeing, scan.manifest, scan.inside)
    BY <2>3 DEF ScanStep, After
  <2>5. /\ scan'.root = scan.root /\ scan'.queue = scan.queue /\ scan'.step = "manifest"
        /\ scan'.seen = <<>> /\ scan'.attested = Seeing /\ scan'.manifest = scan.manifest
        /\ scan'.inside = scan.inside /\ Here' = Here /\ Scanning'
    BY <2>4, SameDirectoryStill
  <2>6. ScanShape'
    <3>1. scan'.seen \in Seq(Marks)
      BY <2>5
    <3>2. QED BY <1>1, <2>2, <2>5, <3>1 DEF ScanShape
  <2>7. Len(scan'.seen) = 0 /\ Len(CallsOf(scan'.step)) = 3 /\ Len(scan'.manifest) = 0
        /\ Len(scan'.attested) = 2
    BY <1>1, <1>3, <2>2, <2>5
  <2>8. Issued' = {} /\ Opened' = {}
    BY <2>5, <2>7 DEF Issued, Opened, Late
  <2>9. ScanKnows'
    <3>1. scan'.root.canonical \in Canonical /\ scan'.step = "manifest"
      BY <1>1, <2>5
    <3>2. QED BY <2>7, <2>8, <3>1 DEF ScanKnows, Late
  <2>10. ASSUME Here = "pkg" PROVE ScanCost'
    <3>1. /\ Seeing[1] \in FoundDirs("pkg")
          /\ LStat("pkg") # Seeing[1] => Spent >= 1
      BY <1>7, <2>2, <2>10 DEF ScanCost
    <3>2. Contained(scan.root.canonical, RealPath("pkg")) /\ RealPath("pkg") # None
      BY <1>4, <2>2, <2>10 DEF Attests
    <3>3. LStat("pkg") \in PackageDirs
      BY <2>10, <3>2, HereIs, PkgFacts DEF Contained
    <3>4. Off' => Seeing[1] = "xp"
      BY <2>5, <2>8 DEF Off
    <3>5. "xp" \notin PackageDirs
      BY DEF PackageDirs
    <3>6. QED BY <1>5, <2>5, <2>7, <2>10, <3>1, <3>3, <3>4, <3>5 DEF ScanCost
  <2>11. ScanCost'
    BY <2>5, <2>10 DEF ScanCost
  <2>12. QED BY <2>6, <2>9, <2>11 DEF Keeps, ScanOK
<1>8. QED
  BY <1>6, <1>7, SeeingIs DEF Attesting

(* What a step leaves.                                                       *)
LEMMA CallLeaves ==
  ASSUME Scanning, ScanCall
  PROVE  /\ scan'.root = scan.root /\ scan'.queue = scan.queue /\ scan'.step = scan.step
         /\ scan'.seen = Seeing /\ scan'.attested = scan.attested /\ scan'.manifest = scan.manifest
         /\ scan'.inside = scan.inside /\ Here' = Here /\ Scanning'
<1>1. Scans(scan.step, Seeing, scan.attested, scan.manifest, scan.inside)
  BY DEF ScanCall
<1>2. QED BY <1>1, SameDirectoryStill

LEMMA StepLeaves ==
  ASSUME Scanning, ScanStep, scan.step # "attest"
  PROVE  /\ scan'.root = scan.root /\ scan'.queue = scan.queue /\ scan'.step = After(scan.step)
         /\ scan'.seen = <<>> /\ scan'.attested = scan.attested
         /\ scan.step = "manifest" => scan'.manifest = <<Seeing[2], Seeing[3]>>
         /\ scan.step = "issue" => scan'.manifest = <<Seeing[1]>> \o scan.manifest
         /\ scan.step \notin {"manifest", "issue"} => scan'.manifest = scan.manifest
         /\ scan.step = "entries" => scan'.inside = Seeing[1]
         /\ scan.step # "entries" => scan'.inside = scan.inside
         /\ Here' = Here /\ Scanning'
<1> DEFINE manifest == CASE scan.step = "manifest" -> <<Seeing[2], Seeing[3]>>
                         [] scan.step = "issue"    -> <<Seeing[1]>> \o scan.manifest
                         [] OTHER                  -> scan.manifest
           inside == IF scan.step = "entries" THEN Seeing[1] ELSE scan.inside
<1>1. Scans(After(scan.step), <<>>, scan.attested, manifest, inside)
  BY DEF ScanStep
<1>2. /\ scan.step = "manifest" => manifest = <<Seeing[2], Seeing[3]>>
      /\ scan.step = "issue" => manifest = <<Seeing[1]>> \o scan.manifest
      /\ scan.step \notin {"manifest", "issue"} => manifest = scan.manifest
  OBVIOUS
<1> HIDE DEF manifest, inside
<1>3. /\ scan'.root = scan.root /\ scan'.queue = scan.queue /\ scan'.step = After(scan.step)
      /\ scan'.seen = <<>> /\ scan'.attested = scan.attested /\ scan'.manifest = manifest
      /\ scan'.inside = inside /\ Here' = Here /\ Scanning'
  BY <1>1, SameDirectoryStill
<1>4. QED BY <1>2, <1>3 DEF inside

LEMMA ManifestKeeps ==
  ASSUME TreeOK, ScanOK, ScanCost, Scanning, UNCHANGED <<tree, scene>>,
         scan.step = "manifest", Agrees(Seeing), ScanCall \/ ScanStep
  PROVE  Keeps
<1>1. /\ scan.attested \in Seq(Marks) /\ scan.inside \in Seq(Reach(scan.root.canonical))
      /\ scan.queue \in Seq(Reach(scan.root.canonical)) /\ scan.seen \in Seq(Marks)
      /\ scan.manifest \in Seq(Answers)
  BY DEF ScanOK, ScanShape
<1>2. /\ Len(scan.manifest) = 0 /\ scan.root.canonical \in Canonical /\ Len(scan.attested) = 2
      /\ Here \notin {"pkg", "outPkg"} => Len(scan.seen) = 0
      /\ Here \in {"pkg", "outPkg"} => Opened \subseteq FoundFiles(Here)
  BY DEF ScanOK, ScanKnows
<1>3. Len(CallsOf("declared")) = 2 /\ Len(CallsOf("manifest")) = 3 /\ Len(CallsOf(scan.step)) = 3
  <2>1. CallsOf("declared") = <<"realpath", "realpath">> /\ CallsOf("manifest") = <<"leaf", "open", "read">>
    BY CallsAre
  <2>2. QED BY <2>1
<1>4. Spent' = Spent /\ LStat("pkg")' = LStat("pkg") /\ Snaps(Seeing)
  BY TreeStands DEF Agrees
<1>5. LStatManifest(Here) \in Marks /\ LStatManifest(Here) \in Answers
  BY HereAnswers DEF Answers
<1>6. ASSUME Len(scan.seen) < 2 PROVE Keeps
  <2>1. Len(scan.seen) \in {0, 1} /\ Seeing = Append(scan.seen, LStatManifest(Here))
    BY <1>6, SeeingIs
  <2>2. Seeing \in Seq(Marks) /\ Len(Seeing) \in {1, 2} /\ Seeing[Len(Seeing)] = LStatManifest(Here)
        /\ Len(Seeing) = Len(scan.seen) + 1
    BY <1>5, <2>1, SeeingGrows
  <2>3. ScanCall
    <3>1. Len(Seeing) \in Nat /\ Len(CallsOf(scan.step)) \in Nat /\ Len(Seeing) < 3
      BY <1>3, <2>2
    <3>2. QED BY <1>3, <3>1, CallOrStep
  <2>4. IsFile(LStatManifest(Here))
    <3>1. Len(Seeing) \in DOMAIN Seeing
      BY <2>2
    <3>2. QED BY <1>4, <2>2, <3>1 DEF Snaps
  <2>5. Here \in {"pkg", "outPkg"} /\ LStatManifest(Here) \in FoundFiles(Here)
    <3>1. None \notin Inodes
      BY DEF None, Inodes
    <3>2. QED BY <2>4, <3>1, HereAnswers DEF IsFile
  <2>6. /\ scan'.root = scan.root /\ scan'.queue = scan.queue /\ scan'.step = "manifest"
        /\ scan'.seen = Seeing /\ scan'.attested = scan.attested /\ scan'.manifest = scan.manifest
        /\ scan'.inside = scan.inside /\ Here' = Here /\ Scanning'
    BY <2>3, CallLeaves
  <2>7. ScanShape'
    BY <1>1, <2>2, <2>6 DEF ScanShape
  <2>8. Opened' \subseteq {LStatManifest(Here)} /\ Issued' = {} /\ Issued = {}
    <3>1. Opened' = IF Len(Seeing) = 2 THEN {Seeing[2]} ELSE {}
      BY <2>6 DEF Opened
    <3>2. QED BY <2>2, <2>6, <3>1 DEF Issued, Late
  <2>9. ScanKnows'
    <3>1. scan'.root.canonical \in Canonical /\ scan'.step = "manifest"
          /\ Len(scan'.attested) = 2 /\ Len(scan'.manifest) = 0
      BY <1>2, <2>6
    <3>1a. Len(scan'.seen) < Len(CallsOf(scan'.step))
      <4>1. Len(Seeing) < 3
        BY <2>2
      <4>2. QED BY <1>3, <2>6, <4>1
    <3>2. Here' \in {"pkg", "outPkg"} /\ Issued' \subseteq FoundDirs(Here')
          /\ Opened' \subseteq FoundFiles(Here')
      BY <2>5, <2>6, <2>8
    <3>3. QED BY <3>1, <3>1a, <3>2 DEF ScanKnows, Late
  <2>10. ASSUME Here = "pkg" PROVE ScanCost'
    <3>1. /\ scan.attested[1] \in FoundDirs("pkg")
          /\ LStat("pkg") # scan.attested[1] => Spent >= 1
          /\ Off => Spent >= 1 /\ (LStat("pkg") = scan.attested[1] => Spent >= 2)
      BY <2>10 DEF ScanCost
    <3>2. Off' => Off \/ LStat("pkg") # scan.attested[1]
      <4>1. SUFFICES ASSUME Off', ~Off PROVE LStat("pkg") # scan.attested[1]
        OBVIOUS
      <4>2. scan.attested[1] # "xp"
        BY <4>1 DEF Off
      <4>3. scan.attested[1] \in PackageDirs
        BY <3>1, <4>2 DEF FoundDirs
      <4>4. ~(Opened' \subseteq Files(scan.attested[1]))
        BY <2>6, <2>8, <4>1, <4>2 DEF Off
      <4>5. LStatManifest("pkg") \notin Files(scan.attested[1])
        BY <2>8, <2>10, <4>4
      <4>6. QED BY <2>4, <2>10, <4>3, <4>5, ManifestElsewhere DEF IsFile
    <3>3. QED BY <1>4, <2>6, <3>1, <3>2 DEF ScanCost
  <2>11. ScanCost'
    BY <2>6, <2>10 DEF ScanCost
  <2>12. QED BY <2>7, <2>9, <2>11 DEF Keeps, ScanOK
<1>7. ASSUME Len(scan.seen) = 2 PROVE Keeps
  <2>1. Here \in {"pkg", "outPkg"} /\ Opened = {scan.seen[2]} /\ scan.seen[2] \in FoundFiles(Here)
    BY <1>2, <1>7 DEF Opened
  <2>2. scan.seen[2] \in Inodes
    BY <2>1 DEF FoundFiles, Inodes
  <2>3. text[scan.seen[2]] \in Texts
    BY <2>2 DEF TreeOK
  <2>4. Seeing = Append(scan.seen, text[scan.seen[2]])
    BY <1>7, SeeingIs
  <2>5. Len(Seeing) = 3 /\ Seeing[3] = text[scan.seen[2]] /\ Seeing[2] = scan.seen[2]
    BY <1>7, <2>3, <2>4, SeeingGrows DEF Answers
  <2>6. ScanStep
    <3>1. Len(Seeing) \in Nat /\ Len(CallsOf(scan.step)) \in Nat
      BY <1>3, <2>5
    <3>2. QED BY <1>3, <2>5, <3>1, CallOrStep
  <2>7. /\ scan'.root = scan.root /\ scan'.queue = scan.queue /\ scan'.step = "declared"
        /\ scan'.seen = <<>> /\ scan'.attested = scan.attested
        /\ scan'.manifest = <<Seeing[2], Seeing[3]>>
        /\ scan'.inside = scan.inside /\ Here' = Here /\ Scanning'
    BY <2>6, StepLeaves DEF After
  <2>8. /\ scan'.manifest \in Seq(Answers) /\ Len(scan'.manifest) = 2
        /\ scan'.manifest[1] = scan.seen[2] /\ Len(scan'.seen) = 0
    <3>1. Seeing[2] \in Answers /\ Seeing[3] \in Answers
      BY <2>2, <2>3, <2>5 DEF Answers, Marks
    <3>2. QED BY <2>5, <2>7, <3>1
  <2>9. ScanShape'
    <3>1. scan'.seen \in Seq(Marks)
      BY <2>7
    <3>2. QED BY <1>1, <2>7, <2>8, <3>1 DEF ScanShape
  <2>10. Opened' = Opened /\ Issued' = {} /\ Issued = {}
    BY <2>1, <2>7, <2>8 DEF Opened, Issued, Late
  <2>11. ScanKnows'
    <3>1. scan'.root.canonical \in Canonical /\ scan'.step = "declared"
          /\ Len(scan'.attested) = 2 /\ Len(scan'.manifest) = 2
          /\ Len(scan'.seen) < Len(CallsOf(scan'.step))
      BY <1>2, <1>3, <2>7, <2>8
    <3>2. Here' \in {"pkg", "outPkg"} /\ Issued' \subseteq FoundDirs(Here')
          /\ Opened' \subseteq FoundFiles(Here')
      BY <2>1, <2>7, <2>10
    <3>3. QED BY <3>1, <3>2 DEF ScanKnows, Late
  <2>12. ScanCost'
    <3>1. Off' = Off
      BY <2>7, <2>10 DEF Off
    <3>2. QED BY <1>4, <2>7, <3>1 DEF ScanCost
  <2>13. QED BY <2>9, <2>11, <2>12 DEF Keeps, ScanOK
<1>8. Len(scan.seen) < 2 \/ Len(scan.seen) = 2
  <2>1. Len(scan.seen) \in {0, 1, 2}
    BY SeeingIs
  <2>2. \A n \in {0, 1, 2} : n < 2 \/ n = 2
    OBVIOUS
  <2>3. QED BY <2>1, <2>2
<1>9. QED BY <1>6, <1>7, <1>8

(* What is known of the manifest stays as it is.                             *)
LEMMA ManifestStays ==
  ASSUME ScanOK, ScanCost, Scanning, UNCHANGED <<tree, scene>>,
         \/ {scan.step, scan'.step} \subseteq {"declared", "issue"}
         \/ {scan.step, scan'.step} \subseteq Late,
         scan'.root = scan.root, scan'.queue = scan.queue, scan'.attested = scan.attested,
         scan'.manifest = scan.manifest, Here' = Here, Scanning',
         scan'.inside \in Seq(Reach(scan.root.canonical)), scan'.seen \in Seq(Marks),
         Len(scan'.seen) < Len(CallsOf(scan'.step)),
         Opened' = Opened, Issued' = Issued,
         Here = "pkg" /\ Off /\ scan'.step = "stable" /\ Len(scan'.seen) = 1
           /\ scan'.seen[1] = scan.attested[1] => Spent >= 2,
         Here = "pkg" /\ Off /\ scan'.step \in {"enter", "entries", "leave"} => Spent >= 2
  PROVE  Keeps
<1>1. ScanShape'
  BY DEF ScanShape, ScanOK
<1>2. ScanKnows'
  <2>1. ScanKnows
    BY DEF ScanOK
  <2>2. scan'.root.canonical \in Canonical /\ Len(scan'.attested) = 2
        /\ (scan'.step \in {"declared", "issue"} => Len(scan'.manifest) = 2)
        /\ (scan'.step \in Late => Len(scan'.manifest) \in {0, 3})
        /\ scan'.step \in {"declared", "issue"} \cup Late
    BY <2>1 DEF ScanKnows, Late
  <2>3. /\ Here \notin {"pkg", "outPkg"} => Len(scan'.manifest) = 0
        /\ Here \in {"pkg", "outPkg"} =>
             Issued' \subseteq FoundDirs(Here) /\ Opened' \subseteq FoundFiles(Here)
    BY <2>1 DEF ScanKnows
  <2>4. QED BY <2>2, <2>3 DEF ScanKnows, Late
<1>3. Off' = Off
  BY DEF Off
<1>4. Spent' = Spent /\ LStat("pkg")' = LStat("pkg")
  BY TreeStands
<1>5. scan.step # "attest" /\ scan'.step # "attest"
  BY DEF Late
<1>6. ASSUME Here = "pkg" PROVE ScanCost'
  <2>1. /\ scan.attested[1] \in FoundDirs("pkg")
        /\ LStat("pkg") # scan.attested[1] => Spent >= 1
        /\ Off => Spent >= 1 /\ (LStat("pkg") = scan.attested[1] => Spent >= 2)
    BY <1>5, <1>6 DEF ScanCost
  <2>2. QED BY <1>3, <1>4, <1>5, <1>6, <2>1 DEF ScanCost
<1>7. ScanCost'
  BY <1>6 DEF ScanCost
<1>8. QED BY <1>1, <1>2, <1>7 DEF Keeps, ScanOK

(* Two calls, or one, and the manifest is left alone.                        *)
LEMMA LookingOn ==
  ASSUME TreeOK, ScanOK, Scanning, scan.step \in Attesting \cup {"declared"}
  PROVE  /\ Len(CallsOf(scan.step)) = 2
         /\ Len(scan.seen) = 0 => Seeing \in Seq(Marks) /\ Len(Seeing) = 1
         /\ Len(scan.seen) = 0 /\ scan.step # "declared" => Seeing[1] = LStat(Here)
         /\ Len(scan.seen) = 1 =>
              Seeing \in Seq(Marks) /\ Len(Seeing) = 2 /\ Seeing[1] = scan.seen[1]
         /\ Len(scan.seen) \in {0, 1}
         /\ ScanCall => Len(scan.seen) = 0
         /\ ScanStep => Len(scan.seen) = 1
<1>1. Len(CallsOf(scan.step)) = 2
  <2>1. CallsOf(scan.step) \in {<<"lstat", "realpath">>, <<"realpath", "realpath">>}
    BY CallsAre
  <2>2. QED BY <2>1
<1>2. LStat(Here) \in Marks /\ RealPath(Here) \in Marks /\ LStat(Here) \in Answers
      /\ RealPath(Here) \in Answers
  BY HereAnswers DEF Answers
<1>3. Len(scan.seen) \in {0, 1}
  BY SeeingIs
<1>4. /\ Len(scan.seen) = 0 => Seeing \in Seq(Marks) /\ Len(Seeing) = 1
      /\ Len(scan.seen) = 0 /\ scan.step # "declared" => Seeing[1] = LStat(Here)
      /\ Len(scan.seen) = 1 =>
           Seeing \in Seq(Marks) /\ Len(Seeing) = 2 /\ Seeing[1] = scan.seen[1]
  <2>1. CASE scan.step \in Attesting
    BY <1>2, <2>1, SeeingIs, SeeingGrows DEF Attesting
  <2>2. CASE scan.step = "declared"
    BY <1>2, <2>2, SeeingIs, SeeingGrows
  <2>3. QED BY <2>1, <2>2
<1>5. ScanCall => Len(scan.seen) = 0
  <2>1. SUFFICES ASSUME ScanCall, Len(scan.seen) = 1 PROVE FALSE
    BY <1>3
  <2>2. Len(Seeing) < 2
    BY <1>1, <2>1 DEF ScanCall
  <2>3. Len(Seeing) = 2
    BY <1>4, <2>1
  <2>4. QED BY <2>2, <2>3
<1>6. ScanStep => Len(scan.seen) = 1
  <2>1. SUFFICES ASSUME ScanStep, Len(scan.seen) = 0 PROVE FALSE
    BY <1>3
  <2>2. Len(Seeing) = 2
    BY <1>1, <2>1 DEF ScanStep
  <2>3. Len(Seeing) = 1
    BY <1>4, <2>1
  <2>4. QED BY <2>2, <2>3
<1>7. QED BY <1>1, <1>3, <1>4, <1>5, <1>6

LEMMA Fewer ==
  /\ \A a \in {0}, b \in {1, 2, 3} : a < b
  /\ \A a \in {0, 1}, b \in {2, 3} : a < b
  OBVIOUS

LEMMA Alone == ASSUME NEW S, NEW x \in S PROVE <<x>> \in Seq(S)
  OBVIOUS

LEMMA Prefixed ==
  ASSUME NEW S, NEW a \in S, NEW s \in Seq(S), Len(s) = 2
  PROVE  /\ <<a>> \o s \in Seq(S) /\ Len(<<a>> \o s) = 3
         /\ (<<a>> \o s)[1] = a /\ (<<a>> \o s)[2] = s[1]
<1>1. <<a>> \in Seq(S) /\ Len(<<a>>) = 1
  OBVIOUS
<1> DEFINE one == <<a>>
<1>0. one[1] = a
  OBVIOUS
<1>2. /\ one \o s \in Seq(S) /\ Len(one \o s) = Len(one) + Len(s)
      /\ \A i \in 1 .. Len(one) + Len(s) :
           (one \o s)[i] = IF i <= Len(one) THEN one[i] ELSE s[i - Len(one)]
  <2> HIDE DEF one
  <2>1. one \in Seq(S)
    BY <1>1 DEF one
  <2>2. QED BY <2>1, ConcatProperties
<1> HIDE DEF one
<1>3. Len(one) = 1 /\ Len(one) + Len(s) = 3 /\ 1 \in 1 .. 3 /\ 2 \in 1 .. 3
  BY <1>1 DEF one
<1>4. (one \o s)[1] = a
  BY <1>0, <1>2, <1>3
<1>5. (one \o s)[2] = s[1]
  BY <1>2, <1>3
<1>6. QED BY <1>2, <1>3, <1>4, <1>5 DEF one

LEMMA DeclaredKeeps ==
  ASSUME TreeOK, ScanOK, ScanCost, Scanning, UNCHANGED <<tree, scene>>,
         scan.step = "declared", ScanCall \/ ScanStep
  PROVE  Keeps
<1>1. scan.inside \in Seq(Reach(scan.root.canonical)) /\ <<>> \in Seq(Marks)
  BY DEF ScanOK, ScanShape
<1>2. Opened = {scan.manifest[1]} /\ Issued = {}
  BY DEF Opened, Issued, Late
<1>3. CASE ScanCall
  <2>1. /\ scan'.root = scan.root /\ scan'.queue = scan.queue /\ scan'.step = "declared"
        /\ scan'.seen = Seeing /\ scan'.attested = scan.attested /\ scan'.manifest = scan.manifest
        /\ scan'.inside = scan.inside /\ Here' = Here /\ Scanning'
    BY <1>3, CallLeaves
  <2>2. Seeing \in Seq(Marks) /\ Len(Seeing) = 1 /\ Len(CallsOf("declared")) = 2
    BY <1>3, LookingOn
  <2>3. Opened' = Opened /\ Issued' = Issued
    BY <1>2, <2>1 DEF Opened, Issued, Late
  <2>4. Len(scan'.seen) < Len(CallsOf(scan'.step)) /\ scan'.seen \in Seq(Marks)
    <3>1. Len(scan'.seen) \in {0, 1} /\ scan'.seen \in Seq(Marks)
      BY <2>1, <2>2
    <3>2. Len(CallsOf(scan'.step)) \in {2, 3}
      BY <2>1, <2>2
    <3>3. QED BY <3>1, <3>2, Fewer
  <2>5. QED BY <1>1, <2>1, <2>3, <2>4, ManifestStays
<1>4. CASE ScanStep
  <2>1. /\ scan'.root = scan.root /\ scan'.queue = scan.queue /\ scan'.step = "issue"
        /\ scan'.seen = <<>> /\ scan'.attested = scan.attested /\ scan'.manifest = scan.manifest
        /\ scan'.inside = scan.inside /\ Here' = Here /\ Scanning'
    BY <1>4, StepLeaves DEF After
  <2>2. Len(CallsOf("issue")) = 2 /\ Len(scan'.seen) = 0
    <3>1. CallsOf("issue") = <<"lstat", "realpath">>
      BY CallsAre DEF Attesting
    <3>2. QED BY <2>1, <3>1
  <2>3. Opened' = Opened /\ Issued' = Issued
    BY <1>2, <2>1, <2>2 DEF Opened, Issued, Late
  <2>4. Len(scan'.seen) < Len(CallsOf(scan'.step)) /\ scan'.seen \in Seq(Marks)
    <3>1. Len(scan'.seen) \in {0, 1} /\ scan'.seen \in Seq(Marks)
      BY <1>1, <2>1, <2>2
    <3>2. Len(CallsOf(scan'.step)) \in {2, 3}
      BY <2>1, <2>2
    <3>3. QED BY <3>1, <3>2, Fewer
  <2>5. QED BY <1>1, <2>1, <2>3, <2>4, ManifestStays
<1>5. QED BY <1>3, <1>4

(* The directory is looked at again when the candidate is issued.            *)
LEMMA IssueKeeps ==
  ASSUME TreeOK, ScanOK, ScanCost, Scanning, UNCHANGED <<tree, scene>>,
         scan.step = "issue", Agrees(Seeing), ScanCall \/ ScanStep
  PROVE  Keeps
<1>1. /\ scan.attested \in Seq(Marks) /\ scan.inside \in Seq(Reach(scan.root.canonical))
      /\ scan.queue \in Seq(Reach(scan.root.canonical)) /\ scan.seen \in Seq(Marks)
      /\ scan.manifest \in Seq(Answers) /\ <<>> \in Seq(Marks)
  BY DEF ScanOK, ScanShape
<1>2. /\ Len(scan.manifest) = 2 /\ scan.root.canonical \in Canonical /\ Len(scan.attested) = 2
      /\ Here \in {"pkg", "outPkg"}
      /\ Opened \subseteq FoundFiles(Here) /\ Issued \subseteq FoundDirs(Here)
  <2>1. ScanKnows
    BY DEF ScanOK
  <2>2. Len(scan.manifest) = 2 /\ scan.root.canonical \in Canonical /\ Len(scan.attested) = 2
    BY <2>1 DEF ScanKnows
  <2>3. Len(scan.manifest) # 0
    BY <2>2
  <2>4. QED BY <2>1, <2>2, <2>3 DEF ScanKnows
<1>3. Len(CallsOf("issue")) = 2 /\ Len(CallsOf("stable")) = 2
  <2>1. CallsOf("issue") = <<"lstat", "realpath">> /\ CallsOf("stable") = <<"lstat", "realpath">>
    BY CallsAre DEF Attesting
  <2>2. QED BY <2>1
<1>4. Spent' = Spent /\ LStat("pkg")' = LStat("pkg")
  BY TreeStands
<1>5. Attests(scan.root.canonical, Seeing, <<>>)
  BY DEF Agrees, ScanRoot
<1>6. CASE ScanCall
  <2>1. /\ scan'.root = scan.root /\ scan'.queue = scan.queue /\ scan'.step = "issue"
        /\ scan'.seen = Seeing /\ scan'.attested = scan.attested /\ scan'.manifest = scan.manifest
        /\ scan'.inside = scan.inside /\ Here' = Here /\ Scanning'
    BY <1>6, CallLeaves
  <2>2. Len(scan.seen) = 0 /\ Seeing \in Seq(Marks) /\ Len(Seeing) = 1 /\ Seeing[1] = LStat(Here)
    BY <1>6, LookingOn DEF Attesting
  <2>3. LStat(Here) \in FoundDirs(Here)
    BY <1>2, <1>5, <2>2, HereAnswers DEF Attests
  <2>4. Opened' = Opened /\ Issued' = {LStat(Here)} /\ Issued = {}
    BY <2>1, <2>2 DEF Opened, Issued, Late
  <2>5. ScanShape'
    BY <1>1, <2>1, <2>2 DEF ScanShape
  <2>6. ScanKnows'
    <3>1. scan'.root.canonical \in Canonical /\ scan'.step = "issue"
          /\ Len(scan'.attested) = 2 /\ Len(scan'.manifest) = 2
      BY <1>2, <2>1
    <3>2. Len(scan'.seen) < Len(CallsOf(scan'.step))
      <4>1. Len(scan'.seen) \in {0, 1}
        BY <2>1, <2>2
      <4>2. Len(CallsOf(scan'.step)) \in {2, 3}
        BY <1>3, <2>1
      <4>3. QED BY <4>1, <4>2, Fewer
    <3>3. Here' \in {"pkg", "outPkg"} /\ Issued' \subseteq FoundDirs(Here')
          /\ Opened' \subseteq FoundFiles(Here')
      BY <1>2, <2>1, <2>3, <2>4
    <3>4. QED BY <3>1, <3>2, <3>3 DEF ScanKnows, Late
  <2>7. ASSUME Here = "pkg" PROVE ScanCost'
    <3>1. /\ scan.attested[1] \in FoundDirs("pkg")
          /\ LStat("pkg") # scan.attested[1] => Spent >= 1
          /\ Off => Spent >= 1 /\ (LStat("pkg") = scan.attested[1] => Spent >= 2)
      BY <2>7 DEF ScanCost
    <3>2. Off' => Off \/ LStat("pkg") # scan.attested[1]
      BY <2>1, <2>4, <2>7 DEF Off
    <3>3. QED BY <1>4, <2>1, <3>1, <3>2 DEF ScanCost
  <2>8. ScanCost'
    BY <2>1, <2>7 DEF ScanCost
  <2>9. QED BY <2>5, <2>6, <2>8 DEF Keeps, ScanOK
<1>7. CASE ScanStep
  <2>1. /\ scan'.root = scan.root /\ scan'.queue = scan.queue /\ scan'.step = "stable"
        /\ scan'.seen = <<>> /\ scan'.attested = scan.attested
        /\ scan'.manifest = <<Seeing[1]>> \o scan.manifest
        /\ scan'.inside = scan.inside /\ Here' = Here /\ Scanning'
    BY <1>7, StepLeaves DEF After
  <2>2. Len(scan.seen) = 1 /\ Seeing \in Seq(Marks) /\ Len(Seeing) = 2 /\ Seeing[1] = scan.seen[1]
    BY <1>7, LookingOn DEF Attesting
  <2>3. Seeing[1] \in Answers
    <3>1. Seeing[1] \in Marks
      BY <2>2
    <3>2. QED BY <3>1 DEF Answers
  <2>4. /\ scan'.manifest \in Seq(Answers) /\ Len(scan'.manifest) = 3
        /\ scan'.manifest[1] = scan.seen[1] /\ scan'.manifest[2] = scan.manifest[1]
    <3>1. scan.manifest \in Seq(Answers) /\ Len(scan.manifest) = 2
      BY <1>1, <1>2
    <3>2. QED BY <2>1, <2>2, <2>3, <3>1, Prefixed
  <2>5. Opened = {scan.manifest[1]} /\ Issued = {scan.seen[1]}
    BY <2>2 DEF Opened, Issued, Late
  <2>6. Opened' = Opened /\ Issued' = Issued
    BY <2>1, <2>4, <2>5 DEF Opened, Issued, Late
  <2>7. ScanShape'
    BY <1>1, <2>1, <2>4 DEF ScanShape
  <2>8. Len(scan'.seen) = 0
    BY <2>1
  <2>9. ScanKnows'
    <3>1. scan'.root.canonical \in Canonical /\ scan'.step = "stable"
          /\ Len(scan'.attested) = 2 /\ Len(scan'.manifest) = 3
      BY <1>2, <2>1, <2>4
    <3>2. Len(scan'.seen) < Len(CallsOf(scan'.step))
      <4>1. Len(CallsOf(scan'.step)) \in {2, 3}
        BY <1>3, <2>1
      <4>2. QED BY <2>8, <4>1, Fewer
    <3>3. Here' \in {"pkg", "outPkg"} /\ Issued' \subseteq FoundDirs(Here')
          /\ Opened' \subseteq FoundFiles(Here')
      BY <1>2, <2>1, <2>6
    <3>4. QED BY <3>1, <3>2, <3>3 DEF ScanKnows, Late
  <2>10. ASSUME Here = "pkg" PROVE ScanCost'
    <3>1. /\ scan.attested[1] \in FoundDirs("pkg")
          /\ LStat("pkg") # scan.attested[1] => Spent >= 1
          /\ Off => Spent >= 1 /\ (LStat("pkg") = scan.attested[1] => Spent >= 2)
      BY <2>10 DEF ScanCost
    <3>2. Off' = Off
      BY <2>1, <2>6 DEF Off
    <3>3. QED BY <1>4, <2>1, <2>8, <3>1, <3>2 DEF ScanCost
  <2>11. ScanCost'
    BY <2>1, <2>10 DEF ScanCost
  <2>12. QED BY <2>7, <2>9, <2>11 DEF Keeps, ScanOK
<1>8. QED BY <1>6, <1>7

(* The directory is attested again, and read.                                *)
LEMMA LateKeeps ==
  ASSUME TreeOK, ScanOK, ScanCost, Scanning, UNCHANGED <<tree, scene>>,
         scan.step \in Late, Agrees(Seeing), ScanCall \/ ScanStep
  PROVE  Keeps
<1>1. /\ scan.inside \in Seq(Reach(scan.root.canonical)) /\ <<>> \in Seq(Marks)
      /\ Len(scan.attested) = 2
  BY DEF ScanOK, ScanShape, ScanKnows, Late
<1>2. /\ Len(CallsOf("stable")) = 2 /\ Len(CallsOf("enter")) = 2 /\ Len(CallsOf("leave")) = 2
      /\ Len(CallsOf("entries")) = 1
  <2>1. /\ CallsOf("stable") = <<"lstat", "realpath">> /\ CallsOf("enter") = <<"lstat", "realpath">>
        /\ CallsOf("leave") = <<"lstat", "realpath">> /\ CallsOf("entries") = <<"readdir">>
    BY CallsAre DEF Attesting
  <2>2. QED BY <2>1
<1>3. ASSUME Here = "pkg", Off
      PROVE  /\ Spent >= 1
             /\ LStat("pkg") = scan.attested[1] => Spent >= 2
             /\ scan.step = "stable" /\ Len(scan.seen) = 1 /\ scan.seen[1] = scan.attested[1]
                  => Spent >= 2
             /\ scan.step \in {"enter", "entries", "leave"} => Spent >= 2
  BY <1>3 DEF ScanCost, Late
<1>4. CASE scan.step # "entries"
  <2>1. Attests(scan.root.canonical, Seeing, scan.attested)
    BY <1>4 DEF Agrees, ScanRoot, Late
  <2>2. scan.step \in Attesting
    BY <1>4 DEF Attesting, Late
  <2>3. CASE ScanCall
    <3>1. /\ scan'.root = scan.root /\ scan'.queue = scan.queue /\ scan'.step = scan.step
          /\ scan'.seen = Seeing /\ scan'.attested = scan.attested /\ scan'.manifest = scan.manifest
          /\ scan'.inside = scan.inside /\ Here' = Here /\ Scanning'
      BY <2>3, CallLeaves
    <3>2. /\ Len(scan.seen) = 0 /\ Seeing \in Seq(Marks) /\ Len(Seeing) = 1
          /\ Seeing[1] = LStat(Here) /\ Len(CallsOf(scan.step)) = 2
      BY <2>2, <2>3, LookingOn DEF Attesting
    <3>3. Opened' = Opened /\ Issued' = Issued
      BY <3>1 DEF Opened, Issued, Late
    <3>4. Len(scan'.seen) < Len(CallsOf(scan'.step)) /\ scan'.seen \in Seq(Marks)
      <4>1. Len(scan'.seen) \in {0, 1} /\ scan'.seen \in Seq(Marks)
        BY <3>1, <3>2
      <4>2. Len(CallsOf(scan'.step)) \in {2, 3}
        BY <3>1, <3>2
      <4>3. QED BY <4>1, <4>2, Fewer
    <3>5. ASSUME Here = "pkg", Off, scan'.step = "stable", scan'.seen[1] = scan.attested[1]
          PROVE  Spent >= 2
      BY <1>3, <3>1, <3>2, <3>5
    <3>6. ASSUME Here = "pkg", Off, scan'.step \in {"enter", "entries", "leave"} PROVE Spent >= 2
      BY <1>3, <3>1, <3>6
    <3>7. {scan.step, scan'.step} \subseteq Late
      BY <3>1
    <3>8. QED BY <1>1, <3>1, <3>3, <3>4, <3>5, <3>6, <3>7, ManifestStays
  <2>4. CASE ScanStep
    <3>1. /\ scan'.root = scan.root /\ scan'.queue = scan.queue
          /\ scan'.step \in {"enter", "entries"}
          /\ scan'.seen = <<>> /\ scan'.attested = scan.attested /\ scan'.manifest = scan.manifest
          /\ scan'.inside = scan.inside /\ Here' = Here /\ Scanning'
          /\ scan.step \in {"stable", "enter"}
      <4>1. scan.step \in {"stable", "enter"}
        BY <1>4, <2>4 DEF ScanStep, Late
      <4>2. QED BY <2>4, <4>1, StepLeaves DEF After
    <3>2. Len(scan.seen) = 1 /\ Len(Seeing) = 2 /\ Seeing[1] = scan.seen[1]
      BY <2>2, <2>4, LookingOn DEF Attesting
    <3>3. Opened' = Opened /\ Issued' = Issued
      BY <3>1 DEF Opened, Issued, Late
    <3>4. Len(scan'.seen) = 0
      BY <3>1
    <3>5. Len(scan'.seen) < Len(CallsOf(scan'.step)) /\ scan'.seen \in Seq(Marks)
      <4>1. scan'.seen \in Seq(Marks)
        BY <1>1, <3>1
      <4>2. Len(CallsOf(scan'.step)) \in {1, 2, 3}
        BY <1>2, <3>1
      <4>3. QED BY <3>4, <4>1, <4>2, Fewer
    <3>6. scan.attested = Seeing
      <4>1. scan.attested # <<>>
        <5>1. Len(scan.attested) = 2
          BY <1>1
        <5>2. QED BY <5>1
      <4>2. QED BY <2>1, <3>2, <4>1 DEF Attests
    <3>7. ASSUME Here = "pkg", Off PROVE Spent >= 2
      BY <1>3, <3>1, <3>2, <3>6, <3>7
    <3>8. {scan.step, scan'.step} \subseteq Late
      BY <3>1 DEF Late
    <3>9. QED BY <1>1, <3>1, <3>3, <3>5, <3>7, <3>8, ManifestStays
  <2>5. QED BY <2>3, <2>4
<1>5. CASE scan.step = "entries"
  <2>1. Len(scan.seen) = 0 /\ Seeing = Append(scan.seen, Inside(Here))
    BY <1>5, SeeingIs
  <2>2. Seeing[1] = Inside(Here) /\ Len(Seeing) = 1
    <3>1. scan.seen = <<>>
      BY <2>1 DEF ScanOK, ScanShape
    <3>2. QED BY <2>1, <3>1
  <2>3. Inside(Here) \in Seq(Reach(scan.root.canonical))
    <3> DEFINE R == Reach(scan.root.canonical)
    <3>1. \/ Inside(Here) = <<>>
          \/ Here = "out" /\ Inside(Here) = <<"outPkg">>
          \/ Here = "root" /\ Inside(Here) = <<"pkg">>
      BY DEF Inside
    <3>2. Here = "out" => "outPkg" \in R
      BY HereIs DEF Reach
    <3>3. Here = "root" => "pkg" \in R
      BY HereIs DEF Reach
    <3> HIDE DEF R
    <3>4. ASSUME Inside(Here) = <<>> PROVE Inside(Here) \in Seq(R)
      BY <3>4
    <3>5. ASSUME Here = "out", Inside(Here) = <<"outPkg">> PROVE Inside(Here) \in Seq(R)
      BY <3>2, <3>5, Alone
    <3>6. ASSUME Here = "root", Inside(Here) = <<"pkg">> PROVE Inside(Here) \in Seq(R)
      BY <3>3, <3>6, Alone
    <3>7. Inside(Here) \in Seq(R)
      BY <3>1, <3>4, <3>5, <3>6
    <3>8. QED BY <3>7 DEF R
  <2>4. ScanStep
    <3>1. Len(Seeing) \in Nat /\ Len(CallsOf(scan.step)) \in Nat
      BY <1>2, <1>5, <2>2
    <3>2. QED BY <1>2, <1>5, <2>2, <3>1, CallOrStep
  <2>5. /\ scan'.root = scan.root /\ scan'.queue = scan.queue /\ scan'.step = "leave"
        /\ scan'.seen = <<>> /\ scan'.attested = scan.attested /\ scan'.manifest = scan.manifest
        /\ scan'.inside = Inside(Here) /\ Here' = Here /\ Scanning'
    BY <1>5, <2>2, <2>4, StepLeaves DEF After
  <2>6. Opened' = Opened /\ Issued' = Issued
    BY <1>5, <2>5 DEF Opened, Issued, Late
  <2>7. Len(scan'.seen) = 0
    BY <2>5
  <2>8. Len(scan'.seen) < Len(CallsOf(scan'.step)) /\ scan'.seen \in Seq(Marks)
    <3>1. scan'.seen \in Seq(Marks)
      BY <1>1, <2>5
    <3>2. Len(CallsOf(scan'.step)) \in {1, 2, 3}
      BY <1>2, <2>5
    <3>3. QED BY <2>7, <3>1, <3>2, Fewer
  <2>9. ASSUME Here = "pkg", Off PROVE Spent >= 2
    BY <1>3, <1>5, <2>9
  <2>10. {scan.step, scan'.step} \subseteq Late
    BY <1>5, <2>5 DEF Late
  <2>11. scan'.inside \in Seq(Reach(scan.root.canonical))
    BY <2>3, <2>5
  <2>12. QED BY <2>5, <2>6, <2>7, <2>8, <2>9, <2>10, <2>11, ManifestStays
<1>6. QED BY <1>4, <1>5

(* What was seen is no plugin, or is not seen any more.                      *)
LEMMA NoCandidateKeeps ==
  ASSUME TreeOK, ScanOK, ScanCost, UNCHANGED <<tree, scene>>, NoCandidate
  PROVE  Keeps
<1>1. Scanning /\ scan.step \in {"manifest", "declared", "issue"}
      /\ Scans("stable", <<>>, scan.attested, <<>>, scan.inside)
  BY DEF NoCandidate
<1>2. /\ scan'.root = scan.root /\ scan'.queue = scan.queue /\ scan'.step = "stable"
      /\ scan'.seen = <<>> /\ scan'.attested = scan.attested /\ scan'.manifest = <<>>
      /\ scan'.inside = scan.inside /\ Here' = Here /\ Scanning'
  BY <1>1, SameDirectoryStill
<1>3. scan.root.canonical \in Canonical /\ Len(scan.attested) = 2
  BY <1>1 DEF ScanOK, ScanKnows
<1>4. Len(scan'.seen) = 0 /\ Len(scan'.manifest) = 0 /\ Len(CallsOf("stable")) = 2
  <2>1. CallsOf("stable") = <<"lstat", "realpath">>
    BY CallsAre DEF Attesting
  <2>2. QED BY <1>2, <2>1
<1>5. Opened' = {} /\ Issued' = {}
  BY <1>2, <1>4 DEF Opened, Issued, Late
<1>6. ScanShape'
  <2>1. scan'.seen \in Seq(Marks) /\ scan'.manifest \in Seq(Answers)
    BY <1>2
  <2>2. QED BY <1>2, <2>1 DEF ScanOK, ScanShape
<1>7. ScanKnows'
  <2>1. Len(scan'.seen) < Len(CallsOf(scan'.step))
    <3>1. Len(CallsOf(scan'.step)) \in {2, 3}
      BY <1>2, <1>4
    <3>2. QED BY <1>4, <3>1, Fewer
  <2>2. scan'.root.canonical \in Canonical /\ scan'.step = "stable" /\ Len(scan'.attested) = 2
    BY <1>2, <1>3
  <2>3. Issued' \subseteq FoundDirs(Here') /\ Opened' \subseteq FoundFiles(Here')
    BY <1>5
  <2>4. QED BY <1>4, <2>1, <2>2, <2>3 DEF ScanKnows, Late
<1>8. Spent' = Spent /\ LStat("pkg")' = LStat("pkg")
  BY TreeStands
<1>9. ASSUME Here = "pkg" PROVE ScanCost'
  <2>1. /\ scan.attested[1] \in FoundDirs("pkg")
        /\ LStat("pkg") # scan.attested[1] => Spent >= 1
        /\ Off => Spent >= 1 /\ (LStat("pkg") = scan.attested[1] => Spent >= 2)
    BY <1>1, <1>9 DEF ScanCost
  <2>2. Off' => Off
    BY <1>2, <1>5 DEF Off
  <2>3. QED BY <1>2, <1>4, <1>8, <2>1, <2>2 DEF ScanCost
<1>10. ScanCost'
  BY <1>2, <1>9 DEF ScanCost
<1>11. QED BY <1>6, <1>7, <1>10 DEF Keeps, ScanOK

(* The scan passes on to the next directory.                                 *)
LEMMA NextKeeps ==
  ASSUME ScanOK, Scanning, NEW found \in Seq(Reach(scan.root.canonical)),
         scan' = NextDirectory(found)
  PROVE  Keeps
<1> DEFINE R == Reach(scan.root.canonical)
<1>1. Tail(scan.queue) \in Seq(R) /\ scan.root.canonical \in Canonical
  BY HereIs DEF ScanOK, ScanKnows
<1>2. Tail(scan.queue) \o found \in Seq(R)
  <2>1. found \in Seq(R)
    OBVIOUS
  <2> HIDE DEF R
  <2>2. QED BY <1>1, <2>1, ConcatProperties
<1>3. scan' = At(scan.root, scan.done, Tail(scan.queue) \o found)
  BY DEF NextDirectory
<1>4. QED BY <1>1, <1>2, <1>3, FreshScan DEF Keeps

(* Or to the next root, which is one that was admitted.                      *)
LEMMA NextRootKeeps ==
  ASSUME RootsOK, ScanOK, NextRoot
  PROVE  Keeps
<1>1. CASE \E root \in RootsLeft : scan' = At(root, scan.done \cup {root}, <<root.canonical>>)
  <2>1. PICK root \in RootsLeft : scan' = At(root, scan.done \cup {root}, <<root.canonical>>)
    BY <1>1
  <2>2. root \in Admitted
    BY DEF RootsLeft
  <2>3. root.canonical \in Canonical
    <3>1. PICK i \in DOMAIN roots : root = roots[i]
      BY <2>2 DEF Admitted
    <3> DEFINE Roots == [key : STRING, canonical : Canonical]
    <3>2. roots \in Seq(Roots)
      BY DEF RootsOK
    <3> HIDE DEF Roots
    <3>3. root \in Roots
      BY <3>1, <3>2
    <3>4. QED BY <3>3 DEF Roots
  <2>4. <<root.canonical>> \in Seq(Reach(root.canonical))
    <3>1. root.canonical \in Reach(root.canonical)
      BY DEF Reach
    <3> HIDE DEF Reach
    <3>2. QED BY <3>1
  <2>5. QED BY <2>1, <2>3, <2>4, FreshScan DEF Keeps
<1>2. CASE Scans("ended", <<>>, <<>>, <<>>, <<>>)
  <2>1. /\ scan'.root = scan.root /\ scan'.queue = scan.queue /\ scan'.seen = <<>>
        /\ scan'.attested = <<>> /\ scan'.manifest = <<>> /\ scan'.inside = <<>>
    BY <1>2 DEF Scans
  <2>2. ~Scanning'
    BY <2>1 DEF NextRoot, Scanning
  <2>3. scan'.seen \in Seq(Marks) /\ scan'.attested \in Seq(Marks)
        /\ scan'.manifest \in Seq(Answers) /\ scan'.inside \in Seq(Reach(scan.root.canonical))
    BY <2>1
  <2>4. ScanShape'
    BY <2>1, <2>3 DEF ScanOK, ScanShape
  <2>5. QED BY <2>2, <2>4 DEF Keeps, ScanOK, ScanCost
<1>3. QED BY <1>1, <1>2 DEF NextRoot

(* What is recorded stands, or the tree was changed twice.                   *)
LEMMA RecordedStands ==
  ASSUME ScanOK, ScanCost, CandidatesOK, ScanDirectory, UNCHANGED <<tree, scene>>
  PROVE  CandidatesOK'
<1>1. Scanning /\ scan.step = "leave" /\ candidates' = Recorded
  BY DEF ScanDirectory
<1>2. Spent' = Spent
  BY TreeStands
<1>3. CASE candidates' = candidates
  BY <1>2, <1>3 DEF CandidatesOK
<1>4. CASE candidates' # candidates
  <2>1. PICK on : /\ candidates' = candidates \cup {on}
                  /\ on.path = Here /\ on.dir = scan.manifest[1] /\ on.inode = scan.manifest[2]
                  /\ scan.manifest # <<>>
    BY <1>1, <1>4 DEF Recorded
  <2>2. Len(scan.manifest) = 3
    <3>1. Len(scan.manifest) \in {0, 3}
      BY <1>1 DEF ScanOK, ScanKnows, Late
    <3>2. Len(scan.manifest) # 0
      BY <2>1 DEF ScanOK, ScanShape
    <3>3. QED BY <3>1, <3>2
  <2>3. Opened = {on.inode} /\ Issued = {on.dir}
    BY <1>1, <2>1, <2>2 DEF Opened, Issued, Late
  <2>4. Here \in {"pkg", "outPkg"}
    <3>1. Len(scan.manifest) # 0
      BY <2>2
    <3>2. QED BY <1>1, <3>1 DEF ScanOK, ScanKnows
  <2>5. on.dir \in FoundDirs(Here) /\ on.inode \in FoundFiles(Here)
    BY <1>1, <2>3, <2>4 DEF ScanOK, ScanKnows
  <2>6. ~Sound(on) => Spent >= 2
    <3>1. CASE Here = "outPkg"
      BY <2>1, <2>5, <3>1 DEF Sound, FoundDirs, FoundFiles
    <3>2. CASE Here = "pkg"
      <4>1. SUFFICES ASSUME ~Sound(on) PROVE Off
        BY <1>1, <3>2 DEF ScanCost
      <4>2. scan.attested[1] \in FoundDirs("pkg")
        BY <1>1, <3>2 DEF ScanCost
      <4>3. on.dir \notin PackageDirs \/ on.inode \notin Files(on.dir)
        BY <2>1, <3>2, <4>1 DEF Sound
      <4>4. ASSUME on.dir = scan.attested[1], scan.attested[1] # "xp" PROVE Off
        BY <2>3, <4>2, <4>3, <4>4 DEF Off, FoundDirs
      <4>5. QED BY <2>3, <4>4 DEF Off
    <3>3. QED BY <2>4, <3>1, <3>2
  <2>7. QED BY <1>2, <2>1, <2>4, <2>5, <2>6 DEF CandidatesOK
<1>5. QED BY <1>3, <1>4

LEMMA ScanKeepsPlaces ==
  ASSUME TreeOK, RootsOK, CandidatesOK, ScanOK, ScanCost, Scan, scene' = scene
  PROVE  Keeps /\ CandidatesOK'
<1>1. UNCHANGED <<tree, scene>>
  BY DEF Scan, NextRoot, ScanCall, ScanStep, NoCandidate, ScanFails, ScanDirectory
<1>2. Spent' = Spent
  BY <1>1, TreeStands
<1>3. ASSUME candidates' = candidates PROVE CandidatesOK'
  BY <1>2, <1>3 DEF CandidatesOK
<1>4. CASE NextRoot
  BY <1>3, <1>4, NextRootKeeps DEF NextRoot
<1>5. CASE ScanCall \/ ScanStep
  <2>1. Scanning /\ Agrees(Seeing) /\ candidates' = candidates
    BY <1>5 DEF ScanCall, ScanStep
  <2>2. scan.step \in {"attest", "manifest", "declared", "issue"} \cup Late
    BY <2>1 DEF ScanOK, ScanKnows
  <2>3. Keeps
    BY <1>1, <1>5, <2>1, <2>2, AttestKeeps, ManifestKeeps, DeclaredKeeps, IssueKeeps, LateKeeps
  <2>4. QED BY <1>3, <2>1, <2>3
<1>6. CASE NoCandidate
  BY <1>1, <1>3, <1>6, NoCandidateKeeps DEF NoCandidate
<1>7. CASE ScanFails
  <2>1. Scanning /\ scan' = NextDirectory(<<>>) /\ candidates' = candidates
    BY <1>7 DEF ScanFails
  <2>2. <<>> \in Seq(Reach(scan.root.canonical))
    OBVIOUS
  <2>3. QED BY <1>3, <2>1, <2>2, NextKeeps
<1>8. CASE ScanDirectory
  <2>1. Scanning /\ scan' = NextDirectory(scan.inside)
    BY <1>8 DEF ScanDirectory
  <2>2. scan.inside \in Seq(Reach(scan.root.canonical))
    BY DEF ScanOK, ScanShape
  <2>3. QED BY <1>1, <1>8, <2>1, <2>2, NextKeeps, RecordedStands
<1>9. QED BY <1>4, <1>5, <1>6, <1>7, <1>8 DEF Scan

------------------------------------------------------------------------------
(* Every step.                                                               *)

LEMMA PlacedInit == Init => Placed
<1> SUFFICES ASSUME Init PROVE Placed
  OBVIOUS
<1>1. scene \in Scenes /\ changes = scene.changes /\ scene.changes \in Nat
      /\ scene.configuration \in Seq([path : Places, key : STRING, flaw : STRING])
  BY ScenesAssumption DEF Init
<1>2. TreeOK
  <2>1. /\ top \in RootDirs /\ inner \in [RootDirs -> PackageDirs \cup {Link, None}]
    BY DEF Init, TreeInit, RootDirs, PackageDirs
  <2>2. file = [p1 |-> "m1", p2 |-> "m2", xp |-> "mx"]
    BY DEF Init, TreeInit
  <2>3. /\ file \in [PackageDirs \cup {"xp"} -> Inodes \cup {Link, None}]
        /\ \A dir \in PackageDirs : file[dir] \in Files(dir) \cup {Link, None}
        /\ file["xp"] = "mx"
    BY <2>2, WhatFiles DEF PackageDirs, Inodes
  <2>4. text \in [Inodes -> Texts]
    BY DEF Init, TreeInit
  <2>5. QED BY <1>1, <2>1, <2>3, <2>4 DEF TreeOK
<1>3. RootsOK
  <2>1. inputs = scene.configuration /\ looked = <<>> /\ roots = <<>>
    BY DEF Init, AdmissionInit
  <2>2. Len(looked) = 0 /\ looked \in Seq(Marks)
        /\ roots \in Seq([key : STRING, canonical : Canonical])
    BY <2>1
  <2>3. QED BY <1>1, <2>1, <2>2 DEF RootsOK
<1>4. CandidatesOK
  BY DEF Init, DiscoveryInit, CandidatesOK
<1>5. ScanOK /\ ScanCost
  <2>1. scan = At(NoRoot, {}, <<>>)
    BY DEF Init, DiscoveryInit, Idle
  <2>2. scan.queue = <<>> /\ scan.inside = <<>> /\ scan.seen = <<>> /\ scan.attested = <<>>
        /\ scan.manifest = <<>>
    BY <2>1 DEF At
  <2>3. ScanShape
    BY <2>2 DEF ScanShape
  <2>4. QED BY <2>2, <2>3 DEF ScanOK, ScanCost, Scanning
<1>6. QED BY <1>2, <1>3, <1>4, <1>5 DEF Placed

(* The tree is changed under a scan.                                         *)
LEMMA ChangeKeepsPlaced ==
  ASSUME Placed, ChangeTree, scene' = scene, UNCHANGED <<admission, discovery>>
  PROVE  Placed'
<1>1. TreeOK' /\ Spent \in Nat /\ Spent' = Spent + 1
  BY TreeMoves DEF Placed
<1>2. scan' = scan /\ candidates' = candidates /\ inputs' = inputs /\ looked' = looked /\ roots' = roots
  BY DEF admission, discovery
<1>3. RootsOK'
  BY <1>2 DEF Placed, RootsOK
<1>4. CandidatesOK'
  BY <1>1, <1>2 DEF Placed, CandidatesOK
<1>5. /\ Opened' = Opened /\ Issued' = Issued /\ Off' = Off /\ Here' = Here
      /\ Scanning' = Scanning
  BY <1>2 DEF Opened, Issued, Off, Here, Scanning
<1>6. ScanOK'
  BY <1>2, <1>5 DEF Placed, ScanOK, ScanShape, ScanKnows
<1>7. ScanCost'
  <2>1. SUFFICES ASSUME Scanning, Here = "pkg" PROVE ScanCost'
    BY <1>5 DEF ScanCost
  <2>2. /\ Spent' >= 1
        /\ Spent >= 1 => Spent' >= 2
        /\ Spent >= 2 => Spent' >= 2
    BY <1>1
  <2>3. /\ scan.step = "attest" /\ Len(scan.seen) = 1 => scan.seen[1] \in FoundDirs("pkg")
        /\ scan.step # "attest" =>
             /\ scan.attested[1] \in FoundDirs("pkg")
             /\ Off => Spent >= 1
    BY <2>1 DEF Placed, ScanCost
  <2>4. QED BY <1>2, <1>5, <2>1, <2>2, <2>3 DEF ScanCost
<1>8. QED BY <1>1, <1>3, <1>4, <1>6, <1>7 DEF Placed

LEMMA PlacedStands ==
  ASSUME Placed, UNCHANGED <<tree, scene, discovery>>
  PROVE  /\ RootsOK' => Placed'
         /\ UNCHANGED admission => Placed'
<1>1. TreeOK' /\ Spent' = Spent /\ LStat("pkg")' = LStat("pkg")
  BY TreeStands DEF Placed
<1>2. scan' = scan /\ candidates' = candidates
  BY DEF discovery
<1>3. CandidatesOK'
  BY <1>1, <1>2 DEF Placed, CandidatesOK
<1>4. /\ Opened' = Opened /\ Issued' = Issued /\ Off' = Off /\ Here' = Here
      /\ Scanning' = Scanning
  BY <1>2 DEF Opened, Issued, Off, Here, Scanning
<1>5. ScanOK'
  BY <1>2, <1>4 DEF Placed, ScanOK, ScanShape, ScanKnows
<1>6. ScanCost'
  BY <1>1, <1>2, <1>4 DEF Placed, ScanCost
<1>7. UNCHANGED admission => RootsOK'
  BY DEF Placed, RootsOK, admission
<1>8. QED BY <1>1, <1>3, <1>5, <1>6, <1>7 DEF Placed

LEMMA PlacedNext == Placed /\ [Next]_vars => Placed'
<1> SUFFICES ASSUME Placed, [Next]_vars PROVE Placed'
  OBVIOUS
<1>1. CASE TreeChanges
  BY <1>1, ChangeKeepsPlaced DEF TreeChanges
<1>2. CASE AdmitRoots
  <2>1. UNCHANGED tree
    BY <1>2 DEF AdmitRoots, Admit, RejectInput, LookAtRoot, DecideRoot
  <2>2. QED BY <1>2, <2>1, AdmitKeepsRoots, PlacedStands DEF AdmitRoots, Placed
<1>3. CASE ScanRoots
  <2>1. Keeps /\ CandidatesOK'
    BY <1>3, ScanKeepsPlaces DEF ScanRoots, Placed
  <2>2. UNCHANGED <<tree, scene>> /\ UNCHANGED admission
    BY <1>3 DEF ScanRoots, Scan, NextRoot, ScanCall, ScanStep, NoCandidate, ScanFails, ScanDirectory
  <2>3. TreeOK' /\ RootsOK'
    BY <2>2, TreeStands DEF Placed, RootsOK, admission
  <2>4. QED BY <2>1, <2>3 DEF Keeps, Placed
<1>4. CASE HandOverCandidates
  BY <1>4, PlacedStands DEF HandOverCandidates, HandOver
<1>5. CASE WriteTarget
  BY <1>5, PlacedStands DEF WriteTarget
<1>6. CASE AskNative \/ RunCommand \/ TakeAnswer \/ ReadInventory \/ UNCHANGED vars
  BY <1>6, PlacedStands DEF AskNative, RunCommand, TakeAnswer, ReadInventory, vars
<1>7. QED BY <1>1, <1>2, <1>3, <1>4, <1>5, <1>6 DEF Next
------------------------------------------------------------------------------
(* What a caller sees.                                                       *)

LEMMA HandCallsAre ==
  /\ \A step \in {"before", "after"} :
       HandCalls(step) = <<"lstat", "realpath", "leaf", "open", "read", "lstat", "realpath">>
  /\ \A step \in {"inspect", "validate"} :
       HandCalls(step) = <<"lstat", "realpath", "lstat", "leaf", "open", "read", "settle",
                           "lstat", "realpath", "lstat">>
<1>1. Revalidate = <<"lstat", "realpath", "leaf", "open", "read", "lstat", "realpath">>
  BY DEF Revalidate
<1>2. QED BY <1>1 DEF HandCalls, Inspect

(* The call that comes next, and what it answers.                            *)
LEMMA CallAsks ==
  ASSUME NEW caller \in Callers, NEW n \in Nat, Len(hand[caller].seen) = n
  PROVE  /\ hand[caller].step \in {"before", "after"} =>
              /\ n \in {0, 5} => HandSees(caller) = Append(hand[caller].seen, LStat(hand[caller].on.path))
              /\ n \in {1, 6} => HandSees(caller) = Append(hand[caller].seen, RealPath(hand[caller].on.path))
              /\ n \in {2, 3} => HandSees(caller) = Append(hand[caller].seen, LStatManifest(hand[caller].on.path))
              /\ n = 4 => HandSees(caller) = Append(hand[caller].seen, text[hand[caller].seen[4]])
         /\ hand[caller].step \in {"inspect", "validate"} =>
              /\ n \in {0, 2, 7, 9} => HandSees(caller) = Append(hand[caller].seen, LStat(hand[caller].on.path))
              /\ n \in {1, 8} => HandSees(caller) = Append(hand[caller].seen, RealPath(hand[caller].on.path))
              /\ n \in {3, 4, 6} => HandSees(caller) = Append(hand[caller].seen, LStatManifest(hand[caller].on.path))
              /\ n = 5 => HandSees(caller) = Append(hand[caller].seen, text[hand[caller].seen[5]])
<1> DEFINE calls == HandCalls(hand[caller].step)
           path == hand[caller].on.path
           seen == hand[caller].seen
<1>1. HandSees(caller) = Append(seen, Ask(calls[n + 1], path, seen))
  BY DEF HandSees
<1>2. /\ Ask("lstat", path, seen) = LStat(path) /\ Ask("realpath", path, seen) = RealPath(path)
      /\ Ask("leaf", path, seen) = LStatManifest(path)
      /\ Ask("open", path, seen) = LStatManifest(path)
      /\ Ask("settle", path, seen) = LStatManifest(path)
      /\ Ask("read", path, seen) = text[seen[n]]
  BY AsksAre
<1>3. ASSUME hand[caller].step \in {"before", "after"}
      PROVE  /\ n \in {0, 5} => calls[n + 1] = "lstat"
             /\ n \in {1, 6} => calls[n + 1] = "realpath"
             /\ n = 2 => calls[n + 1] = "leaf"
             /\ n = 3 => calls[n + 1] = "open"
             /\ n = 4 => calls[n + 1] = "read"
  <2>1. calls = <<"lstat", "realpath", "leaf", "open", "read", "lstat", "realpath">>
    BY <1>3, HandCallsAre
  <2> HIDE DEF calls
  <2>2. QED BY <2>1
<1>4. ASSUME hand[caller].step \in {"inspect", "validate"}
      PROVE  /\ n \in {0, 2, 7, 9} => calls[n + 1] = "lstat"
             /\ n \in {1, 8} => calls[n + 1] = "realpath"
             /\ n = 3 => calls[n + 1] = "leaf"
             /\ n = 4 => calls[n + 1] = "open"
             /\ n = 6 => calls[n + 1] = "settle"
             /\ n = 5 => calls[n + 1] = "read"
  <2>1. calls = <<"lstat", "realpath", "lstat", "leaf", "open", "read", "settle",
                  "lstat", "realpath", "lstat">>
    BY <1>4, HandCallsAre
  <2> HIDE DEF calls
  <2>2. QED BY <2>1
<1> HIDE DEF calls, path, seen
<1>5. ASSUME hand[caller].step \in {"before", "after"}
      PROVE  /\ n \in {0, 5} => HandSees(caller) = Append(seen, LStat(path))
             /\ n \in {1, 6} => HandSees(caller) = Append(seen, RealPath(path))
             /\ n \in {2, 3} => HandSees(caller) = Append(seen, LStatManifest(path))
             /\ n = 4 => HandSees(caller) = Append(seen, text[seen[4]])
  BY <1>1, <1>2, <1>3, <1>5
<1>6. ASSUME hand[caller].step \in {"inspect", "validate"}
      PROVE  /\ n \in {0, 2, 7, 9} => HandSees(caller) = Append(seen, LStat(path))
             /\ n \in {1, 8} => HandSees(caller) = Append(seen, RealPath(path))
             /\ n \in {3, 4, 6} => HandSees(caller) = Append(seen, LStatManifest(path))
             /\ n = 5 => HandSees(caller) = Append(seen, text[seen[5]])
  BY <1>1, <1>2, <1>4, <1>6
<1>7. QED BY <1>5, <1>6 DEF path, seen

(* What the checks say of what was seen.                                     *)
LEMMA RevalidatesSays ==
  ASSUME NEW on, NEW s \in Seq(Answers), Revalidates(on, s)
  PROVE  /\ Len(s) >= 2 => s[1] = on.dir /\ s[2] = on.path
         /\ Len(s) >= 4 => s[4] \in Inodes
         /\ Len(s) >= 5 => s[4] = on.inode /\ s[5] = on.said
         /\ Len(s) >= 7 => s[6] = on.dir /\ s[7] = on.path
<1>1. \A i \in 1 .. Len(s) :
         /\ i = 2 => s[1] = on.dir /\ s[2] = on.path
         /\ i = 4 => IsFile(s[4])
         /\ i = 5 => s[4] = on.inode /\ s[5] = on.said
         /\ i = 7 => s[6] = on.dir /\ s[7] = on.path
  BY DEF Revalidates
<1>2. Len(s) \in Nat
  OBVIOUS
<1>3. ASSUME Len(s) >= 2 PROVE s[1] = on.dir /\ s[2] = on.path
  <2>1. 2 \in 1 .. Len(s)
    BY <1>2, <1>3
  <2>2. QED BY <1>1, <2>1
<1>4. ASSUME Len(s) >= 4 PROVE s[4] \in Inodes
  <2>1. 4 \in 1 .. Len(s)
    BY <1>2, <1>4
  <2>2. QED BY <1>1, <2>1 DEF IsFile
<1>5. ASSUME Len(s) >= 5 PROVE s[4] = on.inode /\ s[5] = on.said
  <2>1. 5 \in 1 .. Len(s)
    BY <1>2, <1>5
  <2>2. QED BY <1>1, <2>1
<1>6. ASSUME Len(s) >= 7 PROVE s[6] = on.dir /\ s[7] = on.path
  <2>1. 7 \in 1 .. Len(s)
    BY <1>2, <1>6
  <2>2. QED BY <1>1, <2>1
<1>7. QED BY <1>3, <1>4, <1>5, <1>6

LEMMA InspectsSays ==
  ASSUME NEW on, NEW s \in Seq(Answers), Inspects(on, s)
  PROVE  /\ Len(s) >= 3 => s[1] = s[3] /\ s[2] = on.path
         /\ Len(s) >= 5 => s[5] = s[4] /\ s[5] \in Inodes
         /\ Len(s) >= 10 => /\ s[1] = on.dir /\ s[10] = on.dir
                            /\ s[5] = on.inode /\ s[6] = on.said
<1>1. Len(s) \in Nat
  OBVIOUS
<1>2. \A i \in 1 .. Len(s) :
         /\ i = 3 => SameDirectory(on, s, 3)
         /\ i = 4 => IsFile(s[4])
         /\ i = 5 => s[5] = s[4]
         /\ i = 10 => /\ s[10] = s[3]
                      /\ <<s[10], s[5], s[6]>> = <<on.dir, on.inode, on.said>>
  BY DEF Inspects
<1>3. ASSUME Len(s) >= 3 PROVE s[1] = s[3] /\ s[2] = on.path
  <2>1. 3 \in 1 .. Len(s)
    BY <1>1, <1>3
  <2>2. QED BY <1>2, <2>1 DEF SameDirectory
<1>4. ASSUME Len(s) >= 5 PROVE s[5] = s[4] /\ s[5] \in Inodes
  <2>1. 4 \in 1 .. Len(s) /\ 5 \in 1 .. Len(s)
    BY <1>1, <1>4
  <2>2. QED BY <1>2, <2>1 DEF IsFile
<1>5. ASSUME Len(s) >= 10
      PROVE  s[1] = on.dir /\ s[10] = on.dir /\ s[5] = on.inode /\ s[6] = on.said
  <2>1. 10 \in 1 .. Len(s) /\ Len(s) >= 3
    BY <1>1, <1>5
  <2>2. s[10] = s[3] /\ <<s[10], s[5], s[6]>> = <<on.dir, on.inode, on.said>>
    BY <1>2, <2>1
  <2>3. QED BY <1>3, <2>1, <2>2
<1>6. QED BY <1>3, <1>4, <1>5

(* The candidate in hand is one that was recorded.                           *)
LEMMA InHand ==
  ASSUME CandidatesOK, Once, NEW caller \in Callers, hand[caller].step \in Busy
  PROVE  /\ hand[caller].on.path \in {"pkg", "outPkg"}
         /\ hand[caller].on.dir \in FoundDirs(hand[caller].on.path)
         /\ hand[caller].on.inode \in FoundFiles(hand[caller].on.path)
         /\ ~Sound(hand[caller].on) => Spent >= 2
  BY DEF CandidatesOK, Once, Taken

LEMMA SeesOn ==
  ASSUME Placed, HandOK, Once, NEW caller \in Callers, Handing(caller)
  PROVE  /\ HandSees(caller) \in Seq(Answers)
         /\ Len(HandSees(caller)) = Len(hand[caller].seen) + 1
         /\ \A i \in 1 .. Len(hand[caller].seen) : HandSees(caller)[i] = hand[caller].seen[i]
         /\ \A x : HandSees(caller) = Append(hand[caller].seen, x) =>
                    HandSees(caller)[Len(hand[caller].seen) + 1] = x
<1> DEFINE seen == hand[caller].seen
           path == hand[caller].on.path
           n == Len(seen)
<1>1. seen \in Seq(Answers) /\ n \in Nat
      /\ n < Len(HandCalls(hand[caller].step))
      /\ HandAgrees(hand[caller].step, hand[caller].on, seen)
  BY DEF HandOK, HandOf
<1>2. path \in Places
  BY InHand DEF Handing, Busy, Places, Placed
<1>3. LStat(path) \in Answers /\ RealPath(path) \in Answers
  BY <1>2, PlaceAnswers DEF Answers, Marks, Placed
<1>4. LStatManifest(path) \in Answers
  <2>1. path \in {"pkg", "outPkg"}
    BY InHand DEF Handing, Busy, Placed
  <2>2. QED BY <2>1, ManifestFacts DEF Placed, Answers, Marks, Inodes
<1>5. ASSUME hand[caller].step \in {"before", "after"}
      PROVE  \E x \in Answers : HandSees(caller) = Append(seen, x)
  <2>1. Len(HandCalls(hand[caller].step)) = 7
    <3>1. HandCalls(hand[caller].step) =
            <<"lstat", "realpath", "leaf", "open", "read", "lstat", "realpath">>
      BY <1>5, HandCallsAre
    <3>2. QED BY <3>1
  <2>2. n \in 0 .. 6
    <3>1. n \in Nat /\ n < 7
      BY <1>1, <2>1
    <3> HIDE DEF n
    <3>2. QED BY <3>1
  <2>3. CASE n = 4
    <3>1. seen[4] \in Inodes
      BY <1>1, <1>5, <2>3, RevalidatesSays DEF HandAgrees
    <3>2. text[seen[4]] \in Answers
      BY <3>1 DEF Placed, TreeOK, Answers
    <3>3. QED BY <1>1, <1>5, <2>3, <3>2, CallAsks
  <2>4. CASE n # 4
    <3>1. n \in {0, 5} \/ n \in {1, 6} \/ n \in {2, 3}
      BY <2>2, <2>4
    <3>2. QED BY <1>1, <1>3, <1>4, <1>5, <3>1, CallAsks
  <2>5. QED BY <2>3, <2>4
<1>6. ASSUME hand[caller].step \in {"inspect", "validate"}
      PROVE  \E x \in Answers : HandSees(caller) = Append(seen, x)
  <2>1. Len(HandCalls(hand[caller].step)) = 10
    <3>1. HandCalls(hand[caller].step) =
            <<"lstat", "realpath", "lstat", "leaf", "open", "read", "settle",
              "lstat", "realpath", "lstat">>
      BY <1>6, HandCallsAre
    <3>2. QED BY <3>1
  <2>2. n \in 0 .. 9
    <3>1. n \in Nat /\ n < 10
      BY <1>1, <2>1
    <3> HIDE DEF n
    <3>2. QED BY <3>1
  <2>3. CASE n = 5
    <3>1. seen[5] \in Inodes
      BY <1>1, <1>6, <2>3, InspectsSays DEF HandAgrees
    <3>2. text[seen[5]] \in Answers
      BY <3>1 DEF Placed, TreeOK, Answers
    <3>3. QED BY <1>1, <1>6, <2>3, <3>2, CallAsks
  <2>4. CASE n # 5
    <3>1. n \in {0, 2, 7, 9} \/ n \in {1, 8} \/ n \in {3, 4, 6}
      BY <2>2, <2>4
    <3>2. QED BY <1>1, <1>3, <1>4, <1>6, <3>1, CallAsks
  <2>5. QED BY <2>3, <2>4
<1>7. PICK x \in Answers : HandSees(caller) = Append(seen, x)
  BY <1>5, <1>6 DEF Handing
<1> HIDE DEF seen
<1>8. /\ HandSees(caller) \in Seq(Answers) /\ Len(HandSees(caller)) = Len(seen) + 1
      /\ \A i \in 1 .. Len(seen) : HandSees(caller)[i] = seen[i]
  BY <1>1, <1>7, Appended
<1>9. \A y : HandSees(caller) = Append(seen, y) => HandSees(caller)[Len(seen) + 1] = y
  BY <1>1
<1>10. QED BY <1>8, <1>9 DEF seen

------------------------------------------------------------------------------
(* What a mixture costs: every look at it takes two changes more.            *)

LEMMA NotSound ==
  ASSUME NEW on, ~Sound(on), on.path \in {"pkg", "outPkg"},
         on.dir \in FoundDirs(on.path), on.inode \in FoundFiles(on.path)
  PROVE  /\ on.path = "pkg" /\ on.dir \in PackageDirs \cup {"xp"}
         /\ on.dir # "xp" => on.dir \in PackageDirs /\ on.inode \notin Files(on.dir)
<1>1. on.path = "pkg"
  BY DEF Sound, FoundDirs, FoundFiles
<1>2. QED BY <1>1 DEF Sound, FoundDirs

LEMMA BasesAre ==
  /\ Base("before") = 2 /\ Base("inspect") = 4 /\ Base("after") = 6 /\ Base("given") = 8
  /\ Base("validate") = 8 /\ Base("written") = 8
  /\ Opens("before") = 4 /\ Opens("inspect") = 5 /\ Opens("after") = 4 /\ Opens("validate") = 5
  BY DEF Base, Opens

LEMMA FreshCost ==
  ASSUME NEW step \in {"before", "inspect", "after", "given", "validate", "written"}, NEW on,
         Spent >= Base(step)
  PROVE  HandCost(step, on, <<>>)
<1>1. Len(<<>>) = 0
  OBVIOUS
<1>2. ~Shown(step, on, <<>>)
  BY <1>1 DEF Shown, Opens
<1>3. QED BY <1>1, <1>2 DEF HandCost

(* A call sees where things stand, and that is where the bound comes from.   *)
LEMMA NextSeen ==
  ASSUME Placed, HandOK, Once, NEW caller \in Callers, Handing(caller),
         NEW n \in Nat, Len(hand[caller].seen) = n
  PROVE  LET step == hand[caller].step
             path == hand[caller].on.path
             s == HandSees(caller)
         IN  /\ n = 0 => s[1] = LStat(path)
             /\ n = 1 => s[2] = RealPath(path)
             /\ step \in {"before", "after"} /\ n = 5 => s[6] = LStat(path)
             /\ step \in {"inspect", "validate"} /\ n = 9 => s[10] = LStat(path)
             /\ n + 1 = Opens(step) => s[Opens(step)] = LStatManifest(path)
             /\ n = Opens(step) => s[Opens(step) + 1] = text[hand[caller].seen[n]]
<1> DEFINE step == hand[caller].step
           path == hand[caller].on.path
           s == HandSees(caller)
           seen == hand[caller].seen
<1>1. \A x : s = Append(seen, x) => s[n + 1] = x
  BY SeesOn
<1>2. step \in {"before", "after"} \/ step \in {"inspect", "validate"}
  BY DEF Handing
<1>3. ASSUME step \in {"before", "after"}
      PROVE  /\ n = 0 => s[1] = LStat(path)
             /\ n = 1 => s[2] = RealPath(path)
             /\ n = 5 => s[6] = LStat(path)
             /\ n = 3 => s[4] = LStatManifest(path)
             /\ n = 4 => s[5] = text[seen[4]]
             /\ Opens(step) = 4
  <2>1. /\ n \in {0, 5} => s = Append(seen, LStat(path))
        /\ n = 1 => s = Append(seen, RealPath(path))
        /\ n = 3 => s = Append(seen, LStatManifest(path))
        /\ n = 4 => s = Append(seen, text[seen[4]])
    BY <1>3, CallAsks
  <2> HIDE DEF s, seen, path
  <2>2. QED BY <1>1, <1>3, <2>1 DEF Opens
<1>4. ASSUME step \in {"inspect", "validate"}
      PROVE  /\ n = 0 => s[1] = LStat(path)
             /\ n = 1 => s[2] = RealPath(path)
             /\ n = 9 => s[10] = LStat(path)
             /\ n = 4 => s[5] = LStatManifest(path)
             /\ n = 5 => s[6] = text[seen[5]]
             /\ Opens(step) = 5
  <2>1. /\ n \in {0, 9} => s = Append(seen, LStat(path))
        /\ n = 1 => s = Append(seen, RealPath(path))
        /\ n = 4 => s = Append(seen, LStatManifest(path))
        /\ n = 5 => s = Append(seen, text[seen[5]])
    BY <1>4, CallAsks
  <2> HIDE DEF s, seen, path
  <2>2. QED BY <1>1, <1>4, <2>1 DEF Opens
<1> HIDE DEF s, seen, path
<1>5. QED BY <1>2, <1>3, <1>4 DEF s, seen, path

LEMMA CallCosts ==
  ASSUME Placed, HandOK, Once, NEW caller \in Callers,
         hand[caller].step \in {"before", "inspect", "after"},
         HandAgreed(caller), ~Sound(hand[caller].on),
         HandCost(hand[caller].step, hand[caller].on, hand[caller].seen)
  PROVE  HandCost(hand[caller].step, hand[caller].on, HandSees(caller))
<1> DEFINE step == hand[caller].step
           on == hand[caller].on
           seen == hand[caller].seen
           s == HandSees(caller)
           n == Len(seen)
<1>1. Handing(caller) /\ step \in Busy
  BY DEF Handing, Busy
<1>2. /\ on.path = "pkg" /\ on.dir \in PackageDirs \cup {"xp"}
      /\ on.dir # "xp" => on.dir \in PackageDirs /\ on.inode \notin Files(on.dir)
      /\ on.inode \in Inodes
  <2>1. /\ on.path \in {"pkg", "outPkg"} /\ on.dir \in FoundDirs(on.path)
        /\ on.inode \in FoundFiles(on.path)
    BY <1>1, InHand DEF Placed
  <2>2. on.inode \in Inodes
    BY <2>1 DEF FoundFiles, Inodes
  <2>3. QED BY <2>1, <2>2, NotSound
<1>3. /\ n \in Nat /\ Len(s) = n + 1 /\ \A i \in 1 .. n : s[i] = seen[i]
  BY <1>1, SeesOn DEF HandOK, HandOf
<1>4. /\ n = 0 => s[1] = LStat("pkg")
      /\ n = 1 => s[2] = RealPath("pkg")
      /\ step # "inspect" /\ n = 5 => s[6] = LStat("pkg")
      /\ n + 1 = Opens(step) => s[Opens(step)] = LStatManifest("pkg")
  BY <1>1, <1>2, <1>3, NextSeen
<1>5. /\ Spent >= Base(step)
      /\ n >= 1 /\ seen[1] = on.dir /\ LStat("pkg") # on.dir => Spent >= Base(step) + 1
      /\ Shown(step, on, seen) =>
           Spent >= Base(step) + 1 /\ (LStat("pkg") = on.dir => Spent >= Base(step) + 2)
      /\ step # "inspect" /\ Shown(step, on, seen) /\ n >= 6 /\ seen[6] = on.dir
           => Spent >= Base(step) + 2
  BY <1>2 DEF HandCost
<1>6. Opens(step) \in {4, 5} /\ Spent \in Int /\ Base(step) \in Nat
  <2>1. Spent \in Int
    BY ScenesAssumption DEF Placed, TreeOK, Spent
  <2>2. QED BY <2>1, BasesAre
<1>7. TreeOK
  BY DEF Placed
<1> HIDE DEF s, seen, n, on, step
<1>8. ASSUME s[1] = on.dir, LStat("pkg") # on.dir PROVE Spent >= Base(step) + 1
  <2>1. n # 0
    BY <1>4, <1>8
  <2>2. n >= 1 /\ seen[1] = on.dir
    BY <1>3, <1>8, <2>1
  <2>3. QED BY <1>5, <1>8, <2>2
<1>9. ASSUME Shown(step, on, s)
      PROVE  /\ Spent >= Base(step) + 1 /\ (LStat("pkg") = on.dir => Spent >= Base(step) + 2)
             /\ n >= 5 => Shown(step, on, seen)
  <2>1. CASE Shown(step, on, seen)
    BY <1>5, <2>1
  <2>2. CASE ~Shown(step, on, seen) /\ on.dir = "xp"
    <3>1. n + 1 >= 2 /\ s[1] = on.dir /\ s[2] = on.path
      BY <1>3, <1>9, <2>2 DEF Shown
    <3>2. n < 2
      <4>1. SUFFICES ASSUME n >= 2 PROVE FALSE
        BY <1>3
      <4>2. seen[1] = s[1] /\ seen[2] = s[2]
        BY <1>3, <4>1
      <4>3. QED BY <2>2, <3>1, <4>1, <4>2 DEF Shown, n
    <3>3. n = 1
      BY <1>3, <3>1, <3>2
    <3>4. RealPath("pkg") = "pkg"
      BY <1>2, <1>4, <3>1, <3>3
    <3>5. LStat("pkg") # on.dir
      BY <1>7, <2>2, <3>4, PkgFacts DEF PackageDirs
    <3>6. QED BY <1>8, <3>1, <3>3, <3>5
  <2>3. CASE ~Shown(step, on, seen) /\ on.dir # "xp"
    <3>1. n + 1 >= Opens(step) /\ s[1] = on.dir /\ s[Opens(step)] = on.inode
      BY <1>3, <1>9, <2>3 DEF Shown
    <3>2. n < Opens(step)
      <4>1. SUFFICES ASSUME n >= Opens(step) PROVE FALSE
        BY <1>3, <1>6
      <4>2. 1 \in 1 .. n /\ Opens(step) \in 1 .. n
        BY <1>3, <1>6, <4>1
      <4>3. seen[1] = s[1] /\ seen[Opens(step)] = s[Opens(step)]
        BY <1>3, <4>2
      <4>4. QED BY <2>3, <3>1, <4>1, <4>3 DEF Shown, n
    <3>3. n + 1 = Opens(step)
      BY <1>3, <1>6, <3>1, <3>2
    <3>4. LStatManifest("pkg") = on.inode
      BY <1>4, <3>1, <3>3
    <3>5. LStat("pkg") # on.dir
      BY <1>2, <1>7, <2>3, <3>4, ManifestElsewhere
    <3>6. n < 5
      BY <1>3, <1>6, <3>3
    <3>7. QED BY <1>3, <1>8, <3>1, <3>5, <3>6
  <2>4. QED BY <2>1, <2>2, <2>3
<1>10. ASSUME step # "inspect", Shown(step, on, s), n + 1 >= 6, s[6] = on.dir
       PROVE  Spent >= Base(step) + 2
  <2>1. Shown(step, on, seen)
    BY <1>3, <1>9, <1>10
  <2>2. CASE n = 5
    BY <1>4, <1>9, <1>10, <2>2
  <2>3. CASE n # 5
    <3>1. n >= 6 /\ seen[6] = on.dir
      BY <1>3, <1>10, <2>3
    <3>2. QED BY <1>5, <1>10, <2>1, <3>1
  <2>4. QED BY <2>2, <2>3
<1>11. QED BY <1>2, <1>3, <1>5, <1>8, <1>9, <1>10 DEF HandCost, s, on, step, seen, n

(* So a step whose calls all agree has cost two changes more.                *)
LEMMA LookPassed ==
  ASSUME Placed, HandOK, Once, NEW caller \in Callers,
         hand[caller].step \in {"before", "inspect", "after"},
         HandAgreed(caller), HandLast(caller), ~Sound(hand[caller].on),
         HandCost(hand[caller].step, hand[caller].on, hand[caller].seen)
  PROVE  Spent >= Base(hand[caller].step) + 2
<1> DEFINE step == hand[caller].step
           on == hand[caller].on
           s == HandSees(caller)
<1>1. Handing(caller) /\ step \in Busy
  BY DEF Handing, Busy
<1>2. s \in Seq(Answers) /\ HandAgrees(step, on, s) /\ Len(s) = Len(HandCalls(step))
  BY <1>1, SeesOn DEF HandAgreed, HandLast
<1>3. on.path = "pkg"
  BY <1>1, InHand, NotSound DEF Placed
<1>4. HandCost(step, on, s)
  BY CallCosts
<1>5. CASE step \in {"before", "after"}
  <2>1. Len(s) = 7
    <3>1. HandCalls(step) =
            <<"lstat", "realpath", "leaf", "open", "read", "lstat", "realpath">>
      BY <1>5, HandCallsAre
    <3>2. Len(<<"lstat", "realpath", "leaf", "open", "read", "lstat", "realpath">>) = 7
      OBVIOUS
    <3>3. QED BY <1>2, <3>1, <3>2
  <2>2. Revalidates(on, s)
    BY <1>2, <1>5 DEF HandAgrees
  <2> HIDE DEF s, on
  <2>3. s[1] = on.dir /\ s[2] = on.path /\ s[4] = on.inode /\ s[6] = on.dir
    <3>1. Len(s) >= 2 /\ Len(s) >= 5 /\ Len(s) >= 7
      BY <2>1
    <3>2. s \in Seq(Answers)
      BY <1>2
    <3>3. QED BY <2>2, <3>1, <3>2, RevalidatesSays
  <2>4. Shown(step, on, s)
    BY <1>5, <2>1, <2>3 DEF Shown, Opens
  <2>5. QED BY <1>4, <1>5, <2>1, <2>3, <2>4 DEF HandCost
<1>6. CASE step = "inspect"
  <2>1. Len(s) = 10 /\ Len(hand[caller].seen) = 9
    <3>1. HandCalls(step) =
            <<"lstat", "realpath", "lstat", "leaf", "open", "read", "settle",
              "lstat", "realpath", "lstat">>
      BY <1>6, HandCallsAre
    <3>2. Len(<<"lstat", "realpath", "lstat", "leaf", "open", "read", "settle",
              "lstat", "realpath", "lstat">>) = 10
      OBVIOUS
    <3>3. Len(s) = 10
      BY <1>2, <3>1, <3>2
    <3> DEFINE n == Len(hand[caller].seen)
    <3>4. Len(s) = n + 1 /\ n \in Nat
      BY <1>1, SeesOn DEF HandOK, HandOf
    <3> HIDE DEF n, s, step
    <3>5. n = 9
      <4>1. \A k \in Nat : 10 = k + 1 => k = 9
        OBVIOUS
      <4>2. QED BY <3>3, <3>4, <4>1, Zenon
    <3>6. QED BY <3>3, <3>5 DEF n
  <2>2. s[10] = LStat("pkg")
    BY <1>1, <1>3, <1>6, <2>1, NextSeen
  <2>3. Inspects(on, s)
    BY <1>2, <1>6 DEF HandAgrees
  <2> HIDE DEF s
  <2>4. s[1] = on.dir /\ s[2] = on.path /\ s[5] = on.inode /\ s[10] = on.dir
    BY <1>2, <2>1, <2>3, InspectsSays
  <2>5. Shown(step, on, s)
    BY <1>6, <2>1, <2>4 DEF Shown, Opens
  <2>6. QED BY <1>3, <1>4, <1>6, <2>2, <2>4, <2>5 DEF HandCost
<1>7. QED BY <1>5, <1>6

------------------------------------------------------------------------------
(* What is sound and was seen, was there.                                    *)

LEMMA CallVouches ==
  ASSUME Placed, HandOK, Once, NEW caller \in Callers, hand[caller].step \in Watched,
         Sound(hand[caller].on), HoldOf(caller)
  PROVE  LET on == hand[caller].on
             s == HandSees(caller)
             i == Opens(hand[caller].step)
         IN  /\ Len(s) >= i /\ s[i] = on.inode /\ text[on.inode] = on.said
                  => held[caller] \/ Vouched(on)
             /\ Len(s) > i /\ s[i] = on.inode /\ s[i + 1] = on.said
                  => held[caller] \/ Vouched(on)
<1> DEFINE step == hand[caller].step
           on == hand[caller].on
           seen == hand[caller].seen
           s == HandSees(caller)
           i == Opens(step)
           n == Len(seen)
<1>1. Handing(caller) /\ i \in {4, 5}
  BY BasesAre DEF Handing, Watched
<1>2. n \in Nat /\ Len(s) = n + 1 /\ \A k \in 1 .. n : s[k] = seen[k]
  BY <1>1, SeesOn DEF HandOK, HandOf
<1>3. /\ n + 1 = i => s[i] = LStatManifest(on.path)
      /\ n = i => s[i + 1] = text[seen[n]]
  BY <1>1, <1>2, NextSeen
<1>4. /\ n >= i /\ seen[i] = on.inode /\ text[on.inode] = on.said => held[caller]
      /\ n > i /\ seen[i] = on.inode /\ seen[i + 1] = on.said => held[caller]
  BY DEF HoldOf
<1>5. TreeOK /\ Sound(on)
  BY DEF Placed
<1> HIDE DEF s, seen, n, on, step, i
<1>6. ASSUME Len(s) >= i, s[i] = on.inode, text[on.inode] = on.said
      PROVE  held[caller] \/ Vouched(on)
  <2>1. CASE n + 1 = i
    BY <1>3, <1>5, <1>6, <2>1, ManifestHere DEF Vouched
  <2>2. CASE n + 1 # i
    <3>1. n >= i /\ i \in 1 .. n
      BY <1>1, <1>2, <1>6, <2>2
    <3>2. QED BY <1>2, <1>4, <1>6, <3>1
  <2>3. QED BY <2>1, <2>2
<1>7. ASSUME Len(s) > i, s[i] = on.inode, s[i + 1] = on.said
      PROVE  held[caller] \/ Vouched(on)
  <2>1. n >= i /\ seen[i] = on.inode
    BY <1>1, <1>2, <1>7
  <2>2. CASE n = i
    BY <1>3, <1>4, <1>7, <2>1, <2>2
  <2>3. CASE n # i
    <3>1. n > i /\ i + 1 \in 1 .. n
      BY <1>1, <1>2, <2>1, <2>3
    <3>2. seen[i + 1] = on.said
      BY <1>2, <1>7, <3>1
    <3>3. QED BY <1>4, <2>1, <3>1, <3>2
  <2>4. QED BY <2>2, <2>3
<1>8. QED BY <1>6, <1>7 DEF s, on, step, i

(* All calls of a step that is watched agree: then it was there.             *)
LEMMA AllVouched ==
  ASSUME Placed, HandOK, Once, NEW caller \in Callers, hand[caller].step \in Watched,
         Sound(hand[caller].on), HoldOf(caller), HandAgreed(caller), HandLast(caller)
  PROVE  held[caller] \/ Vouched(hand[caller].on)
<1> DEFINE step == hand[caller].step
           on == hand[caller].on
           s == HandSees(caller)
<1>1. Handing(caller)
  BY DEF Handing, Watched
<1>2. s \in Seq(Answers) /\ HandAgrees(step, on, s) /\ Len(s) = Len(HandCalls(step))
  BY <1>1, SeesOn DEF HandAgreed, HandLast
<1>3. CASE step = "after"
  <2>1. Len(s) = 7
    <3>1. HandCalls(step) =
            <<"lstat", "realpath", "leaf", "open", "read", "lstat", "realpath">>
      BY <1>3, HandCallsAre
    <3>2. Len(<<"lstat", "realpath", "leaf", "open", "read", "lstat", "realpath">>) = 7
      OBVIOUS
    <3>3. QED BY <1>2, <3>1, <3>2
  <2>2. Revalidates(on, s)
    BY <1>2, <1>3 DEF HandAgrees
  <2>3. Len(s) > 4 /\ s[4] = on.inode /\ s[4 + 1] = on.said
    <3> HIDE DEF s
    <3>1. QED BY <1>2, <2>1, <2>2, RevalidatesSays
  <2>4. QED BY <1>3, <2>3, CallVouches, BasesAre
<1>4. CASE step = "validate"
  <2>1. Len(s) = 10
    <3>1. HandCalls(step) =
            <<"lstat", "realpath", "lstat", "leaf", "open", "read", "settle",
              "lstat", "realpath", "lstat">>
      BY <1>4, HandCallsAre
    <3>2. Len(<<"lstat", "realpath", "lstat", "leaf", "open", "read", "settle",
              "lstat", "realpath", "lstat">>) = 10
      OBVIOUS
    <3>3. QED BY <1>2, <3>1, <3>2
  <2>2. Inspects(on, s)
    BY <1>2, <1>4 DEF HandAgrees
  <2>3. Len(s) > 5 /\ s[5] = on.inode /\ s[5 + 1] = on.said
    <3> HIDE DEF s
    <3>1. QED BY <1>2, <2>1, <2>2, InspectsSays
  <2>4. QED BY <1>4, <2>3, CallVouches, BasesAre
<1>5. QED BY <1>3, <1>4 DEF Watched

------------------------------------------------------------------------------
(* One caller's step.                                                        *)

Costly == {"before", "inspect", "after", "given", "validate", "written"}

LEMMA WatchIs ==
  ASSUME Watch, NEW caller \in Callers
  PROVE  /\ hand[caller].step \in Watched
              /\ (hand'[caller].step \notin Watched \/ hand'[caller].step = hand[caller].step)
            => held'[caller] <=> (held[caller] \/ Vouched(hand[caller].on)')
         /\ hand[caller].step \notin Watched /\ hand'[caller].step \notin Watched
            => held'[caller] = held[caller]
  BY DEF Watch

LEMMA CostStands ==
  ASSUME UNCHANGED <<tree, scene>>, NEW step, NEW on, NEW seen
  PROVE  /\ HandCost(step, on, seen)' <=> HandCost(step, on, seen)
         /\ Vouched(on)' <=> Vouched(on)
         /\ Spent' = Spent /\ text' = text
<1>1. /\ top' = top /\ inner' = inner /\ file' = file /\ text' = text /\ changes' = changes
      /\ scene' = scene
  BY DEF tree
<1>2. LStat(on.path)' = LStat(on.path) /\ Spent' = Spent
  BY <1>1 DEF LStat, Spent
<1>3. HandCost(step, on, seen)' <=> HandCost(step, on, seen)
  BY <1>2 DEF HandCost, Base, Shown, Opens
<1>4. RealPath(on.path)' = RealPath(on.path)
  BY <1>1, <1>2 DEF RealPath
<1>5. LStatManifest(on.path)' = LStatManifest(on.path)
  BY <1>1, <1>2 DEF LStatManifest, LeadsTo
<1>6. QED BY <1>1, <1>2, <1>3, <1>4, <1>5 DEF Vouched

(* A caller that begins a step, or ends.                                     *)
LEMMA Begins ==
  ASSUME UNCHANGED <<tree, scene>>, NEW caller \in Callers, NEW step \in Steps, NEW on, NEW failed,
         hand'[caller].step = step, hand'[caller].on = on, hand'[caller].seen = <<>>,
         hand'[caller].failed = failed,
         step \in Costly /\ (step = "after" => ~failed) /\ ~Sound(on) => Spent >= Base(step),
         step \in {"given", "written"} /\ Sound(on) => held'[caller]
  PROVE  HandOf(caller)' /\ CostOf(caller)' /\ HoldOf(caller)'
<1>1. /\ Len(<<>>) = 0 /\ <<>> \in Seq(Answers) /\ DOMAIN <<>> = {}
  OBVIOUS
<1>2. Len(HandCalls(step)) > 0
  <2>1. Len(Revalidate) = 7 /\ Len(Inspect) = 10
    BY DEF Revalidate, Inspect
  <2>2. HandCalls(step) = Revalidate \/ HandCalls(step) = Inspect
    BY DEF HandCalls
  <2>3. QED BY <2>1, <2>2
<1>3. HandAgrees(step, on, <<>>)
  <2>1. Revalidates(on, <<>>)
    BY <1>1 DEF Revalidates
  <2>2. Inspects(on, <<>>)
    BY <1>1 DEF Inspects
  <2>3. QED BY <2>1, <2>2 DEF HandAgrees
<1>4. HandOf(caller)'
  BY <1>1, <1>2, <1>3 DEF HandOf, Handing
<1>5. CostOf(caller)'
  <2>1. step \in Costly /\ (step = "after" => ~failed) /\ ~Sound(on) => HandCost(step, on, <<>>)
    BY FreshCost DEF Costly
  <2>2. HandCost(step, on, <<>>)' <=> HandCost(step, on, <<>>)
    BY CostStands
  <2>3. step \in Costly /\ (step = "after" => ~failed) /\ ~Sound(on) => HandCost(step, on, <<>>)'
    BY <2>1, <2>2
  <2>4. QED BY <2>3 DEF CostOf, Costly, HandCost, Shown, Sound
<1>6. HoldOf(caller)'
  <2>1. Opens(step) \in {4, 5}
    BY DEF Opens
  <2>2. ~(0 >= Opens(step)) /\ ~(0 > Opens(step))
    BY <2>1
  <2>3. ~(Len(hand'[caller].seen) >= Opens(hand'[caller].step))
        /\ ~(Len(hand'[caller].seen) > Opens(hand'[caller].step))
    BY <1>1, <2>2
  <2>4. QED BY <2>3 DEF HoldOf, Sound, Opens
<1>7. QED BY <1>4, <1>5, <1>6

(* The others have what they had.                                            *)
LEMMA OthersOwe ==
  ASSUME Owed, UNCHANGED <<tree, scene>>, NEW caller \in Callers, hand'[caller] = hand[caller],
         Watch \/ held' = held
  PROVE  HandOf(caller)' /\ CostOf(caller)' /\ HoldOf(caller)'
<1>1. PICK now : now = hand[caller]
  OBVIOUS
<1>2. HandOf(caller)'
  BY DEF Owed, HandOK, HandOf, Handing
<1>3. CostOf(caller)'
  <2>1. HandCost(now.step, now.on, now.seen)' <=> HandCost(now.step, now.on, now.seen)
    BY CostStands
  <2>2. HandCost(hand[caller].step, hand[caller].on, hand[caller].seen)'
          <=> HandCost(hand[caller].step, hand[caller].on, hand[caller].seen)
    BY <1>1, <2>1 DEF HandCost, Shown
  <2>3. CostOf(caller)
    BY DEF Owed, Costs
  <2>4. QED BY <2>2, <2>3 DEF CostOf, Sound
<1>4. HoldOf(caller)'
  <2>1. text' = text
    BY CostStands
  <2>2. held[caller] => held'[caller]
    BY WatchIs
  <2>3. HoldOf(caller)
    BY DEF Owed, Holds
  <2>4. QED BY <2>1, <2>2, <2>3 DEF HoldOf, Sound, Opens
<1>5. QED BY <1>2, <1>3, <1>4

(* A call that does not end its step.                                        *)
LEMMA CallOwes ==
  ASSUME Placed, Owed, Once, NEW caller \in Callers, HandCall(caller),
         Watch, UNCHANGED <<tree, scene>>
  PROVE  HandOf(caller)' /\ CostOf(caller)' /\ HoldOf(caller)'
<1>1. PICK step, on, s, failed :
        /\ step = hand[caller].step /\ on = hand[caller].on
        /\ s = HandSees(caller) /\ failed = hand[caller].failed
  OBVIOUS
<1>2. /\ Handing(caller) /\ HandAgreed(caller) /\ ~HandLast(caller)
      /\ Puts(caller, step, on, s, failed)
  BY <1>1 DEF HandCall
<1>3. /\ hand'[caller].step = step /\ hand'[caller].on = on
      /\ hand'[caller].seen = s /\ hand'[caller].failed = failed
  <2>1. step \in Steps
    BY <1>1, Part DEF Once, Taken
  <2>2. QED BY <1>2, <2>1, StaysShaped DEF Once, Taken
<1>4. HandOf(caller)'
  <2>1. /\ s \in Seq(Answers) /\ Len(s) = Len(hand[caller].seen) + 1
        /\ Len(hand[caller].seen) \in Nat
        /\ Len(hand[caller].seen) < Len(HandCalls(step))
    BY <1>1, <1>2, SeesOn DEF Owed, HandOK, HandOf
  <2>2. HandAgrees(step, on, s) /\ Len(s) # Len(HandCalls(step))
    BY <1>1, <1>2 DEF HandAgreed, HandLast
  <2>3. Len(HandCalls(step)) \in Nat
    <3>1. Len(Revalidate) = 7 /\ Len(Inspect) = 10
      BY DEF Revalidate, Inspect
    <3>2. QED BY <3>1 DEF HandCalls
  <2>4. Len(s) < Len(HandCalls(step))
    BY <2>1, <2>2, <2>3
  <2>5. QED BY <1>1, <1>2, <1>3, <2>1, <2>2, <2>4 DEF HandOf, Handing
<1>5. CostOf(caller)'
  <2>1. ASSUME step \in {"before", "inspect"} \/ (step = "after" /\ ~failed), ~Sound(on)
        PROVE  HandCost(step, on, s)
    <3>1. HandCost(step, on, hand[caller].seen)
      BY <1>1, <2>1 DEF Owed, Costs, CostOf
    <3>2. QED BY <1>1, <1>2, <2>1, <3>1, CallCosts DEF Owed
  <2>2. ASSUME step = "validate", ~Sound(on)
        PROVE  HandCost(step, on, s)
    <3>1. HandCost(step, on, hand[caller].seen)
      BY <1>1, <2>2 DEF Owed, Costs, CostOf
    <3>2. QED BY <2>2, <3>1 DEF HandCost
  <2>3. HandCost(step, on, s)' <=> HandCost(step, on, s)
    BY CostStands
  <2>4. step \in {"before", "inspect", "after", "validate"}
    BY <1>1, <1>2 DEF Handing
  <2>5. (step \in {"before", "inspect", "validate"} \/ (step = "after" /\ ~failed)) /\ ~Sound(on)
          => HandCost(step, on, s)'
    BY <2>1, <2>2, <2>3
  <2>6. HandCost(step, on, s)' => HandCost(hand[caller].step, hand[caller].on, hand[caller].seen)'
    BY <1>3 DEF HandCost, Shown
  <2>7. QED BY <1>3, <2>4, <2>5, <2>6 DEF CostOf, Sound
<1>6. HoldOf(caller)'
  <2>1. ASSUME Sound(on), step \in Watched
        PROVE  LET i == Opens(step)
               IN  /\ Len(s) >= i /\ s[i] = on.inode /\ text'[on.inode] = on.said => held'[caller]
                   /\ Len(s) > i /\ s[i] = on.inode /\ s[i + 1] = on.said => held'[caller]
    <3>1. HoldOf(caller)
      BY DEF Owed, Holds
    <3>2. LET i == Opens(step)
          IN  /\ Len(s) >= i /\ s[i] = on.inode /\ text[on.inode] = on.said
                   => held[caller] \/ Vouched(on)
              /\ Len(s) > i /\ s[i] = on.inode /\ s[i + 1] = on.said
                   => held[caller] \/ Vouched(on)
      BY <1>1, <2>1, <3>1, CallVouches DEF Owed
    <3>3. (Vouched(on)' <=> Vouched(on)) /\ text' = text
      BY CostStands
    <3>4. Vouched(on)' => Vouched(hand[caller].on)'
      BY <1>3 DEF Vouched
    <3>5. held'[caller] <=> (held[caller] \/ Vouched(hand[caller].on)')
      BY <1>1, <1>3, <2>1, WatchIs
    <3>6. QED BY <3>2, <3>3, <3>4, <3>5
  <2>2. step \in {"before", "inspect", "after", "validate"}
    BY <1>1, <1>2 DEF Handing
  <2>3. QED BY <1>3, <2>1, <2>2 DEF HoldOf, Sound, Opens
<1>7. QED BY <1>4, <1>5, <1>6

LEMMA BeginsBy ==
  ASSUME UNCHANGED <<tree, scene>>, Once, NEW caller \in Callers, NEW step \in Steps, NEW on,
         NEW failed, Puts(caller, step, on, <<>>, failed),
         step \in Costly /\ (step = "after" => ~failed) /\ ~Sound(on) => Spent >= Base(step),
         step \in {"given", "written"} /\ Sound(on) => held'[caller]
  PROVE  HandOf(caller)' /\ CostOf(caller)' /\ HoldOf(caller)'
<1>1. /\ hand'[caller].step = step /\ hand'[caller].on = on
      /\ hand'[caller].seen = <<>> /\ hand'[caller].failed = failed
  BY StaysShaped DEF Once, Taken
<1>2. QED BY <1>1, Begins

LEMMA GivesUp ==
  ASSUME UNCHANGED <<tree, scene>>, Once, NEW caller \in Callers, Becomes(caller, "refused")
  PROVE  HandOf(caller)' /\ CostOf(caller)' /\ HoldOf(caller)'
<1>1. PICK on, failed : on = hand[caller].on /\ failed = hand[caller].failed
  OBVIOUS
<1>2. Puts(caller, "refused", on, <<>>, failed)
  BY <1>1 DEF Becomes
<1>3. "refused" \in Steps /\ "refused" \notin Costly \cup {"given", "written"}
  BY DEF Steps, Costly
<1>4. QED BY <1>2, <1>3, BeginsBy

(* What a caller has in hand when all calls of its step agreed.              *)
LEMMA Passed ==
  ASSUME Placed, Owed, Once, NEW caller \in Callers, HandAgreed(caller), HandLast(caller)
  PROVE  /\ hand[caller].step \in {"before", "inspect"}
              \/ (hand[caller].step = "after" /\ ~hand[caller].failed)
            => \/ Sound(hand[caller].on) \/ Spent >= Base(hand[caller].step) + 2
         /\ hand[caller].step \in {"given", "validate"} =>
              Sound(hand[caller].on) \/ Spent >= 8
         /\ hand[caller].step \in Watched /\ Sound(hand[caller].on) =>
              held[caller] \/ Vouched(hand[caller].on)
<1>1. CostOf(caller) /\ HoldOf(caller) /\ HandOK
  BY DEF Owed, Costs, Holds
<1>2. ASSUME hand[caller].step \in {"before", "inspect"}
               \/ (hand[caller].step = "after" /\ ~hand[caller].failed),
             ~Sound(hand[caller].on)
      PROVE  Spent >= Base(hand[caller].step) + 2
  BY <1>1, <1>2, LookPassed DEF CostOf
<1>3. ASSUME hand[caller].step \in {"given", "validate"}, ~Sound(hand[caller].on)
      PROVE  Spent >= 8
  BY <1>1, <1>3, BasesAre DEF CostOf, HandCost
<1>4. ASSUME hand[caller].step \in Watched, Sound(hand[caller].on)
      PROVE  held[caller] \/ Vouched(hand[caller].on)
  BY <1>1, <1>4, AllVouched
<1>5. QED BY <1>2, <1>3, <1>4

LEMMA HandOverOwes ==
  ASSUME Placed, Owed, Once, NEW caller \in Callers, HandOver(caller), Watch, scene' = scene
  PROVE  HandOf(caller)' /\ CostOf(caller)' /\ HoldOf(caller)'
<1> /\ {"refused", "before", "inspect", "after", "given", "validate"} \subseteq Steps
    /\ Spent \in Int
  BY ScenesAssumption DEF Steps, Placed, TreeOK, Spent
<1>1. UNCHANGED <<tree, scene>>
  BY DEF HandOver
<1>2. PICK on, failed : on = hand[caller].on /\ failed = hand[caller].failed
  OBVIOUS
<1>3. CASE Take(caller)
  <2>1. PICK one \in candidates :
          IF one \in consumed
          THEN Becomes(caller, "refused") /\ UNCHANGED consumed
          ELSE /\ Puts(caller, "before", one, <<>>, FALSE)
               /\ consumed' = consumed \cup {one}
    BY <1>3 DEF Take
  <2>2. CASE one \in consumed
    BY <1>1, <2>1, <2>2, GivesUp
  <2>3. CASE one \notin consumed
    <3>1. ~Sound(one) => Spent >= Base("before")
      BY BasesAre DEF Placed, CandidatesOK
    <3>2. Puts(caller, "before", one, <<>>, FALSE)
      BY <2>1, <2>3
    <3>3. QED BY <1>1, <3>1, <3>2, BeginsBy
  <2>4. QED BY <2>2, <2>3
<1>4. CASE HandCall(caller)
  BY <1>1, <1>4, CallOwes
<1>5. CASE StartConsumer(caller)
  <2>1. Puts(caller, "inspect", on, <<>>, failed)
    BY <1>2, <1>5 DEF StartConsumer, Becomes
  <2>2. ~Sound(on) => Spent >= Base("inspect")
    BY <1>2, <1>5, Passed, BasesAre DEF StartConsumer
  <2>3. QED BY <1>1, <2>1, <2>2, BeginsBy
<1>6. CASE ConsumerReturns(caller)
  <2>1. PICK threw : threw = ~HandAgreed(caller)
    OBVIOUS
  <2>2. Puts(caller, "after", on, <<>>, threw)
    BY <1>2, <1>6, <2>1 DEF ConsumerReturns
  <2>3. ~threw /\ ~Sound(on) => Spent >= Base("after")
    <3>1. SUFFICES ASSUME ~threw, ~Sound(on) PROVE Spent >= Base("after")
      OBVIOUS
    <3>2. HandAgreed(caller)
      BY <2>1, <3>1
    <3>3. hand[caller].step = "inspect" /\ HandLast(caller)
      BY <1>6, <3>2 DEF ConsumerReturns
    <3>4. Spent >= Base(hand[caller].step) + 2
      BY <1>2, <3>1, <3>2, <3>3, Passed
    <3>5. QED BY <3>3, <3>4, BasesAre
  <2>4. QED BY <1>1, <2>2, <2>3, BeginsBy
<1>7. CASE Give(caller)
  <2>1. CASE failed
    BY <1>1, <1>2, <1>7, <2>1, GivesUp DEF Give
  <2>2. CASE ~failed
    <3>1. Puts(caller, "given", on, <<>>, failed)
      BY <1>2, <1>7, <2>2 DEF Give, Becomes
    <3>2. ~Sound(on) => Spent >= Base("given")
      BY <1>2, <1>7, <2>2, Passed, BasesAre DEF Give
    <3>3. Sound(on) => held'[caller]
      <4>1. hand'[caller].step = "given" /\ hand'[caller].on = on
        BY <3>1, StaysShaped DEF Once, Taken
      <4>2. held'[caller] <=> (held[caller] \/ Vouched(hand[caller].on)')
        BY <1>7, <4>1, WatchIs DEF Give, Watched
      <4>3. Sound(on) => held[caller] \/ Vouched(on)
        BY <1>2, <1>7, Passed DEF Give, Watched
      <4>4. Vouched(on) => Vouched(on)'
        BY <1>1, CostStands
      <4>5. Vouched(on)' => Vouched(hand[caller].on)'
        BY <4>1 DEF Vouched
      <4>6. QED BY <4>2, <4>3, <4>4, <4>5
    <3>4. QED BY <1>1, <3>1, <3>2, <3>3, BeginsBy
  <2>3. QED BY <2>1, <2>2
<1>8. CASE HandFails(caller)
  BY <1>1, <1>8, GivesUp DEF HandFails, Refuse
<1>9. CASE StartWrite(caller)
  <2>1. Puts(caller, "validate", on, <<>>, failed)
    BY <1>2, <1>9 DEF StartWrite, Becomes
  <2>2. ~Sound(on) => Spent >= Base("validate")
    BY <1>2, <1>9, BasesAre DEF StartWrite, Owed, Costs, CostOf, HandCost
  <2>3. QED BY <1>1, <2>1, <2>2, BeginsBy
<1>10. QED BY <1>3, <1>4, <1>5, <1>6, <1>7, <1>8, <1>9 DEF HandOver

(* The write.                                                                *)
LEMMA WriteOwes ==
  ASSUME Placed, Owed, Once, NEW caller \in Callers, Validated(caller), Write(caller), Watch,
         UNCHANGED <<tree, scene>>
  PROVE  HandOf(caller)' /\ CostOf(caller)' /\ HoldOf(caller)'
<1>1. PICK on, failed : on = hand[caller].on /\ failed = hand[caller].failed
  OBVIOUS
<1>2. Puts(caller, "written", on, <<>>, failed)
  BY <1>1 DEF Write, Becomes
<1>3. hand[caller].step = "validate" /\ HandAgreed(caller) /\ HandLast(caller) /\ "written" \in Steps
  BY DEF Validated, Steps
<1>4. ~Sound(on) => Spent >= Base("written")
  BY <1>1, <1>3, Passed, BasesAre
<1>5. Sound(on) => held'[caller]
  <2>1. hand'[caller].step = "written" /\ hand'[caller].on = on
    BY <1>2, <1>3, StaysShaped DEF Once, Taken
  <2>2. held'[caller] <=> (held[caller] \/ Vouched(hand[caller].on)')
    BY <1>3, <2>1, WatchIs DEF Watched
  <2>3. Sound(on) => held[caller] \/ Vouched(on)
    BY <1>1, <1>3, Passed DEF Watched
  <2>4. Vouched(on) => Vouched(on)'
    BY CostStands
  <2>5. Vouched(on)' => Vouched(hand[caller].on)'
    BY <2>1 DEF Vouched
  <2>6. QED BY <2>2, <2>3, <2>4, <2>5
<1>6. QED BY <1>2, <1>3, <1>4, <1>5, BeginsBy

------------------------------------------------------------------------------
(* The whole.                                                                *)

LEMMA OwedInit == Init => Owed
<1> SUFFICES ASSUME Init PROVE Owed
  OBVIOUS
<1>1. hand = [caller \in Callers |-> Free]
  BY DEF Init, HandingInit
<1>2. \A caller \in Callers : hand[caller].step = "free" /\ hand[caller].seen = <<>>
  BY <1>1 DEF Free
<1>3. QED BY <1>2 DEF Owed, HandOK, HandOf, Handing, Costs, CostOf, Holds, HoldOf, Watched

(* One caller acts, and the history is kept.                                 *)
LEMMA OneActs ==
  ASSUME Owed, UNCHANGED <<tree, scene>>, Watch, NEW caller \in Callers,
         \A other \in Callers \ {caller} : hand'[other] = hand[other],
         HandOf(caller)' /\ CostOf(caller)' /\ HoldOf(caller)'
  PROVE  Owed'
<1>1. ASSUME NEW other \in Callers
      PROVE  HandOf(other)' /\ CostOf(other)' /\ HoldOf(other)'
  <2>1. CASE other = caller
    BY <2>1
  <2>2. CASE other # caller
    BY <2>2, OthersOwe
  <2>3. QED BY <2>1, <2>2
<1>2. QED BY <1>1 DEF Owed, HandOK, Costs, Holds

LEMMA OnlyOne ==
  ASSUME Once, NEW caller \in Callers,
         \/ HandOver(caller)
         \/ hand[caller].step = "validate" /\ (Write(caller) \/ Refuse(caller))
  PROVE  \A other \in Callers \ {caller} : hand'[other] = hand[other]
<1>1. PICK step, on, seen, failed :
        hand' = [hand EXCEPT ![caller] = [step |-> step, on |-> on, seen |-> seen, failed |-> failed]]
  BY DEF HandOver, Take, HandCall, StartConsumer, ConsumerReturns, Give, HandFails, StartWrite,
         Write, Refuse, Becomes, Puts
<1>2. PICK Ons, Seens, Fails : hand \in [Callers -> Parts(Ons, Seens, Fails)]
  BY DEF Once, Taken, Shaped
<1> DEFINE new == [step |-> step, on |-> on, seen |-> seen, failed |-> failed]
<1>3. hand' = [hand EXCEPT ![caller] = new]
  BY <1>1
<1> HIDE DEF new
<1>4. QED BY <1>2, <1>3

LEMMA OwedStands ==
  ASSUME Owed, UNCHANGED <<tree, scene, handing>>
  PROVE  Owed'
<1>1. \A caller \in Callers : hand'[caller] = hand[caller] /\ held' = held
  BY DEF handing
<1>2. UNCHANGED <<tree, scene>>
  OBVIOUS
<1>3. ASSUME NEW caller \in Callers
      PROVE  HandOf(caller)' /\ CostOf(caller)' /\ HoldOf(caller)'
  BY <1>1, <1>2, OthersOwe
<1>4. QED BY <1>3 DEF Owed, HandOK, Costs, Holds

LEMMA ChangeOwes ==
  ASSUME Placed, Owed, ChangeTree, scene' = scene, hand' = hand, Watch
  PROVE  Owed'
<1>1. Spent \in Nat /\ Spent' = Spent + 1
  BY TreeMoves DEF Placed
<1>2. ASSUME NEW caller \in Callers
      PROVE  HandOf(caller)' /\ CostOf(caller)' /\ HoldOf(caller)'
  <2>1. PICK step, on, seen : step = hand[caller].step /\ on = hand[caller].on /\ seen = hand[caller].seen
    OBVIOUS
  <2>2. HandOf(caller)'
    BY DEF Owed, HandOK, HandOf, Handing
  <2>3. CostOf(caller)'
    <3>1. ASSUME step \in Costly, HandCost(step, on, seen)
          PROVE  HandCost(step, on, seen)'
      <4>1. Base(step) \in Nat
        BY <3>1 DEF Base, Costly
      <4>2. Spent >= Base(step)
        BY <3>1 DEF HandCost
      <4>3. Spent' >= Base(step) /\ Spent' >= Base(step) + 1
        BY <1>1, <4>1, <4>2
      <4>4. step \in {"before", "inspect", "after"} /\ Shown(step, on, seen) => Spent' >= Base(step) + 2
        <5>1. step \in {"before", "inspect", "after"} /\ Shown(step, on, seen) => Spent >= Base(step) + 1
          BY <3>1 DEF HandCost
        <5>2. QED BY <1>1, <4>1, <5>1
      <4>5. Base(step)' = Base(step) /\ Shown(step, on, seen)' = Shown(step, on, seen)
        BY DEF Base, Shown, Opens
      <4>6. QED BY <4>3, <4>4 DEF HandCost, Shown, Opens
    <3>2. CostOf(caller)
      BY DEF Owed, Costs
    <3>3. HandCost(step, on, seen)' => HandCost(hand[caller].step, hand[caller].on, hand[caller].seen)'
      BY <2>1 DEF HandCost, Shown
    <3>4. QED BY <2>1, <3>1, <3>2, <3>3 DEF CostOf, Sound, Costly
  <2>4. HoldOf(caller)'
    <3>1. HoldOf(caller)
      BY DEF Owed, Holds
    <3>2. step \notin Watched => held'[caller] = held[caller]
      BY <2>1, WatchIs
    <3>3. step \in Watched => (held'[caller] <=> (held[caller] \/ Vouched(hand[caller].on)'))
      BY <2>1, WatchIs
    <3>4. Vouched(on)' => Vouched(hand[caller].on)'
      BY <2>1 DEF Vouched
    <3>5. Sound(on) /\ text[on.inode] # on.said /\ text'[on.inode] = on.said => Vouched(on)'
      BY TextIsGivenBack DEF Placed
    <3>6. Sound(on) /\ step \in {"given", "written"} => held'[caller]
      BY <2>1, <3>1, <3>2 DEF HoldOf, Watched
    <3>7. ASSUME Sound(on), step \in Watched
          PROVE  LET i == Opens(step)
                 IN  /\ Len(seen) >= i /\ seen[i] = on.inode /\ text'[on.inode] = on.said => held'[caller]
                     /\ Len(seen) > i /\ seen[i] = on.inode /\ seen[i + 1] = on.said => held'[caller]
      <4>1. LET i == Opens(step)
            IN  /\ Len(seen) >= i /\ seen[i] = on.inode /\ text[on.inode] = on.said => held[caller]
                /\ Len(seen) > i /\ seen[i] = on.inode /\ seen[i + 1] = on.said => held[caller]
        BY <2>1, <3>1, <3>7 DEF HoldOf
      <4>2. held[caller] => held'[caller]
        BY <3>3, <3>7
      <4>3. text[on.inode] # on.said /\ text'[on.inode] = on.said => held'[caller]
        BY <3>3, <3>4, <3>5, <3>7
      <4>4. QED BY <4>1, <4>2, <4>3
    <3>8. hand'[caller].step = step /\ hand'[caller].on = on /\ hand'[caller].seen = seen
      BY <2>1
    <3>9. QED BY <3>6, <3>7, <3>8 DEF HoldOf, Sound, Opens
  <2>5. QED BY <2>2, <2>3, <2>4
<1>3. QED BY <1>2 DEF Owed, HandOK, Costs, Holds

LEMMA OwedNext == Placed /\ Owed /\ Once /\ [Next]_vars => Owed'
<1> SUFFICES ASSUME Placed, Owed, Once, [Next]_vars PROVE Owed'
  OBVIOUS
<1>1. CASE TreeChanges
  BY <1>1, ChangeOwes DEF TreeChanges
<1>2. CASE HandOverCandidates
  <2>1. PICK caller \in Callers : HandOver(caller)
    BY <1>2 DEF HandOverCandidates
  <2>2. UNCHANGED <<tree, scene>> /\ Watch
    BY <1>2, <2>1 DEF HandOverCandidates, HandOver
  <2>3. QED BY <2>1, <2>2, HandOverOwes, OnlyOne, OneActs
<1>3. CASE WriteTarget
  <2>1. PICK caller \in Callers : Validated(caller) /\ (Write(caller) \/ Refuse(caller))
    BY <1>3 DEF WriteTarget, Refresh, WriteNative
  <2>2. UNCHANGED <<tree, scene>> /\ Watch /\ hand[caller].step = "validate"
    BY <1>3, <2>1 DEF WriteTarget, Validated
  <2>3. HandOf(caller)' /\ CostOf(caller)' /\ HoldOf(caller)'
    BY <2>1, <2>2, WriteOwes, GivesUp DEF Refuse
  <2>4. QED BY <2>1, <2>2, <2>3, OnlyOne, OneActs
<1>4. CASE AdmitRoots
  <2>1. UNCHANGED tree
    BY <1>4 DEF AdmitRoots, Admit, RejectInput, LookAtRoot, DecideRoot
  <2>2. QED BY <1>4, <2>1, OwedStands DEF AdmitRoots
<1>5. CASE ScanRoots
  <2>1. UNCHANGED tree
    BY <1>5 DEF ScanRoots, Scan, NextRoot, ScanCall, ScanStep, NoCandidate, ScanFails, ScanDirectory
  <2>2. QED BY <1>5, <2>1, OwedStands DEF ScanRoots
<1>6. CASE AskNative \/ RunCommand \/ TakeAnswer \/ ReadInventory
  BY <1>6, OwedStands DEF AskNative, RunCommand, TakeAnswer, ReadInventory
<1>7. CASE UNCHANGED vars
  BY <1>7, OwedStands DEF vars
<1>8. QED BY <1>1, <1>2, <1>3, <1>4, <1>5, <1>6, <1>7 DEF Next

TwiceALook ==
  \A caller \in Callers :
    hand[caller].step \in {"given", "written"} => held[caller] \/ Spent >= 8

(* What a caller is given, and what is written, was in the tree as it says: *)
(* its directory, its manifest and that text, at its place, at one moment.  *)
(* Only when the name was changed eight times while the source was found,   *)
(* revalidated, inspected and revalidated again can a mixture pass: each of *)
(* these looks begins and ends with the identity of the directory, so it    *)
(* takes two changes to let one pass, away and back (revalidateIssued-      *)
(* Candidate, inspectDevelopmentSourceIdentity).                            *)
THEOREM MixtureTakesEightChanges == Spec => []TwiceALook
<1> DEFINE IInv == Placed /\ Once /\ Owed
<1>1. IInv => TwiceALook
  <2>1. SUFFICES ASSUME Owed, NEW caller \in Callers, hand[caller].step \in {"given", "written"}
                 PROVE  held[caller] \/ Spent >= 8
    BY DEF TwiceALook
  <2>2. CASE Sound(hand[caller].on)
    BY <2>1, <2>2 DEF Owed, Holds, HoldOf
  <2>3. CASE ~Sound(hand[caller].on)
    BY <2>1, <2>3, BasesAre DEF Owed, Costs, CostOf, HandCost
  <2>4. QED BY <2>2, <2>3
<1>2. Init => IInv
  BY PlacedInit, OnceInit, OwedInit
<1>3. IInv /\ [Next]_vars => IInv'
  BY PlacedNext, OnceNext, OwedNext
<1> HIDE DEF IInv
<1>4. QED BY <1>1, <1>2, <1>3, PTL DEF Spec

(* So wherever the tree changes less often than that, however the changes  *)
(* and the callers' calls interleave, nothing is handed over or written     *)
(* that was not there (consumeIssuedSourceCandidate).                       *)
THEOREM HandedOverIsWhatIsThere ==
  ASSUME \A some \in Scenes : some.changes < 8
  PROVE  Spec => []HandedOverAsItIs
<1>1. Placed /\ TwiceALook => HandedOverAsItIs
  <2>1. SUFFICES ASSUME Placed, TwiceALook PROVE HandedOverAsItIs
    OBVIOUS
  <2>2. Spent < 8
    <3>1. changes \in Nat /\ scene \in Scenes /\ scene.changes \in Nat
      BY <2>1, ScenesAssumption DEF Placed, TreeOK
    <3>2. scene.changes < 8
      BY <3>1
    <3>3. QED BY <3>1, <3>2 DEF Spent
  <2>3. ~(Spent >= 8)
    <3>1. Spent \in Int
      BY <2>1, ScenesAssumption DEF Placed, TreeOK, Spent
    <3>2. QED BY <2>2, <3>1
  <2>4. QED BY <2>1, <2>3 DEF TwiceALook, HandedOverAsItIs
<1>2. Spec => []Placed
  BY PlacedInit, PlacedNext, PTL DEF Spec
<1>3. QED BY <1>1, <1>2, MixtureTakesEightChanges, PTL

------------------------------------------------------------------------------
(* Short sequences, put together.                                            *)

LEMMA IsAppended ==
  ASSUME NEW S, NEW s \in Seq(S), NEW x \in S, NEW t \in Seq(S),
         Len(t) = Len(s) + 1, t[Len(s) + 1] = x, \A i \in 1 .. Len(s) : t[i] = s[i]
  PROVE  Append(s, x) = t
<1>1. PICK u : u = Append(s, x)
  OBVIOUS
<1>2. /\ u \in Seq(S) /\ Len(u) = Len(s) + 1 /\ u[Len(s) + 1] = x
      /\ \A i \in 1 .. Len(s) : u[i] = s[i]
  BY <1>1, Appended
<1>3. \A i \in 1 .. Len(u) : u[i] = t[i]
  BY <1>2
<1>4. QED BY <1>1, <1>2, <1>3, SeqEqual

LEMMA Extended ==
  /\ \A a : Append(<<>>, a) = <<a>>
  /\ \A a, b : Append(<<a>>, b) = <<a, b>>
  /\ \A a, b, c : Append(<<a, b>>, c) = <<a, b, c>>
<1>1. ASSUME NEW a, NEW b PROVE Append(<<a>>, b) = <<a, b>>
  <2> DEFINE S == {a, b}
             s == <<a>>
             t == <<a, b>>
  <2>1. /\ s \in Seq(S) /\ t \in Seq(S) /\ b \in S /\ Len(s) = 1 /\ Len(t) = 2
        /\ s[1] = a /\ t[1] = a /\ t[2] = b
    OBVIOUS
  <2> HIDE DEF s, t, S
  <2>2. Len(t) = Len(s) + 1 /\ t[Len(s) + 1] = b /\ \A i \in 1 .. Len(s) : t[i] = s[i]
    BY <2>1
  <2>3. Append(s, b) = t
    BY <2>1, <2>2, IsAppended
  <2>5. QED BY <2>3 DEF s, t
<1>2. ASSUME NEW a, NEW b, NEW c PROVE Append(<<a, b>>, c) = <<a, b, c>>
  <2> DEFINE S == {a, b, c}
             s == <<a, b>>
             t == <<a, b, c>>
  <2>1. /\ s \in Seq(S) /\ t \in Seq(S) /\ c \in S /\ Len(s) = 2 /\ Len(t) = 3
        /\ s[1] = a /\ s[2] = b /\ t[1] = a /\ t[2] = b /\ t[3] = c
    OBVIOUS
  <2> HIDE DEF s, t, S
  <2>2. Len(t) = Len(s) + 1 /\ t[Len(s) + 1] = c /\ \A i \in 1 .. Len(s) : t[i] = s[i]
    BY <2>1
  <2>3. Append(s, c) = t
    BY <2>1, <2>2, IsAppended
  <2>5. QED BY <2>3 DEF s, t
<1>3. QED BY <1>1, <1>2

LEMMA Put ==
  \A a, b, c : <<a>> \o <<b, c>> = <<a, b, c>>
<1>1. TAKE a, b, c
<1> DEFINE S == {a, b, c}
           s == <<a>>
           r == <<b, c>>
           t == <<a, b, c>>
           u == s \o r
<1>2. /\ s \in Seq(S) /\ r \in Seq(S) /\ t \in Seq(S) /\ Len(s) = 1 /\ Len(r) = 2 /\ Len(t) = 3
      /\ s[1] = a /\ r[1] = b /\ r[2] = c /\ t[1] = a /\ t[2] = b /\ t[3] = c
  OBVIOUS
<1> HIDE DEF s, r, t, S
<1>3. /\ u \in Seq(S) /\ Len(u) = Len(s) + Len(r)
      /\ \A i \in 1 .. Len(s) + Len(r) : u[i] = IF i <= Len(s) THEN s[i] ELSE r[i - Len(s)]
  BY <1>2, ConcatProperties
<1> HIDE DEF u
<1>4. Len(u) = 3 /\ u[1] = a /\ u[2] = b /\ u[3] = c
  BY <1>2, <1>3
<1>5. u = t
  BY <1>2, <1>3, <1>4, SeqEqual
<1>6. QED BY <1>5 DEF u, s, r, t

------------------------------------------------------------------------------
(* While nobody touches the tree.                                            *)

Calm == Spent = 0
Plugins == \A inode \in Inodes : IsPlugin(text[inode]) /\ Valid(text[inode])

ScanNow ==
  Scanning =>
    LET dir == LStat(Here)
        leaf == LStatManifest(Here)
        said == text[leaf]
    IN  /\ scan.step \in Attesting => scan.seen \in {<<>>, <<dir>>}
        /\ scan.step = "manifest" => scan.seen \in {<<>>, <<leaf>>, <<leaf, leaf>>}
        /\ scan.step = "manifest" /\ scan.seen # <<>> => Here \in {"pkg", "outPkg"}
        /\ scan.step = "declared" => scan.seen \in {<<>>, <<Here>>}
        /\ scan.step = "entries" => scan.seen = <<>>
        /\ scan.step # "attest" => scan.attested = <<dir, Here>>
        /\ scan.step \in {"declared", "issue"} =>
             Here \in {"pkg", "outPkg"} /\ scan.manifest = <<leaf, said>>
        /\ scan.step \in Late => scan.manifest \in {<<>>, <<dir, leaf, said>>}
        /\ scan.step \in Late /\ scan.manifest # <<>> => Here \in {"pkg", "outPkg"}
        /\ scan.step \in Late /\ scan.manifest = <<>> /\ Here \in {"pkg", "outPkg"} => ~Plugins
        /\ scan.step = "leave" => scan.inside = Inside(Here)

CandidatesNow ==
  \A on \in candidates :
    /\ on.path \in {"pkg", "outPkg"} /\ Contained(on.root, on.path)
    /\ on.dir = LStat(on.path) /\ on.inode = LStatManifest(on.path)
    /\ on.said = text[on.inode]

FoundNow == Plugins /\ scan.done # {} => candidates # {} \/ Scanning

ScanIsOver == ScanEnded => ~Scanning /\ inputs = <<>> /\ RootsLeft = {}

Found == ScanIsOver /\ (Calm => TreeInit /\ ScanNow /\ CandidatesNow /\ FoundNow)

LEMMA ThereNow ==
  ASSUME TreeInit
  PROVE  /\ LStat("root") = "r1" /\ LStat("pkg") = "p1" /\ LStat("out") = "x" /\ LStat("outPkg") = "xp"
         /\ \A path \in Canonical : RealPath(path) = path /\ IsDirectory(LStat(path))
         /\ LStatManifest("root") = None /\ LStatManifest("out") = None
         /\ LStatManifest("pkg") = "m1" /\ LStatManifest("outPkg") = "mx"
         /\ Inside("root") = <<"pkg">> /\ Inside("out") = <<"outPkg">>
         /\ \A inode, other \in Inodes : text[inode] = text[other]
<1>1. /\ top = "r1" /\ inner["r1"] = "p1" /\ DOMAIN file = {"p1", "p2", "xp"}
      /\ file["p1"] = "m1" /\ file["xp"] = "mx"
  BY DEF TreeInit
<1>2. LStat("root") = "r1" /\ LStat("pkg") = "p1" /\ LStat("out") = "x" /\ LStat("outPkg") = "xp"
  BY <1>1, FixedNames, PkgName DEF RootDirs
<1>3. \A path \in Canonical : RealPath(path) = path /\ IsDirectory(LStat(path))
  <2>1. RealPath("pkg") = "pkg"
    BY <1>1, <1>2, PkgName DEF None, Link
  <2>2. RealPath("root") = "root"
    BY <1>1 DEF RealPath, None, Link
  <2>3. QED BY <1>2, <2>1, <2>2, FixedNames DEF Canonical, IsDirectory, None, Link
<1>4. /\ LeadsTo("root") = "r1" /\ LeadsTo("out") = "x" /\ LeadsTo("pkg") = "p1" /\ LeadsTo("outPkg") = "xp"
  BY <1>2 DEF LeadsTo, Link
<1>5. /\ LStatManifest("root") = None /\ LStatManifest("out") = None
      /\ LStatManifest("pkg") = "m1" /\ LStatManifest("outPkg") = "mx"
  BY <1>1, <1>4 DEF LStatManifest
<1>6. Inside("root") = <<"pkg">> /\ Inside("out") = <<"outPkg">>
  <2>1. top \in RootDirs /\ IsDirectory(inner[top])
    BY <1>1 DEF RootDirs, IsDirectory, None, Link
  <2>2. QED BY <2>1 DEF Inside
<1>7. \A inode, other \in Inodes : text[inode] = text[other]
  BY DEF TreeInit
<1>8. QED BY <1>2, <1>3, <1>5, <1>6, <1>7

(* Every step of the program leaves the tree as it is.                       *)
LEMMA StillCalm ==
  ASSUME TreeOK, [Next]_vars, Calm'
  PROVE  Calm /\ UNCHANGED <<tree, scene>> /\ ~TreeChanges
<1>1. ~TreeChanges
  <2>1. SUFFICES ASSUME TreeChanges PROVE FALSE
    OBVIOUS
  <2>2. Spent \in Nat /\ Spent' = Spent + 1
    BY <2>1, TreeMoves DEF TreeChanges
  <2>3. QED BY <2>2 DEF Calm
<1>2. UNCHANGED tree
  BY <1>1 DEF Next, AdmitRoots, Admit, RejectInput, LookAtRoot, DecideRoot, ScanRoots, Scan, NextRoot,
     ScanCall, ScanStep, NoCandidate, ScanFails, ScanDirectory, HandOverCandidates, HandOver, WriteTarget,
     AskNative, RunCommand, TakeAnswer, ReadInventory, vars
<1>3. scene' = scene
  BY <1>1 DEF Next, AdmitRoots, ScanRoots, HandOverCandidates, WriteTarget, AskNative, RunCommand,
     TakeAnswer, ReadInventory, vars
<1>4. Spent' = Spent
  BY <1>2, <1>3, TreeStands
<1>5. QED BY <1>1, <1>2, <1>3, <1>4 DEF Calm

(* What the scan sees next.                                                  *)
LEMMA SeesNow ==
  ASSUME TreeOK, TreeInit, ScanOK, ScanNow, Scanning
  PROVE  LET dir == LStat(Here)
             leaf == LStatManifest(Here)
         IN  /\ scan.step \in Attesting =>
                  \/ scan.seen = <<>> /\ Seeing = <<dir>>
                  \/ scan.seen = <<dir>> /\ Seeing = <<dir, Here>>
             /\ scan.step = "manifest" =>
                  \/ scan.seen = <<>> /\ Seeing = <<leaf>>
                  \/ scan.seen = <<leaf>> /\ Seeing = <<leaf, leaf>>
                  \/ scan.seen = <<leaf, leaf>> /\ Seeing = <<leaf, leaf, text[leaf]>>
             /\ scan.step = "declared" =>
                  \/ scan.seen = <<>> /\ Seeing = <<Here>>
                  \/ scan.seen = <<Here>> /\ Seeing = <<Here, Here>>
             /\ scan.step = "entries" => Seeing = <<Inside(Here)>>
<1> DEFINE dir == LStat(Here)
           leaf == LStatManifest(Here)
<1>0. \A a, b : Len(<<>>) = 0 /\ Len(<<a>>) = 1 /\ Len(<<a, b>>) = 2 /\ <<a, b>>[2] = b
  OBVIOUS
<1>1. RealPath(Here) = Here
  BY HereIs, ThereNow
<1> HIDE DEF dir, leaf
<1>2. ASSUME scan.step \in Attesting
      PROVE  \/ scan.seen = <<>> /\ Seeing = <<dir>>
             \/ scan.seen = <<dir>> /\ Seeing = <<dir, Here>>
  <2>1. scan.seen \in {<<>>, <<dir>>}
    BY <1>2 DEF ScanNow, dir
  <2>2. CASE scan.seen = <<>>
    <3>1. Seeing = Append(<<>>, dir)
      BY <1>0, <1>2, <2>2, SeeingIs DEF dir
    <3>2. QED BY <2>2, <3>1, Extended
  <2>3. CASE scan.seen = <<dir>>
    <3>1. Seeing = Append(<<dir>>, Here)
      BY <1>0, <1>1, <1>2, <2>3, SeeingIs
    <3>2. QED BY <2>3, <3>1, Extended
  <2>4. QED BY <2>1, <2>2, <2>3
<1>3. ASSUME scan.step = "manifest"
      PROVE  \/ scan.seen = <<>> /\ Seeing = <<leaf>>
             \/ scan.seen = <<leaf>> /\ Seeing = <<leaf, leaf>>
             \/ scan.seen = <<leaf, leaf>> /\ Seeing = <<leaf, leaf, text[leaf]>>
  <2>1. scan.seen \in {<<>>, <<leaf>>, <<leaf, leaf>>}
    BY <1>3 DEF ScanNow, leaf
  <2>2. CASE scan.seen = <<>>
    <3>1. Seeing = Append(<<>>, leaf)
      BY <1>0, <1>3, <2>2, SeeingIs DEF leaf
    <3>2. QED BY <2>2, <3>1, Extended
  <2>3. CASE scan.seen = <<leaf>>
    <3>1. Seeing = Append(<<leaf>>, leaf)
      BY <1>0, <1>3, <2>3, SeeingIs DEF leaf
    <3>2. QED BY <2>3, <3>1, Extended
  <2>4. CASE scan.seen = <<leaf, leaf>>
    <3>1. Seeing = Append(<<leaf, leaf>>, text[leaf])
      BY <1>0, <1>3, <2>4, SeeingIs
    <3>2. QED BY <2>4, <3>1, Extended
  <2>5. QED BY <2>1, <2>2, <2>3, <2>4
<1>4. ASSUME scan.step = "declared"
      PROVE  \/ scan.seen = <<>> /\ Seeing = <<Here>>
             \/ scan.seen = <<Here>> /\ Seeing = <<Here, Here>>
  <2>1. scan.seen \in {<<>>, <<Here>>} /\ Seeing = Append(scan.seen, Here)
    BY <1>1, <1>4, SeeingIs DEF ScanNow
  <2>2. QED BY <2>1, Extended
<1>5. ASSUME scan.step = "entries" PROVE Seeing = <<Inside(Here)>>
  <2>1. scan.seen = <<>> /\ Seeing = Append(scan.seen, Inside(Here))
    BY <1>5, SeeingIs DEF ScanNow
  <2>2. QED BY <2>1, Extended
<1>6. QED BY <1>2, <1>3, <1>4, <1>5 DEF dir, leaf

LEMMA HereInside ==
  ASSUME ScanOK, Scanning
  PROVE  Contained(ScanRoot.canonical, Here)
<1> DEFINE R == Reach(scan.root.canonical)
<1>1. scan.queue \in Seq(R) /\ scan.queue # <<>> /\ scan.root.canonical \in Canonical
  BY DEF ScanOK, ScanShape, ScanKnows, Scanning
<1>2. Here \in R
  <2> HIDE DEF R
  <2>1. QED BY <1>1 DEF Here
<1>3. QED BY <1>1, <1>2 DEF Reach, Contained, ScanRoot

(* It agrees, unless the directory holds no plugin.                          *)
LEMMA AgreesNow ==
  ASSUME TreeOK, TreeInit, ScanOK, ScanNow, Scanning
  PROVE  /\ scan.step # "manifest" => Agrees(Seeing)
         /\ scan.step = "manifest" /\ Here \in {"pkg", "outPkg"} /\ Plugins => Agrees(Seeing)
         /\ scan.step = "manifest" /\ Agrees(Seeing) => Here \in {"pkg", "outPkg"}
<1> DEFINE dir == LStat(Here)
           leaf == LStatManifest(Here)
<1>0. \A a, b, c : /\ Len(<<a>>) = 1 /\ Len(<<a, b>>) = 2 /\ Len(<<a, b, c>>) = 3
                   /\ <<a>>[1] = a /\ <<a, b>>[1] = a /\ <<a, b>>[2] = b
                   /\ <<a, b, c>>[1] = a /\ <<a, b, c>>[2] = b /\ <<a, b, c>>[3] = c
                   /\ DOMAIN <<a>> = {1} /\ DOMAIN <<a, b>> = {1, 2} /\ DOMAIN <<a, b, c>> = {1, 2, 3}
  OBVIOUS
<1>1. /\ IsDirectory(dir) /\ RealPath(Here) = Here /\ Here # None
      /\ Contained(ScanRoot.canonical, Here) /\ Contained(Here, Here) /\ dir # None
  BY HereIs, HereInside, ThereNow DEF Contained, Canonical, None, IsDirectory
<1>2. scan.step \in {"attest", "manifest", "declared", "issue"} \cup Late
  BY DEF ScanOK, ScanKnows
<1> HIDE DEF dir, leaf
<1>3. CASE scan.step \in Attesting
  <2>1. Seeing = <<dir>> \/ Seeing = <<dir, Here>>
    BY <1>3, SeesNow DEF dir
  <2>2. \A expected \in {<<>>, <<dir, Here>>} : Attests(ScanRoot.canonical, Seeing, expected)
    BY <1>0, <1>1, <2>1 DEF Attests
  <2>3. Len(Seeing) = 2 => Seeing[2] = Here
    BY <1>0, <2>1
  <2>4. scan.step \in {"stable", "enter", "leave"} => scan.attested = <<dir, Here>>
    BY DEF ScanNow, dir
  <2>5. scan.step \notin {"manifest", "declared", "entries"}
    BY <1>3 DEF Attesting
  <2>6. QED BY <1>3, <2>2, <2>3, <2>4, <2>5 DEF Agrees, Attesting
<1>4. CASE scan.step = "declared"
  <2>1. Seeing = <<Here>> \/ Seeing = <<Here, Here>>
    BY <1>4, SeesNow
  <2>2. Seeing[1] # None /\ (Len(Seeing) = 2 => Contained(Here, Seeing[2]))
    BY <1>0, <1>1, <2>1
  <2>3. QED BY <1>4, <2>2 DEF Agrees
<1>5. CASE scan.step = "entries"
  BY <1>1, <1>5 DEF Agrees, dir
<1>6. CASE scan.step = "manifest"
  <2>1. \/ Seeing = <<leaf>> \/ Seeing = <<leaf, leaf>> \/ Seeing = <<leaf, leaf, text[leaf]>>
    BY <1>6, SeesNow DEF leaf
  <2>2. Agrees(Seeing) <=> Snaps(Seeing) /\ (Len(Seeing) = 3 => IsPlugin(Seeing[3]) /\ Valid(Seeing[3]))
    BY <1>6 DEF Agrees
  <2>3. ASSUME Here \in {"pkg", "outPkg"}, Plugins PROVE Agrees(Seeing)
    <3>1. leaf \in Inodes /\ IsFile(leaf)
      BY <2>3, ThereNow DEF Inodes, leaf, IsFile
    <3>2. Snaps(Seeing)
      BY <1>0, <2>1, <3>1 DEF Snaps
    <3>3. Len(Seeing) = 3 => Seeing[3] = text[leaf]
      BY <1>0, <2>1
    <3>4. QED BY <2>2, <2>3, <3>1, <3>2, <3>3 DEF Plugins
  <2>4. ASSUME Agrees(Seeing) PROVE Here \in {"pkg", "outPkg"}
    <3>1. Seeing[1] = leaf /\ 1 \in DOMAIN Seeing
      BY <1>0, <2>1
    <3>2. leaf \in Inodes
      BY <2>2, <2>4, <3>1 DEF Snaps, IsFile
    <3>3. QED BY <3>2, HereIs, ThereNow DEF Inodes, Canonical, None, leaf
  <2>5. QED BY <1>6, <2>3, <2>4
<1>7. QED BY <1>2, <1>3, <1>4, <1>5, <1>6 DEF Attesting, Late

LEMMA PlaceStands ==
  ASSUME UNCHANGED <<tree, scene>>, NEW path
  PROVE  /\ LStat(path)' = LStat(path) /\ LStatManifest(path)' = LStatManifest(path)
         /\ Inside(path)' = Inside(path)
         /\ text' = text /\ (Plugins' <=> Plugins) /\ (TreeInit => TreeInit') /\ Spent' = Spent
<1>1. /\ top' = top /\ inner' = inner /\ file' = file /\ text' = text /\ changes' = changes
      /\ scene' = scene
  BY DEF tree
<1>2. LStat(path)' = LStat(path)
  BY <1>1 DEF LStat
<1>3. LStatManifest(path)' = LStatManifest(path)
  BY <1>1, <1>2 DEF LStatManifest, LeadsTo
<1>4. Inside(path)' = Inside(path)
  BY <1>1 DEF Inside
<1>5. (Plugins' <=> Plugins) /\ (TreeInit => TreeInit') /\ Spent' = Spent
  BY <1>1 DEF Plugins, TreeInit, Spent
<1>6. QED BY <1>1, <1>2, <1>3, <1>4, <1>5

(* The directory the scan is at, in the next state.                          *)
LEMMA HereStands ==
  ASSUME UNCHANGED <<tree, scene>>, Here' = Here
  PROVE  /\ LStat(Here)' = LStat(Here) /\ LStatManifest(Here)' = LStatManifest(Here)
         /\ Inside(Here)' = Inside(Here)
<1>1. PICK path : path = Here
  OBVIOUS
<1>2. /\ LStat(path)' = LStat(path) /\ LStatManifest(path)' = LStatManifest(path)
      /\ Inside(path)' = Inside(path)
  BY PlaceStands
<1>3. Here' = path
  BY <1>1
<1>4. /\ LStat(Here)' = LStat(path)' /\ LStatManifest(Here)' = LStatManifest(path)'
      /\ Inside(Here)' = Inside(path)'
  BY <1>3 DEF LStat, LStatManifest, LeadsTo, Inside
<1>5. QED BY <1>1, <1>2, <1>4

LEMMA CallNow ==
  ASSUME TreeOK, TreeInit, ScanOK, ScanNow, ScanCall, UNCHANGED <<tree, scene>>
  PROVE  ScanNow'
<1> DEFINE dir == LStat(Here)
           leaf == LStatManifest(Here)
<1>1. /\ Scanning /\ Agrees(Seeing) /\ Len(Seeing) < Len(CallsOf(scan.step))
  BY DEF ScanCall
<1>2. /\ scan'.step = scan.step /\ scan'.seen = Seeing /\ scan'.attested = scan.attested
      /\ scan'.manifest = scan.manifest /\ scan'.inside = scan.inside /\ Here' = Here /\ Scanning'
  BY <1>1, CallLeaves
<1>3. /\ dir' = dir /\ leaf' = leaf /\ Inside(Here)' = Inside(Here) /\ text' = text
      /\ (Plugins' <=> Plugins)
  BY <1>2, HereStands, PlaceStands
<1>4. /\ \A step \in Attesting : Len(CallsOf(step)) = 2
      /\ Len(CallsOf("manifest")) = 3 /\ Len(CallsOf("declared")) = 2 /\ Len(CallsOf("entries")) = 1
  BY CallsAre
<1>5. \A a, b, c : Len(<<a>>) = 1 /\ Len(<<a, b>>) = 2 /\ Len(<<a, b, c>>) = 3
  OBVIOUS
<1> HIDE DEF dir, leaf
<1>6. scan.step \in Attesting => Seeing = <<dir>>
  BY <1>1, <1>4, <1>5, SeesNow DEF dir
<1>7. scan.step = "manifest" => Seeing \in {<<leaf>>, <<leaf, leaf>>} /\ Here \in {"pkg", "outPkg"}
  BY <1>1, <1>4, <1>5, SeesNow, AgreesNow DEF leaf
<1>8. scan.step = "declared" => Seeing = <<Here>>
  BY <1>1, <1>4, <1>5, SeesNow
<1>9. scan.step # "entries"
  BY <1>1, <1>4, <1>5, SeesNow
<1>10. QED BY <1>1, <1>2, <1>3, <1>6, <1>7, <1>8, <1>9 DEF ScanNow, dir, leaf

LEMMA StepNow ==
  ASSUME TreeOK, TreeInit, ScanOK, ScanNow, ScanStep, UNCHANGED <<tree, scene>>
  PROVE  ScanNow'
<1> DEFINE dir == LStat(Here)
           leaf == LStatManifest(Here)
           said == text[leaf]
<1>1. /\ Scanning /\ Agrees(Seeing) /\ Len(Seeing) = Len(CallsOf(scan.step)) /\ scan.step # "leave"
  BY DEF ScanStep
<1>2. /\ scan'.step = After(scan.step) /\ scan'.seen = <<>> /\ Here' = Here /\ Scanning'
      /\ scan.step # "attest" => scan'.attested = scan.attested
      /\ scan.step = "attest" => scan'.attested = Seeing
      /\ scan.step = "manifest" => scan'.manifest = <<Seeing[2], Seeing[3]>>
      /\ scan.step = "issue" => scan'.manifest = <<Seeing[1]>> \o scan.manifest
      /\ scan.step \notin {"manifest", "issue"} => scan'.manifest = scan.manifest
      /\ scan.step = "entries" => scan'.inside = Seeing[1]
  <2>1. CASE scan.step # "attest"
    BY <1>1, <2>1, StepLeaves
  <2>2. CASE scan.step = "attest"
    <3>1. Scans(After("attest"), <<>>, Seeing, scan.manifest, scan.inside)
      BY <2>2 DEF ScanStep
    <3>2. QED BY <1>1, <2>2, <3>1, SameDirectoryStill
  <2>3. QED BY <2>1, <2>2
<1>3. /\ dir' = dir /\ leaf' = leaf /\ Inside(Here)' = Inside(Here) /\ text' = text /\ said' = said
      /\ (Plugins' <=> Plugins)
  BY <1>2, HereStands, PlaceStands
<1>4. /\ \A step \in Attesting : Len(CallsOf(step)) = 2
      /\ Len(CallsOf("manifest")) = 3 /\ Len(CallsOf("declared")) = 2 /\ Len(CallsOf("entries")) = 1
  BY CallsAre
<1>5. \A a, b, c : /\ Len(<<a>>) = 1 /\ Len(<<a, b>>) = 2 /\ Len(<<a, b, c>>) = 3
                   /\ <<a>>[1] = a /\ <<a, b>>[1] = a /\ <<a, b, c>>[2] = b /\ <<a, b, c>>[3] = c
                   /\ <<a, b, c>> # <<>>
  OBVIOUS
<1>6. scan.step \in {"attest", "manifest", "declared", "issue"} \cup Late
  BY <1>1 DEF ScanOK, ScanKnows
<1> HIDE DEF dir, leaf, said
<1>7. CASE scan.step = "attest"
  <2>0. scan'.step = "manifest"
    BY <1>2, <1>7 DEF After
  <2>1. Seeing = <<dir, Here>>
    <3>1. "attest" \in Attesting
      BY DEF Attesting
    <3>2. Len(Seeing) = 2
      BY <1>1, <1>4, <1>7, <3>1
    <3>3. Seeing = <<dir>> \/ Seeing = <<dir, Here>>
      BY <1>1, <1>7, <3>1, SeesNow DEF dir
    <3>4. QED BY <1>5, <3>2, <3>3
  <2>2. QED BY <1>2, <1>3, <1>7, <2>0, <2>1 DEF ScanNow, dir, leaf, Late, Attesting
<1>8. CASE scan.step = "manifest"
  <2>1. Seeing = <<leaf, leaf, said>> /\ scan'.step = "declared" /\ Here \in {"pkg", "outPkg"}
    BY <1>1, <1>2, <1>4, <1>5, <1>8, SeesNow, AgreesNow DEF leaf, said, After
  <2>2. scan'.manifest = <<leaf, said>>
    BY <1>2, <1>5, <1>8, <2>1
  <2>3. scan'.attested = <<dir, Here>>
    BY <1>1, <1>2, <1>8 DEF ScanNow, dir
  <2>4. QED BY <1>2, <1>3, <1>8, <2>1, <2>2, <2>3 DEF ScanNow, dir, leaf, said, Late, Attesting
<1>9. CASE scan.step = "declared"
  <2>1. scan'.step = "issue" /\ Here \in {"pkg", "outPkg"} /\ scan'.manifest = <<leaf, said>>
    BY <1>1, <1>2, <1>9 DEF ScanNow, leaf, said, After
  <2>2. scan'.attested = <<dir, Here>>
    BY <1>1, <1>2, <1>9 DEF ScanNow, dir
  <2>3. QED BY <1>2, <1>3, <1>9, <2>1, <2>2 DEF ScanNow, dir, leaf, said, Late, Attesting
<1>10. CASE scan.step = "issue"
  <2>1. Seeing[1] = dir /\ scan'.step = "stable"
    BY <1>1, <1>2, <1>4, <1>5, <1>10, SeesNow DEF dir, Attesting, After
  <2>2. scan.manifest = <<leaf, said>> /\ Here \in {"pkg", "outPkg"} /\ scan'.attested = <<dir, Here>>
    BY <1>1, <1>2, <1>10 DEF ScanNow, dir, leaf, said
  <2>3. scan'.manifest = <<dir, leaf, said>>
    BY <1>2, <1>10, <2>1, <2>2, Put
  <2>4. scan'.manifest # <<>>
    BY <1>5, <2>3
  <2>5. QED BY <1>2, <1>3, <2>1, <2>2, <2>3, <2>4 DEF ScanNow, dir, leaf, said, Late, Attesting
<1>11. CASE scan.step \in Late
  <2>1. /\ scan'.manifest = scan.manifest /\ scan'.attested = scan.attested
        /\ scan'.step \in Late /\ (scan'.step = "leave" => scan.step = "entries")
    BY <1>1, <1>2, <1>11 DEF After, Late
  <2>2. scan.step = "entries" => scan'.inside = Inside(Here)
    BY <1>1, <1>2, <1>5, SeesNow
  <2>3. /\ scan.attested = <<dir, Here>> /\ scan.manifest \in {<<>>, <<dir, leaf, said>>}
        /\ scan.manifest # <<>> => Here \in {"pkg", "outPkg"}
        /\ scan.manifest = <<>> /\ Here \in {"pkg", "outPkg"} => ~Plugins
    BY <1>1, <1>11 DEF ScanNow, Late, dir, leaf, said
  <2>4. scan'.step \notin {"attest", "manifest", "declared", "issue"}
    BY <2>1 DEF Late
  <2>5. QED BY <1>2, <1>3, <2>1, <2>2, <2>3, <2>4 DEF ScanNow, dir, leaf, said
<1>12. QED BY <1>6, <1>7, <1>8, <1>9, <1>10, <1>11

LEMMA NoCandidateNow ==
  ASSUME TreeOK, TreeInit, ScanOK, ScanNow, NoCandidate, UNCHANGED <<tree, scene>>
  PROVE  ScanNow'
<1>1. /\ Scanning /\ scan.step \in {"manifest", "declared", "issue"} /\ ~Agrees(Seeing)
      /\ Scans("stable", <<>>, scan.attested, <<>>, scan.inside)
  BY DEF NoCandidate
<1>2. /\ scan'.step = "stable" /\ scan'.seen = <<>> /\ scan'.attested = scan.attested
      /\ scan'.manifest = <<>> /\ Here' = Here /\ Scanning'
  BY <1>1, SameDirectoryStill
<1>3. LStat(Here)' = LStat(Here) /\ (Plugins' <=> Plugins)
  BY <1>2, HereStands, PlaceStands
<1>4. Here \in {"pkg", "outPkg"} => ~Plugins
  BY <1>1, AgreesNow
<1>5. scan.attested = <<LStat(Here), Here>>
  BY <1>1 DEF ScanNow
<1>6. QED BY <1>2, <1>3, <1>4, <1>5 DEF ScanNow, Late, Attesting

LEMMA AtNow ==
  ASSUME NEW root, NEW done, NEW queue, scan' = At(root, done, queue)
  PROVE  ScanNow'
<1>1. scan'.step = "attest" /\ scan'.seen = <<>>
  BY DEF At
<1>2. QED BY <1>1 DEF ScanNow, Late

(* The directory that is left is recorded, or leads to one that will be.     *)
LEMMA LeavesFound ==
  ASSUME TreeOK, TreeInit, ScanOK, ScanNow, CandidatesNow, ScanDirectory, UNCHANGED <<tree, scene>>
  PROVE  /\ CandidatesNow'
         /\ Plugins => candidates' # {} \/ Scanning'
<1> DEFINE dir == LStat(Here)
           leaf == LStatManifest(Here)
           said == text[leaf]
<1>1. /\ Scanning /\ scan.step = "leave" /\ candidates' = Recorded /\ scan' = NextDirectory(scan.inside)
  BY DEF ScanDirectory
<1>2. /\ scan.manifest \in {<<>>, <<dir, leaf, said>>}
      /\ scan.manifest # <<>> => Here \in {"pkg", "outPkg"}
      /\ scan.manifest = <<>> /\ Here \in {"pkg", "outPkg"} => ~Plugins
      /\ scan.inside = Inside(Here)
  BY <1>1 DEF ScanNow, Late
<1>3. ASSUME NEW on, on.path \in {"pkg", "outPkg"}, Contained(on.root, on.path),
             on.dir = LStat(on.path), on.inode = LStatManifest(on.path), on.said = text[on.inode]
      PROVE  /\ on.dir = LStat(on.path)' /\ on.inode = LStatManifest(on.path)'
             /\ on.said = text'[on.inode]
  <2>1. /\ LStat(on.path)' = LStat(on.path) /\ LStatManifest(on.path)' = LStatManifest(on.path)
        /\ text' = text
    BY PlaceStands
  <2>2. QED BY <1>3, <2>1
<1>4. CandidatesNow'
  <2>1. SUFFICES ASSUME NEW on \in candidates'
                 PROVE  /\ on.path \in {"pkg", "outPkg"} /\ Contained(on.root, on.path)
                        /\ on.dir = LStat(on.path) /\ on.inode = LStatManifest(on.path)
                        /\ on.said = text[on.inode]
    BY <1>3 DEF CandidatesNow, Contained
  <2>2. CASE on \in candidates
    BY <2>2 DEF CandidatesNow
  <2>3. CASE on \notin candidates
    <3>1. /\ on = [path |-> Here, root |-> ScanRoot.canonical, dir |-> scan.manifest[1],
                   inode |-> scan.manifest[2], said |-> scan.manifest[3]]
          /\ scan.manifest # <<>>
      BY <1>1, <2>1, <2>3 DEF Recorded
    <3> HIDE DEF dir, leaf, said
    <3>2. scan.manifest[1] = dir /\ scan.manifest[2] = leaf /\ scan.manifest[3] = said
      BY <1>2, <3>1
    <3>3. Contained(ScanRoot.canonical, Here)
      BY <1>1, HereInside
    <3>4. QED BY <1>2, <3>1, <3>2, <3>3 DEF dir, leaf, said
  <2>4. QED BY <2>2, <2>3
<1>5. ASSUME Plugins PROVE candidates' # {} \/ Scanning'
  <2>1. CASE Here \in {"pkg", "outPkg"}
    <3>1. scan.manifest # <<>>
      BY <1>2, <1>5, <2>1
    <3>2. QED BY <1>1, <3>1 DEF Recorded
  <2>2. CASE Here \notin {"pkg", "outPkg"}
    <3>1. Here \in {"root", "out"}
      BY <1>1, <2>2, HereIs DEF Canonical
    <3>2. scan.inside = <<"pkg">> \/ scan.inside = <<"outPkg">>
      BY <1>2, <3>1, ThereNow
    <3>3. scan'.queue = Tail(scan.queue) \o scan.inside
      BY <1>1 DEF NextDirectory, At
    <3> DEFINE R == Reach(scan.root.canonical)
               rest == Tail(scan.queue)
               inside == scan.inside
    <3>4. rest \in Seq(R) /\ inside \in Seq(R)
      BY <1>1, HereIs DEF ScanOK, ScanShape
    <3>5. Len(inside) = 1
      BY <3>2
    <3>6. scan'.queue = rest \o inside
      BY <3>3
    <3> HIDE DEF R, rest, inside
    <3>7. Len(scan'.queue) = Len(rest) + 1 /\ Len(rest) \in Nat
      BY <3>4, <3>5, <3>6, ConcatProperties
    <3>8. Len(<<>>) = 0
      OBVIOUS
    <3>9. scan'.queue # <<>>
      BY <3>7, <3>8
    <3>10. QED BY <3>9 DEF Scanning
  <2>3. QED BY <2>1, <2>2
<1>6. QED BY <1>4, <1>5

LEMMA CandidatesStandNow ==
  ASSUME CandidatesNow, candidates' = candidates, UNCHANGED <<tree, scene>>
  PROVE  CandidatesNow'
<1>1. ASSUME NEW on \in candidates'
      PROVE  /\ on.path \in {"pkg", "outPkg"} /\ Contained(on.root, on.path)
             /\ on.dir = LStat(on.path)' /\ on.inode = LStatManifest(on.path)'
             /\ on.said = text'[on.inode]
  <2>1. /\ LStat(on.path)' = LStat(on.path) /\ LStatManifest(on.path)' = LStatManifest(on.path)
        /\ text' = text
    BY PlaceStands
  <2>2. QED BY <1>1, <2>1 DEF CandidatesNow
<1>2. QED BY <1>1 DEF CandidatesNow, Contained

LEMMA ScanKeepsNow ==
  ASSUME TreeOK, TreeInit, ScanOK, ScanNow, CandidatesNow, FoundNow, Scan, UNCHANGED <<tree, scene>>
  PROVE  ScanNow' /\ CandidatesNow' /\ FoundNow'
<1>0. Plugins' <=> Plugins
  BY PlaceStands
<1>1. CASE NextRoot
  <2>1. candidates' = candidates
    BY <1>1 DEF NextRoot
  <2>2. CASE \E root \in RootsLeft : scan' = At(root, scan.done \cup {root}, <<root.canonical>>)
    <3>1. PICK root \in RootsLeft : scan' = At(root, scan.done \cup {root}, <<root.canonical>>)
      BY <2>2
    <3>2. scan'.queue # <<>>
      <4>1. scan'.queue = <<root.canonical>>
        BY <3>1 DEF At
      <4>2. QED BY <4>1
    <3>3. QED BY <2>1, <3>1, <3>2, AtNow, CandidatesStandNow DEF FoundNow, Scanning
  <2>3. CASE Scans("ended", <<>>, <<>>, <<>>, <<>>)
    <3>1. ~Scanning /\ scan'.queue = scan.queue /\ scan'.done = scan.done
      BY <1>1, <2>3 DEF NextRoot, Scans
    <3>2. ~Scanning'
      BY <3>1 DEF Scanning
    <3>3. QED BY <1>0, <2>1, <3>1, <3>2, CandidatesStandNow DEF FoundNow, ScanNow
  <2>4. QED BY <1>1, <2>2, <2>3 DEF NextRoot
<1>2. CASE ScanCall \/ ScanStep \/ NoCandidate
  <2>1. candidates' = candidates /\ scan'.queue = scan.queue /\ Scanning
    BY <1>2 DEF ScanCall, ScanStep, NoCandidate, Scans
  <2>2. Scanning'
    BY <2>1 DEF Scanning
  <2>3. ScanNow'
    BY <1>2, CallNow, StepNow, NoCandidateNow
  <2>4. QED BY <2>1, <2>2, <2>3, CandidatesStandNow DEF FoundNow
<1>3. CASE ScanFails
  <2>1. Scanning /\ ~Agrees(Seeing) /\ scan.step # "manifest"
    BY <1>3 DEF ScanFails
  <2>2. QED BY <2>1, AgreesNow
<1>4. CASE ScanDirectory
  <2>1. PICK root, done, queue : scan' = At(root, done, queue)
    BY <1>4 DEF ScanDirectory, NextDirectory
  <2>2. QED BY <1>0, <1>4, <2>1, AtNow, LeavesFound DEF FoundNow
<1>5. QED BY <1>1, <1>2, <1>3, <1>4 DEF Scan

LEMMA FoundInit == Init => Found
<1> SUFFICES ASSUME Init PROVE Found
  OBVIOUS
<1>1. scan.queue = <<>> /\ scan.step = "attest" /\ scan.done = {} /\ candidates = {} /\ TreeInit
  BY DEF Init, DiscoveryInit, Idle, At
<1>2. ~Scanning /\ ~ScanEnded
  BY <1>1 DEF Scanning, ScanEnded
<1>3. QED BY <1>1, <1>2 DEF Found, ScanIsOver, ScanNow, CandidatesNow, FoundNow

LEMMA OverStays ==
  ASSUME ScanOK, ScanIsOver, Scan, inputs' = inputs, roots' = roots
  PROVE  ScanIsOver'
<1>1. SUFFICES ASSUME ScanEnded' PROVE ~Scanning' /\ inputs' = <<>> /\ RootsLeft' = {}
  BY DEF ScanIsOver
<1>2. CASE NextRoot
  <2>1. inputs = <<>> /\ ~Scanning
    BY <1>2 DEF NextRoot
  <2>2. \A root, done, queue : scan' # At(root, done, queue)
    BY <1>1 DEF At, ScanEnded
  <2>3. RootsLeft = {} /\ Scans("ended", <<>>, <<>>, <<>>, <<>>)
    BY <1>2, <2>2 DEF NextRoot
  <2>4. scan'.queue = scan.queue /\ scan'.done = scan.done
    BY <2>3 DEF Scans
  <2>5. QED BY <2>1, <2>3, <2>4 DEF Scanning, RootsLeft, Admitted
<1>3. CASE ~NextRoot
  <2>1. Scanning
    BY <1>3 DEF Scan, ScanCall, ScanStep, NoCandidate, ScanFails, ScanDirectory
  <2>2. scan.step \in {"attest", "manifest", "declared", "issue"} \cup Late
    BY <2>1 DEF ScanOK, ScanKnows
  <2>3. ScanCall => scan'.step = scan.step
    BY DEF ScanCall, Scans
  <2>4. ScanStep => scan'.step = After(scan.step) /\ scan.step # "leave"
    BY DEF ScanStep, Scans
  <2>5. NoCandidate => scan'.step = "stable"
    BY DEF NoCandidate, Scans
  <2>6. ScanFails \/ ScanDirectory => scan'.step = "attest"
    <3>1. \A found : NextDirectory(found).step = "attest"
      BY DEF NextDirectory, At
    <3>2. QED BY <3>1 DEF ScanFails, ScanDirectory
  <2>7. scan'.step # "ended"
    <3>1. scan.step # "ended"
      BY <2>2 DEF Late
    <3>2. scan.step # "leave" => After(scan.step) # "ended"
      BY <2>2 DEF After, Late
    <3>3. QED BY <1>3, <2>3, <2>4, <2>5, <2>6, <3>1, <3>2 DEF Scan
  <2>8. QED BY <1>1, <2>7 DEF ScanEnded
<1>4. QED BY <1>2, <1>3

LEMMA NowStands ==
  ASSUME ScanNow, CandidatesNow, FoundNow, UNCHANGED <<tree, scene, discovery>>
  PROVE  ScanNow' /\ CandidatesNow' /\ FoundNow'
<1>1. scan' = scan /\ candidates' = candidates /\ UNCHANGED <<tree, scene>>
  BY DEF discovery
<1>2. Here' = Here /\ (Scanning' <=> Scanning)
  BY <1>1 DEF Here, Scanning
<1>3. /\ LStat(Here)' = LStat(Here) /\ LStatManifest(Here)' = LStatManifest(Here)
      /\ Inside(Here)' = Inside(Here) /\ text' = text /\ (Plugins' <=> Plugins)
  BY <1>1, <1>2, HereStands, PlaceStands
<1>4. ScanNow'
  BY <1>1, <1>2, <1>3 DEF ScanNow
<1>5. FoundNow'
  BY <1>1, <1>2, <1>3 DEF FoundNow
<1>6. QED BY <1>1, <1>4, <1>5, CandidatesStandNow

LEMMA FoundNext == Placed /\ Found /\ [Next]_vars => Found'
<1> SUFFICES ASSUME Placed, Found, [Next]_vars PROVE Found'
  OBVIOUS
<1>1. ScanIsOver'
  <2>1. CASE ScanRoots
    BY <2>1, OverStays DEF ScanRoots, admission, Placed, Found
  <2>2. CASE AdmitRoots
    <3>1. inputs # <<>> /\ scan' = scan
      BY <2>2 DEF AdmitRoots, Admit, RejectInput, LookAtRoot, DecideRoot, discovery
    <3>2. QED BY <3>1 DEF Found, ScanIsOver, ScanEnded
  <2>3. CASE UNCHANGED <<admission, discovery>>
    BY <2>3 DEF admission, discovery, Found, ScanIsOver, ScanEnded, Scanning, RootsLeft, Admitted
  <2>4. CASE \/ TreeChanges \/ HandOverCandidates \/ WriteTarget \/ AskNative \/ RunCommand
             \/ TakeAnswer \/ ReadInventory \/ UNCHANGED vars
    BY <2>3, <2>4 DEF TreeChanges, HandOverCandidates, WriteTarget, AskNative, RunCommand, TakeAnswer,
                      ReadInventory, vars
  <2>5. QED BY <2>1, <2>2, <2>4 DEF Next
<1>2. ASSUME Calm' PROVE TreeInit' /\ ScanNow' /\ CandidatesNow' /\ FoundNow'
  <2>1. Calm /\ UNCHANGED <<tree, scene>> /\ ~TreeChanges
    BY <1>2, StillCalm DEF Placed
  <2>2. TreeInit /\ ScanNow /\ CandidatesNow /\ FoundNow /\ TreeInit'
    BY <2>1, PlaceStands DEF Found
  <2>3. CASE ScanRoots
    BY <2>1, <2>2, <2>3, ScanKeepsNow DEF ScanRoots, Placed
  <2>4. CASE UNCHANGED discovery
    BY <2>1, <2>2, <2>4, NowStands
  <2>5. CASE ~ScanRoots
    BY <2>1, <2>4, <2>5 DEF Next, AdmitRoots, HandOverCandidates, WriteTarget, AskNative, RunCommand,
                            TakeAnswer, ReadInventory, vars
  <2>6. QED BY <2>3, <2>5
<1>3. QED BY <1>1, <1>2 DEF Found

------------------------------------------------------------------------------
(* What the callers see then.                                                *)

SeenNow(step, on, seen) ==
  \A i \in 1 .. Len(seen) :
    /\ step \in {"before", "after"} =>
         /\ i \in {1, 6} => seen[i] = on.dir
         /\ i \in {2, 7} => seen[i] = on.path
         /\ i \in {3, 4} => seen[i] = on.inode
         /\ i = 5 => seen[i] = on.said
    /\ step \in {"inspect", "validate"} =>
         /\ i \in {1, 3, 8, 10} => seen[i] = on.dir
         /\ i \in {2, 9} => seen[i] = on.path
         /\ i \in {4, 5, 7} => seen[i] = on.inode
         /\ i = 6 => seen[i] = on.said

HandNow ==
  \A caller \in Callers :
    /\ hand[caller].step \in Busy => ~hand[caller].failed
    /\ Handing(caller) => SeenNow(hand[caller].step, hand[caller].on, hand[caller].seen)

SomeoneBusy ==
  inventory # "trusted" /\ (consumed # {} \/ \E caller \in Callers : hand[caller].step = "refused")
    => \E caller \in Callers : hand[caller].step \in Busy

Undisturbed == Calm => HandNow /\ SomeoneBusy

LEMMA NowInHand ==
  ASSUME TreeInit, CandidatesNow, Once, NEW caller \in Callers, hand[caller].step \in Busy
  PROVE  LET on == hand[caller].on
         IN  /\ on.path \in {"pkg", "outPkg"} /\ Contained(on.root, on.path)
             /\ LStat(on.path) = on.dir /\ RealPath(on.path) = on.path
             /\ LStatManifest(on.path) = on.inode /\ text[on.inode] = on.said
             /\ IsDirectory(on.dir) /\ on.inode \in Inodes
<1>1. PICK on : on = hand[caller].on
  OBVIOUS
<1>2. on \in candidates
  BY <1>1 DEF Once, Taken
<1>3. /\ on.path \in {"pkg", "outPkg"} /\ Contained(on.root, on.path)
      /\ on.dir = LStat(on.path) /\ on.inode = LStatManifest(on.path) /\ on.said = text[on.inode]
  BY <1>2 DEF CandidatesNow
<1>4. RealPath(on.path) = on.path /\ IsDirectory(on.dir)
  BY <1>3, ThereNow DEF Canonical
<1>5. on.inode \in Inodes
  BY <1>3, ThereNow DEF Inodes
<1>6. QED BY <1>1, <1>3, <1>4, <1>5

LEMMA SeesItNow ==
  ASSUME Placed, HandOK, Once, TreeInit, CandidatesNow, NEW caller \in Callers, Handing(caller),
         SeenNow(hand[caller].step, hand[caller].on, hand[caller].seen)
  PROVE  SeenNow(hand[caller].step, hand[caller].on, HandSees(caller))
<1>1. PICK on, seen, step, n, sees :
        /\ on = hand[caller].on /\ seen = hand[caller].seen /\ step = hand[caller].step
        /\ n = Len(hand[caller].seen) /\ sees = HandSees(caller)
  OBVIOUS
<1>2. /\ LStat(on.path) = on.dir /\ RealPath(on.path) = on.path
      /\ LStatManifest(on.path) = on.inode /\ text[on.inode] = on.said
  BY <1>1, NowInHand DEF Handing, Busy
<1>3. /\ seen \in Seq(Answers) /\ n \in Nat /\ n < Len(HandCalls(step)) /\ Len(seen) = n
  <2>1. seen \in Seq(Answers) /\ Len(seen) < Len(HandCalls(step))
    BY <1>1 DEF HandOK, HandOf
  <2>2. QED BY <1>1, <2>1
<1>4. /\ Len(sees) = n + 1 /\ \A i \in 1 .. n : sees[i] = seen[i]
      /\ \A x : sees = Append(seen, x) => sees[n + 1] = x
  BY <1>1, SeesOn
<1>5. SeenNow(step, on, seen)
  BY <1>1
<1>6. ASSUME step \in {"before", "after"}
      PROVE  /\ n + 1 \in {1, 6} => sees[n + 1] = on.dir
             /\ n + 1 \in {2, 7} => sees[n + 1] = on.path
             /\ n + 1 \in {3, 4} => sees[n + 1] = on.inode
             /\ n + 1 = 5 => sees[n + 1] = on.said
  <2>1. /\ n \in {0, 5} => sees = Append(seen, on.dir)
        /\ n \in {1, 6} => sees = Append(seen, on.path)
        /\ n \in {2, 3} => sees = Append(seen, on.inode)
        /\ n = 4 => sees = Append(seen, text[seen[4]])
    BY <1>1, <1>2, <1>3, <1>6, CallAsks
  <2>2. n = 4 => seen[4] = on.inode
    <3>1. n = 4 => 4 \in 1 .. Len(seen)
      BY <1>3
    <3>2. QED BY <1>5, <1>6, <3>1 DEF SeenNow
  <2>3. n = 4 => sees = Append(seen, on.said)
    BY <1>2, <2>1, <2>2
  <2>4. QED BY <1>3, <1>4, <2>1, <2>3
<1>7. ASSUME step \in {"inspect", "validate"}
      PROVE  /\ n + 1 \in {1, 3, 8, 10} => sees[n + 1] = on.dir
             /\ n + 1 \in {2, 9} => sees[n + 1] = on.path
             /\ n + 1 \in {4, 5, 7} => sees[n + 1] = on.inode
             /\ n + 1 = 6 => sees[n + 1] = on.said
  <2>1. /\ n \in {0, 2, 7, 9} => sees = Append(seen, on.dir)
        /\ n \in {1, 8} => sees = Append(seen, on.path)
        /\ n \in {3, 4, 6} => sees = Append(seen, on.inode)
        /\ n = 5 => sees = Append(seen, text[seen[5]])
    BY <1>1, <1>2, <1>3, <1>7, CallAsks
  <2>2. n = 5 => seen[5] = on.inode
    <3>1. n = 5 => 5 \in 1 .. Len(seen)
      BY <1>3
    <3>2. QED BY <1>5, <1>7, <3>1 DEF SeenNow
  <2>3. n = 5 => sees = Append(seen, on.said)
    BY <1>2, <2>1, <2>2
  <2>4. QED BY <1>3, <1>4, <2>1, <2>3
<1>8. SeenNow(step, on, sees)
  <2>1. SUFFICES ASSUME NEW i \in 1 .. Len(sees)
                 PROVE  /\ step \in {"before", "after"} =>
                             /\ i \in {1, 6} => sees[i] = on.dir
                             /\ i \in {2, 7} => sees[i] = on.path
                             /\ i \in {3, 4} => sees[i] = on.inode
                             /\ i = 5 => sees[i] = on.said
                        /\ step \in {"inspect", "validate"} =>
                             /\ i \in {1, 3, 8, 10} => sees[i] = on.dir
                             /\ i \in {2, 9} => sees[i] = on.path
                             /\ i \in {4, 5, 7} => sees[i] = on.inode
                             /\ i = 6 => sees[i] = on.said
    BY DEF SeenNow
  <2>2. CASE i = n + 1
    BY <1>6, <1>7, <2>2
  <2>3. CASE i # n + 1
    <3>1. i \in 1 .. Len(seen) /\ sees[i] = seen[i]
      BY <1>3, <1>4, <2>1, <2>3
    <3>2. QED BY <1>5, <3>1 DEF SeenNow
  <2>4. QED BY <2>2, <2>3
<1>9. QED BY <1>1, <1>8

(* And so they agree.                                                        *)
LEMMA NoneDisagrees ==
  ASSUME Placed, HandOK, Once, TreeInit, CandidatesNow, NEW caller \in Callers, Handing(caller),
         SeenNow(hand[caller].step, hand[caller].on, hand[caller].seen)
  PROVE  HandAgreed(caller)
<1>1. PICK on, step, s :
        on = hand[caller].on /\ step = hand[caller].step /\ s = HandSees(caller)
  OBVIOUS
<1>2. /\ on.path # None /\ Contained(on.root, on.path)
      /\ IsDirectory(on.dir) /\ on.inode \in Inodes /\ on.dir # None
  <2>1. /\ on.path \in {"pkg", "outPkg"} /\ Contained(on.root, on.path)
        /\ IsDirectory(on.dir) /\ on.inode \in Inodes
    BY <1>1, NowInHand DEF Handing, Busy
  <2>2. QED BY <2>1 DEF None, IsDirectory
<1>3. SeenNow(step, on, s)
  BY <1>1, SeesItNow
<1>4. s \in Seq(Answers)
  BY <1>1, SeesOn
<1>5. DOMAIN s = 1 .. Len(s) /\ Len(s) \in Nat
  BY <1>4
<1>6. \A i \in 1 .. Len(s) : \A j \in 1 .. 10 : j <= i => j \in 1 .. Len(s)
  BY <1>5
<1>7. ASSUME step \in {"before", "after"} PROVE Revalidates(on, s)
  <2>1. \A i \in 1 .. Len(s) :
          /\ i \in {1, 6} => s[i] = on.dir
          /\ i \in {2, 7} => s[i] = on.path
          /\ i \in {3, 4} => s[i] = on.inode
          /\ i = 5 => s[i] = on.said
    BY <1>3, <1>7 DEF SeenNow
  <2>2. SUFFICES ASSUME NEW i \in 1 .. Len(s)
                 PROVE  /\ i \in {1, 6} => IsDirectory(s[i])
                        /\ i \in {2, 7} => /\ s[i] = on.path /\ Contained(on.root, s[i])
                                           /\ s[i - 1] = on.dir
                        /\ i \in {3, 4} => IsFile(s[i])
                        /\ i = 5 => s[4] = on.inode /\ s[5] = on.said
    BY <1>5 DEF Revalidates
  <2>3. i \in {1, 6} => IsDirectory(s[i])
    BY <1>2, <2>1
  <2>4. i \in {2, 7} => s[i] = on.path /\ Contained(on.root, s[i]) /\ s[i - 1] = on.dir
    <3>1. i = 2 => 1 \in 1 .. Len(s)
      BY <1>6, <2>2
    <3>2. i = 7 => 6 \in 1 .. Len(s)
      BY <1>6, <2>2
    <3>3. i \in {2, 7} => i - 1 \in {1, 6} /\ i - 1 \in 1 .. Len(s)
      BY <3>1, <3>2
    <3>4. QED BY <1>2, <2>1, <3>3
  <2>5. i \in {3, 4} => IsFile(s[i])
    BY <1>2, <2>1 DEF IsFile
  <2>6. i = 5 => s[4] = on.inode /\ s[5] = on.said
    <3>1. i = 5 => 4 \in 1 .. Len(s)
      BY <1>6, <2>2
    <3>2. QED BY <2>1, <3>1
  <2>7. QED BY <2>3, <2>4, <2>5, <2>6
<1>8. ASSUME step \in {"inspect", "validate"} PROVE Inspects(on, s)
  <2>1. \A i \in 1 .. Len(s) :
          /\ i \in {1, 3, 8, 10} => s[i] = on.dir
          /\ i \in {2, 9} => s[i] = on.path
          /\ i \in {4, 5, 7} => s[i] = on.inode
          /\ i = 6 => s[i] = on.said
    BY <1>3, <1>8 DEF SeenNow
  <2>2. SUFFICES ASSUME NEW i \in 1 .. Len(s)
                 PROVE  /\ i \in {1, 2, 8, 9} => s[i] # None
                        /\ i \in {3, 10} => SameDirectory(on, s, i)
                        /\ i = 4 => IsFile(s[4])
                        /\ i = 5 => s[5] = s[4]
                        /\ i = 7 => s[7] = s[5]
                        /\ i = 10 => /\ s[10] = s[3]
                                     /\ <<s[10], s[5], s[6]>> = <<on.dir, on.inode, on.said>>
    BY <1>5 DEF Inspects
  <2>3. i \in {1, 2, 8, 9} => s[i] # None
    BY <1>2, <2>1
  <2>4. i \in {3, 10} => SameDirectory(on, s, i)
    <3>1. i = 3 => 1 \in 1 .. Len(s) /\ 2 \in 1 .. Len(s)
      BY <1>6, <2>2
    <3>2. i = 10 => 8 \in 1 .. Len(s) /\ 9 \in 1 .. Len(s)
      BY <1>6, <2>2
    <3>3. i \in {3, 10} => s[i] = on.dir /\ s[i - 2] = on.dir /\ s[i - 1] = on.path
      BY <2>1, <2>2, <3>1, <3>2
    <3>4. QED BY <1>2, <3>3 DEF SameDirectory
  <2>5. i = 4 => IsFile(s[4])
    BY <1>2, <2>1 DEF IsFile
  <2>6. i = 5 => s[5] = s[4]
    <3>1. i = 5 => 4 \in 1 .. Len(s)
      BY <1>6, <2>2
    <3>2. QED BY <2>1, <3>1
  <2>7. i = 7 => s[7] = s[5]
    <3>1. i = 7 => 5 \in 1 .. Len(s)
      BY <1>6, <2>2
    <3>2. QED BY <2>1, <3>1
  <2>8. i = 10 => s[10] = s[3] /\ <<s[10], s[5], s[6]>> = <<on.dir, on.inode, on.said>>
    <3>1. i = 10 => 3 \in 1 .. Len(s) /\ 5 \in 1 .. Len(s) /\ 6 \in 1 .. Len(s)
      BY <1>6, <2>2
    <3>2. QED BY <2>1, <3>1
  <2>9. QED BY <2>3, <2>4, <2>5, <2>6, <2>7, <2>8
<1>9. HandAgrees(step, on, s)
  BY <1>1, <1>7, <1>8 DEF HandAgrees, Handing
<1>10. QED BY <1>1, <1>9 DEF HandAgreed

(* One caller acts.                                                          *)
LEMMA HandNowBy ==
  ASSUME NEW caller \in Callers, HandNow,
         \A other \in Callers \ {caller} : hand'[other] = hand[other],
         hand'[caller].step \in Busy => ~hand'[caller].failed,
         hand'[caller].step \in {"before", "inspect", "after", "validate"} =>
           SeenNow(hand'[caller].step, hand'[caller].on, hand'[caller].seen)
  PROVE  HandNow'
<1>1. ASSUME NEW other \in Callers
      PROVE  /\ hand'[other].step \in Busy => ~hand'[other].failed
             /\ hand'[other].step \in {"before", "inspect", "after", "validate"} =>
                  SeenNow(hand'[other].step, hand'[other].on, hand'[other].seen)
  <2>1. CASE other = caller
    BY <2>1
  <2>2. CASE other # caller
    <3>1. PICK now : now = hand[other] /\ now = hand'[other]
      BY <2>2
    <3>2. /\ now.step \in Busy => ~now.failed
          /\ now.step \in {"before", "inspect", "after", "validate"} =>
               SeenNow(now.step, now.on, now.seen)
      BY <3>1 DEF HandNow, Handing
    <3>3. QED BY <3>1, <3>2
  <2>3. QED BY <2>1, <2>2
<1>2. QED BY <1>1 DEF HandNow, Handing, SeenNow

LEMMA NoneSeen == \A step, on : SeenNow(step, on, <<>>)
  BY DEF SeenNow

(* A step of a caller leaves it busy, or it takes what somebody has.         *)
LEMMA CallerKeepsNow ==
  ASSUME Placed, HandOK, Once, TreeInit, CandidatesNow, HandNow, NEW caller \in Callers, HandOver(caller)
  PROVE  /\ hand'[caller].step \in Busy => ~hand'[caller].failed
         /\ hand'[caller].step \in {"before", "inspect", "after", "validate"} =>
              SeenNow(hand'[caller].step, hand'[caller].on, hand'[caller].seen)
         /\ \/ hand'[caller].step \in Busy
            \/ hand[caller].step \notin Busy /\ consumed # {} /\ consumed' = consumed
<1> /\ {"refused", "before", "inspect", "after", "given", "validate"} \subseteq Steps
    /\ Shaped
  BY DEF Steps, Once, Taken
<1>1. PICK on, failed : on = hand[caller].on /\ failed = hand[caller].failed
  OBVIOUS
<1>2. Handing(caller) => HandAgreed(caller) /\ ~failed
  BY <1>1, NoneDisagrees DEF HandNow, Handing, Busy
<1>3. CASE Take(caller)
  <2>1. hand[caller].step \notin Busy
    BY <1>3 DEF Take, Busy
  <2>2. PICK one \in candidates :
          IF one \in consumed
          THEN Becomes(caller, "refused") /\ UNCHANGED consumed
          ELSE Puts(caller, "before", one, <<>>, FALSE)
    BY <1>3 DEF Take
  <2>3. CASE one \in consumed
    <3>1. Puts(caller, "refused", on, <<>>, failed) /\ consumed' = consumed
      BY <1>1, <2>2, <2>3 DEF Becomes
    <3>2. hand'[caller].step = "refused"
      BY <3>1, StaysShaped
    <3>3. QED BY <2>1, <2>3, <3>1, <3>2 DEF Busy
  <2>4. CASE one \notin consumed
    <3>1. Puts(caller, "before", one, <<>>, FALSE)
      BY <2>2, <2>4
    <3>2. hand'[caller].step = "before" /\ hand'[caller].seen = <<>> /\ hand'[caller].failed = FALSE
      BY <3>1, StaysShaped
    <3>3. QED BY <3>2, NoneSeen DEF Busy
  <2>5. QED BY <2>3, <2>4
<1>4. CASE HandCall(caller)
  <2>1. PICK step, sees : step = hand[caller].step /\ sees = HandSees(caller)
    OBVIOUS
  <2>2. Puts(caller, step, on, sees, failed) /\ Handing(caller) /\ step \in Steps
    BY <1>1, <1>4, <2>1, Part DEF HandCall
  <2>3. hand'[caller].step = step /\ hand'[caller].on = on /\ hand'[caller].seen = sees
        /\ hand'[caller].failed = failed
    BY <2>2, StaysShaped
  <2>4. SeenNow(step, on, sees)
    BY <1>1, <2>1, <2>2, SeesItNow DEF HandNow
  <2>5. step \in Busy
    BY <2>1, <2>2 DEF Handing, Busy
  <2>6. QED BY <1>2, <2>2, <2>3, <2>4, <2>5
<1>5. ASSUME NEW step \in {"inspect", "given", "validate"}, hand[caller].step \in Busy,
             Becomes(caller, step)
      PROVE  /\ hand'[caller].step = step /\ hand'[caller].seen = <<>> /\ ~hand'[caller].failed
  <2>1. Puts(caller, step, on, <<>>, failed) /\ ~failed
    BY <1>1, <1>5 DEF Becomes, HandNow
  <2>2. hand'[caller].step = step /\ hand'[caller].seen = <<>> /\ hand'[caller].failed = failed
    BY <2>1, StaysShaped
  <2>3. QED BY <2>1, <2>2
<1>6. CASE StartConsumer(caller) \/ Give(caller) \/ StartWrite(caller)
  <2>1. hand[caller].step \in {"before", "after", "given"} /\ ~failed
    BY <1>1, <1>6 DEF StartConsumer, Give, StartWrite, HandNow, Busy
  <2>2. PICK step \in {"inspect", "given", "validate"} : Becomes(caller, step)
    BY <1>1, <1>6, <2>1 DEF StartConsumer, Give, StartWrite
  <2>3. hand'[caller].step = step /\ hand'[caller].seen = <<>> /\ ~hand'[caller].failed
    BY <1>5, <2>1, <2>2 DEF Busy
  <2>4. QED BY <2>3, NoneSeen DEF Busy
<1>7. CASE ConsumerReturns(caller)
  <2>1. hand[caller].step = "inspect" /\ HandAgreed(caller)
    BY <1>2, <1>7 DEF ConsumerReturns, Handing
  <2>2. PICK threw : threw = ~HandAgreed(caller)
    OBVIOUS
  <2>3. Puts(caller, "after", on, <<>>, threw) /\ ~threw
    BY <1>1, <1>7, <2>1, <2>2 DEF ConsumerReturns
  <2>4. hand'[caller].step = "after" /\ hand'[caller].seen = <<>> /\ hand'[caller].failed = threw
    BY <2>3, StaysShaped
  <2>5. QED BY <2>3, <2>4, NoneSeen DEF Busy
<1>8. CASE HandFails(caller)
  BY <1>2, <1>8 DEF HandFails
<1>9. QED BY <1>3, <1>4, <1>6, <1>7, <1>8 DEF HandOver

(* The inventory that is asked for again is not the one that is trusted.     *)
LEMMA TrustIsSpent ==
  ASSUME Observing, [Next]_vars, inventory' # "trusted", ~WriteTarget
  PROVE  inventory # "trusted"
<1>1. /\ inventory # "none" => facts.status \in {"ok"} \cup Endings
      /\ child # "none" => facts.status = "none" /\ (result # Unset => child # "none")
      /\ result # Unset => child # "none"
  BY DEF Observing, InOrder
<1>2. CASE TakeAnswer
  <2>1. result # Unset
    BY <1>2 DEF TakeAnswer, Settled
  <2>2. QED BY <1>1, <2>1 DEF Endings
<1>3. CASE ReadInventory
  <2>1. CASE AllRead
    BY <1>1, <2>1 DEF AllRead, Reading, Endings
  <2>2. CASE ResolveFirst \/ ReadRow
    BY <2>2 DEF ResolveFirst, ReadRow
  <2>3. CASE Accept
    BY <2>3 DEF Accept
  <2>4. QED BY <1>3, <2>1, <2>2, <2>3 DEF ReadInventory, ReadList
<1>4. CASE \/ TreeChanges \/ AdmitRoots \/ ScanRoots \/ HandOverCandidates \/ AskNative \/ RunCommand
           \/ UNCHANGED vars
  <2>1. UNCHANGED native
    BY <1>4 DEF TreeChanges, AdmitRoots, ScanRoots, HandOverCandidates, AskNative, RunCommand, vars
  <2>2. QED BY <2>1 DEF native
<1>5. QED BY <1>2, <1>3, <1>4 DEF Next

LEMMA UndisturbedInit == Init => Undisturbed
<1> SUFFICES ASSUME Init PROVE HandNow /\ SomeoneBusy
  BY DEF Undisturbed
<1>1. hand = [caller \in Callers |-> Free] /\ consumed = {}
  BY DEF Init, HandingInit
<1>2. \A caller \in Callers : hand[caller].step = "free"
  BY <1>1 DEF Free
<1>3. QED BY <1>1, <1>2 DEF HandNow, SomeoneBusy, Handing, Busy

LEMMA UndisturbedNext ==
  Placed /\ Once /\ Owed /\ Observing /\ Found /\ Undisturbed /\ [Next]_vars => Undisturbed'
<1> SUFFICES ASSUME Placed, Once, Owed, Observing, Found, Undisturbed, [Next]_vars, Calm'
             PROVE  HandNow' /\ SomeoneBusy'
  BY DEF Undisturbed
<1>1. Calm /\ ~TreeChanges
  BY StillCalm DEF Placed
<1>2. HandNow /\ SomeoneBusy /\ TreeInit /\ CandidatesNow /\ HandOK
  BY <1>1 DEF Undisturbed, Found, Owed
<1>3. CASE HandOverCandidates
  <2>1. PICK caller \in Callers : HandOver(caller)
    BY <1>3 DEF HandOverCandidates
  <2>2. \A other \in Callers \ {caller} : hand'[other] = hand[other]
    BY <2>1, OnlyOne
  <2>3. /\ hand'[caller].step \in Busy => ~hand'[caller].failed
        /\ hand'[caller].step \in {"before", "inspect", "after", "validate"} =>
             SeenNow(hand'[caller].step, hand'[caller].on, hand'[caller].seen)
        /\ \/ hand'[caller].step \in Busy
           \/ hand[caller].step \notin Busy /\ consumed # {} /\ consumed' = consumed
    BY <1>2, <2>1, CallerKeepsNow
  <2>4. HandNow'
    BY <1>2, <2>2, <2>3, HandNowBy
  <2>5. SomeoneBusy'
    <3>1. CASE hand'[caller].step \in Busy
      BY <3>1 DEF SomeoneBusy
    <3>2. CASE hand'[caller].step \notin Busy
      <4>1. inventory' = inventory
        BY <1>3 DEF HandOverCandidates, native
      <4>2. SUFFICES ASSUME inventory # "trusted"
                     PROVE  \E other \in Callers : hand'[other].step \in Busy
        BY <4>1 DEF SomeoneBusy
      <4>3. PICK other \in Callers : hand[other].step \in Busy
        BY <1>2, <2>3, <3>2, <4>2 DEF SomeoneBusy
      <4>4. QED BY <2>2, <2>3, <3>2, <4>3
    <3>3. QED BY <3>1, <3>2
  <2>6. QED BY <2>4, <2>5
<1>4. CASE WriteTarget
  <2>1. PICK caller \in Callers :
          /\ Validated(caller) /\ (Write(caller) \/ Refuse(caller))
          /\ Refuse(caller) /\ ~Write(caller) => inventory' = "trusted"
    <3>1. CASE Refresh
      BY <3>1 DEF Refresh
    <3>2. CASE WriteNative
      <4>1. PICK caller \in Callers, age \in {"future", "fresh", "stale"} :
              /\ Validated(caller)
              /\ \/ Refuse(caller) /\ UNCHANGED native
                 \/ Write(caller) /\ Reconcile(age)
        BY <3>2 DEF WriteNative
      <4>2. inventory = "trusted"
        BY <3>2 DEF WriteNative
      <4>3. QED BY <4>1, <4>2 DEF native
    <3>3. QED BY <1>4, <3>1, <3>2 DEF WriteTarget
  <2>2. PICK step, on, failed :
          /\ Puts(caller, step, on, <<>>, failed) /\ step \in {"written", "refused"}
          /\ failed = hand[caller].failed
          /\ step = "refused" => Refuse(caller) /\ ~Write(caller)
    <3>1. PICK on, failed : on = hand[caller].on /\ failed = hand[caller].failed
      OBVIOUS
    <3>2. CASE Write(caller)
      BY <3>1, <3>2 DEF Write, Becomes
    <3>3. CASE ~Write(caller)
      BY <2>1, <3>1, <3>3 DEF Refuse, Becomes
    <3>4. QED BY <3>2, <3>3
  <2>3. hand[caller].step = "validate" /\ ~failed
    BY <1>2, <2>1, <2>2 DEF Validated, HandNow, Busy
  <2>4. hand'[caller].step = step /\ hand'[caller].seen = <<>> /\ hand'[caller].failed = failed
    <3>1. step \in Steps /\ Shaped
      BY <2>2 DEF Steps, Once, Taken
    <3>2. QED BY <2>2, <3>1, StaysShaped
  <2>5. \A other \in Callers \ {caller} : hand'[other] = hand[other]
    BY <2>1, <2>3, OnlyOne
  <2>6. HandNow'
    <3>1. /\ hand'[caller].step \in Busy => ~hand'[caller].failed
          /\ hand'[caller].step \notin {"before", "inspect", "after", "validate"}
      BY <2>2, <2>3, <2>4
    <3>2. QED BY <1>2, <2>5, <3>1, HandNowBy
  <2>7. SomeoneBusy'
    BY <2>1, <2>2, <2>4 DEF SomeoneBusy, Busy
  <2>8. QED BY <2>6, <2>7
<1>5. CASE UNCHANGED handing /\ ~WriteTarget
  <2>1. hand' = hand /\ consumed' = consumed
    BY <1>5 DEF handing
  <2>2. HandNow'
    BY <1>2, <2>1 DEF HandNow, Handing, SeenNow
  <2>3. SomeoneBusy'
    BY <1>2, <1>5, <2>1, TrustIsSpent DEF SomeoneBusy
  <2>4. QED BY <2>2, <2>3
<1>6. CASE ~WriteTarget /\ ~HandOverCandidates
  <2>1. UNCHANGED handing
    BY <1>1, <1>6 DEF Next, AdmitRoots, ScanRoots, AskNative, RunCommand, TakeAnswer, ReadInventory, vars
  <2>2. QED BY <1>5, <1>6, <2>1
<1>7. QED BY <1>3, <1>4, <1>6

(* The checks refuse nothing by mistake.  While the tree stays as it was   *)
(* when the roots were admitted, every look sees what was there, so a      *)
(* plugin under an admitted root becomes a candidate (discoverSource-      *)
(* Candidates), and of the callers that ask for one somebody has it: a     *)
(* caller is refused only because another took its candidate, or by what   *)
(* bb's inventory says (consumeIssuedSourceCandidate).                     *)
THEOREM NothingIsRefusedByMistake == Spec => []UndisturbedIsGiven
<1> DEFINE IInv == Placed /\ Once /\ Owed /\ Observing /\ Found /\ Undisturbed
<1>1. IInv => UndisturbedIsGiven
  <2>1. SUFFICES ASSUME IInv, changes = scene.changes, ScanEnded, roots # <<>>
                 PROVE  /\ \A inode \in Inodes :
                             IsPlugin(text[inode]) /\ Valid(text[inode]) => candidates # {}
                        /\ \A caller \in Callers :
                             hand[caller].step = "refused" /\ inventory # "trusted" =>
                               \E other \in Callers \ {caller} :
                                 hand[other].step \notin {"free", "refused"}
    BY DEF UndisturbedIsGiven
  <2>2. Calm
    <3>1. changes \in Nat
      BY <2>1 DEF Placed, TreeOK
    <3>2. QED BY <2>1, <3>1 DEF Calm, Spent
  <2>3. TreeInit /\ FoundNow /\ ~Scanning /\ RootsLeft = {} /\ SomeoneBusy
    BY <2>1, <2>2 DEF Found, ScanIsOver, Undisturbed
  <2>4. ASSUME NEW inode \in Inodes, IsPlugin(text[inode]), Valid(text[inode])
        PROVE  candidates # {}
    <3>1. Plugins
      BY <2>3, <2>4, ThereNow DEF Plugins
    <3>2. scan.done # {}
      <4>1. Admitted # {}
        <5>1. roots \in Seq([key : STRING, canonical : Canonical]) /\ roots # <<>>
          BY <2>1 DEF Placed, RootsOK
        <5>2. 1 \in DOMAIN roots
          BY <5>1
        <5>3. QED BY <5>2 DEF Admitted
      <4>2. QED BY <2>3, <4>1 DEF RootsLeft
    <3>3. QED BY <2>3, <3>1, <3>2 DEF FoundNow
  <2>5. ASSUME NEW caller \in Callers, hand[caller].step = "refused", inventory # "trusted"
        PROVE  \E other \in Callers \ {caller} : hand[other].step \notin {"free", "refused"}
    <3>1. PICK other \in Callers : hand[other].step \in Busy
      BY <2>3, <2>5 DEF SomeoneBusy
    <3>2. hand[other].step \notin {"free", "refused"}
      BY <3>1 DEF Busy
    <3>3. QED BY <2>5, <3>1, <3>2
  <2>6. QED BY <2>4, <2>5
<1>2. Init => IInv
  BY PlacedInit, OnceInit, OwedInit, ObservingInit, FoundInit, UndisturbedInit
<1>3. IInv /\ [Next]_vars => IInv'
  BY PlacedNext, OnceNext, OwedNext, ObservingNext, FoundNext, UndisturbedNext
<1> HIDE DEF IInv
<1>4. QED BY <1>1, <1>2, <1>3, PTL DEF Spec
===============================================================================
