---------------------------- MODULE SourceHandOver ----------------------------
(***************************************************************************)
(* From a configured directory to a target whose native state is known, as *)
(* scripts/native-target-reconciliation.integration.test.ts puts the parts *)
(* together: roots are admitted, scanned, candidates handed over by        *)
(* several callers at once, bb is asked for its inventory, and the catalog *)
(* validates the source and writes, alone or with what bb said.            *)
(*                                                                         *)
(* The tree may change between any two steps, except while the command     *)
(* runs: nothing that runs then looks at the tree, so a change at that     *)
(* time is the same as one right after the command is answered.            *)
(***************************************************************************)
EXTENDS SourceCandidates, NativeInventory, CapturedCommand

CONSTANTS Scenes  \* [configuration, changes, lists]: the roots that are
                  \* configured, how often the tree changes, what bb prints

ASSUME ScenesAssumption ==
  /\ MaxRows \in Nat /\ SourceRoot # None
  /\ \A some \in Scenes :
       /\ some.configuration \in Seq([path : Places, key : STRING, flaw : STRING])
       /\ some.changes \in Nat
       /\ some.lists \subseteq Seq(ListRow)

VARIABLES scene   \* the one a behaviour plays in

vars == <<tree, admission, discovery, handing, native, command, scene>>

Init ==
  /\ scene \in Scenes
  /\ TreeInit /\ changes = scene.changes
  /\ AdmissionInit(scene.configuration) /\ DiscoveryInit /\ HandingInit
  /\ NativeInit /\ CommandInit

TreeChanges ==
  /\ child = "none"
  /\ ChangeTree
  /\ UNCHANGED <<admission, discovery, consumed, hand, native, command, scene>>
  /\ Watch

AdmitRoots == Admit /\ UNCHANGED <<discovery, handing, native, command, scene>>

ScanRoots == Scan /\ UNCHANGED <<admission, handing, native, command, scene>>

HandOverCandidates ==
  /\ child = "none"
  /\ \E caller \in Callers : HandOver(caller)
  /\ Watch
  /\ UNCHANGED <<admission, discovery, native, command, scene>>

(* The catalog has validated the source and refreshes its target. *)
Refresh ==
  /\ inventory # "trusted"
  /\ \E caller \in Callers : Validated(caller) /\ Write(caller)
  /\ UNCHANGED native

(* Or it writes what bb says of the target of SourceRoot.  The clock may   *)
(* have been set back since bb was asked, which is refused, or have gone   *)
(* on.                                                                     *)
WriteNative ==
  /\ inventory = "trusted"
  /\ \E caller \in Callers, age \in {"future", "fresh", "stale"} :
       /\ Validated(caller)
       /\ IF hand[caller].on.path # SourceRoot \/ age = "future"
          THEN Refuse(caller) /\ UNCHANGED native
          ELSE Write(caller) /\ Reconcile(age)

WriteTarget ==
  /\ Refresh \/ WriteNative
  /\ UNCHANGED <<tree, admission, discovery, command, scene>>
  /\ Watch

(* bb is asked when a caller has its target. *)
AskNative ==
  /\ \E caller \in Callers : hand[caller].step = "given"
  /\ \A caller \in Callers : ~Handing(caller)
  /\ scene.lists # {} /\ inventory = "none" /\ facts = NoFacts
  /\ Spawn \/ SpawnFails
  /\ UNCHANGED <<tree, admission, discovery, handing, native, scene>>

RunCommand ==
  /\ child # "none"
  /\ Processes \/ Handler
  /\ UNCHANGED <<tree, admission, discovery, handing, native, scene>>

(* The answer is read; the processes are of no further interest. *)
TakeAnswer ==
  /\ Settled
  /\ \/ result # 0 /\ CommandFailed(result)
     \/ result = 0 /\ OutputUnreadable
     \/ result = 0 /\ \E rows \in scene.lists : OutputRead(rows)
  /\ child' = "none" /\ code' = Unset /\ helper' = "none" /\ stray' = "none"
  /\ told' = {} /\ cause' = "none" /\ killSent' = FALSE /\ ended' = Unset
  /\ result' = Unset /\ timers' = {}
  /\ UNCHANGED <<tree, admission, discovery, handing, scene>>

ReadInventory ==
  /\ ReadList \/ Accept
  /\ UNCHANGED <<tree, admission, discovery, handing, command, scene>>

Next ==
  \/ TreeChanges \/ AdmitRoots \/ ScanRoots \/ HandOverCandidates
  \/ WriteTarget \/ AskNative \/ RunCommand \/ TakeAnswer \/ ReadInventory

Elsewhere == UNCHANGED <<tree, admission, discovery, handing, native, scene>>

(* Timers fire, events are delivered; and a process that left the group    *)
(* does not hold the pipes for ever, which CapturedCommand needs.          *)
Fairness ==
  /\ WF_vars(Deadline /\ Elsewhere) /\ WF_vars(Kill /\ Elsewhere)
  /\ WF_vars(SettleNow /\ Elsewhere) /\ WF_vars(ExitEvent /\ Elsewhere)
  /\ WF_vars(CloseEvent /\ Elsewhere) /\ WF_vars(StrayEnds /\ Elsewhere)

Spec == Init /\ [][Next]_vars /\ Fairness

------------------------------------------------------------------------------
(* Properties.                                                               *)

Has(caller) == hand[caller].step \in {"given", "validate", "written"}

(* What a caller was given, and what the catalog wrote, was in the tree as *)
(* it says (this directory, this manifest, this text, at this place) at a  *)
(* moment after it was made, or after the validation began: no mixture of  *)
(* an old directory and a new manifest, nothing that is only remembered    *)
(* (source-candidate-transition.ts, source-identity.ts).                   *)
HandedOverAsItIs ==
  \A caller \in Callers : hand[caller].step \in {"given", "written"} => held[caller]

(* However many roots and spellings lead to a package and however many     *)
(* callers race for it, one of them gets it.                               *)
HandedOverOnce ==
  \A one, other \in Callers :
    Has(one) /\ Has(other) /\ hand[one].on.path = hand[other].on.path => one = other

(* The checks refuse nothing by mistake: while nobody touches the tree, a  *)
(* plugin under an admitted root is found, handed over, and written (what  *)
(* the clock or another root refuses is written with an inventory).        *)
UndisturbedIsGiven ==
  changes = scene.changes /\ ScanEnded /\ roots # <<>> =>
    /\ \A inode \in Inodes : IsPlugin(text[inode]) /\ Valid(text[inode]) => candidates # {}
    /\ \A caller \in Callers : hand[caller].step = "refused" /\ inventory # "trusted" =>
         \E other \in Callers \ {caller} : hand[other].step \notin {"free", "refused"}

(* The runtime's schema accepts every observation the observer can make:   *)
(* what one calls unsafe the other never sends (native-inventory-row.ts,   *)
(* native-inventory.ts).                                                   *)
ObservationsAreAcceptable == inventory # "refused"

Named(row) == ~({"row", "id"} \cap row.flaws # {}) /\ row.id = Plugin
Clean(row) == row.flaws = {} /\ Contradictions(row) = {}

(* The rows that are about the target, by the id they have or by where     *)
(* both of their roots led to when they were read, and what each says.     *)
LedHere(i) == led[i] = <<SourceRoot, SourceRoot>>
About == {i \in DOMAIN listed : Named(listed[i]) \/ LedHere(i)}
RowSays(i) ==
  CASE listed[i].source = "path" -> IF LedHere(i) THEN "exact-path" ELSE "other-path"
    [] listed[i].source \in {"npm", "git"} -> "managed"
    [] OTHER -> "builtin-conflict"

Installed == {"exact-path", "other-path", "managed", "builtin-conflict"}

(* What is written of a target is what bb said of it: "absent" when no row *)
(* is about it, "duplicate" when several are, and how it is installed when *)
(* one is, which is sound and names it, just as that row has it; and only  *)
(* of a list that was read in whole and is of this time.                   *)
VerdictTells ==
  verdict # NoVerdict =>
    /\ verdict.status \in Installed \cup {"absent"} => verdict.age = "fresh" /\ facts.status = "ok"
    /\ verdict.status = "absent" => About = {}
    /\ verdict.status = "duplicate" => Cardinality(About) > 1
    /\ verdict.status \in Installed =>
         \E i \in About : /\ About = {i} /\ Named(listed[i]) /\ Clean(listed[i])
                         /\ verdict.status = RowSays(i)

(* A command that was cut off is over when its answer is given: neither    *)
(* the child nor a helper in its group runs on (apps/cli/src/native.test.ts *)
(* "force-kills a TERM-ignoring descendant before settling").  And however *)
(* a command was answered, no timer is left, or set by an exit or a close  *)
(* that comes after the answer.                                            *)
NothingLeftRunning ==
  Settled =>
    /\ timers = {}
    /\ result \in {124, 125} => child = "exited" /\ helper # "alive"
===============================================================================
