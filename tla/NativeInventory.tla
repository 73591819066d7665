---------------------------- MODULE NativeInventory ----------------------------
(***************************************************************************)
(* What bb says it has installed, and what that means for a target: the    *)
(* observer runs "bb plugin list --json" and reads its rows                *)
(* (packages/inspection/src/native-inventory-observer.ts, -row.ts), the    *)
(* observation is used once (native-inventory-transition.ts) and turned    *)
(* into a trusted inventory by a bridge with a schema of its own           *)
(* (packages/runtime/src/discovery/native-inventory.ts), and               *)
(* reconcileNativeTarget compares it with a target's source.               *)
(***************************************************************************)
EXTENDS SourceTree, FiniteSets

CONSTANTS
  MaxRows,    \* NATIVE_INVENTORY_MAX_ENTRIES
  Plugin,     \* the target's plugin id
  SourceRoot  \* the target's canonical root

VARIABLES
  printed,    \* the rows that are still to be read
  listed,     \* all rows that were printed
  resolved,   \* which root of the row was resolved first, and to what
  led,        \* history: where the two roots of each row read led to
  facts,      \* the observation
  inventory,  \* "none", "observed", "trusted", "refused", "spent"
  verdict     \* what reconcileNativeTarget said: its status, and the
              \* age of the inventory it was called with

native == <<printed, listed, resolved, led, facts, inventory, verdict>>

NoFacts == [status |-> "none", entries |-> {}, malformed |-> {}]

NoVerdict == [status |-> "none", age |-> "none"]

NativeInit ==
  /\ printed = <<>> /\ listed = <<>> /\ resolved = <<>> /\ led = <<>>
  /\ facts = NoFacts /\ inventory = "none" /\ verdict = NoVerdict

------------------------------------------------------------------------------
(* The observer.                                                             *)

Reading == facts.status = "reading"

Observe(status) ==
  /\ facts' = [NoFacts EXCEPT !.status = status]
  /\ inventory' = "observed"
  /\ UNCHANGED <<printed, listed, resolved, led, verdict>>

(* What the observer makes of the command's result. *)
CommandFailed(exit) ==
  Observe(IF exit = 125 THEN "output-limit" ELSE "command-error")

OutputUnreadable == Observe("malformed")

OutputRead(rows) ==
  IF Len(rows) > MaxRows
  THEN Observe("entry-limit")
  ELSE /\ facts' = [NoFacts EXCEPT !.status = "reading"]
       /\ printed' = rows /\ listed' = rows /\ resolved' = <<>> /\ led' = <<>>
       /\ UNCHANGED <<inventory, verdict>>

(* parseReleasedNativeInventoryRow.  A row's flaws are the fields that are  *)
(* missing or hold no value of theirs ("source" as well when it is a path   *)
(* that is not absolute, "row" when it is no record at all); the other      *)
(* issues relate two fields.                                                *)
Row == Head(printed)
Kind(row) == IF {"row", "source"} \cap row.flaws # {} THEN "none" ELSE row.source
SourceFits(row) ==
  IF row.source = "builtin" THEN row.provenance \in {"builtin", "catalog"}
  ELSE row.provenance = "direct"
Contradictions(row) ==
  {issue \in {"source-provenance"} :
     Kind(row) # "none" /\ "provenance" \notin row.flaws /\ ~SourceFits(row)}
  \cup {issue \in {"isOrphanedBuiltin"} :
     row.orphaned /\ Kind(row) \notin {"none", "builtin"}}

(* canonicalDirectRoot: both names are resolved when the row is a direct    *)
(* path with an absolute root.                                              *)
Resolves(row) ==
  /\ Kind(row) = "path" /\ row.provenance = "direct"
  /\ {"provenance", "rootDir"} \cap row.flaws = {}

RootIssues(row, names) ==
  IF ~Resolves(row) THEN {}
  ELSE IF None \in {names[1], names[2]} THEN {"canonical-root"}
  ELSE IF names[1] # names[2] THEN {"source"} ELSE {}
(* What bb may print for a row. *)
Fields == {"row", "id", "source", "rootDir", "version", "provenance",
           "isOrphanedBuiltin", "enabled", "status"}
ListRow ==
  [id : STRING, source : {"path", "npm", "git", "builtin"}, declared : Places, rootDir : Places,
   provenance : {"builtin", "direct", "catalog"}, orphaned : BOOLEAN, flaws : SUBSET Fields]

(* Faulty: the root is kept whatever is wrong with it. *)
RootKept(row, names) == IF Resolves(row) THEN names[2] ELSE None
RootOf(row, names) ==
  IF Resolves(row) /\ RootIssues(row, names) = {} THEN names[2] ELSE None

Readable(row) == IF {"row", "id"} \cap row.flaws # {} THEN None ELSE row.id

(* A row with an issue keeps what can be told of it, for the comparison. *)
Parsed(row, names) ==
  LET issues == row.flaws \cup Contradictions(row) \cup RootIssues(row, names)
      index == Len(listed) - Len(printed)
  IN  IF issues # {}
      THEN [facts EXCEPT !.malformed = @ \cup
              {[index |-> index, id |-> Readable(row),
                root |-> RootOf(row, names), issues |-> issues]}]
      ELSE [facts EXCEPT !.entries = @ \cup
              {[index |-> index, id |-> row.id,
                kind |-> IF row.source = "builtin" /\ row.provenance = "catalog"
                         THEN "catalog" ELSE row.source,
                root |-> RootOf(row, names), provenance |-> row.provenance,
                orphaned |-> row.orphaned]}]

(* The declared root of a row and the one bb runs it from are resolved at   *)
(* the same time, in either order; the tree may change in between.          *)
BothRoots(row) == <<row.declared, row.rootDir>>

ResolveFirst ==
  /\ Reading /\ printed # <<>> /\ Resolves(Row) /\ resolved = <<>>
  /\ \E which \in 1 .. 2 : resolved' = <<which, RealPath(BothRoots(Row)[which])>>
  /\ UNCHANGED <<printed, listed, led, facts, inventory, verdict>>

(* Where a root of the row leads: now, unless it was resolved first. *)
Resolution(which) ==
  IF resolved # <<>> /\ resolved[1] = which THEN resolved[2] ELSE RealPath(BothRoots(Row)[which])
Canonicals == IF Resolves(Row) THEN <<Resolution(1), Resolution(2)>> ELSE <<None, None>>

ReadRow ==
  /\ Reading /\ printed # <<>>
  /\ Resolves(Row) => resolved # <<>>
  /\ facts' = Parsed(Row, Canonicals) /\ led' = Append(led, Canonicals)
  /\ printed' = Tail(printed) /\ resolved' = <<>>
  /\ UNCHANGED <<listed, inventory, verdict>>

AllRead ==
  /\ Reading /\ printed = <<>>
  /\ facts' = [facts EXCEPT !.status = "ok"]
  /\ inventory' = "observed"
  /\ UNCHANGED <<printed, listed, resolved, led, verdict>>

------------------------------------------------------------------------------
(* The bridge, whose schema is written apart from the observer.              *)

EntryFits(entry) ==
  /\ (entry.kind = "path") = (entry.root # None)
  /\ entry.provenance = IF entry.kind \in {"path", "npm", "git"} THEN "direct"
                        ELSE IF entry.kind = "builtin" THEN "builtin" ELSE "catalog"
  /\ entry.orphaned => entry.kind \in {"builtin", "catalog"}

Unsafe == {"row", "source", "rootDir", "provenance", "source-provenance", "canonical-root"}
RowFits(row) ==
  /\ row.index < MaxRows
  /\ row.issues # {} /\ (row.root # None => row.issues \cap Unsafe = {})

Acceptable ==
  /\ facts.status \in {"ok", "command-error", "output-limit", "malformed", "entry-limit"}
  /\ \A entry \in facts.entries : EntryFits(entry)
  /\ \A row \in facts.malformed : RowFits(row)
  /\ \A one, other \in facts.malformed : one.index = other.index => one = other
  /\ Cardinality(facts.entries) + Cardinality(facts.malformed) <= MaxRows

(* The observation is consumed whether its facts are accepted or not. *)
Accept ==
  /\ inventory = "observed"
  /\ inventory' = IF Acceptable THEN "trusted" ELSE "refused"
  /\ UNCHANGED <<printed, listed, resolved, led, facts, verdict>>

------------------------------------------------------------------------------
(* reconcileNativeTarget, for a target whose source was validated.           *)

Concerns(entry) ==
  entry.id = Plugin \/ (entry.kind = "path" /\ entry.root = SourceRoot)
(* Faulty: a malformed row counts only when its root is the target's. *)
SpoilsByRoot(row) == row.root = SourceRoot
Spoils(row) == row.id = Plugin \/ row.root = SourceRoot
Matching == {entry \in facts.entries : Concerns(entry)}
OtherPlugin(entry) ==
  entry.kind = "path" /\ entry.root = SourceRoot /\ entry.id # Plugin

(* The entry that names the plugin, there being one at most. *)
Naming == {entry \in facts.entries : entry.id = Plugin}
StatusOf(entry) ==
  CASE entry.kind = "path" -> IF entry.root = SourceRoot THEN "exact-path" ELSE "other-path"
    [] entry.kind \in {"npm", "git"} -> "managed"
    [] OTHER -> "builtin-conflict"

Compared(age) ==
  CASE facts.status # "ok" -> "malformed"
    [] OTHER ->
       IF \E row \in facts.malformed : Spoils(row) THEN "malformed"
       ELSE IF Cardinality(Matching) > 1 THEN "duplicate"
       ELSE IF \E entry \in Matching : OtherPlugin(entry) THEN "malformed"
       ELSE IF age = "future" THEN "malformed"
       ELSE IF age = "stale" THEN "stale"
       ELSE IF Naming = {} THEN "absent"
       ELSE StatusOf(CHOOSE entry \in Naming : TRUE)

(* Called with the inventory's age: before it was observed, up to 30 s      *)
(* after, or later.                                                         *)
Reconcile(age) ==
  /\ inventory = "trusted"
  /\ inventory' = "spent"
  /\ verdict' = [status |-> Compared(age), age |-> age]
  /\ UNCHANGED <<printed, listed, resolved, led, facts>>

ReadList == ResolveFirst \/ ReadRow \/ AllRead
================================================================================
