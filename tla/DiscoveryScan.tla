---------------------------- MODULE DiscoveryScan ----------------------------
(***************************************************************************)
(* The bounded scan of several trusted roots for plugin packages:          *)
(* discoverWorkspaceSourceCandidates of the inspection kernel with the     *)
(* budgets of discovery-budget.ts and discovery-scan-state.ts, and the     *)
(* workspace patterns of each root.                                        *)
(*                                                                         *)
(* Every root first spends a fair share of one global budget of directory  *)
(* entries; what is left over is then shared out again, round after round, *)
(* among the roots that were cut short.  A root the scan reports nothing   *)
(* about is taken for completely scanned: the catalog retires what such a  *)
(* scan did not find.                                                      *)
(*                                                                         *)
(* A scan is one asynchronous task.  The files may change under it, which  *)
(* it notices and reports, so a directory that fails is a choice here.     *)
(***************************************************************************)
EXTENDS WorkspacePatterns, FiniteSets

CONSTANTS
  Count,          \* how many trusted roots there are
  Trees,          \* the trees and configurations a scan may meet
  Manifest,       \* the name of a package.json
  MaxEntries,     \* MAX_VISITED_ENTRIES
  MaxCandidates,  \* MAX_CANDIDATES
  MaxListed,      \* MAX_DIRECTORY_ENTRIES
  MatchBounded    \* whether matching may exhaust MAX_WORKSPACE_MATCH_WORK

Roots == 1..Count
Path == Seq(Name)
Entry == [name : Name, kind : {"file", "directory", "symlink"}]

(* A tree of files: a directory that is listed can be listed itself, and   *)
(* below a root each one is listed by the one above it.                    *)
Grown(t) ==
  /\ DOMAIN t.entries \subseteq Path
  /\ \A d \in DOMAIN t.entries :
       /\ t.entries[d] \in Seq(Entry)
       /\ \A k \in DOMAIN t.entries[d] :
            t.entries[d][k].kind = "directory" =>
              Append(d, t.entries[d][k].name) \in DOMAIN t.entries
  /\ \A r \in Roots :
       /\ t.roots[r] \in DOMAIN t.entries /\ t.config[r] \in Configuration
       /\ \A d \in DOMAIN t.entries :
            (IsPrefix(t.roots[r], d) /\ d # t.roots[r]) =>
              /\ Front(d) \in DOMAIN t.entries
              /\ \E k \in DOMAIN t.entries[Front(d)] :
                   t.entries[Front(d)][k] = [name |-> Last(d), kind |-> "directory"]
  /\ t.plugins \subseteq DOMAIN t.entries

ASSUME ScanAssumption ==
  /\ {MaxEntries, MaxCandidates, MaxListed} \subseteq Nat
  /\ Count \in 1..MaxEntries /\ Count <= MaxCandidates
  /\ \A t \in Trees : Grown(t)
  /\ MatchBounded \in BOOLEAN

VARIABLES
  tree,           \* roots by canonical path, sorted entries, configurations
  patterns,       \* patterns[r]: what r's configuration declares
  queue,          \* queue[r]: directories to inspect
  continuations,  \* continuations[r]: what was put off for want of budget
  limit,          \* limit[r]: maxVisitedEntries
  visited,        \* visited[r]: visitedEntries
  accepted,       \* accepted[r]: acceptedCandidates
  overflow,       \* overflow[r]: candidates beyond r's share
  candidates,     \* the candidates of the result
  discovering,    \* discovering[d]: the roots that met candidate d
  diagnosed,      \* the roots with a diagnostic
  exhausted,      \* the matching budget is spent
  turns,          \* the roots still to scan in this round
  phase,          \* patterns, the first pass, a borrowing round, or done
  before          \* entries visited when this round began

budgets == <<limit, visited>>
found == <<accepted, overflow, candidates, discovering>>
vars == <<tree, patterns, queue, continuations, budgets, found, diagnosed, exhausted,
          turns, phase, before>>

(* allocateFairShares: the i-th of n shares of a total.                    *)
FairShare(total, n, i) == (total \div n) + (IF i <= total % n THEN 1 ELSE 0)

Lower(a, b) == IF a < b THEN a ELSE b

Total(f) ==
  LET upTo[k \in 0..Count] == IF k = 0 THEN 0 ELSE upTo[k - 1] + f[k]
  IN  upTo[Count]

Used == Total(visited)

(* Faulty: the first root may spend the whole budget.                      *)
InitGreedy ==
  /\ tree \in Trees
  /\ patterns = [r \in Roots |-> <<>>]
  /\ queue = [r \in Roots |-> <<tree.roots[r]>>]
  /\ continuations = [r \in Roots |-> <<>>]
  /\ limit = [r \in Roots |-> IF r = 1 THEN MaxEntries ELSE 0]
  /\ visited = [r \in Roots |-> 0] /\ accepted = [r \in Roots |-> 0]
  /\ overflow = [r \in Roots |-> <<>>]
  /\ candidates = {} /\ discovering = [d \in {} |-> {}]
  /\ diagnosed = {} /\ exhausted = FALSE
  /\ turns = Roots /\ phase = "read" /\ before = 0

Init ==
  /\ tree \in Trees
  /\ patterns = [r \in Roots |-> <<>>]
  /\ queue = [r \in Roots |-> <<tree.roots[r]>>]
  /\ continuations = [r \in Roots |-> <<>>]
  /\ limit = [r \in Roots |-> FairShare(MaxEntries, Count, r)]
  /\ visited = [r \in Roots |-> 0] /\ accepted = [r \in Roots |-> 0]
  /\ overflow = [r \in Roots |-> <<>>]
  /\ candidates = {} /\ discovering = [d \in {} |-> {}]
  /\ diagnosed = {} /\ exhausted = FALSE
  /\ turns = Roots /\ phase = "read" /\ before = 0

-----------------------------------------------------------------------------

Report(r, cond) == diagnosed' = IF cond THEN diagnosed \cup {r} ELSE diagnosed
Diagnose(r) == Report(r, TRUE)

(* The roots take their turns in order.                                    *)
Turn(r) == r \in turns /\ \A s \in turns : r <= s

(* Every root's configuration is read before the first root is scanned.    *)
(* One that is not valid, or changes while it is read, is reported, and    *)
(* only the root itself inspected.                                         *)
Configure(r) ==
  /\ phase = "read" /\ Turn(r)
  /\ \/ /\ ReadPatterns(tree.config[r]) # Bad
        /\ patterns' = [patterns EXCEPT ![r] = ReadPatterns(tree.config[r])]
        /\ UNCHANGED diagnosed
     \/ Diagnose(r) /\ UNCHANGED patterns
  /\ IF turns = {r} THEN turns' = Roots /\ phase' = "share"
     ELSE turns' = turns \ {r} /\ UNCHANGED phase
  /\ UNCHANGED <<tree, queue, continuations, budgets, found, exhausted, before>>

Below(r, d) == SubSeq(d, Len(tree.roots[r]) + 1, Len(d))
Packages ==
  {d \in DOMAIN tree.entries :
     \E k \in 1..Len(tree.entries[d]) : tree.entries[d][k].name = Manifest}

Matched(r, d) == d = tree.roots[r] \/ Matches(patterns[r], Below(r, d))
Wanted(r, d) == d \in tree.plugins /\ Matched(r, d)

(* recordCandidate: the first root to meet a package offers it; it counts  *)
(* against that root's share, and later roots only add their key.          *)
Meet(r, d) ==
  discovering' = [e \in DOMAIN discovering \cup {d} |->
                    IF e # d THEN discovering[e]
                    ELSE {r} \cup (IF d \in DOMAIN discovering THEN discovering[d]
                                   ELSE {})]

(* Faulty: a root's share of the candidates is not enforced.               *)
RecordUncounted(r, d) ==
  /\ candidates' = candidates \cup {d}
  /\ Meet(r, d)
  /\ UNCHANGED <<accepted, overflow>>

Record(r, d) ==
  LET share == FairShare(MaxCandidates, Count, r)
  IN  \/ /\ d \in DOMAIN discovering
         /\ Meet(r, d) /\ UNCHANGED <<accepted, overflow, candidates>>
      \/ /\ d \notin DOMAIN discovering /\ accepted[r] < share
         /\ accepted' = [accepted EXCEPT ![r] = @ + 1]
         /\ candidates' = candidates \cup {d}
         /\ Meet(r, d) /\ UNCHANGED overflow
      \/ /\ d \notin DOMAIN discovering /\ accepted[r] >= share
         /\ Len(overflow[r]) < MaxCandidates
         /\ overflow' = [overflow EXCEPT ![r] = Append(@, d)]
         /\ Meet(r, d) /\ UNCHANGED <<accepted, candidates>>
      \/ /\ d \notin DOMAIN discovering /\ accepted[r] >= share
         /\ Len(overflow[r]) = MaxCandidates
         /\ UNCHANGED found

(* Whether to look below d: not without patterns, and not below a package  *)
(* that they match unless they may match something below it as well.       *)
Descends(r, d) ==
  /\ patterns[r] # <<>>
  /\ (d # tree.roots[r] /\ Matched(r, d) /\ d \in Packages) =>
       CouldContainStrictMatch(patterns[r], Below(r, d))

Inspected(r, d) == IF Wanted(r, d) THEN Record(r, d) ELSE UNCHANGED found

Scanning(r) == phase \in {"share", "borrow"} /\ Turn(r)

(* readBoundedDirectoryEntries: of a directory with too many entries none  *)
(* is looked at.                                                           *)
Wide(d) == Len(tree.entries[d]) > MaxListed
Listed(d) == IF Wide(d) THEN <<>> ELSE tree.entries[d]

(* An ignored directory needs a pattern that names it; of the others those *)
(* count that may lead to a match.                                         *)
Passes(r, d, e) ==
  ShouldIgnore(e.name) => IsExplicitlyIncluded(patterns[r], Below(r, Append(d, e.name)))
Leads(r, d, e) ==
  Passes(r, d, e) /\ CouldContainMatch(patterns[r], Below(r, Append(d, e.name)))

(* What has to be compared with a pattern, and so may run out of work.     *)
Compared(r, d, e) ==
  \/ /\ ShouldIgnore(e.name) /\ e.name # NodeModules
     /\ \E p \in Positive(patterns[r]) : \E i \in 1..Len(p) :
          p[i] # Glob /\ (Hidden(e.name) => Hidden(p[i]))
  \/ /\ e.kind # "file" /\ Passes(r, d, e)
     /\ \/ Positive(patterns[r]) # {}
        \/ \E p \in Negative(patterns[r]) : Open(p)

(* consumeEntries: charge entries one by one, queue the directories that   *)
(* may lead to a match, report such symlinks, and put the rest off once    *)
(* the budget is spent.                                                    *)
Charged(r, entries) == Lower(Len(entries), limit[r] - visited[r])
Kept(r, d, entries, n) ==
  LET upTo[k \in 0..n] ==
        IF k = 0 THEN <<>>
        ELSE IF entries[k].kind = "directory" /\ Leads(r, d, entries[k])
        THEN Append(upTo[k - 1], Append(d, entries[k].name))
        ELSE upTo[k - 1]
  IN  upTo[n]
Linked(r, d, entries, n) ==
  \E k \in 1..n : entries[k].kind = "symlink" /\ Leads(r, d, entries[k])

Consume(r, d, entries, waiting, rest, ill) ==
  LET n == Charged(r, entries)
  IN  /\ exhausted => \A k \in 1..n : ~Compared(r, d, entries[k])
      /\ visited' = [visited EXCEPT ![r] = @ + n]
      /\ queue' = [queue EXCEPT ![r] = waiting \o Kept(r, d, entries, n)]
      /\ continuations' =
           [continuations EXCEPT ![r] =
              IF n = Len(entries) THEN rest
              ELSE <<[kind |-> "entries", dir |-> d,
                      entries |-> SubSeq(entries, n + 1, Len(entries))]>> \o rest]
      /\ Report(r, ill \/ Linked(r, d, entries, n))

(* Matching ran out of work at the entry charged last: the rest of these   *)
(* entries is lost, the root reported and its turn over.                   *)
ConsumeUntilExhausted(r, d, entries, waiting, rest) ==
  /\ MatchBounded
  /\ \E n \in 1..Charged(r, entries) :
       /\ Compared(r, d, entries[n])
       /\ exhausted => \A k \in 1..n - 1 : ~Compared(r, d, entries[k])
       /\ visited' = [visited EXCEPT ![r] = @ + n]
       /\ queue' = [queue EXCEPT ![r] = waiting \o Kept(r, d, entries, n - 1)]
  /\ continuations' = [continuations EXCEPT ![r] = rest]
  /\ exhausted' = TRUE
  /\ Diagnose(r)
  /\ turns' = turns \ {r}

-----------------------------------------------------------------------------

(* inspectPendingDirectory, when the directory can be read; a manifest     *)
(* that is not valid is reported, and what lies below it still scanned.    *)
Inspect(r) ==
  /\ Scanning(r) /\ queue[r] # <<>>
  /\ LET d == Head(queue[r])
     IN  /\ d # tree.roots[r] => ~exhausted
         /\ \E broken \in IF Matched(r, d) /\ d \in Packages THEN BOOLEAN ELSE {FALSE} :
              /\ IF broken THEN UNCHANGED found ELSE Inspected(r, d)
              /\ \/ /\ ~Descends(r, d)
                    /\ queue' = [queue EXCEPT ![r] = Tail(@)]
                    /\ Report(r, broken)
                    /\ UNCHANGED <<continuations, visited>>
                 \/ /\ Descends(r, d) /\ visited[r] < limit[r]
                    /\ Consume(r, d, Listed(d), Tail(queue[r]), continuations[r],
                               broken \/ Wide(d))
                 \/ /\ Descends(r, d) /\ visited[r] >= limit[r]
                    /\ queue' = [queue EXCEPT ![r] = Tail(@)]
                    /\ continuations' =
                         [continuations EXCEPT ![r] =
                            Append(@, [kind |-> "children", dir |-> d, entries |-> <<>>])]
                    /\ Report(r, broken)
                    /\ UNCHANGED visited
  /\ UNCHANGED <<tree, patterns, limit, exhausted, turns, phase, before>>

(* The directory changed or cannot be read: reported, and not descended    *)
(* into.  A package in it counts if it was read before the failure.        *)
InspectFails(r) ==
  /\ Scanning(r) /\ queue[r] # <<>>
  /\ Inspected(r, Head(queue[r])) \/ UNCHANGED found
  /\ queue' = [queue EXCEPT ![r] = Tail(@)]
  /\ Diagnose(r)
  /\ UNCHANGED <<tree, patterns, continuations, budgets, exhausted, turns, phase, before>>

(* Matching runs out of work on the directory itself, or on its entries.   *)
InspectExhausts(r) ==
  /\ Scanning(r) /\ queue[r] # <<>>
  /\ LET d == Head(queue[r])
     IN  \/ /\ MatchBounded /\ d # tree.roots[r]
            /\ UNCHANGED found \/ (~exhausted /\ Inspected(r, d))
            /\ queue' = [queue EXCEPT ![r] = Tail(@)]
            /\ exhausted' = TRUE
            /\ Diagnose(r)
            /\ turns' = turns \ {r}
            /\ UNCHANGED <<continuations, visited>>
         \/ /\ d # tree.roots[r] => ~exhausted
            /\ Descends(r, d) /\ visited[r] < limit[r]
            /\ Inspected(r, d)
            /\ ConsumeUntilExhausted(r, d, Listed(d), Tail(queue[r]), continuations[r])
  /\ UNCHANGED <<tree, patterns, limit, phase, before>>

Resumable(r) ==
  /\ Scanning(r) /\ queue[r] = <<>>
  /\ visited[r] < limit[r] /\ continuations[r] # <<>>

Postponed(r) ==
  LET top == Head(continuations[r])
  IN  IF top.kind = "entries" THEN top.entries ELSE Listed(top.dir)

(* Take up what was put off first.                                         *)
Resume(r) ==
  /\ Resumable(r)
  /\ LET top == Head(continuations[r])
     IN  Consume(r, top.dir, Postponed(r), <<>>, Tail(continuations[r]),
                 top.kind = "children" /\ Wide(top.dir))
  /\ UNCHANGED <<tree, patterns, limit, found, exhausted, turns, phase, before>>

ResumeFails(r) ==
  /\ Resumable(r) /\ Head(continuations[r]).kind = "children"
  /\ continuations' = [continuations EXCEPT ![r] = Tail(@)]
  /\ Diagnose(r)
  /\ UNCHANGED <<tree, patterns, queue, budgets, found, exhausted, turns, phase, before>>

ResumeExhausts(r) ==
  /\ Resumable(r)
  /\ ConsumeUntilExhausted(r, Head(continuations[r]).dir, Postponed(r), <<>>,
                           Tail(continuations[r]))
  /\ UNCHANGED <<tree, patterns, limit, found, phase, before>>

(* The root has nothing more to do, or nothing left to do it with.         *)
EndTurn(r) ==
  /\ Scanning(r) /\ queue[r] = <<>>
  /\ visited[r] >= limit[r] \/ continuations[r] = <<>>
  /\ turns' = turns \ {r}
  /\ UNCHANGED <<tree, patterns, queue, continuations, budgets, found, diagnosed,
                 exhausted, phase, before>>

-----------------------------------------------------------------------------

CutShort == {r \in Roots : continuations[r] # <<>>}
Remaining == MaxEntries - Used

(* Faulty: it stops only when nothing is left to share.                    *)
HaltsWhenSpent == Remaining <= 0

(* redistributeUnusedEntryCapacity stops when nothing is left to share,    *)
(* nobody wants it, or the last round visited nothing.                     *)
Halts ==
  \/ Remaining <= 0
  \/ CutShort = {}
  \/ phase = "borrow" /\ Used = before

Borrow ==
  /\ phase \in {"share", "borrow"} /\ turns = {} /\ ~Halts
  /\ limit' = [r \in Roots |->
       limit[r] + (IF r \in CutShort
                   THEN FairShare(Remaining, Cardinality(CutShort),
                                  Cardinality({s \in CutShort : s <= r}))
                   ELSE 0)]
  /\ turns' = CutShort
  /\ phase' = "borrow"
  /\ before' = Used
  /\ UNCHANGED <<tree, patterns, queue, continuations, visited, found, diagnosed,
                 exhausted>>

(* redistributeUnusedCandidateCapacity: one overflow candidate of each     *)
(* root in turn, while there is room.                                      *)
Spilled == {s \in (1..MaxCandidates) \X Roots : s[1] <= Len(overflow[s[2]])}
Sooner(s, t) == s[1] < t[1] \/ (s[1] = t[1] /\ s[2] < t[2])
Room == MaxCandidates - Cardinality(candidates)
Taken == {s \in Spilled : Cardinality({t \in Spilled : Sooner(t, s)}) < Room}
Spill(s) == overflow[s[2]][s[1]]

(* reportTrueLimits, for the candidates that found no room.                *)
Omitted(left) == UNION {discovering[Spill(s)] : s \in left}

Finish ==
  /\ phase \in {"share", "borrow"} /\ turns = {} /\ Halts
  /\ candidates' = candidates \cup {Spill(s) : s \in Taken}
  /\ accepted' = [r \in Roots |->
       accepted[r] + Cardinality({s \in Taken : s[2] = r})]
  /\ overflow' = [r \in Roots |->
       SubSeq(overflow[r], 1 + Cardinality({s \in Taken : s[2] = r}),
              Len(overflow[r]))]
  /\ diagnosed' = diagnosed
       \cup (IF Used >= MaxEntries THEN {r \in Roots : continuations[r] # <<>>} ELSE {})
       \cup (IF Cardinality(candidates') >= MaxCandidates
             THEN Omitted(Spilled \ Taken) ELSE {})
  /\ phase' = "done"
  /\ UNCHANGED <<tree, patterns, queue, continuations, budgets, discovering,
                 exhausted, turns, before>>

Step ==
  \/ \E r \in Roots :
       \/ Configure(r)
       \/ Inspect(r) \/ InspectFails(r) \/ InspectExhausts(r)
       \/ Resume(r) \/ ResumeFails(r) \/ ResumeExhausts(r)
       \/ EndTurn(r)
  \/ Borrow
  \/ Finish

Rest == phase = "done" /\ UNCHANGED vars

Next == Step \/ Rest

(* The scan is one task of the event loop, which runs it to its end.       *)
Spec == Init /\ [][Next]_vars /\ WF_vars(Step)

-----------------------------------------------------------------------------

Continuation ==
  [kind : {"entries", "children"}, dir : DOMAIN tree.entries, entries : Seq(Entry)]

TypeOK ==
  /\ tree \in Trees
  /\ \A r \in Roots : queue[r] \in Seq(DOMAIN tree.entries)
  /\ \A r \in Roots : continuations[r] \in Seq(Continuation)
  /\ limit \in [Roots -> Nat] /\ visited \in [Roots -> Nat]
  /\ accepted \in [Roots -> 0..MaxCandidates]
  /\ \A r \in Roots :
       overflow[r] \in Seq(tree.plugins) /\ Len(overflow[r]) <= MaxCandidates
  /\ candidates \subseteq tree.plugins
  /\ DOMAIN discovering \subseteq tree.plugins
  /\ \A d \in DOMAIN discovering : discovering[d] \in (SUBSET Roots) \ {{}}
  /\ diagnosed \subseteq Roots
  /\ exhausted \in BOOLEAN
  /\ turns \subseteq Roots
  /\ phase \in {"read", "share", "borrow", "done"}
  /\ before \in Nat

(* The global budgets hold whatever is shared out again: no more entries   *)
(* are visited and no more candidates returned than the two limits, as     *)
(* long as matching does not run out of work.                              *)
BudgetsHold ==
  /\ ~exhausted => Used <= MaxEntries
  /\ Cardinality(candidates) <= MaxCandidates

(* A noisy root starves no other: one that is cut short for entries has    *)
(* had at least its fair share of them.                                    *)
NobodyStarves ==
  \A r \in Roots :
    (phase = "done" /\ continuations[r] # <<>> /\ ~exhausted) =>
      visited[r] >= FairShare(MaxEntries, Count, r)

(* What a root has to offer: the plugin at the root itself, and those that *)
(* the texts of its configuration declare, whatever the scan had to look   *)
(* through to get there.                                                   *)
Offers(r, d) ==
  /\ d \in tree.plugins /\ IsPrefix(tree.roots[r], d)
  /\ d = tree.roots[r] \/ Declared(ReadPatterns(tree.config[r]), Below(r, d))

(* Silence means completeness: of a root without a diagnostic every plugin *)
(* that its patterns declare is among the candidates, and the root is      *)
(* among those that discovered it.  Neither the budgets, nor the early end *)
(* below a package, nor the pruning of what cannot match lose one.         *)
SilenceIsComplete ==
  phase = "done" =>
    \A r \in Roots \ diagnosed :
      \A d \in DOMAIN tree.entries :
        Offers(r, d) => d \in candidates /\ r \in discovering[d]

(* The scan ends: the rounds of borrowing do not go on for ever.           *)
Terminates == <>(phase = "done")

=============================================================================
