-------------------------- MODULE MCTargetCatalog ---------------------------
(* Instances of the target catalog.  One plugin has two versions of its    *)
(* source; an outer project has a nested one inside it.  Each cast follows *)
(* one question further than the bounds of all together would allow.       *)
EXTENDS TargetCatalog, TLC

CONSTANTS i1, i2, i3, i4, alone, j1, j2, outer, inner, a, b, c, u1, u2

AllIds == {i1, i2, i3, i4, alone, j1, j2}
AllRoots == {a, b, c}
Nested == {outer, inner}
TwoCallers == {u1, u2}
IdSymmetry ==
  Permutations({i1, i2, i3, i4}) \cup Permutations({j1, j2}) \cup Permutations(TwoCallers)

(* a lies in both projects, b in the outer one only, c in none.            *)
Placement ==
  {<<p, p>> : p \in {a, b, c, outer, inner}}
    \cup {<<inner, outer>>, <<a, inner>>, <<a, outer>>, <<b, outer>>}

Plain == {[plugin |-> "p", version |-> 1, detail |-> 1]}
Varied == {[plugin |-> "p", version |-> 1, detail |-> 1],
           [plugin |-> "q", version |-> 1, detail |-> 2]}

(* One target written often enough for its events to be compacted twice.   *)
LongLife ==
  [ids |-> {alone}, roots |-> {a}, projects |-> {}, contents |-> Plain,
   callers |-> {u1}, events |-> 7, clock |-> 2]

(* More targets come and go than history holds.                            *)
FullHistory ==
  [ids |-> {i1, i2, i3, i4}, roots |-> {a, b, c}, projects |-> {},
   contents |-> Plain, callers |-> {}, events |-> 5, clock |-> 2]

(* Two reconciliations of two targets whose sources change meanwhile.      *)
TwoObservers ==
  [ids |-> {j1, j2}, roots |-> {a, b}, projects |-> {}, contents |-> Varied,
   callers |-> TwoCallers, events |-> 4, clock |-> 2]

(* Snapshots of nested projects.                                           *)
NestedScopes ==
  [ids |-> {j1, j2}, roots |-> {a, b}, projects |-> Nested, contents |-> Plain,
   callers |-> {}, events |-> 4, clock |-> 1]

AllCasts == {LongLife, FullHistory, TwoObservers, NestedScopes}
OneLongLife == {[LongLife EXCEPT !.callers = {}, !.events = 5]}

=============================================================================
