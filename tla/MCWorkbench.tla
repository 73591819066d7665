----------------------------- MODULE MCWorkbench -----------------------------
(* Two starts on one data root, two directories with a plugin, and the     *)
(* data roots that the first start may find: none, one of each earlier     *)
(* program, and each kind that is refused.                                 *)
EXTENDS Workbench

CONSTANTS r1, r2, r3, s1, s2, q1, q2

TwoStarts == 1..2
AllRoots == {r1, r2, r3}
(* The path of r3 looks like a URL: the server keeps it, the page refuses. *)
SomeLooks == [r \in AllRoots |-> IF r = r3 THEN {"scheme"} ELSE {}]
TwoSlots == {s1, s2}
TwoRequests == {q1, q2}
(* r1 moves from one slot to the other.                                    *)
Configs ==
  <<[s \in {s1, s2} |-> IF s = s1 THEN r1 ELSE r2],
    [s \in {s1, s2} |-> IF s = s1 THEN r3 ELSE r1]>>

Database(n) ==
  [root |-> "private", file |-> "private", journal |-> "none", wal |-> FALSE,
   table |-> "ours", ledger |-> 1..n, drifted |-> {}]
NoRoot == [Database(0) EXCEPT !.root = "absent", !.file = "absent", !.table = "absent"]

SomeOrigins ==
  {NoRoot, [NoRoot EXCEPT !.root = "unsafe"], [NoRoot EXCEPT !.root = "private", !.wal = TRUE],
   Database(5), Database(9), Database(10),
   [Database(0) EXCEPT !.file = "unsafe"],
   [Database(9) EXCEPT !.journal = "unsafe"], [Database(9) EXCEPT !.wal = TRUE],
   [Database(0) EXCEPT !.table = "foreign"], [Database(0) EXCEPT !.table = "absent"],
   [Database(0) EXCEPT !.ledger = {1, 3}],
   [Database(4) EXCEPT !.drifted = {1}]}
Complete == {Database(9)}
(* A link without a target, one to a target, and one to what is no target. *)
SomeLinks ==
  {[target |-> NoTarget, refused |-> FALSE, mode |-> "fixture"],
   [target |-> NoTarget, refused |-> FALSE, mode |-> "live"],
   [target |-> <<r1, 1>>, refused |-> FALSE, mode |-> "live"],
   [target |-> NoTarget, refused |-> TRUE, mode |-> "live"]}

=============================================================================
