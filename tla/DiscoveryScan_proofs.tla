------------------------ MODULE DiscoveryScan_proofs ------------------------
(***************************************************************************)
(* Proofs about the bounded scan: its budgets, its fairness, and that what *)
(* it is silent about it has scanned.                                      *)
(*                                                                         *)
(* Matching is a recursion over characters and segments; it is compared    *)
(* first with what a pattern names (MatchesIsNames), so that a plugin that *)
(* is declared is matched, and no directory above it pruned                *)
(* (DeclaredIsReached).  Every step of a turn then has the same summary    *)
(* (Scanned): it charges its own root, records at most one candidate, and  *)
(* loses nothing that the root still waits for.  The invariant is kept by  *)
(* that summary, by a round of borrowing and by the end of the scan.       *)
(***************************************************************************)
EXTENDS DiscoveryScan, FiniteSetTheorems, FunctionTheorems, SequenceTheorems, TLAPS

-----------------------------------------------------------------------------
(* Sequences of steps and sums over the roots.                             *)

(* A non-empty set of naturals has a least element.                        *)
LEMMA Least ==
  ASSUME NEW S, S \subseteq Nat, S # {}
  PROVE  \E m \in S : \A x \in S : m <= x
<1>1. PICK m \in S : \A x \in S : ~ (<<x, m>> \in OpToRel(<, Nat))
  BY NatLessThanWellFounded, WFMin
<1>2. \A x \in S : ~ (x < m)
  BY <1>1 DEF OpToRel
<1> QED
  BY <1>2

(* A set with 0 that has k + 1 with every k below n has all up to n.       *)
LEMMA Upwards ==
  ASSUME NEW n \in Nat, NEW S, 0 \in S, \A k \in 0..n - 1 : k \in S => k + 1 \in S
  PROVE  \A k \in 0..n : k \in S
<1>1. SUFFICES ASSUME NEW b \in 0..n, b \notin S PROVE FALSE
  OBVIOUS
<1> DEFINE T == {k \in 0..n : k \notin S}
<1>2. T \subseteq Nat /\ T # {}
  BY <1>1
<1>3. PICK m \in T : \A x \in T : m <= x
  <2> HIDE DEF T
  <2> QED
    BY <1>2, Least
<1>4. \A x \in 0..n : x \notin S => m <= x
  BY <1>3
<1>5. m \in 0..n /\ m \notin S /\ m # 0
  OBVIOUS
<1>6. m - 1 \in 0..n - 1 /\ m - 1 \notin S
  <2>1. m - 1 \in 0..n - 1 /\ m - 1 \in 0..n /\ m - 1 + 1 = m
    BY <1>5
  <2> QED
    BY <1>5, <2>1
<1> QED
  BY <1>4, <1>6

(* And downwards, from n to a.                                             *)
LEMMA Downwards ==
  ASSUME NEW a \in Int, NEW n \in Int, NEW S, n \in S,
         \A k \in a..n - 1 : k + 1 \in S => k \in S
  PROVE  \A k \in a..n : k \in S
<1>1. CASE n < a
  BY <1>1
<1>2. CASE a <= n
  <2> DEFINE T == {k \in Nat : n - k \in S}
  <2>1. n - a \in Nat
    BY <1>2
  <2>2. 0 \in T
    OBVIOUS
  <2>3. \A k \in 0..(n - a) - 1 : k \in T => k + 1 \in T
    <3> SUFFICES ASSUME NEW k \in 0..(n - a) - 1, n - k \in S PROVE n - (k + 1) \in S
      OBVIOUS
    <3>1. n - (k + 1) \in a..n - 1 /\ n - (k + 1) + 1 = n - k
      BY <1>2
    <3> QED
      BY <3>1
  <2>4. \A k \in 0..n - a : k \in T
    <3> HIDE DEF T
    <3> QED
      BY <2>1, <2>2, <2>3, Upwards
  <2>5. \A k \in a..n : n - k \in 0..n - a /\ n - (n - k) = k
    BY <1>2
  <2> QED
    BY <2>4, <2>5
<1> QED
  BY <1>1, <1>2

(* What is defined step by step exists.                                    *)
IsRun(f, n, V, base, step) ==
  /\ f \in [0..n -> V] /\ f[0] = base
  /\ \A k \in 1..n : f[k] = step[k][f[k - 1]]

(* Every value being one of V again, such a run exists.                    *)
LEMMA StepByStep ==
  ASSUME NEW n, NEW V, NEW base, NEW step,
         n \in Nat, base \in V, \A k \in 1..n : \A v \in V : step[k][v] \in V
  PROVE  \E f : IsRun(f, n, V, base, step)
<1> DEFINE S == {m \in Nat : \E f \in [0..m -> V] :
                   f[0] = base /\ \A k \in 1..m : k \in 1..n => f[k] = step[k][f[k - 1]]}
<1>1. 0 \in S
  <2> DEFINE g == [k \in 0..0 |-> base]
  <2>1. g \in [0..0 -> V] /\ g[0] = base /\ 1..0 = {}
    OBVIOUS
  <2> HIDE DEF g
  <2> QED
    BY <2>1
<1>2. \A m \in 0..n - 1 : m \in S => m + 1 \in S
  <2> SUFFICES ASSUME NEW m \in 0..n - 1, m \in S PROVE m + 1 \in S
    OBVIOUS
  <2>1. PICK f \in [0..m -> V] :
          f[0] = base /\ \A k \in 1..m : k \in 1..n => f[k] = step[k][f[k - 1]]
    OBVIOUS
  <2> DEFINE g == [k \in 0..m + 1 |-> IF k = m + 1 THEN step[m + 1][f[m]] ELSE f[k]]
  <2>2. m + 1 \in 1..n /\ m \in 0..m /\ f[m] \in V
    OBVIOUS
  <2>3. step[m + 1][f[m]] \in V
    BY <2>2
  <2>4. g \in [0..m + 1 -> V]
    BY <2>3
  <2>5. g[0] = base
    BY <2>1
  <2>6. \A k \in 1..m + 1 : k \in 1..n => g[k] = step[k][g[k - 1]]
    <3> SUFFICES ASSUME NEW k \in 1..m + 1, k \in 1..n PROVE g[k] = step[k][g[k - 1]]
      OBVIOUS
    <3>1. g[k - 1] = f[k - 1]
      OBVIOUS
    <3>2. CASE k = m + 1
      BY <3>1, <3>2
    <3>3. CASE k # m + 1
      <4>1. k \in 1..m /\ g[k] = f[k]
        BY <3>3
      <4> QED
        BY <2>1, <3>1, <4>1
    <3> QED
      BY <3>2, <3>3
  <2>7. m + 1 \in Nat
    OBVIOUS
  <2> HIDE DEF g
  <2> QED
    BY <2>4, <2>5, <2>6, <2>7
<1>3. \A m \in 0..n : m \in S
  <2> HIDE DEF S
  <2> QED
    BY <1>1, <1>2, Upwards
<1>4. n \in S
  BY <1>3
<1>5. PICK f \in [0..n -> V] :
        f[0] = base /\ \A k \in 1..n : k \in 1..n => f[k] = step[k][f[k - 1]]
  BY <1>4
<1>6. IsRun(f, n, V, base, step)
  BY <1>5 DEF IsRun
<1> QED
  BY <1>6


(* A number for every root.                                                *)
Counts == [Roots -> Nat]

(* The partial sums of counts.                                             *)
UpTo(f) == CHOOSE g : g = [k \in 0..Count |-> IF k = 0 THEN 0 ELSE g[k - 1] + f[k]]

(* What the assumption on the constants says.                              *)
LEMMA CountIsNat == Count \in Nat \ {0} /\ Roots = 1..Count /\ MaxEntries \in Nat
                    /\ MaxCandidates \in Nat /\ MaxListed \in Nat /\ Count <= MaxEntries
                    /\ Count <= MaxCandidates
  BY ScanAssumption DEF Roots

(* The partial sums of numbers, the last of which is their total.          *)
LEMMA UpToSteps ==
  ASSUME NEW f \in Counts
  PROVE  /\ UpTo(f)[0] = 0 /\ \A k \in 0..Count : UpTo(f)[k] \in Nat
         /\ \A k \in 0..Count - 1 : UpTo(f)[k + 1] = UpTo(f)[k] + f[k + 1]
         /\ Total(f) = UpTo(f)[Count] /\ Total(f) \in Nat
<1> USE CountIsNat
<1> DEFINE step == [k \in 1..Count |-> [v \in Nat |-> v + f[k]]]
<1>1. step \in [1..Count -> [Nat -> Nat]]
  BY DEF Counts
<1>2. PICK g \in [0..Count -> Nat] :
        g[0] = 0 /\ \A k \in 1..Count : g[k] = step[k][g[k - 1]]
  <2> DEFINE V == Nat
  <2>1. Count \in Nat /\ 0 \in V /\ \A k \in 1..Count : \A v \in V : step[k][v] \in V
    BY <1>1
  <2>2. PICK g : IsRun(g, Count, V, 0, step)
    <3> HIDE DEF V, step
    <3> QED
      BY <2>1, StepByStep
  <2>3. g \in [0..Count -> Nat] /\ g[0] = 0 /\ \A k \in 1..Count : g[k] = step[k][g[k - 1]]
    <3> HIDE DEF step
    <3> QED
      BY <2>2 DEF IsRun
  <2> HIDE DEF step
  <2> QED
    BY <2>3
<1>3. \A k \in 1..Count : g[k - 1] \in Nat /\ step[k][g[k - 1]] = g[k - 1] + f[k]
  BY <1>2
<1>4. g = [k \in 0..Count |-> IF k = 0 THEN 0 ELSE g[k - 1] + f[k]]
  <2> DEFINE h == [k \in 0..Count |-> IF k = 0 THEN 0 ELSE g[k - 1] + f[k]]
  <2>1. \A k \in 0..Count : g[k] = h[k]
    <3> SUFFICES ASSUME NEW k \in 0..Count PROVE g[k] = h[k]
      OBVIOUS
    <3>1. k = 0 \/ k \in 1..Count
      OBVIOUS
    <3>2. h[k] = IF k = 0 THEN 0 ELSE g[k - 1] + f[k]
      OBVIOUS
    <3> HIDE DEF h, step
    <3> QED
      BY <1>2, <1>3, <3>1, <3>2
  <2>2. DOMAIN g = 0..Count /\ DOMAIN h = 0..Count /\ g = [k \in 0..Count |-> g[k]]
    OBVIOUS
  <2> QED
    BY <2>1, <2>2
<1>5. UpTo(f) = [k \in 0..Count |-> IF k = 0 THEN 0 ELSE UpTo(f)[k - 1] + f[k]]
  BY <1>4 DEF UpTo
<1>6. \A k \in 0..Count - 1 : UpTo(f)[k + 1] = UpTo(f)[k] + f[k + 1]
  <2> SUFFICES ASSUME NEW k \in 0..Count - 1 PROVE UpTo(f)[k + 1] = UpTo(f)[k] + f[k + 1]
    OBVIOUS
  <2>1. k + 1 \in 0..Count /\ k + 1 # 0 /\ k + 1 - 1 = k
    OBVIOUS
  <2> QED
    BY <1>5, <2>1
<1>7. UpTo(f)[0] = 0
  BY <1>5
<1> DEFINE S == {k \in 0..Count : UpTo(f)[k] \in Nat}
<1>8. 0 \in S
  BY <1>7
<1>9. \A k \in 0..Count - 1 : k \in S => k + 1 \in S
  <2> SUFFICES ASSUME NEW k \in 0..Count - 1, UpTo(f)[k] \in Nat PROVE UpTo(f)[k + 1] \in Nat
    OBVIOUS
  <2>1. k + 1 \in 1..Count /\ k + 1 - 1 = k
    OBVIOUS
  <2>2. UpTo(f)[k + 1] = UpTo(f)[k] + f[k + 1]
    BY <2>1, <1>6
  <2>3. f[k + 1] \in Nat
    BY <2>1 DEF Counts
  <2> QED
    BY <2>2, <2>3
<1>10. \A k \in 0..Count : k \in S
  <2> HIDE DEF S
  <2> QED
    BY <1>8, <1>9, Upwards
<1>11. \A k \in 0..Count : UpTo(f)[k] \in Nat
  BY <1>10
<1>12. Total(f) = UpTo(f)[Count]
  BY DEF Total, UpTo
<1>13. Count \in 0..Count
  OBVIOUS
<1> QED
  BY <1>6, <1>7, <1>11, <1>12, <1>13

-----------------------------------------------------------------------------
(* Fair shares.                                                            *)

(* Sums are monotone, and add up.                                          *)
LEMMA TotalMonotone ==
  ASSUME NEW f \in Counts, NEW g \in Counts, \A r \in Roots : f[r] <= g[r]
  PROVE  Total(f) <= Total(g)
<1> DEFINE S == {k \in 0..Count : UpTo(f)[k] <= UpTo(g)[k]}
<1>1. Count \in Nat /\ Roots = 1..Count
  BY CountIsNat
<1>2. 0 \in S
  BY <1>1, UpToSteps
<1>3. \A k \in 0..Count - 1 : k \in S => k + 1 \in S
  <2> SUFFICES ASSUME NEW k \in 0..Count - 1, UpTo(f)[k] <= UpTo(g)[k]
      PROVE UpTo(f)[k + 1] <= UpTo(g)[k + 1]
    BY <1>1
  <2>1. k + 1 \in Roots /\ k \in 0..Count
    BY <1>1
  <2>2. UpTo(f)[k + 1] = UpTo(f)[k] + f[k + 1] /\ UpTo(f)[k] \in Nat
    BY <2>1, UpToSteps
  <2>3. UpTo(g)[k + 1] = UpTo(g)[k] + g[k + 1] /\ UpTo(g)[k] \in Nat
    BY <2>1, UpToSteps
  <2>4. f[k + 1] \in Nat /\ g[k + 1] \in Nat /\ f[k + 1] <= g[k + 1]
    BY <2>1 DEF Counts
  <2> QED
    BY <2>2, <2>3, <2>4
<1>4. \A k \in 0..Count : k \in S
  <2> HIDE DEF S
  <2> QED
    BY <1>1, <1>2, <1>3, Upwards
<1>5. UpTo(f)[Count] <= UpTo(g)[Count]
  BY <1>1, <1>4
<1> QED
  BY <1>5, UpToSteps

(* The total of sums is the sum of the totals.                             *)
LEMMA TotalAdds ==
  ASSUME NEW f \in Counts, NEW g \in Counts, NEW h \in Counts,
         \A r \in Roots : h[r] = f[r] + g[r]
  PROVE  Total(h) = Total(f) + Total(g)
<1> DEFINE S == {k \in 0..Count : UpTo(h)[k] = UpTo(f)[k] + UpTo(g)[k]}
<1>1. Count \in Nat /\ Roots = 1..Count
  BY CountIsNat
<1>2. 0 \in S
  BY <1>1, UpToSteps
<1>3. \A k \in 0..Count - 1 : k \in S => k + 1 \in S
  <2> SUFFICES ASSUME NEW k \in 0..Count - 1, UpTo(h)[k] = UpTo(f)[k] + UpTo(g)[k]
      PROVE UpTo(h)[k + 1] = UpTo(f)[k + 1] + UpTo(g)[k + 1]
    BY <1>1
  <2>1. k + 1 \in Roots /\ k \in 0..Count
    BY <1>1
  <2>2. UpTo(f)[k + 1] = UpTo(f)[k] + f[k + 1] /\ UpTo(f)[k] \in Nat
    BY <2>1, UpToSteps
  <2>3. UpTo(g)[k + 1] = UpTo(g)[k] + g[k + 1] /\ UpTo(g)[k] \in Nat
    BY <2>1, UpToSteps
  <2>4. UpTo(h)[k + 1] = UpTo(h)[k] + h[k + 1]
    BY <2>1, UpToSteps
  <2>5. f[k + 1] \in Nat /\ g[k + 1] \in Nat /\ h[k + 1] = f[k + 1] + g[k + 1]
    BY <2>1 DEF Counts
  <2> QED
    BY <2>2, <2>3, <2>4, <2>5
<1>4. \A k \in 0..Count : k \in S
  <2> HIDE DEF S
  <2> QED
    BY <1>1, <1>2, <1>3, Upwards
<1>5. UpTo(h)[Count] = UpTo(f)[Count] + UpTo(g)[Count]
  BY <1>1, <1>4
<1> QED
  BY <1>5, UpToSteps

(* One count that changes changes the sum as much.                         *)
LEMMA TotalOfChange ==
  ASSUME NEW f \in Counts, NEW g \in Counts, NEW r \in Roots,
         \A s \in Roots : s # r => g[s] = f[s]
  PROVE  Total(g) + f[r] = Total(f) + g[r]
<1> DEFINE S == {k \in 0..Count : IF k < r THEN UpTo(g)[k] = UpTo(f)[k]
                                  ELSE UpTo(g)[k] + f[r] = UpTo(f)[k] + g[r]}
<1>1. /\ Count \in Nat /\ Roots = 1..Count /\ f[r] \in Nat /\ g[r] \in Nat
      /\ r \in Nat /\ 0 < r
  BY CountIsNat DEF Counts
<1>2. 0 \in S
  <2>1. UpTo(f)[0] = 0 /\ UpTo(g)[0] = 0
    BY UpToSteps
  <2> QED
    BY <1>1, <2>1
<1>3. \A k \in 0..Count - 1 : k \in S => k + 1 \in S
  <2> SUFFICES ASSUME NEW k \in 0..Count - 1, k \in S
      PROVE IF k + 1 < r THEN UpTo(g)[k + 1] = UpTo(f)[k + 1]
            ELSE UpTo(g)[k + 1] + f[r] = UpTo(f)[k + 1] + g[r]
    BY <1>1
  <2>1. k + 1 \in Roots /\ k \in 0..Count
    BY <1>1
  <2>2. UpTo(f)[k + 1] = UpTo(f)[k] + f[k + 1] /\ UpTo(f)[k] \in Nat
    BY <2>1, UpToSteps
  <2>3. UpTo(g)[k + 1] = UpTo(g)[k] + g[k + 1] /\ UpTo(g)[k] \in Nat
    BY <2>1, UpToSteps
  <2>5. f[k + 1] \in Nat /\ g[k + 1] \in Nat /\ (k + 1 # r => g[k + 1] = f[k + 1])
    BY <2>1 DEF Counts
  <2>6. IF k < r THEN UpTo(g)[k] = UpTo(f)[k] ELSE UpTo(g)[k] + f[r] = UpTo(f)[k] + g[r]
    OBVIOUS
  <2> HIDE DEF S
  <2>7. CASE k + 1 = r
    BY <1>1, <2>1, <2>2, <2>3, <2>5, <2>6, <2>7
  <2>8. CASE k + 1 < r
    BY <1>1, <2>1, <2>2, <2>3, <2>5, <2>6, <2>8
  <2>9. CASE r < k + 1
    <3>1. ~(k < r) /\ ~(k + 1 < r) /\ g[k + 1] = f[k + 1]
      BY <1>1, <2>1, <2>5, <2>9
    <3>2. UpTo(g)[k] + f[r] = UpTo(f)[k] + g[r]
      BY <2>6, <3>1
    <3>3. ASSUME NEW a \in Nat, NEW b \in Nat, NEW c \in Nat, NEW x \in Nat, NEW y \in Nat,
                 a + x = b + y
          PROVE  (a + c) + x = (b + c) + y
      BY <3>3
    <3>4. (UpTo(g)[k] + f[k + 1]) + f[r] = (UpTo(f)[k] + f[k + 1]) + g[r]
      <4>1. f[k + 1] \in Nat
        BY <2>5
      <4>2. UpTo(f)[k] \in Nat /\ UpTo(g)[k] \in Nat
        BY <2>2, <2>3
      <4>3. f[r] \in Nat /\ g[r] \in Nat
        BY <1>1
      <4> QED
        BY <3>2, <3>3, <4>1, <4>2, <4>3
    <3>5. UpTo(g)[k + 1] + f[r] = UpTo(f)[k + 1] + g[r]
      BY <2>2, <2>3, <3>1, <3>4
    <3> QED
      BY <3>1, <3>5
  <2> QED
    BY <1>1, <2>1, <2>7, <2>8, <2>9
<1>4. \A k \in 0..Count : k \in S
  <2> HIDE DEF S
  <2> QED
    BY <1>1, <1>2, <1>3, Upwards
<1>5. UpTo(g)[Count] + f[r] = UpTo(f)[Count] + g[r]
  BY <1>1, <1>4
<1> QED
  BY <1>5, UpToSteps

(* A fair share is a number, and something if there is enough to share.   *)
LEMMA FairShareIsNat ==
  ASSUME NEW total \in Nat, NEW n \in Nat, n > 0, NEW i \in Nat
  PROVE  /\ FairShare(total, n, i) \in Nat
         /\ total >= n => FairShare(total, n, i) >= 1
         /\ (i <= 1 /\ total > 0) => FairShare(total, n, i) >= 1
<1>1. total \div n \in Nat /\ total % n \in Nat
  OBVIOUS
<1>2. total = n * (total \div n) + (total % n) /\ (total % n) < n
  OBVIOUS
<1>3. total >= n => total \div n >= 1
  BY <1>1, <1>2
<1>4. total > 0 => (total \div n >= 1 \/ total % n >= 1)
  BY <1>1, <1>2
<1> QED
  BY <1>1, <1>3, <1>4 DEF FairShare

(* How many of C are at most k: the number of a share in                   *)
(* allocateFairShares.                                                     *)
Up(C, k) == Cardinality({s \in C : s <= k})

(* Those of C up to k, one more for every k in C.                          *)
LEMMA UpSteps ==
  ASSUME NEW C, C \subseteq Roots
  PROVE  /\ IsFiniteSet(C) /\ Cardinality(C) \in Nat
         /\ Up(C, 0) = 0 /\ Up(C, Count) = Cardinality(C)
         /\ \A k \in 0..Count : Up(C, k) \in Nat /\ Up(C, k) <= Cardinality(C)
         /\ \A k \in 0..Count - 1 : Up(C, k + 1) = Up(C, k) + (IF k + 1 \in C THEN 1 ELSE 0)
<1>1. Count \in Nat /\ Roots = 1..Count /\ IsFiniteSet(Roots)
  BY CountIsNat, FS_Interval
<1>2. IsFiniteSet(C) /\ Cardinality(C) \in Nat
  BY <1>1, FS_Subset, FS_CardinalityType
<1>0. \A s \in C : s \in Int /\ 1 <= s /\ s <= Count
  BY <1>1
<1>3. {s \in C : s <= 0} = {} /\ {s \in C : s <= Count} = C
  BY <1>0
<1>4. \A k \in 0..Count : /\ IsFiniteSet({s \in C : s <= k})
                          /\ Up(C, k) \in Nat /\ Up(C, k) <= Cardinality(C)
  <2> SUFFICES ASSUME NEW k \in 0..Count
      PROVE /\ IsFiniteSet({s \in C : s <= k})
            /\ Up(C, k) \in Nat /\ Up(C, k) <= Cardinality(C)
    OBVIOUS
  <2>1. {s \in C : s <= k} \in SUBSET C
    OBVIOUS
  <2> QED
    BY <1>2, <2>1, FS_Subset, FS_CardinalityType DEF Up
<1>5. ASSUME NEW k \in Roots
      PROVE  Up(C, k) = Up(C, k - 1) + (IF k \in C THEN 1 ELSE 0)
  <2> DEFINE T == {s \in C : s <= k - 1}
  <2>1. k - 1 \in 0..Count
    BY <1>1
  <2>2. IsFiniteSet(T) /\ Cardinality(T) \in Nat /\ k \notin T
    <3>1. IsFiniteSet({s \in C : s <= k - 1}) /\ Up(C, k - 1) \in Nat
      BY <1>4, <2>1
    <3>2. k \in Int /\ ~(k <= k - 1)
      BY <1>1
    <3> QED
      BY <3>1, <3>2 DEF Up
  <2>3. CASE k \in C
    <3>1. {s \in C : s <= k} = T \cup {k}
      BY <1>0, <2>3
    <3>2. Cardinality(T \cup {k}) = Cardinality(T) + 1
      <4> HIDE DEF T
      <4> QED
        BY <2>2, FS_AddElement
    <3> QED
      BY <2>3, <3>1, <3>2 DEF Up
  <2>4. CASE k \notin C
    <3>1. {s \in C : s <= k} = T
      <4>1. k \in Int
        BY <1>1
      <4>2. \A s \in C : s <= k <=> s <= k - 1
        BY <1>0, <2>4, <4>1
      <4> QED
        BY <4>2
    <3> QED
      BY <2>2, <2>4, <3>1 DEF Up
  <2> QED
    BY <2>3, <2>4
<1>6. Up(C, 0) = 0 /\ Up(C, Count) = Cardinality(C)
  BY <1>3, FS_EmptySet DEF Up
<1>7. ASSUME NEW k \in 0..Count - 1
      PROVE  Up(C, k + 1) = Up(C, k) + (IF k + 1 \in C THEN 1 ELSE 0)
  <2>1. k + 1 \in Roots /\ k + 1 - 1 = k
    BY <1>1
  <2> QED
    BY <1>5, <2>1
<1> QED
  BY <1>2, <1>4, <1>6, <1>7

(* Shared out fairly among some roots, a total is used up exactly.         *)
LEMMA SharesAddUp ==
  ASSUME NEW C, C \subseteq Roots, C # {}, NEW total \in Nat, NEW f \in Counts,
         \A r \in Roots : f[r] = IF r \in C THEN FairShare(total, Cardinality(C), Up(C, r))
                                 ELSE 0
  PROVE  Total(f) = total
<1> DEFINE n == Cardinality(C)
           q == total \div n
           m == total % n
           Sum(i) == i * q + (IF i <= m THEN i ELSE m)
           S == {k \in 0..Count : UpTo(f)[k] = Sum(Up(C, k))}
<1>1. Count \in Nat /\ Roots = 1..Count
  BY CountIsNat
<1>2. n \in Nat /\ n > 0
  BY UpSteps, FS_EmptySet
<1>3. q \in Nat /\ m \in Nat /\ m < n /\ total = n * q + m
  <2> HIDE DEF n
  <2> QED
    BY <1>2
<1>4. 0 \in S
  <2>1. UpTo(f)[0] = 0 /\ Up(C, 0) = 0
    BY UpToSteps, UpSteps
  <2>2. Sum(0) = 0
    <3> HIDE DEF q, m
    <3> QED
      BY <1>3
  <2> QED
    BY <1>1, <2>1, <2>2
<1>5. \A k \in 0..Count - 1 : k \in S => k + 1 \in S
  <2> SUFFICES ASSUME NEW k \in 0..Count - 1, UpTo(f)[k] = Sum(Up(C, k))
      PROVE UpTo(f)[k + 1] = Sum(Up(C, k + 1))
    BY <1>1
  <2>1. k + 1 \in Roots /\ k \in 0..Count
    BY <1>1
  <2>2. UpTo(f)[k + 1] = UpTo(f)[k] + f[k + 1]
    BY <2>1, UpToSteps
  <2>3. Up(C, k + 1) = Up(C, k) + (IF k + 1 \in C THEN 1 ELSE 0) /\ Up(C, k) \in Nat
    BY <2>1, UpSteps
  <2>4. CASE k + 1 \notin C
    <3>1. f[k + 1] = 0 /\ Up(C, k + 1) = Up(C, k)
      BY <2>1, <2>3, <2>4
    <3>2. Sum(Up(C, k)) \in Nat
      <4> HIDE DEF q, m
      <4> QED
        BY <1>3, <2>3
    <3> QED
      BY <2>2, <3>1, <3>2
  <2>5. CASE k + 1 \in C
    <3> DEFINE i == Up(C, k)
    <3>1. i \in Nat /\ Up(C, k + 1) = i + 1
      BY <2>3, <2>5
    <3>2. f[k + 1] = q + (IF i + 1 <= m THEN 1 ELSE 0)
      BY <2>1, <2>5, <3>1 DEF FairShare
    <3>3. UpTo(f)[k + 1] = Sum(i) + (q + (IF i + 1 <= m THEN 1 ELSE 0))
      BY <2>2, <3>2
    <3>4. Sum(i) + (q + (IF i + 1 <= m THEN 1 ELSE 0)) = Sum(i + 1)
      <4> HIDE DEF i, q, m
      <4>1. (i + 1) * q = i * q + q /\ i * q \in Nat
        BY <1>3, <3>1
      <4> QED
        BY <1>3, <3>1, <4>1
    <3> QED
      BY <3>1, <3>3, <3>4
  <2> QED
    BY <2>4, <2>5
<1>6. \A k \in 0..Count : k \in S
  <2> HIDE DEF S
  <2> QED
    BY <1>1, <1>4, <1>5, Upwards
<1>7. UpTo(f)[Count] = Sum(n)
  <2>1. UpTo(f)[Count] = Sum(Up(C, Count))
    BY <1>1, <1>6
  <2> QED
    BY <2>1, UpSteps
<1>8. Sum(n) = total
  <2> HIDE DEF n, q, m
  <2> QED
    BY <1>2, <1>3
<1> QED
  BY <1>7, <1>8, UpToSteps

(* The shares of all the roots.                                            *)
Shares(total) == [r \in Roots |-> FairShare(total, Count, r)]

(* There are Count roots, and the r-th share is that of root r.            *)
LEMMA RootsCount == Cardinality(Roots) = Count /\ \A r \in Roots : Up(Roots, r) = r
<1>1. Count \in Nat \ {0} /\ Roots = 1..Count
  BY CountIsNat
<1>2. Cardinality(Roots) = Count
  BY <1>1, FS_Interval
<1>3. ASSUME NEW r \in Roots PROVE Up(Roots, r) = r
  <2>1. {s \in Roots : s <= r} = 1..r /\ r \in Nat \ {0}
    BY <1>1
  <2>2. Cardinality(1..r) = r
    BY <2>1, FS_Interval
  <2> QED
    BY <2>1, <2>2 DEF Up
<1> QED
  BY <1>2, <1>3

(* The shares of all the roots use the total up.                           *)
LEMMA SharesOfAll ==
  ASSUME NEW total \in Nat
  PROVE  Shares(total) \in Counts /\ Total(Shares(total)) = total
<1>1. Count \in Nat /\ Count > 0 /\ Roots = 1..Count /\ Roots # {}
  BY CountIsNat
<1>2. \A r \in Roots : r \in Nat
  BY <1>1
<1>3. Shares(total) \in Counts
  BY <1>1, <1>2, FairShareIsNat DEF Shares, Counts
<1>4. \A r \in Roots : Shares(total)[r] = FairShare(total, Cardinality(Roots), Up(Roots, r))
  BY RootsCount DEF Shares
<1>5. \A r \in Roots : Shares(total)[r] = IF r \in Roots
                          THEN FairShare(total, Cardinality(Roots), Up(Roots, r)) ELSE 0
  BY <1>4
<1> QED
  BY <1>1, <1>3, <1>5, SharesAddUp

-----------------------------------------------------------------------------
(* Segments: matchesSegment finds what a segment spells.                   *)

(* A cut goes up from part to part.                                        *)
LEMMA CutGoesUp ==
  ASSUME NEW n \in Nat, NEW m \in Nat, NEW cut \in Cuts(n, m),
         NEW a \in 1..n + 1, NEW b \in 1..n + 1, a <= b
  PROVE  cut[a] <= cut[b]
<1> DEFINE S == {x \in 0..b - a : cut[a] <= cut[a + x]}
<1>0. cut \in [1..n + 1 -> 1..m + 1] /\ \A i \in 1..n : cut[i] <= cut[i + 1]
  BY DEF Cuts
<1>1. b - a \in Nat /\ \A x \in 0..b - a : a + x \in 1..n + 1 /\ cut[a + x] \in Int
  BY <1>0
<1>2. 0 \in S
  BY <1>1
<1>3. \A x \in 0..(b - a) - 1 : x \in S => x + 1 \in S
  <2> SUFFICES ASSUME NEW x \in 0..(b - a) - 1, cut[a] <= cut[a + x]
               PROVE  cut[a] <= cut[a + (x + 1)]
    OBVIOUS
  <2>1. a + x \in 1..n /\ a + (x + 1) = (a + x) + 1
    OBVIOUS
  <2>2. cut[a + x] <= cut[a + (x + 1)]
    BY <1>0, <2>1
  <2>3. cut[a] \in Int /\ cut[a + x] \in Int /\ cut[a + (x + 1)] \in Int
    BY <1>0, <2>1
  <2> QED
    BY <2>2, <2>3
<1>4. \A x \in 0..b - a : x \in S
  <2> HIDE DEF S
  <2> QED
    BY <1>1, <1>2, <1>3, Upwards
<1>5. cut[a] <= cut[a + (b - a)] /\ a + (b - a) = b
  BY <1>1, <1>4
<1> QED
  BY <1>5

(* One character of a segment and the part of the name it stands for.      *)
Stands(character, name, from, to) ==
  \/ character = "*" /\ \A l \in from..to - 1 : Wildcard(name[l])
  \/ /\ to = from + 1
     /\ name[from] = character \/ (character = "?" /\ Wildcard(name[from]))

(* Reach follows exactly what a character stands for.                      *)
LEMMA ReachStands ==
  ASSUME NEW name \in Name, NEW states \in SUBSET (0..Len(name)), NEW c \in STRING,
         NEW k \in 0..Len(name)
  PROVE  k \in Reach(states, c, name) <=>
           \E j \in states : j <= k /\ Stands(c, name, j + 1, k + 1)
<1>0. Len(name) \in Nat /\ states \subseteq Nat
  BY DEF Name
<1>1. Wildcard("*") /\ Wildcard("?")
  BY DEF Wildcard
<1>2. CASE c = "*"
  <2>1. k \in Reach(states, c, name) <=>
          \E j \in states : j <= k /\ \A i \in j + 1..k : Wildcard(name[i])
    BY <1>2 DEF Reach
  <2>2. ASSUME NEW j \in states
        PROVE (j <= k /\ \A i \in j + 1..k : Wildcard(name[i])) <=>
                (j <= k /\ Stands(c, name, j + 1, k + 1))
    <3>1. k + 1 - 1 = k /\ (k + 1 = (j + 1) + 1 => (j + 1..k = {j + 1}))
      BY <1>0
    <3>2. name[j + 1] = c => Wildcard(name[j + 1])
      BY <1>1, <1>2
    <3>3. c # "?"
      BY <1>2
    <3> QED
      BY <1>2, <3>1, <3>2, <3>3 DEF Stands
  <2> QED
    BY <2>1, <2>2
<1>3. CASE c # "*"
  <2>1. k \in Reach(states, c, name) <=>
          /\ k \in 1..Len(name) /\ k - 1 \in states
          /\ IF c = "?" THEN Wildcard(name[k]) ELSE name[k] = c
    BY <1>3 DEF Reach
  <2>2. ASSUME NEW j \in states, j <= k, Stands(c, name, j + 1, k + 1)
        PROVE k \in Reach(states, c, name)
    <3>1. /\ k + 1 = (j + 1) + 1
          /\ name[j + 1] = c \/ (c = "?" /\ Wildcard(name[j + 1]))
      BY <1>3, <2>2 DEF Stands
    <3>2. k = j + 1 /\ k - 1 = j /\ k \in 1..Len(name)
      BY <1>0, <3>1
    <3> QED
      BY <1>1, <2>1, <3>1, <3>2
  <2>3. ASSUME k \in Reach(states, c, name)
        PROVE \E j \in states : j <= k /\ Stands(c, name, j + 1, k + 1)
    <3>1. k - 1 \in states /\ k - 1 <= k /\ (k - 1) + 1 = k /\ k + 1 = ((k - 1) + 1) + 1
      BY <1>0, <2>1, <2>3
    <3>2. name[k] = c \/ (c = "?" /\ Wildcard(name[k]))
      BY <2>1, <2>3
    <3>3. Stands(c, name, (k - 1) + 1, k + 1)
      BY <3>1, <3>2 DEF Stands
    <3> QED
      BY <3>1, <3>3
  <2> QED
    BY <2>2, <2>3
<1> QED
  BY <1>2, <1>3

(* What matchesSegment tabulates, and the equations it satisfies.          *)
Reachable(segment, name) ==
  CHOOSE g : g = [i \in 0..Len(segment) |->
                    IF i = 0 THEN {0} ELSE Reach(g[i - 1], segment[i], name)]

(* Reachable begins at 0, goes on by Reach and decides matchesSegment.     *)
LEMMA ReachableSteps ==
  ASSUME NEW segment \in Name, NEW name \in Name
  PROVE  /\ Reachable(segment, name)[0] = {0}
         /\ \A i \in 0..Len(segment) : Reachable(segment, name)[i] \in SUBSET (0..Len(name))
         /\ \A i \in 0..Len(segment) - 1 :
              Reachable(segment, name)[i + 1] =
                Reach(Reachable(segment, name)[i], segment[i + 1], name)
         /\ MatchesSegment(segment, name) <=>
              Len(name) \in Reachable(segment, name)[Len(segment)]
<1>0. Len(segment) \in Nat /\ Len(name) \in Nat
  BY DEF Name
<1> DEFINE n == Len(segment)
           V == SUBSET (0..Len(name))
           step == [i \in 1..n |-> [v \in V |-> Reach(v, segment[i], name)]]
<1>1. {0} \in V /\ n \in Nat
  BY <1>0
<1>2. \A v \in V : \A i \in 1..n : Reach(v, segment[i], name) \in V
  BY <1>0 DEF Reach
<1>3. \A i \in 1..n : \A v \in V :
        step[i][v] = Reach(v, segment[i], name) /\ step[i][v] \in V
  <2> HIDE DEF V, n
  <2> QED
    BY <1>2
<1>4. PICK g : IsRun(g, n, V, {0}, step)
  <2> HIDE DEF V, n, step
  <2> QED
    BY <1>1, <1>3, StepByStep
<1>5. /\ g \in [0..n -> V] /\ g[0] = {0}
      /\ \A i \in 1..n : g[i - 1] \in V /\ g[i] = step[i][g[i - 1]]
  <2>1. \A i \in 1..n : i - 1 \in 0..n
    BY <1>1
  <2> HIDE DEF V, n, step
  <2> QED
    BY <1>4, <2>1 DEF IsRun
<1>6. \A i \in 1..n : g[i] = Reach(g[i - 1], segment[i], name)
  <2> HIDE DEF V, n, step
  <2> QED
    BY <1>3, <1>5
<1>7. g = [i \in 0..n |-> IF i = 0 THEN {0} ELSE Reach(g[i - 1], segment[i], name)]
  <2> DEFINE h == [i \in 0..n |-> IF i = 0 THEN {0} ELSE Reach(g[i - 1], segment[i], name)]
  <2>1. \A i \in 0..n : g[i] = h[i]
    <3> SUFFICES ASSUME NEW i \in 0..n PROVE g[i] = h[i]
      OBVIOUS
    <3>1. i = 0 \/ i \in 1..n
      BY <1>1
    <3>2. h[i] = IF i = 0 THEN {0} ELSE Reach(g[i - 1], segment[i], name)
      OBVIOUS
    <3> HIDE DEF h, n, V, step
    <3> QED
      BY <1>5, <1>6, <3>1, <3>2
  <2>2. g = [i \in 0..n |-> g[i]]
    <3> HIDE DEF n, V, step
    <3> QED
      BY <1>5
  <2>3. h = [i \in 0..n |-> h[i]]
    OBVIOUS
  <2> HIDE DEF h, n
  <2>4. [i \in 0..n |-> g[i]] = [i \in 0..n |-> h[i]]
    BY <2>1
  <2> QED
    BY <2>2, <2>3, <2>4 DEF h
<1>8. Reachable(segment, name) =
        [i \in 0..n |-> IF i = 0 THEN {0}
                        ELSE Reach(Reachable(segment, name)[i - 1], segment[i], name)]
  BY <1>7 DEF Reachable
<1> DEFINE R == Reachable(segment, name)
<1>9. R[0] = {0}
  BY <1>0, <1>8
<1>10. \A i \in 0..n - 1 : R[i + 1] = Reach(R[i], segment[i + 1], name)
  <2> SUFFICES ASSUME NEW i \in 0..n - 1
               PROVE  R[i + 1] = Reach(R[i], segment[i + 1], name)
    OBVIOUS
  <2>1. i + 1 \in 0..n /\ i + 1 # 0 /\ (i + 1) - 1 = i
    BY <1>0
  <2> HIDE DEF V, step, n
  <2> QED
    BY <1>8, <2>1
<1> DEFINE S == {i \in 0..n : R[i] \in V}
<1>11. 0 \in S
  BY <1>0, <1>9
<1>12. \A i \in 0..n - 1 : i \in S => i + 1 \in S
  <2> SUFFICES ASSUME NEW i \in 0..n - 1, R[i] \in V PROVE i + 1 \in 0..n /\ R[i + 1] \in V
    OBVIOUS
  <2>1. i + 1 \in 1..n
    BY <1>0
  <2> HIDE DEF V, step, R
  <2> QED
    BY <1>2, <1>10, <2>1
<1>13. \A i \in 0..n : i \in S
  <2> HIDE DEF S, n, R
  <2> QED
    BY <1>1, <1>11, <1>12, Upwards
<1>14. MatchesSegment(segment, name) <=> Len(name) \in R[n]
  BY DEF MatchesSegment, Reachable
<1> QED
  BY <1>9, <1>10, <1>13, <1>14

(* What the machine finds is what the segment spells.                      *)
LEMMA SpellsStands ==
  ASSUME NEW segment, NEW name
  PROVE  Spells(segment, name) <=>
           /\ Hidden(name) => Hidden(segment)
           /\ \E cut \in Cuts(Len(segment), Len(name)) : \A i \in 1..Len(segment) :
                Stands(segment[i], name, cut[i], cut[i + 1])
  BY DEF Spells, Stands

(* matchesPatternSegment lets a segment match exactly the names it         *)
(* spells.                                                                 *)
LEMMA MatchesIsSpells ==
  ASSUME NEW segment \in Name, NEW name \in Name
  PROVE  MatchesPatternSegment(segment, name) <=> Spells(segment, name)
<1> DEFINE n == Len(segment)
           m == Len(name)
           R == Reachable(segment, name)
<1>0. n \in Nat /\ m \in Nat /\ \A i \in 1..n : segment[i] \in STRING
  BY DEF Name
<1>00. R[0] = {0} /\ \A i \in 0..n : R[i] \in SUBSET (0..m)
  BY ReachableSteps
<1>1. ASSUME NEW i \in 0..n - 1, NEW k \in 0..m
      PROVE  k \in R[i + 1] <=>
               \E j \in R[i] : j <= k /\ Stands(segment[i + 1], name, j + 1, k + 1)
  <2>1. i \in 0..n /\ i + 1 \in 1..n
    BY <1>0
  <2>2. R[i + 1] = Reach(R[i], segment[i + 1], name)
    BY ReachableSteps
  <2>3. R[i] \in SUBSET (0..Len(name)) /\ segment[i + 1] \in STRING
    BY <1>0, <1>00, <2>1
  <2>4. \A states \in SUBSET (0..Len(name)) : k \in Reach(states, segment[i + 1], name) <=>
          \E j \in states : j <= k /\ Stands(segment[i + 1], name, j + 1, k + 1)
    BY <2>3, ReachStands
  <2> HIDE DEF R, n
  <2> QED
    BY <2>2, <2>3, <2>4
<1>2. ASSUME NEW cut \in Cuts(n, m), \A i \in 1..n : Stands(segment[i], name, cut[i], cut[i + 1])
      PROVE  m \in R[n]
  <2>0. /\ cut \in [1..n + 1 -> 1..m + 1] /\ cut[1] = 1 /\ cut[n + 1] = m + 1
        /\ \A i \in 1..n : cut[i] <= cut[i + 1]
    BY DEF Cuts
  <2> DEFINE S == {i \in 0..n : cut[i + 1] - 1 \in R[i]}
  <2>1. 0 \in S
    BY <1>0, <1>00, <2>0
  <2>2. \A i \in 0..n - 1 : i \in S => i + 1 \in S
    <3> SUFFICES ASSUME NEW i \in 0..n - 1, cut[i + 1] - 1 \in R[i]
                 PROVE  i + 1 \in 0..n /\ cut[(i + 1) + 1] - 1 \in R[i + 1]
      OBVIOUS
    <3>1. i + 1 \in 1..n /\ i + 1 \in 0..n /\ i + 1 \in 1..n + 1 /\ (i + 1) + 1 \in 1..n + 1
      BY <1>0
    <3>2. cut[i + 1] \in 1..m + 1 /\ cut[(i + 1) + 1] \in 1..m + 1
          /\ cut[i + 1] <= cut[(i + 1) + 1]
      BY <2>0, <3>1
    <3> DEFINE j == cut[i + 1] - 1
               k == cut[(i + 1) + 1] - 1
    <3>3. j + 1 = cut[i + 1] /\ k + 1 = cut[(i + 1) + 1] /\ j <= k /\ k \in 0..m
      BY <1>0, <3>2
    <3>4. Stands(segment[i + 1], name, j + 1, k + 1)
      BY <1>2, <3>1, <3>3
    <3> HIDE DEF j, k, R
    <3>5. j \in R[i]
      BY DEF j
    <3>6. k \in R[i + 1]
      BY <1>1, <3>3, <3>4, <3>5
    <3> QED
      BY <3>1, <3>6 DEF k
  <2>3. \A i \in 0..n : i \in S
    <3> HIDE DEF S, n, R
    <3> QED
      BY <1>0, <2>1, <2>2, Upwards
  <2>4. cut[n + 1] - 1 \in R[n]
    BY <1>0, <2>3
  <2> QED
    BY <1>0, <2>0, <2>4
<1> DEFINE Way(i, k) == \E cut \in [1..i + 1 -> 1..m + 1] :
             /\ cut[1] = 1 /\ cut[i + 1] = k + 1
             /\ \A x \in 1..i : cut[x] <= cut[x + 1] /\ Stands(segment[x], name, cut[x], cut[x + 1])
           S == {i \in 0..n : \A k \in R[i] : Way(i, k)}
<1>3. 0 \in S
  <2> SUFFICES Way(0, 0)
    <3> HIDE DEF Way, R
    <3> QED
      BY <1>0, <1>00
  <2> DEFINE cut == [x \in 1..0 + 1 |-> 1]
  <2>1. cut \in [1..0 + 1 -> 1..m + 1] /\ cut[1] = 1 /\ 0 + 1 = 1 /\ 1..0 = {}
    BY <1>0
  <2> HIDE DEF cut
  <2> QED
    BY <2>1
<1>4. \A i \in 0..n - 1 : i \in S => i + 1 \in S
  <2> SUFFICES ASSUME NEW i \in 0..n - 1, \A j \in R[i] : Way(i, j), NEW k \in R[i + 1]
               PROVE  i + 1 \in 0..n /\ Way(i + 1, k)
    <3>1. \A x \in 0..n - 1 : x + 1 \in 0..n
      BY <1>0
    <3> HIDE DEF Way, R, n
    <3> QED
      BY <3>1
  <2>1. i + 1 \in 0..n /\ i \in 0..n /\ i + 1 \in 1..n /\ i \in Nat
    BY <1>0
  <2>2. k \in 0..m
    BY <1>00, <2>1
  <2>3. PICK j \in R[i] : j <= k /\ Stands(segment[i + 1], name, j + 1, k + 1)
    <3> HIDE DEF R
    <3> QED
      BY <1>1, <2>2
  <2>4. PICK cut \in [1..i + 1 -> 1..m + 1] :
          /\ cut[1] = 1 /\ cut[i + 1] = j + 1
          /\ \A x \in 1..i : cut[x] <= cut[x + 1] /\ Stands(segment[x], name, cut[x], cut[x + 1])
    OBVIOUS
  <2>5. j \in 0..m
    BY <1>00, <2>1
  <2> DEFINE new == [x \in 1..(i + 1) + 1 |-> IF x = (i + 1) + 1 THEN k + 1 ELSE cut[x]]
  <2> HIDE DEF R
  <2>6. new \in [1..(i + 1) + 1 -> 1..m + 1]
    BY <1>0, <2>1, <2>2, <2>4
  <2>7. new[1] = 1 /\ new[(i + 1) + 1] = k + 1
    BY <2>1, <2>4
  <2>8. ASSUME NEW x \in 1..i + 1
        PROVE  new[x] <= new[x + 1] /\ Stands(segment[x], name, new[x], new[x + 1])
    <3>1. CASE x = i + 1
      <4>1. new[x] = cut[i + 1] /\ new[x + 1] = k + 1
        BY <2>1, <3>1
      <4> QED
        BY <2>2, <2>3, <2>4, <2>5, <3>1, <4>1
    <3>2. CASE x # i + 1
      <4>1. x \in 1..i /\ new[x] = cut[x] /\ new[x + 1] = cut[x + 1]
        BY <2>1, <3>2
      <4> HIDE DEF new
      <4> QED
        BY <2>4, <4>1
    <3> QED
      BY <3>1, <3>2
  <2>9. Way(i + 1, k)
    <3> HIDE DEF new
    <3> QED
      BY <2>6, <2>7, <2>8
  <2> QED
    BY <2>1, <2>9
<1>5. \A i \in 0..n : i \in S
  <2> HIDE DEF S, n
  <2> QED
    BY <1>0, <1>3, <1>4, Upwards
<1>6. ASSUME m \in R[n]
      PROVE  \E cut \in Cuts(n, m) : \A i \in 1..n : Stands(segment[i], name, cut[i], cut[i + 1])
  <2>1. Way(n, m)
    <3>1. n \in 0..n
      BY <1>0
    <3>2. n \in S
      <4> HIDE DEF S, n
      <4> QED
        BY <1>5, <3>1
    <3> HIDE DEF Way, R
    <3> QED
      BY <1>6, <3>2
  <2>2. PICK cut \in [1..n + 1 -> 1..m + 1] :
          /\ cut[1] = 1 /\ cut[n + 1] = m + 1
          /\ \A x \in 1..n : cut[x] <= cut[x + 1] /\ Stands(segment[x], name, cut[x], cut[x + 1])
    BY <2>1
  <2>3. cut \in Cuts(n, m)
    BY <2>2 DEF Cuts
  <2> QED
    BY <2>2, <2>3
<1>7. MatchesSegment(segment, name) <=> m \in R[n]
  BY ReachableSteps
<1>8. MatchesSegment(segment, name) <=>
        \E cut \in Cuts(n, m) : \A i \in 1..n : Stands(segment[i], name, cut[i], cut[i + 1])
  <2> HIDE DEF n, m, R
  <2> QED
    BY <1>2, <1>6, <1>7
<1>9. Spells(segment, name) <=>
        /\ Hidden(name) => Hidden(segment)
        /\ \E cut \in Cuts(n, m) : \A i \in 1..n : Stands(segment[i], name, cut[i], cut[i + 1])
  BY SpellsStands
<1> QED
  BY <1>8, <1>9 DEF MatchesPatternSegment

-----------------------------------------------------------------------------
(* Patterns: matchesSegments finds what a pattern names.                   *)

(* A pattern is a sequence of segments.                                    *)
Pattern == Seq(Name)

(* One segment of a pattern and the part of a path it stands for.          *)
Covers(segment, path, crossed, from, to) ==
  IF segment = Glob THEN \A l \in from..to - 1 : path[l] \in crossed
  ELSE to = from + 1 /\ Spells(segment, path[from])

(* The rest of a pattern, from i on, names the rest of a path from j on.   *)
RestNames(p, path, crossed, i, j) ==
  \E cut \in [i..Len(p) + 1 -> 1..Len(path) + 1] :
    /\ cut[i] = j /\ cut[Len(p) + 1] = Len(path) + 1
    /\ \A x \in i..Len(p) : cut[x] <= cut[x + 1] /\ Covers(p[x], path, crossed, cut[x], cut[x + 1])

(* A pattern names a path if all of it names all of the path.              *)
LEMMA NamesIsRest ==
  ASSUME NEW p \in Pattern, NEW path \in Path, NEW crossed
  PROVE  /\ Names(p, path, crossed) <=> RestNames(p, path, crossed, 1, 1)
         /\ Names(p, path, crossed) <=>
              \E cut \in Cuts(Len(p), Len(path)) : \A i \in 1..Len(p) :
                Covers(p[i], path, crossed, cut[i], cut[i + 1])
<1>1. Names(p, path, crossed) <=>
        \E cut \in Cuts(Len(p), Len(path)) : \A i \in 1..Len(p) :
          Covers(p[i], path, crossed, cut[i], cut[i + 1])
  BY DEF Names, Covers
<1>2. RestNames(p, path, crossed, 1, 1) <=>
        \E cut \in Cuts(Len(p), Len(path)) : \A i \in 1..Len(p) :
          Covers(p[i], path, crossed, cut[i], cut[i + 1])
  BY DEF RestNames, Cuts
<1> QED
  BY <1>1, <1>2

(* Nothing of a pattern names nothing of a path.                           *)
LEMMA RestAtEnd ==
  ASSUME NEW p \in Pattern, NEW path \in Path, NEW crossed, NEW j \in 1..Len(path) + 1
  PROVE  RestNames(p, path, crossed, Len(p) + 1, j) <=> j > Len(path)
<1>0. Len(p) \in Nat /\ Len(path) \in Nat
  BY DEF Pattern, Path
<1>1. ASSUME RestNames(p, path, crossed, Len(p) + 1, j) PROVE j > Len(path)
  BY <1>0, <1>1 DEF RestNames
<1>2. ASSUME j > Len(path) PROVE RestNames(p, path, crossed, Len(p) + 1, j)
  <2> DEFINE cut == [x \in Len(p) + 1..Len(p) + 1 |-> j]
  <2>1. /\ cut \in [Len(p) + 1..Len(p) + 1 -> 1..Len(path) + 1]
        /\ cut[Len(p) + 1] = j /\ j = Len(path) + 1
        /\ Len(p) + 1..Len(p) = {}
    BY <1>0, <1>2
  <2> HIDE DEF cut
  <2> QED
    BY <2>1 DEF RestNames
<1> QED
  BY <1>1, <1>2

(* The rest from i on is a part for p[i] and the rest from i + 1 on.       *)
LEMMA RestSplits ==
  ASSUME NEW p \in Pattern, NEW path \in Path, NEW crossed,
         NEW i \in 1..Len(p), NEW j \in 1..Len(path) + 1
  PROVE  RestNames(p, path, crossed, i, j) <=>
           \E k \in j..Len(path) + 1 :
             Covers(p[i], path, crossed, j, k) /\ RestNames(p, path, crossed, i + 1, k)
<1>0. Len(p) \in Nat /\ Len(path) \in Nat
  BY DEF Pattern, Path
<1>1. ASSUME RestNames(p, path, crossed, i, j)
      PROVE  \E k \in j..Len(path) + 1 :
               Covers(p[i], path, crossed, j, k) /\ RestNames(p, path, crossed, i + 1, k)
  <2>1. PICK cut \in [i..Len(p) + 1 -> 1..Len(path) + 1] :
          /\ cut[i] = j /\ cut[Len(p) + 1] = Len(path) + 1
          /\ \A x \in i..Len(p) :
               cut[x] <= cut[x + 1] /\ Covers(p[x], path, crossed, cut[x], cut[x + 1])
    BY <1>1 DEF RestNames
  <2>2. i \in i..Len(p) /\ i + 1 \in i..Len(p) + 1
    BY <1>0
  <2>3. cut[i + 1] \in j..Len(path) + 1 /\ Covers(p[i], path, crossed, j, cut[i + 1])
    BY <1>0, <2>1, <2>2
  <2> DEFINE new == [x \in i + 1..Len(p) + 1 |-> cut[x]]
  <2>4. /\ new \in [i + 1..Len(p) + 1 -> 1..Len(path) + 1]
        /\ new[i + 1] = cut[i + 1] /\ new[Len(p) + 1] = Len(path) + 1
    BY <1>0, <2>1, <2>2
  <2>5. ASSUME NEW x \in i + 1..Len(p)
        PROVE  new[x] <= new[x + 1] /\ Covers(p[x], path, crossed, new[x], new[x + 1])
    <3>1. x \in i..Len(p) /\ new[x] = cut[x] /\ new[x + 1] = cut[x + 1]
      BY <1>0
    <3> HIDE DEF new
    <3> QED
      BY <2>1, <3>1
  <2>6. RestNames(p, path, crossed, i + 1, cut[i + 1])
    <3> HIDE DEF new
    <3> QED
      BY <2>4, <2>5 DEF RestNames
  <2> QED
    BY <2>3, <2>6
<1>2. ASSUME NEW k \in j..Len(path) + 1, Covers(p[i], path, crossed, j, k),
             RestNames(p, path, crossed, i + 1, k)
      PROVE  RestNames(p, path, crossed, i, j)
  <2>1. PICK cut \in [i + 1..Len(p) + 1 -> 1..Len(path) + 1] :
          /\ cut[i + 1] = k /\ cut[Len(p) + 1] = Len(path) + 1
          /\ \A x \in i + 1..Len(p) :
               cut[x] <= cut[x + 1] /\ Covers(p[x], path, crossed, cut[x], cut[x + 1])
    BY <1>2 DEF RestNames
  <2> DEFINE new == [x \in i..Len(p) + 1 |-> IF x = i THEN j ELSE cut[x]]
  <2>2. /\ new \in [i..Len(p) + 1 -> 1..Len(path) + 1]
        /\ new[i] = j /\ new[i + 1] = k /\ new[Len(p) + 1] = Len(path) + 1
    BY <1>0, <2>1
  <2>3. ASSUME NEW x \in i..Len(p)
        PROVE  new[x] <= new[x + 1] /\ Covers(p[x], path, crossed, new[x], new[x + 1])
    <3>1. CASE x = i
      <4>1. j <= k
        BY <1>0
      <4> HIDE DEF new
      <4> QED
        BY <1>2, <2>2, <3>1, <4>1
    <3>2. CASE x # i
      <4>1. x \in i + 1..Len(p) /\ new[x] = cut[x] /\ new[x + 1] = cut[x + 1]
        BY <1>0, <3>2
      <4> HIDE DEF new
      <4> QED
        BY <2>1, <4>1
    <3> QED
      BY <3>1, <3>2
  <2> HIDE DEF new
  <2> QED
    BY <2>2, <2>3 DEF RestNames
<1> QED
  BY <1>1, <1>2

(* The recursion of matchesSegments.                                       *)
LEMMA RestOfGlob ==
  ASSUME NEW p \in Pattern, NEW path \in Path, NEW crossed,
         NEW i \in 1..Len(p), NEW j \in 1..Len(path) + 1, p[i] = Glob
  PROVE  RestNames(p, path, crossed, i, j) <=>
           \/ RestNames(p, path, crossed, i + 1, j)
           \/ j <= Len(path) /\ path[j] \in crossed /\ RestNames(p, path, crossed, i, j + 1)
<1>0. Len(p) \in Nat /\ Len(path) \in Nat
  BY DEF Pattern, Path
<1>1. \A a \in 1..Len(path) + 1 : RestNames(p, path, crossed, i, a) <=>
        \E k \in a..Len(path) + 1 :
          (\A l \in a..k - 1 : path[l] \in crossed) /\ RestNames(p, path, crossed, i + 1, k)
  <2>1. \A a, k : Covers(p[i], path, crossed, a, k) <=> \A l \in a..k - 1 : path[l] \in crossed
    BY DEF Covers
  <2> QED
    BY <2>1, RestSplits
<1>2. ASSUME RestNames(p, path, crossed, i, j), ~RestNames(p, path, crossed, i + 1, j)
      PROVE  j <= Len(path) /\ path[j] \in crossed /\ RestNames(p, path, crossed, i, j + 1)
  <2>1. PICK k \in j..Len(path) + 1 :
          (\A l \in j..k - 1 : path[l] \in crossed) /\ RestNames(p, path, crossed, i + 1, k)
    BY <1>1, <1>2
  <2>2. k # j
    BY <1>2, <2>1
  <2>3. j <= Len(path) /\ j \in j..k - 1 /\ j + 1 \in 1..Len(path) + 1 /\ k \in j + 1..Len(path) + 1
    BY <1>0, <2>2
  <2>4. \A l \in j + 1..k - 1 : l \in j..k - 1
    BY <1>0
  <2> QED
    BY <1>1, <2>1, <2>3, <2>4
<1>3. ASSUME RestNames(p, path, crossed, i + 1, j) PROVE RestNames(p, path, crossed, i, j)
  <2>1. j \in j..Len(path) + 1 /\ j..j - 1 = {}
    BY <1>0
  <2> QED
    BY <1>1, <1>3, <2>1
<1>4. ASSUME j <= Len(path), path[j] \in crossed, RestNames(p, path, crossed, i, j + 1)
      PROVE  RestNames(p, path, crossed, i, j)
  <2>1. j + 1 \in 1..Len(path) + 1
    BY <1>0, <1>4
  <2>2. PICK k \in j + 1..Len(path) + 1 :
          (\A l \in j + 1..k - 1 : path[l] \in crossed) /\ RestNames(p, path, crossed, i + 1, k)
    BY <1>1, <1>4, <2>1
  <2>3. k \in j..Len(path) + 1 /\ \A l \in j..k - 1 : l = j \/ l \in j + 1..k - 1
    BY <1>0
  <2>4. \A l \in j..k - 1 : path[l] \in crossed
    BY <1>4, <2>2, <2>3
  <2> QED
    BY <1>1, <2>2, <2>3, <2>4
<1> QED
  BY <1>2, <1>3, <1>4

(* A segment that is no Glob takes one name, which it spells.              *)
LEMMA RestOfOne ==
  ASSUME NEW p \in Pattern, NEW path \in Path, NEW crossed,
         NEW i \in 1..Len(p), NEW j \in 1..Len(path) + 1, p[i] # Glob
  PROVE  RestNames(p, path, crossed, i, j) <=>
           /\ j <= Len(path) /\ Spells(p[i], path[j])
           /\ RestNames(p, path, crossed, i + 1, j + 1)
<1>0. Len(p) \in Nat /\ Len(path) \in Nat
  BY DEF Pattern, Path
<1>1. RestNames(p, path, crossed, i, j) <=>
        \E k \in j..Len(path) + 1 :
          k = j + 1 /\ Spells(p[i], path[j]) /\ RestNames(p, path, crossed, i + 1, k)
  BY RestSplits DEF Covers
<1>2. j + 1 \in j..Len(path) + 1 <=> j <= Len(path)
  BY <1>0
<1> QED
  BY <1>1, <1>2

(* The names that a Glob may cross in matchesSegments.                     *)
Visible == {n \in Name : ~Hidden(n)}

(* The equation of what matchesSegments tabulates.                         *)
Places(p, path) == (1..Len(p) + 1) \X (1..Len(path) + 1)
Visit(p, path, v, at) ==
  IF at[1] > Len(p) THEN at[2] > Len(path)
  ELSE IF p[at[1]] = Glob
  THEN \/ v[<<at[1] + 1, at[2]>>]
       \/ at[2] <= Len(path) /\ ~Hidden(path[at[2]]) /\ v[<<at[1], at[2] + 1>>]
  ELSE /\ at[2] <= Len(path) /\ MatchesPatternSegment(p[at[1]], path[at[2]])
       /\ v[<<at[1] + 1, at[2] + 1>>]

(* It names what the rests of the pattern name.                            *)
LEMMA RestVisits ==
  ASSUME NEW p \in Pattern, NEW path \in Path, NEW v,
         NEW i \in 1..Len(p) + 1, NEW j \in 1..Len(path) + 1,
         i <= Len(p) => (v[<<i + 1, j>>] <=> RestNames(p, path, Visible, i + 1, j)),
         j <= Len(path) => (v[<<i, j + 1>>] <=> RestNames(p, path, Visible, i, j + 1)),
         (i <= Len(p) /\ j <= Len(path)) =>
           (v[<<i + 1, j + 1>>] <=> RestNames(p, path, Visible, i + 1, j + 1))
  PROVE  Visit(p, path, v, <<i, j>>) <=> RestNames(p, path, Visible, i, j)
<1> DEFINE n == Len(p)
           m == Len(path)
<1>0. n \in Nat /\ m \in Nat /\ (\A k \in 1..n : p[k] \in Name) /\ \A k \in 1..m : path[k] \in Name
  BY DEF Pattern, Path
<1>1. Visit(p, path, v, <<i, j>>) <=>
        IF i > n THEN j > m
        ELSE IF p[i] = Glob
        THEN v[<<i + 1, j>>] \/ (j <= m /\ ~Hidden(path[j]) /\ v[<<i, j + 1>>])
        ELSE j <= m /\ MatchesPatternSegment(p[i], path[j]) /\ v[<<i + 1, j + 1>>]
  BY DEF Visit
<1>2. CASE i > n
  <2>1. i = Len(p) + 1
    BY <1>0, <1>2
  <2>2. RestNames(p, path, Visible, Len(p) + 1, j) <=> j > Len(path)
    BY RestAtEnd
  <2> QED
    BY <1>1, <1>2, <2>1, <2>2
<1>3. CASE ~(i > n) /\ p[i] = Glob
  <2>1. i \in 1..Len(p) /\ i <= Len(p)
    BY <1>0, <1>3
  <2>2. j <= m => (~Hidden(path[j]) <=> path[j] \in Visible)
    <3>1. j <= m => path[j] \in Name
      BY <1>0
    <3> QED
      BY <3>1 DEF Visible
  <2>3. RestNames(p, path, Visible, i, j) <=>
         \/ RestNames(p, path, Visible, i + 1, j)
         \/ j <= Len(path) /\ path[j] \in Visible /\ RestNames(p, path, Visible, i, j + 1)
    BY <1>3, <2>1, RestOfGlob
  <2> QED
    BY <1>1, <1>3, <2>1, <2>2, <2>3
<1>4. CASE ~(i > n) /\ p[i] # Glob
  <2>1. i \in 1..Len(p) /\ i <= Len(p)
    BY <1>0, <1>4
  <2>2. j <= m => (MatchesPatternSegment(p[i], path[j]) <=> Spells(p[i], path[j]))
    <3>1. j <= m => p[i] \in Name /\ path[j] \in Name
      BY <1>0, <2>1
    <3> QED
      BY <3>1, MatchesIsSpells
  <2>3. RestNames(p, path, Visible, i, j) <=>
         /\ j <= Len(path) /\ Spells(p[i], path[j])
         /\ RestNames(p, path, Visible, i + 1, j + 1)
    BY <1>4, <2>1, RestOfOne
  <2> QED
    BY <1>1, <1>4, <2>1, <2>2, <2>3
<1> QED
  BY <1>2, <1>3, <1>4

(* What matchesSegments tabulates.                                         *)
Visited(p, path) == CHOOSE v : v = [at \in Places(p, path) |-> Visit(p, path, v, at)]

(* It satisfies its equation.                                              *)
LEMMA VisitedExists ==
  ASSUME NEW p \in Pattern, NEW path \in Path
  PROVE  Visited(p, path) = [at \in Places(p, path) |-> Visit(p, path, Visited(p, path), at)]
<1> DEFINE n == Len(p)
           m == Len(path)
           v == [at \in Places(p, path) |-> RestNames(p, path, Visible, at[1], at[2])]
<1>0. n \in Nat /\ m \in Nat
  BY DEF Pattern, Path
<1>1. ASSUME NEW i \in 1..n + 1, NEW j \in 1..m + 1
      PROVE  v[<<i, j>>] = RestNames(p, path, Visible, i, j)
  <2>1. <<i, j>> \in Places(p, path) /\ <<i, j>>[1] = i /\ <<i, j>>[2] = j
    BY DEF Places
  <2> HIDE DEF n, m
  <2> QED
    BY <2>1
<1>2. ASSUME NEW i \in 1..n + 1, NEW j \in 1..m + 1
      PROVE  Visit(p, path, v, <<i, j>>) <=> RestNames(p, path, Visible, i, j)
  <2>1. i <= n => i + 1 \in 1..n + 1
    BY <1>0
  <2>2. j <= m => j + 1 \in 1..m + 1
    BY <1>0
  <2>3. i <= n => v[<<i + 1, j>>] = RestNames(p, path, Visible, i + 1, j)
    <3> HIDE DEF v
    <3> QED
      BY <1>1, <2>1
  <2>4. j <= m => v[<<i, j + 1>>] = RestNames(p, path, Visible, i, j + 1)
    <3> HIDE DEF v
    <3> QED
      BY <1>1, <2>2
  <2>5. (i <= n /\ j <= m) => v[<<i + 1, j + 1>>] = RestNames(p, path, Visible, i + 1, j + 1)
    <3> HIDE DEF v
    <3> QED
      BY <1>1, <2>1, <2>2
  <2> HIDE DEF v
  <2> QED
    BY <2>3, <2>4, <2>5, RestVisits
<1>3. ASSUME NEW at \in Places(p, path)
      PROVE  v[at] = Visit(p, path, v, at)
  <2>1. PICK i \in 1..n + 1, j \in 1..m + 1 : at = <<i, j>>
    BY DEF Places
  <2>2. Visit(p, path, v, <<i, j>>) \in BOOLEAN
    <3> HIDE DEF v, n, m
    <3>1. CASE i > Len(p)
      <4>1. Visit(p, path, v, <<i, j>>) = (j > Len(path))
        BY <3>1 DEF Visit
      <4> QED
        BY <4>1
    <3>2. CASE ~(i > Len(p)) /\ p[i] = Glob
      <4>1. Visit(p, path, v, <<i, j>>) =
              (v[<<i + 1, j>>] \/ (j <= Len(path) /\ ~Hidden(path[j]) /\ v[<<i, j + 1>>]))
        BY <3>2 DEF Visit
      <4> QED
        BY <4>1
    <3>3. CASE ~(i > Len(p)) /\ p[i] # Glob
      <4>1. Visit(p, path, v, <<i, j>>) =
              (j <= Len(path) /\ MatchesPatternSegment(p[i], path[j]) /\ v[<<i + 1, j + 1>>])
        BY <3>3 DEF Visit
      <4> QED
        BY <4>1
    <3> QED
      BY <3>1, <3>2, <3>3
  <2>3. RestNames(p, path, Visible, i, j) \in BOOLEAN
    BY DEF RestNames
  <2> HIDE DEF v
  <2>4. Visit(p, path, v, <<i, j>>) = RestNames(p, path, Visible, i, j)
    BY <1>2, <2>2, <2>3
  <2>5. v[<<i, j>>] = RestNames(p, path, Visible, i, j)
    BY <1>1
  <2> QED
    BY <2>1, <2>4, <2>5
<1>4. v = [at \in Places(p, path) |-> Visit(p, path, v, at)]
  <2>1. v = [at \in Places(p, path) |-> v[at]]
    OBVIOUS
  <2> HIDE DEF v
  <2> QED
    BY <1>3, <2>1
<1> HIDE DEF v
<1> QED
  BY <1>4 DEF Visited

(* Matching a pattern is naming by it, Glob standing for visible names.    *)
LEMMA MatchesIsNames ==
  ASSUME NEW p \in Pattern, NEW path \in Path
  PROVE  MatchesSegments(p, path) <=> Names(p, path, Visible)
<1> DEFINE n == Len(p)
           m == Len(path)
           v == Visited(p, path)
           Row(i) == \A j \in 1..m + 1 : v[<<i, j>>] <=> RestNames(p, path, Visible, i, j)
           S == {i \in 1..n + 1 : Row(i)}
<1>0. n \in Nat /\ m \in Nat
  BY DEF Pattern, Path
<1>1. ASSUME NEW i \in 1..n + 1, NEW j \in 1..m + 1
      PROVE  v[<<i, j>>] = Visit(p, path, v, <<i, j>>)
  <2>1. <<i, j>> \in Places(p, path)
    BY DEF Places
  <2>2. v = [at \in Places(p, path) |-> Visit(p, path, v, at)]
    BY VisitedExists
  <2> HIDE DEF v, n, m
  <2> QED
    BY <2>1, <2>2
<1>2. ASSUME NEW i \in 1..n + 1, i <= n => Row(i + 1)
      PROVE  Row(i)
  <2> DEFINE T == {j \in 1..m + 1 : v[<<i, j>>] <=> RestNames(p, path, Visible, i, j)}
  <2>1. ASSUME NEW j \in 1..m + 1, j <= m => j + 1 \in T
        PROVE  j \in T
    <3>1. i <= n => (v[<<i + 1, j>>] <=> RestNames(p, path, Visible, i + 1, j))
      BY <1>2
    <3>2. j <= m => (v[<<i, j + 1>>] <=> RestNames(p, path, Visible, i, j + 1))
      BY <2>1
    <3>3. (i <= n /\ j <= m) =>
            (v[<<i + 1, j + 1>>] <=> RestNames(p, path, Visible, i + 1, j + 1))
      <4>1. j <= m => j + 1 \in 1..m + 1
        BY <1>0
      <4> QED
        BY <1>2, <4>1
    <3>4. Visit(p, path, v, <<i, j>>) <=> RestNames(p, path, Visible, i, j)
      <4> HIDE DEF v
      <4> QED
        BY <3>1, <3>2, <3>3, RestVisits
    <3> HIDE DEF v
    <3> QED
      BY <1>1, <3>4
  <2>2. m + 1 \in T
    <3>1. m + 1 \in 1..m + 1 /\ ~(m + 1 <= m)
      BY <1>0
    <3> HIDE DEF T, m
    <3> QED
      BY <2>1, <3>1
  <2>3. \A j \in 1..(m + 1) - 1 : j + 1 \in T => j \in T
    <3>1. \A j \in 1..(m + 1) - 1 : j \in 1..m + 1
      BY <1>0
    <3> HIDE DEF T, m
    <3> QED
      BY <2>1, <3>1
  <2>4. \A j \in 1..m + 1 : j \in T
    <3>1. 1 \in Int /\ m + 1 \in Int
      BY <1>0
    <3> HIDE DEF T, m
    <3> QED
      BY <2>2, <2>3, <3>1, Downwards
  <2> QED
    BY <2>4
<1>3. n + 1 \in S
  <2>1. n + 1 \in 1..n + 1 /\ ~(n + 1 <= n)
    BY <1>0
  <2> HIDE DEF Row, n
  <2> QED
    BY <1>2, <2>1
<1>4. \A i \in 1..(n + 1) - 1 : i + 1 \in S => i \in S
  <2>1. \A i \in 1..(n + 1) - 1 : i \in 1..n + 1
    BY <1>0
  <2> HIDE DEF Row, n
  <2> QED
    BY <1>2, <2>1
<1>5. \A i \in 1..n + 1 : i \in S
  <2>1. 1 \in Int /\ n + 1 \in Int
    BY <1>0
  <2> HIDE DEF S, n
  <2> QED
    BY <1>3, <1>4, <2>1, Downwards
<1>6. v[<<1, 1>>] <=> RestNames(p, path, Visible, 1, 1)
  <2>1. 1 \in 1..n + 1 /\ 1 \in 1..m + 1
    BY <1>0
  <2> HIDE DEF v, n, m
  <2> QED
    BY <1>5, <2>1
<1>7. MatchesSegments(p, path) <=> v[<<1, 1>>]
  BY DEF MatchesSegments, Visited, Visit, Places
<1> QED
  BY <1>6, <1>7, NamesIsRest

-----------------------------------------------------------------------------
(* Prefixes: a path that is named is not pruned on the way.                *)

(* How a path is cut among the segments of a pattern.                      *)
CutOf(p, path, crossed, cut) ==
  /\ cut \in Cuts(Len(p), Len(path))
  /\ \A i \in 1..Len(p) : Covers(p[i], path, crossed, cut[i], cut[i + 1])

(* The segment that a name of the path falls to.                           *)
LEMMA HolderOf ==
  ASSUME NEW n \in Nat, NEW m \in Nat, NEW cut \in Cuts(n, m), NEW k \in 1..m
  PROVE  \E i \in 1..n : cut[i] <= k /\ k < cut[i + 1]
<1> DEFINE T == {i \in 1..n + 1 : k < cut[i]}
<1>0. /\ cut \in [1..n + 1 -> 1..m + 1] /\ cut[1] = 1 /\ cut[n + 1] = m + 1
      /\ \A i \in 1..n : cut[i] <= cut[i + 1]
  BY DEF Cuts
<1>1. T \subseteq Nat /\ n + 1 \in T
  BY <1>0
<1>2. PICK b \in T : \A x \in T : b <= x
  <2> HIDE DEF T
  <2> QED
    BY <1>1, Least
<1>3. b \in 1..n + 1 /\ k < cut[b] /\ b # 1
  BY <1>0
<1>4. b - 1 \in 1..n /\ b - 1 \notin T /\ (b - 1) + 1 = b
  BY <1>2, <1>3
<1>5. cut[b - 1] <= k
  BY <1>0, <1>4
<1> QED
  BY <1>3, <1>4, <1>5

(* What may be crossed may be crossed among more.                          *)
LEMMA NamesAmongMore ==
  ASSUME NEW p, NEW path, NEW some, NEW more, some \subseteq more, Names(p, path, some)
  PROVE  Names(p, path, more)
  BY DEF Names

(* The names that a Glob may cross without the scan leaving them out.      *)
Ordinary == {n \in Name : ~ShouldIgnore(n)}

(* A name that Glob does not cross falls to a segment that spells it, and  *)
(* the pattern up to it names the path down to it.                         *)
LEMMA NamedByOne ==
  ASSUME NEW p \in Pattern, NEW path \in Path, NEW crossed, Names(p, path, crossed),
         NEW k \in 1..Len(path), path[k] \notin crossed
  PROVE  \E i \in 1..Len(p) :
           /\ p[i] # Glob /\ Spells(p[i], path[k])
           /\ Names(SubSeq(p, 1, i), SubSeq(path, 1, k), crossed)
<1> DEFINE n == Len(p)
           m == Len(path)
<1>0. n \in Nat /\ m \in Nat
  BY DEF Pattern, Path
<1>1. PICK cut \in Cuts(n, m) : \A i \in 1..n : Covers(p[i], path, crossed, cut[i], cut[i + 1])
  BY NamesIsRest
<1>2. /\ cut \in [1..n + 1 -> 1..m + 1] /\ cut[1] = 1 /\ cut[n + 1] = m + 1
      /\ \A i \in 1..n : cut[i] <= cut[i + 1]
  BY DEF Cuts
<1>3. PICK i \in 1..n : cut[i] <= k /\ k < cut[i + 1]
  <2>1. k \in 1..m
    OBVIOUS
  <2> HIDE DEF n, m
  <2> QED
    BY <1>0, <2>1, HolderOf
<1>4. p[i] # Glob
  <2>1. k \in cut[i]..cut[i + 1] - 1
    BY <1>0, <1>2, <1>3, SMTT(20)
  <2>2. Covers(p[i], path, crossed, cut[i], cut[i + 1])
    BY <1>1
  <2> QED
    BY <2>1, <2>2 DEF Covers
<1>5. cut[i + 1] = cut[i] + 1 /\ Spells(p[i], path[cut[i]])
  BY <1>1, <1>4 DEF Covers
<1>6. cut[i] = k /\ cut[i + 1] = k + 1
  BY <1>0, <1>2, <1>3, <1>5
<1> DEFINE q == SubSeq(p, 1, i)
           down == SubSeq(path, 1, k)
           new == [x \in 1..i + 1 |-> cut[x]]
<1>7. /\ q \in Pattern /\ Len(q) = i /\ \A x \in 1..i : q[x] = p[x]
      /\ down \in Path /\ Len(down) = k /\ \A x \in 1..k : down[x] = path[x]
  BY DEF Pattern, Path
<1>8. ASSUME NEW x \in 1..i + 1 PROVE cut[x] \in 1..k + 1
  <2>1. x \in 1..n + 1 /\ i + 1 \in 1..n + 1 /\ x <= i + 1
    BY <1>0
  <2>2. cut[x] <= cut[i + 1]
    <3> HIDE DEF n, m
    <3> QED
      BY <1>0, <2>1, CutGoesUp
  <2>3. cut[x] \in 1..m + 1
    BY <1>2, <2>1
  <2> QED
    BY <1>0, <1>6, <2>2, <2>3
<1>9. new \in Cuts(i, k)
  <2>1. new \in [1..i + 1 -> 1..k + 1]
    BY <1>8
  <2>2. new[1] = 1 /\ new[i + 1] = k + 1
    BY <1>0, <1>2, <1>6
  <2>3. ASSUME NEW x \in 1..i PROVE new[x] <= new[x + 1]
    <3>1. x \in 1..n /\ new[x] = cut[x] /\ new[x + 1] = cut[x + 1]
      BY <1>0
    <3> QED
      BY <1>2, <3>1
  <2> HIDE DEF new
  <2> QED
    BY <2>1, <2>2, <2>3 DEF Cuts
<1>10. ASSUME NEW x \in 1..i PROVE Covers(q[x], down, crossed, new[x], new[x + 1])
  <2>1. /\ x \in 1..n /\ x \in 1..i + 1 /\ x + 1 \in 1..i + 1
        /\ new[x] = cut[x] /\ new[x + 1] = cut[x + 1]
    BY <1>0
  <2>2. Covers(p[x], path, crossed, cut[x], cut[x + 1])
    BY <1>1, <2>1
  <2>3. cut[x] \in 1..k + 1 /\ cut[x + 1] \in 1..k + 1
    BY <1>8, <2>1
  <2>4. q[x] = p[x]
    BY <1>7
  <2> HIDE DEF new, q, down
  <2>5. CASE p[x] = Glob
    <3>1. ASSUME NEW l \in cut[x]..cut[x + 1] - 1 PROVE down[l] \in crossed
      <4>1. l \in 1..k
        BY <2>3
      <4>2. path[l] \in crossed
        BY <2>2, <2>5 DEF Covers
      <4> QED
        BY <1>7, <4>1, <4>2
    <3> QED
      BY <2>1, <2>4, <2>5, <3>1 DEF Covers
  <2>6. CASE p[x] # Glob
    <3>1. cut[x + 1] = cut[x] + 1 /\ Spells(p[x], path[cut[x]])
      BY <2>2, <2>6 DEF Covers
    <3>2. cut[x] \in 1..k
      BY <2>3, <3>1
    <3>3. down[cut[x]] = path[cut[x]]
      BY <1>7, <3>2
    <3> QED
      BY <2>1, <2>4, <2>6, <3>1, <3>3 DEF Covers
  <2> QED
    BY <2>5, <2>6
<1>11. Names(q, down, crossed)
  <2>1. Names(q, down, crossed) <=>
          \E c \in Cuts(Len(q), Len(down)) : \A x \in 1..Len(q) :
            Covers(q[x], down, crossed, c[x], c[x + 1])
    <3> HIDE DEF q, down
    <3> QED
      BY <1>7, NamesIsRest
  <2> HIDE DEF q, down, new
  <2> QED
    BY <1>7, <1>9, <1>10, <2>1
<1> QED
  BY <1>4, <1>5, <1>6, <1>11


(* Where prefixCanMatch may be in the pattern after each name of the path. *)
StatesOf(p, path) ==
  CHOOSE g : g = [j \in 0..Len(path) |->
                    IF j = 0 THEN {1} ELSE Led(p, g[j - 1], path[j])]

(* They begin at 1 and follow Led; closed, they are PrefixStates.          *)
LEMMA StatesSteps ==
  ASSUME NEW p \in Pattern, NEW path \in Path
  PROVE  /\ StatesOf(p, path)[0] = {1}
         /\ \A j \in 0..Len(path) - 1 :
              StatesOf(p, path)[j + 1] = Led(p, StatesOf(p, path)[j], path[j + 1])
         /\ PrefixStates(p, path) = CloseGlobstars(p, StatesOf(p, path)[Len(path)])
<1>0. Len(p) \in Nat /\ Len(path) \in Nat
  BY DEF Pattern, Path
<1> DEFINE n == Len(path)
           V == SUBSET (1..Len(p) + 1)
           step == [j \in 1..n |-> [v \in V |-> Led(p, v, path[j])]]
<1>1. {1} \in V /\ n \in Nat
  BY <1>0
<1>2. ASSUME NEW v \in V, NEW name PROVE Led(p, v, name) \in V
  <2>1. CloseGlobstars(p, v) \subseteq 1..Len(p) + 1
    BY DEF CloseGlobstars
  <2>2. \A i \in CloseGlobstars(p, v) \ {Len(p) + 1} : i \in 1..Len(p) + 1 /\ i + 1 \in 1..Len(p) + 1
    BY <1>0, <2>1
  <2> QED
    BY <2>2 DEF Led
<1>3. \A i \in 1..n : \A v \in V :
        step[i][v] = Led(p, v, path[i]) /\ step[i][v] \in V
  <2> HIDE DEF V, n
  <2> QED
    BY <1>2
<1>4. PICK g : IsRun(g, n, V, {1}, step)
  <2> HIDE DEF V, n, step
  <2> QED
    BY <1>1, <1>3, StepByStep
<1>5. /\ g \in [0..n -> V] /\ g[0] = {1}
      /\ \A i \in 1..n : g[i - 1] \in V /\ g[i] = step[i][g[i - 1]]
  <2>1. \A i \in 1..n : i - 1 \in 0..n
    BY <1>1
  <2> HIDE DEF V, n, step
  <2> QED
    BY <1>4, <2>1 DEF IsRun
<1>6. \A i \in 1..n : g[i] = Led(p, g[i - 1], path[i])
  <2> HIDE DEF V, n, step
  <2> QED
    BY <1>3, <1>5
<1>7. g = [i \in 0..n |-> IF i = 0 THEN {1} ELSE Led(p, g[i - 1], path[i])]
  <2> DEFINE h == [i \in 0..n |-> IF i = 0 THEN {1} ELSE Led(p, g[i - 1], path[i])]
  <2>1. \A i \in 0..n : g[i] = h[i]
    <3> SUFFICES ASSUME NEW i \in 0..n PROVE g[i] = h[i]
      OBVIOUS
    <3>1. i = 0 \/ i \in 1..n
      BY <1>1
    <3>2. h[i] = IF i = 0 THEN {1} ELSE Led(p, g[i - 1], path[i])
      OBVIOUS
    <3> HIDE DEF h, n, V, step
    <3> QED
      BY <1>5, <1>6, <3>1, <3>2
  <2>2. g = [i \in 0..n |-> g[i]]
    <3> HIDE DEF n, V, step
    <3> QED
      BY <1>5
  <2>3. h = [i \in 0..n |-> h[i]]
    OBVIOUS
  <2> HIDE DEF h, n
  <2>4. [i \in 0..n |-> g[i]] = [i \in 0..n |-> h[i]]
    BY <2>1
  <2> QED
    BY <2>2, <2>3, <2>4 DEF h
<1> DEFINE R == StatesOf(p, path)
<1>8. R = [j \in 0..n |-> IF j = 0 THEN {1} ELSE Led(p, R[j - 1], path[j])]
  BY <1>7 DEF StatesOf
<1>9. R[0] = {1}
  <2> HIDE DEF R
  <2> QED
    BY <1>0, <1>8
<1>10. \A j \in 0..n - 1 : R[j + 1] = Led(p, R[j], path[j + 1])
  <2> SUFFICES ASSUME NEW j \in 0..n - 1
               PROVE  R[j + 1] = Led(p, R[j], path[j + 1])
    OBVIOUS
  <2>1. j + 1 \in 0..n /\ j + 1 # 0 /\ (j + 1) - 1 = j
    BY <1>0
  <2> HIDE DEF R, n
  <2> QED
    BY <1>8, <2>1
<1>11. PrefixStates(p, path) = CloseGlobstars(p, R[n])
  BY DEF PrefixStates, StatesOf
<1> QED
  BY <1>9, <1>10, <1>11

(* A state from which the pattern can go on as the cut says: the segment   *)
(* it stands at holds the j-th name, or begins after it.                   *)
OnCut(p, cut, j, i) ==
  /\ i \in 1..Len(p) + 1 /\ cut[i] <= j + 1
  /\ i = Len(p) + 1 => cut[i] = j + 1
  /\ i <= Len(p) => j + 1 <= cut[i + 1] /\ (p[i] = Glob \/ cut[i] = j + 1)

(* The states follow every way in which the pattern may name the path: at  *)
(* each name there is one to go on from, and inside the pattern while      *)
(* there are names left.                                                   *)
LEMMA StatesKeepUp ==
  ASSUME NEW p \in Pattern, NEW path \in Path, NEW cut, CutOf(p, path, Visible, cut),
         NEW k \in 0..Len(path)
  PROVE  \E i \in StatesOf(p, SubSeq(path, 1, k))[k] : OnCut(p, cut, k, i)
<1> DEFINE n == Len(p)
           m == Len(path)
           pre == SubSeq(path, 1, k)
           R == StatesOf(p, pre)
           S == {j \in 0..k : \E i \in R[j] : OnCut(p, cut, j, i)}
<1>0. n \in Nat /\ m \in Nat /\ k \in Nat /\ (\A i \in 1..n : p[i] \in Name)
      /\ \A j \in 1..m : path[j] \in Name
  BY DEF Pattern, Path
<1>1. /\ cut \in Cuts(n, m) /\ cut \in [1..n + 1 -> 1..m + 1]
      /\ cut[1] = 1 /\ cut[n + 1] = m + 1
      /\ \A i \in 1..n : cut[i] <= cut[i + 1] /\ Covers(p[i], path, Visible, cut[i], cut[i + 1])
  BY DEF CutOf, Cuts
<1>2. pre \in Path /\ Len(pre) = k /\ \A j \in 1..k : pre[j] = path[j]
  BY DEF Path
<1>3. R[0] = {1} /\ \A j \in 0..k - 1 : R[j + 1] = Led(p, R[j], pre[j + 1])
  <2> HIDE DEF pre
  <2> QED
    BY <1>2, StatesSteps
<1>4. \A a \in 1..n + 1 : \A b \in 1..n + 1 : a <= b => cut[a] <= cut[b]
  <2> HIDE DEF n, m
  <2> QED
    BY <1>0, <1>1, CutGoesUp
<1>5. \A i \in 1..n + 1 : cut[i] \in 1..m + 1
  BY <1>1
<1>6. 0 \in S
  <2>1. OnCut(p, cut, 0, 1)
    <3>1. 1 \in 1..n + 1 /\ cut[1] = 0 + 1
      BY <1>0, <1>1
    <3>2. 1 <= n => cut[1 + 1] \in 1..m + 1
      <4>1. 1 <= n => 1 + 1 \in 1..n + 1
        BY <1>0
      <4> QED
        BY <1>5, <4>1
    <3>3. 1 <= n => 0 + 1 <= cut[1 + 1]
      BY <1>0, <3>2
    <3> QED
      BY <3>1, <3>3 DEF OnCut
  <2> QED
    BY <1>0, <1>3, <2>1
<1>7. ASSUME NEW j \in 0..k - 1, NEW i \in R[j], OnCut(p, cut, j, i)
      PROVE  \E x \in R[j + 1] : OnCut(p, cut, j + 1, x)
  <2>0. j + 1 \in 1..m /\ j + 1 \in 1..k /\ j \in Nat
    BY <1>0
  <2>1. PICK h \in 1..n : cut[h] <= j + 1 /\ j + 1 < cut[h + 1]
    <3> HIDE DEF n, m
    <3> QED
      BY <1>0, <1>1, <2>0, HolderOf
  <2>2. /\ i \in 1..n + 1 /\ cut[i] <= j + 1
        /\ i = n + 1 => cut[i] = j + 1
        /\ i <= n => j + 1 <= cut[i + 1] /\ (p[i] = Glob \/ cut[i] = j + 1)
    BY <1>7 DEF OnCut
  <2>3. i \in 1..n
    <3>1. i # n + 1
      <4> SUFFICES ASSUME i = n + 1 PROVE FALSE
        OBVIOUS
      <4>1. cut[n + 1] = j + 1 /\ cut[n + 1] = m + 1
        BY <1>1, <2>2
      <4> QED
        BY <1>0, <2>0, <4>1
    <3>2. i \in 1..n + 1 /\ n \in Nat
      BY <1>0, <2>2
    <3> HIDE DEF n
    <3> QED
      BY <3>1, <3>2
  <2>4. h \in 1..n + 1 /\ h + 1 \in 1..n + 1 /\ i + 1 \in 1..n + 1
    BY <1>0, <2>3
  <2>5. i <= h
    <3> SUFFICES ASSUME h < i PROVE FALSE
      BY <2>3
    <3>1. h + 1 <= i
      BY <2>3
    <3>2. cut[h + 1] <= cut[i]
      BY <1>4, <2>2, <2>4, <3>1
    <3>3. cut[h + 1] \in Int /\ cut[i] \in Int
      BY <1>5, <2>2, <2>4
    <3> QED
      BY <2>0, <2>1, <2>2, <3>2, <3>3
  <2>6. ASSUME NEW x \in i..h - 1 PROVE p[x] = Glob
    <3> SUFFICES ASSUME p[x] # Glob PROVE FALSE
      OBVIOUS
    <3>1. x \in 1..n /\ x \in 1..n + 1 /\ x + 1 \in 1..n + 1 /\ x + 1 <= h
      BY <1>0, <2>3
    <3>2. cut[x + 1] = cut[x] + 1
      BY <1>1, <3>1 DEF Covers
    <3>3. cut[x + 1] <= cut[h]
      BY <1>4, <2>4, <3>1
    <3>4. cut[x] \in Int /\ cut[x + 1] \in Int /\ cut[h] \in Int /\ cut[i + 1] \in Int
      BY <1>5, <2>4, <3>1
    <3>5. CASE x = i
      BY <2>0, <2>1, <2>2, <2>3, <3>2, <3>3, <3>4, <3>5
    <3>6. CASE x # i
      <4>1. i + 1 <= x
        BY <2>3, <3>6
      <4>2. cut[i + 1] <= cut[x]
        BY <1>4, <2>4, <3>1, <4>1
      <4> QED
        BY <2>0, <2>1, <2>2, <2>3, <3>2, <3>3, <3>4, <4>2, SMTT(20)
    <3> QED
      BY <3>5, <3>6
  <2>7. h \in CloseGlobstars(p, R[j]) \ {Len(p) + 1}
    <3>1. h \in 1..Len(p) + 1 /\ h # Len(p) + 1 /\ i <= h
      BY <1>0, <2>5
    <3> HIDE DEF R, n
    <3>2. i \in R[j] /\ \A x \in i..h - 1 : p[x] = Glob
      BY <1>7, <2>6
    <3> QED
      BY <3>1, <3>2 DEF CloseGlobstars
  <2>8. R[j + 1] = Led(p, R[j], path[j + 1])
    BY <1>2, <1>3, <2>0
  <2>9. Covers(p[h], path, Visible, cut[h], cut[h + 1])
    BY <1>1
  <2>10. cut[h] \in Int /\ cut[h + 1] \in Int
    BY <1>5, <2>4
  <2>11. CASE p[h] = Glob
    <3>1. j + 1 \in cut[h]..cut[h + 1] - 1
      BY <2>0, <2>1, <2>10
    <3>2. path[j + 1] \in Visible
      BY <2>9, <2>11, <3>1 DEF Covers
    <3>3. h \in Led(p, R[j], path[j + 1])
      BY <2>7, <2>11, <3>2 DEF Led, Visible
    <3>4. OnCut(p, cut, j + 1, h)
      <4>1. h \in 1..Len(p) + 1 /\ h # Len(p) + 1 /\ cut[h] <= (j + 1) + 1 /\ (j + 1) + 1 <= cut[h + 1]
        BY <1>0, <2>0, <2>1, <2>10
      <4> QED
        BY <2>11, <4>1 DEF OnCut
    <3> QED
      BY <2>8, <3>3, <3>4
  <2>12. CASE p[h] # Glob
    <3>1. cut[h + 1] = cut[h] + 1 /\ Spells(p[h], path[cut[h]])
      BY <2>9, <2>12 DEF Covers
    <3>2. cut[h] = j + 1 /\ cut[h + 1] = (j + 1) + 1
      BY <2>0, <2>1, <2>10, <3>1
    <3>3. MatchesPatternSegment(p[h], path[j + 1])
      <4>1. p[h] \in Name /\ path[j + 1] \in Name
        BY <1>0, <2>0
      <4> QED
        BY <3>1, <3>2, <4>1, MatchesIsSpells
    <3>4. h + 1 \in Led(p, R[j], path[j + 1])
      BY <2>7, <2>12, <3>3 DEF Led
    <3>5. OnCut(p, cut, j + 1, h + 1)
      <4>1. h + 1 <= n => cut[(h + 1) + 1] \in 1..m + 1 /\ cut[h + 1] <= cut[(h + 1) + 1]
        <5>1. h + 1 <= n => h + 1 \in 1..n /\ (h + 1) + 1 \in 1..n + 1
          BY <1>0
        <5> QED
          BY <1>1, <1>5, <5>1
      <4> QED
        BY <2>4, <3>2, <4>1 DEF OnCut
    <3> QED
      BY <2>8, <3>4, <3>5
  <2> QED
    BY <2>11, <2>12
<1>8. \A j \in 0..k - 1 : j \in S => j + 1 \in S
  <2>1. \A j \in 0..k - 1 : j + 1 \in 0..k
    BY <1>0
  <2> HIDE DEF R
  <2> QED
    BY <1>7, <2>1
<1>9. \A j \in 0..k : j \in S
  <2> HIDE DEF S
  <2> QED
    BY <1>0, <1>6, <1>8, Upwards
<1>10. k \in S
  <2>1. k \in 0..k
    BY <1>0
  <2> HIDE DEF S
  <2> QED
    BY <1>9, <2>1
<1> QED
  BY <1>10

(* So a prefix of a path that a pattern names is let through, and one that *)
(* is shorter than the path strictly.                                      *)
LEMMA PrefixOfNamed ==
  ASSUME NEW p \in Pattern, NEW path \in Path, Names(p, path, Visible),
         NEW k \in 0..Len(path)
  PROVE  /\ PrefixCanMatch(p, SubSeq(path, 1, k))
         /\ k < Len(path) => PrefixCanMatchStrictly(p, SubSeq(path, 1, k))
<1> DEFINE pre == SubSeq(path, 1, k)
<1>0. Len(p) \in Nat /\ Len(path) \in Nat
  BY DEF Pattern, Path
<1>1. PICK cut : CutOf(p, path, Visible, cut)
  BY NamesIsRest DEF CutOf
<1>2. PICK i \in StatesOf(p, pre)[k] : OnCut(p, cut, k, i)
  BY <1>1, StatesKeepUp
<1>3. i \in 1..Len(p) + 1
  BY <1>2 DEF OnCut
<1>4. pre \in Path /\ Len(pre) = k
  BY DEF Path
<1>5. PrefixStates(p, pre) = CloseGlobstars(p, StatesOf(p, pre)[k])
  <2> HIDE DEF pre
  <2> QED
    BY <1>4, StatesSteps
<1>6. i \in PrefixStates(p, pre)
  <2>1. i <= i /\ i..i - 1 = {}
    BY <1>0, <1>3
  <2> HIDE DEF pre
  <2> QED
    BY <1>3, <1>5, <2>1 DEF CloseGlobstars
<1>7. ASSUME k < Len(path) PROVE i <= Len(p)
  <2>1. cut[Len(p) + 1] = Len(path) + 1
    BY <1>1 DEF CutOf, Cuts
  <2>2. i # Len(p) + 1
    BY <1>0, <1>2, <1>7, <2>1 DEF OnCut
  <2> QED
    BY <1>0, <1>3, <2>2
<1> HIDE DEF pre
<1> QED
  BY <1>6, <1>7 DEF PrefixCanMatch, PrefixCanMatchStrictly, pre

-----------------------------------------------------------------------------
(* Configurations: what is declared is matched and reached.                *)

(* What a configuration is read into.                                      *)
Rules == Seq([negative : BOOLEAN, segments : Pattern])

(* What is left of a text is a pattern.                                    *)
LEMMA TrimmedType ==
  ASSUME NEW segments \in Seq(Name)
  PROVE  Trimmed(segments) \in Pattern
<1> DEFINE bare == IF Len(segments) > 1 /\ segments[1] = <<".">>
                   THEN Tail(segments) ELSE segments
<1>1. bare \in Seq(Name)
  <2>1. Len(segments) > 1 => segments # <<>> /\ Tail(segments) \in Seq(Name)
    OBVIOUS
  <2> QED
    BY <2>1
<1>2. Len(bare) > 1 => SubSeq(bare, 1, Len(bare) - 1) \in Seq(Name)
  <2> HIDE DEF bare
  <2> QED
    BY <1>1
<1>3. Trimmed(segments) = IF Len(bare) > 1 /\ Last(bare) = <<>> THEN Front(bare) ELSE bare
  BY DEF Trimmed
<1> HIDE DEF bare
<1> QED
  BY <1>1, <1>2, <1>3 DEF Front, Pattern

(* A configuration that is not bad lists patterns.                         *)
LEMMA ParsedType ==
  ASSUME NEW texts \in Texts, Parsed(texts) # Bad
  PROVE  Parsed(texts) \in Rules
<1>1. /\ \A k \in 1..Len(texts) : Legal(texts[k])
      /\ Parsed(texts) = [k \in 1..Len(texts) |->
           [negative |-> texts[k].negative, segments |-> Trimmed(texts[k].segments)]]
  BY DEF Parsed
<1>2. \A k \in 1..Len(texts) : texts[k] \in [negative : BOOLEAN, segments : Seq(Name)]
  BY <1>1 DEF Texts, Legal
<1>3. ASSUME NEW k \in 1..Len(texts)
      PROVE  [negative |-> texts[k].negative, segments |-> Trimmed(texts[k].segments)]
               \in [negative : BOOLEAN, segments : Pattern]
  <2>1. texts[k].negative \in BOOLEAN /\ texts[k].segments \in Seq(Name)
    BY <1>2
  <2>2. Trimmed(texts[k].segments) \in Pattern
    BY <2>1, TrimmedType
  <2> QED
    BY <2>1, <2>2
<1>4. Len(texts) \in Nat
  BY DEF Texts
<1> QED
  BY <1>1, <1>3, <1>4 DEF Rules

(* So are the patterns of a configuration that is read without a fault.    *)
LEMMA ReadPatternsType ==
  ASSUME NEW config \in Configuration, ReadPatterns(config) # Bad
  PROVE  ReadPatterns(config) \in Rules
<1>1. config.pnpm \in Texts \cup {Absent, Bad} /\ config.workspaces \in Texts \cup {Absent, Bad}
  BY DEF Configuration
<1>2. <<>> \in Rules
  BY DEF Rules
<1>3. CASE config.pnpm = Absent /\ config.workspaces = Absent
  BY <1>2, <1>3 DEF ReadPatterns
<1>4. CASE config.pnpm = Absent /\ config.workspaces # Absent
  <2>1. config.workspaces # Bad /\ ReadPatterns(config) = Parsed(config.workspaces)
    BY <1>4 DEF ReadPatterns
  <2> QED
    BY <1>1, <1>4, <2>1, ParsedType
<1>5. CASE config.pnpm # Absent
  <2>1. config.pnpm # Bad /\ ReadPatterns(config) = Parsed(config.pnpm)
    BY <1>5 DEF ReadPatterns
  <2> QED
    BY <1>1, <1>5, <2>1, ParsedType
<1> QED
  BY <1>3, <1>4, <1>5

(* The positive and the negative rules hold patterns.                      *)
LEMMA RulesHavePatterns ==
  ASSUME NEW rules \in Rules
  PROVE  /\ Positive(rules) \subseteq Pattern /\ Negative(rules) \subseteq Pattern
         /\ rules = <<>> => Positive(rules) = {}
<1>1. ASSUME NEW k \in DOMAIN rules PROVE rules[k].segments \in Pattern
  <2> DEFINE Rule == [negative : BOOLEAN, segments : Pattern]
  <2>1. rules[k] \in Rule
    <3> HIDE DEF Rule
    <3>1. rules \in Seq(Rule)
      BY DEF Rules, Rule
    <3> QED
      BY <3>1
  <2> QED
    BY <2>1
<1> QED
  BY <1>1 DEF Positive, Negative

(* Ordinary names are visible.                                             *)
LEMMA OrdinaryIsVisible == Ordinary \subseteq Visible
  BY DEF Ordinary, Visible, ShouldIgnore

(* What is declared is matched.                                            *)
LEMMA DeclaredMatches ==
  ASSUME NEW rules \in Rules, NEW path \in Path, Declared(rules, path), Len(path) > 0
  PROVE  Matches(rules, path)
<1>0. Positive(rules) \subseteq Pattern /\ Negative(rules) \subseteq Pattern
  BY RulesHavePatterns
<1>1. PICK p \in Positive(rules) : Names(p, path, Ordinary)
  BY DEF Declared, Ordinary
<1>2. MatchesSegments(p, path)
  BY <1>0, <1>1, NamesAmongMore, OrdinaryIsVisible, MatchesIsNames
<1>3. ASSUME NEW q \in Negative(rules), MatchesSegments(q, path) PROVE FALSE
  <2>1. Names(q, path, Visible)
    BY <1>0, <1>3, MatchesIsNames
  <2>2. Len(path) \in 1..Len(path) /\ SubSeq(path, 1, Len(path)) = path
        /\ ~(Len(path) < Len(path))
    BY DEF Path
  <2> QED
    BY <2>1, <2>2 DEF Declared, Visible
<1> QED
  BY <1>2, <1>3 DEF Matches

(* And nothing that the walk leaves out is on the way to it: no rule cuts  *)
(* it off, and a name that is ignored otherwise is included by one.        *)
LEMMA DeclaredIsReached ==
  ASSUME NEW rules \in Rules, NEW path \in Path, Declared(rules, path), NEW k \in 1..Len(path)
  PROVE  /\ CouldContainMatch(rules, SubSeq(path, 1, k))
         /\ k < Len(path) => CouldContainStrictMatch(rules, SubSeq(path, 1, k))
         /\ ShouldIgnore(path[k]) => IsExplicitlyIncluded(rules, SubSeq(path, 1, k))
<1> DEFINE pre == SubSeq(path, 1, k)
<1>0. Positive(rules) \subseteq Pattern /\ Negative(rules) \subseteq Pattern
  BY RulesHavePatterns
<1>1. PICK p \in Positive(rules) : Names(p, path, Ordinary)
  BY DEF Declared, Ordinary
<1>2. pre \in Path /\ Len(pre) = k /\ pre[k] = path[k] /\ Len(path) \in Nat /\ k \in 0..Len(path)
      /\ path[k] \in Name
  BY DEF Path
<1>3. Names(p, path, Visible)
  BY <1>1, NamesAmongMore, OrdinaryIsVisible
<1>4. ~CutOff(rules, pre)
  <2> SUFFICES ASSUME NEW q \in Negative(rules), Open(q), MatchesSegments(q, pre) PROVE FALSE
    BY DEF CutOff
  <2>1. Names(q, pre, Visible)
    <3> HIDE DEF pre
    <3> QED
      BY <1>0, <1>2, MatchesIsNames
  <2> QED
    BY <2>1 DEF Declared, Visible
<1>5. PrefixCanMatch(p, pre) /\ (k < Len(path) => PrefixCanMatchStrictly(p, pre))
  BY <1>0, <1>2, <1>3, PrefixOfNamed
<1>6. ASSUME ShouldIgnore(path[k]) PROVE IsExplicitlyIncluded(rules, pre)
  <2>1. path[k] \notin Ordinary
    BY <1>6 DEF Ordinary
  <2>2. PICK i \in 1..Len(p) :
          /\ p[i] # Glob /\ Spells(p[i], path[k])
          /\ Names(SubSeq(p, 1, i), pre, Ordinary)
    BY <1>0, <1>1, <2>1, NamedByOne
  <2>3. p[i] \in Name /\ SubSeq(p, 1, i) \in Pattern
    BY <1>0 DEF Pattern
  <2>4. MatchesPatternSegment(p[i], path[k])
    BY <1>2, <2>2, <2>3, MatchesIsSpells
  <2>5. Names(SubSeq(p, 1, i), pre, Visible)
    BY <2>2, NamesAmongMore, OrdinaryIsVisible
  <2>6. MatchesSegments(SubSeq(p, 1, i), pre)
    <3> HIDE DEF pre
    <3> QED
      BY <1>2, <2>3, <2>5, MatchesIsNames
  <2>7. path[k] # NodeModules
    BY DEF Declared
  <2>8. Last(pre) = path[k]
    <3> HIDE DEF pre
    <3> QED
      BY <1>2 DEF Last
  <2> HIDE DEF pre
  <2> QED
    BY <2>2, <2>4, <2>6, <2>7, <2>8 DEF IsExplicitlyIncluded
<1> HIDE DEF pre
<1> QED
  BY <1>4, <1>5, <1>6 DEF CouldContainMatch, CouldContainStrictMatch, pre

(* Without a rule nothing is declared.                                     *)
LEMMA DeclaredByARule ==
  ASSUME NEW rules \in Rules, NEW path, Declared(rules, path)
  PROVE  rules # <<>>
  BY RulesHavePatterns DEF Declared

-----------------------------------------------------------------------------
(* The order in which candidates left over are taken up.                   *)

(* The order of the spilled candidates: every one has its own rank.        *)
Spills == (1..MaxCandidates) \X Roots
Rank(S, s) == Cardinality({t \in S : Sooner(t, s)})
FirstOf(S, n) == {s \in S : Rank(S, s) < n}

(* Sooner orders them totally, so their ranks differ.                      *)
LEMMA RanksDiffer ==
  ASSUME NEW S, S \subseteq Spills
  PROVE  /\ IsFiniteSet(S)
         /\ \A s \in S : Rank(S, s) \in Nat
         /\ \A s, t \in S : Sooner(s, t) => Rank(S, s) < Rank(S, t)
         /\ \A s, t \in S : s = t \/ Sooner(s, t) \/ Sooner(t, s)
<1>1. /\ Count \in Nat /\ Roots = 1..Count /\ MaxCandidates \in Nat
      /\ IsFiniteSet(1..MaxCandidates) /\ IsFiniteSet(Roots)
  BY CountIsNat, FS_Interval
<1>2. IsFiniteSet(Spills)
  BY <1>1, FS_Product DEF Spills
<1>3. IsFiniteSet(S)
  BY <1>2, FS_Subset
<1>4. \A s \in S : s[1] \in Nat /\ s[2] \in Nat /\ s = <<s[1], s[2]>>
  BY <1>1 DEF Spills
<1>5. ASSUME NEW s \in S PROVE IsFiniteSet({t \in S : Sooner(t, s)}) /\ Rank(S, s) \in Nat
  <2>1. {t \in S : Sooner(t, s)} \in SUBSET S
    OBVIOUS
  <2> QED
    BY <1>3, <2>1, FS_Subset, FS_CardinalityType DEF Rank
<1>6. ASSUME NEW s \in S, NEW t \in S, Sooner(s, t)
      PROVE  Rank(S, s) < Rank(S, t)
  <2> DEFINE A == {u \in S : Sooner(u, s)}
             B == {u \in S : Sooner(u, t)}
  <2>1. A \cup {s} \in SUBSET B
    <3>1. \A u \in S : Sooner(u, s) => Sooner(u, t)
      BY <1>4, <1>6 DEF Sooner
    <3> QED
      BY <1>6, <3>1
  <2>2. s \notin A
    BY <1>4 DEF Sooner
  <2>3. IsFiniteSet(A) /\ IsFiniteSet(B) /\ Cardinality(A) = Rank(S, s) /\ Cardinality(B) = Rank(S, t)
    BY <1>5 DEF Rank
  <2>4. Cardinality(A \cup {s}) = Cardinality(A) + 1 /\ Cardinality(A \cup {s}) <= Cardinality(B)
    <3> HIDE DEF A, B
    <3> QED
      BY <2>1, <2>2, <2>3, FS_AddElement, FS_Subset
  <2>5. Rank(S, s) \in Nat /\ Rank(S, t) \in Nat
    BY <1>5
  <2> HIDE DEF A, B
  <2> QED
    BY <2>3, <2>4, <2>5
<1>7. \A s, t \in S : s = t \/ Sooner(s, t) \/ Sooner(t, s)
  BY <1>4 DEF Sooner
<1> QED
  BY <1>3, <1>5, <1>6, <1>7

(* The first n are at most n, and n unless they are all there are.         *)
LEMMA FirstOnes ==
  ASSUME NEW S, S \subseteq Spills, NEW n \in Nat
  PROVE  /\ IsFiniteSet(FirstOf(S, n)) /\ Cardinality(FirstOf(S, n)) \in Nat
         /\ Cardinality(FirstOf(S, n)) <= n
         /\ FirstOf(S, n) # S => Cardinality(FirstOf(S, n)) = n
<1> DEFINE F == FirstOf(S, n)
<1>1. F \subseteq S /\ F \in SUBSET S /\ \A s \in F : Rank(S, s) \in 0..n - 1
  BY RanksDiffer DEF FirstOf
<1>2. IsFiniteSet(F) /\ Cardinality(F) \in Nat
  <2> HIDE DEF F
  <2> QED
    BY <1>1, RanksDiffer, FS_Subset, FS_CardinalityType
<1>3. Cardinality(F) <= n
  <2> DEFINE f == [s \in F |-> Rank(S, s)]
  <2>1. \A s, t \in F : Rank(S, s) = Rank(S, t) => s = t
    <3> SUFFICES ASSUME NEW s \in F, NEW t \in F, Rank(S, s) = Rank(S, t) PROVE s = t
      OBVIOUS
    <3>1. s \in S /\ t \in S /\ Rank(S, s) \in Nat
      BY <1>1, RanksDiffer
    <3>2. ~(Rank(S, s) < Rank(S, t)) /\ ~(Rank(S, t) < Rank(S, s))
      BY <3>1
    <3> QED
      BY <3>1, <3>2, RanksDiffer
  <2>2. f \in [F -> 0..n - 1] /\ \A s, t \in F : f[s] = f[t] => s = t
    BY <1>1, <2>1
  <2>3. f \in Injection(F, 0..n - 1)
    <3> HIDE DEF f, F
    <3> QED
      BY <2>2, Fun_IsInj
  <2>4. IsFiniteSet(0..n - 1) /\ Cardinality(0..n - 1) = n
    <3>1. IsFiniteSet(0..n - 1) /\ Cardinality(0..n - 1) = IF 0 > n - 1 THEN 0 ELSE n - 1 - 0 + 1
      BY FS_Interval
    <3> QED
      BY <3>1
  <2> HIDE DEF f, F
  <2> QED
    BY <2>3, <2>4, FS_Injection
<1>4. ASSUME F # S PROVE Cardinality(F) >= n
  <2> DEFINE T == {Rank(S, u) : u \in S \ F}
  <2>1. T \subseteq Nat /\ T # {}
    BY <1>1, <1>4, RanksDiffer
  <2>2. PICK m \in T : \A x \in T : m <= x
    <3> HIDE DEF T
    <3> QED
      BY <2>1, Least
  <2>3. PICK u \in S \ F : m = Rank(S, u)
    BY <2>2
  <2> DEFINE A == {t \in S : Sooner(t, u)}
  <2>4. A \in SUBSET F
    <3> SUFFICES ASSUME NEW t \in S, Sooner(t, u) PROVE t \in F
      OBVIOUS
    <3>1. Rank(S, t) < Rank(S, u) /\ Rank(S, t) \in Nat /\ Rank(S, u) \in Nat
      BY RanksDiffer
    <3>2. t \notin S \ F
      <4>1. t \in S \ F => Rank(S, t) \in T
        OBVIOUS
      <4> HIDE DEF T
      <4> QED
        BY <2>2, <2>3, <3>1, <4>1
    <3> QED
      BY <3>2
  <2>5. Cardinality(A) <= Cardinality(F)
    <3> HIDE DEF A, F
    <3> QED
      BY <1>2, <2>4, FS_Subset
  <2>6. Cardinality(A) = Rank(S, u) /\ Rank(S, u) \in Nat
    BY RanksDiffer DEF Rank
  <2>7. Rank(S, u) >= n
    BY <2>6 DEF FirstOf
  <2> HIDE DEF A, F
  <2> QED
    BY <1>2, <2>5, <2>6, <2>7
<1> HIDE DEF F
<1>5. F # S => Cardinality(F) = n
  BY <1>2, <1>3, <1>4
<1>6. F = FirstOf(S, n)
  BY DEF F
<1> QED
  BY <1>2, <1>3, <1>5, <1>6

-----------------------------------------------------------------------------
(* What consumeEntries keeps, and the way down to a directory.             *)

(* That a sequence holds a value.                                          *)
Holds(seq, x) == \E i \in DOMAIN seq : seq[i] = x

(* The directories kept of those that lead to a match.                     *)
KeptUpTo(r, d, entries, n) ==
  CHOOSE g : g = [k \in 0..n |->
    IF k = 0 THEN <<>>
    ELSE IF entries[k].kind = "directory" /\ Leads(r, d, entries[k])
    THEN Append(g[k - 1], Append(d, entries[k].name))
    ELSE g[k - 1]]

(* Kept holds exactly them, all from where the entries lead to.            *)
LEMMA KeptHolds ==
  ASSUME NEW r, NEW d, NEW entries \in Seq(Entry), NEW n \in 0..Len(entries), NEW V,
         \A k \in 1..n : entries[k].kind = "directory" => Append(d, entries[k].name) \in V
  PROVE  /\ Kept(r, d, entries, n) \in Seq(V)
         /\ \A k \in 1..n : (entries[k].kind = "directory" /\ Leads(r, d, entries[k])) =>
              Holds(Kept(r, d, entries, n), Append(d, entries[k].name))
<1> DEFINE Keeps(k) == entries[k].kind = "directory" /\ Leads(r, d, entries[k])
           child(k) == Append(d, entries[k].name)
           U == Seq(V)
           step == [k \in 1..n |-> [v \in U |-> IF Keeps(k) THEN Append(v, child(k)) ELSE v]]
           G(g) == [k \in 0..n |-> IF k = 0 THEN <<>>
                      ELSE IF Keeps(k) THEN Append(g[k - 1], child(k)) ELSE g[k - 1]]
           K == KeptUpTo(r, d, entries, n)
<1>0. n \in Nat /\ \A k \in 1..n : Keeps(k) => child(k) \in V
  OBVIOUS
<1>1. <<>> \in U /\ \A k \in 1..n : \A v \in U : step[k][v] \in U
  <2> HIDE DEF Keeps, child
  <2>1. \A k \in 1..n : \A v \in Seq(V) : Keeps(k) => Append(v, child(k)) \in Seq(V)
    BY <1>0
  <2> QED
    BY <2>1
<1>2. PICK g : IsRun(g, n, U, <<>>, step)
  <2> HIDE DEF U, step
  <2> QED
    BY <1>0, <1>1, StepByStep
<1>3. g \in [0..n -> U] /\ g[0] = <<>> /\ \A k \in 1..n : g[k] = step[k][g[k - 1]]
  <2> HIDE DEF U, step
  <2> QED
    BY <1>2 DEF IsRun
<1>4. \A k \in 1..n : k - 1 \in 0..n /\ g[k - 1] \in U /\ g[k] = IF Keeps(k) THEN Append(g[k - 1], child(k)) ELSE g[k - 1]
  <2> SUFFICES ASSUME NEW k \in 1..n
      PROVE k - 1 \in 0..n /\ g[k - 1] \in U /\ g[k] = IF Keeps(k) THEN Append(g[k - 1], child(k)) ELSE g[k - 1]
    OBVIOUS
  <2>1. k - 1 \in 0..n /\ g[k - 1] \in U /\ g[k] = step[k][g[k - 1]]
    <3> HIDE DEF U, step
    <3> QED
      BY <1>0, <1>3
  <2> HIDE DEF U, Keeps, child
  <2> QED
    BY <2>1
<1> HIDE DEF Keeps, child, U, step
<1>5. g = G(g)
  <2>1. \A k \in 0..n : g[k] = G(g)[k]
    <3> SUFFICES ASSUME NEW k \in 0..n PROVE g[k] = G(g)[k]
      OBVIOUS
    <3>1. k = 0 \/ k \in 1..n
      BY <1>0
    <3>2. G(g)[k] = IF k = 0 THEN <<>>
                    ELSE IF Keeps(k) THEN Append(g[k - 1], child(k)) ELSE g[k - 1]
      OBVIOUS
    <3>3. k \in 1..n => k # 0
      BY <1>0
    <3> HIDE DEF G
    <3> QED
      BY <1>3, <1>4, <3>1, <3>2, <3>3
  <2>2. DOMAIN g = 0..n /\ g = [k \in 0..n |-> g[k]]
    BY <1>3
  <2> QED
    BY <2>1, <2>2
<1>6. K = G(K)
  <2> USE DEF Keeps, child
  <2> QED
    BY <1>5 DEF KeptUpTo
<1>7. Kept(r, d, entries, n) = K[n]
  BY DEF Kept, KeptUpTo
<1> HIDE DEF K
<1> DEFINE S == {m \in 0..n : /\ K[m] \in Seq(V)
                              /\ \A k \in 1..m : Keeps(k) => \E i \in DOMAIN K[m] : K[m][i] = child(k)}
<1>8. 0 \in S
  <2>1. K[0] = <<>> /\ 1..0 = {}
    BY <1>0, <1>6
  <2>2. <<>> \in Seq(V) /\ 0 \in 0..n
    BY <1>0
  <2> QED
    BY <2>1, <2>2
<1>9. \A m \in 0..n - 1 : m \in S => m + 1 \in S
  <2> SUFFICES ASSUME NEW m \in 0..n - 1, m \in S PROVE m + 1 \in S
    OBVIOUS
  <2>1. K[m] \in Seq(V) /\ \A k \in 1..m : Keeps(k) => \E i \in DOMAIN K[m] : K[m][i] = child(k)
    OBVIOUS
  <2>2. m + 1 \in 0..n /\ m + 1 \in 1..n /\ m + 1 # 0 /\ m + 1 - 1 = m
    BY <1>0
  <2>3. K[m + 1] = IF Keeps(m + 1) THEN Append(K[m], child(m + 1)) ELSE K[m]
    <3>1. K[m + 1] = G(K)[m + 1]
      BY <1>6
    <3>2. G(K)[m + 1] = IF m + 1 = 0 THEN <<>>
                        ELSE IF Keeps(m + 1) THEN Append(K[m + 1 - 1], child(m + 1))
                        ELSE K[m + 1 - 1]
      BY <2>2
    <3> HIDE DEF S, G
    <3> QED
      BY <2>2, <3>1, <3>2
  <2> SUFFICES /\ K[m + 1] \in Seq(V)
               /\ \A k \in 1..m + 1 : Keeps(k) => \E i \in DOMAIN K[m + 1] : K[m + 1][i] = child(k)
    BY <2>2
  <2> HIDE DEF S
  <2>4. \A k \in 1..m + 1 : k \in 1..m \/ k = m + 1
    BY <2>2
  <2>5. CASE ~Keeps(m + 1)
    BY <2>1, <2>3, <2>4, <2>5
  <2>6. CASE Keeps(m + 1)
    <3> DEFINE L == Len(K[m])
    <3>1. K[m + 1] = Append(K[m], child(m + 1)) /\ child(m + 1) \in V
      BY <1>0, <2>2, <2>3, <2>6
    <3>2. /\ L \in Nat /\ DOMAIN K[m] = 1..L /\ DOMAIN K[m + 1] = 1..L + 1
          /\ K[m + 1] \in Seq(V) /\ K[m + 1][L + 1] = child(m + 1)
          /\ \A i \in 1..L : K[m + 1][i] = K[m][i]
      BY <2>1, <3>1
    <3> HIDE DEF L
    <3>3. \A i \in 1..L : i \in 1..L + 1
      BY <3>2
    <3>4. L + 1 \in 1..L + 1
      BY <3>2
    <3> QED
      BY <2>1, <2>4, <3>2, <3>3, <3>4
  <2> QED
    BY <2>5, <2>6
<1>10. \A m \in 0..n : m \in S
  <2> HIDE DEF S
  <2> QED
    BY <1>0, <1>8, <1>9, Upwards
<1>11. n \in S
  BY <1>0, <1>10
<1> QED
  BY <1>7, <1>11 DEF Keeps, child, Holds


(* From a root to each directory below it every directory lists the next.  *)
LEMMA TheWayDown ==
  ASSUME NEW t \in Trees, NEW r \in Roots, NEW d \in DOMAIN t.entries,
         IsPrefix(t.roots[r], d)
  PROVE  /\ d \in Path /\ t.roots[r] \in Path /\ Len(t.roots[r]) <= Len(d)
         /\ SubSeq(d, 1, Len(t.roots[r])) = t.roots[r] /\ SubSeq(d, 1, Len(d)) = d
         /\ \A k \in Len(t.roots[r])..Len(d) : SubSeq(d, 1, k) \in DOMAIN t.entries
         /\ \A k \in Len(t.roots[r])..Len(d) - 1 :
              /\ SubSeq(d, 1, k + 1) = Append(SubSeq(d, 1, k), d[k + 1])
              /\ \E j \in DOMAIN t.entries[SubSeq(d, 1, k)] :
                   t.entries[SubSeq(d, 1, k)][j] = [name |-> d[k + 1], kind |-> "directory"]
<1> DEFINE root == t.roots[r]
           m == Len(root)
           n == Len(d)
           D == DOMAIN t.entries
           Lists(e) == \E j \in DOMAIN t.entries[Front(e)] :
                         t.entries[Front(e)][j] = [name |-> Last(e), kind |-> "directory"]
<1>1. /\ D \subseteq Path /\ root \in D
      /\ \A e \in D : (IsPrefix(root, e) /\ e # root) => Front(e) \in D /\ Lists(e)
  BY ScanAssumption DEF Grown
<1> HIDE DEF Lists
<1>2. d \in Path /\ root \in Path /\ n \in Nat /\ m \in Nat
  BY <1>1 DEF Path
<1>3. m <= n /\ \A i \in 1..m : root[i] = d[i]
  <2>1. m <= n /\ SubSeq(root, 1, m) = SubSeq(d, 1, m)
    BY <1>2 DEF IsPrefix, Path
  <2>2. \A i \in 1..m : SubSeq(root, 1, m)[i] = root[i] /\ SubSeq(d, 1, m)[i] = d[i]
    BY <1>2, <2>1 DEF Path
  <2> QED
    BY <2>1, <2>2
<1>4. SubSeq(d, 1, m) = root /\ SubSeq(d, 1, n) = d
  BY <1>2, <1>3 DEF Path
<1> DEFINE S == {k \in Int : SubSeq(d, 1, k) \in D}
<1>5. ASSUME NEW k \in m..n - 1
      PROVE  LET e == SubSeq(d, 1, k + 1) IN
             /\ e = Append(SubSeq(d, 1, k), d[k + 1])
             /\ IsPrefix(root, e) /\ e # root
             /\ Front(e) = SubSeq(d, 1, k) /\ Last(e) = d[k + 1]
  <2> DEFINE e == SubSeq(d, 1, k + 1)
  <2>0. k \in Nat /\ k + 1 \in 1..n /\ k + 1 \in Nat /\ m <= k
    BY <1>2
  <2>1. e \in Path /\ Len(e) = k + 1 /\ \A i \in 1..k + 1 : e[i] = d[i]
    BY <1>2, <2>0 DEF Path
  <2>2. e = Append(SubSeq(d, 1, k), d[k + 1])
    BY <1>2, <2>0 DEF Path
  <2>3. e # root
    BY <1>2, <2>0, <2>1
  <2> HIDE DEF e
  <2>4. IsPrefix(root, e)
    <3>1. m <= Len(e)
      BY <1>2, <2>0, <2>1
    <3>2. SubSeq(root, 1, m) = SubSeq(e, 1, m)
      <4>1. SubSeq(e, 1, m) \in Path /\ Len(SubSeq(e, 1, m)) = m
            /\ \A i \in 1..m : SubSeq(e, 1, m)[i] = e[i]
        BY <1>2, <2>1, <3>1 DEF Path
      <4>2. SubSeq(root, 1, m) \in Path /\ Len(SubSeq(root, 1, m)) = m
            /\ \A i \in 1..m : SubSeq(root, 1, m)[i] = root[i]
        BY <1>2 DEF Path
      <4>3. \A i \in 1..m : e[i] = root[i]
        <5>1. \A i \in 1..m : i \in 1..k + 1
          BY <1>2, <2>0
        <5> QED
          BY <1>3, <2>1, <5>1
      <4>4. \A i \in 1..m : SubSeq(root, 1, m)[i] = SubSeq(e, 1, m)[i]
        BY <4>1, <4>2, <4>3
      <4> QED
        BY <1>2, <4>1, <4>2, <4>4 DEF Path
    <3> QED
      BY <3>1, <3>2 DEF IsPrefix
  <2>5. Front(e) = SubSeq(d, 1, k)
    <3>1. Front(e) = SubSeq(e, 1, k)
      BY <2>0, <2>1 DEF Front
    <3>2. SubSeq(e, 1, k) \in Path /\ Len(SubSeq(e, 1, k)) = k
          /\ \A i \in 1..k : SubSeq(e, 1, k)[i] = e[i]
      BY <2>0, <2>1 DEF Path
    <3>3. SubSeq(d, 1, k) \in Path /\ Len(SubSeq(d, 1, k)) = k
          /\ \A i \in 1..k : SubSeq(d, 1, k)[i] = d[i]
      BY <1>2, <2>0 DEF Path
    <3>4. \A i \in 1..k : e[i] = d[i]
      <4>1. \A i \in 1..k : i \in 1..k + 1
        BY <2>0
      <4> QED
        BY <2>1, <4>1
    <3>5. \A i \in 1..k : SubSeq(e, 1, k)[i] = SubSeq(d, 1, k)[i]
      BY <3>2, <3>3, <3>4
    <3>6. SubSeq(e, 1, k) = SubSeq(d, 1, k)
      BY <2>0, <3>2, <3>3, <3>5 DEF Path
    <3> QED
      BY <3>1, <3>6
  <2>6. Last(e) = d[k + 1]
    <3>1. k + 1 \in 1..k + 1
      BY <2>0
    <3> QED
      BY <2>1, <3>1 DEF Last
  <2> QED
    BY <2>2, <2>3, <2>4, <2>5, <2>6 DEF e
<1>6. n \in S
  <2>1. d \in D /\ n \in Int
    BY <1>2
  <2>2. SubSeq(d, 1, n) \in D
    <3> HIDE DEF n, D
    <3> QED
      BY <1>4, <2>1
  <2> QED
    BY <2>1, <2>2
<1>7. \A k \in m..n - 1 : k + 1 \in S => k \in S
  <2> SUFFICES ASSUME NEW k \in m..n - 1, SubSeq(d, 1, k + 1) \in D PROVE SubSeq(d, 1, k) \in D
    BY <1>2
  <2> HIDE DEF D, m, n, root
  <2> QED
    BY <1>1, <1>5
<1>8. \A k \in m..n : SubSeq(d, 1, k) \in D
  <2>1. \A k \in m..n : k \in S
    <3> HIDE DEF S, m, n
    <3> QED
      BY <1>2, <1>6, <1>7, Downwards
  <2> QED
    BY <2>1
<1>9. ASSUME NEW k \in m..n - 1
      PROVE  /\ SubSeq(d, 1, k + 1) = Append(SubSeq(d, 1, k), d[k + 1])
             /\ \E j \in DOMAIN t.entries[SubSeq(d, 1, k)] :
                  t.entries[SubSeq(d, 1, k)][j] = [name |-> d[k + 1], kind |-> "directory"]
  <2>0. k + 1 \in m..n
    BY <1>2
  <2>1. SubSeq(d, 1, k + 1) \in D
    <3> HIDE DEF m, n, D
    <3> QED
      BY <1>8, <2>0
  <2>2. Lists(SubSeq(d, 1, k + 1))
    <3> HIDE DEF m, n, D, root
    <3> QED
      BY <1>1, <1>5, <2>1
  <2>3. Front(SubSeq(d, 1, k + 1)) = SubSeq(d, 1, k) /\ Last(SubSeq(d, 1, k + 1)) = d[k + 1]
        /\ SubSeq(d, 1, k + 1) = Append(SubSeq(d, 1, k), d[k + 1])
    <3> HIDE DEF m, n, root
    <3> QED
      BY <1>5
  <2> QED
    BY <2>2, <2>3 DEF Lists
<1> QED
  BY <1>2, <1>3, <1>4, <1>8, <1>9

-----------------------------------------------------------------------------
(* What waits.                                                             *)

(* What is in a sequence, its tail and a concatenation.                    *)
LEMMA InConcat ==
  ASSUME NEW V, NEW a \in Seq(V), NEW b \in Seq(V)
  PROVE  /\ a \o b \in Seq(V)
         /\ \A i \in DOMAIN a : \E l \in DOMAIN (a \o b) : (a \o b)[l] = a[i]
         /\ \A i \in DOMAIN b : \E l \in DOMAIN (a \o b) : (a \o b)[l] = b[i]
<1>1. a \o b \in Seq(V)
  OBVIOUS
<1>2. ASSUME NEW i \in DOMAIN a PROVE i \in DOMAIN (a \o b) /\ (a \o b)[i] = a[i]
  OBVIOUS
<1>3. ASSUME NEW i \in DOMAIN b PROVE Len(a) + i \in DOMAIN (a \o b) /\ (a \o b)[Len(a) + i] = b[i]
  OBVIOUS
<1> QED
  BY <1>1, <1>2, <1>3

(* What a sequence holds is its head or in its tail.                       *)
LEMMA InTail ==
  ASSUME NEW V, NEW a \in Seq(V), a # <<>>
  PROVE  /\ Head(a) \in V /\ Tail(a) \in Seq(V)
         /\ \A i \in DOMAIN a : a[i] = Head(a) \/ \E l \in DOMAIN Tail(a) : Tail(a)[l] = a[i]
<1>1. Head(a) \in V /\ Tail(a) \in Seq(V) /\ Head(a) = a[1] /\ Len(a) \in Nat
  OBVIOUS
<1>2. ASSUME NEW i \in DOMAIN a, i # 1
      PROVE  i - 1 \in DOMAIN Tail(a) /\ Tail(a)[i - 1] = a[i]
  <2>1. i \in 1..Len(a) /\ i - 1 \in 1..Len(a) - 1 /\ i - 1 + 1 = i
    BY <1>2
  <2>2. DOMAIN Tail(a) = 1..Len(a) - 1 /\ \A x \in 1..Len(a) - 1 : Tail(a)[x] = a[x + 1]
    OBVIOUS
  <2> QED
    BY <2>1, <2>2
<1> QED
  BY <1>1, <1>2

(* The middle of a path.                                                   *)
LEMMA Middle ==
  ASSUME NEW s \in Path, NEW a \in Nat, NEW z \in Nat, a <= z, z <= Len(s)
  PROVE  /\ SubSeq(s, a + 1, z) \in Path /\ Len(SubSeq(s, a + 1, z)) = z - a
         /\ \A i \in 1..z - a : SubSeq(s, a + 1, z)[i] = s[a + i]
<1>1. s \in Seq(Name) /\ Len(s) \in Nat
  BY DEF Path
<1>2. SubSeq(s, a + 1, z) = [i \in 1..z - a |-> s[i + a]]
  BY <1>1
<1>3. \A i \in 1..z - a : i + a = a + i /\ a + i \in 1..Len(s) /\ s[a + i] \in Name
  BY <1>1
<1>4. SubSeq(s, a + 1, z) \in Seq(Name) /\ z - a \in Nat
  BY <1>1, <1>2, <1>3
<1> QED
  BY <1>2, <1>3, <1>4 DEF Path

(* What is below a root of a prefix is a prefix of what is below it.       *)
LEMMA MiddleOfPrefix ==
  ASSUME NEW t \in Path, NEW m \in Nat, NEW k \in Nat, m <= k, k <= Len(t)
  PROVE  SubSeq(SubSeq(t, 1, k), m + 1, Len(SubSeq(t, 1, k)))
           = SubSeq(SubSeq(t, m + 1, Len(t)), 1, k - m)
<1> DEFINE s == SubSeq(t, 1, k)
           b == SubSeq(t, m + 1, Len(t))
           u == SubSeq(s, m + 1, k)
           v == SubSeq(b, 1, k - m)
<1>1. Len(t) \in Nat /\ k - m \in Nat /\ 0 <= k - m /\ 0 + 1 = 1 /\ k - 0 = k /\ 0 \in Nat
  BY DEF Path
<1>2. s \in Path /\ Len(s) = k /\ \A i \in 1..k : s[i] = t[i]
  BY <1>1, Middle
<1>3. b \in Path /\ Len(b) = Len(t) - m /\ \A i \in 1..Len(t) - m : b[i] = t[m + i]
  BY <1>1, Middle
<1> HIDE DEF s, b
<1>4. u \in Path /\ Len(u) = k - m /\ \A i \in 1..k - m : u[i] = s[m + i]
  BY <1>1, <1>2, Middle
<1>5. v \in Path /\ Len(v) = k - m /\ \A i \in 1..k - m : v[i] = b[i]
  <2>1. k - m <= Len(b) /\ (k - m) - 0 = k - m
    BY <1>1, <1>3
  <2>2. ASSUME NEW c \in Nat, c <= Len(b)
        PROVE  /\ SubSeq(b, 1, c) \in Path /\ Len(SubSeq(b, 1, c)) = c
               /\ \A i \in 1..c : SubSeq(b, 1, c)[i] = b[i]
    BY <1>3, <2>2, Middle DEF Path
  <2> QED
    BY <1>1, <2>1, <2>2
<1>6. \A i \in 1..k - m : u[i] = v[i]
  <2> SUFFICES ASSUME NEW i \in 1..k - m PROVE u[i] = v[i]
    OBVIOUS
  <2>1. m + i \in 1..k /\ i \in 1..Len(t) - m
    BY <1>1
  <2> QED
    BY <1>2, <1>3, <1>4, <1>5, <2>1
<1> HIDE DEF u, v
<1>7. u = v
  BY <1>1, <1>4, <1>5, <1>6 DEF Path
<1> QED
  BY <1>2, <1>7 DEF u, v, s, b


(* Continuations keep entries of the directory they are kept for.          *)
HeldBack ==
  {c \in Continuation :
     \A k \in DOMAIN c.entries : c.entries[k].kind = "directory" =>
       Append(c.dir, c.entries[k].name) \in DOMAIN tree.entries}

(* The type invariant, with what the steps need of types: continuations,   *)
(* patterns and found candidates in full.                                  *)
Typed ==
  /\ tree \in Trees
  /\ patterns \in [Roots -> Rules]
  /\ queue \in [Roots -> Seq(DOMAIN tree.entries)]
  /\ continuations \in [Roots -> Seq(HeldBack)]
  /\ limit \in Counts /\ visited \in Counts /\ accepted \in Counts
  /\ overflow \in [Roots -> Seq(tree.plugins)]
  /\ \A r \in Roots : Len(overflow[r]) <= MaxCandidates
  /\ candidates \subseteq DOMAIN discovering /\ IsFiniteSet(candidates)
  /\ DOMAIN discovering \subseteq tree.plugins
  /\ \A d \in DOMAIN discovering : discovering[d] \in (SUBSET Roots) \ {{}}
  /\ diagnosed \subseteq Roots
  /\ exhausted \in BOOLEAN
  /\ turns \subseteq Roots
  /\ phase \in {"read", "share", "borrow", "done"}
  /\ before \in Nat

(* A plugin waits while a directory above it is queued, or put off with    *)
(* the entry that leads to it.                                             *)
Queued(root, t, q) ==
  \E i \in DOMAIN q : \E k \in Len(root)..Len(t) : q[i] = SubSeq(t, 1, k)
Held(root, t, c) ==
  \E k \in Len(root)..Len(t) - 1 :
    /\ c.dir = SubSeq(t, 1, k)
    /\ \/ c.kind = "children"
       \/ \E j \in DOMAIN c.entries : c.entries[j] = [name |-> t[k + 1], kind |-> "directory"]
HeldIn(root, t, cs) == \E i \in DOMAIN cs : Held(root, t, cs[i])
Waits(r, t) == Queued(tree.roots[r], t, queue[r]) \/ HeldIn(tree.roots[r], t, continuations[r])

(* A root looks for what it offers: it inspects the directories above, and *)
(* follows the entries that lead down.                                     *)
LEMMA OffersLead ==
  ASSUME tree \in Trees, patterns \in [Roots -> Rules],
         NEW r \in Roots, NEW t \in DOMAIN tree.entries, Offers(r, t),
         patterns[r] = ReadPatterns(tree.config[r])
  PROVE  /\ Wanted(r, t)
         /\ \A k \in Len(tree.roots[r])..Len(t) - 1 :
              /\ Descends(r, SubSeq(t, 1, k))
              /\ Leads(r, SubSeq(t, 1, k), [name |-> t[k + 1], kind |-> "directory"])
<1> DEFINE root == tree.roots[r]
           m == Len(root)
           n == Len(t)
           b == Below(r, t)
           rules == patterns[r]
<1>1. /\ t \in Path /\ root \in Path /\ m \in Nat /\ n \in Nat /\ m <= n
      /\ SubSeq(t, 1, m) = root /\ SubSeq(t, 1, n) = t
      /\ \A k \in m..n - 1 : SubSeq(t, 1, k + 1) = Append(SubSeq(t, 1, k), t[k + 1])
  <2>1. IsPrefix(root, t)
    BY DEF Offers
  <2> QED
    BY <2>1, TheWayDown DEF Path
<1>2. b \in Path /\ Len(b) = n - m /\ \A i \in 1..n - m : b[i] = t[m + i]
  <2>1. b = SubSeq(t, m + 1, n)
    BY DEF Below
  <2> HIDE DEF b, m
  <2>2. n <= Len(t)
    BY <1>1
  <2> HIDE DEF n
  <2> QED
    BY <1>1, <2>1, <2>2, Middle
<1>3. \A k \in m..n : Below(r, SubSeq(t, 1, k)) = SubSeq(b, 1, k - m)
  <2> SUFFICES ASSUME NEW k \in m..n PROVE Below(r, SubSeq(t, 1, k)) = SubSeq(b, 1, k - m)
    OBVIOUS
  <2>1. k \in Nat /\ m <= k /\ k <= n
    BY <1>1
  <2> HIDE DEF m
  <2> QED
    BY <1>1, <2>1, MiddleOfPrefix DEF Below, m
<1>4. t # root <=> m < n
  BY <1>1
<1>5. rules \in Rules /\ (t # root => Declared(rules, b)) /\ t \in tree.plugins
  BY DEF Offers
<1> HIDE DEF b, m, n, rules, root
<1>6. Wanted(r, t)
  <2>1. CASE t = root
    BY <1>5, <2>1 DEF Wanted, Matched, root
  <2>2. CASE t # root
    <3>1. Len(b) > 0
      BY <1>1, <1>2, <1>4, <2>2
    <3>2. Matches(rules, b)
      BY <1>2, <1>5, <2>2, <3>1, DeclaredMatches
    <3> QED
      BY <1>5, <3>2 DEF Wanted, Matched, b, rules
  <2> QED
    BY <2>1, <2>2
<1>7. ASSUME NEW k \in m..n - 1
      PROVE  /\ Descends(r, SubSeq(t, 1, k))
             /\ Leads(r, SubSeq(t, 1, k), [name |-> t[k + 1], kind |-> "directory"])
  <2>1. /\ k \in m..n /\ k + 1 \in m..n /\ (k + 1) - m \in 1..Len(b) /\ k + 1 \in Nat
        /\ k - m < Len(b) /\ m + ((k + 1) - m) = k + 1 /\ m < n
    BY <1>1, <1>2
  <2>2. t # root /\ Declared(rules, b)
    BY <1>4, <1>5, <2>1
  <2>3. rules # <<>>
    BY <1>5, <2>2, DeclaredByARule
  <2>4. Descends(r, SubSeq(t, 1, k))
    <3> DEFINE d == SubSeq(t, 1, k)
    <3>1. CASE k = m
      <4>1. d = root
        BY <1>1, <3>1
      <4> QED
        BY <2>3, <4>1 DEF Descends, rules, root
    <3>2. CASE k # m
      <4>1. k - m \in 1..Len(b)
        BY <1>1, <1>2, <3>2
      <4>2. CouldContainStrictMatch(rules, SubSeq(b, 1, k - m))
        BY <1>2, <1>5, <2>1, <2>2, <4>1, DeclaredIsReached
      <4>3. CouldContainStrictMatch(rules, Below(r, d))
        BY <1>3, <2>1, <4>2
      <4> HIDE DEF d
      <4>4. Descends(r, d)
        BY <2>3, <4>3 DEF Descends, rules
      <4> QED
        BY <4>4 DEF d
    <3> QED
      BY <3>1, <3>2
  <2>5. Leads(r, SubSeq(t, 1, k), [name |-> t[k + 1], kind |-> "directory"])
    <3> DEFINE e == [name |-> t[k + 1], kind |-> "directory"]
               x == SubSeq(b, 1, (k + 1) - m)
    <3>1. e.name = t[k + 1]
      OBVIOUS
    <3>2. Below(r, Append(SubSeq(t, 1, k), e.name)) = x
      <4>1. Append(SubSeq(t, 1, k), e.name) = SubSeq(t, 1, k + 1)
        BY <1>1, <3>1
      <4>2. ASSUME NEW c \in m..n PROVE Below(r, SubSeq(t, 1, c)) = SubSeq(b, 1, c - m)
        BY <1>3
      <4>3. k + 1 \in m..n
        BY <2>1
      <4>4. Below(r, SubSeq(t, 1, k + 1)) = SubSeq(b, 1, (k + 1) - m)
        BY <4>2, <4>3
      <4> QED
        BY <4>1, <4>4
    <3>3. b[(k + 1) - m] = t[k + 1]
      BY <1>2, <2>1
    <3>4. /\ CouldContainMatch(rules, x)
          /\ ShouldIgnore(t[k + 1]) => IsExplicitlyIncluded(rules, x)
      BY <1>2, <1>5, <2>1, <2>2, <3>3, DeclaredIsReached
    <3> HIDE DEF e, x
    <3>5. Leads(r, SubSeq(t, 1, k), e)
      BY <3>1, <3>2, <3>4 DEF Leads, Passes, rules
    <3> QED
      BY <3>5 DEF e
  <2> QED
    BY <2>4, <2>5
<1> QED
  BY <1>6, <1>7 DEF m, n, root

(* The entries of a directory, or the last of them.                        *)
Fits(d, entries) ==
  /\ entries \in Seq(Entry)
  /\ \A k \in DOMAIN entries : entries[k].kind = "directory" =>
       Append(d, entries[k].name) \in DOMAIN tree.entries

(* What is listed of a directory fits it.                                  *)
LEMMA ListedFits ==
  ASSUME tree \in Trees, NEW d \in DOMAIN tree.entries
  PROVE  Fits(d, Listed(d)) /\ Fits(d, tree.entries[d])
<1>1. Fits(d, tree.entries[d])
  BY ScanAssumption DEF Grown, Fits
<1>2. Fits(d, <<>>)
  BY DEF Fits
<1> QED
  BY <1>1, <1>2 DEF Listed

(* What is put off fits the directory it is put off for.                   *)
LEMMA HeldBackFields ==
  ASSUME NEW c \in HeldBack
  PROVE  c.dir \in DOMAIN tree.entries /\ c.kind \in {"entries", "children"} /\ Fits(c.dir, c.entries)
BY DEF HeldBack, Continuation, Fits

(* What is put off of the entries, from n + 1 on.                          *)
PutOff(d, entries, n) ==
  [kind |-> "entries", dir |-> d, entries |-> SubSeq(entries, n + 1, Len(entries))]

(* The entries put off are the others.                                     *)
LEMMA PutOffFits ==
  ASSUME NEW d \in DOMAIN tree.entries, NEW entries, Fits(d, entries), NEW n \in 0..Len(entries)
  PROVE  /\ PutOff(d, entries, n) \in HeldBack
         /\ PutOff(d, entries, n).kind = "entries" /\ PutOff(d, entries, n).dir = d
         /\ \A k \in n + 1..Len(entries) : Holds(PutOff(d, entries, n).entries, entries[k])
<1> DEFINE s == SubSeq(entries, n + 1, Len(entries))
           c == [kind |-> "entries", dir |-> d, entries |-> s]
<1>1. entries \in Seq(Entry) /\ Len(entries) \in Nat /\ n \in Nat /\ DOMAIN entries = 1..Len(entries)
  BY DEF Fits
<1>2. /\ s \in Seq(Entry) /\ DOMAIN s = 1..Len(entries) - n
      /\ \A i \in 1..Len(entries) - n : s[i] = entries[n + i]
  BY <1>1
<1>3. \A i \in DOMAIN s : n + i \in DOMAIN entries /\ s[i] = entries[n + i]
  BY <1>1, <1>2
<1>4. \A i \in DOMAIN s : s[i].kind = "directory" => Append(d, s[i].name) \in DOMAIN tree.entries
  <2> HIDE DEF s
  <2> QED
    BY <1>3 DEF Fits
<1>5. \A k \in n + 1..Len(entries) : Holds(s, entries[k])
  <2> SUFFICES ASSUME NEW k \in n + 1..Len(entries) PROVE \E j \in DOMAIN s : s[j] = entries[k]
    BY DEF Holds
  <2>1. k - n \in 1..Len(entries) - n /\ n + (k - n) = k
    BY <1>1
  <2> HIDE DEF s
  <2> QED
    BY <1>2, <2>1
<1> HIDE DEF s
<1>6. c.kind = "entries" /\ c.dir = d /\ c.entries = s
  OBVIOUS
<1>7. c \in Continuation
  BY <1>2 DEF Continuation
<1> HIDE DEF c
<1>8. c \in HeldBack
  BY <1>4, <1>6, <1>7 DEF HeldBack
<1>9. c = PutOff(d, entries, n)
  BY DEF c, s, PutOff
<1> QED
  BY <1>5, <1>6, <1>8, <1>9


(* What a step of a root's turn may do to its lists and its budget.        *)
Charges(r) ==
  /\ queue' \in [Roots -> Seq(DOMAIN tree.entries)]
  /\ continuations' \in [Roots -> Seq(HeldBack)]
  /\ visited' \in Counts
  /\ \A s \in Roots \ {r} : /\ queue'[s] = queue[s] /\ continuations'[s] = continuations[s]
                            /\ visited'[s] = visited[s]
  /\ visited[r] <= visited'[r] /\ visited'[r] <= limit[r]
  /\ continuations'[r] # <<>> =>
       visited'[r] = limit[r] \/ (continuations[r] # <<>> /\ visited[r] < limit[r])
  /\ diagnosed' \in {diagnosed, diagnosed \cup {r}}

(* Consuming entries only charges the root: a rest is put off when the     *)
(* limit is reached.                                                       *)
LEMMA ConsumeCharges ==
  ASSUME Typed, NEW r \in Roots, NEW d \in DOMAIN tree.entries, NEW entries, Fits(d, entries),
         NEW waiting \in Seq(DOMAIN tree.entries), NEW rest \in Seq(HeldBack), NEW ill,
         visited[r] < limit[r], rest # <<>> => continuations[r] # <<>>,
         Consume(r, d, entries, waiting, rest, ill)
  PROVE  Charges(r)
<1> DEFINE n == Charged(r, entries)
           D == DOMAIN tree.entries
           c == PutOff(d, entries, n)
           kept == Kept(r, d, entries, n)
           held == IF n = Len(entries) THEN rest ELSE <<c>> \o rest
<1>1. /\ limit \in Counts /\ visited \in Counts /\ queue \in [Roots -> Seq(D)]
      /\ continuations \in [Roots -> Seq(HeldBack)] /\ entries \in Seq(Entry)
  BY DEF Typed, Fits
<1>2. /\ limit[r] \in Nat /\ visited[r] \in Nat /\ Len(entries) \in Nat
      /\ DOMAIN entries = 1..Len(entries)
  BY <1>1 DEF Counts
<1>3. /\ n \in 0..Len(entries) /\ n \in Nat /\ visited[r] + n \in Nat
      /\ visited[r] <= visited[r] + n /\ visited[r] + n <= limit[r]
      /\ (n # Len(entries) => visited[r] + n = limit[r])
  BY <1>2 DEF Charged, Lower
<1>4. kept \in Seq(D)
  <2>1. \A k \in 1..n : entries[k].kind = "directory" => Append(d, entries[k].name) \in D
    BY <1>2, <1>3 DEF Fits
  <2> HIDE DEF n, D
  <2> QED
    BY <1>1, <1>3, <2>1, KeptHolds
<1>5. c \in HeldBack
  <2> HIDE DEF n
  <2> QED
    BY <1>3, PutOffFits
<1>6. held \in Seq(HeldBack)
  <2> HIDE DEF c, n
  <2> QED
    BY <1>5
<1>7. /\ visited' = [visited EXCEPT ![r] = visited[r] + n]
      /\ queue' = [queue EXCEPT ![r] = waiting \o kept]
      /\ continuations' = [continuations EXCEPT ![r] = held]
      /\ diagnosed' \in {diagnosed, diagnosed \cup {r}}
  BY DEF Consume, Report, PutOff
<1> HIDE DEF n, kept, held, c, D
<1>8. visited' \in Counts /\ visited'[r] = visited[r] + n
  <2>1. visited[r] + n \in Nat
    BY <1>3
  <2> QED
    BY <1>1, <1>7, <2>1 DEF Counts
<1>9. waiting \o kept \in Seq(D)
  BY <1>4 DEF D
<1>10. /\ queue' \in [Roots -> Seq(D)] /\ continuations' \in [Roots -> Seq(HeldBack)]
       /\ continuations'[r] = held
  BY <1>1, <1>6, <1>7, <1>9
<1>11. \A s \in Roots \ {r} : /\ queue'[s] = queue[s] /\ continuations'[s] = continuations[s]
                              /\ visited'[s] = visited[s]
  BY <1>1, <1>7 DEF Counts
<1>12. held # <<>> => visited[r] + n = limit[r] \/ (continuations[r] # <<>> /\ visited[r] < limit[r])
  BY <1>3 DEF held
<1>13. visited[r] <= visited'[r] /\ visited'[r] <= limit[r]
  <2>1. visited[r] <= visited[r] + n /\ visited[r] + n <= limit[r]
    BY <1>3
  <2>2. visited'[r] = visited[r] + n
    BY <1>8
  <2> QED
    BY <2>1, <2>2
<1> QED
  BY <1>7, <1>8, <1>10, <1>11, <1>12, <1>13 DEF Charges, D

(* So it does when matching runs out of work.                              *)
LEMMA ExhaustCharges ==
  ASSUME Typed, NEW r \in Roots, NEW d \in DOMAIN tree.entries, NEW entries, Fits(d, entries),
         NEW waiting \in Seq(DOMAIN tree.entries), NEW rest \in Seq(HeldBack),
         visited[r] < limit[r], rest # <<>> => continuations[r] # <<>>,
         ConsumeUntilExhausted(r, d, entries, waiting, rest)
  PROVE  Charges(r)
<1> DEFINE D == DOMAIN tree.entries
<1>1. /\ limit \in Counts /\ visited \in Counts /\ queue \in [Roots -> Seq(D)]
      /\ continuations \in [Roots -> Seq(HeldBack)] /\ entries \in Seq(Entry)
  BY DEF Typed, Fits
<1>2. /\ limit[r] \in Nat /\ visited[r] \in Nat /\ Len(entries) \in Nat
      /\ DOMAIN entries = 1..Len(entries)
  BY <1>1 DEF Counts
<1>3. PICK n \in 1..Charged(r, entries) :
        /\ visited' = [visited EXCEPT ![r] = visited[r] + n]
        /\ queue' = [queue EXCEPT ![r] = waiting \o Kept(r, d, entries, n - 1)]
  BY DEF ConsumeUntilExhausted
<1>4. /\ n \in Nat /\ n - 1 \in 0..Len(entries) /\ n <= Len(entries) /\ visited[r] + n <= limit[r]
  BY <1>2 DEF Charged, Lower
<1>5. Kept(r, d, entries, n - 1) \in Seq(D)
  <2> DEFINE l == n - 1
  <2>0. l \in 0..Len(entries) /\ l <= Len(entries)
    BY <1>2, <1>4
  <2> HIDE DEF l
  <2>1. \A k \in 1..l : entries[k].kind = "directory" => Append(d, entries[k].name) \in D
    BY <1>2, <2>0 DEF Fits
  <2> HIDE DEF D
  <2>2. Kept(r, d, entries, l) \in Seq(D)
    BY <1>1, <2>0, <2>1, KeptHolds
  <2> QED
    BY <2>2 DEF l
<1>6. continuations' = [continuations EXCEPT ![r] = rest]
      /\ diagnosed' = diagnosed \cup {r}
  BY DEF ConsumeUntilExhausted, Diagnose, Report
<1> DEFINE kept == Kept(r, d, entries, n - 1)
<1> HIDE DEF kept, D
<1>8. visited' \in Counts /\ visited'[r] = visited[r] + n
  BY <1>1, <1>2, <1>3, <1>4 DEF Counts
<1>9. waiting \o kept \in Seq(D)
  <2>1. kept \in Seq(D) /\ waiting \in Seq(D)
    BY <1>5 DEF D, kept
  <2> QED
    BY <2>1
<1>10. /\ queue' \in [Roots -> Seq(D)] /\ continuations' \in [Roots -> Seq(HeldBack)]
       /\ continuations'[r] = rest
  BY <1>1, <1>3, <1>6, <1>9 DEF kept
<1>11. \A s \in Roots \ {r} : /\ queue'[s] = queue[s] /\ continuations'[s] = continuations[s]
                              /\ visited'[s] = visited[s]
  BY <1>1, <1>3, <1>6 DEF Counts
<1>13. visited[r] <= visited'[r] /\ visited'[r] <= limit[r]
  BY <1>2, <1>4, <1>8
<1> QED
  BY <1>6, <1>8, <1>10, <1>11, <1>13 DEF Charges, D

(* Of the entries consumed, one that leads on is queued or put off.        *)
LEMMA ConsumeHolds ==
  ASSUME Typed, NEW r \in Roots, NEW d \in DOMAIN tree.entries, NEW entries, Fits(d, entries),
         NEW waiting \in Seq(DOMAIN tree.entries), NEW rest \in Seq(HeldBack), NEW ill,
         visited[r] <= limit[r], NEW j \in DOMAIN entries,
         entries[j].kind = "directory", Leads(r, d, entries[j]),
         Consume(r, d, entries, waiting, rest, ill)
  PROVE  \/ Holds(queue'[r], Append(d, entries[j].name))
         \/ \E c \in HeldBack : /\ Holds(continuations'[r], c)
                               /\ c.dir = d /\ Holds(c.entries, entries[j])
<1> DEFINE n == Charged(r, entries)
           D == DOMAIN tree.entries
           c == PutOff(d, entries, n)
           kept == Kept(r, d, entries, n)
<1>1. /\ limit \in Counts /\ visited \in Counts /\ queue \in [Roots -> Seq(D)]
      /\ continuations \in [Roots -> Seq(HeldBack)] /\ entries \in Seq(Entry)
  BY DEF Typed, Fits
<1>2. /\ limit[r] \in Nat /\ visited[r] \in Nat /\ Len(entries) \in Nat
      /\ DOMAIN entries = 1..Len(entries)
  BY <1>1 DEF Counts
<1>3. n \in 0..Len(entries)
  BY <1>2 DEF Charged, Lower
<1>5. /\ queue' = [queue EXCEPT ![r] = waiting \o kept]
      /\ continuations' = [continuations EXCEPT ![r] =
           IF n = Len(entries) THEN rest ELSE <<c>> \o rest]
  BY DEF Consume, PutOff
<1>6. \A x \in 1..n : entries[x].kind = "directory" => Append(d, entries[x].name) \in D
  BY <1>2, <1>3 DEF Fits
<1>7. CASE j <= n
  <2>1. j \in 1..n
    BY <1>2, <1>3, <1>7
  <2> HIDE DEF n, D
  <2>2. /\ kept \in Seq(D)
        /\ \A x \in 1..n : (entries[x].kind = "directory" /\ Leads(r, d, entries[x])) =>
             Holds(kept, Append(d, entries[x].name))
    BY <1>1, <1>3, <1>6, KeptHolds
  <2> HIDE DEF kept
  <2>3. PICK i \in DOMAIN kept : kept[i] = Append(d, entries[j].name)
    BY <2>1, <2>2 DEF Holds
  <2>4. waiting \in Seq(D)
    BY DEF D
  <2>5. PICK l \in DOMAIN (waiting \o kept) : (waiting \o kept)[l] = kept[i]
    BY <2>2, <2>4, InConcat
  <2>6. queue'[r] = waiting \o kept
    BY <1>1, <1>5
  <2> QED
    BY <2>3, <2>5, <2>6 DEF Holds
<1>8. CASE j > n
  <2>1. n # Len(entries) /\ j \in n + 1..Len(entries)
    BY <1>2, <1>3, <1>8
  <2> HIDE DEF n
  <2>2. /\ c \in HeldBack /\ c.dir = d
        /\ \A x \in n + 1..Len(entries) : Holds(c.entries, entries[x])
    BY <1>3, PutOffFits
  <2> HIDE DEF c
  <2>3. Holds(c.entries, entries[j])
    BY <2>1, <2>2
  <2>4. continuations'[r] = <<c>> \o rest
    BY <1>1, <1>5, <2>1
  <2>5. 1 \in DOMAIN (<<c>> \o rest) /\ (<<c>> \o rest)[1] = c
    BY <2>2
  <2>6. Holds(continuations'[r], c)
    BY <2>4, <2>5 DEF Holds
  <2> QED
    BY <2>2, <2>3, <2>6
<1> QED
  BY <1>2, <1>3, <1>7, <1>8

(* Nothing a root offers is lost: what was waiting for an entry consumed   *)
(* waits for the directory it leads to, or for the entry.                  *)
LEMMA ConsumeKeeps ==
  ASSUME Typed, tree' = tree, NEW r \in Roots, NEW t \in DOMAIN tree.entries, Offers(r, t),
         patterns[r] = ReadPatterns(tree.config[r]),
         NEW k \in Len(tree.roots[r])..Len(t) - 1, NEW d \in DOMAIN tree.entries, d = SubSeq(t, 1, k),
         NEW entries, Fits(d, entries), Holds(entries, [name |-> t[k + 1], kind |-> "directory"]),
         NEW waiting \in Seq(DOMAIN tree.entries), NEW rest \in Seq(HeldBack), NEW ill,
         visited[r] <= limit[r],
         Consume(r, d, entries, waiting, rest, ill)
  PROVE  Waits(r, t)'
<1> DEFINE root == tree.roots[r]
           e == [name |-> t[k + 1], kind |-> "directory"]
<1>1. PICK j \in DOMAIN entries : entries[j] = e
  BY DEF Holds
<1>2. e.kind = "directory" /\ e.name = t[k + 1] /\ Leads(r, d, e)
  BY OffersLead DEF Typed
<1>3. /\ k + 1 \in Len(root)..Len(t)
      /\ SubSeq(t, 1, k + 1) = Append(d, t[k + 1])
  <2>1. IsPrefix(root, t) /\ tree \in Trees
    BY DEF Offers, Typed
  <2>2. /\ t \in Path /\ root \in Path /\ Len(root) \in Nat /\ Len(t) \in Nat
    BY <2>1, TheWayDown DEF Path
  <2>3. SubSeq(t, 1, k + 1) = Append(SubSeq(t, 1, k), t[k + 1])
    BY <2>1, TheWayDown
  <2>4. k + 1 \in Len(root)..Len(t)
    <3>1. k \in Len(root)..Len(t) - 1
      OBVIOUS
    <3> HIDE DEF root
    <3> QED
      BY <2>2, <3>1
  <2> QED
    BY <2>3, <2>4
<1> HIDE DEF e, root
<1>4. \/ Holds(queue'[r], Append(d, e.name))
      \/ \E c \in HeldBack : /\ Holds(continuations'[r], c)
                            /\ c.dir = d /\ Holds(c.entries, e)
  <2>1. entries[j].kind = "directory" /\ Leads(r, d, entries[j])
    BY <1>1, <1>2
  <2>2. \/ Holds(queue'[r], Append(d, entries[j].name))
        \/ \E c \in HeldBack : /\ Holds(continuations'[r], c)
                              /\ c.dir = d /\ Holds(c.entries, entries[j])
    BY <2>1, ConsumeHolds, ZenonT(40)
  <2> QED
    BY <1>1, <2>2
<1>5. CASE Holds(queue'[r], Append(d, e.name))
  <2>1. Queued(root, t, queue'[r])
    BY <1>2, <1>3, <1>5 DEF Queued, Holds
  <2> QED
    BY <2>1 DEF Waits, root
<1>6. ASSUME NEW c \in HeldBack, Holds(continuations'[r], c), c.dir = d, Holds(c.entries, e)
      PROVE  HeldIn(root, t, continuations'[r])
  <2>1. Held(root, t, c)
    BY <1>6 DEF Held, Holds, root, e
  <2> QED
    BY <1>6, <2>1 DEF HeldIn, Holds
<1>7. HeldIn(root, t, continuations'[r]) => Waits(r, t)'
  BY DEF Waits, root
<1> QED
  BY <1>4, <1>5, <1>6, <1>7

-----------------------------------------------------------------------------
(* The candidates.                                                         *)

(* A sum is at least each of its terms, and that of nothing is nothing.    *)
LEMMA TotalOfNone == Total([r \in Roots |-> 0]) = 0
<1> DEFINE f == [r \in Roots |-> 0]
<1>1. f \in Counts /\ \A r \in Roots : f[r] = f[r] + f[r]
  BY DEF Counts
<1>2. Total(f) = Total(f) + Total(f)
  <2> HIDE DEF f
  <2> QED
    BY <1>1, TotalAdds
<1>3. Total(f) \in Nat
  <2> HIDE DEF f
  <2> QED
    BY <1>1, UpToSteps
<1>4. ASSUME NEW x \in Nat, x = x + x PROVE x = 0
  BY <1>4
<1> HIDE DEF f
<1>5. Total(f) = 0
  BY <1>2, <1>3, <1>4
<1> QED
  BY <1>5 DEF f

(* No number is more than the total.                                       *)
LEMMA TotalAtLeast ==
  ASSUME NEW f \in Counts, NEW r \in Roots
  PROVE  f[r] <= Total(f) /\ Total(f) \in Nat
<1> DEFINE z == [s \in Roots |-> 0]
           g == [s \in Roots |-> IF s = r THEN f[r] ELSE 0]
<1>1. z \in Counts /\ g \in Counts /\ z[r] = 0 /\ g[r] = f[r] /\ f[r] \in Nat
  BY DEF Counts
<1>2. \A s \in Roots : s # r => g[s] = z[s]
  OBVIOUS
<1>3. \A s \in Roots : g[s] <= f[s]
  BY DEF Counts
<1>4. Total(z) = 0
  BY TotalOfNone
<1> HIDE DEF z, g
<1>5. Total(g) + z[r] = Total(z) + g[r]
  BY <1>1, <1>2, TotalOfChange
<1>6. Total(g) \in Nat /\ Total(f) \in Nat
  BY <1>1, UpToSteps
<1>7. Total(g) <= Total(f)
  BY <1>1, <1>3, TotalMonotone
<1> QED
  BY <1>1, <1>4, <1>5, <1>6, <1>7


(* What has been found: each candidate is counted against the root that    *)
(* met it first, and what found no room yet is spilled, once.              *)
Offered ==
  /\ \A r \in Roots : accepted[r] <= FairShare(MaxCandidates, Count, r)
  /\ Cardinality(candidates) = Total(accepted)
  /\ \A r \in Roots : overflow[r] # <<>> => candidates # {}
  /\ \A s \in Spilled : /\ Spill(s) \in DOMAIN discovering /\ Spill(s) \notin candidates
                        /\ s[2] \in discovering[Spill(s)]
  /\ \A s, t \in Spilled : Spill(s) = Spill(t) => s = t
  /\ \A d \in DOMAIN discovering : d \in candidates \/ \E s \in Spilled : Spill(s) = d

(* When the scan is done, only their number matters.                       *)
Offer ==
  /\ phase = "done" => Cardinality(candidates) <= MaxCandidates
  /\ phase # "done" => Offered

(* A root has met a candidate; a root has as many left over as it may.     *)
Known(r, t) == t \in DOMAIN discovering /\ r \in discovering[t]
Choked(r) == Len(overflow[r]) = MaxCandidates

(* The part of the types that recordCandidate changes.                     *)
TypedFound ==
  /\ accepted \in Counts
  /\ overflow \in [Roots -> Seq(tree.plugins)]
  /\ \A r \in Roots : Len(overflow[r]) <= MaxCandidates
  /\ candidates \subseteq DOMAIN discovering /\ IsFiniteSet(candidates)
  /\ DOMAIN discovering \subseteq tree.plugins
  /\ \A d \in DOMAIN discovering : discovering[d] \in (SUBSET Roots) \ {{}}

(* recordCandidate is called at most once in a step.                       *)
Founds(r) == UNCHANGED found \/ \E d \in tree.plugins : Record(r, d)

(* Meeting a candidate adds the root to those that met it.                 *)
LEMMA MeetAdds ==
  ASSUME TypedFound, NEW r \in Roots, NEW d \in tree.plugins, Meet(r, d)
  PROVE  /\ DOMAIN discovering' = DOMAIN discovering \cup {d}
         /\ \A e \in DOMAIN discovering' : discovering'[e] \in (SUBSET Roots) \ {{}}
         /\ r \in discovering'[d]
         /\ \A e \in DOMAIN discovering : \A s \in discovering[e] : s \in discovering'[e]
<1> DEFINE D == DOMAIN discovering \cup {d}
<1>1. discovering' = [e \in D |-> IF e # d THEN discovering[e]
                                  ELSE {r} \cup (IF d \in DOMAIN discovering THEN discovering[d] ELSE {})]
  BY DEF Meet
<1>2. DOMAIN discovering' = D
  BY <1>1
<1>3. \A e \in D : e # d => e \in DOMAIN discovering /\ discovering'[e] = discovering[e]
  BY <1>1
<1>4. d \in D /\ discovering'[d] = {r} \cup (IF d \in DOMAIN discovering THEN discovering[d] ELSE {})
  BY <1>1
<1>5. r \in discovering'[d] /\ (d \in DOMAIN discovering => \A s \in discovering[d] : s \in discovering'[d])
  BY <1>4
<1>6. d \in DOMAIN discovering => discovering[d] \in SUBSET Roots
  BY DEF TypedFound
<1>7. discovering'[d] \in (SUBSET Roots) \ {{}}
  <2>1. CASE d \in DOMAIN discovering
    BY <1>4, <1>5, <1>6, <2>1
  <2>2. CASE d \notin DOMAIN discovering
    <3>1. discovering'[d] = {r}
      BY <1>4, <2>2
    <3> QED
      BY <3>1
  <2> QED
    BY <2>1, <2>2
<1>8. \A e \in D : e # d => discovering'[e] \in (SUBSET Roots) \ {{}}
  BY <1>3 DEF TypedFound
<1>9. \A e \in DOMAIN discovering : \A s \in discovering[e] : s \in discovering'[e]
  BY <1>3, <1>5
<1> QED
  BY <1>2, <1>5, <1>7, <1>8, <1>9

(* One more spilled candidate.                                             *)
LEMMA AppendSpills ==
  ASSUME TypedFound, NEW r \in Roots, NEW d \in tree.plugins, NEW L, L = Len(overflow[r]),
         L < MaxCandidates, overflow' = [overflow EXCEPT ![r] = Append(overflow[r], d)], tree' = tree
  PROVE  /\ overflow' \in [Roots -> Seq(tree.plugins)]
         /\ \A q \in Roots : Len(overflow'[q]) <= MaxCandidates
         /\ Spilled' = Spilled \cup {<<L + 1, r>>}
         /\ \A s \in Spilled : Spill(s)' = Spill(s)
         /\ Spill(<<L + 1, r>>)' = d
         /\ <<L + 1, r>> \notin Spilled
<1>1. /\ overflow \in [Roots -> Seq(tree.plugins)] /\ \A q \in Roots : Len(overflow[q]) <= MaxCandidates
      /\ MaxCandidates \in Nat
  BY CountIsNat DEF TypedFound
<1>2. overflow[r] \in Seq(tree.plugins) /\ L \in Nat /\ L < MaxCandidates
  BY <1>1
<1>3. /\ overflow'[r] = Append(overflow[r], d)
      /\ \A q \in Roots : q # r => overflow'[q] = overflow[q]
      /\ overflow' \in [Roots -> Seq(tree.plugins)]
  BY <1>1
<1>4. /\ Len(overflow'[r]) = L + 1 /\ overflow'[r][L + 1] = d
      /\ \A i \in 1..L : overflow'[r][i] = overflow[r][i]
  BY <1>2, <1>3
<1>5. \A q \in Roots : Len(overflow[q]) \in Nat
  BY <1>1
<1>6. \A q \in Roots : Len(overflow'[q]) <= MaxCandidates
  <2> SUFFICES ASSUME NEW q \in Roots PROVE Len(overflow'[q]) <= MaxCandidates
    OBVIOUS
  <2>1. CASE q = r
    BY <1>1, <1>2, <1>4, <2>1
  <2>2. CASE q # r
    BY <1>1, <1>3, <2>2
  <2> QED
    BY <2>1, <2>2
<1>7. ASSUME NEW i \in 1..MaxCandidates, NEW q \in Roots
      PROVE  /\ i <= Len(overflow'[q]) <=> i <= Len(overflow[q]) \/ (i = L + 1 /\ q = r)
             /\ i <= Len(overflow[q]) => overflow'[q][i] = overflow[q][i]
  <2>1. CASE q # r
    BY <1>3, <2>1
  <2>2. CASE q = r
    <3>1. i \in Nat /\ Len(overflow[r]) = L /\ Len(overflow'[r]) = L + 1 /\ i >= 1
      BY <1>1, <1>4
    <3>2. i <= Len(overflow'[r]) <=> i <= Len(overflow[r]) \/ i = L + 1
      BY <1>2, <3>1
    <3>3. i <= Len(overflow[r]) => i \in 1..L
      BY <1>2, <3>1
    <3> QED
      BY <1>4, <2>2, <3>2, <3>3
  <2> QED
    BY <2>1, <2>2
<1>8. Spilled' = {s \in Spills : s[1] <= Len(overflow'[s[2]])}
      /\ Spilled = {s \in Spills : s[1] <= Len(overflow[s[2]])}
  BY DEF Spilled, Spills
<1>9. L + 1 \in 1..MaxCandidates
  BY <1>1, <1>2
<1>10. \A s \in Spills : s[1] \in 1..MaxCandidates /\ s[2] \in Roots /\ s = <<s[1], s[2]>>
  BY DEF Spills
<1>11. <<L + 1, r>> \in Spills
  BY <1>9 DEF Spills
<1>12. \A s \in Spills : s \in Spilled' <=> s \in Spilled \/ s = <<L + 1, r>>
  <2> SUFFICES ASSUME NEW s \in Spills PROVE s \in Spilled' <=> s \in Spilled \/ s = <<L + 1, r>>
    OBVIOUS
  <2>1. s[1] <= Len(overflow'[s[2]]) <=> s[1] <= Len(overflow[s[2]]) \/ (s[1] = L + 1 /\ s[2] = r)
    BY <1>7, <1>10
  <2>2. s = <<L + 1, r>> <=> (s[1] = L + 1 /\ s[2] = r)
    BY <1>10
  <2> QED
    BY <1>8, <2>1, <2>2
<1>13. Spilled' = Spilled \cup {<<L + 1, r>>}
  <2>1. \A s : s \in Spilled' => s \in Spills
    BY <1>8
  <2>2. \A s : s \in Spilled => s \in Spills
    BY <1>8
  <2> QED
    BY <1>11, <1>12, <2>1, <2>2
<1>14. \A s \in Spilled : Spill(s)' = Spill(s)
  <2> SUFFICES ASSUME NEW s \in Spilled PROVE overflow'[s[2]][s[1]] = overflow[s[2]][s[1]]
    BY DEF Spill
  <2>1. s \in Spills /\ s[1] <= Len(overflow[s[2]])
    BY <1>8
  <2> QED
    BY <1>7, <1>10, <2>1
<1>15. Spill(<<L + 1, r>>)' = d
  BY <1>4 DEF Spill
<1>16. <<L + 1, r>> \notin Spilled
  <2>1. ~(L + 1 <= Len(overflow[r]))
    BY <1>2
  <2> QED
    BY <1>8, <2>1
<1> QED
  BY <1>3, <1>6, <1>13, <1>14, <1>15, <1>16

(* recordCandidate keeps the types.                                        *)
LEMMA RecordTypes ==
  ASSUME TypedFound, tree' = tree, NEW r \in Roots, Founds(r)
  PROVE  TypedFound'
<1>1. CASE UNCHANGED found
  BY <1>1 DEF TypedFound, found
<1>2. ASSUME NEW d \in tree.plugins, Record(r, d) PROVE TypedFound'
  <2> DEFINE share == FairShare(MaxCandidates, Count, r)
  <2>0. MaxCandidates \in Nat
    BY CountIsNat
  <2>1. CASE d \in DOMAIN discovering /\ Meet(r, d) /\ UNCHANGED <<accepted, overflow, candidates>>
    BY <2>1, MeetAdds DEF TypedFound
  <2>2. CASE /\ d \notin DOMAIN discovering
             /\ accepted' = [accepted EXCEPT ![r] = accepted[r] + 1]
             /\ candidates' = candidates \cup {d}
             /\ Meet(r, d) /\ UNCHANGED overflow
    <3>1. accepted' \in Counts
      BY <2>2 DEF TypedFound, Counts
    <3>2. IsFiniteSet(candidates')
      BY <2>2, FS_AddElement DEF TypedFound
    <3>3. /\ DOMAIN discovering' = DOMAIN discovering \cup {d}
          /\ \A e \in DOMAIN discovering' : discovering'[e] \in (SUBSET Roots) \ {{}}
      BY <2>2, MeetAdds
    <3>4. candidates' \subseteq DOMAIN discovering' /\ DOMAIN discovering' \subseteq tree.plugins
      BY <2>2, <3>3 DEF TypedFound
    <3>5. overflow' \in [Roots -> Seq(tree.plugins)] /\ \A q \in Roots : Len(overflow'[q]) <= MaxCandidates
      BY <2>2 DEF TypedFound
    <3> QED
      BY <3>1, <3>2, <3>3, <3>4, <3>5 DEF TypedFound
  <2>3. CASE /\ d \notin DOMAIN discovering /\ Len(overflow[r]) < MaxCandidates
             /\ overflow' = [overflow EXCEPT ![r] = Append(overflow[r], d)]
             /\ Meet(r, d) /\ UNCHANGED <<accepted, candidates>>
    <3>0. PICK l : l = Len(overflow[r])
      OBVIOUS
    <3>1. overflow' \in [Roots -> Seq(tree.plugins)] /\ \A q \in Roots : Len(overflow'[q]) <= MaxCandidates
      BY <2>3, <3>0, AppendSpills
    <3>2. /\ DOMAIN discovering' = DOMAIN discovering \cup {d}
          /\ \A e \in DOMAIN discovering' : discovering'[e] \in (SUBSET Roots) \ {{}}
      BY <2>3, MeetAdds
    <3>3. candidates' \subseteq DOMAIN discovering' /\ DOMAIN discovering' \subseteq tree.plugins
      BY <2>3, <3>2 DEF TypedFound
    <3>4. accepted' \in Counts /\ IsFiniteSet(candidates')
      BY <2>3 DEF TypedFound
    <3> QED
      BY <3>1, <3>2, <3>3, <3>4 DEF TypedFound
  <2>4. Len(overflow[r]) \in Nat
    BY DEF TypedFound
  <2> QED
    BY <1>1, <1>2, <2>1, <2>2, <2>3 DEF Record
<1> QED
  BY <1>1, <1>2 DEF Founds

(* What is found stays found, and what is met is found or choked.          *)
LEMMA RecordGrows ==
  ASSUME TypedFound, tree' = tree, NEW r \in Roots, Founds(r)
  PROVE  \A s \in Roots : \A t : /\ Known(s, t) => Known(s, t)'
                                 /\ Choked(s) => Choked(s)'
<1>1. CASE UNCHANGED found
  BY <1>1 DEF Known, Choked, found
<1>2. ASSUME NEW d \in tree.plugins, Record(r, d), NEW s \in Roots, NEW t
      PROVE  (Known(s, t) => Known(s, t)') /\ (Choked(s) => Choked(s)')
  <2>1. CASE UNCHANGED found
    BY <2>1 DEF Known, Choked, found
  <2>2. CASE Meet(r, d) /\ UNCHANGED overflow
    BY <2>2, MeetAdds DEF Known, Choked
  <2>3. CASE /\ Len(overflow[r]) < MaxCandidates
             /\ overflow' = [overflow EXCEPT ![r] = Append(overflow[r], d)]
             /\ Meet(r, d)
    <3>1. Known(s, t) => Known(s, t)'
      BY <2>3, MeetAdds DEF Known
    <3>2. Choked(s) => Choked(s)'
      <4>1. CASE s = r
        <5>1. Len(overflow[r]) \in Nat /\ MaxCandidates \in Nat
          BY CountIsNat DEF TypedFound
        <5> QED
          BY <2>3, <4>1, <5>1 DEF Choked
      <4>2. CASE s # r
        BY <2>3, <4>2 DEF Choked, TypedFound
      <4> QED
        BY <4>1, <4>2
    <3> QED
      BY <3>1, <3>2
  <2> QED
    BY <1>2, <2>1, <2>2, <2>3 DEF Record
<1> QED
  BY <1>1, <1>2 DEF Founds

(* A candidate that is met is known, or the root has too many left over.   *)
LEMMA RecordKnows ==
  ASSUME TypedFound, NEW r \in Roots, NEW d \in tree.plugins, Record(r, d)
  PROVE  Known(r, d)' \/ Choked(r)'
<1>1. CASE Meet(r, d)
  BY <1>1, MeetAdds DEF Known
<1>2. CASE Len(overflow[r]) = MaxCandidates /\ UNCHANGED found
  BY <1>2 DEF Choked, found
<1> QED
  BY <1>1, <1>2 DEF Record

(* A share of the candidates is never nothing.                             *)
LEMMA ShareIsNat ==
  ASSUME NEW r \in Roots
  PROVE  FairShare(MaxCandidates, Count, r) \in Nat /\ FairShare(MaxCandidates, Count, r) >= 1
<1>1. /\ MaxCandidates \in Nat /\ Count \in Nat /\ Count > 0 /\ MaxCandidates >= Count /\ r \in Nat
  BY CountIsNat
<1> QED
  BY <1>1, FairShareIsNat

(* recordCandidate keeps what is said of the candidates.                   *)
LEMMA RecordOffers ==
  ASSUME TypedFound, Offered, tree' = tree, NEW r \in Roots, Founds(r)
  PROVE  Offered'
<1>0. (Spilled' = Spilled /\ \A s : Spill(s)' = Spill(s)) \/ ~UNCHANGED overflow
  BY DEF Spilled, Spill
<1>1. CASE UNCHANGED found
  BY <1>0, <1>1 DEF Offered, found
<1>2. ASSUME NEW d \in tree.plugins, Record(r, d) PROVE Offered'
  <2>1. CASE d \in DOMAIN discovering /\ Meet(r, d) /\ UNCHANGED <<accepted, overflow, candidates>>
    <3>1. /\ DOMAIN discovering' = DOMAIN discovering
          /\ \A e \in DOMAIN discovering : \A s \in discovering[e] : s \in discovering'[e]
      BY <2>1, MeetAdds
    <3>2. Spilled' = Spilled /\ \A s : Spill(s)' = Spill(s)
      BY <1>0, <2>1
    <3>3. \A s \in Spilled' : /\ Spill(s)' \in DOMAIN discovering' /\ Spill(s)' \notin candidates'
                              /\ s[2] \in discovering'[Spill(s)']
      BY <2>1, <3>1, <3>2 DEF Offered
    <3> QED
      BY <2>1, <3>1, <3>2, <3>3 DEF Offered
  <2>2. CASE /\ d \notin DOMAIN discovering /\ accepted[r] < FairShare(MaxCandidates, Count, r)
             /\ accepted' = [accepted EXCEPT ![r] = accepted[r] + 1]
             /\ candidates' = candidates \cup {d}
             /\ Meet(r, d) /\ UNCHANGED overflow
    <3>1. /\ DOMAIN discovering' = DOMAIN discovering \cup {d}
          /\ \A e \in DOMAIN discovering : \A s \in discovering[e] : s \in discovering'[e]
      BY <2>2, MeetAdds
    <3>2. Spilled' = Spilled /\ \A s : Spill(s)' = Spill(s)
      BY <1>0, <2>2
    <3>3. /\ accepted \in Counts /\ accepted' \in Counts /\ accepted[r] \in Nat
          /\ accepted'[r] = accepted[r] + 1 /\ \A q \in Roots : q # r => accepted'[q] = accepted[q]
      BY <2>2 DEF TypedFound, Counts
    <3>4. \A q \in Roots : accepted'[q] <= FairShare(MaxCandidates, Count, q)
      <4> SUFFICES ASSUME NEW q \in Roots PROVE accepted'[q] <= FairShare(MaxCandidates, Count, q)
        OBVIOUS
      <4>1. FairShare(MaxCandidates, Count, q) \in Nat /\ FairShare(MaxCandidates, Count, r) \in Nat
        BY ShareIsNat
      <4>2. CASE q = r
        BY <2>2, <3>3, <4>1, <4>2
      <4>3. CASE q # r
        BY <3>3, <4>3 DEF Offered
      <4> QED
        BY <4>2, <4>3
    <3>5. Cardinality(candidates') = Total(accepted')
      <4>1. d \notin candidates /\ IsFiniteSet(candidates)
        BY <2>2 DEF TypedFound
      <4>2. Cardinality(candidates') = Cardinality(candidates) + 1
        BY <2>2, <4>1, FS_AddElement
      <4>3. Total(accepted') + accepted[r] = Total(accepted) + accepted'[r]
        BY <3>3, TotalOfChange
      <4>4. Total(accepted) \in Nat /\ Total(accepted') \in Nat
        BY <3>3, UpToSteps
      <4>5. Total(accepted') = Total(accepted) + 1
        BY <3>3, <4>3, <4>4
      <4> QED
        BY <4>2, <4>5 DEF Offered
    <3>6. \A s \in Spilled' : /\ Spill(s)' \in DOMAIN discovering' /\ Spill(s)' \notin candidates'
                              /\ s[2] \in discovering'[Spill(s)']
      BY <2>2, <3>1, <3>2 DEF Offered
    <3>7. \A e \in DOMAIN discovering' : e \in candidates' \/ \E s \in Spilled' : Spill(s)' = e
      BY <2>2, <3>1, <3>2 DEF Offered
    <3>8. \A q \in Roots : overflow'[q] # <<>> => candidates' # {}
      BY <2>2
    <3>9. \A s, t \in Spilled' : Spill(s)' = Spill(t)' => s = t
      BY <3>2 DEF Offered
    <3> QED
      BY <3>4, <3>5, <3>6, <3>7, <3>8, <3>9 DEF Offered
  <2>3. CASE /\ d \notin DOMAIN discovering /\ accepted[r] >= FairShare(MaxCandidates, Count, r)
             /\ Len(overflow[r]) < MaxCandidates
             /\ overflow' = [overflow EXCEPT ![r] = Append(overflow[r], d)]
             /\ Meet(r, d) /\ UNCHANGED <<accepted, candidates>>
    <3>0. PICK l : l = Len(overflow[r])
      OBVIOUS
    <3> DEFINE n == <<l + 1, r>>
    <3>1. /\ DOMAIN discovering' = DOMAIN discovering \cup {d} /\ r \in discovering'[d]
          /\ \A e \in DOMAIN discovering : \A s \in discovering[e] : s \in discovering'[e]
      BY <2>3, MeetAdds
    <3>2. /\ Spilled' = Spilled \cup {n} /\ \A s \in Spilled : Spill(s)' = Spill(s)
          /\ Spill(n)' = d /\ n \notin Spilled
      BY <2>3, <3>0, AppendSpills
    <3>3. n[2] = r
      OBVIOUS
    <3> HIDE DEF n
    <3>4. d \notin candidates
      BY <2>3 DEF TypedFound
    <3>5. \A s \in Spilled' : /\ Spill(s)' \in DOMAIN discovering' /\ Spill(s)' \notin candidates'
                              /\ s[2] \in discovering'[Spill(s)']
      <4> SUFFICES ASSUME NEW s \in Spilled'
          PROVE /\ Spill(s)' \in DOMAIN discovering' /\ Spill(s)' \notin candidates'
                /\ s[2] \in discovering'[Spill(s)']
        OBVIOUS
      <4>1. CASE s = n
        BY <2>3, <3>1, <3>2, <3>3, <3>4, <4>1
      <4>2. CASE s \in Spilled
        BY <2>3, <3>1, <3>2, <4>2 DEF Offered
      <4> QED
        BY <3>2, <4>1, <4>2
    <3>6. \A e \in DOMAIN discovering' : e \in candidates' \/ \E s \in Spilled' : Spill(s)' = e
      <4> SUFFICES ASSUME NEW e \in DOMAIN discovering', e \notin candidates'
          PROVE \E s \in Spilled' : Spill(s)' = e
        OBVIOUS
      <4>1. CASE e = d
        BY <3>2, <4>1
      <4>2. CASE e # d
        <5>1. PICK s \in Spilled : Spill(s) = e
          BY <2>3, <3>1, <4>2 DEF Offered
        <5> QED
          BY <3>2, <5>1
      <4> QED
        BY <4>1, <4>2
    <3>7. \A s, t \in Spilled' : Spill(s)' = Spill(t)' => s = t
      <4>1. \A s \in Spilled : Spill(s)' # d
        BY <2>3, <3>2 DEF Offered
      <4>2. \A s, t \in Spilled : Spill(s)' = Spill(t)' => s = t
        BY <3>2 DEF Offered
      <4> QED
        BY <3>2, <4>1, <4>2
    <3>8. candidates # {}
      <4>1. accepted \in Counts /\ accepted[r] \in Nat
        BY DEF TypedFound, Counts
      <4>2. accepted[r] >= 1
        <5>1. FairShare(MaxCandidates, Count, r) \in Nat /\ FairShare(MaxCandidates, Count, r) >= 1
          BY ShareIsNat
        <5> QED
          BY <2>3, <4>1, <5>1
      <4>3. accepted[r] <= Total(accepted) /\ Total(accepted) \in Nat
        BY <4>1, TotalAtLeast
      <4>4. Cardinality(candidates) # 0
        BY <4>1, <4>2, <4>3 DEF Offered
      <4> QED
        BY <4>4, FS_EmptySet
    <3> QED
      BY <2>3, <3>5, <3>6, <3>7, <3>8 DEF Offered
  <2>4. CASE UNCHANGED found
    BY <1>0, <2>4 DEF Offered, found
  <2> QED
    BY <1>2, <2>1, <2>2, <2>3, <2>4 DEF Record
<1> QED
  BY <1>1, <1>2 DEF Founds

-----------------------------------------------------------------------------
(* The steps of a turn.                                                    *)

(* A step of a root's turn, seen from the other roots and from what the    *)
(* root itself still has to find.                                          *)
Keeps(r) ==
  \A t \in DOMAIN tree.entries :
    (Offers(r, t) /\ patterns[r] = ReadPatterns(tree.config[r]) /\ Waits(r, t)) =>
      Waits(r, t)' \/ Known(r, t)' \/ Choked(r)'

(* A turn ends with the root reported, or with nothing left to do for it   *)
(* or to do it with.                                                       *)
Ends(r) ==
  /\ turns' = turns \ {r}
  /\ \/ exhausted' /\ r \in diagnosed'
     \/ queue'[r] = <<>> /\ (visited'[r] = limit[r] \/ continuations'[r] = <<>>)

(* The summary of every step of a turn.                                    *)
Scanned(r) ==
  /\ UNCHANGED <<tree, patterns, limit, phase, before>>
  /\ Scanning(r) /\ Founds(r) /\ Charges(r)
  /\ exhausted' \in BOOLEAN /\ (exhausted => exhausted')
  /\ turns' = turns \/ Ends(r)
  /\ r \notin diagnosed' => Keeps(r)

(* A step that charges nothing.                                            *)
LEMMA ChargesBy ==
  ASSUME Typed, NEW r \in Roots, NEW q \in Seq(DOMAIN tree.entries), NEW c \in Seq(HeldBack),
         queue' = [queue EXCEPT ![r] = q], continuations' = [continuations EXCEPT ![r] = c],
         visited' = visited, visited[r] <= limit[r],
         c = <<>> \/ continuations[r] # <<>> \/ visited[r] = limit[r],
         diagnosed' \in {diagnosed, diagnosed \cup {r}}
  PROVE  Charges(r)
<1>1. /\ limit \in Counts /\ visited \in Counts /\ queue \in [Roots -> Seq(DOMAIN tree.entries)]
      /\ continuations \in [Roots -> Seq(HeldBack)]
  BY DEF Typed
<1>2. limit[r] \in Nat /\ visited[r] \in Nat
  BY <1>1 DEF Counts
<1>3. /\ queue' \in [Roots -> Seq(DOMAIN tree.entries)]
      /\ continuations' \in [Roots -> Seq(HeldBack)] /\ continuations'[r] = c
      /\ \A s \in Roots \ {r} : queue'[s] = queue[s] /\ continuations'[s] = continuations[s]
  BY <1>1
<1>4. continuations'[r] # <<>> =>
        visited'[r] = limit[r] \/ (continuations[r] # <<>> /\ visited[r] < limit[r])
  BY <1>2, <1>3
<1>5. visited[r] <= visited'[r] /\ visited'[r] <= limit[r]
  BY <1>2
<1> QED
  BY <1>1, <1>3, <1>4, <1>5 DEF Charges

(* Nothing put off changes.                                                *)
LEMMA SameList ==
  ASSUME Typed, NEW r \in Roots
  PROVE  /\ queue = [queue EXCEPT ![r] = queue[r]]
         /\ continuations = [continuations EXCEPT ![r] = continuations[r]]
         /\ queue[r] \in Seq(DOMAIN tree.entries) /\ continuations[r] \in Seq(HeldBack)
  BY DEF Typed

(* Inspecting a directory records it at most.                              *)
LEMMA InspectedFounds ==
  ASSUME NEW r \in Roots, NEW d, Inspected(r, d)
  PROVE  Founds(r)
  BY DEF Inspected, Wanted, Founds

(* The part of the types is one.                                           *)
LEMMA TypedHasFound == Typed => TypedFound
  BY DEF Typed, TypedFound

(* A failure, or the end of the matching budget, reports the root.         *)
LEMMA InspectFailsScans ==
  ASSUME Typed, NEW r \in Roots, visited[r] <= limit[r], InspectFails(r)
  PROVE  Scanned(r)
<1> DEFINE D == DOMAIN tree.entries
<1>1. /\ Scanning(r) /\ queue[r] # <<>> /\ queue' = [queue EXCEPT ![r] = Tail(queue[r])]
      /\ diagnosed' = diagnosed \cup {r} /\ UNCHANGED <<tree, patterns, limit, phase, before>>
      /\ exhausted' = exhausted /\ turns' = turns /\ continuations' = continuations /\ visited' = visited
  BY DEF InspectFails, Diagnose, Report, budgets
<1>2. Founds(r)
  BY InspectedFounds DEF InspectFails, Founds
<1>3. Tail(queue[r]) \in Seq(D)
  <2>1. queue[r] \in Seq(D)
    BY SameList
  <2> HIDE DEF D
  <2> QED
    BY <1>1, <2>1
<1>4. Charges(r)
  <2>1. continuations[r] = <<>> \/ continuations[r] # <<>>
    OBVIOUS
  <2>2. continuations' = [continuations EXCEPT ![r] = continuations[r]] /\ continuations[r] \in Seq(HeldBack)
    BY <1>1, SameList
  <2> QED
    BY <1>1, <1>3, <2>1, <2>2, ChargesBy
<1>5. exhausted \in BOOLEAN
  BY DEF Typed
<1> QED
  BY <1>1, <1>2, <1>4, <1>5 DEF Scanned

(* Matching that runs out of work reports the root.                        *)
LEMMA InspectExhaustsScans ==
  ASSUME Typed, NEW r \in Roots, visited[r] <= limit[r], InspectExhausts(r)
  PROVE  Scanned(r)
<1> DEFINE D == DOMAIN tree.entries
           d == Head(queue[r])
<1>1. /\ Scanning(r) /\ queue[r] # <<>> /\ UNCHANGED <<tree, patterns, limit, phase, before>>
  BY DEF InspectExhausts
<1>2. /\ queue[r] \in Seq(D) /\ Tail(queue[r]) \in Seq(D) /\ d \in D
      /\ continuations[r] \in Seq(HeldBack) /\ tree \in Trees
  BY <1>1, SameList DEF Typed
<1>3. CASE /\ UNCHANGED found \/ (~exhausted /\ Inspected(r, d))
           /\ queue' = [queue EXCEPT ![r] = Tail(queue[r])]
           /\ exhausted' = TRUE
           /\ Diagnose(r)
           /\ turns' = turns \ {r}
           /\ UNCHANGED <<continuations, visited>>
  <2>1. Founds(r)
    BY <1>3, InspectedFounds DEF Founds
  <2>2. diagnosed' = diagnosed \cup {r} /\ continuations' = continuations /\ visited' = visited
    BY <1>3 DEF Diagnose, Report
  <2>3. continuations' = [continuations EXCEPT ![r] = continuations[r]]
    BY <2>2, SameList
  <2>4. Charges(r)
    <3>1. continuations[r] = <<>> \/ continuations[r] # <<>>
      OBVIOUS
    <3> HIDE DEF d
    <3> QED
      BY <1>2, <1>3, <2>2, <2>3, <3>1, ChargesBy
  <2> QED
    BY <1>1, <1>3, <2>1, <2>2, <2>4 DEF Scanned, Ends
<1>4. CASE /\ Descends(r, d) /\ visited[r] < limit[r]
           /\ Inspected(r, d)
           /\ ConsumeUntilExhausted(r, d, Listed(d), Tail(queue[r]), continuations[r])
  <2>1. Founds(r)
    BY <1>4, InspectedFounds
  <2>2. Fits(d, Listed(d))
    BY <1>2, ListedFits
  <2>3. Charges(r)
    <3> HIDE DEF d
    <3> QED
      BY <1>2, <1>4, <2>2, ExhaustCharges
  <2>4. exhausted' = TRUE /\ turns' = turns \ {r} /\ diagnosed' = diagnosed \cup {r}
    BY <1>4 DEF ConsumeUntilExhausted, Diagnose, Report
  <2> QED
    BY <1>1, <2>1, <2>3, <2>4 DEF Scanned, Ends
<1> QED
  BY <1>3, <1>4 DEF InspectExhausts

(* A turn ends when there is nothing left to do.                           *)
LEMMA EndTurnScans ==
  ASSUME Typed, NEW r \in Roots, visited[r] <= limit[r], EndTurn(r)
  PROVE  Scanned(r)
<1>1. /\ Scanning(r) /\ UNCHANGED <<tree, patterns, queue, continuations, limit, visited, accepted,
           overflow, candidates, discovering, diagnosed, exhausted, phase, before>>
      /\ turns' = turns \ {r} /\ queue[r] = <<>>
      /\ visited[r] >= limit[r] \/ continuations[r] = <<>>
  BY DEF EndTurn, budgets, found
<1>2. Founds(r)
  BY <1>1 DEF Founds, found
<1>3. Charges(r)
  <2>1. continuations[r] = <<>> \/ continuations[r] # <<>>
    OBVIOUS
  <2>2. /\ queue' = [queue EXCEPT ![r] = queue[r]]
        /\ continuations' = [continuations EXCEPT ![r] = continuations[r]]
        /\ queue[r] \in Seq(DOMAIN tree.entries) /\ continuations[r] \in Seq(HeldBack)
    BY <1>1, SameList
  <2> QED
    BY <1>1, <2>1, <2>2, ChargesBy
<1>4. limit[r] \in Nat /\ visited[r] \in Nat /\ exhausted \in BOOLEAN
  BY DEF Typed, Counts
<1>5. Ends(r)
  BY <1>1, <1>4 DEF Ends
<1>6. Keeps(r)
  BY <1>1 DEF Keeps, Waits
<1> QED
  BY <1>1, <1>2, <1>3, <1>4, <1>5, <1>6 DEF Scanned

(* What waits in a list still waits in a longer one.                       *)
LEMMA QueuedGrows ==
  ASSUME NEW V, NEW a \in Seq(V), NEW b \in Seq(V), NEW root, NEW t,
         Queued(root, t, a) \/ Queued(root, t, b)
  PROVE  Queued(root, t, a \o b)
<1>1. /\ \A i \in DOMAIN a : \E l \in DOMAIN (a \o b) : (a \o b)[l] = a[i]
      /\ \A i \in DOMAIN b : \E l \in DOMAIN (a \o b) : (a \o b)[l] = b[i]
  BY InConcat
<1> DEFINE w == a \o b
<1> HIDE DEF w
<1>2. CASE Queued(root, t, a)
  <2>1. PICK i \in DOMAIN a : \E k \in Len(root)..Len(t) : a[i] = SubSeq(t, 1, k)
    BY <1>2 DEF Queued
  <2>2. PICK l \in DOMAIN w : w[l] = a[i]
    BY <1>1 DEF w
  <2>3. Queued(root, t, w)
    BY <2>1, <2>2 DEF Queued
  <2> QED
    BY <2>3 DEF w
<1>3. CASE Queued(root, t, b)
  <2>1. PICK i \in DOMAIN b : \E k \in Len(root)..Len(t) : b[i] = SubSeq(t, 1, k)
    BY <1>3 DEF Queued
  <2>2. PICK l \in DOMAIN w : w[l] = b[i]
    BY <1>1 DEF w
  <2>3. Queued(root, t, w)
    BY <2>1, <2>2 DEF Queued
  <2> QED
    BY <2>3 DEF w
<1> QED
  BY <1>2, <1>3

(* So does what is put off.                                                *)
LEMMA HeldInGrows ==
  ASSUME NEW V, NEW a \in Seq(V), NEW b \in Seq(V), NEW root, NEW t,
         HeldIn(root, t, a) \/ HeldIn(root, t, b)
  PROVE  HeldIn(root, t, a \o b)
<1>1. /\ \A i \in DOMAIN a : \E l \in DOMAIN (a \o b) : (a \o b)[l] = a[i]
      /\ \A i \in DOMAIN b : \E l \in DOMAIN (a \o b) : (a \o b)[l] = b[i]
  BY InConcat
<1> DEFINE w == a \o b
<1> HIDE DEF w
<1>2. CASE HeldIn(root, t, a)
  <2>1. PICK i \in DOMAIN a : Held(root, t, a[i])
    BY <1>2 DEF HeldIn
  <2>2. PICK l \in DOMAIN w : w[l] = a[i]
    BY <1>1 DEF w
  <2>3. HeldIn(root, t, w)
    BY <2>1, <2>2 DEF HeldIn
  <2> QED
    BY <2>3 DEF w
<1>3. CASE HeldIn(root, t, b)
  <2>1. PICK i \in DOMAIN b : Held(root, t, b[i])
    BY <1>3 DEF HeldIn
  <2>2. PICK l \in DOMAIN w : w[l] = b[i]
    BY <1>1 DEF w
  <2>3. HeldIn(root, t, w)
    BY <2>1, <2>2 DEF HeldIn
  <2> QED
    BY <2>3 DEF w
<1> QED
  BY <1>2, <1>3

(* A step that takes the head of the queue: what else waits goes on to.    *)
LEMMA RestWaits ==
  ASSUME Typed, tree' = tree, NEW r \in Roots, NEW t, queue[r] # <<>>,
         Waits(r, t), ~\E k \in Len(tree.roots[r])..Len(t) : Head(queue[r]) = SubSeq(t, 1, k),
         NEW a, NEW b, NEW c,
         queue'[r] = Tail(queue[r]) \o a, a \in Seq(DOMAIN tree.entries),
         continuations'[r] = (b \o continuations[r]) \o c,
         b \in Seq(HeldBack), c \in Seq(HeldBack)
  PROVE  Waits(r, t)'
<1> DEFINE root == tree.roots[r]
           D == DOMAIN tree.entries
<1>1. queue[r] \in Seq(D) /\ continuations[r] \in Seq(HeldBack)
  BY SameList
<1>2. CASE Queued(root, t, queue[r])
  <2>1. PICK i \in DOMAIN queue[r] : \E k \in Len(root)..Len(t) : queue[r][i] = SubSeq(t, 1, k)
    BY <1>2 DEF Queued
  <2> HIDE DEF D, root
  <2>2. Tail(queue[r]) \in Seq(D)
        /\ (queue[r][i] = Head(queue[r]) \/ \E l \in DOMAIN Tail(queue[r]) : Tail(queue[r])[l] = queue[r][i])
    BY <1>1, InTail
  <2>3. queue[r][i] # Head(queue[r])
    BY <2>1 DEF root
  <2>4. Queued(root, t, Tail(queue[r]))
    BY <2>1, <2>2, <2>3 DEF Queued
  <2>5. a \in Seq(D)
    BY DEF D
  <2>6. Queued(root, t, queue'[r])
    BY <2>2, <2>4, <2>5, QueuedGrows
  <2> QED
    BY <2>6 DEF Waits, root
<1>3. CASE HeldIn(root, t, continuations[r])
  <2> HIDE DEF D, root
  <2>1. b \o continuations[r] \in Seq(HeldBack) /\ HeldIn(root, t, b \o continuations[r])
    BY <1>1, <1>3, InConcat, HeldInGrows
  <2>2. HeldIn(root, t, continuations'[r])
    BY <2>1, HeldInGrows
  <2> QED
    BY <2>2 DEF Waits, root
<1> QED
  BY <1>2, <1>3 DEF Waits


(* What Consume leaves of the lists.                                       *)
Lists(r, waiting, rest) ==
  /\ \E a \in Seq(DOMAIN tree.entries) : queue'[r] = waiting \o a
  /\ \E b \in Seq(HeldBack) : continuations'[r] = b \o rest

(* It puts directories after those that wait, and a rest before what is    *)
(* put off.                                                                *)
LEMMA ConsumeLists ==
  ASSUME Typed, NEW r \in Roots, NEW d \in DOMAIN tree.entries, NEW entries, Fits(d, entries),
         NEW waiting, NEW rest \in Seq(HeldBack), NEW ill, visited[r] <= limit[r],
         Consume(r, d, entries, waiting, rest, ill)
  PROVE  Lists(r, waiting, rest)
<1> DEFINE n == Charged(r, entries)
           D == DOMAIN tree.entries
           c == PutOff(d, entries, n)
           kept == Kept(r, d, entries, n)
<1>1. /\ limit \in Counts /\ visited \in Counts /\ queue \in [Roots -> Seq(D)]
      /\ continuations \in [Roots -> Seq(HeldBack)] /\ entries \in Seq(Entry)
  BY DEF Typed, Fits
<1>2. /\ limit[r] \in Nat /\ visited[r] \in Nat /\ Len(entries) \in Nat
      /\ DOMAIN entries = 1..Len(entries)
  BY <1>1 DEF Counts
<1>3. n \in 0..Len(entries)
  BY <1>2 DEF Charged, Lower
<1>4. \A x \in 1..n : entries[x].kind = "directory" => Append(d, entries[x].name) \in D
  BY <1>2, <1>3 DEF Fits
<1>5. /\ queue' = [queue EXCEPT ![r] = waiting \o kept]
      /\ continuations' = [continuations EXCEPT ![r] =
           IF n = Len(entries) THEN rest ELSE <<c>> \o rest]
  BY DEF Consume, PutOff
<1> HIDE DEF n, D
<1>6. kept \in Seq(D)
  BY <1>1, <1>3, <1>4, KeptHolds
<1>7. c \in HeldBack
  BY <1>3, PutOffFits DEF D
<1> HIDE DEF kept, c
<1>8. queue'[r] = waiting \o kept
  BY <1>1, <1>5
<1>9. continuations'[r] = IF n = Len(entries) THEN rest ELSE <<c>> \o rest
  BY <1>1, <1>5
<1>10. rest = <<>> \o rest
  OBVIOUS
<1>11. <<>> \in Seq(HeldBack) /\ <<c>> \in Seq(HeldBack)
  BY <1>7
<1>12. \E b \in Seq(HeldBack) : continuations'[r] = b \o rest
  <2>1. CASE n = Len(entries)
    BY <1>9, <1>10, <1>11, <2>1
  <2>2. CASE n # Len(entries)
    BY <1>9, <1>11, <2>2
  <2> QED
    BY <2>1, <2>2
<1> QED
  BY <1>6, <1>8, <1>12 DEF D, Lists

(* Inspecting a directory loses nothing: what is below it is queued or     *)
(* put off, and what it offers is recorded.                                *)
LEMMA InspectScans ==
  ASSUME Typed, NEW r \in Roots, visited[r] <= limit[r], Inspect(r)
  PROVE  Scanned(r)
<1> DEFINE D == DOMAIN tree.entries
           d == Head(queue[r])
           put == [kind |-> "children", dir |-> d, entries |-> <<>>]
           Passed == /\ ~Descends(r, d)
                     /\ queue' = [queue EXCEPT ![r] = Tail(queue[r])]
                     /\ UNCHANGED <<continuations, visited>>
           Opened(ill) == /\ Descends(r, d) /\ visited[r] < limit[r]
                          /\ Consume(r, d, Listed(d), Tail(queue[r]), continuations[r], ill)
           Put == /\ Descends(r, d) /\ visited[r] >= limit[r]
                  /\ queue' = [queue EXCEPT ![r] = Tail(queue[r])]
                  /\ continuations' = [continuations EXCEPT ![r] = Append(continuations[r], put)]
                  /\ UNCHANGED visited
<1>1. /\ Scanning(r) /\ queue[r] # <<>> /\ UNCHANGED <<tree, patterns, limit, phase, before>>
      /\ exhausted' = exhausted /\ turns' = turns /\ exhausted \in BOOLEAN
  BY DEF Inspect, Typed
<1>2. PICK broken \in BOOLEAN :
        /\ IF broken THEN UNCHANGED found ELSE Inspected(r, d)
        /\ \/ Passed /\ Report(r, broken)
           \/ Opened(broken \/ Wide(d))
           \/ Put /\ Report(r, broken)
  BY DEF Inspect
<1>3. Founds(r)
  BY <1>2, InspectedFounds DEF Founds
<1>4. queue[r] \in Seq(D) /\ continuations[r] \in Seq(HeldBack) /\ tree \in Trees
  BY SameList DEF Typed
<1>5. Tail(queue[r]) \in Seq(D) /\ d \in D
  <2> HIDE DEF D
  <2> QED
    BY <1>1, <1>4
<1>6. put \in HeldBack
  <2>1. put \in Continuation
    BY <1>5 DEF Continuation
  <2>2. put.entries = <<>>
    OBVIOUS
  <2> HIDE DEF put
  <2> QED
    BY <2>1, <2>2 DEF HeldBack
<1>7. Fits(d, Listed(d)) /\ Fits(d, tree.entries[d])
  BY <1>4, <1>5, ListedFits
<1>8. /\ queue \in [Roots -> Seq(D)] /\ continuations \in [Roots -> Seq(HeldBack)]
      /\ limit[r] \in Nat /\ visited[r] \in Nat
  BY DEF Typed, Counts
<1>9. Charges(r)
  <2> HIDE DEF d
  <2>1. CASE Passed /\ Report(r, broken)
    <3>1. continuations' = [continuations EXCEPT ![r] = continuations[r]] /\ visited' = visited
      BY <2>1, SameList
    <3>2. continuations[r] = <<>> \/ continuations[r] # <<>>
      OBVIOUS
    <3>3. queue' = [queue EXCEPT ![r] = Tail(queue[r])] /\ diagnosed' \in {diagnosed, diagnosed \cup {r}}
      BY <2>1 DEF Report
    <3> QED
      BY <1>4, <1>5, <3>1, <3>2, <3>3, ChargesBy
  <2>2. CASE Opened(broken \/ Wide(d))
    <3>1. visited[r] < limit[r] /\ Consume(r, d, Listed(d), Tail(queue[r]), continuations[r], broken \/ Wide(d))
      BY <2>2
    <3> DEFINE ill == broken \/ Wide(d)
    <3> HIDE DEF ill
    <3>2. Consume(r, d, Listed(d), Tail(queue[r]), continuations[r], ill)
      BY <3>1 DEF ill
    <3> QED
      BY <1>4, <1>5, <1>7, <3>1, <3>2, ConsumeCharges
  <2>3. CASE Put /\ Report(r, broken)
    <3>1. Append(continuations[r], put) \in Seq(HeldBack)
      <4> HIDE DEF put
      <4> QED
        BY <1>4, <1>6
    <3>2. visited[r] = limit[r]
      BY <1>8, <2>3
    <3>3. /\ queue' = [queue EXCEPT ![r] = Tail(queue[r])] /\ diagnosed' \in {diagnosed, diagnosed \cup {r}}
          /\ continuations' = [continuations EXCEPT ![r] = Append(continuations[r], put)] /\ visited' = visited
      BY <2>3 DEF Report
    <3> HIDE DEF put
    <3> QED
      BY <1>4, <1>5, <3>1, <3>2, <3>3, ChargesBy
  <2> QED
    BY <1>2, <2>1, <2>2, <2>3
<1>10. ASSUME r \notin diagnosed' PROVE Keeps(r)
  <2> SUFFICES ASSUME NEW t \in D, Offers(r, t), patterns[r] = ReadPatterns(tree.config[r]), Waits(r, t)
      PROVE Waits(r, t)' \/ Known(r, t)' \/ Choked(r)'
    BY DEF Keeps
  <2> DEFINE root == tree.roots[r]
             m == Len(root)
             n == Len(t)
  <2>1. /\ ~broken /\ (Opened(broken \/ Wide(d)) => ~Wide(d))
        /\ Inspected(r, d)
    <3>1. Report(r, broken) => ~broken
      BY <1>10 DEF Report
    <3>2. Opened(broken \/ Wide(d)) => ~broken /\ ~Wide(d)
      BY <1>10 DEF Consume, Report
    <3> QED
      BY <1>2, <3>1, <3>2
  <2>2. \/ Passed /\ queue'[r] = Tail(queue[r]) \o <<>> /\ continuations'[r] = (<<>> \o continuations[r]) \o <<>>
        \/ Put /\ queue'[r] = Tail(queue[r]) \o <<>> /\ continuations'[r] = (<<>> \o continuations[r]) \o <<put>>
        \/ /\ Opened(broken \/ Wide(d))
           /\ \E a \in Seq(D) : queue'[r] = Tail(queue[r]) \o a
           /\ \E b \in Seq(HeldBack) : continuations'[r] = (b \o continuations[r]) \o <<>>
    <3>0. /\ Tail(queue[r]) \o <<>> = Tail(queue[r])
          /\ (<<>> \o continuations[r]) \o <<>> = continuations[r]
          /\ \A b \in Seq(HeldBack) : (b \o continuations[r]) \o <<>> = b \o continuations[r]
      <4> HIDE DEF D
      <4> QED
        BY <1>4, <1>5
    <3>1. CASE Passed
      <4>1. queue'[r] = Tail(queue[r]) /\ continuations' = continuations
        BY <1>8, <3>1
      <4> QED
        BY <3>0, <3>1, <4>1
    <3>2. CASE Put
      <4>1. queue'[r] = Tail(queue[r]) /\ continuations'[r] = Append(continuations[r], put)
        BY <1>8, <3>2
      <4>2. Append(continuations[r], put) = (<<>> \o continuations[r]) \o <<put>>
        <5> HIDE DEF put
        <5> QED
          BY <1>4, <1>6
      <4> QED
        BY <3>0, <3>2, <4>1, <4>2
    <3>3. CASE Opened(broken \/ Wide(d))
      <4> DEFINE ill == broken \/ Wide(d)
      <4>1. Consume(r, d, Listed(d), Tail(queue[r]), continuations[r], ill)
        BY <3>3
      <4> HIDE DEF ill, d
      <4>2. Lists(r, Tail(queue[r]), continuations[r])
        BY <1>4, <1>5, <1>7, <4>1, ConsumeLists
      <4>3. PICK b \in Seq(HeldBack) : continuations'[r] = b \o continuations[r]
        BY <4>2 DEF Lists
      <4>4. continuations'[r] = (b \o continuations[r]) \o <<>>
        BY <3>0, <4>3
      <4>5. \E a \in Seq(D) : queue'[r] = Tail(queue[r]) \o a
        BY <4>2 DEF Lists
      <4> QED
        BY <3>3, <4>4, <4>5
    <3> QED
      BY <1>2, <3>1, <3>2, <3>3
  <2>3. CASE ~\E k \in m..n : d = SubSeq(t, 1, k)
    <3>1. <<>> \in Seq(D) /\ <<>> \in Seq(HeldBack) /\ <<put>> \in Seq(HeldBack)
      <4> HIDE DEF put, D
      <4> QED
        BY <1>6
    <3>2. PICK a \in Seq(D), b \in Seq(HeldBack), c \in Seq(HeldBack) :
            queue'[r] = Tail(queue[r]) \o a /\ continuations'[r] = (b \o continuations[r]) \o c
      <4> HIDE DEF Passed, Put, Opened, put, D, d
      <4> QED
        BY <2>2, <3>1
    <3>3. Waits(r, t)'
      <4> HIDE DEF Passed, Put, Opened, put
      <4> QED
        BY <1>1, <2>3, <3>2, RestWaits
    <3> QED
      BY <3>3
  <2>4. ASSUME NEW k \in m..n, d = SubSeq(t, 1, k)
        PROVE  Waits(r, t)' \/ Known(r, t)' \/ Choked(r)'
    <3>1. /\ m \in Nat /\ n \in Nat /\ SubSeq(t, 1, n) = t
      <4>1. IsPrefix(root, t)
        BY DEF Offers
      <4>2. t \in Path /\ root \in Path /\ SubSeq(t, 1, n) = t
        BY <1>4, <4>1, TheWayDown
      <4> QED
        BY <4>2 DEF Path
    <3>2. CASE k = n
      <4>1. d = t
        BY <2>4, <3>1, <3>2
      <4>2. Wanted(r, t) /\ t \in tree.plugins
        BY <1>4, OffersLead DEF Typed, Wanted
      <4>3. Record(r, t)
        BY <2>1, <4>1, <4>2 DEF Inspected
      <4> QED
        BY <4>2, <4>3, RecordKnows, TypedHasFound
    <3>3. CASE k # n
      <4>1. k \in m..n - 1
        <5>1. k \in m..n
          OBVIOUS
        <5> HIDE DEF m, n
        <5> QED
          BY <3>1, <3>3, <5>1
      <4>2. Descends(r, SubSeq(t, 1, k))
        BY <1>4, <4>1, OffersLead DEF Typed
      <4>3. Descends(r, d)
        BY <2>4, <4>2
      <4>4. CASE Put
        <5>1. Held(root, t, put)
          BY <2>4, <4>1 DEF Held
        <5>2. continuations'[r] = Append(continuations[r], put)
          BY <1>8, <4>4
        <5>3. /\ Len(continuations[r]) + 1 \in DOMAIN Append(continuations[r], put)
              /\ Append(continuations[r], put)[Len(continuations[r]) + 1] = put
          <6> HIDE DEF put
          <6> QED
            BY <1>4, <1>6
        <5>4. HeldIn(root, t, continuations'[r])
          <6> HIDE DEF put, root
          <6> QED
            BY <5>1, <5>2, <5>3 DEF HeldIn
        <5> QED
          BY <1>1, <5>4 DEF Waits
      <4>5. CASE Opened(broken \/ Wide(d))
        <5> DEFINE ill == broken \/ Wide(d)
        <5>1. Consume(r, d, Listed(d), Tail(queue[r]), continuations[r], ill) /\ Listed(d) = tree.entries[d]
          BY <2>1, <4>5 DEF Listed
        <5> HIDE DEF ill
        <5>2. Holds(tree.entries[SubSeq(t, 1, k)], [name |-> t[k + 1], kind |-> "directory"])
          <6>1. IsPrefix(root, t)
            BY DEF Offers
          <6> QED
            BY <1>4, <4>1, <6>1, TheWayDown DEF Holds
        <5>3. Holds(Listed(d), [name |-> t[k + 1], kind |-> "directory"])
          BY <2>4, <5>1, <5>2
        <5>4. tree' = tree
          BY <1>1
        <5>5. Waits(r, t)'
          <6> HIDE DEF d
          <6> QED
            BY <1>4, <1>5, <1>7, <2>4, <4>1, <5>1, <5>3, <5>4, ConsumeKeeps
        <5> QED
          BY <5>5
      <4> QED
        BY <1>2, <4>3, <4>4, <4>5
    <3> QED
      BY <3>2, <3>3
  <2> QED
    BY <2>3, <2>4
<1> QED
  BY <1>1, <1>3, <1>9, <1>10 DEF Scanned

(* What was put off first is taken up first.                               *)
LEMMA PostponedFits ==
  ASSUME Typed, NEW r \in Roots, continuations[r] # <<>>
  PROVE  /\ Head(continuations[r]) \in HeldBack /\ Tail(continuations[r]) \in Seq(HeldBack)
         /\ continuations[r] \in Seq(HeldBack)
         /\ Head(continuations[r]).dir \in DOMAIN tree.entries
         /\ Fits(Head(continuations[r]).dir, Postponed(r))
<1> DEFINE top == Head(continuations[r])
<1>1. continuations[r] \in Seq(HeldBack) /\ tree \in Trees
  BY DEF Typed
<1>2. top \in HeldBack /\ Tail(continuations[r]) \in Seq(HeldBack)
  BY <1>1, InTail
<1> HIDE DEF top
<1>3. top.dir \in DOMAIN tree.entries /\ Fits(top.dir, top.entries)
  BY <1>2, HeldBackFields
<1>4. Fits(top.dir, Listed(top.dir))
  BY <1>1, <1>3, ListedFits
<1>5. Postponed(r) = IF top.kind = "entries" THEN top.entries ELSE Listed(top.dir)
  BY DEF Postponed, top
<1>6. Fits(top.dir, Postponed(r))
  BY <1>3, <1>4, <1>5
<1> QED
  BY <1>1, <1>2, <1>3, <1>6 DEF top

(* Resuming loses nothing.                                                 *)
LEMMA ResumeScans ==
  ASSUME Typed, NEW r \in Roots, visited[r] <= limit[r], Resume(r)
  PROVE  Scanned(r)
<1> DEFINE top == Head(continuations[r])
           rest == Tail(continuations[r])
           D == DOMAIN tree.entries
           ill == top.kind = "children" /\ Wide(top.dir)
           d == top.dir
           root == tree.roots[r]
<1>1. /\ Scanning(r) /\ queue[r] = <<>> /\ visited[r] < limit[r] /\ continuations[r] # <<>>
      /\ UNCHANGED <<tree, patterns, limit, phase, before>> /\ UNCHANGED found
      /\ exhausted' = exhausted /\ turns' = turns /\ exhausted \in BOOLEAN
      /\ Consume(r, d, Postponed(r), <<>>, rest, ill)
  BY DEF Resume, Resumable, Typed
<1>2. /\ top \in HeldBack /\ rest \in Seq(HeldBack) /\ continuations[r] \in Seq(HeldBack)
      /\ d \in D /\ Fits(d, Postponed(r)) /\ <<>> \in Seq(D) /\ tree \in Trees
  <2>1. <<>> \in Seq(D)
    <3> HIDE DEF D
    <3> QED
      OBVIOUS
  <2> QED
    BY <1>1, <2>1, PostponedFits DEF Typed
<1> HIDE DEF ill, d, rest
<1>3. Charges(r)
  <2>1. rest # <<>> => continuations[r] # <<>>
    BY <1>1
  <2> QED
    BY <1>1, <1>2, <2>1, ConsumeCharges
<1>4. Founds(r)
  BY <1>1 DEF Founds
<1>5. ASSUME r \notin diagnosed' PROVE Keeps(r)
  <2> SUFFICES ASSUME NEW t \in D, Offers(r, t), patterns[r] = ReadPatterns(tree.config[r]), Waits(r, t)
      PROVE Waits(r, t)'
    BY DEF Keeps
  <2>0. ~ill
    BY <1>1, <1>5 DEF Consume, Report
  <2>1. Lists(r, <<>>, rest)
    BY <1>1, <1>2, ConsumeLists
  <2>2. PICK b \in Seq(HeldBack) : continuations'[r] = b \o rest
    BY <2>1 DEF Lists
  <2>3. HeldIn(root, t, continuations[r])
    <3>1. ~Queued(root, t, queue[r])
      BY <1>1 DEF Queued
    <3> QED
      BY <3>1 DEF Waits
  <2>4. PICK i \in DOMAIN continuations[r] : Held(root, t, continuations[r][i])
    BY <2>3 DEF HeldIn
  <2>5. continuations[r][i] = top \/ \E l \in DOMAIN rest : rest[l] = continuations[r][i]
    BY <1>1, <1>2, InTail DEF rest
  <2>6. CASE \E l \in DOMAIN rest : rest[l] = continuations[r][i]
    <3>1. HeldIn(root, t, rest)
      BY <2>4, <2>6 DEF HeldIn
    <3> HIDE DEF root
    <3>2. HeldIn(root, t, continuations'[r])
      BY <1>2, <2>2, <3>1, HeldInGrows
    <3> QED
      BY <1>1, <3>2 DEF Waits, root
  <2>7. CASE Held(root, t, top)
    <3>1. PICK k \in Len(root)..Len(t) - 1 :
            /\ d = SubSeq(t, 1, k)
            /\ top.kind = "children" \/ Holds(top.entries, [name |-> t[k + 1], kind |-> "directory"])
      BY <2>7 DEF Held, Holds, d
    <3>2. Holds(Postponed(r), [name |-> t[k + 1], kind |-> "directory"])
      <4>1. CASE top.kind = "children"
        <5>1. Postponed(r) = tree.entries[d]
          <6>1. ~Wide(d) /\ top.kind # "entries"
            BY <2>0, <4>1 DEF ill, d
          <6> QED
            BY <6>1 DEF Postponed, Listed, d
        <5>2. IsPrefix(root, t)
          BY DEF Offers
        <5>3. Holds(tree.entries[SubSeq(t, 1, k)], [name |-> t[k + 1], kind |-> "directory"])
          BY <1>2, <3>1, <5>2, TheWayDown DEF Holds
        <5> QED
          BY <3>1, <5>1, <5>3
      <4>2. CASE top.kind # "children"
        <5>1. Postponed(r) = top.entries
          <6>1. top.kind \in {"entries", "children"}
            <7> HIDE DEF top
            <7> QED
              BY <1>2, HeldBackFields
          <6> QED
            BY <4>2, <6>1 DEF Postponed
        <5> QED
          BY <3>1, <4>2, <5>1
      <4> QED
        BY <4>1, <4>2
    <3>3. tree' = tree
      BY <1>1
    <3> QED
      BY <1>1, <1>2, <3>1, <3>2, <3>3, ConsumeKeeps
  <2> QED
    BY <2>4, <2>5, <2>6, <2>7
<1> QED
  BY <1>1, <1>3, <1>4, <1>5 DEF Scanned

(* A directory that cannot be read any more is reported.                   *)
LEMMA ResumeFailsScans ==
  ASSUME Typed, NEW r \in Roots, visited[r] <= limit[r], ResumeFails(r)
  PROVE  Scanned(r)
<1>1. /\ Scanning(r) /\ continuations[r] # <<>>
      /\ continuations' = [continuations EXCEPT ![r] = Tail(continuations[r])]
      /\ diagnosed' = diagnosed \cup {r} /\ UNCHANGED <<tree, patterns, limit, phase, before>>
      /\ exhausted' = exhausted /\ turns' = turns /\ queue' = queue /\ visited' = visited /\ UNCHANGED found
  BY DEF ResumeFails, Resumable, Diagnose, Report, budgets
<1>2. Founds(r)
  BY <1>1 DEF Founds
<1>3. Tail(continuations[r]) \in Seq(HeldBack)
  BY <1>1, PostponedFits
<1>4. queue' = [queue EXCEPT ![r] = queue[r]] /\ queue[r] \in Seq(DOMAIN tree.entries)
  BY <1>1, SameList
<1>5. Charges(r)
  BY <1>1, <1>3, <1>4, ChargesBy
<1>6. exhausted \in BOOLEAN
  BY DEF Typed
<1> QED
  BY <1>1, <1>2, <1>5, <1>6 DEF Scanned

(* Matching that runs out of work is reported.                             *)
LEMMA ResumeExhaustsScans ==
  ASSUME Typed, NEW r \in Roots, visited[r] <= limit[r], ResumeExhausts(r)
  PROVE  Scanned(r)
<1> DEFINE top == Head(continuations[r])
           rest == Tail(continuations[r])
           D == DOMAIN tree.entries
           d == top.dir
<1>1. /\ Scanning(r) /\ visited[r] < limit[r] /\ continuations[r] # <<>>
      /\ UNCHANGED <<tree, patterns, limit, phase, before>> /\ UNCHANGED found
      /\ ConsumeUntilExhausted(r, d, Postponed(r), <<>>, rest)
  BY DEF ResumeExhausts, Resumable
<1>2. /\ rest \in Seq(HeldBack) /\ d \in D /\ Fits(d, Postponed(r)) /\ <<>> \in Seq(D)
  <2>1. <<>> \in Seq(D)
    <3> HIDE DEF D
    <3> QED
      OBVIOUS
  <2> QED
    BY <1>1, <2>1, PostponedFits
<1> HIDE DEF d, rest
<1>3. Charges(r)
  <2>1. rest # <<>> => continuations[r] # <<>>
    BY <1>1
  <2> QED
    BY <1>1, <1>2, <2>1, ExhaustCharges
<1>4. Founds(r)
  BY <1>1 DEF Founds
<1>5. exhausted' = TRUE /\ turns' = turns \ {r} /\ diagnosed' = diagnosed \cup {r}
  BY <1>1 DEF ConsumeUntilExhausted, Diagnose, Report
<1> QED
  BY <1>1, <1>3, <1>4, <1>5 DEF Scanned, Ends

(* Every step of a turn is such a step.                                    *)
LEMMA TurnScans ==
  ASSUME Typed, NEW r \in Roots, visited[r] <= limit[r],
         \/ Inspect(r) \/ InspectFails(r) \/ InspectExhausts(r)
         \/ Resume(r) \/ ResumeFails(r) \/ ResumeExhausts(r)
         \/ EndTurn(r)
  PROVE  Scanned(r)
  BY InspectScans, InspectFailsScans, InspectExhaustsScans, ResumeScans, ResumeFailsScans,
     ResumeExhaustsScans, EndTurnScans

-----------------------------------------------------------------------------
(* The invariant, and what the steps of a turn keep of it.                 *)

(* What a root may still spend, or has spent once its turn is over.        *)
Holding == [r \in Roots |-> IF phase = "read" \/ r \in turns THEN limit[r] ELSE visited[r]]

(* The budget of entries: each root has its fair share at least, a root    *)
(* cut short has used its limit up, and together they hold no more than    *)
(* there is.                                                               *)
Spends ==
  /\ \A r \in Roots : visited[r] <= limit[r] /\ FairShare(MaxEntries, Count, r) <= limit[r]
  /\ phase \in {"read", "share"} => limit = Shares(MaxEntries)
  /\ phase = "share" => \A r \in Roots : continuations[r] # <<>> => visited[r] = limit[r]
  /\ phase # "read" => \A r \in Roots \ turns :
       (continuations[r] # <<>> /\ (~exhausted \/ r \notin diagnosed)) => visited[r] = limit[r]
  /\ ~exhausted => Total(Holding) <= MaxEntries

(* Configurations are read first, and a turn ends with an empty queue.     *)
AtWork ==
  /\ \A r \in Roots : \/ r \in turns /\ phase = "read"
                      \/ r \in diagnosed
                      \/ patterns[r] = ReadPatterns(tree.config[r])
  /\ phase = "read" =>
       \A r \in Roots : queue[r] = <<tree.roots[r]>> /\ continuations[r] = <<>> /\ visited[r] = 0
  /\ phase # "read" => \A r \in Roots : r \in turns \/ r \in diagnosed \/ queue[r] = <<>>
  /\ phase = "done" => turns = {}

(* What a root offers and has not been found yet, waits.                   *)
NotLost ==
  phase \in {"share", "borrow"} =>
    \A r \in Roots \ diagnosed : \A t \in DOMAIN tree.entries :
      Offers(r, t) => Waits(r, t) \/ Known(r, t) \/ Choked(r)

(* Holdings are numbers.                                                   *)
LEMMA HoldingType == Typed => Holding \in Counts
  BY DEF Typed, Holding, Counts

(* What Charges says, one by one.                                          *)
LEMMA ChargesFields ==
  ASSUME NEW r \in Roots, Charges(r)
  PROVE  /\ queue' \in [Roots -> Seq(DOMAIN tree.entries)]
         /\ continuations' \in [Roots -> Seq(HeldBack)] /\ visited' \in Counts
         /\ \A s \in Roots : s # r => /\ queue'[s] = queue[s] /\ continuations'[s] = continuations[s]
                                      /\ visited'[s] = visited[s]
         /\ visited[r] <= visited'[r] /\ visited'[r] <= limit[r]
         /\ continuations'[r] # <<>> =>
              visited'[r] = limit[r] \/ (continuations[r] # <<>> /\ visited[r] < limit[r])
         /\ diagnosed \subseteq diagnosed'
<1>1. diagnosed' \in {diagnosed, diagnosed \cup {r}}
  BY DEF Charges
<1>2. diagnosed \subseteq diagnosed'
  BY <1>1
<1>3.  \A s \in Roots \ {r} : /\ queue'[s] = queue[s] /\ continuations'[s] = continuations[s]
                            /\ visited'[s] = visited[s]
  BY DEF Charges
<1>4. /\ queue' \in [Roots -> Seq(DOMAIN tree.entries)]
      /\ continuations' \in [Roots -> Seq(HeldBack)] /\ visited' \in Counts
      /\ visited[r] <= visited'[r] /\ visited'[r] <= limit[r]
      /\ continuations'[r] # <<>> =>
           visited'[r] = limit[r] \/ (continuations[r] # <<>> /\ visited[r] < limit[r])
  BY DEF Charges
<1>5. \A s \in Roots : s # r => queue'[s] = queue[s] /\ continuations'[s] = continuations[s]
                            /\ visited'[s] = visited[s]
  BY <1>3
<1> QED
  BY <1>2, <1>4, <1>5

(* Each part of the invariant, kept by a step of a turn.                   *)
LEMMA ScannedTyped ==
  ASSUME Typed, NEW r \in Roots, Scanned(r)
  PROVE  Typed'
<1>1. TypedFound'
  BY TypedHasFound, RecordTypes DEF Scanned
<1>2. /\ tree' = tree /\ patterns' = patterns /\ limit' = limit /\ phase' = phase /\ before' = before
      /\ Charges(r) /\ exhausted' \in BOOLEAN /\ turns' \subseteq turns
  BY DEF Scanned, Ends
<1>3. /\ queue' \in [Roots -> Seq(DOMAIN tree'.entries)]
      /\ visited' \in Counts /\ diagnosed' \subseteq Roots
  BY <1>2 DEF Charges, Typed
<1>4. continuations' \in [Roots -> Seq(HeldBack')]
  <2>1. HeldBack' = HeldBack
    BY <1>2 DEF HeldBack, Continuation
  <2> QED
    BY <1>2, <2>1 DEF Charges
<1> QED
  BY <1>1, <1>2, <1>3, <1>4 DEF Typed, TypedFound

(* The budget of entries is kept.                                          *)
LEMMA ScannedSpends ==
  ASSUME Typed, Spends, NEW r \in Roots, Scanned(r)
  PROVE  Spends'
<1>1. /\ limit' = limit /\ phase' = phase /\ phase \in {"share", "borrow"} /\ r \in turns
      /\ Charges(r) /\ (exhausted => exhausted') /\ (turns' = turns \/ Ends(r))
  BY DEF Scanned, Scanning, Turn
<1>2. /\ \A s \in Roots : s # r => continuations'[s] = continuations[s] /\ visited'[s] = visited[s]
      /\ visited'[r] <= limit[r] /\ diagnosed \subseteq diagnosed'
      /\ continuations'[r] # <<>> =>
           visited'[r] = limit[r] \/ (continuations[r] # <<>> /\ visited[r] < limit[r])
  BY <1>1, ChargesFields
<1>3. turns' = turns \/ turns' = turns \ {r}
  BY <1>1 DEF Ends
<1>4. \A s \in Roots : limit[s] \in Nat /\ visited[s] \in Nat /\ visited'[s] \in Nat
  BY <1>1, ChargesFields DEF Typed, Counts
<1>5. \A s \in Roots : visited'[s] <= limit'[s] /\ FairShare(MaxEntries, Count, s) <= limit'[s]
  BY <1>1, <1>2 DEF Spends
<1>6. phase' \in {"read", "share"} => limit' = Shares(MaxEntries)
  BY <1>1 DEF Spends
<1>7. ASSUME phase' = "share", NEW s \in Roots, continuations'[s] # <<>> PROVE visited'[s] = limit'[s]
  <2>1. CASE s = r
    <3>1. continuations[r] # <<>> => ~(visited[r] < limit[r])
      BY <1>1, <1>4, <1>7 DEF Spends
    <3> QED
      BY <1>1, <1>2, <1>7, <2>1, <3>1
  <2>2. CASE s # r
    BY <1>1, <1>2, <1>7, <2>2 DEF Spends
  <2> QED
    BY <2>1, <2>2
<1>8. ASSUME NEW s \in Roots \ turns', continuations'[s] # <<>>, ~exhausted' \/ s \notin diagnosed'
      PROVE  visited'[s] = limit'[s]
  <2>1. CASE s = r
    <3>1. Ends(r)
      BY <1>1, <1>8, <2>1
    <3> QED
      BY <1>1, <1>8, <2>1, <3>1 DEF Ends
  <2>2. CASE s # r
    <3>1. s \in Roots \ turns
      BY <1>3, <1>8, <2>2
    <3>2. continuations[s] # <<>>
      BY <1>2, <1>8, <2>2
    <3>3. ~exhausted \/ s \notin diagnosed
      BY <1>1, <1>2, <1>8
    <3>4. visited[s] = limit[s]
      BY <1>1, <3>1, <3>2, <3>3 DEF Spends
    <3> QED
      BY <1>1, <1>2, <2>2, <3>4
  <2> QED
    BY <2>1, <2>2
<1>9. ASSUME ~exhausted' PROVE Total(Holding') <= MaxEntries
  <2>1. Typed'
    BY ScannedTyped
  <2>2. Holding \in Counts /\ Holding' \in Counts
    <3>1. Typed' => (Holding \in Counts)'
      BY HoldingType, PTL
    <3> QED
      BY <2>1, <3>1, HoldingType
  <2>3. \A s \in Roots : Holding'[s] <= Holding[s]
    <3> SUFFICES ASSUME NEW s \in Roots PROVE Holding'[s] <= Holding[s]
      OBVIOUS
    <3>1. Holding[s] = (IF s \in turns THEN limit[s] ELSE visited[s])
      BY <1>1 DEF Holding
    <3>2. Holding'[s] = (IF s \in turns' THEN limit[s] ELSE visited'[s])
      BY <1>1 DEF Holding
    <3>3. CASE s = r
      BY <1>1, <1>2, <1>4, <3>1, <3>2, <3>3
    <3>4. CASE s # r
      BY <1>2, <1>3, <1>4, <3>1, <3>2, <3>4
    <3> QED
      BY <3>3, <3>4
  <2>4. Total(Holding') <= Total(Holding) /\ Total(Holding') \in Nat /\ Total(Holding) \in Nat
    BY <2>2, <2>3, TotalMonotone, UpToSteps
  <2>5. ~exhausted
    BY <1>1, <1>9
  <2>6. Total(Holding) <= MaxEntries /\ MaxEntries \in Nat
    BY <2>5, CountIsNat DEF Spends
  <2> QED
    BY <2>4, <2>6
<1>10. Total(Holding)' = Total(Holding')
  BY DEF Total
<1> QED
  BY <1>5, <1>6, <1>7, <1>8, <1>9, <1>10 DEF Spends

(* So is the order of the work.                                            *)
LEMMA ScannedAtWork ==
  ASSUME Typed, AtWork, NEW r \in Roots, Scanned(r)
  PROVE  AtWork'
<1>1. /\ tree' = tree /\ patterns' = patterns /\ phase' = phase /\ phase \in {"share", "borrow"} /\ r \in turns
      /\ Charges(r) /\ (turns' = turns \/ Ends(r))
  BY DEF Scanned, Scanning, Turn
<1>2. \A s \in Roots : s # r => queue'[s] = queue[s] /\ (s \in turns => s \in turns')
  BY <1>1, ChargesFields DEF Ends
<1>3. diagnosed \subseteq diagnosed'
  BY <1>1, ChargesFields
<1>4. r \in turns' \/ r \in diagnosed' \/ queue'[r] = <<>>
  BY <1>1 DEF Ends
<1> QED
  BY <1>1, <1>2, <1>3, <1>4 DEF AtWork

(* What the root offers is not lost, nor is what the others offer.         *)
LEMMA ScannedNotLost ==
  ASSUME Typed, AtWork, NotLost, NEW r \in Roots, Scanned(r)
  PROVE  NotLost'
<1>1. /\ tree' = tree /\ patterns' = patterns /\ phase' = phase /\ phase \in {"share", "borrow"}
      /\ Charges(r) /\ Founds(r) /\ (r \notin diagnosed' => Keeps(r))
  BY DEF Scanned, Scanning
<1> SUFFICES ASSUME NEW s \in Roots \ diagnosed', NEW t \in DOMAIN tree'.entries, Offers(s, t)'
    PROVE  Waits(s, t)' \/ Known(s, t)' \/ Choked(s)'
  BY DEF NotLost
<1>2. Offers(s, t) /\ s \in Roots \ diagnosed /\ t \in DOMAIN tree.entries
  BY <1>1, ChargesFields DEF Offers, Below
<1>3. Waits(s, t) \/ Known(s, t) \/ Choked(s)
  BY <1>1, <1>2 DEF NotLost
<1>4. CASE Known(s, t) \/ Choked(s)
  BY <1>1, <1>4, TypedHasFound, RecordGrows
<1>5. CASE Waits(s, t) /\ s # r
  <2>1. queue'[s] = queue[s] /\ continuations'[s] = continuations[s]
    BY <1>1, <1>5, ChargesFields
  <2> QED
    BY <1>1, <1>5, <2>1 DEF Waits
<1>6. CASE Waits(s, t) /\ s = r
  <2>1. patterns[r] = ReadPatterns(tree.config[r])
    BY <1>1, <1>2, <1>6 DEF AtWork
  <2> QED
    BY <1>1, <1>2, <1>6, <2>1 DEF Keeps
<1> QED
  BY <1>3, <1>4, <1>5, <1>6

(* The candidates are kept count of.                                       *)
LEMMA ScannedOffer ==
  ASSUME Typed, Offer, NEW r \in Roots, Scanned(r)
  PROVE  Offer'
<1>1. tree' = tree /\ phase' = phase /\ phase \in {"share", "borrow"} /\ Founds(r)
  BY DEF Scanned, Scanning
<1>2. Offered'
  BY <1>1, TypedHasFound, RecordOffers DEF Offer
<1> QED
  BY <1>1, <1>2 DEF Offer

(* A root that is not cut short has found all that it offers.              *)
AllFound ==
  phase = "done" =>
    \A r \in Roots \ diagnosed : continuations[r] = <<>> =>
      \A t \in DOMAIN tree.entries : Offers(r, t) => t \in candidates /\ r \in discovering[t]

(* With two roots at most, one alone borrows, and as long as it can spend  *)
(* more the round will have visited something.                             *)
Rounds ==
  /\ (Count <= 2 /\ phase = "borrow") =>
       \E q \in Roots :
         /\ \A r \in Roots : r # q => r \notin turns /\ continuations[r] = <<>>
         /\ limit[q] + Used > visited[q] + before
  /\ (Count <= 2 /\ phase = "done") => \A r \in Roots \ diagnosed : continuations[r] = <<>>

(* No root has more candidates accepted than there may be.                 *)
Modest == \A r \in Roots : accepted[r] <= MaxCandidates

(* The inductive invariant.                                                *)
ScanInv ==
  /\ Typed /\ Spends /\ AtWork /\ NotLost
  /\ Offer /\ Modest /\ AllFound /\ Rounds

(* No candidate is left over at first.                                     *)
LEMMA EmptySpilled ==
  ASSUME \A r \in Roots : overflow[r] = <<>>
  PROVE  Spilled = {}
<1>1. SUFFICES ASSUME NEW s \in Spilled PROVE FALSE
  OBVIOUS
<1>2. s[1] \in 1..MaxCandidates /\ s[2] \in Roots /\ s[1] <= Len(overflow[s[2]])
  BY <1>1 DEF Spilled
<1>3. overflow[s[2]] = <<>>
  BY <1>2
<1>4. Len(overflow[s[2]]) = 0
  BY <1>3
<1>5. s[1] <= 0
  BY <1>2, <1>4
<1>6. s[1] \in Nat /\ s[1] >= 1
  BY <1>2, CountIsNat
<1> QED
  BY <1>5, <1>6

(* It holds at first.                                                      *)
LEMMA StartsWell ==
  ASSUME Init
  PROVE  ScanInv
<1>0. Count \in Nat /\ Count > 0 /\ Roots = 1..Count /\ MaxEntries \in Nat /\ MaxCandidates \in Nat
  BY CountIsNat
<1>1. Grown(tree) /\ tree \in Trees
  BY ScanAssumption DEF Init
<1>2. \A r \in Roots : tree.roots[r] \in DOMAIN tree.entries
  BY <1>1 DEF Grown
<1>3. /\ patterns = [r \in Roots |-> <<>>] /\ queue = [r \in Roots |-> <<tree.roots[r]>>]
      /\ continuations = [r \in Roots |-> <<>>]
      /\ limit = Shares(MaxEntries)
      /\ visited = [r \in Roots |-> 0] /\ accepted = [r \in Roots |-> 0]
      /\ overflow = [r \in Roots |-> <<>>] /\ candidates = {} /\ discovering = [d \in {} |-> {}]
      /\ diagnosed = {} /\ exhausted = FALSE /\ turns = Roots /\ phase = "read" /\ before = 0
  BY DEF Init, Shares
<1>4. limit \in Counts /\ Total(limit) = MaxEntries /\ visited \in Counts /\ accepted \in Counts
  BY <1>0, <1>3, SharesOfAll DEF Counts
<1>5. DOMAIN discovering = {}
  BY <1>3
<1>6. Typed
  <2>1. patterns \in [Roots -> Rules]
    BY <1>3 DEF Rules
  <2>2. queue \in [Roots -> Seq(DOMAIN tree.entries)]
    <3> DEFINE D == DOMAIN tree.entries
    <3>1. \A r \in Roots : <<tree.roots[r]>> \in Seq(D)
      <4>1. \A r \in Roots : tree.roots[r] \in D
        BY <1>2
      <4> HIDE DEF D
      <4> QED
        BY <4>1
    <3> QED
      BY <1>3, <3>1
  <2>3. continuations \in [Roots -> Seq(HeldBack)]
    BY <1>3
  <2>4. overflow \in [Roots -> Seq(tree.plugins)] /\ \A r \in Roots : Len(overflow[r]) <= MaxCandidates
    BY <1>0, <1>3
  <2>5. IsFiniteSet(candidates)
    BY <1>3, FS_EmptySet
  <2> QED
    BY <1>1, <1>3, <1>4, <1>5, <2>1, <2>2, <2>3, <2>4, <2>5 DEF Typed
<1>7. Spends
  <2>1. \A r \in Roots : visited[r] = 0 /\ limit[r] = FairShare(MaxEntries, Count, r) /\ limit[r] \in Nat
    BY <1>3, <1>4 DEF Shares, Counts
  <2>2. Holding = limit
    BY <1>3, <1>4 DEF Holding, Counts
  <2>3. Total(Holding) <= MaxEntries
    BY <1>0, <1>4, <2>2
  <2> QED
    BY <1>3, <2>1, <2>3 DEF Spends
<1>8. AtWork
  BY <1>3 DEF AtWork
<1>9. Offer /\ Modest
  <2>1. Spilled = {}
    BY <1>3, EmptySpilled
  <2>2. Cardinality(candidates) = 0 /\ Total(accepted) = 0
    BY <1>3, FS_EmptySet, TotalOfNone
  <2>3. \A r \in Roots : accepted[r] = 0 /\ overflow[r] = <<>>
    BY <1>3
  <2>4. \A r \in Roots : accepted[r] <= FairShare(MaxCandidates, Count, r) /\ accepted[r] <= MaxCandidates
    BY <1>0, <2>3, ShareIsNat
  <2> QED
    BY <1>3, <1>5, <2>1, <2>2, <2>3, <2>4 DEF Offer, Offered, Modest
<1> QED
  BY <1>3, <1>6, <1>7, <1>8, <1>9 DEF ScanInv, NotLost, AllFound, Rounds

(* A step that changes nothing keeps it.                                   *)
LEMMA RestKeeps ==
  ASSUME ScanInv, UNCHANGED vars
  PROVE  ScanInv'
<1>1. /\ UNCHANGED <<tree, patterns, queue, continuations, limit, visited, accepted, overflow,
                     candidates, discovering, diagnosed, exhausted, turns, phase, before>>
  BY DEF vars, budgets, found
<1>2. Typed'
  BY <1>1 DEF ScanInv, Typed, HeldBack, Continuation
<1>3. Spends' /\ AtWork' /\ Modest'
  BY <1>1 DEF ScanInv, Spends, Holding, AtWork, Modest, Total
<1>4. NotLost' /\ AllFound'
  BY <1>1 DEF ScanInv, NotLost, AllFound, Offers, Waits, Known, Choked, Below
<1>5. Offer'
  BY <1>1 DEF ScanInv, Offer, Offered, Total, Spilled, Spill
<1>6. Rounds'
  BY <1>1 DEF ScanInv, Rounds, Used, Total
<1> QED
  BY <1>2, <1>3, <1>4, <1>5, <1>6 DEF ScanInv

(* Reading a configuration keeps it; with the last one the scan begins,    *)
(* each root waiting for all that it offers.                               *)
LEMMA ConfigureKeeps ==
  ASSUME ScanInv, NEW r \in Roots, Configure(r)
  PROVE  ScanInv'
<1>1. /\ phase = "read" /\ r \in turns
      /\ UNCHANGED <<tree, queue, continuations, limit, visited, accepted, overflow,
                     candidates, discovering, exhausted, before>>
      /\ \/ /\ ReadPatterns(tree.config[r]) # Bad
            /\ patterns' = [patterns EXCEPT ![r] = ReadPatterns(tree.config[r])]
            /\ diagnosed' = diagnosed
         \/ diagnosed' = diagnosed \cup {r} /\ patterns' = patterns
      /\ \/ turns = {r} /\ turns' = Roots /\ phase' = "share"
         \/ turns' = turns \ {r} /\ phase' = "read"
  BY DEF Configure, Turn, Diagnose, Report, budgets, found
<1>2. Typed /\ tree \in Trees /\ Grown(tree) /\ turns \subseteq Roots
  BY ScanAssumption DEF ScanInv, Typed
<1>3. Typed'
  <2>1. patterns' \in [Roots -> Rules] /\ diagnosed' \subseteq Roots
    <3>1. tree.config[r] \in Configuration
      BY <1>2 DEF Grown
    <3>2. patterns \in [Roots -> Rules] /\ diagnosed \subseteq Roots
      BY <1>2 DEF Typed
    <3>3. PICK rules : rules = ReadPatterns(tree.config[r])
      OBVIOUS
    <3>4. rules # Bad => rules \in Rules
      BY <3>1, <3>3, ReadPatternsType
    <3>5. patterns' = patterns \/ (rules \in Rules /\ patterns' = [patterns EXCEPT ![r] = rules])
      BY <1>1, <3>3, <3>4
    <3>6. patterns' \in [Roots -> Rules]
      BY <3>2, <3>5
    <3> QED
      BY <1>1, <3>2, <3>6
  <2> QED
    BY <1>1, <1>2, <2>1 DEF Typed, HeldBack, Continuation
<1>4. Spends'
  <2>1. phase' \in {"read", "share"} /\ limit = Shares(MaxEntries)
    BY <1>1 DEF ScanInv, Spends
  <2>2. \A s \in Roots : continuations'[s] = <<>>
    BY <1>1 DEF ScanInv, AtWork
  <2>3. Holding' = Holding
    BY <1>1 DEF Holding
  <2>4. Total(Holding)' = Total(Holding')
    BY DEF Total
  <2> QED
    BY <1>1, <2>1, <2>2, <2>3, <2>4 DEF ScanInv, Spends
<1>5. AtWork'
  <2>1. ASSUME NEW s \in Roots
        PROVE  (s \in turns' /\ phase' = "read") \/ s \in diagnosed' \/ patterns'[s] = ReadPatterns(tree.config[s])
    <3>1. CASE s = r
      BY <1>1, <1>2, <3>1 DEF Typed
    <3>2. CASE s # r
      <4>1. (s \in turns /\ phase = "read") \/ s \in diagnosed \/ patterns[s] = ReadPatterns(tree.config[s])
        BY DEF ScanInv, AtWork
      <4>2. patterns'[s] = patterns[s] /\ (s \in diagnosed => s \in diagnosed')
        BY <1>1, <1>2, <3>2 DEF Typed
      <4>3. s \in turns => s \in turns' /\ phase' = "read"
        BY <1>1, <3>2
      <4> QED
        BY <4>1, <4>2, <4>3
    <3> QED
      BY <3>1, <3>2
  <2> QED
    BY <1>1, <2>1 DEF ScanInv, AtWork
<1>6. Offer' /\ Modest'
  <2>1. Spilled' = Spilled /\ \A s : Spill(s)' = Spill(s)
    BY <1>1 DEF Spilled, Spill
  <2>2. Total(accepted)' = Total(accepted)
    BY <1>1 DEF Total
  <2> QED
    BY <1>1, <2>1, <2>2 DEF ScanInv, Offer, Offered, Modest
<1>7. NotLost'
  <2> SUFFICES ASSUME NEW s \in Roots, NEW t \in DOMAIN tree'.entries, Offers(s, t)'
      PROVE  Waits(s, t)'
    BY DEF NotLost
  <2> DEFINE root == tree.roots[s]
  <2>1. IsPrefix(root, t) /\ t \in DOMAIN tree.entries /\ tree' = tree
    BY <1>1 DEF Offers
  <2>2. queue'[s] = <<root>> /\ queue[s] = <<root>>
    BY <1>1 DEF ScanInv, AtWork
  <2>3. Len(root) \in Len(root)..Len(t) /\ SubSeq(t, 1, Len(root)) = root
    <3>1. t \in Path /\ root \in Path /\ Len(root) <= Len(t) /\ SubSeq(t, 1, Len(root)) = root
      BY <1>2, <2>1, TheWayDown
    <3>2. Len(root) \in Nat /\ Len(t) \in Nat
      BY <3>1 DEF Path
    <3> QED
      BY <3>1, <3>2
  <2>4. 1 \in DOMAIN queue'[s] /\ queue'[s][1] = root
    BY <2>2
  <2>5. Queued(root, t, queue'[s])
    BY <2>3, <2>4 DEF Queued
  <2> QED
    BY <2>1, <2>5 DEF Waits
<1> QED
  BY <1>1, <1>3, <1>4, <1>5, <1>6, <1>7 DEF ScanInv, AllFound, Rounds

(* A root that borrows alone visits what it spends.                        *)
LEMMA ScannedRounds ==
  ASSUME Typed, Rounds, NEW r \in Roots, Scanned(r)
  PROVE  Rounds'
<1>1. /\ limit' = limit /\ phase' = phase /\ before' = before /\ phase \in {"share", "borrow"}
      /\ r \in turns /\ Charges(r) /\ turns' \subseteq turns
  BY DEF Scanned, Scanning, Turn, Ends
<1>2. SUFFICES ASSUME Count <= 2, phase = "borrow" PROVE Rounds'
  BY <1>1 DEF Rounds
<1>3. PICK q \in Roots : /\ \A s \in Roots : s # q => s \notin turns /\ continuations[s] = <<>>
                         /\ limit[q] + Used > visited[q] + before
  BY <1>2 DEF Rounds
<1>4. r = q
  BY <1>1, <1>3
<1>5. \A s \in Roots : s # q => s \notin turns' /\ continuations'[s] = <<>>
  BY <1>1, <1>3, <1>4, ChargesFields
<1>6. limit'[q] + Used' > visited'[q] + before'
  <2>1. visited \in Counts /\ visited' \in Counts /\ \A s \in Roots : s # q => visited'[s] = visited[s]
    BY <1>1, <1>4, ChargesFields DEF Typed
  <2>2. Total(visited') + visited[q] = Total(visited) + visited'[q]
    BY <2>1, TotalOfChange
  <2>3. Used' = Total(visited') /\ Used = Total(visited)
    BY DEF Used, Total
  <2>4. /\ Total(visited) \in Nat /\ Total(visited') \in Nat /\ visited[q] \in Nat /\ visited'[q] \in Nat
        /\ limit[q] \in Nat /\ before \in Nat
    BY <2>1, UpToSteps DEF Typed, Counts
  <2>5. limit[q] + Total(visited) > visited[q] + before
    BY <1>3, <2>3
  <2>6. limit[q] + Total(visited') > visited'[q] + before
    BY <2>2, <2>4, <2>5
  <2> QED
    BY <1>1, <2>3, <2>6
<1> QED
  BY <1>1, <1>2, <1>5, <1>6 DEF Rounds

(* Every step of a turn keeps the invariant.                               *)
LEMMA TurnKeeps ==
  ASSUME ScanInv, NEW r \in Roots,
         \/ Inspect(r) \/ InspectFails(r) \/ InspectExhausts(r)
         \/ Resume(r) \/ ResumeFails(r) \/ ResumeExhausts(r)
         \/ EndTurn(r)
  PROVE  ScanInv'
<1>1. Scanned(r)
  BY TurnScans DEF ScanInv, Spends
<1>2. phase' = phase /\ phase \in {"share", "borrow"}
  BY <1>1 DEF Scanned, Scanning
<1>3. Typed' /\ Spends' /\ AtWork' /\ NotLost' /\ Offer' /\ Rounds'
  BY <1>1, ScannedTyped, ScannedSpends, ScannedAtWork, ScannedNotLost, ScannedOffer, ScannedRounds
     DEF ScanInv
<1>4. Modest'
  <2> SUFFICES ASSUME NEW s \in Roots PROVE accepted'[s] <= MaxCandidates
    BY DEF Modest
  <2>1. accepted' \in Counts /\ accepted'[s] \in Nat /\ candidates' \subseteq DOMAIN discovering'
    BY <1>3 DEF Typed, Counts
  <2>2. accepted'[s] <= FairShare(MaxCandidates, Count, s)
    BY <1>2, <1>3 DEF Offer, Offered
  <2>3. Shares(MaxCandidates) \in Counts /\ Total(Shares(MaxCandidates)) = MaxCandidates
        /\ Shares(MaxCandidates)[s] = FairShare(MaxCandidates, Count, s) /\ MaxCandidates \in Nat
    BY SharesOfAll, CountIsNat DEF Shares
  <2>4. FairShare(MaxCandidates, Count, s) <= MaxCandidates /\ FairShare(MaxCandidates, Count, s) \in Nat
    BY <2>3, TotalAtLeast, ShareIsNat
  <2> QED
    BY <2>1, <2>2, <2>3, <2>4
<1>5. AllFound'
  BY <1>2 DEF AllFound
<1> QED
  BY <1>3, <1>4, <1>5 DEF ScanInv

-----------------------------------------------------------------------------
(* Borrowing.                                                              *)

(* A round of borrowing shares out what is left among the roots cut short. *)
LEMMA BorrowShares ==
  ASSUME Typed, Borrow
  PROVE  /\ CutShort \subseteq Roots /\ CutShort # {} /\ Used \in Nat
         /\ Remaining \in Nat /\ Remaining > 0 /\ Used + Remaining = MaxEntries
         /\ limit' \in Counts
         /\ \E share \in Counts :
              /\ \A r \in Roots : limit'[r] = limit[r] + share[r]
              /\ \A r \in Roots \ CutShort : share[r] = 0
              /\ Total(share) = Remaining
              /\ \A r \in Roots : CutShort = {r} => share[r] >= 1
<1>1. visited \in Counts /\ limit \in Counts /\ MaxEntries \in Nat
  BY CountIsNat DEF Typed
<1>2. Used \in Nat
  BY <1>1, UpToSteps DEF Used
<1>3. Remaining = MaxEntries - Used /\ ~(Remaining <= 0) /\ CutShort # {}
  BY DEF Borrow, Halts, Remaining
<1>4. Remaining \in Nat /\ Remaining > 0 /\ Used + Remaining = MaxEntries
  BY <1>1, <1>2, <1>3
<1>5. CutShort \subseteq Roots
  BY DEF CutShort
<1>6. PICK left \in Nat : left = Remaining /\ left > 0
  BY <1>4
<1>7. PICK C : C = CutShort
  OBVIOUS
<1> DEFINE n == Cardinality(C)
           share == [r \in Roots |-> IF r \in C THEN FairShare(left, n, Up(C, r)) ELSE 0]
<1>8. n \in Nat /\ n > 0 /\ \A r \in Roots : Up(C, r) \in Nat /\ r \in 0..Count
  <2>1. IsFiniteSet(C) /\ n \in Nat /\ \A k \in 0..Count : Up(C, k) \in Nat
    BY <1>5, <1>7, UpSteps
  <2>2. n # 0
    BY <1>3, <1>7, <2>1, FS_EmptySet
  <2>3. \A r \in Roots : r \in 0..Count
    BY CountIsNat
  <2> QED
    BY <2>1, <2>2, <2>3
<1>9. \A r \in Roots : FairShare(left, n, Up(C, r)) \in Nat
  <2> HIDE DEF n
  <2> QED
    BY <1>8, FairShareIsNat
<1>10. share \in Counts
  BY <1>9 DEF Counts
<1>11. Total(share) = left
  <2>1. \A r \in Roots : share[r] = IF r \in C THEN FairShare(left, Cardinality(C), Up(C, r)) ELSE 0
    OBVIOUS
  <2> HIDE DEF share
  <2> QED
    BY <1>3, <1>5, <1>7, <1>10, <2>1, SharesAddUp
<1>12. limit' = [r \in Roots |-> limit[r] + (IF r \in C THEN FairShare(left, n, Up(C, r)) ELSE 0)]
  BY <1>6, <1>7 DEF Borrow, Up
<1>13. \A r \in Roots : limit'[r] = limit[r] + share[r] /\ (r \notin C => share[r] = 0)
  BY <1>12
<1>14. limit' \in Counts
  <2>1. \A r \in Roots : limit[r] \in Nat /\ share[r] \in Nat /\ limit[r] + share[r] \in Nat
    <3>1. \A r \in Roots : limit[r] \in Nat /\ share[r] \in Nat
      <4> HIDE DEF share
      <4> QED
        BY <1>1, <1>10 DEF Counts
    <3> HIDE DEF share
    <3> QED
      BY <3>1
  <2>2. limit' = [r \in Roots |-> limit[r] + share[r]]
    BY <1>12
  <2> HIDE DEF share
  <2> QED
    BY <2>1, <2>2 DEF Counts
<1>15. ASSUME NEW r \in Roots, C = {r} PROVE share[r] >= 1
  <2>1. {s \in C : s <= r} = {r}
    <3>1. r \in Nat
      BY CountIsNat
    <3> QED
      BY <1>15, <3>1
  <2>2. Up(C, r) = 1
    BY <2>1, FS_Singleton DEF Up
  <2>3. FairShare(left, n, Up(C, r)) >= 1
    <3> HIDE DEF n
    <3> QED
      BY <1>6, <1>8, <2>2, FairShareIsNat
  <2> QED
    BY <1>15, <2>3
<1> HIDE DEF share
<1> QED
  BY <1>2, <1>3, <1>4, <1>5, <1>6, <1>7, <1>10, <1>11, <1>13, <1>14, <1>15

(* A round of borrowing keeps it.  With two roots one borrows alone: if    *)
(* both were cut short at first, nothing would be left to share.           *)
LEMMA BorrowKeeps ==
  ASSUME ScanInv, Borrow
  PROVE  ScanInv'
<1>1. /\ phase \in {"share", "borrow"} /\ turns = {} /\ turns' = CutShort /\ phase' = "borrow"
      /\ before' = Used
      /\ UNCHANGED <<tree, patterns, queue, continuations, visited, accepted, overflow,
                     candidates, discovering, diagnosed, exhausted>>
  BY DEF Borrow, found
<1>2. Typed /\ Spends /\ AtWork /\ NotLost /\ Offer /\ Modest /\ Rounds
  BY DEF ScanInv
<1>3. /\ CutShort \subseteq Roots /\ CutShort # {} /\ Used \in Nat
      /\ Remaining \in Nat /\ Remaining > 0 /\ Used + Remaining = MaxEntries
      /\ limit' \in Counts
  BY <1>2, BorrowShares
<1>4. PICK share \in Counts :
        /\ \A r \in Roots : limit'[r] = limit[r] + share[r]
        /\ \A r \in Roots \ CutShort : share[r] = 0
        /\ Total(share) = Remaining
        /\ \A r \in Roots : CutShort = {r} => share[r] >= 1
  BY <1>2, BorrowShares
<1>5. \A r \in Roots : limit[r] \in Nat /\ visited[r] \in Nat /\ share[r] \in Nat
  BY <1>2, <1>4 DEF Typed, Counts
<1>6. \A r \in Roots : r \in CutShort <=> continuations[r] # <<>>
  BY DEF CutShort
<1>7. Typed'
  BY <1>1, <1>2, <1>3 DEF Typed, HeldBack, Continuation
<1>8. Spends'
  <2>1. \A r \in Roots : visited'[r] <= limit'[r] /\ FairShare(MaxEntries, Count, r) <= limit'[r]
    <3> SUFFICES ASSUME NEW r \in Roots
        PROVE visited'[r] <= limit'[r] /\ FairShare(MaxEntries, Count, r) <= limit'[r]
      OBVIOUS
    <3>1. visited[r] <= limit[r] /\ FairShare(MaxEntries, Count, r) <= limit[r]
      BY <1>2 DEF Spends
    <3>2. FairShare(MaxEntries, Count, r) \in Nat
      <4>1. MaxEntries \in Nat /\ Count \in Nat /\ Count > 0 /\ r \in Nat
        BY CountIsNat
      <4> QED
        BY <4>1, FairShareIsNat
    <3> QED
      BY <1>1, <1>4, <1>5, <3>1, <3>2
  <2>2. \A r \in Roots \ turns' : continuations'[r] = <<>>
    BY <1>1, <1>6
  <2>3. ASSUME ~exhausted' PROVE Total(Holding') <= MaxEntries
    <3>1. ~exhausted
      BY <1>1, <2>3
    <3>2. \A r \in Roots : Holding'[r] = visited[r] + share[r]
      <4> SUFFICES ASSUME NEW r \in Roots PROVE Holding'[r] = visited[r] + share[r]
        OBVIOUS
      <4>1. Holding'[r] = IF r \in CutShort THEN limit'[r] ELSE visited[r]
        BY <1>1 DEF Holding
      <4>2. CASE r \in CutShort
        <5>1. visited[r] = limit[r]
          BY <1>1, <1>2, <1>6, <3>1, <4>2 DEF Spends
        <5> QED
          BY <1>4, <4>1, <4>2, <5>1
      <4>3. CASE r \notin CutShort
        BY <1>4, <1>5, <4>1, <4>3
      <4> QED
        BY <4>2, <4>3
    <3>3. Holding' \in Counts
      <4>1. Typed' => (Holding \in Counts)'
        BY HoldingType, PTL
      <4> QED
        BY <1>7, <4>1
    <3>4. Total(Holding') = Total(visited) + Total(share)
      BY <1>2, <3>2, <3>3, TotalAdds DEF Typed
    <3>5. Total(Holding') = MaxEntries
      BY <1>3, <1>4, <3>4 DEF Used
    <3> QED
      BY <3>5, CountIsNat
  <2>4. Total(Holding)' = Total(Holding')
    BY DEF Total
  <2> QED
    BY <1>1, <2>1, <2>2, <2>3, <2>4 DEF Spends
<1>9. AtWork'
  BY <1>1, <1>2 DEF AtWork
<1>10. NotLost' /\ AllFound'
  BY <1>1, <1>2 DEF NotLost, AllFound, Offers, Waits, Known, Choked, Below
<1>11. Offer' /\ Modest'
  BY <1>1, <1>2 DEF Offer, Offered, Total, Spilled, Spill, Modest
<1>12. Rounds'
  <2> SUFFICES ASSUME Count <= 2 PROVE Rounds'
    BY <1>1 DEF Rounds
  <2>1. \E q \in Roots : CutShort = {q}
    <3>1. CASE phase = "borrow"
      <4>1. PICK q \in Roots : \A s \in Roots : s # q => continuations[s] = <<>>
        BY <1>2, <3>1 DEF Rounds
      <4>2. CutShort = {q}
        BY <1>3, <1>6, <4>1
      <4> QED
        BY <4>2
    <3>2. CASE phase = "share"
      <4>1. CutShort # Roots
        <5>1. SUFFICES ASSUME CutShort = Roots PROVE FALSE
          OBVIOUS
        <5>2. \A r \in Roots : visited[r] = limit[r]
          BY <1>2, <1>6, <3>2, <5>1 DEF Spends
        <5>3. visited = limit /\ limit = Shares(MaxEntries)
          BY <1>2, <3>2, <5>2 DEF Spends, Typed, Counts
        <5>4. Used = MaxEntries
          BY <5>3, SharesOfAll, CountIsNat DEF Used
        <5> QED
          BY <1>3, <5>4
      <4>2. PICK q \in CutShort, p \in Roots : p \notin CutShort
        BY <1>3, <4>1
      <4>3. \A s \in Roots : s = q \/ s = p
        <5>1. \A s \in Roots : s \in Nat /\ s >= 1 /\ s <= 2
          BY CountIsNat
        <5>2. q \in Roots /\ p # q
          BY <1>3, <4>2
        <5> QED
          BY <4>2, <5>1, <5>2
      <4>4. CutShort = {q}
        BY <1>3, <4>2, <4>3
      <4> QED
        BY <1>3, <4>4
    <3> QED
      BY <1>1, <3>1, <3>2
  <2>2. PICK q \in Roots : CutShort = {q}
    BY <2>1
  <2>3. \A s \in Roots : s # q => s \notin turns' /\ continuations'[s] = <<>>
    BY <1>1, <1>6, <2>2
  <2>4. Used' = Used
    BY <1>1 DEF Used, Total
  <2>5. limit'[q] + Used' > visited'[q] + before'
    <3>1. share[q] >= 1 /\ limit'[q] = limit[q] + share[q]
      BY <1>4, <2>2
    <3>2. visited[q] <= limit[q]
      BY <1>2 DEF Spends
    <3>3. limit'[q] + Used > visited[q] + Used
      BY <1>3, <1>5, <3>1, <3>2
    <3> QED
      BY <1>1, <2>4, <3>3
  <2> QED
    BY <1>1, <2>3, <2>5 DEF Rounds
<1> QED
  BY <1>7, <1>8, <1>9, <1>10, <1>11, <1>12 DEF ScanInv

-----------------------------------------------------------------------------
(* The end of the scan.                                                    *)

(* There is room for what is taken up of the candidates left over, and     *)
(* when one is left out there is no room any more.                         *)
LEMMA TakenFits ==
  ASSUME Typed, Offered
  PROVE  /\ Taken \subseteq Spilled /\ Spilled \subseteq Spills
         /\ IsFiniteSet(Taken) /\ Cardinality(Taken) \in Nat
         /\ Room \in Nat /\ Cardinality(candidates) \in Nat
         /\ Cardinality(candidates) + Room = MaxCandidates
         /\ Cardinality(Taken) <= Room
         /\ Taken # Spilled => Cardinality(Taken) = Room
<1>1. MaxCandidates \in Nat /\ accepted \in Counts /\ IsFiniteSet(candidates)
  BY CountIsNat DEF Typed
<1>2. Total(accepted) \in Nat /\ Cardinality(candidates) = Total(accepted)
  BY <1>1, UpToSteps DEF Offered
<1>3. Total(accepted) <= MaxCandidates
  <2>1. Shares(MaxCandidates) \in Counts /\ Total(Shares(MaxCandidates)) = MaxCandidates
    BY <1>1, SharesOfAll
  <2>2. \A r \in Roots : accepted[r] <= Shares(MaxCandidates)[r]
    BY DEF Offered, Shares
  <2> QED
    BY <1>1, <2>1, <2>2, TotalMonotone
<1>4. Room \in Nat /\ Cardinality(candidates) + Room = MaxCandidates
  BY <1>1, <1>2, <1>3 DEF Room
<1>5. Spilled \subseteq Spills
  BY DEF Spilled, Spills
<1>6. Taken = FirstOf(Spilled, Room)
  BY DEF Taken, FirstOf, Rank
<1>7. Taken \subseteq Spilled
  BY DEF Taken
<1> QED
  BY <1>2, <1>4, <1>5, <1>6, <1>7, FirstOnes

(* They are new candidates, each another one.                              *)
LEMMA TakenCounts ==
  ASSUME Typed, Offered, candidates' = candidates \cup {Spill(s) : s \in Taken}
  PROVE  /\ IsFiniteSet(candidates') /\ candidates' \subseteq DOMAIN discovering
         /\ Cardinality(candidates') = Cardinality(candidates) + Cardinality(Taken)
<1> DEFINE S == {Spill(s) : s \in Taken}
           f == [s \in Taken |-> Spill(s)]
<1>1. Taken \subseteq Spilled /\ IsFiniteSet(Taken) /\ Cardinality(Taken) \in Nat
      /\ IsFiniteSet(candidates) /\ Cardinality(candidates) \in Nat
  BY TakenFits DEF Typed
<1>2. \A s \in Taken : Spill(s) \in DOMAIN discovering /\ Spill(s) \notin candidates
  BY <1>1 DEF Offered
<1>3. \A s, t \in Taken : Spill(s) = Spill(t) => s = t
  BY <1>1 DEF Offered
<1>4. f \in Injection(Taken, S) /\ f \in Surjection(Taken, S)
  BY <1>3 DEF Injection, Surjection, IsInjective
<1>5. IsFiniteSet(S) /\ Cardinality(S) = Cardinality(Taken)
  <2> HIDE DEF f, S
  <2> QED
    BY <1>1, <1>4, FS_Surjection
<1>6. candidates \cap S = {}
  BY <1>2
<1>7. Cardinality(candidates \cap S) = 0
  BY <1>6, FS_EmptySet
<1>8. S \subseteq DOMAIN discovering /\ candidates \subseteq DOMAIN discovering
  BY <1>2 DEF Typed
<1>9. candidates' = candidates \cup S
  OBVIOUS
<1>10. IsFiniteSet(candidates \cup S)
       /\ Cardinality(candidates \cup S) = Cardinality(candidates) + Cardinality(S) - Cardinality(candidates \cap S)
  <2> HIDE DEF S
  <2> QED
    BY <1>1, <1>5, FS_Union
<1> HIDE DEF S
<1>11. Cardinality(candidates \cup S) = Cardinality(candidates) + Cardinality(Taken)
  BY <1>1, <1>5, <1>7, <1>10
<1> QED
  BY <1>8, <1>9, <1>10, <1>11

(* A root with a full list of candidates left over has one left out.       *)
LEMMA ChokedIsOmitted ==
  ASSUME Typed, Offered, NEW r \in Roots, Choked(r)
  PROVE  \E s \in Spilled \ Taken : s[2] = r
<1>1. /\ MaxCandidates \in Nat /\ MaxCandidates > 0 /\ r \in Nat
  BY CountIsNat
<1>2. Len(overflow[r]) = MaxCandidates /\ overflow[r] # <<>>
  <2>1. Len(overflow[r]) = MaxCandidates
    BY DEF Choked
  <2>2. overflow[r] = <<>> => Len(overflow[r]) = 0
    OBVIOUS
  <2> QED
    BY <1>1, <2>1, <2>2
<1>3. Cardinality(candidates) \in Nat /\ Cardinality(candidates) # 0
  <2>1. candidates # {} /\ IsFiniteSet(candidates)
    BY <1>2 DEF Offered, Typed
  <2> QED
    BY <2>1, FS_EmptySet, FS_CardinalityType
<1>4. /\ IsFiniteSet(Taken) /\ Cardinality(Taken) \in Nat /\ Cardinality(Taken) < MaxCandidates
  <2>1. /\ IsFiniteSet(Taken) /\ Cardinality(Taken) \in Nat /\ Room \in Nat
        /\ Cardinality(candidates) + Room = MaxCandidates /\ Cardinality(Taken) <= Room
    BY TakenFits
  <2> QED
    BY <1>1, <1>3, <2>1
<1>5. \A i \in 1..MaxCandidates : <<i, r>> \in Spilled
  BY <1>2 DEF Spilled
<1>6. ASSUME \A i \in 1..MaxCandidates : <<i, r>> \in Taken PROVE FALSE
  <2> DEFINE f == [i \in 1..MaxCandidates |-> <<i, r>>]
  <2>1. f \in Injection(1..MaxCandidates, Taken)
    BY <1>6 DEF Injection, IsInjective
  <2>2. Cardinality(1..MaxCandidates) <= Cardinality(Taken)
    <3> HIDE DEF f
    <3> QED
      BY <1>4, <2>1, FS_Injection
  <2>3. Cardinality(1..MaxCandidates) = MaxCandidates
    BY <1>1, FS_Interval
  <2> QED
    BY <1>1, <1>4, <2>2, <2>3
<1>7. PICK i \in 1..MaxCandidates : <<i, r>> \notin Taken
  BY <1>6
<1>8. <<i, r>> \in Spilled \ Taken /\ <<i, r>>[2] = r
  BY <1>5, <1>7
<1> QED
  BY <1>8

(* What is left of the candidates left over.                               *)
LEMMA TakenOf ==
  ASSUME Typed, Offered, NEW r \in Roots, NEW c, c = Cardinality({s \in Taken : s[2] = r})
  PROVE  /\ c \in Nat /\ c <= Cardinality(Taken)
         /\ SubSeq(overflow[r], 1 + c, Len(overflow[r])) \in Seq(tree.plugins)
         /\ Len(SubSeq(overflow[r], 1 + c, Len(overflow[r]))) <= MaxCandidates
<1>1. IsFiniteSet(Taken) /\ {s \in Taken : s[2] = r} \in SUBSET Taken
  BY TakenFits
<1>2. c \in Nat /\ c <= Cardinality(Taken)
  BY <1>1, FS_Subset, FS_CardinalityType
<1>3. PICK P : P = tree.plugins
  OBVIOUS
<1>4. PICK o \in Seq(P) : o = overflow[r] /\ Len(o) <= MaxCandidates
  BY <1>3 DEF Typed
<1>5. Len(o) \in Nat /\ MaxCandidates \in Nat
  BY CountIsNat
<1>6. SubSeq(o, 1 + c, Len(o)) \in Seq(P) /\ Len(SubSeq(o, 1 + c, Len(o))) <= Len(o)
  <2>0. 1 + c \in Int /\ 1 + c > 0 /\ Len(o) \in Int /\ Len(o) >= 0
    BY <1>2, <1>5
  <2>1. PICK m \in Int, n \in Int : m = 1 + c /\ n = Len(o) /\ m > 0 /\ n >= 0
    BY <2>0
  <2>2. \A i \in m..n : o[i] \in P
    BY <2>1
  <2>3. /\ SubSeq(o, m, n) \in Seq(P)
        /\ Len(SubSeq(o, m, n)) = IF m <= n THEN (n - m) + 1 ELSE 0
    BY <2>2, SubSeqProperties
  <2>4. Len(SubSeq(o, m, n)) <= n
    BY <2>1, <2>3
  <2> QED
    BY <2>1, <2>3, <2>4
<1> QED
  BY <1>2, <1>3, <1>4, <1>5, <1>6

(* The end of the scan: a root that is not reported has been scanned.      *)
LEMMA FinishFinds ==
  ASSUME ScanInv, Finish, NEW r \in Roots \ diagnosed', continuations[r] = <<>>,
         NEW t \in DOMAIN tree.entries, Offers(r, t)
  PROVE  t \in candidates' /\ r \in discovering[t]
<1>1. /\ phase \in {"share", "borrow"} /\ turns = {}
      /\ candidates' = candidates \cup {Spill(s) : s \in Taken}
      /\ diagnosed \subseteq diagnosed'
      /\ Cardinality(candidates') >= MaxCandidates => Omitted(Spilled \ Taken) \subseteq diagnosed'
  BY DEF Finish
<1>2. Typed /\ Offered /\ AtWork /\ NotLost
  BY <1>1 DEF ScanInv, Offer
<1>3. \A s \in Spilled \ Taken : r \notin discovering[Spill(s)]
  <2> SUFFICES ASSUME NEW s \in Spilled \ Taken, r \in discovering[Spill(s)] PROVE FALSE
    OBVIOUS
  <2>1. Cardinality(candidates') >= MaxCandidates
    <3>1. Cardinality(candidates') = Cardinality(candidates) + Cardinality(Taken)
      BY <1>1, <1>2, TakenCounts
    <3>2. Taken # Spilled
      OBVIOUS
    <3>3. Cardinality(Taken) = Room /\ Cardinality(candidates) + Room = MaxCandidates
      BY <1>2, <3>2, TakenFits
    <3> QED
      BY <3>1, <3>3, CountIsNat
  <2>2. r \in Omitted(Spilled \ Taken)
    BY DEF Omitted
  <2> QED
    BY <1>1, <2>1, <2>2
<1>4. ~Waits(r, t)
  <2>1. queue[r] = <<>>
    BY <1>1, <1>2 DEF AtWork
  <2>2. DOMAIN queue[r] = {} /\ DOMAIN continuations[r] = {}
    BY <2>1
  <2> QED
    BY <2>2 DEF Waits, Queued, HeldIn
<1>5. ~Choked(r)
  <2> SUFFICES ASSUME Choked(r) PROVE FALSE
    OBVIOUS
  <2>1. PICK s \in Spilled \ Taken : s[2] = r
    BY <1>2, ChokedIsOmitted
  <2>2. r \in discovering[Spill(s)]
    BY <1>2, <2>1 DEF Offered
  <2> QED
    BY <1>3, <2>1, <2>2
<1>6. Known(r, t)
  BY <1>1, <1>2, <1>4, <1>5 DEF NotLost
<1>7. t \in DOMAIN discovering /\ r \in discovering[t]
  BY <1>6 DEF Known
<1>8. t \in candidates'
  <2>1. CASE t \in candidates
    BY <1>1, <2>1
  <2>2. CASE t \notin candidates
    <3>1. PICK s \in Spilled : Spill(s) = t
      BY <1>2, <1>7, <2>2 DEF Offered
    <3>2. s \in Taken
      BY <1>3, <1>7, <3>1
    <3> QED
      BY <1>1, <3>1, <3>2
  <2> QED
    BY <2>1, <2>2
<1> QED
  BY <1>7, <1>8

(* The candidates left over that are taken up keep the types.              *)
LEMMA FinishTypes ==
  ASSUME Typed, Offered, Finish
  PROVE  Typed' /\ Modest'
<1>1. /\ candidates' = candidates \cup {Spill(s) : s \in Taken} /\ phase' = "done"
      /\ accepted' = [r \in Roots |-> accepted[r] + Cardinality({s \in Taken : s[2] = r})]
      /\ overflow' = [r \in Roots |->
           SubSeq(overflow[r], 1 + Cardinality({s \in Taken : s[2] = r}), Len(overflow[r]))]
      /\ UNCHANGED <<tree, patterns, queue, continuations, limit, visited, discovering,
                     exhausted, turns, before>>
  BY DEF Finish, budgets
<1>2. IsFiniteSet(candidates') /\ candidates' \subseteq DOMAIN discovering
  BY <1>1, TakenCounts
<1>3. \A r \in Roots : Cardinality({s \in Taken : s[2] = r}) \in Nat
                       /\ Cardinality({s \in Taken : s[2] = r}) <= Cardinality(Taken)
  BY TakenOf
<1>4. \A r \in Roots : accepted[r] \in Nat /\ accepted[r] <= Cardinality(candidates)
  <2>1. accepted \in Counts /\ \A r \in Roots : accepted[r] \in Nat
    BY DEF Typed, Counts
  <2> QED
    BY <2>1, TotalAtLeast DEF Offered
<1>5. accepted' \in Counts
  BY <1>1, <1>3, <1>4 DEF Counts
<1>6. Modest'
  <2> SUFFICES ASSUME NEW r \in Roots PROVE accepted'[r] <= MaxCandidates
    BY DEF Modest
  <2>1. PICK c \in Nat : c = Cardinality({s \in Taken : s[2] = r}) /\ c <= Cardinality(Taken)
    BY <1>3
  <2>2. accepted'[r] = accepted[r] + c
    BY <1>1, <2>1
  <2>3. /\ Room \in Nat /\ Cardinality(Taken) \in Nat /\ Cardinality(Taken) <= Room
        /\ Cardinality(candidates) \in Nat /\ Cardinality(candidates) + Room = MaxCandidates
    BY TakenFits
  <2>4. accepted[r] \in Nat /\ accepted[r] <= Cardinality(candidates)
    BY <1>4
  <2> QED
    BY <2>1, <2>2, <2>3, <2>4
<1>7. /\ overflow' \in [Roots -> Seq(tree.plugins)]
      /\ \A r \in Roots : Len(overflow'[r]) <= MaxCandidates
  <2>1. \A r \in Roots :
          /\ SubSeq(overflow[r], 1 + Cardinality({s \in Taken : s[2] = r}), Len(overflow[r]))
               \in Seq(tree.plugins)
          /\ Len(SubSeq(overflow[r], 1 + Cardinality({s \in Taken : s[2] = r}), Len(overflow[r])))
               <= MaxCandidates
    BY TakenOf
  <2> QED
    BY <1>1, <2>1
<1>8. diagnosed' \subseteq Roots
  <2>1. Omitted(Spilled \ Taken) \subseteq Roots
    BY DEF Omitted, Offered, Typed
  <2>2. diagnosed' \subseteq diagnosed \cup Roots \cup Omitted(Spilled \ Taken)
    BY DEF Finish
  <2> QED
    BY <2>1, <2>2 DEF Typed
<1>9. /\ tree' = tree /\ patterns' = patterns /\ queue' = queue /\ continuations' = continuations
      /\ HeldBack' = HeldBack
  BY <1>1 DEF HeldBack, Continuation
<1> QED
  BY <1>1, <1>2, <1>5, <1>6, <1>7, <1>8, <1>9 DEF Typed

(* The end of the scan keeps the invariant.                                *)
LEMMA FinishKeeps ==
  ASSUME ScanInv, Finish
  PROVE  ScanInv'
<1>1. /\ phase \in {"share", "borrow"} /\ phase' = "done" /\ turns = {} /\ Halts
      /\ candidates' = candidates \cup {Spill(s) : s \in Taken}
      /\ diagnosed \subseteq diagnosed'
      /\ Used >= MaxEntries => \A r \in Roots : continuations[r] # <<>> => r \in diagnosed'
      /\ UNCHANGED <<tree, patterns, queue, continuations, limit, visited, discovering,
                     exhausted, turns, before>>
  BY DEF Finish, budgets
<1>2. Typed /\ Spends /\ AtWork /\ Offered /\ Rounds
  BY <1>1 DEF ScanInv, Offer
<1>3. Typed' /\ Modest'
  BY <1>2, FinishTypes
<1>4. Spends'
  <2>1. Holding' = Holding
    BY <1>1 DEF Holding
  <2>2. Total(Holding)' = Total(Holding')
    BY DEF Total
  <2>3. \A r \in Roots \ turns' :
          (continuations'[r] # <<>> /\ (~exhausted' \/ r \notin diagnosed')) => visited'[r] = limit'[r]
    BY <1>1, <1>2 DEF Spends
  <2> QED
    BY <1>1, <1>2, <2>1, <2>2, <2>3 DEF Spends
<1>5. AtWork'
  BY <1>1, <1>2 DEF AtWork
<1>6. NotLost'
  BY <1>1 DEF NotLost
<1>7. Offer'
  <2>1. Cardinality(candidates') = Cardinality(candidates) + Cardinality(Taken)
    BY <1>1, <1>2, TakenCounts
  <2>2. /\ Room \in Nat /\ Cardinality(Taken) \in Nat /\ Cardinality(Taken) <= Room
        /\ Cardinality(candidates) \in Nat /\ Cardinality(candidates) + Room = MaxCandidates
    BY <1>2, TakenFits
  <2>3. Cardinality(candidates') <= MaxCandidates
    BY <2>1, <2>2
  <2> QED
    BY <1>1, <2>3 DEF Offer
<1>8. AllFound'
  <2> SUFFICES ASSUME NEW r \in Roots \ diagnosed', continuations'[r] = <<>>,
                      NEW t \in DOMAIN tree'.entries, Offers(r, t)'
      PROVE  t \in candidates' /\ r \in discovering'[t]
    BY DEF AllFound
  <2>1. Offers(r, t) /\ t \in DOMAIN tree.entries /\ continuations[r] = <<>> /\ discovering' = discovering
    BY <1>1 DEF Offers, Below
  <2> QED
    BY <2>1, FinishFinds
<1>9. Rounds'
  <2> SUFFICES ASSUME Count <= 2, NEW r \in Roots \ diagnosed', continuations[r] # <<>> PROVE FALSE
    BY <1>1 DEF Rounds
  <2>1. r \in Roots \ diagnosed /\ visited[r] = limit[r]
    BY <1>1, <1>2 DEF Spends
  <2>2. ~(Remaining <= 0)
    <3>1. Used \in Nat /\ MaxEntries \in Nat
      BY <1>2, UpToSteps, CountIsNat DEF Used, Typed
    <3>2. ~(Used >= MaxEntries)
      BY <1>1
    <3> QED
      BY <3>1, <3>2 DEF Remaining
  <2>3. CutShort # {}
    BY DEF CutShort
  <2>4. phase = "borrow" /\ Used = before
    BY <1>1, <2>2, <2>3 DEF Halts
  <2>5. PICK q \in Roots : /\ \A s \in Roots : s # q => continuations[s] = <<>>
                           /\ limit[q] + Used > visited[q] + before
    BY <1>2, <2>4 DEF Rounds
  <2>6. q = r
    BY <2>5
  <2>7. limit[r] \in Nat /\ before \in Nat
    BY <1>2 DEF Typed, Counts
  <2> QED
    BY <2>1, <2>4, <2>5, <2>6, <2>7
<1> QED
  BY <1>3, <1>4, <1>5, <1>6, <1>7, <1>8, <1>9 DEF ScanInv

-----------------------------------------------------------------------------
(* The theorems.                                                           *)

(* Every step keeps the invariant.                                         *)
LEMMA StepKeeps == ScanInv /\ [Next]_vars => ScanInv'
<1> SUFFICES ASSUME ScanInv, [Next]_vars PROVE ScanInv'
  OBVIOUS
<1>1. ASSUME NEW r \in Roots, Configure(r) PROVE ScanInv'
  BY <1>1, ConfigureKeeps
<1>2. ASSUME NEW r \in Roots,
             \/ Inspect(r) \/ InspectFails(r) \/ InspectExhausts(r)
             \/ Resume(r) \/ ResumeFails(r) \/ ResumeExhausts(r)
             \/ EndTurn(r)
      PROVE  ScanInv'
  BY <1>2, TurnKeeps
<1>3. CASE Borrow
  BY <1>3, BorrowKeeps
<1>4. CASE Finish
  BY <1>4, FinishKeeps
<1>5. CASE UNCHANGED vars
  BY <1>5, RestKeeps
<1> QED
  BY <1>1, <1>2, <1>3, <1>4, <1>5 DEF Next, Step, Rest

(* The inductive invariant holds throughout a scan, of any number of       *)
(* roots.                                                                  *)
THEOREM ScanInvariant == Spec => []ScanInv
<1>1. Init => ScanInv
  BY StartsWell
<1> QED
  BY <1>1, StepKeeps, PTL DEF Spec

(* The type invariant that the runs check follows.                         *)
LEMMA TypesFollow == ScanInv => TypeOK
<1> SUFFICES ASSUME ScanInv PROVE TypeOK
  OBVIOUS
<1>1. Typed /\ Modest
  BY DEF ScanInv
<1>2. accepted \in [Roots -> 0..MaxCandidates]
  <2>1. accepted \in [Roots -> Nat] /\ MaxCandidates \in Nat
    BY <1>1, CountIsNat DEF Typed, Counts
  <2>2. \A r \in Roots : accepted[r] \in 0..MaxCandidates
    BY <1>1, <2>1 DEF Modest
  <2> QED
    BY <2>1, <2>2
<1>3. \A r \in Roots : continuations[r] \in Seq(Continuation)
  <2>1. HeldBack \subseteq Continuation
    BY DEF HeldBack
  <2>2. \A r \in Roots : continuations[r] \in Seq(HeldBack)
    BY <1>1 DEF Typed
  <2> QED
    BY <2>1, <2>2
<1>4. /\ limit \in [Roots -> Nat] /\ visited \in [Roots -> Nat]
      /\ \A r \in Roots : queue[r] \in Seq(DOMAIN tree.entries)
      /\ \A r \in Roots : overflow[r] \in Seq(tree.plugins) /\ Len(overflow[r]) <= MaxCandidates
      /\ candidates \subseteq tree.plugins
  BY <1>1 DEF Typed, Counts
<1> QED
  BY <1>1, <1>2, <1>3, <1>4 DEF TypeOK, Typed

(* So do the budgets: what is visited is no more than what is held.        *)
LEMMA BudgetsFollow == ScanInv => BudgetsHold
<1> SUFFICES ASSUME ScanInv PROVE BudgetsHold
  OBVIOUS
<1>1. Typed /\ Spends /\ Offer
  BY DEF ScanInv
<1>2. ASSUME ~exhausted PROVE Used <= MaxEntries
  <2>1. visited \in Counts /\ Holding \in Counts
    BY <1>1, HoldingType DEF Typed
  <2>2. \A r \in Roots : visited[r] <= Holding[r]
    BY <1>1 DEF Holding, Spends, Typed, Counts
  <2>3. Total(visited) <= Total(Holding) /\ Total(visited) \in Nat /\ Total(Holding) \in Nat
    BY <2>1, <2>2, TotalMonotone, UpToSteps
  <2>4. Total(Holding) <= MaxEntries /\ MaxEntries \in Nat
    BY <1>1, <1>2, CountIsNat DEF Spends
  <2> QED
    BY <2>3, <2>4 DEF Used
<1>3. Cardinality(candidates) <= MaxCandidates
  <2>1. CASE phase = "done"
    BY <1>1, <2>1 DEF Offer
  <2>2. CASE phase # "done"
    <3>1. Room \in Nat /\ Cardinality(candidates) \in Nat /\ MaxCandidates \in Nat
          /\ Cardinality(candidates) + Room = MaxCandidates
      BY <1>1, <2>2, TakenFits, CountIsNat DEF Offer
    <3> QED
      BY <3>1
  <2> QED
    BY <2>1, <2>2
<1> QED
  BY <1>2, <1>3 DEF BudgetsHold

(* So does fairness: a root cut short has reached its limit.               *)
LEMMA NobodyStarvesFollows == ScanInv => NobodyStarves
<1> SUFFICES ASSUME ScanInv, NEW r \in Roots, phase = "done", continuations[r] # <<>>, ~exhausted
    PROVE  visited[r] >= FairShare(MaxEntries, Count, r)
  BY DEF NobodyStarves
<1>1. turns = {}
  BY DEF ScanInv, AtWork
<1>2. visited[r] = limit[r] /\ FairShare(MaxEntries, Count, r) <= limit[r]
  BY <1>1 DEF ScanInv, Spends
<1>3. FairShare(MaxEntries, Count, r) \in Nat /\ limit[r] \in Nat
  <2>1. MaxEntries \in Nat /\ Count \in Nat /\ Count > 0 /\ r \in Nat
    BY CountIsNat
  <2>2. limit[r] \in Nat
    BY DEF ScanInv, Typed, Counts
  <2> QED
    BY <2>1, <2>2, FairShareIsNat
<1> QED
  BY <1>2, <1>3

(* And, for two roots at most, completeness.                               *)
LEMMA SilenceFollows ==
  ASSUME Count <= 2
  PROVE  ScanInv => SilenceIsComplete
<1> SUFFICES ASSUME ScanInv, phase = "done", NEW r \in Roots \ diagnosed,
                    NEW d \in DOMAIN tree.entries, Offers(r, d)
    PROVE  d \in candidates /\ r \in discovering[d]
  BY DEF SilenceIsComplete
<1>1. continuations[r] = <<>>
  BY DEF ScanInv, Rounds
<1> QED
  BY <1>1 DEF ScanInv, AllFound

(* The state of a scan is always well formed (discovery-scan-state.ts):    *)
(* every queue and continuation names directories that exist, no root has  *)
(* more than MAX_CANDIDATES accepted or left over.                         *)
THEOREM ScanIsTyped == Spec => []TypeOK
  BY ScanInvariant, TypesFollow, PTL

(* discoverWorkspaceSourceCandidates never visits more than                *)
(* MAX_VISITED_ENTRIES entries, as long as matching does not run out of    *)
(* work, and never returns more than MAX_CANDIDATES candidates, however    *)
(* often redistributeUnusedEntryCapacity shares out again.                 *)
THEOREM ScanKeepsBudgets == Spec => []BudgetsHold
  BY ScanInvariant, BudgetsFollow, PTL

(* A root that is still cut short at the end has visited at least the      *)
(* fair share that allocateFairShares gave it, whatever the other roots    *)
(* spent.                                                                  *)
THEOREM ScanStarvesNobody == Spec => []NobodyStarves
  BY ScanInvariant, NobodyStarvesFollows, PTL

(* For any number of roots: a root with no diagnostic and no continuation  *)
(* has every plugin that its configuration declares among the candidates.  *)
(* Neither the pruning of what cannot match, nor the early end below a     *)
(* package, nor the redistribution of candidates loses one without a       *)
(* report.                                                                 *)
THEOREM ScanFindsAll == Spec => []AllFound
<1>1. ScanInv => AllFound
  BY DEF ScanInv
<1> QED
  BY <1>1, ScanInvariant, PTL

(* With two roots at most silence means completeness: a root without a     *)
(* diagnostic is completely scanned.  With three it does not               *)
(* (redistributeUnusedEntryCapacity may stop after a round in which the    *)
(* roots that could borrow visited nothing), which a run shows.            *)
THEOREM ScanIsSilentlyComplete ==
  ASSUME Count <= 2
  PROVE  Spec => []SilenceIsComplete
<1>1. ScanInv => SilenceIsComplete
  BY SilenceFollows
<1> QED
  BY <1>1, ScanInvariant, PTL

=============================================================================
