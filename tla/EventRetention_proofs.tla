----------------------- MODULE EventRetention_proofs ------------------------
(***************************************************************************)
(* Facts about what compactTargetEvents computes, for every set of events  *)
(* of one target and every physical bound.                                 *)
(***************************************************************************)
EXTENDS EventRetention, FiniteSetTheorems, FunctionTheorems, WellFoundedInduction, TLAPS

(* A non-empty set of naturals has a least element.                        *)
LEMMA LeastNatural ==
  ASSUME NEW S, S \subseteq Nat, S # {}
  PROVE  \E m \in S : \A x \in S : m <= x
<1>1. PICK m \in S : \A x \in S : ~ (<<x, m>> \in OpToRel(<, Nat))
  BY NatLessThanWellFounded, WFMin
<1>2. \A x \in S : ~ (x < m)
  BY <1>1 DEF OpToRel
<1>3. \A x \in S : m <= x
  BY <1>2
<1> QED
  BY <1>3

(* A bounded non-empty set of naturals has a largest element.              *)
LEMMA GreatestNatural ==
  ASSUME NEW S, S \subseteq Nat, S # {},
         NEW n \in Nat, \A x \in S : x <= n
  PROVE  \E m \in S : \A x \in S : x <= m
<1> DEFINE T == {n - x : x \in S}
<1>1. \A x \in S : n - x \in Nat
  OBVIOUS
<1>2. T \subseteq Nat /\ T # {}
  BY <1>1
<1>3. PICK d \in T : \A y \in T : d <= y
  <2> HIDE DEF T
  <2> QED
    BY <1>2, LeastNatural
<1>4. PICK m \in S : d = n - m
  OBVIOUS
<1>5. \A x \in S : x <= m
  <2> TAKE x \in S
  <2>1. n - m <= n - x
    BY <1>3, <1>4
  <2> QED
    BY <2>1
<1> QED
  BY <1>5

-----------------------------------------------------------------------------

(* The events of one target as the storage reads them: finitely many, and  *)
(* numbered apart.                                                         *)
IsLog(es, n) ==
  /\ IsFiniteSet(es)
  /\ n \in Nat
  /\ \A e \in es : e.sequence \in Nat /\ e.sequence <= n
  /\ \A e, f \in es : e.sequence = f.sequence => e = f

(* The deliverable events are the newest ones: everything above a          *)
(* deliverable event is deliverable too, so the walk may stop at the first *)
(* event it cannot keep.                                                   *)
LEMMA DeliverableUpward ==
  ASSUME NEW es, NEW n, IsLog(es, n), NEW bound \in Nat,
         NEW e \in Deliverable(es, bound), NEW f \in es,
         e.sequence <= f.sequence
  PROVE  f \in Deliverable(es, bound)
<1> DEFINE E == Anchors(es) \cup NewestFrom(es, e)
           F == Anchors(es) \cup NewestFrom(es, f)
<1>1. e \in es /\ Cardinality(E) <= bound
  BY DEF Deliverable
<1>2. NewestFrom(es, f) \subseteq NewestFrom(es, e)
  BY <1>1 DEF NewestFrom, IsLog
<1>3. F \subseteq E /\ E \subseteq es
  BY <1>2 DEF NewestFrom, Anchors
<1>4. IsFiniteSet(es)
  BY DEF IsLog
<1>5. IsFiniteSet(E)
  BY <1>3, <1>4, FS_Subset
<1>6. IsFiniteSet(F) /\ Cardinality(F) <= Cardinality(E)
  BY <1>3, <1>5, FS_Subset
<1>7. Cardinality(E) \in Nat /\ Cardinality(F) \in Nat
  BY <1>5, <1>6, FS_CardinalityType
<1>8. Cardinality(F) <= bound
  BY <1>1, <1>6, <1>7
<1> QED
  BY <1>8 DEF Deliverable

(* When a target overflows its bound, some event cannot be kept.           *)
LEMMA SomethingExpires ==
  ASSUME NEW es, NEW n, IsLog(es, n), NEW bound \in Nat,
         ~ (Cardinality(es) <= bound)
  PROVE  es \ Deliverable(es, bound) # {}
<1> DEFINE numbers == {e.sequence : e \in es}
<1>1. IsFiniteSet(es) /\ Cardinality(es) \in Nat
  BY FS_CardinalityType DEF IsLog
<1>2. es # {}
  <2> SUFFICES ASSUME es = {} PROVE FALSE
    OBVIOUS
  <2>1. Cardinality(es) = 0
    BY FS_EmptySet
  <2> QED
    BY <2>1
<1>3. numbers \subseteq Nat /\ numbers # {}
  BY <1>2 DEF IsLog
<1>4. \E m \in numbers : \A x \in numbers : m <= x
  <2> HIDE DEF numbers
  <2> QED
    BY <1>3, LeastNatural
<1>4b. PICK m \in numbers : \A x \in numbers : m <= x
  BY <1>4
<1>5. PICK e \in es : e.sequence = m
  BY <1>4b
<1>6. NewestFrom(es, e) = es
  BY <1>3, <1>4b, <1>5 DEF NewestFrom
<1>7. Anchors(es) \cup NewestFrom(es, e) = es
  BY <1>6 DEF Anchors
<1>8. e \notin Deliverable(es, bound)
  BY <1>7 DEF Deliverable
<1> QED
  BY <1>8

(* The checkpoint of an overflowing target is the newest event that could  *)
(* not be kept.                                                            *)
LEMMA FirstExpiredIsNewest ==
  ASSUME NEW es, NEW n, IsLog(es, n), NEW bound \in Nat,
         ~ (Cardinality(es) <= bound)
  PROVE  \E e \in es \ Deliverable(es, bound) :
           /\ FirstExpired(es, bound) = e.sequence
           /\ \A f \in es \ Deliverable(es, bound) :
                f.sequence <= FirstExpired(es, bound)
<1> DEFINE lost    == es \ Deliverable(es, bound)
           numbers == {e.sequence : e \in lost}
<1>1. lost # {}
  BY SomethingExpires
<1>2. numbers \subseteq Nat /\ numbers # {}
  BY <1>1 DEF IsLog
<1>3. n \in Nat /\ \A x \in numbers : x <= n
  BY DEF IsLog
<1>4. \E m \in numbers : \A x \in numbers : x <= m
  BY <1>2, <1>3, GreatestNatural
<1>5. \E m \in numbers : \A e \in lost : e.sequence <= m
  BY <1>4
<1> HIDE DEF lost
<1>6. /\ FirstExpired(es, bound) \in numbers
      /\ \A e \in lost : e.sequence <= FirstExpired(es, bound)
  BY <1>5 DEF FirstExpired, lost
<1> QED
  BY <1>6 DEF lost

(* The checkpoint is a sequence number of the target, or 0.                *)
LEMMA FirstExpiredType ==
  ASSUME NEW es, NEW n, IsLog(es, n), NEW bound \in Nat
  PROVE  FirstExpired(es, bound) \in 0..n
<1>1. CASE Cardinality(es) <= bound
  BY <1>1 DEF FirstExpired, IsLog
<1>2. CASE ~ (Cardinality(es) <= bound)
  <2>1. PICK e \in es \ Deliverable(es, bound) :
             FirstExpired(es, bound) = e.sequence
    BY <1>2, FirstExpiredIsNewest
  <2> QED
    BY <2>1 DEF IsLog
<1> QED
  BY <1>1, <1>2

(* Compaction keeps every event above the checkpoint and every anchor, and *)
(* invents nothing.                                                        *)
LEMMA CompactedKeeps ==
  ASSUME NEW es, NEW n, IsLog(es, n), NEW bound \in Nat
  PROVE  /\ Compacted(es, bound) \subseteq es
         /\ \A e \in es : e.sequence > FirstExpired(es, bound)
                            => e \in Compacted(es, bound)
<1> QED
  BY DEF Compacted, Anchors

(* There is an anchor of each event's type that is as late.                *)
LEMMA AnchorAbove ==
  ASSUME NEW es, NEW n, IsLog(es, n), NEW e \in es
  PROVE  \E a \in Anchors(es) : a.type = e.type /\ e.sequence <= a.sequence
<1> DEFINE alike   == {f \in es : f.type = e.type}
           numbers == {f.sequence : f \in alike}
<1>1. numbers \subseteq Nat /\ n \in Nat /\ \A x \in numbers : x <= n
  BY DEF IsLog
<1>2. e.sequence \in numbers
  OBVIOUS
<1>3. PICK m \in numbers : \A x \in numbers : x <= m
  <2> HIDE DEF numbers
  <2> QED BY <1>1, <1>2, GreatestNatural
<1>4. PICK a \in alike : a.sequence = m
  OBVIOUS
<1>5. a \in Anchors(es)
  BY <1>3, <1>4 DEF Anchors
<1> QED BY <1>2, <1>3, <1>4, <1>5

(* Whatever the bound, the newest event of each type stays in the table.   *)
LEMMA CompactedKeepsAnchors ==
  ASSUME NEW es, NEW n, IsLog(es, n), NEW bound \in Nat,
         \A e \in es : e.sequence > 0
  PROVE  Anchors(es) \subseteq Compacted(es, bound)
<1>1. CASE Cardinality(es) <= bound
  BY <1>1 DEF Compacted, Anchors, FirstExpired, IsLog
<1>2. CASE ~ (Cardinality(es) <= bound)
  BY <1>2 DEF Compacted
<1> QED
  BY <1>1, <1>2

(* One anchor for each type.                                               *)
LEMMA AnchorsBound ==
  ASSUME NEW es, NEW n, IsLog(es, n), NEW types, IsFiniteSet(types),
         \A e \in es : e.type \in types
  PROVE  /\ IsFiniteSet(Anchors(es))
         /\ Cardinality(Anchors(es)) <= Cardinality(types)
<1> DEFINE typeOf == [e \in Anchors(es) |-> e.type]
<1>1. Anchors(es) \subseteq es
  BY DEF Anchors
<1>2. typeOf \in [Anchors(es) -> types]
  BY <1>1
<1>3. \A e, f \in Anchors(es) : typeOf[e] = typeOf[f] => e = f
  <2> SUFFICES ASSUME NEW e \in Anchors(es), NEW f \in Anchors(es),
                      e.type = f.type
               PROVE  e = f
    OBVIOUS
  <2>1. e.sequence <= f.sequence /\ f.sequence <= e.sequence
    BY DEF Anchors
  <2>2. e \in es /\ f \in es /\ e.sequence \in Nat /\ f.sequence \in Nat
    BY <1>1 DEF IsLog
  <2> QED
    BY <2>1, <2>2 DEF IsLog
<1> HIDE DEF typeOf
<1>4. typeOf \in Injection(Anchors(es), types)
  BY <1>2, <1>3 DEF Injection, IsInjective
<1> QED
  BY <1>4, FS_Injection

(* Compaction never expires the newest event: the walk keeps at least the  *)
(* first event it meets, which is an anchor.                               *)
LEMMA NewestSurvives ==
  ASSUME NEW es, NEW n, IsLog(es, n), NEW types, IsFiniteSet(types),
         \A e \in es : e.type \in types,
         NEW bound \in Nat, Cardinality(types) <= bound,
         NEW e \in es, \A f \in es : f.sequence <= e.sequence,
         e.sequence > 0
  PROVE  FirstExpired(es, bound) < e.sequence
<1>1. CASE Cardinality(es) <= bound
  BY <1>1 DEF FirstExpired
<1>2. CASE ~ (Cardinality(es) <= bound)
  <2>1. e \in Anchors(es)
    BY DEF Anchors
  <2>2. NewestFrom(es, e) = {e}
    <3> SUFFICES ASSUME NEW f \in es, f.sequence >= e.sequence PROVE f = e
      BY DEF NewestFrom, IsLog
    <3> QED
      BY DEF IsLog
  <2>3. Anchors(es) \cup NewestFrom(es, e) = Anchors(es)
    BY <2>1, <2>2
  <2>4. Cardinality(Anchors(es)) <= bound
    BY AnchorsBound, FS_CardinalityType
  <2>5. e \in Deliverable(es, bound)
    BY <2>3, <2>4 DEF Deliverable
  <2>6. PICK g \in es \ Deliverable(es, bound) :
             FirstExpired(es, bound) = g.sequence
    BY <1>2, FirstExpiredIsNewest
  <2>7. g.sequence # e.sequence
    BY <2>5, <2>6 DEF IsLog
  <2> QED
    BY <2>6, <2>7 DEF IsLog
<1> QED
  BY <1>1, <1>2

(* What compaction leaves fits the physical bound: the re-check at the end *)
(* of compactTargetEvents never fails.                                     *)
LEMMA CompactedFits ==
  ASSUME NEW es, NEW n, IsLog(es, n), NEW types, IsFiniteSet(types),
         \A e \in es : e.type \in types,
         NEW bound \in Nat, Cardinality(types) <= bound
  PROVE  Cardinality(Compacted(es, bound)) <= bound
<1> DEFINE fe   == FirstExpired(es, bound)
           kept == {e \in es : e.sequence > fe}
           nums == {e.sequence : e \in kept}
<1>a. IsFiniteSet(es)
  BY DEF IsLog
<1>1. CASE Cardinality(es) <= bound
  <2>1. Compacted(es, bound) \subseteq es
    BY CompactedKeeps
  <2>2. /\ Cardinality(Compacted(es, bound)) <= Cardinality(es)
        /\ IsFiniteSet(Compacted(es, bound))
    BY <1>a, <2>1, FS_Subset
  <2> QED
    BY <1>a, <1>1, <2>2, FS_CardinalityType
<1>2. CASE ~ (Cardinality(es) <= bound)
  <2>1. Compacted(es, bound) = kept \cup Anchors(es)
    BY <1>2 DEF Compacted
  <2>2. fe \in Nat
    BY FirstExpiredType DEF IsLog
  <2>3. CASE kept = {}
    <3>1. Compacted(es, bound) = Anchors(es)
      BY <2>1, <2>3
    <3>2. /\ Cardinality(Anchors(es)) \in Nat
          /\ Cardinality(Anchors(es)) <= Cardinality(types)
          /\ Cardinality(types) \in Nat
      BY AnchorsBound, FS_CardinalityType
    <3> QED
      BY <3>1, <3>2
  <2>4. CASE kept # {}
    <3>1. nums \subseteq Nat /\ nums # {}
      BY <2>4 DEF IsLog
    <3>1b. \E m \in nums : \A x \in nums : m <= x
      <4> HIDE DEF nums
      <4> QED
        BY <3>1, LeastNatural
    <3>2. PICK m \in nums : \A x \in nums : m <= x
      BY <3>1b
    <3>3. PICK e \in kept : e.sequence = m
      BY <3>2
    <3>4. e \in es /\ e.sequence > fe
      BY <3>3
    <3>5. e \in Deliverable(es, bound)
      <4> SUFFICES ASSUME e \notin Deliverable(es, bound) PROVE FALSE
        OBVIOUS
      <4>1. e.sequence <= fe
        BY <1>2, <3>4, FirstExpiredIsNewest
      <4> QED
        BY <2>2, <3>4, <4>1 DEF IsLog
    <3>6. NewestFrom(es, e) = kept
      <4>1. \A f \in kept : f.sequence >= e.sequence
        BY <3>1, <3>2, <3>3
      <4>2. \A f \in es : f.sequence >= e.sequence => f.sequence > fe
        BY <2>2, <3>4 DEF IsLog
      <4> QED
        BY <4>1, <4>2 DEF NewestFrom
    <3>7. Anchors(es) \cup NewestFrom(es, e) = Compacted(es, bound)
      BY <2>1, <3>6
    <3> QED
      BY <3>5, <3>7 DEF Deliverable
  <2> QED
    BY <2>3, <2>4
<1> QED
  BY <1>1, <1>2

=============================================================================
