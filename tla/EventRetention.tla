--------------------------- MODULE EventRetention ---------------------------
(***************************************************************************)
(* What compactTargetEvents of the catalog storage computes: which of one  *)
(* target's journalled events stay in runtime_events, and through which    *)
(* sequence number the target's events are declared expired.               *)
(*                                                                         *)
(* An event is a record with at least the fields sequence, type and        *)
(* object.  The operators take the events of ONE target, so two events of  *)
(* a set never share a sequence number.                                    *)
(***************************************************************************)
EXTENDS Naturals, FiniteSets

EventsOf(es, o) == {e \in es : e.object = o}

(* The integrity anchors: the newest event of each type.                   *)
Anchors(es) ==
  {e \in es : \A f \in es : f.type = e.type => f.sequence <= e.sequence}

(* The events from e upwards, which the storage walks newest first.        *)
NewestFrom(es, e) == {f \in es : f.sequence >= e.sequence}

(* Faulty: the anchors are not counted.                                    *)
DeliverableUncounted(es, bound) ==
  {e \in es : Cardinality(NewestFrom(es, e)) <= bound}

(* The walk keeps e while the anchors and everything from e upwards still  *)
(* fit the physical bound, and stops for good at the first that does not.  *)
Deliverable(es, bound) ==
  {e \in es : Cardinality(Anchors(es) \cup NewestFrom(es, e)) <= bound}

(* No event has expired while the bound is respected; otherwise the newest *)
(* event the walk could not keep, and everything below it, expires.        *)
FirstExpired(es, bound) ==
  IF Cardinality(es) <= bound
    THEN 0
    ELSE CHOOSE n \in {e.sequence : e \in es \ Deliverable(es, bound)} :
           \A e \in es \ Deliverable(es, bound) : e.sequence <= n

(* Faulty: the deletion takes the anchors too.                             *)
CompactedWithAnchors(es, bound) ==
  {e \in es : e.sequence > FirstExpired(es, bound)}

(* What the deletion leaves: later events, and anchors however old.        *)
Compacted(es, bound) ==
  {e \in es : e.sequence > FirstExpired(es, bound)}
    \cup (IF Cardinality(es) <= bound THEN {} ELSE Anchors(es))

=============================================================================
