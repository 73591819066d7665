-------------------------- MODULE EventFeed_proofs --------------------------
(***************************************************************************)
(* What holds of the event feed for any number of targets, consumers and   *)
(* event types, any page sizes and any physical bound that has room for    *)
(* one anchor of each type.                                                *)
(***************************************************************************)
EXTENDS EventFeed, EventRetention_proofs

(* Sequence numbers identify events and stay below the counter, the table  *)
(* is a finite part of the history, and only retained targets have rows.   *)
Numbering ==
  /\ IsFiniteSet(events)
  /\ \A e \in issued : e.sequence < nextSequence /\ e.sequence <= MaxSequence
  /\ \A e, f \in issued : e.sequence = f.sequence => e = f
  /\ events \subseteq issued
  /\ \A e \in events : e.object \in open

(* Nothing deliverable is missing, and each checkpoint is below the counter *)
Window ==
  /\ WindowIsSuffix
  /\ \A t \in Targets : expired[t] < nextSequence

(* A consumer's cursor is an event of its target that it has seen.         *)
Positions ==
  \A c \in Consumers :
    /\ consumer[c].cursor # 0 =>
         \E e \in EventsOf(issued, consumer[c].target) :
           e.sequence = consumer[c].cursor
    /\ consumer[c].cursor = 0 => consumer[c].seen = {}
    /\ \A n \in consumer[c].seen : n <= consumer[c].cursor

IInv == TypeOK /\ Numbering /\ Window /\ Positions /\ NoGap

(* What the bound's assumption says, in the form the lemmas need.          *)
LEMMA BoundFacts ==
  /\ MaxEvents \in Nat
  /\ IsFiniteSet(EventTypes)
  /\ Cardinality(EventTypes) <= MaxEvents
BY FeedAssumption DEF FeedAssumption

(* An empty journal read by fresh consumers satisfies the invariant.       *)
LEMMA InitInvariant == Init => IInv
<1> SUFFICES ASSUME Init PROVE IInv
  OBVIOUS
<1> USE DEF Init, Start
<1>1. TypeOK
  BY DEF TypeOK, Consumer
<1>2. Numbering
  BY FS_EmptySet DEF Numbering
<1>3. Window
  BY DEF Window, WindowIsSuffix
<1>4. Positions
  BY DEF Positions
<1>5. NoGap
  BY DEF NoGap
<1> QED
  BY <1>1, <1>2, <1>3, <1>4, <1>5 DEF IInv

-----------------------------------------------------------------------------

(* The rows of the written target, with the new event, are a log as        *)
(* compaction expects it, and the new event is its newest.                 *)
LEMMA AppendedLog ==
  ASSUME TypeOK, Numbering, NEW t \in Targets, NEW type \in EventTypes
  PROVE  LET event == [sequence |-> nextSequence, type |-> type, object |-> t]
             mine  == EventsOf(events, t) \cup {event}
         IN  /\ event \in Event
             /\ IsLog(mine, nextSequence)
             /\ \A e \in mine : e.type \in EventTypes /\ e.sequence > 0
             /\ FirstExpired(mine, MaxEvents) \in 0..nextSequence
             /\ FirstExpired(mine, MaxEvents) < nextSequence
<1> DEFINE event == [sequence |-> nextSequence, type |-> type, object |-> t]
           mine  == EventsOf(events, t) \cup {event}
<1>1. event \in Event
  BY DEF TypeOK, Event
<1>2. EventsOf(events, t) \subseteq events
  BY DEF EventsOf
<1>3. IsFiniteSet(EventsOf(events, t))
  BY <1>2, FS_Subset DEF Numbering
<1>4. IsFiniteSet(mine)
  BY <1>3, FS_AddElement
<1>5. \A e \in EventsOf(events, t) :
         e \in issued /\ e \in Event /\ e.sequence < nextSequence
  BY <1>2 DEF Numbering, TypeOK
<1>6. \A e \in mine : e.sequence \in Nat \ {0} /\ e.sequence <= nextSequence
  BY <1>1, <1>5 DEF Event, TypeOK
<1>7. \A e, f \in mine : e.sequence = f.sequence => e = f
  <2> TAKE e, f \in mine
  <2>1. CASE e = event \/ f = event
    BY <2>1, <1>5 DEF TypeOK, Event
  <2>2. CASE e # event /\ f # event
    BY <2>2, <1>5 DEF Numbering
  <2> QED
    BY <2>1, <2>2
<1>8. IsLog(mine, nextSequence)
  BY <1>4, <1>6, <1>7 DEF IsLog, TypeOK
<1>9. \A e \in mine : e.type \in EventTypes /\ e.sequence > 0
  BY <1>1, <1>5, <1>6 DEF Event
<1>10. FirstExpired(mine, MaxEvents) \in 0..nextSequence
  BY <1>8, BoundFacts, FirstExpiredType
<1>11. FirstExpired(mine, MaxEvents) < nextSequence
  <2>1. event \in mine /\ event.sequence = nextSequence
    OBVIOUS
  <2>2. \A f \in mine : f.sequence <= event.sequence
    BY <1>6
  <2>3. event.sequence > 0
    BY <1>9, <2>1
  <2>4. \A f \in mine : f.type \in EventTypes
    BY <1>9
  <2>5. MaxEvents \in Nat /\ IsFiniteSet(EventTypes)
    BY BoundFacts
  <2>6. Cardinality(EventTypes) <= MaxEvents
    BY BoundFacts
  <2> HIDE DEF mine, event
  <2>7. FirstExpired(mine, MaxEvents) < event.sequence
    BY <1>8, <2>1, <2>2, <2>3, <2>4, <2>5, <2>6, NewestSurvives
  <2> QED
    BY <2>1, <2>7
<1> QED
  BY <1>1, <1>8, <1>9, <1>10, <1>11

(* An append with its compaction keeps the invariant: what it deletes is   *)
(* at or below the checkpoint it sets.                                     *)
LEMMA AppendInvariant ==
  ASSUME IInv, NEW t \in Targets, NEW type \in EventTypes, Append(t, type)
  PROVE  IInv'
<1> DEFINE event == [sequence |-> nextSequence, type |-> type, object |-> t]
           mine  == EventsOf(events, t) \cup {event}
           fe    == FirstExpired(mine, MaxEvents)
           kept  == Compacted(mine, MaxEvents)
<1>1. TypeOK /\ Numbering /\ Window /\ Positions /\ NoGap
  BY DEF IInv
<1>2. /\ event \in Event
      /\ IsLog(mine, nextSequence)
      /\ fe \in 0..nextSequence
      /\ fe < nextSequence
  BY <1>1, AppendedLog
<1>3. /\ kept \subseteq mine
      /\ \A e \in mine : e.sequence > fe => e \in kept
  <2> HIDE DEF mine
  <2> QED
    BY <1>2, BoundFacts, CompactedKeeps
<1>4. /\ events' = (events \ EventsOf(events, t)) \cup kept
      /\ expired' = [expired EXCEPT ![t] = Later(@, fe)]
      /\ nextSequence' = nextSequence + 1
      /\ open' = open \cup {t}
      /\ issued' = issued \cup {event}
      /\ consumer' = consumer
      /\ t \notin open => EventsOf(issued, t) = {}
      /\ nextSequence <= MaxSequence
  BY DEF Append
<1>5. events' \subseteq events \cup {event}
  BY <1>3, <1>4 DEF EventsOf
<1>6. /\ expired' \in [Targets -> Nat]
      /\ expired[t] <= expired'[t] /\ fe <= expired'[t]
      /\ \A u \in Targets : expired'[u] < nextSequence'
      /\ \A u \in Targets \ {t} : expired'[u] = expired[u]
  <2> HIDE DEF fe
  <2>1. /\ expired \in [Targets -> Nat] /\ nextSequence \in Nat
        /\ fe \in Nat /\ fe < nextSequence
        /\ \A u \in Targets : expired[u] < nextSequence
    BY <1>1, <1>2 DEF TypeOK, Window
  <2> QED
    BY <1>4, <2>1 DEF Later
<1> HIDE DEF fe, kept
<1>7. TypeOK'
  BY <1>1, <1>2, <1>4, <1>5, <1>6 DEF TypeOK
<1>8. Numbering'
  <2>1. IsFiniteSet(events')
    <3>1. IsFiniteSet(events \cup {event})
      BY <1>1, FS_AddElement DEF Numbering
    <3> QED
      BY <1>5, <3>1, FS_Subset
  <2>2. \A e \in issued' : e.sequence < nextSequence' /\ e.sequence <= MaxSequence
    BY <1>1, <1>4 DEF Numbering, TypeOK, Event
  <2>3. \A e, f \in issued' : e.sequence = f.sequence => e = f
    BY <1>1, <1>4 DEF Numbering, TypeOK
  <2>4. events' \subseteq issued'
    BY <1>1, <1>4, <1>5 DEF Numbering
  <2>5. \A e \in events' : e.object \in open'
    BY <1>1, <1>4, <1>5 DEF Numbering
  <2> QED
    BY <2>1, <2>2, <2>3, <2>4, <2>5 DEF Numbering
<1>9. Window'
  <2>1. ASSUME NEW u \in open', NEW e \in EventsOf(issued', u),
               e.sequence > expired'[u]
        PROVE  e \in events'
    <3>1. e \in issued' /\ e.object = u
      BY <2>1 DEF EventsOf
    <3>2. CASE u = t
      <4>1. e.sequence > fe /\ e.sequence > expired[t]
        <5>1. fe \in Nat /\ expired[t] \in Nat /\ expired'[t] \in Nat
          BY <1>1, <1>2, <1>6 DEF TypeOK
        <5>2. e.sequence \in Nat
          BY <1>7, <3>1 DEF TypeOK, Event
        <5> QED
          BY <1>6, <2>1, <3>2, <5>1, <5>2
      <4>2. e \in mine
        <5>1. CASE e = event
          BY <5>1
        <5>2. CASE e # event
          <6>1. e \in EventsOf(issued, t)
            BY <1>4, <3>1, <3>2, <5>2 DEF EventsOf
          <6>2. t \in open
            BY <1>4, <6>1
          <6>3. e \in events
            BY <1>1, <4>1, <6>1, <6>2 DEF Window, WindowIsSuffix
          <6> QED
            BY <3>1, <3>2, <6>3 DEF EventsOf
        <5> QED
          BY <5>1, <5>2
      <4> QED
        BY <1>3, <1>4, <4>1, <4>2
    <3>3. CASE u # t
      <4>1. u \in open /\ u \in Targets
        BY <1>1, <1>4, <3>3 DEF TypeOK
      <4>2. e \in EventsOf(issued, u) /\ e.sequence > expired[u]
        BY <1>4, <1>6, <2>1, <3>1, <3>3, <4>1 DEF EventsOf
      <4>3. e \in events
        BY <1>1, <4>1, <4>2 DEF Window, WindowIsSuffix
      <4> QED
        BY <1>4, <3>1, <3>3, <4>3 DEF EventsOf
    <3> QED
      BY <3>2, <3>3
  <2>2. WindowIsSuffix'
    BY <2>1 DEF WindowIsSuffix
  <2> QED
    BY <1>6, <2>2 DEF Window
<1>10. Positions'
  <2>1. \A u \in Targets : EventsOf(issued, u) \subseteq EventsOf(issued', u)
    BY <1>4 DEF EventsOf
  <2>2. \A c \in Consumers : consumer[c].target \in Targets
    BY <1>1 DEF TypeOK, Consumer
  <2> QED
    BY <1>1, <1>4, <2>1, <2>2 DEF Positions
<1>11. NoGap'
  <2> SUFFICES ASSUME NEW c \in Consumers,
                      NEW e \in EventsOf(issued', consumer[c].target),
                      e.sequence <= consumer[c].cursor,
                      \E n \in consumer[c].seen : n <= e.sequence
               PROVE  e.sequence \in consumer[c].seen
    BY <1>4 DEF NoGap
  <2>1. consumer[c].cursor < nextSequence
    <3>1. consumer[c].cursor \in Nat
      BY <1>1 DEF TypeOK, Consumer
    <3>2. CASE consumer[c].cursor = 0
      BY <1>1, <3>2 DEF TypeOK
    <3>3. CASE consumer[c].cursor # 0
      BY <1>1, <3>3 DEF Positions, Numbering, EventsOf
    <3> QED
      BY <3>2, <3>3
  <2>2. e # event
    <3>1. consumer[c].cursor \in Nat /\ nextSequence \in Nat
      BY <1>1 DEF TypeOK, Consumer
    <3> QED
      BY <2>1, <3>1
  <2>3. e \in EventsOf(issued, consumer[c].target)
    BY <1>4, <2>2 DEF EventsOf
  <2> QED
    BY <1>1, <2>3 DEF NoGap
<1> QED
  BY <1>7, <1>8, <1>9, <1>10, <1>11 DEF IInv

(* Forgetting a target takes all its rows and its claim to be complete.    *)
LEMMA PurgeInvariant ==
  ASSUME IInv, NEW t \in Targets, Purge(t)
  PROVE  IInv'
<1>1. TypeOK /\ Numbering /\ Window /\ Positions /\ NoGap
  BY DEF IInv
<1>2. /\ events' = events \ EventsOf(events, t)
      /\ expired' = [expired EXCEPT ![t] = 0]
      /\ open' = open \ {t}
      /\ nextSequence' = nextSequence /\ consumer' = consumer /\ issued' = issued
  BY DEF Purge
<1>3. TypeOK'
  BY <1>1, <1>2 DEF TypeOK
<1>4. Numbering'
  <2>1. IsFiniteSet(events')
    BY <1>1, <1>2, FS_Subset DEF Numbering
  <2> QED
    BY <1>1, <1>2, <2>1 DEF Numbering, EventsOf
<1>5. Window'
  <2>1. ASSUME NEW u \in open', NEW e \in EventsOf(issued', u),
               e.sequence > expired'[u]
        PROVE  e \in events'
    <3>1. u # t /\ u \in open /\ u \in Targets
      BY <1>1, <1>2 DEF TypeOK
    <3>2. e \in EventsOf(issued, u) /\ e.sequence > expired[u]
      BY <1>1, <1>2, <2>1, <3>1 DEF TypeOK
    <3>3. e \in events
      BY <1>1, <3>1, <3>2 DEF Window, WindowIsSuffix
    <3> QED
      BY <1>2, <3>1, <3>2, <3>3 DEF EventsOf
  <2>2. \A u \in Targets : expired'[u] < nextSequence'
    BY <1>1, <1>2 DEF TypeOK, Window
  <2> QED
    BY <2>1, <2>2 DEF Window, WindowIsSuffix
<1>6. Positions' /\ NoGap'
  BY <1>1, <1>2 DEF Positions, NoGap, EventsOf
<1> QED
  BY <1>3, <1>4, <1>5, <1>6 DEF IInv

-----------------------------------------------------------------------------

(* A page is a prefix of what is pending.                                  *)
LEMMA PageIsPrefix ==
  ASSUME TypeOK, Numbering, NEW c \in Consumers, NEW limit \in Nat,
         NEW e \in Page(c, limit), NEW f \in Pending(c),
         f.sequence <= e.sequence
  PROVE  f \in Page(c, limit)
<1> DEFINE upTo(g) == {h \in Pending(c) : h.sequence <= g.sequence}
<1>1. Pending(c) \subseteq events
  BY DEF Pending, EventsOf
<1>2. IsFiniteSet(Pending(c))
  BY <1>1, FS_Subset DEF Numbering
<1>3. IsFiniteSet(upTo(e))
  BY <1>2, FS_Subset
<1>4. e \in Pending(c) /\ Cardinality(upTo(e)) <= limit
  BY DEF Page
<1>5. \A g \in Pending(c) : g.sequence \in Nat
  BY <1>1 DEF TypeOK, Event
<1>6. upTo(f) \subseteq upTo(e)
  BY <1>4, <1>5
<1>7. IsFiniteSet(upTo(f)) /\ Cardinality(upTo(f)) <= Cardinality(upTo(e))
  BY <1>3, <1>6, FS_Subset
<1>8. Cardinality(upTo(f)) \in Nat /\ Cardinality(upTo(e)) \in Nat
  BY <1>3, <1>7, FS_CardinalityType
<1>9. Cardinality(upTo(f)) <= limit
  BY <1>4, <1>7, <1>8
<1> QED
  BY <1>9 DEF Page

(* Whatever page size it asks for, an accepted consumer is handed the next *)
(* run of the full journal of a retained target.                           *)
LEMMA PullReadsJournal ==
  ASSUME IInv, NEW c \in Consumers, NEW limit \in PageLimits, Pull(c, limit)
  PROVE  \E last \in 1..MaxSequence : Stream!Read(c, last)
<1> DEFINE t       == consumer[c].target
           cursor  == consumer[c].cursor
           numbers == {e.sequence : e \in Page(c, limit)}
<1>1. TypeOK /\ Numbering /\ Window /\ Positions /\ NoGap
  BY DEF IInv
<1>2. limit \in Nat
  BY FeedAssumption DEF FeedAssumption
<1>3. PICK last \in numbers :
        /\ \A n \in numbers : n <= last
        /\ consumer' = [consumer EXCEPT ![c].cursor = last,
                                        ![c].seen = @ \cup numbers]
  BY DEF Pull
<1>4. PICK z \in Page(c, limit) : z.sequence = last
  BY <1>3
<1>5. Page(c, limit) \subseteq Pending(c)
  BY DEF Page
<1>6. t \in Targets /\ cursor \in Nat /\ expired[t] \in Nat
  BY <1>1 DEF TypeOK, Consumer
<1>7. /\ z \in events /\ z.object = t
      /\ z.sequence > cursor /\ z.sequence > expired[t]
  BY <1>4, <1>5 DEF Pending, EventsOf
<1>8. t \in open /\ z \in EventsOf(issued, t)
  BY <1>1, <1>7 DEF Numbering, EventsOf
<1>9. Journal[t] = {e.sequence : e \in EventsOf(issued, t)}
  BY <1>6 DEF Journal
<1>10. last \in Journal[t]
  BY <1>4, <1>8, <1>9
<1>11. cursor = 0 \/ cursor > expired[t]
  <2>1. Accepted(c)
    BY DEF Pull
  <2> QED
    BY <1>6, <2>1 DEF Accepted
<1>12. numbers = {n \in Journal[t] : n > cursor /\ n > expired[t] /\ n <= last}
  <2>1. ASSUME NEW n \in numbers
        PROVE  n \in Journal[t] /\ n > cursor /\ n > expired[t] /\ n <= last
    <3>1. PICK e \in Page(c, limit) : e.sequence = n
      BY <2>1
    <3>2. e \in EventsOf(events, t) /\ n > cursor /\ n > expired[t]
      BY <1>5, <3>1 DEF Pending
    <3>3. e \in EventsOf(issued, t)
      BY <1>1, <3>2 DEF Numbering, EventsOf
    <3> QED
      BY <1>3, <1>9, <3>1, <3>2, <3>3
  <2>2. ASSUME NEW n \in Journal[t], n > cursor, n > expired[t], n <= last
        PROVE  n \in numbers
    <3>1. PICK e \in EventsOf(issued, t) : e.sequence = n
      BY <1>9, <2>2
    <3>2. e \in events
      BY <1>1, <1>8, <2>2, <3>1 DEF Window, WindowIsSuffix
    <3>3. e \in Pending(c)
      BY <2>2, <3>1, <3>2 DEF Pending, EventsOf
    <3>4. e \in Page(c, limit)
      BY <1>1, <1>2, <1>4, <2>2, <3>1, <3>3, PageIsPrefix
    <3> QED
      BY <3>1, <3>4
  <2> HIDE DEF numbers, t, cursor
  <2> QED
    BY <2>1, <2>2
<1>13. last \in 1..MaxSequence
  <2>1. z \in issued /\ z.sequence <= MaxSequence
    BY <1>1, <1>7 DEF Numbering
  <2>2. z.sequence \in Nat /\ MaxSequence \in Nat
    BY <1>1, <2>1, FeedAssumption DEF TypeOK, Event, FeedAssumption
  <2> QED
    BY <1>4, <1>6, <1>7, <2>1, <2>2
<1>14. /\ events' = events /\ expired' = expired
       /\ open' = open /\ issued' = issued
  BY DEF Pull
<1>15. Journal' = Journal
  BY <1>14 DEF Journal
<1>16. last > cursor /\ last > expired[t]
  BY <1>4, <1>7
<1>17. consumer' = [consumer EXCEPT
         ![c].cursor = last,
         ![c].seen = @ \cup {n \in Journal[t] :
                               n > cursor /\ n > expired[t] /\ n <= last}]
  BY <1>3, <1>12
<1>18. Stream!Read(c, last)
  <2> HIDE DEF numbers
  <2> QED
    BY <1>8, <1>10, <1>11, <1>14, <1>15, <1>16, <1>17 DEF Stream!Read
<1> QED
  BY <1>13, <1>18

(* Being handed the next run of the journal leaves no hole behind.         *)
LEMMA PullInvariant ==
  ASSUME IInv, NEW c \in Consumers, NEW limit \in PageLimits, Pull(c, limit)
  PROVE  IInv'
<1> DEFINE t       == consumer[c].target
           cursor  == consumer[c].cursor
           read(l) == {n \in Journal[t] : n > cursor /\ n > expired[t] /\ n <= l}
<1>1. TypeOK /\ Numbering /\ Window /\ Positions /\ NoGap
  BY DEF IInv
<1>2. PICK last \in 1..MaxSequence : Stream!Read(c, last)
  BY PullReadsJournal
<1>3. /\ events' = events /\ expired' = expired /\ nextSequence' = nextSequence
      /\ open' = open /\ issued' = issued
  BY DEF Pull
<1>4. /\ consumer' = [consumer EXCEPT ![c].cursor = last,
                                      ![c].seen = @ \cup read(last)]
      /\ cursor = 0 \/ cursor > expired[t]
      /\ last \in Journal[t] /\ last > cursor /\ last > expired[t]
  BY <1>2 DEF Stream!Read
<1>5. /\ t \in Targets /\ cursor \in Nat /\ expired[t] \in Nat
      /\ consumer[c].seen \in SUBSET Nat
      /\ consumer \in [Consumers -> Consumer]
  BY <1>1 DEF TypeOK, Consumer
<1>6. /\ Journal[t] = {e.sequence : e \in EventsOf(issued, t)}
      /\ Journal[t] \subseteq Nat
  BY <1>1, <1>5 DEF Journal, EventsOf, TypeOK, Event
<1>7. /\ consumer'[c].target = t
      /\ consumer'[c].cursor = last
      /\ consumer'[c].seen = consumer[c].seen \cup read(last)
      /\ consumer'[c] \in Consumer
      /\ \A d \in Consumers \ {c} : consumer'[d] = consumer[d]
  <2> HIDE DEF read
  <2>1. read(last) \subseteq Nat /\ last \in Nat
    BY <1>4, <1>6 DEF read
  <2> QED
    BY <1>4, <1>5, <2>1 DEF Consumer
<1>8. TypeOK'
  <2>1. consumer' \in [Consumers -> Consumer]
    BY <1>4, <1>5, <1>7
  <2> QED
    BY <1>1, <1>3, <2>1 DEF TypeOK
<1>9. Numbering' /\ Window'
  BY <1>1, <1>3 DEF Numbering, Window, WindowIsSuffix
<1>10. Positions'
  <2>1. ASSUME NEW d \in Consumers
        PROVE  /\ consumer'[d].cursor # 0 =>
                     \E e \in EventsOf(issued', consumer'[d].target) :
                       e.sequence = consumer'[d].cursor
               /\ consumer'[d].cursor = 0 => consumer'[d].seen = {}
               /\ \A n \in consumer'[d].seen : n <= consumer'[d].cursor
    <3>1. CASE d # c
      BY <1>1, <1>3, <1>7, <3>1 DEF Positions
    <3>2. CASE d = c
      <4>1. \E e \in EventsOf(issued, t) : e.sequence = last
        BY <1>4, <1>6
      <4>2. last # 0
        BY <1>4, <1>5
      <4>3. \A n \in consumer[c].seen : n <= last
        <5>1. \A n \in consumer[c].seen : n \in Nat /\ n <= cursor
          BY <1>1, <1>5 DEF Positions
        <5> QED
          BY <1>4, <1>5, <5>1
      <4> QED
        BY <1>3, <1>7, <3>2, <4>1, <4>2, <4>3
    <3> QED
      BY <3>1, <3>2
  <2> QED
    BY <2>1 DEF Positions
<1>11. NoGap'
  <2> SUFFICES ASSUME NEW d \in Consumers,
                      NEW e \in EventsOf(issued, consumer'[d].target),
                      e.sequence <= consumer'[d].cursor,
                      NEW n \in consumer'[d].seen, n <= e.sequence
               PROVE  e.sequence \in consumer'[d].seen
    BY <1>3 DEF NoGap
  <2>1. CASE d # c
    BY <1>1, <1>7, <2>1 DEF NoGap
  <2>2. CASE d = c
    <3>1. e \in EventsOf(issued, t) /\ e.sequence \in Journal[t]
      BY <1>6, <1>7, <2>2
    <3>2. e.sequence \in Nat /\ n \in Nat /\ last \in Nat
      BY <1>4, <1>6, <1>7, <1>5, <2>2, <3>1
    <3>3. CASE e.sequence > cursor /\ e.sequence > expired[t]
      BY <1>7, <2>2, <3>1, <3>3
    <3>4. CASE e.sequence <= cursor
      <4>1. n \in consumer[c].seen
        BY <1>5, <1>7, <2>2, <3>2, <3>4
      <4> QED
        BY <1>1, <1>7, <2>2, <3>1, <3>4, <4>1 DEF NoGap
    <3>5. CASE e.sequence > cursor /\ e.sequence <= expired[t]
      <4>1. cursor = 0
        BY <1>4, <1>5, <3>2, <3>5
      <4>2. consumer[c].seen = {}
        BY <1>1, <4>1 DEF Positions
      <4> QED
        BY <1>5, <1>7, <2>2, <3>2, <3>5, <4>2
    <3> QED
      BY <1>5, <3>2, <3>3, <3>4, <3>5
  <2> QED
    BY <2>1, <2>2
<1> QED
  BY <1>8, <1>9, <1>10, <1>11 DEF IInv

(* A refused consumer forgets its cursor and what it read under it.        *)
LEMMA RefuseInvariant ==
  ASSUME IInv, NEW c \in Consumers, Refuse(c)
  PROVE  IInv'
<1>1. TypeOK /\ Numbering /\ Window /\ Positions /\ NoGap
  BY DEF IInv
<1>2. /\ events' = events /\ expired' = expired /\ nextSequence' = nextSequence
      /\ open' = open /\ issued' = issued
      /\ consumer' = [consumer EXCEPT ![c] = Start(@.target)]
  BY DEF Refuse
<1>3. consumer \in [Consumers -> Consumer] /\ consumer[c].target \in Targets
  BY <1>1 DEF TypeOK, Consumer
<1>4. /\ consumer'[c] = Start(consumer[c].target)
      /\ \A d \in Consumers \ {c} : consumer'[d] = consumer[d]
  BY <1>2, <1>3
<1>5. TypeOK'
  <2>1. Start(consumer[c].target) \in Consumer
    BY <1>3 DEF Start, Consumer
  <2>2. consumer' \in [Consumers -> Consumer]
    BY <1>2, <1>3, <2>1
  <2> QED
    BY <1>1, <1>2, <2>2 DEF TypeOK
<1>6. Numbering' /\ Window'
  BY <1>1, <1>2 DEF Numbering, Window, WindowIsSuffix
<1>7. Positions'
  BY <1>1, <1>2, <1>4 DEF Positions, Start
<1>8. NoGap'
  BY <1>1, <1>2, <1>4 DEF NoGap, Start
<1> QED
  BY <1>5, <1>6, <1>7, <1>8 DEF IInv

(* Every step of the feed keeps the inductive invariant.                   *)
LEMMA NextInvariant == IInv /\ [Next]_vars => IInv'
<1> SUFFICES ASSUME IInv, [Next]_vars PROVE IInv'
  OBVIOUS
<1>1. ASSUME NEW t \in Targets, NEW type \in EventTypes, Append(t, type)
      PROVE  IInv'
  BY <1>1, AppendInvariant
<1>2. ASSUME NEW t \in Targets, Purge(t)
      PROVE  IInv'
  BY <1>2, PurgeInvariant
<1>3. ASSUME NEW c \in Consumers, NEW limit \in PageLimits, Pull(c, limit)
      PROVE  IInv'
  BY <1>3, PullInvariant
<1>4. ASSUME NEW c \in Consumers, Refuse(c)
      PROVE  IInv'
  BY <1>4, RefuseInvariant
<1>5. CASE UNCHANGED vars
  BY <1>5 DEF vars, IInv, TypeOK, Numbering, Window, WindowIsSuffix,
              Positions, NoGap
<1> QED
  BY <1>1, <1>2, <1>3, <1>4, <1>5 DEF Next

-----------------------------------------------------------------------------

(* The inductive invariant holds of every behaviour of the feed.           *)
THEOREM Invariance == Spec => []IInv
BY InitInvariant, NextInvariant, PTL DEF Spec

(* Every variable of the feed keeps its type.                              *)
THEOREM TypeCorrect == Spec => []TypeOK
<1>1. IInv => TypeOK
  BY DEF IInv
<1> QED
  BY <1>1, Invariance, PTL

(* For any bound with room for the anchors: an event of a retained target  *)
(* that compaction removed lies at or below the target's checkpoint.       *)
THEOREM NothingDeliverableIsLost == Spec => []WindowIsSuffix
<1>1. IInv => WindowIsSuffix
  BY DEF IInv, Window
<1> QED
  BY <1>1, Invariance, PTL

(* For any page sizes and any interleaving of appends, compactions and     *)
(* purges with the pages: no consumer is handed a journal with a hole.     *)
THEOREM PagesHaveNoGap == Spec => []NoGap
<1>1. IInv => NoGap
  BY DEF IInv
<1> QED
  BY <1>1, Invariance, PTL

-----------------------------------------------------------------------------

(* What an append leaves of the written target is what compaction kept,    *)
(* and no other target's rows change.                                      *)
LEMMA AppendRows ==
  ASSUME IInv, NEW t \in Targets, NEW type \in EventTypes, Append(t, type)
  PROVE  LET event == [sequence |-> nextSequence, type |-> type, object |-> t]
             mine  == EventsOf(events, t) \cup {event}
         IN  /\ EventsOf(events', t) = Compacted(mine, MaxEvents)
             /\ \A u \in Targets \ {t} : EventsOf(events', u) = EventsOf(events, u)
<1> DEFINE event == [sequence |-> nextSequence, type |-> type, object |-> t]
           mine  == EventsOf(events, t) \cup {event}
<1>1. events' = (events \ EventsOf(events, t)) \cup Compacted(mine, MaxEvents)
  BY DEF Append
<1>2. Compacted(mine, MaxEvents) \subseteq mine
  BY DEF Compacted, Anchors
<1>3. \A e \in mine : e.object = t
  BY DEF EventsOf
<1> HIDE DEF mine
<1>4. EventsOf(events', t) = Compacted(mine, MaxEvents)
  BY <1>1, <1>2, <1>3 DEF EventsOf
<1>5. \A u \in Targets \ {t} : EventsOf(events', u) = EventsOf(events, u)
  BY <1>1, <1>2, <1>3 DEF EventsOf
<1> QED
  BY <1>4, <1>5 DEF mine

(* For every number of event types that fits: no target ever exceeds its   *)
(* physical bound, so the re-check after the deletion never fails.         *)
THEOREM BoundRespected == Spec => []PhysicalBound
<1>1. Init => PhysicalBound
  <2> SUFFICES ASSUME Init PROVE PhysicalBound
    OBVIOUS
  <2>1. \A t \in Targets : EventsOf(events, t) = {}
    BY DEF Init, EventsOf
  <2> QED
    BY <2>1, FS_EmptySet, BoundFacts DEF PhysicalBound
<1>2. IInv /\ PhysicalBound /\ [Next]_vars => PhysicalBound'
  <2> SUFFICES ASSUME IInv, PhysicalBound, [Next]_vars PROVE PhysicalBound'
    OBVIOUS
  <2>1. TypeOK /\ Numbering
    BY DEF IInv
  <2>2. ASSUME NEW t \in Targets, NEW type \in EventTypes, Append(t, type)
        PROVE  PhysicalBound'
    <3> DEFINE event == [sequence |-> nextSequence, type |-> type, object |-> t]
               mine  == EventsOf(events, t) \cup {event}
    <3>1. /\ IsLog(mine, nextSequence)
          /\ \A e \in mine : e.type \in EventTypes
      BY <2>1, AppendedLog
    <3>2. /\ EventsOf(events', t) = Compacted(mine, MaxEvents)
          /\ \A u \in Targets \ {t} : EventsOf(events', u) = EventsOf(events, u)
      BY <2>2, AppendRows
    <3>3. Cardinality(Compacted(mine, MaxEvents)) <= MaxEvents
      <4> HIDE DEF mine
      <4> QED
        BY <3>1, BoundFacts, CompactedFits
    <3> QED
      BY <3>2, <3>3 DEF PhysicalBound
  <2>3. ASSUME NEW t \in Targets, Purge(t)
        PROVE  PhysicalBound'
    <3>1. \A u \in Targets \ {t} : EventsOf(events', u) = EventsOf(events, u)
      BY <2>3 DEF Purge, EventsOf
    <3>2. EventsOf(events', t) = {}
      BY <2>3 DEF Purge, EventsOf
    <3>3. Cardinality(EventsOf(events', t)) <= MaxEvents
      BY <3>2, FS_EmptySet, BoundFacts
    <3> QED
      BY <3>1, <3>3 DEF PhysicalBound
  <2>4. CASE events' = events
    BY <2>4 DEF PhysicalBound
  <2> QED
    BY <2>2, <2>3, <2>4 DEF Next, vars, Pull, Refuse
<1> QED
  BY <1>1, <1>2, Invariance, PTL DEF Spec

(* For any order of appends and compactions: the newest event of each type *)
(* ever issued for a retained target is in the table.                      *)
THEOREM AnchorsStay == Spec => []AnchorsKept
<1>1. Init => AnchorsKept
  BY DEF Init, AnchorsKept
<1>2. IInv /\ AnchorsKept /\ [Next]_vars => AnchorsKept'
  <2> SUFFICES ASSUME IInv, AnchorsKept, [Next]_vars PROVE AnchorsKept'
    OBVIOUS
  <2>1. TypeOK /\ Numbering
    BY DEF IInv
  <2>2. ASSUME NEW t \in Targets, NEW type \in EventTypes, Append(t, type)
        PROVE  AnchorsKept'
    <3> DEFINE event == [sequence |-> nextSequence, type |-> type, object |-> t]
               mine  == EventsOf(events, t) \cup {event}
    <3>1. /\ IsLog(mine, nextSequence)
          /\ \A e \in mine : e.sequence > 0
      BY <2>1, AppendedLog
    <3>2. /\ EventsOf(events', t) = Compacted(mine, MaxEvents)
          /\ \A u \in Targets \ {t} : EventsOf(events', u) = EventsOf(events, u)
      BY <2>2, AppendRows
    <3>3. /\ issued' = issued \cup {event} /\ open' = open \cup {t}
          /\ t \notin open => EventsOf(issued, t) = {}
      BY <2>2 DEF Append
    <3>4. Anchors(mine) \subseteq EventsOf(events', t)
      <4> HIDE DEF mine
      <4> QED
        BY <3>1, <3>2, BoundFacts, CompactedKeepsAnchors
    <3>5. ASSUME NEW u \in open', NEW e \in Anchors(EventsOf(issued', u))
          PROVE  e \in events'
      <4>1. /\ e \in issued' /\ e.object = u
            /\ \A f \in EventsOf(issued', u) :
                 f.type = e.type => f.sequence <= e.sequence
        BY <3>5 DEF Anchors, EventsOf
      <4>2. \A f \in issued : f \in EventsOf(issued, u) => f \in EventsOf(issued', u)
        BY <3>3 DEF EventsOf
      <4>3. e \in issued => e \in Anchors(EventsOf(issued, u))
        BY <4>1, <4>2 DEF Anchors, EventsOf
      <4>4. CASE u # t
        <5>1. u \in open /\ u \in Targets /\ e \in issued
          BY <2>1, <3>3, <4>1, <4>4 DEF TypeOK
        <5>2. e \in EventsOf(events, u)
          BY <4>1, <4>3, <5>1 DEF AnchorsKept, EventsOf
        <5> QED
          BY <3>2, <4>4, <5>1, <5>2 DEF EventsOf
      <4>5. CASE u = t
        <5>1. e \in mine
          <6>1. CASE e = event
            BY <6>1
          <6>2. CASE e # event
            <7>1. e \in issued /\ t \in open
              BY <3>3, <4>1, <4>5, <6>2 DEF EventsOf
            <7>2. e \in events
              BY <4>3, <4>5, <7>1 DEF AnchorsKept
            <7> QED
              BY <4>1, <4>5, <7>2 DEF EventsOf
          <6> QED
            BY <6>1, <6>2
        <5>2. mine \subseteq EventsOf(issued', t)
          BY <2>1, <3>3 DEF Numbering, EventsOf
        <5>3. e \in Anchors(mine)
          BY <4>1, <4>5, <5>1, <5>2 DEF Anchors
        <5> QED
          BY <3>4, <5>3 DEF EventsOf
      <4> QED
        BY <4>4, <4>5
    <3> QED
      BY <3>5 DEF AnchorsKept
  <2>3. ASSUME NEW t \in Targets, Purge(t)
        PROVE  AnchorsKept'
    BY <2>3 DEF Purge, AnchorsKept, EventsOf, Anchors
  <2>4. CASE events' = events /\ open' = open /\ issued' = issued
    BY <2>4 DEF AnchorsKept
  <2> QED
    BY <2>2, <2>3, <2>4 DEF Next, vars, Pull, Refuse
<1> QED
  BY <1>1, <1>2, Invariance, PTL DEF Spec

-----------------------------------------------------------------------------

(* A checkpoint moves back only when its target is purged, never while the *)
(* target is retained, so an expired cursor stays expired.                 *)
THEOREM CheckpointNeverMovesBack == Spec => CheckpointMonotonic
<1> DEFINE Forward == \A t \in open : t \in open' => expired[t] <= expired'[t]
<1>1. IInv /\ [Next]_vars => [Forward]_vars
  <2> SUFFICES ASSUME IInv, Next PROVE Forward
    OBVIOUS
  <2>1. TypeOK /\ Numbering /\ Window
    BY DEF IInv
  <2>2. \A u \in open : u \in Targets /\ expired[u] \in Nat
    BY <2>1 DEF TypeOK
  <2>3. ASSUME NEW t \in Targets, NEW type \in EventTypes, Append(t, type)
        PROVE  Forward
    <3> DEFINE mine == EventsOf(events, t) \cup
                 {[sequence |-> nextSequence, type |-> type, object |-> t]}
               fe   == FirstExpired(mine, MaxEvents)
    <3>1. fe \in 0..nextSequence /\ nextSequence \in Nat
      BY <2>1, AppendedLog DEF TypeOK
    <3>2. expired' = [expired EXCEPT ![t] = Later(@, fe)]
      BY <2>3 DEF Append
    <3>3. expired \in [Targets -> Nat]
      BY <2>1 DEF TypeOK
    <3> HIDE DEF fe
    <3> QED
      BY <2>2, <3>1, <3>2, <3>3 DEF Later
  <2>4. ASSUME NEW t \in Targets, Purge(t)
        PROVE  Forward
    BY <2>1, <2>2, <2>4 DEF Purge, TypeOK
  <2>5. ASSUME NEW c \in Consumers, NEW limit \in PageLimits, Pull(c, limit)
        PROVE  Forward
    BY <2>2, <2>5 DEF Pull
  <2>6. ASSUME NEW c \in Consumers, Refuse(c)
        PROVE  Forward
    BY <2>2, <2>6 DEF Refuse
  <2> QED
    BY <2>3, <2>4, <2>5, <2>6 DEF Next
<1> QED
  BY <1>1, Invariance, PTL DEF Spec, CheckpointMonotonic

-----------------------------------------------------------------------------

(* An append publishes its sequence number, and the checkpoint that the    *)
(* compaction sets stays below it.                                         *)
LEMMA AppendPublishes ==
  ASSUME IInv, NEW t \in Targets, NEW type \in EventTypes, Append(t, type)
  PROVE  \E n \in 1..MaxSequence : Stream!Publish(t, n)
<1> DEFINE n    == nextSequence
           event == [sequence |-> nextSequence, type |-> type, object |-> t]
           mine == EventsOf(events, t) \cup {event}
           fe   == FirstExpired(mine, MaxEvents)
           h    == Later(expired[t], fe)
<1>1. TypeOK /\ Numbering /\ Window
  BY DEF IInv
<1>2. fe \in 0..nextSequence /\ fe < nextSequence
  BY <1>1, AppendedLog
<1>3. /\ expired' = [expired EXCEPT ![t] = h]
      /\ open' = open \cup {t}
      /\ issued' = issued \cup {event}
      /\ consumer' = consumer
      /\ nextSequence <= MaxSequence
  BY DEF Append
<1>4. n \in 1..MaxSequence
  BY <1>1, <1>3, FeedAssumption DEF TypeOK, FeedAssumption
<1>5. \A u \in Targets : \A m \in Journal[u] : m < n
  BY <1>1 DEF Journal, EventsOf, Numbering
<1>6. Journal' = [Journal EXCEPT ![t] = @ \cup {n}]
  <2>1. EventsOf(issued', t) = EventsOf(issued, t) \cup {event}
    BY <1>3 DEF EventsOf
  <2>2. Journal'[t] = Journal[t] \cup {n}
    <3>1. /\ Journal'[t] = {e.sequence : e \in EventsOf(issued', t)}
          /\ Journal[t] = {e.sequence : e \in EventsOf(issued, t)}
      BY DEF Journal
    <3>2. event.sequence = n
      OBVIOUS
    <3> HIDE DEF event, n
    <3> QED
      BY <2>1, <3>1, <3>2
  <2>3. \A u \in Targets \ {t} : EventsOf(issued', u) = EventsOf(issued, u)
    BY <1>3 DEF EventsOf
  <2>4. \A u \in Targets \ {t} : Journal'[u] = Journal[u]
    BY <2>3 DEF Journal
  <2>5. Journal' = [u \in Targets |-> Journal'[u]]
    BY DEF Journal
  <2>6. Journal = [u \in Targets |-> Journal[u]]
    BY DEF Journal
  <2> HIDE DEF n
  <2> QED
    BY <2>2, <2>4, <2>5, <2>6
<1>7. h \in expired[t]..(n - 1)
  <2> HIDE DEF fe
  <2>1. expired[t] \in Nat /\ expired[t] < nextSequence /\ nextSequence \in Nat
    BY <1>1 DEF TypeOK, Window
  <2> QED
    BY <1>2, <2>1 DEF Later
<1>8. Stream!Publish(t, n)
  <2> HIDE DEF h, n
  <2> QED
    BY <1>3, <1>5, <1>6, <1>7 DEF Stream!Publish
<1> QED
  BY <1>4, <1>8

(* A consumer is refused only behind the horizon or on a forgotten target: *)
(* an unexpired cursor's row is always there to be found.                  *)
LEMMA RefuseStartsOver ==
  ASSUME IInv, NEW c \in Consumers, Refuse(c)
  PROVE  Stream!StartOver(c)
<1> DEFINE t == consumer[c].target
<1>1. TypeOK /\ Numbering /\ Window /\ Positions
  BY DEF IInv
<1>2. t \in Targets /\ consumer[c].cursor \in Nat /\ expired[t] \in Nat
  BY <1>1 DEF TypeOK, Consumer
<1>3. t \notin open \/ consumer[c].cursor <= expired[t]
  <2> SUFFICES ASSUME t \in open, consumer[c].cursor > expired[t]
               PROVE  FALSE
    BY <1>2
  <2>1. ~Accepted(c)
    BY DEF Refuse
  <2>2. PICK e \in EventsOf(issued, t) : e.sequence = consumer[c].cursor
    BY <1>1, <2>1 DEF Positions, Accepted
  <2>3. e \in events
    BY <1>1, <2>2 DEF Window, WindowIsSuffix
  <2>4. e \in EventsOf(events, t) /\ expired[t] < e.sequence
    BY <1>2, <2>2, <2>3 DEF EventsOf
  <2> QED
    BY <2>1, <2>2, <2>4 DEF Accepted
<1>4. Journal' = Journal
  BY DEF Journal, Refuse
<1> QED
  BY <1>3, <1>4 DEF Refuse, Stream!StartOver, Stream!Restarted, Start

(* The feed over a compacted table implements the journal that loses       *)
(* nothing, for every bound with room for the anchors.                     *)
THEOREM FeedImplementsStream == Spec => ImplementsStream
<1> DEFINE svars == <<Journal, expired, open, consumer>>
<1>1. Init => Stream!Init
  BY DEF Init, Stream!Init, Stream!Restarted, Start, Journal, EventsOf
<1>2. IInv /\ [Next]_vars => [Stream!Next]_svars
  <2> SUFFICES ASSUME IInv, [Next]_vars PROVE [Stream!Next]_svars
    OBVIOUS
  <2>1. ASSUME NEW t \in Targets, NEW type \in EventTypes, Append(t, type)
        PROVE  Stream!Next
    BY <2>1, AppendPublishes DEF Stream!Next
  <2>2. ASSUME NEW t \in Targets, Purge(t)
        PROVE  Stream!Next
    <3>1. Stream!Forget(t)
      BY <2>2 DEF Purge, Stream!Forget, Journal
    <3> QED
      BY <3>1 DEF Stream!Next
  <2>3. ASSUME NEW c \in Consumers, NEW limit \in PageLimits, Pull(c, limit)
        PROVE  Stream!Next
    BY <2>3, PullReadsJournal DEF Stream!Next
  <2>4. ASSUME NEW c \in Consumers, Refuse(c)
        PROVE  Stream!Next
    BY <2>4, RefuseStartsOver DEF Stream!Next
  <2>5. CASE UNCHANGED vars
    BY <2>5 DEF vars, Journal
  <2> QED
    BY <2>1, <2>2, <2>3, <2>4, <2>5 DEF Next
<1> QED
  BY <1>1, <1>2, Invariance, PTL DEF Spec, ImplementsStream, Stream!Spec

=============================================================================
