----------------------------- MODULE EventFeed ------------------------------
(***************************************************************************)
(* The runtime's event journal and its pull feed: events/feed.ts over the  *)
(* tables runtime_events and development_target_event_retention, with the  *)
(* compaction that catalog-storage.ts runs in the transaction of every     *)
(* append, and the purge of a forgotten target.                            *)
(*                                                                         *)
(* Consumers pull pages with the cursor the previous page returned.  A     *)
(* cursor is the sequence number of the last delivered event; a consumer   *)
(* without one reads from the oldest event that is still deliverable.      *)
(***************************************************************************)
EXTENDS EventRetention

CONSTANTS
  Targets,      \* object ids
  EventTypes,   \* kinds of event
  Created,      \* the kind of a target's first event
  Consumers,    \* callers of pull
  MaxEvents,    \* TARGET_EVENT_MAX_EVENTS_PER_TARGET
  PageLimits,   \* page sizes that consumers ask for
  MaxSequence   \* bound of the model: events ever appended

ASSUME FeedAssumption ==
  /\ Created \in EventTypes
  /\ IsFiniteSet(EventTypes)
  /\ MaxEvents \in Nat /\ Cardinality(EventTypes) <= MaxEvents
  /\ PageLimits \subseteq Nat \ {0}
  /\ MaxSequence \in Nat

VARIABLES
  events,        \* rows of runtime_events
  expired,       \* expired_through_sequence of each target, 0 without a row
  nextSequence,  \* AUTOINCREMENT counter
  open,          \* targets whose object row exists
  consumer,      \* what each consumer remembers
  issued         \* history: every event ever appended

vars == <<events, expired, nextSequence, open, consumer, issued>>

Event == [sequence : Nat \ {0}, type : EventTypes, object : Targets]

(* cursor 0: none yet; seen: sequence numbers delivered since the consumer *)
(* last started without a cursor.                                          *)
Consumer == [target : Targets, cursor : Nat, seen : SUBSET Nat]

Start(t) == [target |-> t, cursor |-> 0, seen |-> {}]

Init ==
  /\ events = {}
  /\ expired = [t \in Targets |-> 0]
  /\ nextSequence = 1
  /\ open = {}
  /\ consumer \in [Consumers -> {Start(t) : t \in Targets}]
  /\ issued = {}

-----------------------------------------------------------------------------

(* Faulty: the upsert stores the new checkpoint without MAX.               *)
LaterWins(m, n) == n

Later(m, n) == IF m <= n THEN n ELSE m

(* append and compactTargetEvents, in one transaction.  A target's first   *)
(* event creates it; a purged target's id is never used again.             *)
Append(t, type) ==
  LET event == [sequence |-> nextSequence, type |-> type, object |-> t]
      mine  == EventsOf(events, t) \cup {event}
  IN  /\ nextSequence <= MaxSequence
      /\ IF type = Created
           THEN EventsOf(issued, t) = {}
           ELSE t \in open
      /\ events' = (events \ EventsOf(events, t)) \cup Compacted(mine, MaxEvents)
      /\ expired' = [expired EXCEPT ![t] = Later(@, FirstExpired(mine, MaxEvents))]
      /\ nextSequence' = nextSequence + 1
      /\ open' = open \cup {t}
      /\ issued' = issued \cup {event}
      /\ UNCHANGED consumer

(* The rows compactRetainedHistory deletes for one forgotten target.       *)
Purge(t) ==
  /\ t \in open
  /\ events' = events \ EventsOf(events, t)
  /\ expired' = [expired EXCEPT ![t] = 0]
  /\ open' = open \ {t}
  /\ UNCHANGED <<nextSequence, consumer, issued>>

-----------------------------------------------------------------------------

(* Faulty: an anchor that outlived its expiry still serves as a cursor.    *)
AcceptedExpired(c) ==
  \/ consumer[c].cursor = 0
  \/ \E e \in EventsOf(events, consumer[c].target) :
       e.sequence = consumer[c].cursor

(* ownsCursor: the cursor's row is there, is the target's, and has not     *)
(* expired.  A consumer without a cursor is always served.                 *)
Accepted(c) ==
  \/ consumer[c].cursor = 0
  \/ \E e \in EventsOf(events, consumer[c].target) :
       /\ e.sequence = consumer[c].cursor
       /\ expired[consumer[c].target] < e.sequence

(* select without its LIMIT.                                               *)
Pending(c) ==
  {e \in EventsOf(events, consumer[c].target) :
     /\ e.sequence > consumer[c].cursor
     /\ e.sequence > expired[consumer[c].target]}

(* Faulty: a page holds the newest of the pending events.                  *)
PageNewest(c, limit) ==
  {e \in Pending(c) :
     Cardinality({f \in Pending(c) : f.sequence >= e.sequence}) <= limit}

(* The first `limit` of the pending events in sequence order.              *)
Page(c, limit) ==
  {e \in Pending(c) :
     Cardinality({f \in Pending(c) : f.sequence <= e.sequence}) <= limit}

Pull(c, limit) ==
  LET numbers == {e.sequence : e \in Page(c, limit)}
  IN  /\ Accepted(c)
      /\ \E last \in numbers :
           /\ \A n \in numbers : n <= last
           /\ consumer' = [consumer EXCEPT ![c].cursor = last,
                                           ![c].seen = @ \cup numbers]
      /\ UNCHANGED <<events, expired, nextSequence, open, issued>>

(* pull throws invalid_request; the consumer drops the cursor and what it  *)
(* had read under it.                                                      *)
Refuse(c) ==
  /\ ~Accepted(c)
  /\ consumer' = [consumer EXCEPT ![c] = Start(@.target)]
  /\ UNCHANGED <<events, expired, nextSequence, open, issued>>

Next ==
  \/ \E t \in Targets, type \in EventTypes : Append(t, type)
  \/ \E t \in Targets : Purge(t)
  \/ \E c \in Consumers, limit \in PageLimits : Pull(c, limit)
  \/ \E c \in Consumers : Refuse(c)

Spec == Init /\ [][Next]_vars

-----------------------------------------------------------------------------

TypeOK ==
  /\ events \subseteq Event
  /\ expired \in [Targets -> Nat]
  /\ nextSequence \in Nat \ {0}
  /\ open \subseteq Targets
  /\ consumer \in [Consumers -> Consumer]
  /\ issued \subseteq Event

(* A target never holds more rows than TARGET_EVENT_MAX_EVENTS_PER_TARGET: *)
(* the check compactTargetEvents repeats after deleting, and the integrity *)
(* check's last clause.                                                    *)
PhysicalBound ==
  \A t \in Targets : Cardinality(EventsOf(events, t)) <= MaxEvents

(* The comment in target-limits.ts: each retained target keeps a           *)
(* deliverable recent window.  Whatever the mix of types, compaction never *)
(* leaves fewer deliverable events than the bound minus one anchor for     *)
(* each other type, nor fewer than were ever issued.                       *)
DeliverableWindow ==
  \A t \in open :
    LET visible == {e \in EventsOf(events, t) : e.sequence > expired[t]}
        total   == Cardinality(EventsOf(issued, t))
        window  == MaxEvents - (Cardinality(EventTypes) - 1)
    IN  Cardinality(visible) >= (IF total < window THEN total ELSE window)

(* The newest event of each type ever issued for a retained target is      *)
(* still in the table: what the integrity check looks retirements and host *)
(* observations up in, and what the no-delete trigger protects.            *)
AnchorsKept ==
  \A t \in open : Anchors(EventsOf(issued, t)) \subseteq events

(* Nothing above the checkpoint of a retained target is ever missing from  *)
(* the table, so an event is either deliverable or covered by the          *)
(* checkpoint that makes pull refuse its cursor.                           *)
WindowIsSuffix ==
  \A t \in open :
    \A e \in EventsOf(issued, t) : e.sequence > expired[t] => e \in events

(* Between two starts a consumer has been handed a run of the journal      *)
(* without a hole: no event between the first and the last it saw was      *)
(* skipped, whatever was appended, compacted or purged between the pages.  *)
NoGap ==
  \A c \in Consumers :
    \A e \in EventsOf(issued, consumer[c].target) :
      (/\ e.sequence <= consumer[c].cursor
       /\ \E n \in consumer[c].seen : n <= e.sequence)
         => e.sequence \in consumer[c].seen

(* The retention trigger's rule: a checkpoint never moves back while its   *)
(* target is retained, so an expired cursor never becomes valid again.     *)
CheckpointMonotonic ==
  [][\A t \in open : t \in open' => expired[t] <= expired'[t]]_vars

-----------------------------------------------------------------------------

(* The journal a consumer reasons about is the history, not the table.     *)
Journal == [t \in Targets |-> {e.sequence : e \in EventsOf(issued, t)}]

Stream == INSTANCE EventStream WITH
  Numbers <- 1..MaxSequence,
  journal <- Journal, horizon <- expired, reader <- consumer

(* The feed over a compacted table implements the promise of a journal     *)
(* that loses nothing: pages come straight from the full journal, and a    *)
(* consumer starts over only behind the horizon.                           *)
ImplementsStream == Stream!Spec

=============================================================================
