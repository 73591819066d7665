-------------------------- MODULE TargetLifecycle ---------------------------
(***************************************************************************)
(* What the catalog promises about the identity of a development target,   *)
(* with no tables and no journal: a root is recognised under one id for as *)
(* long as it is retained, every write counts its revision up by one, a    *)
(* retired target keeps its place until the history is full, and then the  *)
(* targets retired longest ago are forgotten and their ids never return.   *)
(***************************************************************************)
EXTENDS Naturals, FiniteSets

CONSTANTS MaxTargets, MaxHistory

VARIABLES
  place,      \* root of each retained target
  revision,   \* its revision
  retiredAt,  \* when each retired target was retired
  spent,      \* ids ever given out
  time        \* the last reading of the clock

lifecycle == <<place, revision, retiredAt, spent, time>>

Init ==
  /\ place = [i \in {} |-> 0] /\ revision = [i \in {} |-> 0]
  /\ retiredAt = [i \in {} |-> 0]
  /\ spent = {} /\ time = 1

Living == DOMAIN place \ DOMAIN retiredAt

(* A new target starts at revision 1, active, under an id never used.      *)
Starts(i) ==
  /\ i \notin spent
  /\ revision'[i] = 1
  /\ i \notin DOMAIN retiredAt'

(* A retained target keeps its root.  It is retired and reopened only by a *)
(* write, and while it stays retired it keeps the time of its retirement.  *)
Continues(i) ==
  /\ place'[i] = place[i]
  /\ \/ /\ revision'[i] = revision[i]
        /\ i \in DOMAIN retiredAt <=> i \in DOMAIN retiredAt'
     \/ /\ revision'[i] = revision[i] + 1
        /\ i \in DOMAIN retiredAt => i \notin DOMAIN retiredAt'
        /\ i \in DOMAIN retiredAt' => retiredAt'[i] = time'
  /\ (i \in DOMAIN retiredAt /\ i \in DOMAIN retiredAt')
       => retiredAt'[i] = retiredAt[i]

(* A target is forgotten only out of a full history, and after all that    *)
(* were retired before it.  One that was active is retired on the way.     *)
Forgotten(i) ==
  /\ Cardinality(DOMAIN place') = MaxHistory
  /\ \A j \in DOMAIN retiredAt' :
       (IF i \in DOMAIN retiredAt THEN retiredAt[i] ELSE time') <= retiredAt'[j]

(* The bounds, and one target for each root.                               *)
Bounded ==
  /\ Cardinality(Living') <= MaxTargets
  /\ Cardinality(DOMAIN place') <= MaxHistory
  /\ \A i, j \in DOMAIN place' : place'[i] = place'[j] => i = j

Next ==
  /\ DOMAIN revision' = DOMAIN place'
  /\ DOMAIN retiredAt' \subseteq DOMAIN place'
  /\ spent' = spent \cup DOMAIN place'
  /\ \A i \in DOMAIN place' \ DOMAIN place : Starts(i)
  /\ \A i \in DOMAIN place' \cap DOMAIN place : Continues(i)
  /\ \A i \in DOMAIN place \ DOMAIN place' : Forgotten(i)
  /\ Bounded

Spec == Init /\ [][Next]_lifecycle

=============================================================================
