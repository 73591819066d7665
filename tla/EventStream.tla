---------------------------- MODULE EventStream -----------------------------
(***************************************************************************)
(* What the event feed promises its consumers, with no table, no anchors   *)
(* and no compaction: every target has a journal that only grows, and a    *)
(* horizon below which the journal may no longer be read.  A read hands    *)
(* out the next run of the journal, and a consumer has to start over only  *)
(* when its position fell behind the horizon or its target was forgotten.  *)
(***************************************************************************)
EXTENDS Naturals

CONSTANTS
  Targets,
  Consumers,
  Numbers    \* what entries are numbered with: positive numbers


VARIABLES
  journal,   \* for each target, the numbers of all its entries so far
  horizon,   \* for each target, entries up to here may not be read
  open,      \* targets not forgotten
  reader     \* for each consumer: target, position, entries seen

Restarted(t) == [target |-> t, cursor |-> 0, seen |-> {}]

Init ==
  /\ journal = [t \in Targets |-> {}]
  /\ horizon = [t \in Targets |-> 0]
  /\ open = {}
  /\ reader \in [Consumers -> {Restarted(t) : t \in Targets}]

(* An entry is numbered above every earlier one of every target, and is    *)
(* itself readable: the horizon stays below it.                            *)
Publish(t, n) ==
  /\ \A u \in Targets : \A m \in journal[u] : m < n
  /\ journal' = [journal EXCEPT ![t] = @ \cup {n}]
  /\ \E h \in horizon[t]..(n - 1) : horizon' = [horizon EXCEPT ![t] = h]
  /\ open' = open \cup {t}
  /\ UNCHANGED reader

Forget(t) ==
  /\ t \in open
  /\ open' = open \ {t}
  /\ horizon' = [horizon EXCEPT ![t] = 0]
  /\ UNCHANGED <<journal, reader>>

(* The readable entries above the consumer's position, up to some last one *)
Read(c, last) ==
  LET t == reader[c].target
  IN  /\ t \in open
      /\ reader[c].cursor = 0 \/ reader[c].cursor > horizon[t]
      /\ last \in journal[t] /\ last > reader[c].cursor /\ last > horizon[t]
      /\ reader' = [reader EXCEPT
           ![c].cursor = last,
           ![c].seen = @ \cup {n \in journal[t] :
                                 /\ n > reader[c].cursor
                                 /\ n > horizon[t]
                                 /\ n <= last}]
      /\ UNCHANGED <<journal, horizon, open>>

StartOver(c) ==
  LET t == reader[c].target
  IN  /\ t \notin open \/ reader[c].cursor <= horizon[t]
      /\ reader' = [reader EXCEPT ![c] = Restarted(t)]
      /\ UNCHANGED <<journal, horizon, open>>

Next ==
  \/ \E t \in Targets, n \in Numbers : Publish(t, n)
  \/ \E t \in Targets : Forget(t)
  \/ \E c \in Consumers, last \in Numbers : Read(c, last)
  \/ \E c \in Consumers : StartOver(c)

Spec == Init /\ [][Next]_<<journal, horizon, open, reader>>

=============================================================================
