---------------------------- MODULE MCEventFeed -----------------------------
(* Two targets and one consumer over the event feed.  The bound of 4 rows  *)
(* with 3 event types leaves a guaranteed window of 2, so a run of 7       *)
(* events compacts several times with anchors of every type behind.        *)
EXTENDS EventFeed, TLC

CONSTANTS t1, t2, c1, created, updated, reconciled

MCTargets == {t1, t2}
MCEventTypes == {created, updated, reconciled}
MCConsumers == {c1}
MCPageLimits == {1, 3}

=============================================================================
