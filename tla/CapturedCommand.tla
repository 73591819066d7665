---------------------------- MODULE CapturedCommand ----------------------------
(***************************************************************************)
(* runCapturedCommand (packages/inspection/src/captured-command.ts): one   *)
(* child process in a group of its own, its output captured through pipes, *)
(* under a deadline.  The child may start a helper in its group and a      *)
(* stray that leaves the group; both inherit the pipes.  An answer is due: *)
(* at the deadline or when the output is too large the group is asked to   *)
(* end (SIGTERM), killed after a grace period (SIGKILL), and the promise   *)
(* settled a moment later.  A step is a timer, an event of Node's child    *)
(* process, or something the processes do.  POSIX: on Windows the code     *)
(* settles at the exit event.                                              *)
(***************************************************************************)
EXTENDS Naturals

VARIABLES
  child,    \* "none" before it is started, "running", "exited"
  code,     \* what it exited with: 0, 1, or Killed; Unset before
  helper,   \* a descendant in the group: "none", "alive", "gone"
  stray,    \* a descendant outside of it: the same
  told,     \* the events that were delivered: exit, close
  timers,   \* the timers that are set: deadline, grace, settle
  cause,    \* why it is being terminated: "none", "timeout", "overflow"
  killSent, \* forceKillSent
  ended,    \* terminationExitCode: Unset, or the child's code
  result    \* what the promise settled with, Unset before

processes == <<child, code, helper, stray>>
handler == <<told, timers, cause, killSent, ended, result>>
command == <<processes, handler>>

Unset == 256   \* no exit code is that large
Killed == 257  \* ended by a signal: Node gives null for the code

CommandInit ==
  /\ child = "none" /\ code = Unset /\ helper = "none" /\ stray = "none"
  /\ told = {} /\ timers = {} /\ cause = "none"
  /\ killSent = FALSE /\ ended = Unset /\ result = Unset

Terminating == cause # "none"
Settled == result # Unset

(* The read ends are destroyed when the child exits while it is being      *)
(* terminated; else they stay open as long as somebody holds the others.   *)
PipesOpen ==
  /\ ~(Terminating /\ ended # Unset)
  /\ child = "running" \/ helper = "alive" \/ stray = "alive"

(* finish *)
Settle(with) ==
  /\ result' = CASE cause = "overflow" -> 125
                 [] cause = "timeout"  -> 124
                 [] with \in {Unset, Killed} -> 1
                 [] OTHER -> with
  /\ timers' = {}

(* Faulty: settled as soon as the child is known to have ended. *)
ScheduledEarly(left, sent, exit) ==
  IF exit # Unset /\ ~Settled THEN left \cup {"settle"} ELSE left

(* scheduleForcedSettlement, with the timers left by the caller.  It does   *)
(* nothing once forceSettlement is set: while that timer is under way, and  *)
(* when the promise has been settled by it.                                 *)
Scheduled(left, sent, exit) ==
  IF sent /\ exit # Unset /\ ~Settled THEN left \cup {"settle"} ELSE left

------------------------------------------------------------------------------
(* What the processes do.                                                    *)

Spawn ==
  /\ child = "none" /\ ~Settled
  /\ child' = "running"
  /\ timers' = {"deadline"}
  /\ UNCHANGED <<code, helper, stray, told, cause, killSent, ended, result>>

(* The executable cannot be started: error, then close, in one turn. *)
SpawnFails ==
  /\ child = "none" /\ ~Settled
  /\ child' = "exited" /\ code' = 1
  /\ told' = {"exit", "close"}
  /\ Settle(1)
  /\ UNCHANGED <<helper, stray, cause, killSent, ended>>

Forks ==
  /\ child = "running" \/ helper = "alive"
  /\ \/ helper = "none" /\ helper' = "alive" /\ UNCHANGED stray
     \/ stray = "none" /\ stray' = "alive" /\ UNCHANGED helper
  /\ UNCHANGED <<child, code, handler>>

(* The child ends by itself, or lets itself be ended by SIGTERM. *)
Exits ==
  /\ child = "running"
  /\ child' = "exited"
  /\ code' \in IF Terminating THEN {0, 1, Killed} ELSE {0, 1}
  /\ UNCHANGED <<helper, stray, handler>>

HelperEnds ==
  /\ helper = "alive" /\ helper' = "gone"
  /\ UNCHANGED <<child, code, stray, handler>>

StrayEnds ==
  /\ stray = "alive" /\ stray' = "gone"
  /\ UNCHANGED <<child, code, helper, handler>>

------------------------------------------------------------------------------
(* What the handler does.                                                    *)

(* terminate: SIGTERM to the group, which need not heed it. *)
Terminate(why) ==
  /\ cause' = why
  /\ timers' = (timers \ {"deadline"}) \cup {"grace"}
  /\ UNCHANGED <<processes, told, killSent, ended, result>>

(* More output than is kept. *)
Overflows ==
  /\ child # "none" /\ PipesOpen /\ ~Terminating
  /\ Terminate("overflow")

Deadline ==
  /\ "deadline" \in timers
  /\ Terminate("timeout")

(* Faulty: when the child has ended before, nothing more is done. *)
KillOnly ==
  /\ "grace" \in timers
  /\ killSent' = TRUE
  /\ child' = "exited"
  /\ code' = IF child = "running" THEN Killed ELSE code
  /\ helper' = IF helper = "alive" THEN "gone" ELSE helper
  /\ timers' = timers \ {"grace"}
  /\ UNCHANGED <<stray, told, cause, ended, result>>

(* SIGKILL to whoever is left in the group. *)
Kill ==
  /\ "grace" \in timers
  /\ killSent' = TRUE
  /\ child' = "exited"
  /\ code' = IF child = "running" THEN Killed ELSE code
  /\ helper' = IF helper = "alive" THEN "gone" ELSE helper
  /\ timers' = Scheduled(timers \ {"grace"}, TRUE, ended)
  /\ UNCHANGED <<stray, told, cause, ended, result>>

(* Looked at only when the child is being terminated. *)
ExitEvent ==
  /\ child = "exited" /\ "exit" \notin told
  /\ told' = told \cup {"exit"}
  /\ ended' = IF Terminating THEN code ELSE ended
  /\ timers' = IF Terminating THEN Scheduled(timers, killSent, code) ELSE timers
  /\ UNCHANGED <<processes, cause, killSent, result>>

(* After the exit, when nothing holds the pipes any more. *)
CloseEvent ==
  /\ "exit" \in told /\ "close" \notin told /\ ~PipesOpen
  /\ told' = told \cup {"close"}
  /\ IF ~Terminating
     THEN Settle(code) /\ UNCHANGED ended
     ELSE LET exit == IF ended = Unset THEN code ELSE ended
          IN  /\ ended' = exit
              /\ timers' = Scheduled(timers, killSent, exit)
              /\ UNCHANGED result
  /\ UNCHANGED <<processes, cause, killSent>>

SettleNow ==
  /\ "settle" \in timers
  /\ Settle(ended)
  /\ UNCHANGED <<processes, told, cause, killSent, ended>>

Processes == Exits \/ HelperEnds \/ StrayEnds \/ Forks
Handler ==
  Overflows \/ Deadline \/ Kill \/ ExitEvent \/ CloseEvent \/ SettleNow
CommandNext == Spawn \/ SpawnFails \/ Processes \/ Handler

(* Timers fire and events are delivered; a process need not do anything. *)
CommandFairness ==
  /\ WF_command(Deadline) /\ WF_command(Kill) /\ WF_command(SettleNow)
  /\ WF_command(ExitEvent) /\ WF_command(CloseEvent)

CommandSpec == CommandInit /\ [][CommandNext]_command /\ CommandFairness

(* A command that was started is answered (packages/inspection/src/        *)
(* native.test.ts "force-terminates a selected BB_CLI that ignores the     *)
(* passive deadline"; apps/cli/src/native.test.ts:139 "does not wait for a *)
(* descendant that inherited capture pipes").                              *)
CommandAnswered == child = "running" ~> Settled
================================================================================
