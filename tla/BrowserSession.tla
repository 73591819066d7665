--------------------------- MODULE BrowserSession ---------------------------
(***************************************************************************)
(* The workbench's page beside the servers that answer it:                 *)
(* usePluginInspection.ts, workbench-state.ts, App.tsx and the parts of    *)
(* plugin-session.ts that decide whether an answer is taken.               *)
(*                                                                         *)
(* React's part is modelled by what it promises: a change is rendered and  *)
(* its effects run in a step of their own, in the order they are declared, *)
(* with what was rendered; a setter of an effect shows after the effects.  *)
(***************************************************************************)
EXTENDS WorkbenchServer, Sequences

CONSTANTS
  Links,      \* what links to the page say: a target, or one that is no id
  Requests,   \* places for requests that are not answered yet
  MaxCandidates, \* how many candidates the page takes from an answer
  MaxChanges  \* bound of the model: changes of the page by its user

ASSUME BrowserAssumption ==
  /\ MaxChanges \in Nat /\ MaxCandidates \in Nat /\ Requests # {}
  /\ Links \subseteq [target : (Roots \X Starts) \cup {NoTarget}, refused : BOOLEAN,
                      mode : {"fixture", "live"}]

VARIABLES
  page,      \* the URL's state: target, whether one was refused, and mode
  behind,    \* the browser's history: the URLs the page had before this one
  due,       \* the effects to run: "none", "app", or "all" with the request
  requests,  \* the requests on their way
  shown,     \* the result on the page, and the target it was asked for
  changes    \* bound of the model: the changes so far

browserVars == <<page, behind, due, requests, shown, changes>>
allVars == <<serverVars, browserVars>>

Free == [asked |-> NoTarget, live |-> FALSE, at |-> "free", answer |-> NoSession]
Nowhere == [open |-> FALSE, target |-> NoTarget, refused |-> FALSE, mode |-> "fixture"]

(* What the page shows before its request is answered.                     *)
Blank(target) ==
  [asked |-> target, targets |-> {}, selected |-> NoTarget,
   unavailable |-> FALSE, modes |-> {}, error |-> FALSE]

BrowserInit ==
  /\ page = Nowhere /\ due = "none" /\ changes = 0
  /\ behind = <<>>
  /\ requests = [q \in Requests |-> Free]
  /\ shown = Blank(NoTarget)

-----------------------------------------------------------------------------

(* readWorkbenchState: a target that is no opaque id is refused, and the   *)
(* page has none.                                                          *)
Page(target, refused, mode) ==
  [open |-> TRUE, target |-> IF refused THEN NoTarget ELSE target,
   refused |-> refused, mode |-> mode]

(* The page is opened from a server's address, with any link.              *)
OpenPage(link) ==
  /\ ~page.open
  /\ \E p \in Starts : pc[p] = "serving"
  /\ page' = Page(link.target, link.refused, link.mode)
  /\ due' = "all"
  /\ UNCHANGED <<behind, requests, shown, changes>>

(* A new state is rendered, and the effects that depend on it are due: the *)
(* request's on the target and on its refusal, App's on the mode as well.  *)
Renders(before, after, waiting) ==
  IF before.target # after.target \/ before.refused # after.refused THEN "all"
    ELSE IF before = after \/ waiting # "none" THEN waiting ELSE "app"

(* commitWorkbenchState writes the whole state to the URL and reads it     *)
(* back: whatever the user changes, what was refused before is forgotten.  *)
(* A target is chosen together with the fixture's mode, a mode alone, and  *)
(* a surface, a theme and the like with neither; where that leaves the     *)
(* page as it is, it is not a change.                                      *)
ChangePage(target, mode) ==
  /\ page.open /\ changes < MaxChanges
  /\ page' = Page(target, FALSE, mode) /\ page' # page
  /\ behind' = Append(behind, [target |-> page.target, mode |-> page.mode])
  /\ due' = Renders(page, page', due)
  /\ changes' = changes + 1
  /\ UNCHANGED <<requests, shown>>

ChangeTarget == \E t \in shown.targets \cup {NoTarget} : ChangePage(t, "fixture")
ChangeView == \E m \in shown.modes \cup {"fixture", page.mode} : ChangePage(page.target, m)

(* onPopState: the user goes back, and the page is what the URL there      *)
(* says, whatever has been answered since.  That URL was written by the    *)
(* program, without a target that was refused.                             *)
PopState ==
  /\ page.open
  /\ \E n \in DOMAIN behind :
       /\ page' = Page(behind[n].target, FALSE, behind[n].mode)
       /\ behind' = SubSeq(behind, 1, n - 1)
  /\ due' = Renders(page, page', due)
  /\ UNCHANGED <<requests, shown, changes>>

Refresh ==
  /\ page.open /\ changes < MaxChanges
  /\ due' = "all"
  /\ changes' = changes + 1
  /\ UNCHANGED <<page, behind, requests, shown>>

(* automaticTargetId: the only target there is, when none was asked for.   *)
Automatic ==
  IF /\ page.target = NoTarget /\ ~page.refused /\ ~shown.unavailable
     /\ Cardinality(shown.targets) = 1
    THEN shown.selected
    ELSE NoTarget

(* The effect of usePluginInspection: the request before is aborted, the   *)
(* result emptied, and a request sent unless the target was refused.       *)
Superseded == [q \in Requests |-> [requests[q] EXCEPT !.live = FALSE]]

Send ==
  IF page.refused THEN requests' = Superseded
    ELSE \E q \in Requests :
           /\ requests[q] = Free
           /\ requests' = [Superseded EXCEPT
                ![q] = [asked |-> page.target, live |-> TRUE, at |-> "sent", answer |-> NoSession]]

(* The mode is one that the inspection does not offer.                    *)
Impossible == (shown.error \/ shown.modes # {}) /\ page.mode \notin shown.modes \cup {"fixture"}

(* The two effects of App, the second on the page as the first left it.    *)
AppEffects ==
  LET chosen == IF Automatic = NoTarget THEN page ELSE Page(Automatic, FALSE, page.mode)
  IN  IF Impossible THEN Page(chosen.target, FALSE, "fixture") ELSE chosen

(* Then those of App, which see the result as it was rendered.             *)
Effects ==
  /\ due # "none"
  /\ IF due = "all"
       THEN Send /\ shown' = [Blank(page.target) EXCEPT !.unavailable = page.refused]
       ELSE UNCHANGED <<requests, shown>>
  /\ page' = AppEffects
  /\ due' = Renders(page, page', "none")
  /\ UNCHANGED <<behind, changes>>

-----------------------------------------------------------------------------

(* The validators of plugin-session.ts.  They know what this server says   *)
(* and refuse the rest.  Display paths are told more strictly than by the  *)
(* payload the server keeps.                                               *)
IsDisplayPath(r) ==
  Looks[r] \cap {"absolute", "backslash", "scheme", "control", "parent"} = {}

IsInspectionTarget(r) == r # None => IsDisplayPath(r)

IsInspectionCheck(status) == status \in {"pass", "info", "warning", "fail", "unavailable"}

IsInspectionModes(modes) == modes = {"fixture"}

IsInspectionTrust(trust) == trust = "full-trust-local-code"

IsPluginInspection(v) ==
  /\ v.state \in {"ready", "missing", "ambiguous", "error"}
  /\ v.outcome \in {"ready", "attention", "blocked"}
  /\ Cardinality(v.candidates) <= MaxCandidates /\ \A r \in v.candidates : IsDisplayPath(r)
  /\ IsInspectionTarget(v.target)
  /\ \A status \in v.checks : IsInspectionCheck(status)
  /\ IsInspectionModes(v.modes) /\ IsInspectionTrust(v.trust)

(* parsePluginSession: one candidate that is not accepted makes the page   *)
(* refuse the whole session.                                               *)
Accepted(session) ==
  /\ session.ok
  /\ IsPluginInspection(session.inspection)
  /\ Cardinality(session.targets) <= MaxCandidates
  /\ \A t \in session.targets : IsDisplayPath(t[1])
  /\ session.selected # NoTarget => session.selected \in session.targets

(* previewModeCapabilities: there is no harness adapter yet.               *)
Capabilities(inspection) == {"fixture"} \cup (inspection.modes \cap {"live"})

(* readBoundedJson: a body that is not JSON, too long or cut short is no   *)
(* session.                                                                *)
Bodies(p, asked) == {Session(p, asked), NoSession}

(* A server that has the page's address answers what it lists, unless that *)
(* is more than it may answer, or the request fails on its way.            *)
Answer(q) ==
  /\ requests[q].at = "sent"
  /\ \E a \in {NoSession} \cup
               UNION {Bodies(p, requests[q].asked) : p \in {s \in Starts : pc[s] = "serving"}} :
       requests' = [requests EXCEPT ![q] =
         [asked |-> @.asked, live |-> @.live, at |-> "answered", answer |-> a]]
  /\ UNCHANGED <<page, behind, due, shown, changes>>

Result(asked, a) ==
  IF Accepted(a)
    THEN [asked |-> asked, targets |-> a.targets, selected |-> a.selected,
          unavailable |-> a.unavailable, modes |-> Capabilities(a.inspection),
          error |-> FALSE]
    ELSE [Blank(asked) EXCEPT !.error = TRUE]

(* Faulty: the abort signal is not looked at.                              *)
DeliverAlways(q) ==
  /\ requests[q].at = "answered"
  /\ shown' = Result(requests[q].asked, requests[q].answer)
  /\ due' = IF due = "none" THEN "app" ELSE due
  /\ requests' = [requests EXCEPT ![q] = Free]
  /\ UNCHANGED <<page, behind, changes>>

(* Faulty: an answer that is not accepted is not caught.                   *)
DeliverAccepted(q) ==
  /\ requests[q].at = "answered" /\ Accepted(requests[q].answer)
  /\ IF requests[q].live
       THEN /\ shown' = Result(requests[q].asked, requests[q].answer)
            /\ due' = IF due = "none" THEN "app" ELSE due
       ELSE UNCHANGED <<shown, due>>
  /\ requests' = [requests EXCEPT ![q] = Free]
  /\ UNCHANGED <<page, behind, changes>>

(* The body is parsed and shown, unless the request has been aborted.      *)
Deliver(q) ==
  /\ requests[q].at = "answered"
  /\ IF requests[q].live
       THEN /\ shown' = Result(requests[q].asked, requests[q].answer)
            /\ due' = IF due = "none" THEN "app" ELSE due
       ELSE UNCHANGED <<shown, due>>
  /\ requests' = [requests EXCEPT ![q] = Free]
  /\ UNCHANGED <<page, behind, changes>>

BrowserNext ==
  \/ \E link \in Links : OpenPage(link)
  \/ ChangeTarget \/ ChangeView \/ PopState \/ Refresh \/ Effects
  \/ \E q \in Requests : Answer(q) \/ Deliver(q)

=============================================================================
