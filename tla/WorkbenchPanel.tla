---------------------------- MODULE WorkbenchPanel ---------------------------
(***************************************************************************)
(* The plugin's panel: PluginWorkbenchPanel of plugins/studio/src/         *)
(* frontend/plugin-app.tsx.                                                *)
(*                                                                         *)
(* Mounting reads the status and then refreshes once; the user may refresh *)
(* again, try again after a failure, move between pages, and leave.  Calls *)
(* are answered at any time, in any order and with anything, and nothing   *)
(* cancels them: an answer counts only if its request is of the current    *)
(* generation.  Effects run before the next event, as React runs those of  *)
(* a discrete event.                                                       *)
(***************************************************************************)
EXTENDS Integers, FiniteSets

CONSTANTS
  Details,        \* sub-paths of targets
  Malformed,      \* sub-paths that are neither the root nor a target's
  Fingerprints,   \* what catalogs list; a catalog may have none
  MaxGeneration   \* bound of the model: requests ever made

Root == "root"
NoPath == "none"
SubPaths == {Root} \cup Details \cup Malformed

ASSUME PanelAssumption ==
  /\ MaxGeneration \in Nat \ {0}
  /\ Root \notin Details \cup Malformed /\ NoPath \notin SubPaths
  /\ Details \cap Malformed = {}
  /\ {"unknown", "none"} \cap Fingerprints = {}

VARIABLES
  mounted,
  subPath,
  generation,
  calls,           \* requests not yet answered
  snapshot,        \* the fingerprint shown, "unknown", or "none"
  statusFailed,
  refreshing,
  catalogMessage,  \* "none" | "changed" | "loadFailed"
  refreshSubPath,
  recovered,       \* recoveredSubPath
  redirects,       \* history: redirects asked for since the last other page
  redirecting,     \* the host has been asked to go to the root
  outdated         \* history: generations of requests the user overtook or left

view == <<snapshot, statusFailed, refreshing, catalogMessage>>
route == <<subPath, refreshSubPath, recovered, redirects, redirecting>>
panelVars == <<mounted, generation, calls, view, route, outdated>>

(* A catalog that was not scanned everywhere has no fingerprint.           *)
Catalogs == Fingerprints \cup {"unknown"}
Call == [generation : 1..MaxGeneration, kind : {"status", "first", "again"},
         from : SubPaths, previous : Catalogs \cup {"none"}]

Request(kind) ==
  [generation |-> generation', kind |-> kind, from |-> subPath, previous |-> snapshot]

(* The state of a panel that is mounted on page p, its effects run.        *)
PanelInit ==
  /\ mounted = TRUE /\ subPath \in SubPaths
  /\ generation = 1
  /\ calls = {[generation |-> 1, kind |-> "status", from |-> subPath, previous |-> "none"]}
  /\ snapshot = "none" /\ statusFailed = FALSE /\ refreshing = FALSE
  /\ catalogMessage = "none" /\ refreshSubPath = NoPath
  /\ recovered = IF subPath \in Malformed THEN subPath ELSE NoPath
  /\ redirecting \in BOOLEAN /\ (redirecting <=> subPath \in Malformed)
  /\ redirects = IF subPath \in Malformed THEN 1 ELSE 0
  /\ outdated = {}

(* History, which only a property reads.  A newer request of the user, or  *)
(* leaving the panel, overtakes whatever is pending; going to page p       *)
(* leaves behind the reloads asked for on another target's, or malformed,  *)
(* page, and coming back to that page does not revive them.                *)
Overtake == outdated' = outdated \cup {c.generation : c \in calls}
LeaveBehind(p) ==
  outdated' = outdated \cup
    {c.generation : c \in {d \in calls : d.kind = "again" /\ d.from \notin {Root, p}}}

-----------------------------------------------------------------------------

(* initialLoad, from the button of the failure page.                       *)
CheckAgain ==
  /\ mounted /\ statusFailed /\ generation < MaxGeneration
  /\ generation' = generation + 1
  /\ statusFailed' = FALSE /\ refreshing' = FALSE /\ catalogMessage' = "none"
  /\ calls' = calls \cup {Request("status")}
  /\ Overtake
  /\ UNCHANGED <<mounted, snapshot, route>>

(* refresh: every page has its button.  It is disabled while the page is   *)
(* busy, from the next render on: two clicks may come before that.         *)
Refresh ==
  /\ mounted /\ ~statusFailed /\ snapshot # "none"
  /\ generation < MaxGeneration
  /\ generation' = generation + 1
  /\ refreshSubPath' = subPath
  /\ refreshing' = TRUE /\ catalogMessage' = "none"
  /\ calls' = calls \cup {Request("again")}
  /\ Overtake
  /\ UNCHANGED <<mounted, snapshot, statusFailed, subPath, recovered, redirects, redirecting>>

Current(c) == c.generation = generation

(* An answer to a request that is not of the current generation.           *)
Ignored(c) ==
  /\ ~Current(c)
  /\ calls' = calls \ {c}
  /\ UNCHANGED <<mounted, generation, view, route, outdated>>

(* The status: shown, and the refresh that follows is asked for; or it     *)
(* fails, or does not parse.                                               *)
StatusAnswered(c) ==
  /\ c.kind = "status" /\ Current(c)
  /\ \/ /\ snapshot' \in Catalogs
        /\ refreshing' = TRUE
        /\ calls' = (calls \ {c}) \cup {[c EXCEPT !.kind = "first", !.previous = "none"]}
        /\ UNCHANGED statusFailed
     \/ /\ statusFailed' = TRUE
        /\ calls' = calls \ {c}
        /\ UNCHANGED <<snapshot, refreshing>>
  /\ UNCHANGED <<mounted, generation, catalogMessage, route, outdated>>

(* acceptSnapshot.                                                         *)
Accept(c) ==
  /\ snapshot' \in Catalogs
  /\ catalogMessage' = IF /\ {c.previous, snapshot'} \subseteq Fingerprints
                          /\ c.previous # snapshot'
                       THEN "changed" ELSE "none"

(* The refresh, the first one or one the user asked for: accepted, or it   *)
(* fails or does not parse, and the old catalog stays.                     *)
RefreshAnswered(c) ==
  /\ c.kind \in {"first", "again"} /\ Current(c)
  /\ calls' = calls \ {c}
  /\ refreshing' = FALSE
  /\ refreshSubPath' = IF c.kind = "again" THEN NoPath ELSE refreshSubPath
  /\ \/ Accept(c)
     \/ catalogMessage' = "loadFailed" /\ UNCHANGED snapshot
  /\ UNCHANGED <<mounted, generation, statusFailed, subPath, recovered, redirects,
                 redirecting, outdated>>

-----------------------------------------------------------------------------

(* Faulty: the refresh of a page that was left is not superseded.          *)
SupersedeKept(p) == UNCHANGED <<generation, refreshSubPath, refreshing>>

(* Faulty: it is superseded, and the page stays busy.                      *)
SupersedeBusy(p) ==
  IF refreshSubPath \notin {NoPath, Root, p}
  THEN generation' = generation + 1 /\ refreshSubPath' = NoPath /\ UNCHANGED refreshing
  ELSE UNCHANGED <<generation, refreshSubPath, refreshing>>

(* The refresh of a target's page that was left is superseded; one that    *)
(* was asked for on the root goes on.                                      *)
Supersede(p) ==
  IF refreshSubPath \notin {NoPath, Root, p}
  THEN generation' = generation + 1 /\ refreshSubPath' = NoPath /\ refreshing' = FALSE
  ELSE UNCHANGED <<generation, refreshSubPath, refreshing>>

(* Faulty: every run of the effect asks for the redirect.                  *)
RecoverAlways(p) ==
  /\ recovered' = NoPath
  /\ redirecting' = (redirecting \/ p \in Malformed)
  /\ redirects' = IF p # subPath THEN IF p \in Malformed THEN 1 ELSE 0
                  ELSE IF p \in Malformed THEN redirects + 1 ELSE redirects

(* A malformed page is replaced by the root, once for each visit.          *)
Recover(p) ==
  LET asks == p \in Malformed /\ recovered # p
  IN  /\ recovered' = IF p \in Malformed THEN p ELSE NoPath
      /\ redirecting' = (redirecting \/ asks)
      /\ redirects' = (IF p # subPath THEN 0 ELSE redirects) + (IF asks THEN 1 ELSE 0)

(* The effect of the route on page p.  It also runs again on the same page *)
(* whenever the host hands out a new navigate function.                    *)
RouteEffect(p) ==
  /\ Supersede(p) /\ Recover(p) /\ LeaveBehind(p)
  /\ subPath' = p
  /\ UNCHANGED <<mounted, calls, snapshot, statusFailed, catalogMessage>>

Visit(p) ==
  /\ mounted /\ generation < MaxGeneration
  /\ RouteEffect(p)

(* The host carries out a redirect.                                        *)
Redirected ==
  /\ mounted /\ redirecting /\ generation < MaxGeneration
  /\ Supersede(Root) /\ LeaveBehind(Root)
  /\ recovered' = NoPath /\ redirecting' = FALSE /\ redirects' = 0
  /\ subPath' = Root
  /\ UNCHANGED <<mounted, calls, snapshot, statusFailed, catalogMessage>>

Unmount ==
  /\ mounted /\ mounted' = FALSE
  /\ generation' = generation + 1
  /\ Overtake
  /\ UNCHANGED <<calls, view, route>>

Gone == ~mounted /\ calls = {} /\ UNCHANGED panelVars

PanelNext ==
  \/ CheckAgain \/ Refresh
  \/ \E c \in calls : Ignored(c) \/ StatusAnswered(c) \/ RefreshAnswered(c)
  \/ \E p \in SubPaths : Visit(p)
  \/ Redirected
  \/ Unmount
  \/ Gone

PanelSpec == PanelInit /\ [][PanelNext]_panelVars

-----------------------------------------------------------------------------

PanelTypeOK ==
  /\ mounted \in BOOLEAN /\ subPath \in SubPaths
  /\ generation \in 1..(MaxGeneration + 1)
  /\ calls \subseteq Call
  /\ snapshot \in Catalogs \cup {"none"}
  /\ statusFailed \in BOOLEAN /\ refreshing \in BOOLEAN
  /\ catalogMessage \in {"none", "changed", "loadFailed"}
  /\ refreshSubPath \in SubPaths \cup {NoPath}
  /\ recovered \in Malformed \cup {NoPath}
  /\ redirects \in Nat /\ redirecting \in BOOLEAN
  /\ outdated \subseteq 1..MaxGeneration

(* A page that waits has something to wait for: busy, there is a refresh   *)
(* under way whose answer will count; empty, a status.                     *)
BusyIsBacked ==
  mounted =>
    /\ refreshing => \E c \in calls : Current(c) /\ c.kind \in {"first", "again"}
    /\ (snapshot = "none" /\ ~statusFailed) =>
         \E c \in calls : Current(c) /\ c.kind = "status"

(* A request the user overtook or left behind is over: whenever, and in    *)
(* whatever way, it is answered later, even on the page it was asked for,  *)
(* it changes nothing the panel shows and starts no other request.  A late *)
(* failure is in particular not reported on the page gone to.              *)
OutdatedChangesNothing ==
  [][\A c \in calls \ calls' :
       c.generation \in outdated => calls' \subseteq calls /\ UNCHANGED view]_panelVars

(* A panel that is gone requests nothing more.                             *)
NothingAfterUnmount == [][~mounted => calls' \subseteq calls]_panelVars

(* A malformed page is never replaced twice: no redirection loop.          *)
ReplacedOnce == redirects <= 1

=============================================================================
