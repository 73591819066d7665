---------------------------- MODULE StudioBackend ----------------------------
(***************************************************************************)
(* The plugin's backend: the refresh of plugins/studio/src/backend/        *)
(* plugin.ts over the project inventory of project-adapter.ts.             *)
(*                                                                         *)
(* A refresh reads the projects of the host, reads them again to see that  *)
(* they did not change, has the target controller scan them, and reads     *)
(* them once more before every write to the catalog.  Each read is an      *)
(* await, during which the host may change and other calls may arrive.     *)
(* Callers share the refresh that runs.  Disposal aborts it, waits for it  *)
(* and closes the catalog, but a write that was already begun lives on.    *)
(*                                                                         *)
(* What the controller scans and writes is the subject of                  *)
(* ProjectTargetAdmission; here an admission is a number of writes, each   *)
(* after a check, and an outcome for each project.                         *)
(***************************************************************************)
EXTENDS Integers, FiniteSets

CONSTANTS
  Projects,
  Callers,       \* callers of the refresh RPC
  MaxRefreshes,  \* bound of the model: refreshes at one time
  MaxChanges,    \* bound of the model: changes of the host's projects
  MaxWrites      \* bound of the model: writes of one admission

Refreshes == 1..MaxRefreshes

ASSUME StudioAssumption ==
  MaxRefreshes \in Nat /\ MaxChanges \in Nat /\ MaxWrites \in Nat

VARIABLES
  sources,    \* host: each project's one local source by version, 0 for none
  hidden,     \* host: there is a project without a single local source
  up,         \* host: whether it answers
  changes,    \* host: counts the changes; versions are drawn from it
  aborted,    \* the lifecycle signal
  disposed,   \* disposal has run to its end
  catalog,    \* "none" | "open" | "closed"
  current,    \* refreshing: the refresh that callers share, 0 for none
  check,      \* mutationCheck: the refresh that installed it, 0 for undefined
  lastGood,   \* the last catalog a scan completed
  waiting,    \* waiting[c]: the refresh that caller c awaits, 0 for none
  phase,      \* phase[r]: the await that refresh r is in
  before,     \* before[r]: the sources of its inventory
  truncated,  \* truncated[r]: whether that inventory is incomplete
  expected,   \* expected[r]: the sources that r compares what it reads with
  left,       \* left[r]: projects whose source it has still to resolve
  writes,     \* writes[r]: writes begun
  committed,  \* committed[r]: writes committed
  begun,      \* the refreshes with a write that is begun and not ended
  answer,     \* the answer of the last refresh, until the next begins
  asked       \* history: asked[r]: the sources when its last check began

host == <<sources, hidden, up, changes>>
shown == <<lastGood, answer>>
lifecycle == <<aborted, disposed>>
scanned == <<before, truncated>>
compared == <<expected, left, asked>>
written == <<writes, committed, begun>>
vars == <<host, lifecycle, catalog, current, check, shown, waiting, phase,
          scanned, compared, written>>

(* A project catalog: what is known of each project's scan.                *)
NoProjects == [p \in {} |-> 0]
Unavailable == [state |-> "unavailable", truncated |-> FALSE, scans |-> NoProjects]
Rejected == [Unavailable EXCEPT !.state = "rejected"]
None == [Unavailable EXCEPT !.state = "none"]

Incomplete(scans) == \E p \in DOMAIN scans : scans[p] \notin {"ready", "not_scanned"}

(* The refinement of projectCatalogSchema.                                 *)
Valid(c) ==
  c.state \in {"ready", "partial"} =>
    (c.truncated \/ Incomplete(c.scans) <=> c.state = "partial")

Listed == [p \in {q \in Projects : sources[q] # 0} |-> sources[p]]

(* inventory.catalog: the projects, none of them scanned.                  *)
Inventory(r) ==
  [state |-> IF truncated[r] THEN "partial" ELSE "ready",
   truncated |-> truncated[r],
   scans |-> [p \in DOMAIN before[r] |-> "not_scanned"]]

Init ==
  /\ sources \in [Projects -> {0, 1}] /\ hidden = FALSE /\ up = TRUE /\ changes = 1
  /\ aborted = FALSE /\ disposed = FALSE /\ catalog = "none"
  /\ current = 0 /\ check = 0 /\ lastGood = None
  /\ waiting = [c \in Callers |-> 0]
  /\ phase = [r \in Refreshes |-> "idle"]
  /\ before = [r \in Refreshes |-> NoProjects]
  /\ truncated = [r \in Refreshes |-> FALSE]
  /\ expected = [r \in Refreshes |-> NoProjects]
  /\ left = [r \in Refreshes |-> {}]
  /\ writes = [r \in Refreshes |-> 0]
  /\ committed = [r \in Refreshes |-> 0]
  /\ begun = {}
  /\ answer = None
  /\ asked = [r \in Refreshes |-> NoProjects]

-----------------------------------------------------------------------------

(* The host: a project appears, moves or is touched, or disappears; one    *)
(* without a single local source appears or disappears; the host fails.    *)
HostChanges ==
  /\ changes < MaxChanges
  /\ changes' = changes + 1
  /\ \/ /\ \E p \in Projects, v \in {0, changes + 1} :
             sources[p] # v /\ sources' = [sources EXCEPT ![p] = v]
        /\ UNCHANGED <<hidden, up>>
     \/ hidden' = ~hidden /\ UNCHANGED <<sources, up>>
     \/ up' = ~up /\ UNCHANGED <<sources, hidden>>
  /\ UNCHANGED <<lifecycle, catalog, current, check, shown, waiting, phase,
                 scanned, compared, written>>

-----------------------------------------------------------------------------

Free == {r \in Refreshes : phase[r] = "idle"}

Begin(c, r) ==
  /\ ~aborted
  /\ current' = r
  /\ phase' = [phase EXCEPT ![r] = "inventory"]
  /\ waiting' = [waiting EXCEPT ![c] = r]
  /\ answer' = None

(* Faulty: every caller gets a refresh of its own.                         *)
AskAlone(c) ==
  /\ waiting[c] = 0
  /\ \E r \in Free : Begin(c, r)
  /\ UNCHANGED <<host, lifecycle, catalog, check, lastGood, scanned, compared, written>>

(* refresh: join the refresh that runs, or begin one.  After disposal a    *)
(* new one is refused at once.                                             *)
Ask(c) ==
  /\ waiting[c] = 0
  /\ \/ /\ current # 0
        /\ waiting' = [waiting EXCEPT ![c] = current]
        /\ UNCHANGED <<current, phase, answer>>
     \/ /\ current = 0
        /\ \E r \in Free : (\A x \in Free : r <= x) /\ Begin(c, r)
  /\ UNCHANGED <<host, lifecycle, catalog, check, lastGood, scanned, compared, written>>

(* Faulty: only one of the callers that share a refresh is answered.       *)
AnswersOne(r) ==
  IF \E c \in Callers : waiting[c] = r
  THEN waiting' = [waiting EXCEPT ![CHOOSE c \in Callers : waiting[c] = r] = 0]
  ELSE UNCHANGED waiting

Answers(r) == waiting' = [c \in Callers |-> IF waiting[c] = r THEN 0 ELSE waiting[c]]

(* Faulty: a refresh that is rejected is not forgotten.                    *)
SettleOnSuccess(r, a) ==
  /\ phase' = [phase EXCEPT ![r] = "idle"]
  /\ before' = [before EXCEPT ![r] = NoProjects]
  /\ truncated' = [truncated EXCEPT ![r] = FALSE]
  /\ expected' = [expected EXCEPT ![r] = NoProjects]
  /\ left' = [left EXCEPT ![r] = {}]
  /\ asked' = [asked EXCEPT ![r] = NoProjects]
  /\ writes' = [writes EXCEPT ![r] = 0]
  /\ committed' = [committed EXCEPT ![r] = 0]
  /\ answer' = a
  /\ current' = IF current = r /\ a # Rejected THEN 0 ELSE current
  /\ Answers(r)

(* The promise settles: everyone who awaits it is answered, and the next   *)
(* call begins a new refresh.                                              *)
Settle(r, a) ==
  /\ phase' = [phase EXCEPT ![r] = "idle"]
  /\ before' = [before EXCEPT ![r] = NoProjects]
  /\ truncated' = [truncated EXCEPT ![r] = FALSE]
  /\ expected' = [expected EXCEPT ![r] = NoProjects]
  /\ left' = [left EXCEPT ![r] = {}]
  /\ asked' = [asked EXCEPT ![r] = NoProjects]
  /\ writes' = [writes EXCEPT ![r] = 0]
  /\ committed' = [committed EXCEPT ![r] = 0]
  /\ answer' = a
  /\ current' = IF current = r THEN 0 ELSE current
  /\ Answers(r)

(* Faulty: the last complete catalog is answered as it is.                 *)
FailureAsGood(r, reason) ==
  IF aborted THEN Rejected ELSE IF lastGood # None THEN lastGood ELSE Inventory(r)

(* The catch of executeRefresh: rethrow when disposed, otherwise the last  *)
(* complete catalog with every project unavailable.  Parsing that answer   *)
(* may throw as well.                                                      *)
Failure(r, reason) ==
  LET good == IF lastGood # None THEN lastGood ELSE Inventory(r)
      failed == [state |-> "partial", truncated |-> good.truncated,
                 scans |-> [p \in DOMAIN good.scans |-> reason]]
  IN  IF aborted \/ ~Valid(failed) THEN Rejected ELSE failed

(* The refresh fails after its inventory; finally clears mutationCheck.    *)
Fail(r, reason) ==
  /\ Settle(r, Failure(r, reason))
  /\ check' = 0
  /\ UNCHANGED <<host, lifecycle, lastGood, begun>>

-----------------------------------------------------------------------------

(* loadProjectInventory at the start of the refresh, and on to the first   *)
(* read of revalidateSources.  Without an inventory, aborted or not, the   *)
(* last complete catalog is the answer.                                    *)
ReadInventory(r) ==
  /\ phase[r] = "inventory"
  /\ \/ /\ up /\ ~aborted
        /\ before' = [before EXCEPT ![r] = Listed]
        /\ truncated' = [truncated EXCEPT ![r] = hidden]
        /\ expected' = [expected EXCEPT ![r] = Listed]
        /\ asked' = [asked EXCEPT ![r] = Listed]
        /\ phase' = [phase EXCEPT ![r] = "list"]
        /\ UNCHANGED <<current, waiting, left, writes, committed, answer>>
     \/ /\ ~up \/ aborted
        /\ Settle(r, IF lastGood # None THEN lastGood ELSE Unavailable)
  /\ UNCHANGED <<host, lifecycle, catalog, check, lastGood, begun>>

Reads == [list |-> "get", checkList |-> "checkGet"]

SameList(r) == up /\ ~aborted /\ Listed = expected[r]

(* revalidateSources: the list is read again and compared.                 *)
Relist(r) ==
  /\ phase[r] \in DOMAIN Reads
  /\ \/ /\ SameList(r)
        /\ left' = [left EXCEPT ![r] = DOMAIN expected[r]]
        /\ phase' = [phase EXCEPT ![r] = Reads[phase[r]]]
        /\ UNCHANGED <<host, lifecycle, current, check, shown, waiting, scanned,
                       expected, asked, written>>
     \/ ~SameList(r) /\ Fail(r, "source_changed")
  /\ UNCHANGED catalog

(* resolveProjectSource of one project; all of them are under way at once. *)
Resolve(r) ==
  /\ phase[r] \in {"get", "checkGet"}
  /\ \E p \in left[r] :
       \/ /\ up /\ ~aborted /\ sources[p] = expected[r][p]
          /\ left' = [left EXCEPT ![r] = @ \ {p}]
          /\ UNCHANGED <<host, lifecycle, current, check, shown, waiting, phase,
                         scanned, expected, asked, written>>
       \/ /\ ~up \/ aborted \/ sources[p] # expected[r][p]
          /\ Fail(r, "source_changed")
  /\ UNCHANGED catalog

(* The sources are confirmed: the check is installed, the catalog opened   *)
(* and the scan begun.  Opening the catalog may fail.                      *)
BeginScan(r) ==
  /\ phase[r] = "get" /\ left[r] = {}
  /\ \/ /\ ~aborted
        /\ check' = r
        /\ catalog' = "open"
        /\ phase' = [phase EXCEPT ![r] = "scan"]
        /\ UNCHANGED <<host, lifecycle, current, shown, waiting, scanned,
                       compared, written>>
     \/ Fail(r, "scan_failed") /\ UNCHANGED catalog

(* The admission fails as a whole, or the abort reaches it: whatever it    *)
(* awaits is left to itself.                                               *)
ScanFails(r) ==
  /\ phase[r] \in {"scan", "checkList", "checkGet", "write"}
  /\ phase[r] = "scan" \/ aborted
  /\ Fail(r, "scan_failed")
  /\ UNCHANGED catalog

(* mutateCatalog: the check that is installed now is begun.                *)
BeginCheck(r) ==
  /\ phase[r] = "scan" /\ ~aborted /\ writes[r] < MaxWrites
  /\ asked' = [asked EXCEPT ![r] = Listed]
  /\ \/ /\ check # 0
        /\ expected' = [expected EXCEPT ![r] = before[check]]
        /\ phase' = [phase EXCEPT ![r] = "checkList"]
     \/ /\ check = 0
        /\ phase' = [phase EXCEPT ![r] = "checked"]
        /\ UNCHANGED expected
  /\ UNCHANGED <<host, lifecycle, catalog, current, check, shown, waiting,
                 scanned, left, written>>

(* The check has passed: the write begins, and awaits its candidates.      *)
BeginWrite(r) ==
  /\ \/ phase[r] = "checked"
     \/ phase[r] = "checkGet" /\ left[r] = {}
  /\ ~aborted
  /\ phase' = [phase EXCEPT ![r] = "write"]
  /\ writes' = [writes EXCEPT ![r] = @ + 1]
  /\ begun' = begun \cup {r}
  /\ UNCHANGED <<host, lifecycle, catalog, current, check, shown, waiting,
                 scanned, compared, committed>>

(* Faulty: the write does not look at the signal again.                    *)
EndWriteRegardless(r) ==
  /\ r \in begun
  /\ begun' = begun \ {r}
  /\ phase' = [phase EXCEPT ![r] = IF @ = "write" THEN "scan" ELSE @]
  /\ committed' = [committed EXCEPT ![r] = @ + 1]
  /\ UNCHANGED <<host, lifecycle, catalog, current, check, shown, waiting,
                 scanned, compared, writes>>

(* The catalog call resumes, awaited or not.  It looks at the signal again *)
(* before it commits; it may also be refused for its candidates.           *)
EndWrite(r) ==
  /\ r \in begun
  /\ begun' = begun \ {r}
  /\ phase' = [phase EXCEPT ![r] = IF @ = "write" /\ ~aborted THEN "scan" ELSE @]
  /\ \/ ~aborted /\ committed' = [committed EXCEPT ![r] = @ + 1]
     \/ UNCHANGED committed
  /\ UNCHANGED <<host, lifecycle, catalog, current, check, shown, waiting,
                 scanned, compared, writes>>

(* scannedCatalog.  The controller finds each project ready or partial,    *)
(* and ready only once something was written; an entry of its answer that  *)
(* does not fit the contract makes the project unavailable.                *)
Scanned(r) ==
  {[state |-> IF truncated[r] \/ Incomplete(scans) THEN "partial" ELSE "ready",
    truncated |-> truncated[r], scans |-> scans] :
     scans \in [DOMAIN before[r] ->
                  {"partial", "scan_failed"}
                    \cup (IF committed[r] > 0 THEN {"ready"} ELSE {})]}

EndScan(r) ==
  /\ phase[r] = "scan" /\ ~aborted
  /\ \E c \in Scanned(r) : lastGood' = c /\ Settle(r, c)
  /\ check' = 0
  /\ UNCHANGED <<host, lifecycle, catalog, begun>>

-----------------------------------------------------------------------------

(* onDispose: abort, wait for the refresh, close.                          *)
Dispose ==
  /\ ~aborted /\ aborted' = TRUE
  /\ UNCHANGED <<host, disposed, catalog, current, check, shown, waiting, phase,
                 scanned, compared, written>>

Close ==
  /\ aborted /\ ~disposed /\ current = 0
  /\ disposed' = TRUE
  /\ catalog' = IF catalog = "open" THEN "closed" ELSE catalog
  /\ UNCHANGED <<host, aborted, current, check, shown, waiting, phase, scanned,
                 compared, written>>

(* A plugin that is disposed of stays so.                                  *)
Rest == disposed /\ begun = {} /\ UNCHANGED vars

Advance(r) ==
  \/ ReadInventory(r) \/ Relist(r) \/ Resolve(r)
  \/ BeginScan(r) \/ ScanFails(r) \/ BeginCheck(r)
  \/ BeginWrite(r) \/ EndWrite(r) \/ EndScan(r)

Next ==
  \/ HostChanges
  \/ \E c \in Callers : Ask(c)
  \/ \E r \in Refreshes : Advance(r)
  \/ Dispose
  \/ Close
  \/ Rest

(* What the backend awaits is answered some time: the host's calls settle, *)
(* and file operations and the event loop make progress.                   *)
Spec ==
  /\ Init /\ [][Next]_vars
  /\ \A r \in Refreshes : WF_vars(Advance(r))
  /\ WF_vars(Close)

-----------------------------------------------------------------------------

Phases == {"idle", "inventory", "list", "get", "scan", "checkList", "checkGet",
           "checked", "write"}
ScanStates == {"not_scanned", "ready", "partial", "source_changed", "scan_failed"}

TypeOK ==
  /\ sources \in [Projects -> Nat] /\ hidden \in BOOLEAN /\ up \in BOOLEAN
  /\ changes \in 1..(MaxChanges + 1)
  /\ aborted \in BOOLEAN /\ disposed \in BOOLEAN
  /\ catalog \in {"none", "open", "closed"}
  /\ current \in 0..MaxRefreshes /\ check \in 0..MaxRefreshes
  /\ waiting \in [Callers -> 0..MaxRefreshes]
  /\ phase \in [Refreshes -> Phases]
  /\ left \in [Refreshes -> SUBSET Projects]
  /\ writes \in [Refreshes -> 0..MaxWrites]
  /\ committed \in [Refreshes -> 0..MaxWrites]
  /\ begun \subseteq Refreshes
  /\ \A r \in Refreshes :
       DOMAIN before[r] \subseteq Projects /\ DOMAIN asked[r] \subseteq Projects
  /\ \A c \in {answer, lastGood} : \A p \in DOMAIN c.scans : c.scans[p] \in ScanStates

(* The sources that refresh r scanned were in place when its last check    *)
(* began.                                                                  *)
InPlace(r, p) == p \in DOMAIN asked[r] /\ asked[r][p] = before[r][p]

(* A write to the catalog begins only if, when its check began, the host's *)
(* projects were still at the sources that the refresh had scanned.        *)
WritesAreAuthorised ==
  \A r \in begun : \A p \in DOMAIN before[r] : InPlace(r, p)

(* Once disposal has closed the catalog nothing is written to it, whatever *)
(* the disposal interrupted.                                               *)
NothingAfterDisposal ==
  [][disposed => UNCHANGED committed /\ catalog' # "open"]_vars

(* A project is answered as scanned by a refresh that saw the inventory    *)
(* only if it was at the same source when that refresh last looked; older  *)
(* results are shown only while the host cannot be asked.                  *)
NoStaleReady ==
  [][\A r \in Refreshes :
       phase[r] \notin {"idle", "inventory"} /\ phase'[r] = "idle" =>
         \A p \in DOMAIN answer'.scans :
           answer'.scans[p] \in {"ready", "partial"} =>
             p \in DOMAIN before[r] /\ InPlace(r, p)]_vars

(* A refresh that was not aborted is answered, never rejected.             *)
NeverRejected == answer = Rejected => aborted

(* Every caller is answered, with the refresh it shares or its failure.    *)
EveryCallerAnswered ==
  \A c \in Callers : waiting[c] # 0 ~> waiting[c] = 0

(* Disposal ends.                                                          *)
DisposalEnds == aborted ~> disposed

=============================================================================
