--------------------------- MODULE StudioSnapshot ---------------------------
(***************************************************************************)
(* What a refresh makes of the host's projects and of the controller's     *)
(* answer, and what the panel shows of it: project-adapter.ts, the         *)
(* projections of plugin.ts and of project-target-controller.ts,           *)
(* workbench-contract.ts, and on the other side of the wire                *)
(* workbench-snapshot.ts, plugin-app.tsx and workbench-panel.tsx.          *)
(*                                                                         *)
(* All of it is a function of its inputs.  StudioBackend says when each is *)
(* called and knows of a catalog only its state and its scans; Brief is    *)
(* the catalog as that module sees it.  A text is a value, and the sets    *)
(* below say which texts its schemas refuse; a root key is the position of *)
(* its project in the request.                                             *)
(***************************************************************************)
EXTENDS StudioBackend, Sequences, FiniteSetsExt, SequencesExt

CONSTANTS
  ListedHosts,      \* answers of projects.list: sequences of host projects
  Admissions,       \* what the controller found: see KeysOf and GroupsOf
  Sidebars,         \* answers of the host's list of threads
  UnsafeTexts,      \* texts that safeLabel refuses
  UnsafePluginIds,  \* plugin ids of manifests that targetSummarySchema refuses
  UnsafeIds,        \* project ids that projectIdSchema refuses
  MaxListed,        \* TARGET_ADMISSION_MAX_PROJECTS, and 128 of the contract
  MaxEntries        \* TARGET_LIST_MAX_TARGETS, and 128 of the contract

Never == -1   \* lastThreadUpdatedAt: null
Silent == [status |-> "loading", threads |-> <<>>]   \* a sidebar not yet answered

UniqueIds(items) == \A m, n \in DOMAIN items : items[m].id = items[n].id => m = n

(* What the host and the controller answer: the host lists a project once, *)
(* and the label made from an id that is one is a label.                   *)
ASSUME SnapshotAssumption ==
  /\ MaxListed \in Nat /\ MaxEntries \in Nat
  /\ \A projects \in ListedHosts :
       /\ projects \in Seq(ToSet(projects)) /\ UniqueIds(projects)
       /\ \A p \in ToSet(projects) :
            /\ IsFiniteSet(p.threads) /\ \A t \in p.threads : t.at \in Nat
            /\ p.id \notin UnsafeIds => <<"Project", p.id>> \notin UnsafeTexts
  /\ \A a \in Admissions : /\ a.admittedAs \in Seq(Nat)
                           /\ a.found \in Seq(ToSet(a.found))
  /\ \A sidebar \in Sidebars :
       /\ sidebar.status \in {"loading", "error", "ready"}
       /\ sidebar.threads \in Seq(ToSet(sidebar.threads))
       /\ \A t \in ToSet(sidebar.threads) : t.at \in Nat

-----------------------------------------------------------------------------

(* sourceFor: the one source a project declares, if it is the host's.      *)
SourceFor(project) ==
  IF Len(project.sources) # 1 THEN {}
  ELSE {s \in ToSet(project.sources) :
          s.type = "local_path" /\ s.project = project.id /\ s.onHost}

(* projectActivity: threads that are deleted or not visible do not count.  *)
Activity(threads) ==
  LET seen == {t \in threads : t.visible}
  IN  [active |-> \E t \in seen : t.busy,
       last |-> IF seen = {} THEN Never ELSE Max({t.at : t \in seen})]

(* The label of an option, or the one made from its id.                    *)
OptionLabel(project) ==
  IF project.name \notin UnsafeTexts THEN project.name ELSE <<"Project", project.id>>

Option(project) ==
  [id |-> project.id, label |-> OptionLabel(project),
   activity |-> Activity(project.threads),
   scan |-> [state |-> "not_scanned", items |-> <<>>]]

(* Active projects first, then those used last; the sort is stable.        *)
Busier(a, b) ==
  \/ a.activity.active /\ ~b.activity.active
  \/ a.activity.active = b.activity.active /\ a.activity.last > b.activity.last

StableSort(s, Before(_, _)) ==
  LET ahead(i) == {j \in DOMAIN s : Before(s[j], s[i]) \/ (~Before(s[i], s[j]) /\ j < i)}
  IN  [n \in DOMAIN s |-> s[CHOOSE i \in DOMAIN s : Cardinality(ahead(i)) = n - 1]]

(* The elements of s at the positions that are kept.                       *)
Kept(s, keep) ==
  LET upTo[n \in 0..Len(s)] ==
        IF n = 0 THEN <<>>
        ELSE IF n \in keep THEN Append(upTo[n - 1], s[n]) ELSE upTo[n - 1]
  IN  upTo[Len(s)]

Known(projects) ==
  Kept(projects, {n \in DOMAIN projects : projects[n].id \notin UnsafeIds})
Eligible(projects) ==
  LET known == Known(projects)
  IN  Kept(known, {n \in DOMAIN known : SourceFor(known[n]) # {}})

Options(projects) ==
  StableSort([n \in DOMAIN Eligible(projects) |-> Option(Eligible(projects)[n])], Busier)

CatalogOf(options, partly) ==
  [state |-> IF partly THEN "partial" ELSE "ready", truncated |-> partly,
   items |-> SubSeq(options, 1, Min({Len(options), MaxListed}))]

(* loadProjectInventory: the catalog of an inventory.                      *)
Loaded(projects) ==
  CatalogOf(Options(projects),
            \/ Len(Eligible(projects)) < Len(Known(projects))
            \/ Len(Options(projects)) > MaxListed)

-----------------------------------------------------------------------------

(* Faulty: a root is known by the first key that was admitted for it.      *)
FirstKeyOf(a, root) == {root}

(* An admission: which of the keys was admitted as an alias of which other *)
(* (a root is its own), the keys marked partial, and the targets that were *)
(* written, each with the roots that its candidate was discovered from.    *)
KeysOf(a, root) == {k \in DOMAIN a.admittedAs : a.admittedAs[k] = root}

(* addTargetToGroups: a group lists a target once.                         *)
AddTarget(group, target) ==
  IF \E n \in DOMAIN group : group[n].id = target.id THEN group ELSE Append(group, target)

GroupsOf(a) ==
  [k \in DOMAIN a.admittedAs |->
     LET upTo[n \in 0..Len(a.found)] ==
           IF n = 0 THEN <<>>
           ELSE IF k \in UNION {KeysOf(a, root) : root \in a.found[n].roots}
           THEN AddTarget(upTo[n - 1], a.found[n].target)
           ELSE upTo[n - 1]
     IN  upTo[Len(a.found)]]

(* batchResponse: the groups share the limit, in the order of the request. *)
Batch(a) ==
  LET groups == GroupsOf(a)
      room[k \in 0..Len(a.admittedAs)] ==
        IF k = 0 THEN MaxEntries
        ELSE room[k - 1] - Min({room[k - 1], Len(groups[k])})
      targets(k) == SubSeq(groups[k], 1, room[k - 1] - room[k])
  IN  [k \in DOMAIN a.admittedAs |->
         [state |-> IF targets(k) # groups[k] \/ k \in a.partial
                    THEN "partial" ELSE "ready",
          targets |-> targets(k)]]

TargetFits(label, target) ==
  label \notin UnsafeTexts /\ target.pluginId \notin UnsafePluginIds

(* projectTargets: a label that does not fit is replaced by the plugin's   *)
(* id; {} if one of the targets does not fit the contract all the same.    *)
Summaries(targets) ==
  LET summary(t) ==
        [id |-> t.id, pluginId |-> t.pluginId,
         label |-> IF TargetFits(t.name, t) THEN t.name ELSE t.pluginId]
  IN  IF \A n \in DOMAIN targets : TargetFits(targets[n].pluginId, targets[n])
      THEN {[n \in DOMAIN targets |-> summary(targets[n])]}
      ELSE {}

NoScan(reason) == [state |-> "unavailable", reason |-> reason, items |-> <<>>]

ScanIncomplete(scan) == scan.state \in {"partial", "unavailable"}

(* scannedCatalog.                                                         *)
ScannedAs(c, batch) ==
  LET scan(k) ==
        IF k \in DOMAIN batch /\ Summaries(batch[k].targets) # {}
        THEN [state |-> batch[k].state,
              items |-> CHOOSE s \in Summaries(batch[k].targets) : TRUE]
        ELSE NoScan("scan_failed")
      items == [k \in DOMAIN c.items |-> [c.items[k] EXCEPT !.scan = scan(k)]]
  IN  [state |-> IF c.truncated \/ \E k \in DOMAIN items : ScanIncomplete(items[k].scan)
                 THEN "partial" ELSE "ready",
       truncated |-> c.truncated, items |-> items]

(* unavailableCatalog, before it is parsed.                                *)
FailedAs(c, reason) ==
  [state |-> "partial", truncated |-> c.truncated,
   items |-> [k \in DOMAIN c.items |->
                [c.items[k] EXCEPT !.scan = NoScan(reason)]]]

(* loadProjectInventory, when the host cannot be asked: there is no list.  *)
NoCatalog == [state |-> "unavailable", truncated |-> FALSE, items |-> <<>>]

(* The catalog as StudioBackend knows it.                                  *)
Brief(c) ==
  [state |-> c.state, truncated |-> c.truncated,
   scans |-> [p \in {c.items[k].id : k \in DOMAIN c.items} |->
     LET scan == (CHOOSE i \in ToSet(c.items) : i.id = p).scan
     IN  IF scan.state = "unavailable" THEN scan.reason ELSE scan.state]]

-----------------------------------------------------------------------------

Listing(c) ==
  LET upTo[k \in 0..Len(c.items)] ==
        IF k = 0 THEN 0 ELSE upTo[k - 1] + Len(c.items[k].scan.items)
  IN  upTo[Len(c.items)]

(* workbenchSnapshotSchema: the refinements of the backend's contract.     *)
ContractTakes(c) ==
  /\ c.state = "unavailable" => c.items = <<>>
  /\ Len(c.items) <= MaxListed /\ UniqueIds(c.items)
  /\ Listing(c) <= MaxEntries
  /\ \A k \in DOMAIN c.items :
       LET project == c.items[k]
       IN  /\ project.id \notin UnsafeIds /\ project.label \notin UnsafeTexts
           /\ project.scan.state \in {"not_scanned", "unavailable"} => project.scan.items = <<>>
           /\ Len(project.scan.items) <= MaxEntries /\ UniqueIds(project.scan.items)
           /\ \A n \in DOMAIN project.scan.items :
                TargetFits(project.scan.items[n].label, project.scan.items[n])
  /\ (c.truncated \/ \E k \in DOMAIN c.items : ScanIncomplete(c.items[k].scan))
       <=> c.state = "partial"

(* parseTargets, parseScan.                                                *)
ParsesScan(scan) ==
  IF scan.state \in {"not_scanned", "unavailable"} THEN scan.items = <<>>
  ELSE /\ Len(scan.items) <= MaxEntries /\ UniqueIds(scan.items)
       /\ \A n \in DOMAIN scan.items :
            TargetFits(scan.items[n].label, scan.items[n])

(* parsePluginWorkbenchSnapshot: what the panel takes.                     *)
PanelTakes(c) ==
  /\ c.state = "unavailable" => c.items = <<>>
  /\ Len(c.items) <= MaxListed
  /\ \A k \in DOMAIN c.items :
       /\ c.items[k].id \notin UnsafeIds /\ c.items[k].label \notin UnsafeTexts
       /\ c.items[k].activity.last >= Never
       /\ ParsesScan(c.items[k].scan)
  /\ UniqueIds(c.items)
  /\ Listing(c) <= MaxEntries
  /\ LET incomplete == \E k \in DOMAIN c.items : ScanIncomplete(c.items[k].scan)
     IN  IF c.state = "partial" THEN c.truncated \/ incomplete
         ELSE ~c.truncated /\ ~incomplete

-----------------------------------------------------------------------------

(* missingTargetReason.                                                    *)
MissingReason(c, project) ==
  IF c.state = "unavailable" THEN "catalog_unavailable"
  ELSE IF project = {} THEN IF c.truncated THEN "scan_incomplete" ELSE "removed"
  ELSE LET scan == (CHOOSE p \in project : TRUE).scan
       IN  IF scan.state = "ready" THEN "removed"
           ELSE IF scan.state = "partial" THEN "scan_incomplete"
           ELSE IF scan.state = "unavailable" THEN scan.reason
           ELSE scan.state

(* PluginWorkbenchTargetDetail.                                            *)
DetailPage(project, target, tasks) ==
  [view |-> "target", project |-> project.label, target |-> target.id, tasks |-> tasks]

(* PluginWorkbenchMissingTarget: it says that the plugin is no longer      *)
(* there, or that the scan cannot tell.                                    *)
MissingPage(reason) ==
  [view |-> IF reason = "removed" THEN "no longer available" ELSE "unavailable",
   reason |-> reason]

(* The tasks of a target's page.                                           *)
ProjectTasks(sidebar, projectId) ==
  IF sidebar.status = "loading" THEN [state |-> "loading", items |-> <<>>]
  ELSE IF sidebar.status = "error" THEN [state |-> "unavailable", items |-> <<>>]
  ELSE [state |-> "ready",
        items |-> LET threads == sidebar.threads
                      listed == {n \in DOMAIN threads :
                                   threads[n].project = projectId /\ ~threads[n].archived}
                  IN  StableSort(Kept(threads, listed), LAMBDA a, b : a.at > b.at)]

(* The page of a target, once no reload is under way.                      *)
TargetPage(c, projectId, targetId, sidebar) ==
  LET project == {p \in ToSet(c.items) : p.id = projectId}
      target == UNION {{t \in ToSet(p.scan.items) : t.id = targetId} : p \in project}
  IN  IF target # {}
      THEN DetailPage(CHOOSE p \in project : TRUE, CHOOSE t \in target : TRUE,
                      ProjectTasks(sidebar, projectId))
      ELSE MissingPage(MissingReason(c, project))

(* ProjectPlugins: the line of a project, and the plugins below it.        *)
ProjectLine(scan) ==
  [says |-> IF scan.state = "ready" THEN IF scan.items = <<>> THEN "no plugins" ELSE "plugins"
            ELSE IF scan.state = "partial" THEN "incomplete"
            ELSE IF scan.state = "not_scanned" THEN "finding"
            ELSE scan.reason,
   plugins |-> scan.items]

(* ProjectRow: what is said of a project above that line.                  *)
ProjectRow(project) ==
  [label |-> project.label, active |-> project.activity.active,
   counted |-> IF project.scan.state \in {"ready", "partial"}
               THEN {Len(project.scan.items)} ELSE {},
   incomplete |-> project.scan.state = "partial",
   line |-> ProjectLine(project.scan)]

(* PluginWorkbenchView: the projects in the panel's own order, under a     *)
(* line that says so if there may be more.                                 *)
ProjectsPage(c) ==
  [says |-> IF c.state = "unavailable" THEN "list_unavailable"
            ELSE IF c.items = <<>> THEN "no_local_projects"
            ELSE IF c.truncated THEN "inventory_incomplete" ELSE "complete",
   projects |-> StableSort(c.items, Busier)]

-----------------------------------------------------------------------------

(* The admissions that may answer a request for these projects.            *)
AnswersTo(c) == {a \in Admissions : Len(a.admittedAs) = Len(c.items)}

Inventories == {Loaded(projects) : projects \in ListedHosts}

(* Each catalog that a refresh builds is one that the contract and the     *)
(* panel take: the limits on projects and on targets, which controller,    *)
(* backend, contract and panel each apply for themselves, agree, and so    *)
(* does what StudioBackend says of the answer of a failed refresh.         *)
BothEndsAgree ==
  \A c \in Inventories :
    /\ ContractTakes(c) /\ PanelTakes(c)
    /\ \A reason \in {"source_changed", "scan_failed"} :
         LET failed == FailedAs(c, reason)
         IN  /\ ContractTakes(failed) <=> Valid(Brief(failed))
             /\ ContractTakes(failed) => PanelTakes(failed)
    /\ \A a \in AnswersTo(c) :
         LET result == ScannedAs(c, Batch(a))
         IN  ContractTakes(result) /\ PanelTakes(result) /\ Valid(Brief(result))

(* Each project that the host lists with an id the panel knows is on the   *)
(* page of projects, in the order of the inventory, or the catalog is      *)
(* marked as cut; it is marked so for no other reason, and no other        *)
(* project is on the page.  A page that lists projects says whether there  *)
(* are more; a page without any says only that it found none.              *)
NoProjectIsLost ==
  \A projects \in ListedHosts :
    LET c == Loaded(projects)
        page == ProjectsPage(c)
        Shown(p) == \E i \in ToSet(page.projects) :
                      i.id = p.id /\ i.label \in {p.name, <<"Project", p.id>>}
    IN  /\ page.projects = c.items
        /\ \A i \in ToSet(page.projects) : \E p \in ToSet(projects) :
             p.id = i.id /\ p.id \notin UnsafeIds /\ Len(p.sources) = 1
        /\ c.truncated <=> \E p \in ToSet(projects) : p.id \notin UnsafeIds /\ ~Shown(p)
        /\ page.projects # <<>> => (page.says = "inventory_incomplete" <=> c.truncated)

(* A target that the controller wrote is shown on its page, in each of the *)
(* projects it was found for, or the page does not claim that it is gone;  *)
(* and a project that is shown as scanned shows all that was found in it.  *)
NoTargetIsDenied ==
  \A c \in Inventories : \A a \in AnswersTo(c) :
    LET result == ScannedAs(c, Batch(a))
    IN  \A f \in ToSet(a.found) : \A k \in DOMAIN a.admittedAs :
          a.admittedAs[k] \in f.roots =>
            LET project == result.items[k]
                row == ProjectRow(project)
                page == TargetPage(result, project.id, f.target.id, Silent)
            IN  /\ page.view # "no longer available"
                /\ page.view = "target" => page.target = f.target.id
                /\ row.counted # {} /\ ~row.incomplete =>
                     /\ row.line.says = "plugins"
                     /\ row.counted = {Cardinality({t.id : t \in ToSet(row.line.plugins)})}
                     /\ \E t \in ToSet(row.line.plugins) : t.id = f.target.id

(* Where the host's list could not be read, the answer reaches the panel,  *)
(* and no page of it says that there are no projects, or that a target is  *)
(* gone.                                                                   *)
UnreadListDeniesNothing ==
  /\ ContractTakes(NoCatalog) /\ PanelTakes(NoCatalog)
  /\ ProjectsPage(NoCatalog).says \notin {"no_local_projects", "complete"}
  /\ \A a \in Admissions : \A f \in ToSet(a.found), p \in Projects :
       TargetPage(NoCatalog, p, f.target.id, Silent).view = "unavailable"

(* The tasks listed on a target's page are those of its project that are   *)
(* not archived, and none are claimed missing before the host answered.    *)
TasksAreTheProjects ==
  \A sidebar \in Sidebars, p \in Projects :
    LET tasks == ProjectTasks(sidebar, p)
    IN  /\ tasks.state = "ready" <=> sidebar.status = "ready"
        /\ tasks.state = "ready" =>
             ToSet(tasks.items) =
               {t \in ToSet(sidebar.threads) : t.project = p /\ ~t.archived}

Snapshots ==
  Inventories
    \cup {ScannedAs(i[1], Batch(i[2])) : i \in {j \in Inventories \X Admissions : j[2] \in AnswersTo(j[1])}}
    \cup {FailedAs(c, reason) : c \in Inventories, reason \in {"source_changed", "scan_failed"}}

Briefs == {Brief(c) : c \in {d \in Snapshots : ContractTakes(d)}}

(* The answers of the host and of the controller leave out no case that    *)
(* StudioBackend knows: any of its projects may be listed, with others or  *)
(* without, and each found ready, partial, or unfit for the contract.      *)
ASSUME CoveringAssumption ==
  \A listed \in SUBSET Projects, partly \in BOOLEAN :
    \E c \in Inventories :
      /\ c.truncated = partly
      /\ listed = {i.id : i \in ToSet(c.items)}
      /\ \A scans \in [listed -> {"ready", "partial", "scan_failed"}] :
           \E a \in AnswersTo(c) : Brief(ScannedAs(c, Batch(a))).scans = scans

(* Every inventory that StudioBackend works with, and every catalog that   *)
(* it answers, is one that is made here and that the contract takes.       *)
BackendAnswersSnapshots ==
  /\ \A r \in Refreshes : phase[r] \notin {"idle", "inventory"} => Inventory(r) \in Briefs
  /\ answer \in Briefs \cup {None, Brief(NoCatalog), Rejected}

(* What the panel shows of a refresh is true of it.                        *)
PanelTellsTheTruth ==
  /\ BackendAnswersSnapshots
  /\ BothEndsAgree /\ NoProjectIsLost /\ NoTargetIsDenied
  /\ UnreadListDeniesNothing /\ TasksAreTheProjects

=============================================================================
