# Verification of bb Plugin Studio

TLA+ modules, TLC configurations and TLAPS proofs kept beside the code of bb Plugin Studio: the
runtime (`packages/runtime`), the inspection kernel (`packages/inspection`), the bb plugin
(`plugins/studio`) and the applications (`apps`). Paths below are relative to the repository
unless they name a module. `PROJECT.json` ties every definition that models code to its lines, and
lists components, runs, mutants, findings, hazards and theorems.

1. [The system](#1-the-system)
2. [Modules and the code they model](#2-modules-and-the-code-they-model)
3. [What the runs check](#3-what-the-runs-check)
4. [Fairness, deadlock and bounds](#4-fairness-deadlock-and-bounds)
5. [What is proved](#5-what-is-proved)
6. [Disagreements found](#6-disagreements-found)
7. [What the models leave out](#7-what-the-models-leave-out)
8. [Plan](#8-plan)
9. [Working with the project](#9-working-with-the-project)

## 1. The system

bb Plugin Studio shows the author of a bb plugin which plugins the projects of a bb installation
hold and what is wrong with them. One refresh runs through four layers:

    panel (React)  --RPC-->  plugin backend  --admit-->  project target controller
                                   |                         |            |
                             host's projects            discovery     catalog --> event feed
                                                          scan        (SQLite)

The panel asks the backend for a catalog of projects. The backend reads the projects of the host,
checks that they stand still, and has the controller admit them. The controller scans the project
roots for plugin packages and writes what it found to the catalog, several projects at once where
their roots overlap. The catalog keeps *development targets* (objects with stable ids), retires
those a scan no longer finds, and journals every change to an event table, which consumers pull
page by page and which is compacted all the time.

Beside this stand a development server with a browser page of its own over a second catalog on its
own database, a hand-over of single sources from a scan to a catalog that checks them against the
file system several times, and the bb command, asked for its inventory of plugins.

Each process is single-threaded and SQLite transactions are synchronous. Concurrency comes from
`await`: between the read and the use of a value, other calls run, projects come and go, files
change, and a disposal may abort everything. The hard behaviours are therefore stale reads, one
write of several failing, the order of answers, limits (events, history, scan budgets) what a
partial observation is allowed to conclude, and, where several processes share one database, crashes
and overlapping starts.

| Component | State | Operations | Interacts with | What makes it correct |
|---|---|---|---|---|
| Catalog (`discovery/catalog.ts`, `catalog-storage.ts`) | objects, roots, retirements, host observations, retention, events, scopes | refresh, three kinds of snapshot, registerProjectScopes, reconcileNative | controller, feed, integrity check | identities are stable and never return; a target is retired only by a scan that could see it; row and journal agree; a late reconciliation writes only what it read |
| Integrity check (`catalog-integrity.ts`) | none | runs at the start of every operation | catalog | no sequence of legal calls makes it fail |
| Event feed (`events/feed.ts`) | journal, checkpoints, cursors handed out | append, compaction, purge, pull | catalog, consumers | no consumer is handed a journal with a hole; bound and anchors kept |
| Project target controller (`project-target-controller.ts`) | one admission's progress | admit: replace, register, components, rescue, single candidates | scan, catalog, backend | what a project sees is kept whatever fails; "ready" means complete; no target out of reach |
| Discovery scan (`discover-workspace-source-candidates.ts`, `discovery-scan-state.ts`, `discovery-budget.ts`) | queues, budgets, overflow per root | fair shares, redistribution, reporting | controller, file system | budgets hold, nobody starves, the scan ends, silence means completeness |
| Plugin backend (`backend/plugin.ts`, `project-adapter.ts`) | shared refresh, mutation check, last good catalog, disposal | refresh, dispose | host, controller, panel | writes follow a check that saw the scanned sources; no old scan shown as current; callers and disposal answered |
| Panel (`frontend/plugin-app.tsx`) | generation, snapshot, messages, route | refresh, check again, visit, unmount | backend, host's router | a waiting page has something to wait for; an outdated answer changes nothing; no redirect loop |
| Persistence and migrations (`persistence/*`) | data root, file, sidecars, ledger, schema | look, create, connect, apply, verify | server, SQLite | a crash leaves a file that a later start can use; schema and ledger agree; what is refused is not touched |
| Development server (`apps/workbench/server`) | identity file, catalog rows, frozen list | start, register candidates, answer, close | persistence, browser | a restart keeps ids and keys; it lists what it registered |
| Browser session (`apps/workbench/src`) | URL state and history, requests, result | open, change, go back, refresh, effects, deliver | server | shown is what was asked for, in whatever order answers come; the page settles |
| Trusted roots (`trusted-roots.ts`) | the roots, keys and aliases admitted | look, resolve, decide | file system, scan | a root is what it was when looked at; an alias is not admitted twice |
| Source candidates (`discover-source-candidates.ts`, `source-candidate-transition.ts`, `trusted-candidate.ts`, `source-identity.ts`) | candidates, which are consumed | scan, revalidate, hand over, validate, write | file system, catalog | a source is handed over once, as it is, and unless something changed it is handed over |
| Native inventory (`captured-command.ts`, `native-inventory-*.ts`, `native-reconciliation.ts`) | child process, timers; one observation | run, parse, accept, compare | bb, catalog | the command is answered and over; the verdict says no more than bb said |
| Snapshot and its views (`project-adapter.ts`, `workbench-contract.ts`, `workbench-snapshot.ts`, `workbench-panel.tsx`) | none | project, check, parse, render | backend, panel | what a page says of a project is true of the host and the admission |
| Inspection report, command line, surfaces, scripts | none that lasts | sequential | | pure input and output |

The list with every source file and its status is `components` in `PROJECT.json`; the places where
each of these can go wrong, by line, are `hazards` there.

## 2. Modules and the code they model

`EventRetention` is what `compactTargetEvents` computes over one target's events: the newest event
of each type is an *anchor*, the walk from the newest event keeps events while anchors and walk fit
the bound, and everything from the first that does not fit downwards expires, anchors staying in
the table. It is a pure module, extended by the next two.

`EventFeed` is the journal under its own rules: `Append` (insert, compaction and checkpoint upsert
in one transaction), `Purge`, `Pull` and `Refuse` (a cursor that is unknown or expired; the
consumer starts over). Cursor text is its sequence number. `issued` is history: all events ever
appended. `EventStream` is the promise with no table and no compaction: a journal that only grows,
a horizon, and readers. `ImplementsStream` is the refinement: the journal is `issued`, the horizon
the checkpoint.

`TargetCatalog` has one action per operation of `catalog.ts`: `RefreshNew` and `RefreshKnown`;
`SnapshotOfAll`, `SnapshotOfSome`, `SnapshotOfCurrent` (the three modes of
`refreshCompleteSnapshot`); `RegisterProjectScopes`; and `BeginReconcile`, `CommitReconcile`,
`AbandonReconcile`, which are the two sides of the one `await` inside `reconcileNative` after the
row is read. Every action that persists goes through `Persist`, which does what the transaction
does: `Store` writes rows, journal, compaction and checkpoints and purges the longest retired, and
what was purged brings a second integrity check before the commit. Every operation starts
with the integrity check as a guard (`IntegrityHolds`, clause by clause from
`catalog-integrity.ts`), and an operation that throws rolls back, so failures are guards.
`TargetLifecycle` is the abstract promise of identities: one id for a root while it is retained,
revisions that count up by one, the longest retired forgotten first, ids that never return.

`SourceScopes` holds the rules, shared by catalog and controller, of which paths a snapshot speaks
for: below an authoritative scope, and neither below a doubted one nor below a registered one that
was not scanned.

`ProjectTargetAdmission` is `admit`: `Scan` (inventory, roots admitted or refused, what each root
discovered, which candidates were issued, which roots are in doubt), then either `Replace` /
`ReplaceFails` (a complete inventory whose every root was admitted) or `RegisterUncertain`,
`WriteComponent` / `ComponentFails` for each group of overlapping complete roots, `Rescue`
(registering scopes after a component failed) and `WriteSingle` / `SingleFails`; `Conclude` answers
and `End` is any point at which a refused authorisation ends the admission. The catalog appears
through its contract: which packages have an active target, which scopes are registered.

`WorkspacePatterns` is what a workspace configuration declares: which texts are patterns and how
they are parsed, the matching of paths with `*` and `**`, the shortcuts that decide whether to open
a directory at all, and the directories that are ignored unless named. Texts are sequences of
characters only as far as wildcards look at them.

`DiscoveryScan` is the scan with its budgets: one `Step` inspects one directory of the root whose
turn it is, or resumes what it had put off (each may also fail, or exhaust the matching budget),
ends the turn, begins a borrowing round, or finishes with the candidates that spilled over and the
report of limits. `tree` is the file system, with the configurations in it, chosen at the start;
what is matched, followed and skipped comes from `WorkspacePatterns`.

`StudioBackend` is the refresh of `plugin.ts`: `Ask` (join the shared refresh or begin one),
`Advance(r)` (one await of refresh r answered: inventory, revalidation, scan, check before a write,
the write, with failures at each), `HostChanges`, `Dispose` and `Close`. A refresh may be orphaned
by disposal, so two exist at a time. The admission appears as scans with arbitrary outcome followed
by writes, each behind the mutation check. `StudioSnapshot` extends it with what is computed between
those steps: the host's projects as the adapter reads them, keys and groups of an admission with
the cut to 128 entries, the contract, the parser of the panel and what each of its pages says.
`Brief` is the catalog as `StudioBackend` sees it, and `PanelTellsTheTruth` runs the whole pipe.

`WorkbenchPanel` is `PluginWorkbenchPanel`: requests carry the generation they were made in;
`StatusAnswered`, `RefreshAnswered` and `Ignored` answer any of them in any order; `Refresh`,
`CheckAgain`, `Visit`, `Redirected` and `Unmount` are the user and the host. `outdated` is history: the
requests that the user overtook by a newer one or left behind by going to another page.

`RuntimeDatabase` is the opening of a database: the data root and the file are looked at, made where
they are missing, connected (which rolls back what a crash left), the ledger made or read, verified,
and each migration applied in a transaction of its own; a step is what lies between two awaits or
two statements. Any number of starts do this at once and each may crash at any point. `schema` says
what is defined under each table's name, so that a guard replaced by a later migration counts.
`WorkbenchServer` goes on from there: identity read or minted and written, the configured slots
discovered, one registration per candidate, the answers to the page. `BrowserSession` is the page:
its URL state with the history behind it, the two effects that correct it, requests that supersede
each other, and the validation of each answer field by field. `Workbench` composes them: several starts on one data root
and a page that lives on from one start to the next.

`SourceTree` is the environment of the sources: names that stand for directories and files with
identities of their own, moved, linked and edited between any two system calls. On it stand
`TrustedRoots` (one root after the other is looked at, resolved, looked at again and admitted, refused
or taken as an alias), `SourceCandidates` (the scan of a directory, the two revalidations of an
issued candidate around its consumer, and the identity that the catalog takes before it writes: a
*call* is one system call of a list that the code makes in order), and `NativeInventory` (the rows
bb printed, with both roots of a row resolved one after the other; what the runtime's schema accepts;
the comparison with one target). `CapturedCommand` is `runCapturedCommand`: a child, a helper in its group and a stray
outside of it, events and timers. `SourceHandOver` composes these as the integration test of the
repository does: roots, scan, two callers, the command, and a write alone or with bb's inventory.

The modules named `*_proofs` hold the theorems. Each `MC*` module names the constants of the
instances for TLC and has no behaviour of its own.

Definitions marked "Faulty" are variants that a plausible mistake in the code would produce. No
specification uses them: they document, for every checked property, a change of the code that
breaks it (`mutants` in `PROJECT.json`).

## 3. What the runs check

| Run | Instance | Distinct states | Properties |
|---|---|---|---|
| `event_feed` | 2 targets, 3 event types, bound 4, pages of 1 and 3, 7 events | 222,454 | PhysicalBound, WindowIsSuffix, NoGap, ImplementsStream |
| `target_catalog` | four casts (section 4), bound 5, 2 active and 2 retained targets | 85,360 | IntegrityHolds, RowsMatchJournal, HistoryNeverBlocks, ReconcilesWhatItRead, RetiredOnlyWhenScanned, ImplementsLifecycle |
| `target_admission` | an outer project, one nested in it, one beside; 2 packages | 1,352,594 | NoOrphan, HonestGroups, KeepsWhatAProjectSees |
| `discovery_scan` | 2 roots nested or side by side, 109 trees with configurations, 6 entries, 2 candidates, lists of 3 | 44,999 | BudgetsHold, NobodyStarves, SilenceIsComplete, Terminates |
| `studio_backend` | 2 projects, 2 callers, 2 refreshes at a time, 3 host changes, 2 writes; 765 hosts, 1,817 admissions | 283,775 | WritesAreAuthorised, PanelTellsTheTruth, NoStaleReady, NothingAfterDisposal, EveryCallerAnswered, DisposalEnds |
| `workbench_panel` | 5 pages, 2 catalogs, 5 requests | 415,856 | BusyIsBacked, ReplacedOnce, OutdatedChangesNothing |
| `workbench` | 2 starts, 13 data roots, 3 directories in 2 slots, 4 links, 2 requests | 522,563 | LedgerTellsSchema, OpenHasWholeSchema, SoundStartsSucceed, RestartKeepsIds, ShownIsAsked, RefusalChangesNothing, PageSettles |
| `source_handover` | 4 scenes, 2 callers, 3 texts, at most 2 roots, lists of at most 3 rows | 390,957 | HandedOverAsItIs, HandedOverOnce, UndisturbedIsGiven, ObservationsAreAcceptable, VerdictTells, NothingLeftRunning, CommandAnswered |
| `catalog_clock_back` | one target, clock may step back | violation | IntegrityHolds |
| `discovery_rounds` | 3 roots, 7 entries, 8 trees | violation | SilenceIsComplete |
| `studio_empty` | 1 project | violation | NeverRejected |
| `captured_hang` | one command | violation | CommandAnswered |

**Event feed.** `NoGap` is the property a consumer relies on: between the first event it saw since it
last started without a cursor and its cursor, it has seen everything its target's journal holds. The
danger is an anchor: its row survives compaction below the checkpoint, so "the cursor's row exists" is not enough for a cursor to be good. `WindowIsSuffix` says no event above a
checkpoint is ever deleted, and `PhysicalBound` that the table stays within its limit all the same.

**Catalog.** The integrity check is the code's own notion of a sound database; `IntegrityHolds`
asks that no sequence of operations makes it false. `RowsMatchJournal` ties rows, retirements and
journal. `ReconcilesWhatItRead`: a reconciliation that waited while others wrote changes nothing but
the native state of a row that is still the one it read; and while a target is kept, an attested native
state gives way only to a newer one, in whatever order observations arrive, and no refresh, retirement
or reopening takes it away. `HistoryNeverBlocks` uses ENABLED: with room among the active targets, a
new root can always be refreshed, whatever the history holds. `RetiredOnlyWhenScanned` compares each retirement
with what the snapshot claimed to have scanned (`asked`).

**Admission.** `KeepsWhatAProjectSees`: no write retires a package that is there and that a project
of the host sees which an earlier admission dealt with, however that project fares now. `NoOrphan`:
every target lies below a scope that some later complete inventory can speak for. `HonestGroups`:
a group answered as ready holds all its root sees, each with an active target. Roots and packages
may come, go and come back between admissions.

**Scan.** `SilenceIsComplete` is what the catalog relies on when it retires: a root without a
diagnostic has met all that its patterns lead to. `BudgetsHold` is stated for scans whose matching
did not run out of work: `maxVisitedEntries` of a root whose turn matching ended keeps what is
unspent and more is lent on top, so the entry budget may then be exceeded by a few entries, which
are reported and retire nothing.

**Backend.** `WritesAreAuthorised` looks at every write at the moment it is in flight and compares
the sources that were scanned with those the host had when the last check began. `NoStaleReady`
says a refresh that saw an inventory and failed answers no project as scanned unless the source is
the same. `NothingAfterDisposal` covers the write that disposal abandons.
`PanelTellsTheTruth` follows a host's answer and an admission through adapter, controller, contract,
parser and pages: a page that says a project or a target is not there, is complete, or has been
scanned, says so of the host and the admission there were.

Of the page of projects it asks that a known project which is not shown is one by which the catalog was
cut, and that a page which lists projects says whether there are more; an empty page is only asked to
show nothing (section 6). Where the host's list could not be read at all, no page says that there are no
projects or that a target is gone.

**Panel.** `BusyIsBacked` is the spinner that never ends: while the page is busy, a request of the
current generation is out. `OutdatedChangesNothing`: an answer to a request that the user overtook, or
left behind on a target's page, changes nothing that is shown, even if the page has been gone back to
since. It is about late answers only. A failure that was reported while its page was open stays in
`catalogMessage` when the user goes on to another page, whose text shows it too: the message is about
the one catalog that all pages show, and the route effect (`plugin-app.tsx:193-210`) does not clear it.

**Workbench.** `LedgerTellsSchema` and `OpenHasWholeSchema` are about two starts that migrate one
file at a time and crash in between; `SoundStartsSucceed` about what such crashes leave: a start
beside no other is refused only for what was in the data root before, or for a file whose ledger
was never made. `RefusalChangesNothing`: a database of another program, version, owner or mode is
left as it was found. `RestartKeepsIds` compares the lists of two starts whose configurations name a
root in different slots, wherever the first of them ended; and the keys that they found or made for a
slot, although a start that writes the identity keeps only the keys of its own slots: a slot keeps its
key as long as no start in between leaves it out. `ShownIsAsked` is a page whose answers
come in any order from either start; `PageSettles` says its effects and requests come to rest.

**Source hand-over.** `HandedOverAsItIs` uses a history variable (`held`): at some moment since the
candidate was made, or since the validation began, the tree was what the caller is told. Identity
is looked at in several calls, and between any two of them something may move. `UndisturbedIsGiven`
is the other side: the checks refuse nothing by mistake. `VerdictTells` compares the native status
that is written with the list bb printed: which rows are about the target, by name or by the root they
lead to, even if they are malformed; how many they are; and whether the one that there is says the same
path, another one, managed, or a conflict. And `ObservationsAreAcceptable` says that the observer never
sends what the runtime's schema refuses. `NothingLeftRunning` and `CommandAnswered` are the two
sides of the command's deadline; the first also asks that no timer is left behind an answer, or set by
an event that comes after it.

## 4. Fairness, deadlock and bounds

Fairness is assumed where something must eventually happen; all other specifications are
`Init /\ [][Next]_vars` with safety properties only.

- `DiscoveryScan`: weak fairness of `Step`. The scan is one asynchronous task; the event loop
  resumes it after every await.
- `StudioBackend`: weak fairness of each `Advance(r)` and of `Close`. What the backend awaits are
  calls of the host and of the file system. The code has no timeout of its own, so *a promise of
  the host settles* is an assumption about the host, not something the code ensures.
  `EveryCallerAnswered` and `DisposalEnds` hold under it, and only under it.
- `Workbench`: weak fairness of each start that runs, of the effects of a render, and of each
  request that was sent (it is answered or given up). Nobody has to start, end or crash a server,
  or touch the page.
- `CapturedCommand`: weak fairness of the timers and of Node's events for what has happened.
  `SourceHandOver` assumes in addition that a descendant outside the group ends at some time
  (`StrayEnds`): without it the command may never be answered, which is what `captured_hang` shows.
  Neither the child nor a helper in its group has to end by itself.

Deadlock is checked in the models with their own end (`Rest`, `Gone`) and in the admission, which
never stops. `EventFeed`, `TargetCatalog`, `Workbench`, `SourceHandOver` and `CapturedCommand` have
`CHECK_DEADLOCK FALSE`: the first two stop when the bound on events or ids is used up, the others
when every start, page, caller and command has come to its end.

Bounds of the models, none of which is in the code: `MaxSequence` and the casts' `events` (events
ever appended), the casts' `clock` (readings), `Ids` (a finite stock of ids that are never drawn
twice), `MaxRefreshes`, `MaxChanges`, `MaxWrites`, `MaxGeneration`, `Starts`, `Requests`, the
scenes' `changes` (how often the tree is changed). Limits of the code are constants that are given
small values: `MaxEvents` (at least one anchor per type), `MaxTargets`, `MaxHistory`, `MaxEntries`,
`MaxCandidates`, `MaxListed`, `MaxPatterns`, `MaxSegments`, `MaxTrustedRoots`, `MaxRows`.

Why they are enough:

- `event_feed`: bound 4 with three types leaves a window of 2, so 7 events compact several times,
  with anchors of every type behind, and a consumer with pages of 1 is overtaken between two pages.
- `target_catalog`: the whole state space of all bounds together would be out of reach, so each
  *cast*, chosen at the start, follows one question further. `LongLife`: one target, 7 events
  against the smallest bound that the code's five types allow, so every kind of event is an anchor
  somewhere and compaction happens twice. `FullHistory`: four ids for three roots: a root can be
  forgotten and come back under a new id; two clock readings give ties among the retirement times.
  `TwoObservers`: two suspended reconciliations, contents that differ in plugin and in detail, and
  room for a refresh, a retirement and a reopening in between. `NestedScopes`: every pair of sets of
  scanned and doubted scopes, over one path in both projects and one in the outer project only.
- `target_admission`: three roots give a component of two and one of one; any number of
  admissions, since nothing counts them.
- `discovery_scan`: trees in which each share is too small, just enough or too large, with packages
  that both roots meet, and configurations with both wildcards, negation, ignored and hidden
  directories, too many patterns and segments, and texts that are no patterns. Two roots is a real
  restriction: with three, `SilenceIsComplete` fails (`discovery_rounds`).
- `studio_backend`: a third refresh would behave as the second, since at most one is shared and one
  orphaned by disposal; three changes let the host fail, change and recover, or a project vanish,
  return at another source and be joined by the second one. The hosts have up to three projects of
  which two are listed, the admissions up to three targets of which two are.
- `workbench_panel`: five requests: status, first refresh, two more and a retry.
- `workbench`: two starts overlap or follow each other; the data roots are none, two that an earlier
  version or an earlier start of this one has made, and each kind that must be refused. The page is
  opened on a complete database only, with starts one after the other, and is changed once after
  it was opened; two requests are enough for one to be overtaken.
- `source_handover`: one root with two changes, which can undo each other; overlapping and refused
  roots with one; and bb's lists with one. A name's place, a directory and a file each have another
  to be confused with. Identities are not used again, a file is not moved from one directory to
  another, and an edit keeps the file's identity and size. The tree stands still while the command runs:
  nothing that runs then looks at it, so a change at that time is the same as one right after.

## 5. What is proved

TLAPS proves for every value of the constants, from the assumptions each module names
(`FeedAssumption`, `CatalogAssumption`, `ScopesAssumption`, `AdmissionAssumption`,
`ScanAssumption`, `StudioAssumption`, `SnapshotAssumption`, `CoveringAssumption`,
`PanelAssumption`, `StartsAreNumbered`, `OriginsAssumption`, `ServerAssumption`,
`BrowserAssumption`, `ScenesAssumption`):

| Module | Theorem | Property |
|---|---|---|
| `EventFeed_proofs` | `Invariance`, `TypeCorrect` | the inductive invariant; types |
| | `NothingDeliverableIsLost` | WindowIsSuffix |
| | `PagesHaveNoGap` | NoGap |
| | `BoundRespected` | PhysicalBound |
| | `AnchorsStay` | the newest event of each type is in the table |
| | `CheckpointNeverMovesBack` | checkpoints only grow |
| | `FeedImplementsStream` | ImplementsStream |
| `TargetCatalog_proofs` | `CatalogInvariance` | the inductive invariant |
| | `JournalTellsThePresent` | RowsMatchJournal |
| | `RetiredByItsOwnScans` | RetiredOnlyWhenScanned |
| | `LateReconciliationsAreHarmless` | ReconcilesWhatItRead |
| | `CatalogImplementsLifecycle` | ImplementsLifecycle |
| | `StructureStaysIntact` | the clauses of `IntegrityHolds` that compare no times, whatever the clock does |
| | `IntegrityIsKept` | `IntegrityHolds`, while the clock does not step back |
| | `AFullHistoryMakesRoom`, `TheSecondCheckPasses` | the two halves of HistoryNeverBlocks, without its ENABLED |
| `ProjectTargetAdmission_proofs` | `AdmissionInvariance`, `AdmissionTypeCorrect` | the inductive invariant; types |
| | `NoTargetIsOutOfReach` | NoOrphan |
| | `ReadyGroupsAreComplete` | HonestGroups |
| | `VisibleTargetsAreKept` | KeepsWhatAProjectSees |
| `DiscoveryScan_proofs` | `ScanInvariant`, `ScanIsTyped` | the inductive invariant; types |
| | `MatchesIsNames` | the matcher's table over positions decides what a pattern names |
| | `DeclaredIsReached` | no filter of the walk stops before a declared package |
| | `SharesAddUp` | fair shares add up to what is shared |
| | `ScanKeepsBudgets` | BudgetsHold |
| | `ScanStarvesNobody` | NobodyStarves |
| | `ScanFindsAll` | a root that is silent and has nothing put off has met all it declares, for any number of roots |
| | `ScanIsSilentlyComplete` | SilenceIsComplete, for at most two roots |
| `StudioPlugin_proofs` | `BackendInvariance`, `BackendTypeCorrect` | the inductive invariant; types |
| | `EveryWriteIsAuthorised` | WritesAreAuthorised |
| | `DisposalIsFinal` | NothingAfterDisposal |
| | `NothingStaleIsReady` | NoStaleReady |
| | `InventoriesAreShown` | NoProjectIsLost, of PanelTellsTheTruth |
| | `BothEndsOfTheWireAgree` | BothEndsAgree, of PanelTellsTheTruth |
| | `WrittenTargetsAreShown` | NoTargetIsDenied, of PanelTellsTheTruth |
| | `PageHasItsTasks` | TasksAreTheProjects, of PanelTellsTheTruth |
| | `PanelShowsTheTruth` | PanelTellsTheTruth |
| | `PanelInvariance`, `PanelTypeCorrect` | the inductive invariant; types |
| | `WaitingIsForSomething` | BusyIsBacked |
| | `NoRedirectLoop` | ReplacedOnce |
| | `OutdatedRequestsAreSilent` | OutdatedChangesNothing |
| | `GonePanelIsSilent` | a panel that is gone asks for nothing |
| `Workbench_proofs` | `DatabaseInvariance` | the inductive invariant of the ledger |
| | `TheLedgerTellsTheSchema` | LedgerTellsSchema |
| | `AnOpenCatalogIsWhole` | OpenHasWholeSchema |
| | `RefusedIsUntouched` | RefusalChangesNothing |
| | `SoundDatabasesOpen` | SoundStartsSucceed |
| | `RootsKeepTheirIds` | RestartKeepsIds |
| | `ShowsWhatItAskedFor` | ShownIsAsked |
| `SourceHandOver_proofs` | `GivenToOne` | HandedOverOnce |
| | `MixtureTakesEightChanges` | what HandedOverAsItIs rules out needs eight changes of the tree |
| | `HandedOverIsWhatIsThere` | HandedOverAsItIs, in scenes with fewer changes than that |
| | `NothingIsRefusedByMistake` | UndisturbedIsGiven |
| | `ObservedIsAccepted` | ObservationsAreAcceptable |
| | `VerdictIsWhatWasSaid` | VerdictTells |
| | `CutOffIsOver` | NothingLeftRunning |

`EventRetention_proofs` has the lemmas about compaction: the deliverable events are closed upwards,
something expires whenever the bound is exceeded, the newest event survives, anchors are kept and
number at most the types, and the result fits the bound. The last two need the assumption that the
bound has room for one anchor of each type, as `target-limits.ts` has it.

**Event feed, the argument.** `NoGap` is not inductive. It needs that the window above each
checkpoint is complete (`Window`), that sequence numbers identify events and lie below the counter
(`Numbering`), and that a consumer's cursor is an event of its target that it has seen
(`Positions`): then an accepted cursor at or above the checkpoint has all that follows it still in
the table, and a refused one makes the consumer start over. The refinement follows from the same
invariant: a pull reads the next run of the journal (`PullReadsJournal`).

**Catalog, the argument.** Every operation that writes hands a transaction a *well-formed* batch
(`Writes`): the next revision of rows that are there and the first of new ones, each at a root of its
own, retired targets only to be reopened or retired again, within the limit of active targets. That
each operation does is one lemma each (`RefreshWrites`, `SnapshotWrites`, `CommitWrites`); that such a
batch keeps each part of the invariant is one lemma per part. A reconciliation that was suspended
compares revisions: revisions only grow, so a row of the same revision is the row it read, and its
target was not retired since (`Suspended`), since a retirement writes a row too. Rows and journal
agree because the event of a write is the newest of its target and survives compaction with the
newest of each type. A target leaves the active ones only as "retired" in a batch, which only
snapshots write, below what they speak for; since paths form a forest, a registered project above
such a path that was not scanned would have excluded it. The refinement needs that purges take
exactly the excess of a full history, the longest retired first (`Placed`).
The integrity check itself needs the books to be kept too (`Booked`): a retirement carries the
revision and the time of its row, every event is of a row that is at least as old, every attested
native state has its event, and the last turn of a target tells whether it is retired. `WritesKeepBooks`
carries this over a transaction, whose compaction leaves of each type an event at least as new
(`AnchorAbove`), so a last turn or a last observation after it was one before it or is the new event.
What compares times (`Timed`) holds only while the clock does not step back, and that is no accident:
the run `catalog_clock_back` shows the catalog failing its own check after a clock was set back.
That a full history never blocks a new target is shown by its parts, since ENABLED is beyond the
prover. The active targets with the new one fit `MaxTargets`, hence `MaxHistory`, so what exceeds the
history is among the retired (`EnoughToForget`), and of finitely many retired targets any number can be
the ones retired longest ago (`LeastOnes`). What is stored then keeps the invariant, so the check that
forgetting repeats passes. `TheSecondCheckPasses` is about `Store` and not about the steps of `Spec`,
which contain the check as a guard.

**Admission, the argument.** The invariant says what the scan established (`Discoveries`), which
scopes are *protected*, that is registered or exempt, at each point of an admission
(`Protection`), and what was written and answered (`Written`). Paths form a forest, so two scopes
that hold the same package overlap (`Forest`); a snapshot of a component therefore leaves alone
whatever a protected scope outside of the component may hold. A rescue exists because a component
that failed is dealt with, but not yet protected. Only `Replace` drops scopes, and it runs when
every project of the host was admitted.

**Scan, the argument.** What a configuration declares is said by *naming*: a pattern cut into one part
for each segment of the path. The code matches with a table over positions instead; that the two agree
(`MatchesIsNames`), for segments and for whole patterns, is an induction over the table, and from it
follows that every directory above a declared one passes the filters of the walk (`DeclaredIsReached`).

All that a turn of a root does is put into one summary of a step, `Scanned`: it charges its own root
only (`Charges`), records at most one candidate (`Founds`), and loses nothing that waits (`Keeps`). On
it rest three parts of the invariant. `Spends`: a root holds its limit while its turn is to come and what it
visited afterwards; what all hold adds up to at most `MaxEntries`, because a sharing hands out no more
than is left (`SharesAddUp`). `NotLost`: what a root offers, because its configuration declares it,
waits (in the queue or in a continuation), or is known, or the root has as many candidates left over
as it may; `Offer` carries this over their redistribution, and at the end it is `AllFound`. `Rounds`:
with two roots only one of them borrows in a round, and it visits something before it is cut short
again, so the rounds go on while it waits. With three roots this part is false, which is the finding
`discovery_rounds`: `ScanIsSilentlyComplete` is proved for `Count <= 2`, and `ScanFindsAll` says for
any number of roots what remains true.
`ScanAssumption` asks for a slot of each limit per root (`Count <= MaxEntries`, `Count <=
MaxCandidates`) and for trees that grow from their roots.

**Backend, the argument.** Two facts carry it. The shared refresh is the only one that is not idle
(`Alone`), so the check that is installed from the scan on is its own: a second refresh cannot
exist to clear or replace it. And a source's version never returns once it was left (`Versions`),
so a list that agrees with the scanned sources in the middle of a check says that they were in place
when the check began (`Sight`); without that, a source that changed and changed back would pass. A
write that disposal abandoned belongs to an idle refresh and finds the signal set. The phase
`checked`, a write without any check, is shown to be unreachable on the way.

**Snapshots, the argument.** What lies between host and panel is computed by recursive functions over
sequences, of any length here. They are handled step by step: `StepByStep` turns such a definition
into its recurrence, `Upwards` is induction over positions, and from them follows what filtering
keeps (`KeptHolds`). Sorting is by rank: the positions in a strict order of *n* elements have 0 to
*n* - 1 others ahead of them, each number once (`RanksAreAll`), so nothing is lost or doubled by it.

An inventory (`IsInventory`) has unique ids, is in order, is cut to the limit, and is partial just
when something was cut or could not be scanned. Scanning keeps that and adds listings; the room left
for targets shrinks by exactly what is listed (`RoomSteps`), so any listing fits the contract's limit
whatever the groups of earlier projects took. `StateFits` is then all that the contract, the parser
and `Valid` of `StudioBackend` ask for beyond (`BothTake`, `ValidBriefs`); and the answer of a failed
refresh has it unless the catalog is empty and whole, which is the finding `studio_empty`.

`AnswersAreMade` is the invariant that ties this to the interleavings: every inventory that a refresh
holds, and every answer, is made from some listing of the host and some admission. It needs
`CoveringAssumption`: the constants that stand for the host's and the controller's answers leave out
no case that `StudioBackend` lets happen. `SnapshotAssumption` says what those answers are: the host
lists a project once, its threads are finitely many with natural times, and the label made from an id
that is one is a label.

**Panel, the argument.** At most one request is of the current generation (`Requests`), and a reload
that is remembered is that request, asked for on the page shown or on the root (`Reloads`). Leaving
the page of a reload therefore stops the waiting together with the answer's effect, and whatever the
user overtook or left is of an earlier generation than any that will count (`Outdated`).

**Database, the argument.** A start that got past the reading of the ledger has seen an initial part
of the migrations there, and none ever leaves. Who is in a transaction holds the lock, so its staged
schema is its next migration on the schema of now. It commits only if that migration is not in the
ledger, and then the ledger is exactly what it saw: the migration it applies is the one that the
schema lacks. What is refused is untouched because what a start has attested on its way stays so
while anybody builds on it (`Attested`), and every write comes after the attestation of what it
would touch. Ids are kept because a start that met no other has settled the principal when it
begins to register: nobody is about to mint another or holds one in memory (`Lasting`), and a row
once registered keeps its id. Keys are kept because starts that met no other run in turn (`InTurn`): what
one holds for a slot was filed when it ended, or is nowhere yet (`Filed`), and the next one that has the
slot configured reads it back and files it again. A start beside no other opens what is sound because
nothing moves under it (`Sole`, `Seen`): the ledger is what it read, the schema is that of those migrations, so its next
one applies and verifies, and nobody else holds the lock. What it finds otherwise was there before
the first start, or is a file without a ledger (`Suspect`), which is the exception.

**Page, the argument.** A request that is live asks for what the page shows unless an effect is still
due, and an answer is about what its request asked for (`Viewed`). An answer to a request that was
overtaken is dropped, and the effects that follow one either leave the target alone or clear the page
first; with no effect due, the mode is one that the answer offers.

**Hand-over, the argument.** Candidates differ in their directories (a known path is not recorded
again), and the one that is taken is marked in the step that takes it. The timer that settles a
command that was cut off is set only when the group was killed and the child's end is known, and every
answer clears the timers, after which no handler sets one.

That what is handed over is what is there is not a matter of one invariant per call: the tree may
change between any two calls, and change back. `Placed` says where everything lies, `Once` that a
candidate is taken once, and `Owed` counts. Each look (the finding of a candidate, a revalidation, the
inspection of an identity) begins and ends with the identity of the directory; if it sees parts that
never stood there together, the name was moved away and back while it ran, which is two changes. A
mixture has to pass the finding, a revalidation, the inspection and a second revalidation, so it has
cost eight changes when it is handed over. The bound is sharp: in a scene of exactly eight changes TLC
finds a mixture handed over. `HandedOverIsWhatIsThere` therefore assumes fewer in each scene; the scenes
of the run have one or two.

While nothing changes, every look sees what was there at the start: what the scan has gone through is
among the candidates (`Found`), and of the callers somebody has the candidate that another was refused
(`Undisturbed`).

What the observer makes of bb's list is built row by row; the invariant (`Observing`) says of each
prefix that its rows and kept ids pass the runtime's schema, and (`Told`) that the verdict written with a
target is the one that the list gives.

Only model-checked: liveness (`Terminates`, `EveryCallerAnswered`, `DisposalEnds`, `PageSettles`,
`CommandAnswered`), which needs fairness and hence ENABLED; and `HistoryNeverBlocks` as it stands, for
its ENABLED, though both of its halves are proved. Every other property of a run is a theorem, under
the conditions named above: the clock of `IntegrityIsKept`, the two roots of
`ScanIsSilentlyComplete`, the changes of `HandedOverIsWhatIsThere`.

## 6. Disagreements found

Four runs end in a violation; each is a behaviour of the code that a document, a test or the code
itself says cannot happen (`findings` in `PROJECT.json` quotes them).

- **Clock back** (`catalog_clock_back`). `updatedAt` is stamped with `Date.now` and never compared
  with the row's previous one. After a retirement, reopening or reconciliation at time t, a refresh
  at a reading below t commits a row that the integrity check rejects from then on, with no way to
  repair it.
- **Rounds of the scan** (`discovery_rounds`). A borrowing round that visits no entry ends the
  redistribution although another root, which got a share of zero in that round, still waits; that
  root gets no diagnostic and passes for completely scanned.
- **Empty catalog** (`studio_empty`). A failed refresh answers with state `partial` even when no
  project is in the catalog; the schema of the answer refuses that, and the refresh rejects.

- **Command that is never answered** (`captured_hang`). When the child ends before its deadline and a
  descendant that left its group holds the pipes, no event and no timer settles the promise: the
  exit is not remembered, the close does not come, and after the kill the settlement is not
  scheduled because no exit code is known.

`target_catalog` takes a clock that does not step back (`MonotoneClock = TRUE`).

What was met while modelling and has no run of its own, because it contradicts nothing the
repository says, or lies outside of the models:

- A page without a project in a cut inventory says "No local projects found", although the inventory
  is known to be incomplete (compare `docs/architecture/runtime-convergence.md:265`); a project
  whose id is unfit is left out without the inventory being marked as cut. `NoProjectIsLost` is about
  projects with fit ids, and asks only a page that lists any to say whether there are more.
- The revalidation of sources (`plugin.ts:79`) compares the sources and not whether the inventory
  was cut.
- The workbench's server never retires a target, so a data root that has seen as many roots as there
  may be active targets fails every later start with a new one (`development-target-adapter.ts:76`).
- Sidecars without a database make a data root unusable for good: the first start puts an empty file
  beside them before it looks at them. `RefusalChangesNothing` names this exception.
- After matching ran out of work the entry budget may be exceeded by what was lent on top
  (`BudgetsHold` is stated without those scans).
- `deriveRuntimeDataRoot` is used by tests only.

## 7. What the models leave out

- *Transactions are one step.* SQLite's atomicity and rollback are trusted.
- *One principal and one bb context.* Every query of the catalog is bound to both.
- *Claims of a snapshot.* `RetiredOnlyWhenScanned` measures a retirement against what the caller of the
  snapshot says it has scanned. A snapshot that gives the whole list of current projects counts the
  registered scopes and those projects as scanned, since that is what such a call says; whether the caller
  has really scanned them is the subject of `ProjectTargetAdmission`.
- *Payload.* Contents, manifests, names and keys are model values; cursor text, wording and layout
  are left out. `rootKey` and the sealed private fields are part of the payload.
- *Scan.* The tree does not change during a scan except that directories may fail, which is what a
  change is turned into (the changing tree is in `SourceCandidates`, for single roots); the abort of
  a scan, after which nothing of it is used, is left out.
- *Admission.* Projects with the same root are one; the
  choice among several candidates of one package is left out; patterns are constant; projects and
  packages change between admissions (a change during one is the subject of `StudioBackend`).
  Registration of a root in doubt, and of a failed component's roots, is best effort: roots whose
  registration failed are the history variable `unregistered`, and both properties of the catalog
  exempt what lies below them.
- *Backend.* What an admission writes is abstracted to at most `MaxWrites` writes with any outcome,
  each in two phases (begun, committed), which allows more than registrations do. The status call
  changes nothing and is left out. The limit of projects of the adapter is `truncated`, which is
  also set by a project without a single local source.
- *Panel.* Effects run before the next event. A second mount is a new behaviour. The list of a
  project's threads comes from the host.
- *Workbench.* SQLite's promises (one writer, readers see what is committed, rollback after a crash)
  are assumed; a row's encoding is not modelled. Two pages, and a page over starts that overlap, are
  left out; so is going forward in the browser's history (going back, by any number of entries, is
  `PopState`). The user's choice of a surface, fixture, theme or viewport leaves target and mode as they
  are, so it is a change only where it forgets that a target was refused. That the integrity check of a
  catalog just opened fails is one of the ways in which the next step, reading the identity, may fail.
- *Sources.* One path a manifest declares (`bb.server`) stands for both; `bb.app` is validated by the same
  function. An observed inventory is compared with one target, although it may be used for others.
  The command that cannot be started answers 1 where Node has a negative number: only whether it is 0
  is looked at. Manifests are what the rules say of them (a bb plugin or not, which fields are refused).
  Windows is left out where the code differs.
- *Not modelled at all*: the inspection report with its artifacts, harness, capabilities and live
  native state (`inspect.ts`, `manifest.ts`, `native.ts`), the command line, the surface lab with its
  fixtures, catalog and view components, and the build, packaging, clean-room and compatibility
  scripts: they run from input to output and keep no state that could go wrong over time. The
  plugin's opening of its catalog on the host's database (`studio-catalog.ts`, `native-catalog.ts`)
  is one call to the host's migration and one verification. See `components` with status
  `not_modelled`.

## 8. Plan

Modelled, in this order: feed, catalog, scan, admission, backend, panel; then database, server and
page of the workbench, source hand-over with the bb command, patterns, and what the panel is shown.
What would add most from here:

1. The scan for any number of roots with the rounds of borrowing repaired: whether
   `SilenceIsComplete` then holds without its restriction to two.
2. Compositions: panel with backend (every request of a mounted panel gets an answer that fits the
   catalog), and admission over the snapshots of `TargetCatalog` (the contract that
   `ProjectTargetAdmission` assumes, as a refinement).
3. Two catalogs on one database, each with suspended reconciliations: `TargetCatalog` has one.
4. The inspection report's rules as pure operators against a reference, if its result is ever acted
   on by more than a page.

## 9. Working with the project

    tlasany M.tla                                  parse a module
    tlc -workers 2 -config X.cfg MCModule          run one configuration
    tlapm ProjectTargetAdmission_proofs.tla        check the proofs of a module

Configurations give values to constants only. No module declares a RECURSIVE operator, so any of
them can be proved about. `DiscoveryScan`, `WorkspacePatterns` and
`StudioSnapshot` compute with recursive functions.
