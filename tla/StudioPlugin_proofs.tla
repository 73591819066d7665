------------------------- MODULE StudioPlugin_proofs -------------------------
(***************************************************************************)
(* Proofs about the two sides of the plugin: its backend, for any projects *)
(* and callers and any number of refreshes, changes of the host and        *)
(* writes; what it makes of any answers of the host and the controller,    *)
(* for any limits; and its panel, for any pages and catalogs and any       *)
(* number of requests.                                                     *)
(*                                                                         *)
(* The backend: the shared refresh is the only one that is not idle, so    *)
(* the mutation check that is installed is its own.  A source's version    *)
(* never returns once it was left, so a list read during a check that      *)
(* agrees with the scanned sources says that they were in place when the   *)
(* check began.                                                            *)
(*                                                                         *)
(* The snapshots: each helper that goes through a list is shown to keep    *)
(* what it should, step by step (Kept, GroupsOf, the room that Batch       *)
(* leaves, Listing), and a sort to be one (RanksAreAll, SortedByRank).     *)
(* From these follow what an inventory, a scanned catalog and the answer   *)
(* of a failure are, which is all that contract, parser and pages ask.     *)
(*                                                                         *)
(* The panel: no two requests are of the current generation, and the       *)
(* one that is, if any, is what the page waits for; a reload of the        *)
(* current generation was asked for on the page shown, or on the root.     *)
(***************************************************************************)
EXTENDS StudioSnapshot, WorkbenchPanel, FiniteSetTheorems, FunctionTheorems, SequenceTheorems, TLAPS

(* What a read of the host may tell: the versions of some projects.        *)
Readings == UNION {[S -> Nat \ {0}] : S \in SUBSET Projects}

(* From the scan on the refresh's own mutation check is installed.         *)
Checking == {"scan", "checkList", "checkGet", "checked", "write"}

(* One refresh at a time is awaited; what disposal left behind is idle.    *)
Alone ==
  /\ \A r \in Refreshes : phase[r] # "idle" => current = r
  /\ \A r \in Refreshes : phase[r] \in Checking => check = r
  /\ \A r \in Refreshes : phase[r] = "idle" => before[r] = NoProjects
  /\ \A r \in begun : phase[r] = "write" \/ (aborted /\ phase[r] = "idle")
  /\ \A r \in Refreshes : phase[r] # "checked"

(* Versions are drawn from a counter that is never behind.                 *)
Versions ==
  /\ before \in [Refreshes -> Readings]
  /\ expected \in [Refreshes -> Readings]
  /\ asked \in [Refreshes -> Readings]
  /\ \A p \in Projects : sources[p] <= changes
  /\ \A r \in Refreshes : \A p \in DOMAIN before[r] : before[r][p] <= changes

(* What each phase knows of the sources that were scanned.                 *)
Sight ==
  /\ \A r \in Refreshes :
       phase[r] \in {"list", "get", "checkList", "checkGet"} => expected[r] = before[r]
  /\ \A r \in Refreshes :
       phase[r] \in {"list", "get", "scan", "checkGet", "write"} =>
         \A p \in DOMAIN before[r] : InPlace(r, p)
  /\ \A r \in Refreshes :
       phase[r] = "checkList" =>
         \A p \in DOMAIN before[r] : sources[p] = before[r][p] => InPlace(r, p)

(* A write is counted before it commits.                                   *)
Counted ==
  /\ \A r \in Refreshes : phase[r] \in {"checkList", "checkGet"} => writes[r] < MaxWrites
  /\ \A r \in Refreshes : committed[r] <= writes[r]
  /\ \A r \in begun : ~aborted => committed[r] < writes[r]

(* Disposal ends when nothing is awaited.                                  *)
Over == disposed => aborted /\ current = 0 /\ catalog # "open"

IInv == TypeOK /\ Alone /\ Versions /\ Sight /\ Counted /\ Over

-----------------------------------------------------------------------------

(* Refreshes are numbered from 1.                                          *)
LEMMA RefreshNumbers ==
  /\ Refreshes \subseteq 1..MaxRefreshes /\ Refreshes \subseteq 0..MaxRefreshes
  /\ 0 \notin Refreshes /\ MaxRefreshes \in Nat /\ MaxWrites \in Nat /\ MaxChanges \in Nat
BY StudioAssumption DEF StudioAssumption, Refreshes

(* An inventory without projects is one that may be known.                 *)
LEMMA NothingKnown == NoProjects \in Readings /\ DOMAIN NoProjects = {}
<1>1. NoProjects \in [{} -> Nat \ {0}]
  BY DEF NoProjects
<1> QED
  BY <1>1 DEF Readings, NoProjects

(* What is known is known of projects.                                     *)
LEMMA KnownDomain ==
  ASSUME NEW k \in Readings
  PROVE  DOMAIN k \subseteq Projects /\ \A p \in DOMAIN k : k[p] \in Nat \ {0}
BY DEF Readings

(* A list of the host gives the version of each project that has a source. *)
LEMMA ListedKnown ==
  ASSUME sources \in [Projects -> Nat]
  PROVE  /\ Listed \in Readings
         /\ DOMAIN Listed = {q \in Projects : sources[q] # 0}
         /\ \A p \in DOMAIN Listed : Listed[p] = sources[p]
<1> DEFINE S == {q \in Projects : sources[q] # 0}
<1>1. Listed \in [S -> Nat \ {0}]
  BY DEF Listed
<1> QED
  BY <1>1 DEF Readings, Listed

(* The answer of a failure shows no project but with the reason of it.     *)
LEMMA FailureShows ==
  ASSUME NEW r \in Refreshes, NEW reason
  PROVE  \A p \in DOMAIN Failure(r, reason).scans : Failure(r, reason).scans[p] = reason
<1> DEFINE good == IF lastGood # None THEN lastGood ELSE Inventory(r)
           failed == [state |-> "partial", truncated |-> good.truncated,
                      scans |-> [p \in DOMAIN good.scans |-> reason]]
<1>1. Failure(r, reason) \in {Rejected, failed}
  BY DEF Failure
<1>2. Rejected.scans = NoProjects
  BY DEF Rejected, Unavailable
<1>3. failed.scans = [p \in DOMAIN good.scans |-> reason]
  OBVIOUS
<1>4. DOMAIN Rejected.scans = {}
  BY <1>2, NothingKnown
<1>5. \A p \in DOMAIN failed.scans : failed.scans[p] = reason
  BY <1>3
<1> QED
  BY <1>1, <1>4, <1>5

-----------------------------------------------------------------------------

(* An inventory without projects holds nothing yet and shows nothing.      *)
LEMMA InitInvariant == Init => IInv
<1> SUFFICES ASSUME Init PROVE IInv
  OBVIOUS
<1> USE DEF Init
<1>1. None.scans = NoProjects
  BY DEF None, Unavailable
<1>2. TypeOK
  <2>1. \A c \in {answer, lastGood} : \A p \in DOMAIN c.scans : c.scans[p] \in ScanStates
    BY <1>1, NothingKnown
  <2>2. \A r \in Refreshes :
          DOMAIN before[r] \subseteq Projects /\ DOMAIN asked[r] \subseteq Projects
    BY NothingKnown
  <2>3. sources \in [Projects -> Nat] /\ changes \in 1..(MaxChanges + 1)
    BY RefreshNumbers
  <2>4. /\ writes \in [Refreshes -> 0..MaxWrites] /\ committed \in [Refreshes -> 0..MaxWrites]
        /\ current \in 0..MaxRefreshes /\ check \in 0..MaxRefreshes
        /\ waiting \in [Callers -> 0..MaxRefreshes]
    BY RefreshNumbers
  <2>5. phase \in [Refreshes -> Phases] /\ left \in [Refreshes -> SUBSET Projects]
    BY DEF Phases
  <2> QED
    BY <2>1, <2>2, <2>3, <2>4, <2>5 DEF TypeOK
<1>3. Alone
  BY DEF Alone, Checking
<1>4. Versions
  <2>1. \A p \in Projects : sources[p] <= changes
    OBVIOUS
  <2> QED
    BY <2>1, NothingKnown DEF Versions
<1>5. Sight
  BY NothingKnown DEF Sight
<1>6. Counted
  BY DEF Counted
<1>7. Over
  BY DEF Over
<1> QED
  BY <1>2, <1>3, <1>4, <1>5, <1>6, <1>7 DEF IInv

(* A change of the host draws a new version, which is no scanned one.      *)
LEMMA HostChangesInvariant == IInv /\ HostChanges => IInv'
<1> SUFFICES ASSUME IInv, HostChanges PROVE IInv'
  OBVIOUS
<1>1. TypeOK /\ Alone /\ Versions /\ Sight /\ Counted /\ Over
  BY DEF IInv
<1>2. /\ changes < MaxChanges /\ changes' = changes + 1
      /\ UNCHANGED <<aborted, disposed, catalog, current, check, lastGood, answer, waiting,
                     phase, before, truncated, expected, left, asked, writes, committed, begun>>
  BY DEF HostChanges, lifecycle, shown, scanned, compared, written
<1>3. /\ sources' \in [Projects -> Nat] /\ hidden' \in BOOLEAN /\ up' \in BOOLEAN
      /\ \A p \in Projects : sources'[p] \in {sources[p], 0, changes + 1}
  <2>1. sources \in [Projects -> Nat] /\ hidden \in BOOLEAN /\ up \in BOOLEAN /\ changes \in Nat
    BY <1>1, RefreshNumbers DEF TypeOK
  <2>2. hidden' \in BOOLEAN /\ up' \in BOOLEAN
    BY <2>1, Zenon DEF HostChanges
  <2>3. \/ UNCHANGED sources
        \/ \E p \in Projects, v \in {0, changes + 1} : sources' = [sources EXCEPT ![p] = v]
    BY Zenon DEF HostChanges
  <2>4. CASE UNCHANGED sources
    BY <2>1, <2>2, <2>4
  <2>5. CASE \E p \in Projects, v \in {0, changes + 1} : sources' = [sources EXCEPT ![p] = v]
    BY <2>1, <2>2, <2>5
  <2> QED
    BY <2>3, <2>4, <2>5
<1>4. changes \in Nat /\ changes' \in 1..(MaxChanges + 1)
  BY <1>1, <1>2, RefreshNumbers DEF TypeOK
<1>5. TypeOK'
  BY <1>1, <1>2, <1>3, <1>4 DEF TypeOK
<1>6. Alone'
  BY <1>1, <1>2 DEF Alone
<1>7. \A r \in Refreshes : \A p \in DOMAIN before[r] :
        /\ p \in Projects /\ before[r][p] \in Nat \ {0} /\ before[r][p] <= changes
  BY <1>1, KnownDomain DEF Versions
<1>8. Versions'
  <2>1. \A p \in Projects : sources'[p] <= changes'
    BY <1>1, <1>2, <1>3, <1>4 DEF Versions, TypeOK
  <2>2. \A r \in Refreshes : \A p \in DOMAIN before'[r] : before'[r][p] <= changes'
    BY <1>2, <1>4, <1>7
  <2> QED
    BY <1>1, <1>2, <2>1, <2>2 DEF Versions
<1>9. Sight'
  <2>1. \A r \in Refreshes, p \in Projects : InPlace(r, p)' <=> InPlace(r, p)
    BY <1>2 DEF InPlace
  <2>2. \A r \in Refreshes : \A p \in DOMAIN before[r] :
          sources'[p] = before[r][p] => sources[p] = before[r][p]
    BY <1>3, <1>4, <1>7
  <2> QED
    BY <1>1, <1>2, <1>7, <2>1, <2>2 DEF Sight
<1>10. Counted' /\ Over'
  BY <1>1, <1>2 DEF Counted, Over
<1> QED
  BY <1>5, <1>6, <1>8, <1>9, <1>10 DEF IInv

(* A caller joins the refresh that runs, or begins one when none does.     *)
LEMMA AskInvariant ==
  ASSUME IInv, NEW c \in Callers, Ask(c)
  PROVE  IInv'
<1>1. TypeOK /\ Alone /\ Versions /\ Sight /\ Counted /\ Over
  BY DEF IInv
<1>2. UNCHANGED <<sources, hidden, up, changes, aborted, disposed, catalog, check, lastGood,
                  before, truncated, expected, left, asked, writes, committed, begun>>
  BY DEF Ask, host, lifecycle, scanned, compared, written
<1>3. CASE current # 0 /\ waiting' = [waiting EXCEPT ![c] = current]
           /\ UNCHANGED <<current, phase, answer>>
  <2>1. TypeOK'
    BY <1>1, <1>2, <1>3 DEF TypeOK
  <2>2. Alone' /\ Versions' /\ Counted' /\ Over'
    BY <1>1, <1>2, <1>3 DEF Alone, Versions, Counted, Over
  <2>3. Sight'
    BY <1>1, <1>2, <1>3 DEF Sight, InPlace
  <2> QED
    BY <2>1, <2>2, <2>3 DEF IInv
<1>4. CASE current = 0 /\ \E r \in Free : Begin(c, r)
  <2>1. PICK r \in Free : Begin(c, r)
    BY <1>4
  <2>2. /\ ~aborted /\ current' = r /\ phase' = [phase EXCEPT ![r] = "inventory"]
        /\ waiting' = [waiting EXCEPT ![c] = r] /\ answer' = None
        /\ r \in Refreshes /\ phase[r] = "idle"
    BY <2>1 DEF Begin, Free
  <2>3. \A s \in Refreshes : phase[s] = "idle"
    BY <1>1, <1>4, RefreshNumbers DEF Alone
  <2>4. \A s \in Refreshes : phase'[s] = IF s = r THEN "inventory" ELSE "idle"
    BY <1>1, <2>2, <2>3 DEF TypeOK
  <2>5. TypeOK'
    <3>1. \A p \in DOMAIN answer'.scans : answer'.scans[p] \in ScanStates
      BY <2>2, NothingKnown DEF None, Unavailable
    <3>2. phase' \in [Refreshes -> Phases] /\ current' \in 0..MaxRefreshes
          /\ waiting' \in [Callers -> 0..MaxRefreshes]
      BY <1>1, <2>2, RefreshNumbers DEF TypeOK, Phases
    <3> QED
      BY <1>1, <1>2, <3>1, <3>2 DEF TypeOK
  <2>6. begun = {}
    BY <1>1, <2>2, <2>3 DEF Alone, TypeOK
  <2>7. Alone'
    BY <1>1, <1>2, <2>2, <2>4, <2>6 DEF Alone, Checking
  <2>8. Versions' /\ Counted'
    BY <1>1, <1>2, <2>4, <2>6 DEF Versions, Counted
  <2>9. Sight'
    BY <2>4 DEF Sight
  <2>10. Over'
    BY <1>1, <1>2, <2>2 DEF Over
  <2> QED
    BY <2>5, <2>7, <2>8, <2>9, <2>10 DEF IInv
<1> QED
  BY <1>3, <1>4 DEF Ask

-----------------------------------------------------------------------------

(* A refresh that settles leaves nothing of itself behind but its answer,  *)
(* and perhaps a write that disposal abandoned.                            *)
LEMMA SettleInvariant ==
  ASSUME IInv, NEW r \in Refreshes, phase[r] # "idle", r \in begun => aborted,
         NEW a, Settle(r, a), \A p \in DOMAIN a.scans : a.scans[p] \in ScanStates,
         \A p \in DOMAIN lastGood'.scans : lastGood'.scans[p] \in ScanStates,
         check' \in {0, check}, UNCHANGED <<host, lifecycle, catalog, begun>>
  PROVE  IInv'
<1>1. TypeOK /\ Alone /\ Versions /\ Sight /\ Counted /\ Over
  BY DEF IInv
<1>2. UNCHANGED <<sources, hidden, up, changes, aborted, disposed, catalog, begun>>
  BY DEF host, lifecycle
<1>3. current = r /\ current' = 0 /\ \A s \in Refreshes : s # r => phase[s] = "idle"
  BY <1>1 DEF Alone, Settle
<1>4. \A s \in Refreshes : phase'[s] = "idle" /\ before'[s] = NoProjects
  BY <1>1, <1>3 DEF Alone, Settle, TypeOK, Versions
<1>5. /\ before' \in [Refreshes -> Readings] /\ expected' \in [Refreshes -> Readings]
      /\ asked' \in [Refreshes -> Readings]
  BY <1>1, NothingKnown DEF Settle, Versions
<1>6. TypeOK'
  <2>1. waiting' \in [Callers -> 0..MaxRefreshes]
    BY <1>1, RefreshNumbers DEF TypeOK, Settle, Answers
  <2>2. /\ phase' \in [Refreshes -> Phases] /\ left' \in [Refreshes -> SUBSET Projects]
        /\ writes' \in [Refreshes -> 0..MaxWrites] /\ committed' \in [Refreshes -> 0..MaxWrites]
        /\ current' \in 0..MaxRefreshes /\ check' \in 0..MaxRefreshes
    BY <1>1, <1>3, RefreshNumbers DEF TypeOK, Settle, Phases
  <2>3. \A s \in Refreshes :
          DOMAIN before'[s] \subseteq Projects /\ DOMAIN asked'[s] \subseteq Projects
    BY <1>5, KnownDomain
  <2>4. \A c \in {answer', lastGood'} : \A p \in DOMAIN c.scans : c.scans[p] \in ScanStates
    BY DEF Settle
  <2> QED
    BY <1>1, <1>2, <2>1, <2>2, <2>3, <2>4 DEF TypeOK
<1>7. Alone'
  BY <1>1, <1>2, <1>3, <1>4 DEF Alone, Checking, TypeOK
<1>8. Versions'
  BY <1>1, <1>2, <1>4, <1>5, NothingKnown DEF Versions
<1>9. Sight'
  BY <1>4 DEF Sight
<1>10. Counted'
  <2>1. \A s \in Refreshes : committed'[s] <= writes'[s]
    BY <1>1, RefreshNumbers DEF Settle, Counted, TypeOK
  <2>2. \A s \in begun : ~aborted => committed'[s] < writes'[s]
    BY <1>1, <1>3 DEF Alone, TypeOK
  <2> QED
    BY <1>2, <1>4, <2>1, <2>2 DEF Counted
<1>11. Over'
  BY <1>1, <1>2, <1>3 DEF Over
<1> QED
  BY <1>6, <1>7, <1>8, <1>9, <1>10, <1>11 DEF IInv

(* A refresh fails only in a phase without a write of its own, or aborted. *)
LEMMA FailInvariant ==
  ASSUME IInv, NEW r \in Refreshes, phase[r] # "idle", phase[r] = "write" => aborted,
         NEW reason \in {"source_changed", "scan_failed"}, Fail(r, reason), UNCHANGED catalog
  PROVE  IInv'
<1>1. \A p \in DOMAIN Failure(r, reason).scans : Failure(r, reason).scans[p] \in ScanStates
  BY FailureShows DEF ScanStates
<1>2. r \in begun => aborted
  BY DEF IInv, Alone
<1>3. \A p \in DOMAIN lastGood'.scans : lastGood'.scans[p] \in ScanStates
  BY DEF IInv, TypeOK, Fail
<1>4. /\ Settle(r, Failure(r, reason)) /\ check' \in {0, check}
      /\ UNCHANGED <<host, lifecycle, catalog, begun>>
  BY DEF Fail
<1> QED
  BY <1>1, <1>2, <1>3, <1>4, SettleInvariant

(* The inventory is what the host lists now.                               *)
LEMMA ReadInventoryInvariant ==
  ASSUME IInv, NEW r \in Refreshes, ReadInventory(r)
  PROVE  IInv'
<1>1. TypeOK /\ Alone /\ Versions /\ Sight /\ Counted /\ Over
  BY DEF IInv
<1>2. phase[r] = "inventory" /\ r \notin begun
  BY <1>1 DEF ReadInventory, Alone
<1>3. UNCHANGED <<sources, hidden, up, changes, aborted, disposed, catalog, check, lastGood,
                  begun>>
  BY DEF ReadInventory, host, lifecycle
<1>4. ASSUME NEW a, a = IF lastGood # None THEN lastGood ELSE Unavailable, Settle(r, a)
      PROVE  IInv'
  <2>1. \A p \in DOMAIN Unavailable.scans : FALSE
    BY NothingKnown DEF Unavailable
  <2>2. \A p \in DOMAIN a.scans : a.scans[p] \in ScanStates
    BY <1>1, <1>4, <2>1 DEF TypeOK
  <2>3. \A p \in DOMAIN lastGood'.scans : lastGood'.scans[p] \in ScanStates
    BY <1>1, <1>3 DEF TypeOK
  <2>4. UNCHANGED <<host, lifecycle, catalog, begun>>
    BY DEF ReadInventory
  <2> QED
    BY <1>2, <1>3, <1>4, <2>2, <2>3, <2>4, SettleInvariant
<1>5. ASSUME before' = [before EXCEPT ![r] = Listed],
             truncated' = [truncated EXCEPT ![r] = hidden],
             expected' = [expected EXCEPT ![r] = Listed],
             asked' = [asked EXCEPT ![r] = Listed],
             phase' = [phase EXCEPT ![r] = "list"],
             UNCHANGED <<current, waiting, left, writes, committed, answer>>
      PROVE  IInv'
  <2>1. /\ Listed \in Readings /\ DOMAIN Listed \subseteq Projects
        /\ \A p \in DOMAIN Listed : Listed[p] = sources[p]
    BY <1>1, ListedKnown DEF TypeOK
  <2>2. /\ \A s \in Refreshes \ {r} :
             /\ phase'[s] = phase[s] /\ before'[s] = before[s] /\ expected'[s] = expected[s]
             /\ asked'[s] = asked[s]
        /\ phase'[r] = "list" /\ before'[r] = Listed /\ expected'[r] = Listed
        /\ asked'[r] = Listed
    BY <1>1, <1>5 DEF TypeOK, Versions
  <2>3. /\ before' \in [Refreshes -> Readings] /\ expected' \in [Refreshes -> Readings]
        /\ asked' \in [Refreshes -> Readings]
    BY <1>1, <1>5, <2>1 DEF Versions
  <2>4. TypeOK'
    <3>1. phase' \in [Refreshes -> Phases]
      BY <1>1, <1>5 DEF TypeOK, Phases
    <3>2. \A s \in Refreshes :
            DOMAIN before'[s] \subseteq Projects /\ DOMAIN asked'[s] \subseteq Projects
      BY <2>3, KnownDomain
    <3> QED
      BY <1>1, <1>3, <1>5, <3>1, <3>2 DEF TypeOK
  <2>5. Alone'
    BY <1>1, <1>2, <1>3, <1>5, <2>2 DEF Alone, Checking, TypeOK
  <2>6. Versions'
    <3>1. \A p \in DOMAIN Listed : Listed[p] <= changes
      BY <1>1, <2>1 DEF Versions
    <3> QED
      BY <1>1, <1>3, <2>2, <2>3, <3>1 DEF Versions
  <2>7. Sight'
    BY <1>1, <1>3, <2>2 DEF Sight, InPlace
  <2>8. Counted' /\ Over'
    BY <1>1, <1>3, <1>5, <2>2 DEF Counted, Over
  <2> QED
    BY <2>4, <2>5, <2>6, <2>7, <2>8 DEF IInv
<1> QED
  BY <1>4, <1>5 DEF ReadInventory

-----------------------------------------------------------------------------

(* A list that agrees with the scanned sources in the middle of a check    *)
(* says that they were in place when the check began.                      *)
LEMMA RelistInvariant ==
  ASSUME IInv, NEW r \in Refreshes, Relist(r)
  PROVE  IInv'
<1>1. TypeOK /\ Alone /\ Versions /\ Sight /\ Counted /\ Over
  BY DEF IInv
<1>2. phase[r] \in {"list", "checkList"} /\ UNCHANGED catalog
  BY DEF Relist, Reads
<1>3. CASE Fail(r, "source_changed")
  BY <1>2, <1>3, FailInvariant
<1>4. CASE /\ SameList(r)
           /\ left' = [left EXCEPT ![r] = DOMAIN expected[r]]
           /\ phase' = [phase EXCEPT ![r] = Reads[phase[r]]]
           /\ UNCHANGED <<host, lifecycle, current, check, shown, waiting, scanned,
                          expected, asked, written>>
  <2>1. UNCHANGED <<sources, hidden, up, changes, aborted, disposed, catalog, current, check,
                    lastGood, answer, waiting, before, truncated, expected, asked, writes,
                    committed, begun>>
    BY <1>2, <1>4 DEF host, lifecycle, shown, scanned, written
  <2>2. Reads[phase[r]] = IF phase[r] = "list" THEN "get" ELSE "checkGet"
    BY <1>2 DEF Reads
  <2>3. /\ phase'[r] = IF phase[r] = "list" THEN "get" ELSE "checkGet"
        /\ \A s \in Refreshes \ {r} : phase'[s] = phase[s]
        /\ phase' \in [Refreshes -> Phases]
    BY <1>1, <1>4, <2>2 DEF TypeOK, Phases
  <2>4. left' \in [Refreshes -> SUBSET Projects]
    BY <1>1, <1>4, KnownDomain DEF TypeOK, Versions
  <2>5. TypeOK'
    BY <1>1, <2>1, <2>3, <2>4 DEF TypeOK
  <2>6. Alone'
    BY <1>1, <1>2, <2>1, <2>3 DEF Alone, Checking, TypeOK
  <2>7. Versions' /\ Over'
    BY <1>1, <2>1 DEF Versions, Over
  <2>8. Counted'
    BY <1>1, <1>2, <2>1, <2>3 DEF Counted
  <2>9. before[r] = expected[r] /\ expected[r] = Listed
    BY <1>1, <1>2, <1>4 DEF Sight, SameList
  <2>10. \A p \in DOMAIN before[r] : sources[p] = before[r][p]
    BY <1>1, <2>9, ListedKnown DEF TypeOK
  <2>11. \A p \in DOMAIN before[r] : InPlace(r, p)
    BY <1>1, <1>2, <2>10 DEF Sight
  <2>12. Sight'
    BY <1>1, <1>2, <2>1, <2>3, <2>9, <2>11 DEF Sight, InPlace
  <2> QED
    BY <2>5, <2>6, <2>7, <2>8, <2>12 DEF IInv
<1> QED
  BY <1>3, <1>4 DEF Relist

(* A source that resolves unchanged is one project less to look at.        *)
LEMMA ResolveInvariant ==
  ASSUME IInv, NEW r \in Refreshes, Resolve(r)
  PROVE  IInv'
<1>1. TypeOK /\ Alone /\ Versions /\ Sight /\ Counted /\ Over
  BY DEF IInv
<1>2. phase[r] \in {"get", "checkGet"} /\ UNCHANGED catalog
  BY DEF Resolve
<1>3. CASE Fail(r, "source_changed")
  BY <1>2, <1>3, FailInvariant
<1>4. ASSUME NEW p \in left[r], left' = [left EXCEPT ![r] = @ \ {p}],
             UNCHANGED <<host, lifecycle, current, check, shown, waiting, phase, scanned,
                         expected, asked, written>>
      PROVE  IInv'
  <2>1. UNCHANGED <<sources, hidden, up, changes, aborted, disposed, catalog, current, check,
                    lastGood, answer, waiting, phase, before, truncated, expected, asked,
                    writes, committed, begun>>
    BY <1>2, <1>4 DEF host, lifecycle, shown, scanned, written
  <2>2. left' \in [Refreshes -> SUBSET Projects]
    BY <1>1, <1>4 DEF TypeOK
  <2>3. TypeOK'
    BY <1>1, <2>1, <2>2 DEF TypeOK
  <2>4. Alone' /\ Versions' /\ Counted' /\ Over'
    BY <1>1, <2>1 DEF Alone, Versions, Counted, Over
  <2>5. Sight'
    BY <1>1, <2>1 DEF Sight, InPlace
  <2> QED
    BY <2>3, <2>4, <2>5 DEF IInv
<1> QED
  BY <1>3, <1>4 DEF Resolve

(* The scan begins behind the check of the refresh that scans.             *)
LEMMA BeginScanInvariant ==
  ASSUME IInv, NEW r \in Refreshes, BeginScan(r)
  PROVE  IInv'
<1>1. TypeOK /\ Alone /\ Versions /\ Sight /\ Counted /\ Over
  BY DEF IInv
<1>2. phase[r] = "get"
  BY DEF BeginScan
<1>3. CASE Fail(r, "scan_failed") /\ UNCHANGED catalog
  BY <1>2, <1>3, FailInvariant
<1>4. CASE /\ ~aborted /\ check' = r /\ catalog' = "open"
           /\ phase' = [phase EXCEPT ![r] = "scan"]
           /\ UNCHANGED <<host, lifecycle, current, shown, waiting, scanned, compared, written>>
  <2>1. UNCHANGED <<sources, hidden, up, changes, aborted, disposed, current, lastGood, answer,
                    waiting, before, truncated, expected, left, asked, writes, committed, begun>>
    BY <1>4 DEF host, lifecycle, shown, scanned, compared, written
  <2>2. /\ phase'[r] = "scan" /\ \A s \in Refreshes \ {r} : phase'[s] = phase[s]
        /\ phase' \in [Refreshes -> Phases]
    BY <1>1, <1>4 DEF TypeOK, Phases
  <2>3. TypeOK'
    BY <1>1, <1>4, <2>1, <2>2, RefreshNumbers DEF TypeOK
  <2>4. \A s \in Refreshes \ {r} : phase[s] = "idle"
    BY <1>1, <1>2 DEF Alone
  <2>5. Alone'
    BY <1>1, <1>2, <1>4, <2>1, <2>2, <2>4 DEF Alone, Checking, TypeOK
  <2>6. Versions' /\ Over'
    BY <1>1, <1>4, <2>1 DEF Versions, Over
  <2>7. Counted'
    BY <1>1, <2>1, <2>2 DEF Counted
  <2>8. Sight'
    BY <1>1, <1>2, <2>1, <2>2 DEF Sight, InPlace
  <2> QED
    BY <2>3, <2>5, <2>6, <2>7, <2>8 DEF IInv
<1> QED
  BY <1>3, <1>4 DEF BeginScan

(* An admission that fails, or is abandoned at one of its awaits.          *)
LEMMA ScanFailsInvariant ==
  ASSUME IInv, NEW r \in Refreshes, ScanFails(r)
  PROVE  IInv'
BY FailInvariant DEF ScanFails

(* A check begins: it will compare with what its own refresh scanned.      *)
LEMMA BeginCheckInvariant ==
  ASSUME IInv, NEW r \in Refreshes, BeginCheck(r)
  PROVE  IInv'
<1>1. TypeOK /\ Alone /\ Versions /\ Sight /\ Counted /\ Over
  BY DEF IInv
<1>2. /\ phase[r] = "scan" /\ ~aborted /\ writes[r] < MaxWrites
      /\ asked' = [asked EXCEPT ![r] = Listed]
      /\ UNCHANGED <<sources, hidden, up, changes, aborted, disposed, catalog, current, check,
                     lastGood, answer, waiting, before, truncated, left, writes, committed,
                     begun>>
  BY DEF BeginCheck, host, lifecycle, shown, scanned, written
<1>3. check = r /\ check # 0
  BY <1>1, <1>2, RefreshNumbers DEF Alone, Checking
<1>4. /\ expected' = [expected EXCEPT ![r] = before[r]]
      /\ phase' = [phase EXCEPT ![r] = "checkList"]
  BY <1>3 DEF BeginCheck
<1>5. /\ Listed \in Readings /\ DOMAIN Listed = {q \in Projects : sources[q] # 0}
      /\ \A p \in DOMAIN Listed : Listed[p] = sources[p]
  BY <1>1, ListedKnown DEF TypeOK
<1>6. /\ phase'[r] = "checkList" /\ expected'[r] = before[r] /\ asked'[r] = Listed
      /\ \A s \in Refreshes \ {r} :
           phase'[s] = phase[s] /\ expected'[s] = expected[s] /\ asked'[s] = asked[s]
      /\ phase' \in [Refreshes -> Phases]
      /\ expected' \in [Refreshes -> Readings] /\ asked' \in [Refreshes -> Readings]
  BY <1>1, <1>2, <1>4, <1>5 DEF TypeOK, Versions, Phases
<1>7. TypeOK'
  <2>1. \A s \in Refreshes :
          DOMAIN before'[s] \subseteq Projects /\ DOMAIN asked'[s] \subseteq Projects
    BY <1>1, <1>2, <1>6, KnownDomain DEF Versions
  <2> QED
    BY <1>1, <1>2, <1>6, <2>1 DEF TypeOK
<1>8. Alone'
  BY <1>1, <1>2, <1>3, <1>6 DEF Alone, Checking, TypeOK
<1>9. Versions' /\ Over'
  BY <1>1, <1>2, <1>6 DEF Versions, Over
<1>10. Counted'
  BY <1>1, <1>2, <1>6 DEF Counted
<1>11. \A p \in DOMAIN before[r] :
         sources[p] = before[r][p] => p \in DOMAIN Listed /\ Listed[p] = before[r][p]
  BY <1>1, <1>5, KnownDomain DEF Versions
<1>12. Sight'
  <2>1. \A s \in Refreshes \ {r} : \A p : InPlace(s, p)' <=> InPlace(s, p)
    BY <1>2, <1>6 DEF InPlace
  <2>2. \A p \in DOMAIN before[r] : sources[p] = before[r][p] => InPlace(r, p)'
    BY <1>2, <1>6, <1>11 DEF InPlace
  <2> QED
    BY <1>1, <1>2, <1>6, <2>1, <2>2 DEF Sight
<1> QED
  BY <1>7, <1>8, <1>9, <1>10, <1>12 DEF IInv

(* A write begins when the check has passed, and only then.                *)
LEMMA BeginWriteInvariant ==
  ASSUME IInv, NEW r \in Refreshes, BeginWrite(r)
  PROVE  IInv'
<1>1. TypeOK /\ Alone /\ Versions /\ Sight /\ Counted /\ Over
  BY DEF IInv
<1>2. phase[r] = "checkGet" /\ ~aborted
  BY <1>1 DEF BeginWrite, Alone
<1>3. /\ phase' = [phase EXCEPT ![r] = "write"] /\ begun' = begun \cup {r}
      /\ writes' = [writes EXCEPT ![r] = @ + 1]
      /\ UNCHANGED <<sources, hidden, up, changes, aborted, disposed, catalog, current, check,
                     lastGood, answer, waiting, before, truncated, expected, left, asked,
                     committed>>
  BY DEF BeginWrite, host, lifecycle, shown, scanned, compared
<1>4. /\ phase'[r] = "write" /\ \A s \in Refreshes \ {r} : phase'[s] = phase[s]
      /\ phase' \in [Refreshes -> Phases]
  BY <1>1, <1>3 DEF TypeOK, Phases
<1>5. /\ writes \in [Refreshes -> 0..MaxWrites] /\ committed \in [Refreshes -> 0..MaxWrites]
      /\ writes[r] < MaxWrites /\ committed[r] <= writes[r]
  BY <1>1, <1>2 DEF TypeOK, Counted
<1>6. /\ writes' \in [Refreshes -> 0..MaxWrites] /\ writes'[r] = writes[r] + 1
      /\ \A s \in Refreshes \ {r} : writes'[s] = writes[s]
  BY <1>3, <1>5, RefreshNumbers
<1>7. TypeOK'
  BY <1>1, <1>3, <1>4, <1>6 DEF TypeOK
<1>8. Alone'
  BY <1>1, <1>2, <1>3, <1>4 DEF Alone, Checking, TypeOK
<1>9. Versions' /\ Over'
  BY <1>1, <1>3 DEF Versions, Over
<1>10. Sight'
  BY <1>1, <1>2, <1>3, <1>4 DEF Sight, InPlace
<1>11. Counted'
  <2>1. committed[r] < writes'[r] /\ committed[r] <= writes'[r]
    BY <1>5, <1>6, RefreshNumbers
  <2> QED
    BY <1>1, <1>3, <1>4, <1>6, <2>1 DEF Counted, TypeOK
<1> QED
  BY <1>7, <1>8, <1>9, <1>10, <1>11 DEF IInv

(* A write ends: committed only while nothing was aborted.                 *)
LEMMA EndWriteInvariant ==
  ASSUME IInv, NEW r \in Refreshes, EndWrite(r)
  PROVE  IInv'
<1>1. TypeOK /\ Alone /\ Versions /\ Sight /\ Counted /\ Over
  BY DEF IInv
<1>2. /\ r \in begun /\ begun' = begun \ {r}
      /\ phase' = [phase EXCEPT ![r] = IF @ = "write" /\ ~aborted THEN "scan" ELSE @]
      /\ \/ ~aborted /\ committed' = [committed EXCEPT ![r] = @ + 1]
         \/ UNCHANGED committed
      /\ UNCHANGED <<sources, hidden, up, changes, aborted, disposed, catalog, current, check,
                     lastGood, answer, waiting, before, truncated, expected, left, asked, writes>>
  BY DEF EndWrite, host, lifecycle, shown, scanned, compared
<1>3. /\ phase'[r] = IF ~aborted THEN "scan" ELSE phase[r]
      /\ ~aborted => phase[r] = "write"
      /\ \A s \in Refreshes \ {r} : phase'[s] = phase[s]
      /\ phase' \in [Refreshes -> Phases]
  BY <1>1, <1>2 DEF TypeOK, Phases, Alone
<1>4. /\ writes \in [Refreshes -> 0..MaxWrites] /\ committed \in [Refreshes -> 0..MaxWrites]
      /\ \A s \in Refreshes : committed[s] <= writes[s]
      /\ ~aborted => committed[r] < writes[r]
  BY <1>1, <1>2 DEF TypeOK, Counted
<1>5. /\ committed' \in [Refreshes -> 0..MaxWrites]
      /\ \A s \in Refreshes : committed'[s] <= writes[s]
      /\ \A s \in Refreshes \ {r} : committed'[s] = committed[s]
  BY <1>2, <1>4, RefreshNumbers
<1>6. TypeOK'
  BY <1>1, <1>2, <1>3, <1>5 DEF TypeOK
<1>7. Alone'
  BY <1>1, <1>2, <1>3 DEF Alone, Checking, TypeOK
<1>8. Versions' /\ Over'
  BY <1>1, <1>2 DEF Versions, Over
<1>9. Sight'
  BY <1>1, <1>2, <1>3 DEF Sight, InPlace
<1>10. Counted'
  BY <1>1, <1>2, <1>3, <1>5 DEF Counted, TypeOK
<1> QED
  BY <1>6, <1>7, <1>8, <1>9, <1>10 DEF IInv

(* A scan ends with an answer about the projects it scanned.               *)
LEMMA ScannedShows ==
  ASSUME NEW r \in Refreshes, NEW c \in Scanned(r)
  PROVE  DOMAIN c.scans = DOMAIN before[r] /\ \A p \in DOMAIN c.scans : c.scans[p] \in ScanStates
BY DEF Scanned, ScanStates

(* The scan's answer becomes the last good catalog.                        *)
LEMMA EndScanInvariant ==
  ASSUME IInv, NEW r \in Refreshes, EndScan(r)
  PROVE  IInv'
<1>1. PICK c \in Scanned(r) : lastGood' = c /\ Settle(r, c)
  BY DEF EndScan
<1>2. phase[r] # "idle" /\ (r \in begun => aborted)
  BY DEF EndScan, IInv, Alone
<1>3. check' \in {0, check} /\ UNCHANGED <<host, lifecycle, catalog, begun>>
  BY DEF EndScan
<1> QED
  BY <1>1, <1>2, <1>3, ScannedShows, SettleInvariant

(* The signal is set once, and stays set.                                  *)
LEMMA DisposeInvariant == IInv /\ Dispose => IInv'
<1> SUFFICES ASSUME IInv, Dispose PROVE IInv'
  OBVIOUS
<1>1. TypeOK /\ Alone /\ Versions /\ Sight /\ Counted /\ Over
  BY DEF IInv
<1>2. /\ aborted' = TRUE
      /\ UNCHANGED <<sources, hidden, up, changes, disposed, catalog, current, check, lastGood,
                     answer, waiting, phase, before, truncated, expected, left, asked, writes,
                     committed, begun>>
  BY DEF Dispose, host, shown, scanned, compared, written
<1>3. TypeOK'
  BY <1>1, <1>2 DEF TypeOK
<1>4. Alone' /\ Versions' /\ Counted' /\ Over'
  BY <1>1, <1>2 DEF Alone, Versions, Counted, Over
<1>5. Sight'
  BY <1>1, <1>2 DEF Sight, InPlace
<1> QED
  BY <1>3, <1>4, <1>5 DEF IInv

(* The catalog is closed when no refresh is awaited any more.              *)
LEMMA CloseInvariant == IInv /\ Close => IInv'
<1> SUFFICES ASSUME IInv, Close PROVE IInv'
  OBVIOUS
<1>1. TypeOK /\ Alone /\ Versions /\ Sight /\ Counted /\ Over
  BY DEF IInv
<1>2. /\ aborted /\ current = 0 /\ disposed' = TRUE
      /\ catalog' = IF catalog = "open" THEN "closed" ELSE catalog
      /\ UNCHANGED <<sources, hidden, up, changes, aborted, current, check, lastGood,
                     answer, waiting, phase, before, truncated, expected, left, asked, writes,
                     committed, begun>>
  BY DEF Close, host, shown, scanned, compared, written
<1>3. TypeOK'
  BY <1>1, <1>2 DEF TypeOK
<1>4. Alone' /\ Versions' /\ Counted' /\ Over'
  BY <1>1, <1>2 DEF Alone, Versions, Counted, Over
<1>5. Sight'
  BY <1>1, <1>2 DEF Sight, InPlace
<1> QED
  BY <1>3, <1>4, <1>5 DEF IInv

(* A step in which nothing changes.                                        *)
LEMMA StutterInvariant == IInv /\ UNCHANGED vars => IInv'
<1> SUFFICES ASSUME IInv, UNCHANGED vars PROVE IInv'
  OBVIOUS
<1>1. UNCHANGED <<sources, hidden, up, changes, aborted, disposed, catalog, current, check,
                  lastGood, answer, waiting, phase, before, truncated, expected, left, asked,
                  writes, committed, begun>>
  BY DEF vars, host, lifecycle, shown, scanned, compared, written
<1>2. TypeOK'
  BY <1>1 DEF IInv, TypeOK
<1>3. Alone' /\ Versions' /\ Counted' /\ Over'
  BY <1>1 DEF IInv, Alone, Versions, Counted, Over
<1>4. Sight'
  BY <1>1 DEF IInv, Sight, InPlace
<1> QED
  BY <1>2, <1>3, <1>4 DEF IInv

(* Every step of the backend and of its host keeps the invariant.          *)
LEMMA NextInvariant == IInv /\ [Next]_vars => IInv'
<1> SUFFICES ASSUME IInv, [Next]_vars PROVE IInv'
  OBVIOUS
<1>1. CASE HostChanges
  BY <1>1, HostChangesInvariant
<1>2. ASSUME NEW c \in Callers, Ask(c) PROVE IInv'
  BY <1>2, AskInvariant
<1>3. ASSUME NEW r \in Refreshes, Advance(r) PROVE IInv'
  BY <1>3, ReadInventoryInvariant, RelistInvariant, ResolveInvariant, BeginScanInvariant,
     ScanFailsInvariant, BeginCheckInvariant, BeginWriteInvariant, EndWriteInvariant,
     EndScanInvariant DEF Advance
<1>4. CASE Dispose
  BY <1>4, DisposeInvariant
<1>5. CASE Close
  BY <1>5, CloseInvariant
<1>6. CASE Rest \/ UNCHANGED vars
  BY <1>6, StutterInvariant DEF Rest
<1> QED
  BY <1>1, <1>2, <1>3, <1>4, <1>5, <1>6 DEF Next

-----------------------------------------------------------------------------

(* The invariant of the backend: refresh of plugin.ts with its mutation    *)
(* check, under every change of the host and disposal.                     *)
THEOREM BackendInvariance == Spec => []IInv
BY InitInvariant, NextInvariant, PTL DEF Spec

(* Every variable of the backend keeps its type.                           *)
THEOREM BackendTypeCorrect == Spec => []TypeOK
<1>1. IInv => TypeOK
  BY DEF IInv
<1> QED
  BY <1>1, BackendInvariance, PTL

(* No write of an admission is begun but behind a check that saw the       *)
(* scanned sources in place: mutateCatalog and revalidateSources.          *)
THEOREM EveryWriteIsAuthorised == Spec => []WritesAreAuthorised
<1>1. IInv => WritesAreAuthorised
  BY NothingKnown DEF IInv, Alone, Sight, TypeOK, WritesAreAuthorised
<1> QED
  BY <1>1, BackendInvariance, PTL

(* Nothing is committed and no catalog opened once disposal has ended,     *)
(* although a write that it abandoned may still resume: onDispose.         *)
THEOREM DisposalIsFinal == Spec => NothingAfterDisposal
<1>1. ASSUME IInv, [Next]_vars, disposed
      PROVE  UNCHANGED committed /\ catalog' # "open"
  <2>1. /\ aborted /\ catalog # "open" /\ \A r \in Refreshes : phase[r] = "idle"
    BY <1>1, RefreshNumbers DEF IInv, Over, Alone
  <2>2. CASE HostChanges
    BY <2>1, <2>2 DEF HostChanges, written
  <2>3. ASSUME NEW c \in Callers, Ask(c) PROVE UNCHANGED <<committed, catalog>>
    BY <2>3 DEF Ask, written
  <2>4. ASSUME NEW r \in Refreshes, Advance(r) PROVE UNCHANGED <<committed, catalog>>
    <3>1. EndWrite(r)
      BY <2>1, <2>4 DEF Advance, ReadInventory, Relist, Reads, Resolve, BeginScan, ScanFails,
         BeginCheck, BeginWrite, EndScan
    <3> QED
      BY <2>1, <3>1 DEF EndWrite
  <2>5. CASE Dispose \/ Close
    BY <1>1, <2>1, <2>5 DEF Dispose, Close
  <2>6. CASE Rest \/ UNCHANGED vars
    BY <2>1, <2>6 DEF Rest, vars, written
  <2> QED
    BY <1>1, <2>1, <2>2, <2>3, <2>4, <2>5, <2>6 DEF Next
<1>2. IInv /\ [Next]_vars => [disposed => UNCHANGED committed /\ catalog' # "open"]_vars
  BY <1>1
<1> QED
  BY <1>2, BackendInvariance, PTL DEF Spec, NothingAfterDisposal

(* A refresh shows the reason of its failure for every project, or what it *)
(* has just scanned.                                                       *)
LEMMA AnswerIsFresh ==
  ASSUME IInv, NEW r \in Refreshes, Advance(r), phase[r] \notin {"idle", "inventory"},
         phase'[r] = "idle",
         NEW p \in DOMAIN answer'.scans, answer'.scans[p] \in {"ready", "partial"}
  PROVE  p \in DOMAIN before[r] /\ InPlace(r, p)
<1>1. TypeOK /\ Sight
  BY DEF IInv
<1>2. ASSUME NEW reason \in {"source_changed", "scan_failed"}, Fail(r, reason) PROVE FALSE
  <2>1. answer' = Failure(r, reason)
    BY <1>2 DEF Fail, Settle
  <2> QED
    BY <1>2, <2>1, FailureShows
<1>3. CASE EndScan(r)
  <2>1. PICK c \in Scanned(r) : answer' = c
    BY <1>3 DEF EndScan, Settle
  <2>2. p \in DOMAIN before[r]
    BY <2>1, ScannedShows
  <2> QED
    BY <1>1, <1>3, <2>2 DEF Sight, EndScan
<1>4. CASE Relist(r)
  BY <1>1, <1>2, <1>4 DEF Relist, Reads, TypeOK
<1>5. CASE Resolve(r) \/ ScanFails(r)
  BY <1>1, <1>2, <1>5 DEF Resolve, ScanFails
<1>6. CASE BeginScan(r) \/ BeginCheck(r) \/ BeginWrite(r) \/ EndWrite(r)
  BY <1>1, <1>2, <1>6 DEF BeginScan, BeginCheck, BeginWrite, EndWrite, TypeOK
<1> QED
  BY <1>3, <1>4, <1>5, <1>6 DEF Advance, ReadInventory

(* A refresh of plugin.ts that saw an inventory answers no project as      *)
(* scanned but at the source it scanned; lastGood only lends its projects. *)
THEOREM NothingStaleIsReady == Spec => NoStaleReady
<1> DEFINE Fresh ==
      \A r \in Refreshes :
        phase[r] \notin {"idle", "inventory"} /\ phase'[r] = "idle" =>
          \A p \in DOMAIN answer'.scans :
            answer'.scans[p] \in {"ready", "partial"} =>
              p \in DOMAIN before[r] /\ InPlace(r, p)
<1>1. ASSUME IInv, Next, NEW r \in Refreshes, phase[r] \notin {"idle", "inventory"},
             phase'[r] = "idle"
      PROVE  Advance(r)
  <2>1. phase \in [Refreshes -> Phases]
    BY <1>1 DEF IInv, TypeOK
  <2>2. CASE HostChanges \/ Dispose \/ Close \/ Rest
    BY <1>1, <2>2 DEF HostChanges, Dispose, Close, Rest, vars
  <2>3. ASSUME NEW c \in Callers, Ask(c) PROVE FALSE
    BY <1>1, <2>1, <2>3 DEF Ask, Begin, Free
  <2>4. ASSUME NEW s \in Refreshes, s # r, Advance(s) PROVE FALSE
    <3>1. phase[s] = "idle"
      BY <1>1, <2>4 DEF IInv, Alone
    <3>2. EndWrite(s)
      BY <2>4, <3>1 DEF Advance, ReadInventory, Relist, Reads, Resolve, BeginScan, ScanFails,
         BeginCheck, BeginWrite, EndScan
    <3> QED
      BY <1>1, <2>1, <2>4, <3>2 DEF EndWrite
  <2> QED
    BY <1>1, <2>2, <2>3, <2>4 DEF Next
<1>2. ASSUME IInv, Next PROVE Fresh
  BY <1>1, <1>2, AnswerIsFresh
<1>3. IInv /\ [Next]_vars => [Fresh]_vars
  BY <1>2
<1> QED
  BY <1>3, BackendInvariance, PTL DEF Spec, NoStaleReady

-----------------------------------------------------------------------------

(* A non-empty set of naturals has a least element.                        *)
LEMMA Least ==
  ASSUME NEW S, S \subseteq Nat, S # {}
  PROVE  \E m \in S : \A x \in S : m <= x
<1>1. PICK m \in S : \A x \in S : ~ (<<x, m>> \in OpToRel(<, Nat))
  BY NatLessThanWellFounded, WFMin
<1>2. \A x \in S : ~ (x < m)
  BY <1>1 DEF OpToRel
<1> QED
  BY <1>2

(* A set with 0 that has k + 1 with every k below n has all up to n.       *)
LEMMA Upwards ==
  ASSUME NEW n \in Nat, NEW S, 0 \in S, \A k \in 0..n - 1 : k \in S => k + 1 \in S
  PROVE  \A k \in 0..n : k \in S
<1>1. SUFFICES ASSUME NEW b \in 0..n, b \notin S PROVE FALSE
  OBVIOUS
<1> DEFINE T == {k \in 0..n : k \notin S}
<1>2. T \subseteq Nat /\ T # {}
  BY <1>1
<1>3. PICK m \in T : \A x \in T : m <= x
  <2> HIDE DEF T
  <2> QED
    BY <1>2, Least
<1>4. \A x \in 0..n : x \notin S => m <= x
  BY <1>3
<1>5. m \in 0..n /\ m \notin S /\ m # 0
  OBVIOUS
<1>6. m - 1 \in 0..n - 1 /\ m - 1 \notin S
  <2>1. m - 1 \in 0..n - 1 /\ m - 1 \in 0..n /\ m - 1 + 1 = m
    BY <1>5
  <2> QED
    BY <1>5, <2>1
<1> QED
  BY <1>4, <1>6

(* What is defined step by step exists.                                    *)
IsRun(f, n, V, base, step) ==
  /\ f \in [0..n -> V] /\ f[0] = base
  /\ \A k \in 1..n : f[k] = step[k][f[k - 1]]

(* Every value being one of V again, such a run exists.                    *)
LEMMA StepByStep ==
  ASSUME NEW n, NEW V, NEW base, NEW step,
         n \in Nat, base \in V, \A k \in 1..n : \A v \in V : step[k][v] \in V
  PROVE  \E f : IsRun(f, n, V, base, step)
<1> DEFINE S == {m \in Nat : \E f \in [0..m -> V] :
                   f[0] = base /\ \A k \in 1..m : k \in 1..n => f[k] = step[k][f[k - 1]]}
<1>1. 0 \in S
  <2> DEFINE g == [k \in 0..0 |-> base]
  <2>1. g \in [0..0 -> V] /\ g[0] = base /\ 1..0 = {}
    OBVIOUS
  <2> HIDE DEF g
  <2> QED
    BY <2>1
<1>2. \A m \in 0..n - 1 : m \in S => m + 1 \in S
  <2> SUFFICES ASSUME NEW m \in 0..n - 1, m \in S PROVE m + 1 \in S
    OBVIOUS
  <2>1. PICK f \in [0..m -> V] :
          f[0] = base /\ \A k \in 1..m : k \in 1..n => f[k] = step[k][f[k - 1]]
    OBVIOUS
  <2> DEFINE g == [k \in 0..m + 1 |-> IF k = m + 1 THEN step[m + 1][f[m]] ELSE f[k]]
  <2>2. m + 1 \in 1..n /\ m \in 0..m /\ f[m] \in V
    OBVIOUS
  <2>3. step[m + 1][f[m]] \in V
    BY <2>2
  <2>4. g \in [0..m + 1 -> V]
    BY <2>3
  <2>5. g[0] = base
    BY <2>1
  <2>6. \A k \in 1..m + 1 : k \in 1..n => g[k] = step[k][g[k - 1]]
    <3> SUFFICES ASSUME NEW k \in 1..m + 1, k \in 1..n PROVE g[k] = step[k][g[k - 1]]
      OBVIOUS
    <3>1. g[k - 1] = f[k - 1]
      OBVIOUS
    <3>2. CASE k = m + 1
      BY <3>1, <3>2
    <3>3. CASE k # m + 1
      <4>1. k \in 1..m /\ g[k] = f[k]
        BY <3>3
      <4> QED
        BY <2>1, <3>1, <4>1
    <3> QED
      BY <3>2, <3>3
  <2>7. m + 1 \in Nat
    OBVIOUS
  <2> HIDE DEF g
  <2> QED
    BY <2>4, <2>5, <2>6, <2>7
<1>3. \A m \in 0..n : m \in S
  <2> HIDE DEF S
  <2> QED
    BY <1>1, <1>2, Upwards
<1>4. n \in S
  BY <1>3
<1>5. PICK f \in [0..n -> V] :
        f[0] = base /\ \A k \in 1..n : k \in 1..n => f[k] = step[k][f[k - 1]]
  BY <1>4
<1>6. IsRun(f, n, V, base, step)
  BY <1>5 DEF IsRun
<1> QED
  BY <1>6


-----------------------------------------------------------------------------
(* Elements that are kept.                                                 *)

(* What is kept of the first elements of s.                                *)
KeptTo(s, keep) ==
  CHOOSE g : g = [n \in 0..Len(s) |->
    IF n = 0 THEN <<>>
    ELSE IF n \in keep THEN Append(g[n - 1], s[n]) ELSE g[n - 1]]

(* It grows by the elements at the positions that are kept.                *)
LEMMA KeptSteps ==
  ASSUME NEW V, NEW s \in Seq(V), NEW keep
  PROVE  /\ KeptTo(s, keep)[0] = <<>>
         /\ \A n \in 0..Len(s) : KeptTo(s, keep)[n] \in Seq(V)
         /\ \A n \in 0..Len(s) - 1 :
              KeptTo(s, keep)[n + 1] =
                IF n + 1 \in keep THEN Append(KeptTo(s, keep)[n], s[n + 1])
                ELSE KeptTo(s, keep)[n]
         /\ Kept(s, keep) = KeptTo(s, keep)[Len(s)]
<1> DEFINE N == Len(s)
           U == Seq(V)
           step == [k \in 1..N |-> [v \in U |-> IF k \in keep THEN Append(v, s[k]) ELSE v]]
           G(g) == [n \in 0..N |-> IF n = 0 THEN <<>>
                      ELSE IF n \in keep THEN Append(g[n - 1], s[n]) ELSE g[n - 1]]
           K == KeptTo(s, keep)
<1>0. N \in Nat /\ \A k \in 1..N : s[k] \in V
  OBVIOUS
<1>1. <<>> \in U /\ \A k \in 1..N : \A v \in U : step[k][v] \in U
  <2> HIDE DEF N
  <2>1. \A k \in 1..N : \A v \in Seq(V) : Append(v, s[k]) \in Seq(V)
    BY <1>0
  <2> QED
    BY <2>1
<1>2. PICK g : IsRun(g, N, U, <<>>, step)
  <2> HIDE DEF U, step, N
  <2> QED
    BY <1>0, <1>1, StepByStep
<1>3. g \in [0..N -> U] /\ g[0] = <<>> /\ \A k \in 1..N : g[k] = step[k][g[k - 1]]
  <2> HIDE DEF U, step, N
  <2> QED
    BY <1>2 DEF IsRun
<1>4. \A k \in 1..N : g[k] = IF k \in keep THEN Append(g[k - 1], s[k]) ELSE g[k - 1]
  <2> SUFFICES ASSUME NEW k \in 1..N
      PROVE g[k] = IF k \in keep THEN Append(g[k - 1], s[k]) ELSE g[k - 1]
    OBVIOUS
  <2>1. k - 1 \in 0..N /\ g[k - 1] \in U /\ g[k] = step[k][g[k - 1]]
    <3> HIDE DEF U, step, N
    <3> QED
      BY <1>0, <1>3
  <2> HIDE DEF U, N
  <2> QED
    BY <2>1
<1> HIDE DEF U, step, N
<1>5. g = G(g)
  <2>1. \A k \in 0..N : g[k] = G(g)[k]
    <3> SUFFICES ASSUME NEW k \in 0..N PROVE g[k] = G(g)[k]
      OBVIOUS
    <3>1. k = 0 \/ (k \in 1..N /\ k # 0)
      BY <1>0
    <3>2. G(g)[k] = IF k = 0 THEN <<>>
                    ELSE IF k \in keep THEN Append(g[k - 1], s[k]) ELSE g[k - 1]
      OBVIOUS
    <3> HIDE DEF G
    <3> QED
      BY <1>3, <1>4, <3>1, <3>2
  <2>2. DOMAIN g = 0..N /\ g = [k \in 0..N |-> g[k]]
    BY <1>3
  <2> QED
    BY <2>1, <2>2
<1>6. K = G(K)
  BY <1>5 DEF KeptTo, N
<1>7. Kept(s, keep) = K[N]
  BY DEF Kept, KeptTo, N
<1> HIDE DEF K
<1>8. K[0] = <<>>
  BY <1>0, <1>6
<1>9. \A n \in 0..N - 1 :
        K[n + 1] = IF n + 1 \in keep THEN Append(K[n], s[n + 1]) ELSE K[n]
  <2> SUFFICES ASSUME NEW n \in 0..N - 1
      PROVE K[n + 1] = IF n + 1 \in keep THEN Append(K[n], s[n + 1]) ELSE K[n]
    OBVIOUS
  <2>1. n + 1 \in 0..N /\ n + 1 # 0 /\ n + 1 - 1 = n
    BY <1>0
  <2>2. K[n + 1] = G(K)[n + 1]
    BY <1>6
  <2>3. G(K)[n + 1] = IF n + 1 = 0 THEN <<>>
                      ELSE IF n + 1 \in keep THEN Append(K[n + 1 - 1], s[n + 1])
                      ELSE K[n + 1 - 1]
    BY <2>1
  <2> HIDE DEF G
  <2> QED
    BY <2>1, <2>2, <2>3
<1> DEFINE S == {n \in 0..N : K[n] \in Seq(V)}
<1>10. 0 \in S
  <2>1. <<>> \in Seq(V) /\ 0 \in 0..N
    BY <1>0
  <2> QED
    BY <1>8, <2>1
<1>11. \A n \in 0..N - 1 : n \in S => n + 1 \in S
  <2> SUFFICES ASSUME NEW n \in 0..N - 1, K[n] \in Seq(V)
      PROVE n + 1 \in 0..N /\ K[n + 1] \in Seq(V)
    OBVIOUS
  <2>1. n + 1 \in 0..N /\ s[n + 1] \in V
    BY <1>0
  <2>2. K[n + 1] = IF n + 1 \in keep THEN Append(K[n], s[n + 1]) ELSE K[n]
    BY <1>9
  <2> QED
    BY <2>1, <2>2
<1>12. \A n \in 0..N : n \in S
  <2> HIDE DEF S
  <2> QED
    BY <1>0, <1>10, <1>11, Upwards
<1>13. \A n \in 0..N : K[n] \in Seq(V)
  BY <1>12
<1> QED
  BY <1>7, <1>8, <1>9, <1>13 DEF K, N

(* Kept holds the elements at these positions and no others, it is no      *)
(* shorter only if all are kept, and ids that differ still do.             *)
LEMMA KeptHolds ==
  ASSUME NEW V, NEW s \in Seq(V), NEW keep, keep \subseteq DOMAIN s
  PROVE  /\ Kept(s, keep) \in Seq(V)
         /\ ToSet(Kept(s, keep)) = {s[n] : n \in keep}
         /\ Len(Kept(s, keep)) <= Len(s)
         /\ Len(Kept(s, keep)) = Len(s) <=> keep = DOMAIN s
         /\ UniqueIds(s) => UniqueIds(Kept(s, keep))
<1> DEFINE N == Len(s)
           K == KeptTo(s, keep)
           From(n) == \A i \in DOMAIN K[n] : \E m \in keep : m <= n /\ K[n][i] = s[m]
           Has(n) == \A m \in keep : m <= n => \E i \in DOMAIN K[n] : K[n][i] = s[m]
           Short(n) == Len(K[n]) <= n /\ (Len(K[n]) = n <=> \A m \in 1..n : m \in keep)
           Differ(n) == UniqueIds(s) => UniqueIds(K[n])
           S == {n \in 0..N : From(n) /\ Has(n) /\ Short(n) /\ Differ(n)}
<1>0. N \in Nat /\ DOMAIN s = 1..N /\ N \in 0..N
  OBVIOUS
<1>1. /\ K[0] = <<>> /\ \A n \in 0..N : K[n] \in Seq(V)
      /\ \A n \in 0..N - 1 :
           K[n + 1] = IF n + 1 \in keep THEN Append(K[n], s[n + 1]) ELSE K[n]
      /\ Kept(s, keep) = K[N]
  <2> HIDE DEF K
  <2> QED
    BY KeptSteps DEF K
<1> HIDE DEF K
<1> HIDE DEF N
<1>2. 0 \in S
  <2>1. K[0] = <<>> /\ Len(K[0]) = 0 /\ DOMAIN K[0] = {} /\ 1..0 = {} /\ 0 \in 0..N
    BY <1>0, <1>1
  <2>2. \A m \in keep : ~(m <= 0)
    BY <1>0
  <2> QED
    BY <2>1, <2>2 DEF UniqueIds
<1>3. \A n \in 0..N - 1 : n \in S => n + 1 \in S
  <2> SUFFICES ASSUME NEW n \in 0..N - 1, n \in S PROVE n + 1 \in S
    OBVIOUS
  <2>1. From(n) /\ Has(n) /\ Short(n) /\ Differ(n)
    OBVIOUS
  <2>2. /\ n \in Nat /\ n \in 0..N /\ n + 1 \in 0..N /\ n + 1 \in 1..N /\ K[n] \in Seq(V)
        /\ s[n + 1] \in V /\ \A m \in keep : m \in Nat /\ (m <= n + 1 <=> (m <= n \/ m = n + 1))
    BY <1>0, <1>1
  <2>3. K[n + 1] = IF n + 1 \in keep THEN Append(K[n], s[n + 1]) ELSE K[n]
    BY <1>1
  <2> SUFFICES From(n + 1) /\ Has(n + 1) /\ Short(n + 1) /\ Differ(n + 1)
    BY <2>2
  <2> HIDE DEF S
  <2>4. CASE n + 1 \notin keep
    <3>1. K[n + 1] = K[n]
      BY <2>3, <2>4
    <3>2. From(n + 1) /\ Has(n + 1) /\ Differ(n + 1)
      BY <2>1, <2>2, <2>4, <3>1
    <3>3. Len(K[n]) \in Nat /\ Len(K[n]) <= n
      BY <2>1, <2>2
    <3>4. Len(K[n + 1]) <= n + 1 /\ Len(K[n + 1]) # n + 1
      BY <2>2, <3>1, <3>3
    <3>5. n + 1 \in 1..n + 1
      BY <2>2
    <3>6. ~(\A m \in 1..n + 1 : m \in keep)
      BY <2>4, <3>5
    <3>7. Short(n + 1)
      BY <3>4, <3>6
    <3> QED
      BY <3>2, <3>7
  <2>5. CASE n + 1 \in keep
    <3> DEFINE L == Len(K[n])
               x == s[n + 1]
    <3>1. K[n + 1] = Append(K[n], x)
      BY <2>3, <2>5
    <3>2. /\ L \in Nat /\ DOMAIN K[n] = 1..L /\ DOMAIN K[n + 1] = 1..L + 1 /\ Len(K[n + 1]) = L + 1
          /\ K[n + 1][L + 1] = x /\ \A i \in 1..L : K[n + 1][i] = K[n][i]
      BY <2>2, <3>1
    <3>3. \A i \in 1..L + 1 : i \in 1..L \/ i = L + 1
      BY <3>2
    <3>3a. (\A i \in 1..L : i \in 1..L + 1) /\ L + 1 \in 1..L + 1
      BY <3>2
    <3>4. From(n + 1)
      <4>1. From(n)
        BY <2>1
      <4> QED
        BY <2>2, <2>5, <3>2, <3>3, <4>1
    <3>5. Has(n + 1)
      <4> SUFFICES ASSUME NEW m \in keep, m <= n + 1
          PROVE \E i \in DOMAIN K[n + 1] : K[n + 1][i] = s[m]
        OBVIOUS
      <4>1. CASE m <= n
        <5>1. PICK i \in DOMAIN K[n] : K[n][i] = s[m]
          BY <2>1, <4>1
        <5> QED
          BY <3>2, <3>3a, <5>1
      <4>2. CASE m = n + 1
        BY <3>2, <3>3a, <4>2
      <4> QED
        BY <2>2, <4>1, <4>2
    <3>6. Short(n + 1)
      <4>1. L <= n /\ (L = n <=> \A m \in 1..n : m \in keep)
        BY <2>1
      <4>2. Len(K[n + 1]) <= n + 1
        BY <2>2, <3>2, <4>1
      <4>3. ASSUME Len(K[n + 1]) = n + 1, NEW m \in 1..n + 1 PROVE m \in keep
        <5>1. L = n
          BY <2>2, <3>2, <4>3
        <5>2. m \in 1..n \/ m = n + 1
          BY <2>2
        <5> QED
          BY <2>5, <4>1, <5>1, <5>2
      <4>4. ASSUME \A m \in 1..n + 1 : m \in keep PROVE Len(K[n + 1]) = n + 1
        <5>1. \A m \in 1..n : m \in 1..n + 1
          BY <2>2
        <5>2. L = n
          BY <4>1, <4>4, <5>1
        <5> QED
          BY <3>2, <5>2
      <4> QED
        BY <4>2, <4>3, <4>4
    <3>7. Differ(n + 1)
      <4> SUFFICES ASSUME UniqueIds(s), NEW i \in 1..L + 1, NEW j \in 1..L + 1,
                          K[n + 1][i].id = K[n + 1][j].id
                   PROVE  i = j
        BY <3>2 DEF UniqueIds
      <4>1. \A k \in 1..L : K[n + 1][k].id # x.id
        <5> SUFFICES ASSUME NEW k \in 1..L, K[n + 1][k].id = x.id PROVE FALSE
          OBVIOUS
        <5>1. PICK m \in keep : m <= n /\ K[n][k] = s[m]
          BY <2>1, <3>2
        <5>2. s[m].id = s[n + 1].id /\ m \in DOMAIN s /\ n + 1 \in DOMAIN s
          BY <1>0, <2>2, <3>2, <5>1
        <5>3. m = n + 1
          BY <5>2 DEF UniqueIds
        <5> QED
          BY <2>2, <5>1, <5>3
      <4>2. CASE i \in 1..L /\ j \in 1..L
        <5>1. K[n][i].id = K[n][j].id /\ UniqueIds(K[n])
          BY <2>1, <3>2, <4>2
        <5> QED
          BY <3>2, <4>2, <5>1 DEF UniqueIds
      <4>3. i \in 1..L \/ K[n + 1][i] = x
        BY <3>2, <3>3
      <4>4. j \in 1..L \/ K[n + 1][j] = x
        BY <3>2, <3>3
      <4> QED
        BY <3>3, <4>1, <4>2, <4>3, <4>4
    <3> QED
      BY <3>4, <3>5, <3>6, <3>7
  <2> QED
    BY <2>4, <2>5
<1>4. N \in S
  <2>1. \A n \in 0..N : n \in S
    <3> HIDE DEF S
    <3> QED
      BY <1>0, <1>2, <1>3, Upwards
  <2> HIDE DEF S
  <2> QED
    BY <1>0, <2>1
<1>5. From(N) /\ Has(N) /\ Short(N) /\ Differ(N)
  BY <1>4
<1>6. \A m \in keep : m <= N
  BY <1>0
<1>7. ToSet(K[N]) = {s[n] : n \in keep}
  BY <1>5, <1>6 DEF ToSet
<1>8. Len(K[N]) = N => keep = DOMAIN s
  BY <1>0, <1>5
<1> QED
  BY <1>0, <1>1, <1>5, <1>7, <1>8 DEF N

-----------------------------------------------------------------------------
(* Sorting by rank.                                                        *)

(* That ahead gives for each of the first n numbers those before it in     *)
(* some order of all of them.                                              *)
Orders(n, ahead) ==
  /\ ahead \in [1..n -> SUBSET (1..n)]
  /\ \A i \in 1..n : i \notin ahead[i]
  /\ \A i, j \in 1..n : i = j \/ i \in ahead[j] \/ j \in ahead[i]
  /\ \A i, j, k \in 1..n : i \in ahead[j] /\ j \in ahead[k] => i \in ahead[k]

(* As many are ahead as there are ranks below: each rank is taken by one,  *)
(* and who is ahead has the lower one.                                     *)
LEMMA RanksAreAll ==
  ASSUME NEW n \in Nat, NEW ahead, Orders(n, ahead)
  PROVE  /\ \A i \in 1..n : Cardinality(ahead[i]) \in 0..n - 1
         /\ \A i, j \in 1..n : i \in ahead[j] => Cardinality(ahead[i]) < Cardinality(ahead[j])
         /\ \A i, j \in 1..n : Cardinality(ahead[i]) = Cardinality(ahead[j]) => i = j
         /\ \A m \in 1..n : \E i \in 1..n : Cardinality(ahead[i]) = m - 1
<1> DEFINE D == 1..n
           R(i) == Cardinality(ahead[i])
<1>1. IsFiniteSet(D) /\ Cardinality(D) = n
  <2>1. IsFiniteSet(1..n) /\ Cardinality(1..n) = IF 1 > n THEN 0 ELSE n - 1 + 1
    BY FS_Interval
  <2> QED
    BY <2>1
<1>2. ASSUME NEW i \in D PROVE ahead[i] \in SUBSET D /\ IsFiniteSet(ahead[i]) /\ R(i) \in 0..n - 1
  <2>1. ahead[i] \in SUBSET D /\ i \notin ahead[i]
    BY DEF Orders
  <2>2. IsFiniteSet(ahead[i]) /\ R(i) \in Nat /\ R(i) <= n
    <3> HIDE DEF D
    <3> QED
      BY <1>1, <2>1, FS_Subset, FS_CardinalityType
  <2>3. R(i) # n
    <3> HIDE DEF D
    <3> QED
      BY <1>1, <2>1, FS_Subset
  <2> QED
    BY <2>1, <2>2, <2>3
<1>3. ASSUME NEW i \in D, NEW j \in D, i \in ahead[j] PROVE R(i) < R(j)
  <2>1. ahead[i] \cup {i} \in SUBSET ahead[j] /\ i \notin ahead[i]
    BY <1>2, <1>3 DEF Orders
  <2>2. IsFiniteSet(ahead[i]) /\ IsFiniteSet(ahead[j])
    BY <1>2
  <2>3. Cardinality(ahead[i] \cup {i}) = R(i) + 1 /\ Cardinality(ahead[i] \cup {i}) <= R(j)
    BY <2>1, <2>2, FS_AddElement, FS_Subset
  <2>4. R(i) \in Nat /\ R(j) \in Nat
    BY <1>2
  <2> QED
    BY <2>3, <2>4
<1>4. ASSUME NEW i \in D, NEW j \in D, R(i) = R(j) PROVE i = j
  <2>1. R(i) \in Nat
    BY <1>2
  <2>2. ~(R(i) < R(j)) /\ ~(R(j) < R(i))
    BY <1>4, <2>1
  <2> QED
    BY <1>3, <2>2 DEF Orders
<1>5. ASSUME NEW m \in 1..n PROVE \E i \in 1..n : R(i) = m - 1
  <2> DEFINE T == 0..n - 1
             f == [i \in D |-> R(i)]
  <2>1. f \in [D -> T] /\ \A i, j \in D : f[i] = f[j] => i = j
    BY <1>2, <1>4
  <2>2. f \in Injection(D, T)
    <3> HIDE DEF f, D, T
    <3> QED
      BY <2>1, Fun_IsInj
  <2>3. IsFiniteSet(T) /\ Cardinality(T) = n
    <3>1. IsFiniteSet(0..n - 1) /\ Cardinality(0..n - 1) = IF 0 > n - 1 THEN 0 ELSE n - 1 - 0 + 1
      BY FS_Interval
    <3> QED
      BY <3>1
  <2>4. f \in Surjection(D, T)
    <3> HIDE DEF f, D, T
    <3> QED
      BY <1>1, <2>2, <2>3, FS_Injection
  <2>5. \A t \in T : \E i \in D : f[i] = t
    <3> HIDE DEF f, D, T
    <3> QED
      BY <2>4, Fun_IsSurj DEF Surjection
  <2>6. m - 1 \in T
    OBVIOUS
  <2>7. PICK i \in D : f[i] = m - 1
    <3> HIDE DEF f, D, T
    <3> QED
      BY <2>5, <2>6
  <2>8. f[i] = R(i)
    OBVIOUS
  <2> QED
    BY <2>7, <2>8
<1> QED
  BY <1>2, <1>3, <1>4, <1>5

(* That t is s in the order that ahead tells, with each at its rank.       *)
PutInOrder(s, ahead, at, t) ==
  /\ Orders(Len(s), ahead)
  /\ \A n \in DOMAIN s : at[n] \in DOMAIN s /\ Cardinality(ahead[at[n]]) = n - 1
  /\ t = [n \in DOMAIN s |-> s[at[n]]]

(* That two sequences have the same elements.                              *)
SameElements(t, s) ==
  /\ \A n \in DOMAIN t : \E m \in DOMAIN s : t[n] = s[m]
  /\ \A m \in DOMAIN s : \E n \in DOMAIN t : t[n] = s[m]

(* A sequence put in such an order has the same elements, with ids that    *)
(* differ still; it is the same if it was in this order.                   *)
LEMMA SortedByRank ==
  ASSUME NEW V, NEW s \in Seq(V), NEW ahead, NEW at, NEW t, PutInOrder(s, ahead, at, t)
  PROVE  /\ t \in Seq(V) /\ Len(t) = Len(s) /\ SameElements(t, s)
         /\ UniqueIds(s) => UniqueIds(t)
         /\ \A m, n \in DOMAIN s : m < n => at[m] \in ahead[at[n]]
         /\ (\A i \in DOMAIN s : ahead[i] = 1..i - 1) => t = s
<1> DEFINE N == Len(s)
           R(i) == Cardinality(ahead[i])
<1>0. /\ Orders(Len(s), ahead) /\ t = [n \in DOMAIN s |-> s[at[n]]]
      /\ \A n \in DOMAIN s : at[n] \in DOMAIN s /\ Cardinality(ahead[at[n]]) = n - 1
  BY DEF PutInOrder
<1>1. N \in Nat /\ DOMAIN s = 1..N /\ DOMAIN t = 1..N /\ \A n \in 1..N : s[n] \in V
  BY <1>0
<1>2. t \in [1..N -> V] /\ t \in Seq(V) /\ Len(t) = N
  <2>1. t \in [1..N -> V]
    BY <1>0, <1>1
  <2>2. t \in Seq(V)
    BY <1>1, <2>1, SeqDef
  <2>3. Len(t) = N
    BY <1>1, <2>2, LenProperties
  <2> QED
    BY <2>1, <2>2, <2>3
<1> HIDE DEF N
<1>3. /\ \A i \in 1..N : R(i) \in 0..N - 1
      /\ \A i, j \in 1..N : i \in ahead[j] => R(i) < R(j)
      /\ \A i, j \in 1..N : R(i) = R(j) => i = j
  BY <1>0, <1>1, RanksAreAll DEF N
<1>4. \A n \in 1..N : at[n] \in 1..N /\ R(at[n]) = n - 1
  BY <1>0, <1>1
<1>5. \A m, n \in 1..N : at[m] = at[n] => m = n
  <2> SUFFICES ASSUME NEW m \in 1..N, NEW n \in 1..N, at[m] = at[n] PROVE m = n
    OBVIOUS
  <2>1. m - 1 = n - 1
    BY <1>4
  <2> QED
    BY <1>1, <2>1
<1>6. \A i \in 1..N : \E n \in 1..N : at[n] = i
  <2> SUFFICES ASSUME NEW i \in 1..N PROVE \E n \in 1..N : at[n] = i
    OBVIOUS
  <2> DEFINE n == R(i) + 1
  <2>1. R(i) \in 0..N - 1
    BY <1>3
  <2>2. n \in 1..N /\ n - 1 = R(i)
    BY <1>1, <2>1
  <2>3. at[n] \in 1..N /\ R(at[n]) = R(i)
    BY <1>4, <2>2
  <2> QED
    BY <1>3, <2>2, <2>3
<1>7. SameElements(t, s)
  BY <1>0, <1>1, <1>4, <1>6 DEF SameElements
<1>8. UniqueIds(s) => UniqueIds(t)
  BY <1>0, <1>1, <1>4, <1>5 DEF UniqueIds
<1>9. \A m, n \in 1..N : m < n => at[m] \in ahead[at[n]]
  <2> SUFFICES ASSUME NEW m \in 1..N, NEW n \in 1..N, m < n PROVE at[m] \in ahead[at[n]]
    OBVIOUS
  <2>1. at[m] \in 1..N /\ at[n] \in 1..N /\ at[m] # at[n]
    BY <1>1, <1>4, <1>5
  <2>2. R(at[m]) = m - 1 /\ R(at[n]) = n - 1
    BY <1>4
  <2>3. ~(R(at[n]) < R(at[m]))
    BY <1>1, <2>2
  <2>4. at[n] \notin ahead[at[m]]
    BY <1>3, <2>1, <2>3
  <2> QED
    BY <1>0, <2>1, <2>4 DEF Orders, N
<1>10. ASSUME \A i \in 1..N : ahead[i] = 1..i - 1 PROVE t = s
  <2>1. \A i \in 1..N : R(i) = i - 1
    <3> SUFFICES ASSUME NEW i \in 1..N PROVE R(i) = i - 1
      OBVIOUS
    <3>1. i \in Nat /\ i >= 1 /\ i - 1 \in Int
      BY <1>1
    <3>2. Cardinality(1..i - 1) = IF 1 > i - 1 THEN 0 ELSE i - 1 - 1 + 1
      BY <3>1, FS_Interval
    <3>3. Cardinality(1..i - 1) = i - 1
      BY <3>1, <3>2
    <3> QED
      BY <1>10, <3>3
  <2>2. \A n \in 1..N : at[n] = n
    <3> SUFFICES ASSUME NEW n \in 1..N PROVE at[n] = n
      OBVIOUS
    <3>1. R(at[n]) = n - 1 /\ R(n) = n - 1 /\ at[n] \in 1..N
      BY <1>4, <2>1
    <3> QED
      BY <1>3, <3>1
  <2>3. \A n \in 1..N : t[n] = s[n]
    BY <1>0, <1>1, <2>2
  <2>4. s \in [1..N -> V]
    BY <1>1, LenProperties DEF N
  <2> QED
    BY <1>2, <2>3, <2>4
<1> QED
  BY <1>1, <1>2, <1>7, <1>8, <1>9, <1>10 DEF N

(* A strict weak order, with ties broken by position, is such an order.    *)
LEMMA StableOrders ==
  ASSUME NEW n \in Nat, NEW less, NEW ahead,
         ahead = [i \in 1..n |->
           {j \in 1..n : <<j, i>> \in less \/ (<<i, j>> \notin less /\ j < i)}],
         \A i \in 1..n : <<i, i>> \notin less,
         \A i, j, k \in 1..n : <<i, j>> \in less /\ <<j, k>> \in less => <<i, k>> \in less,
         \A i, j, k \in 1..n : <<i, k>> \in less => <<i, j>> \in less \/ <<j, k>> \in less
  PROVE  Orders(n, ahead)
<1> DEFINE A(i) == {j \in 1..n : <<j, i>> \in less \/ (<<i, j>> \notin less /\ j < i)}
<1>1. ahead \in [1..n -> SUBSET (1..n)] /\ \A i \in 1..n : ahead[i] = A(i)
  OBVIOUS
<1>2. \A i, j \in 1..n : j \in A(i) <=> <<j, i>> \in less \/ (<<i, j>> \notin less /\ j < i)
  OBVIOUS
<1> HIDE DEF A
<1>3. ASSUME NEW i \in 1..n PROVE i \notin ahead[i]
  <2>1. <<i, i>> \notin less /\ ~(i < i)
    OBVIOUS
  <2> QED
    BY <1>1, <1>2, <2>1
<1>4. ASSUME NEW i \in 1..n, NEW j \in 1..n PROVE i = j \/ i \in ahead[j] \/ j \in ahead[i]
  <2>1. i = j \/ i < j \/ j < i
    OBVIOUS
  <2>2. i \in ahead[j] <=> <<i, j>> \in less \/ (<<j, i>> \notin less /\ i < j)
    BY <1>1, <1>2
  <2>3. j \in ahead[i] <=> <<j, i>> \in less \/ (<<i, j>> \notin less /\ j < i)
    BY <1>1, <1>2
  <2> QED
    BY <2>1, <2>2, <2>3
<1>5. ASSUME NEW i \in 1..n, NEW j \in 1..n, NEW k \in 1..n, i \in ahead[j], j \in ahead[k]
      PROVE  i \in ahead[k]
  <2>1. <<i, j>> \in less \/ (<<j, i>> \notin less /\ i < j)
    BY <1>1, <1>2, <1>5
  <2>2. <<j, k>> \in less \/ (<<k, j>> \notin less /\ j < k)
    BY <1>1, <1>2, <1>5
  <2>3. SUFFICES <<i, k>> \in less \/ (<<k, i>> \notin less /\ i < k)
    BY <1>1, <1>2
  <2>4. \A x, y \in 1..n : <<x, y>> \in less => <<y, x>> \notin less
    OBVIOUS
  <2>5. CASE <<i, j>> \in less /\ <<j, k>> \in less
    BY <2>5
  <2>6. CASE <<i, j>> \in less /\ <<k, j>> \notin less
    BY <2>6
  <2>7. CASE <<j, i>> \notin less /\ <<j, k>> \in less
    BY <2>7
  <2>8. CASE <<j, i>> \notin less /\ i < j /\ <<k, j>> \notin less /\ j < k
    <3>1. i < k
      BY <2>8
    <3>2. <<k, i>> \notin less
      BY <2>8
    <3> QED
      BY <3>1, <3>2
  <2> QED
    BY <2>1, <2>2, <2>5, <2>6, <2>7, <2>8
<1> QED
  BY <1>1, <1>3, <1>4, <1>5 DEF Orders

(* The largest of some numbers is one of them.                             *)
LEMMA LargestOne ==
  ASSUME NEW S, S \subseteq Nat, IsFiniteSet(S), S # {}
  PROVE  Max(S) \in S
<1>0. PICK n \in Nat : ExistsBijection(1..n, S)
  BY FS_NatBijection
<1>1. PICK f \in Bijection(1..n, S) : TRUE
  BY <1>0 DEF ExistsBijection
<1>2. f \in [1..n -> S] /\ \A x \in S : \E k \in 1..n : f[k] = x
  BY <1>1 DEF Bijection, Injection, Surjection, IsInjective
<1> DEFINE T == {k \in 0..n : k = 0 \/ \E m \in 1..k : \A l \in 1..k : f[m] >= f[l]}
<1>3. 0 \in T
  OBVIOUS
<1>4. \A k \in 0..n - 1 : k \in T => k + 1 \in T
  <2> SUFFICES ASSUME NEW k \in 0..n - 1, k \in T
               PROVE  k + 1 \in 0..n /\ \E m \in 1..k + 1 : \A l \in 1..k + 1 : f[m] >= f[l]
    OBVIOUS
  <2>0. k + 1 \in 0..n /\ k + 1 \in 1..k + 1
    OBVIOUS
  <2>1. \A l \in 1..k + 1 : l \in 1..n /\ f[l] \in Nat /\ (l \in 1..k \/ l = k + 1)
    <3> SUFFICES ASSUME NEW l \in 1..k + 1
                 PROVE  l \in 1..n /\ f[l] \in Nat /\ (l \in 1..k \/ l = k + 1)
      OBVIOUS
    <3>1. l \in 1..n /\ (l \in 1..k \/ l = k + 1)
      OBVIOUS
    <3>2. f[l] \in S
      BY <1>2, <3>1
    <3> QED
      BY <3>1, <3>2
  <2>2. CASE k = 0
    <3>1. f[k + 1] >= f[k + 1] /\ \A l \in 1..k + 1 : l = k + 1
      BY <2>0, <2>1, <2>2
    <3> QED
      BY <2>0, <3>1
  <2>3. CASE k # 0
    <3>1. PICK m \in 1..k : \A l \in 1..k : f[m] >= f[l]
      BY <2>3
    <3>2. m \in 1..k + 1 /\ f[m] \in Nat /\ f[k + 1] \in Nat
      BY <2>0, <2>1
    <3>3. CASE f[m] >= f[k + 1]
      BY <2>0, <2>1, <3>1, <3>2, <3>3
    <3>4. CASE f[k + 1] >= f[m]
      <4>1. \A l \in 1..k : f[k + 1] >= f[l]
        <5> SUFFICES ASSUME NEW l \in 1..k PROVE f[k + 1] >= f[l]
          OBVIOUS
        <5>1. f[l] \in Nat /\ f[m] >= f[l]
          BY <2>1, <3>1
        <5> QED
          BY <3>2, <3>4, <5>1
      <4>2. f[k + 1] >= f[k + 1]
        BY <3>2
      <4> QED
        BY <2>0, <2>1, <4>1, <4>2
    <3>5. f[m] >= f[k + 1] \/ f[k + 1] >= f[m]
      BY <3>2
    <3> QED
      BY <2>0, <3>3, <3>4, <3>5
  <2> QED
    BY <2>2, <2>3
<1>5. n \in T
  <2>1. \A k \in 0..n : k \in T
    <3> HIDE DEF T
    <3> QED
      BY <1>3, <1>4, Upwards
  <2>2. n \in 0..n
    OBVIOUS
  <2> HIDE DEF T
  <2> QED
    BY <2>1, <2>2
<1>6. n # 0
  <2>1. n = 0 => 1..n = {}
    OBVIOUS
  <2> QED
    BY <1>2, <2>1
<1>7. PICK m \in 1..n : \A l \in 1..n : f[m] >= f[l]
  BY <1>5, <1>6
<1>8. f[m] \in S /\ \A y \in S : f[m] >= y
  BY <1>2, <1>7
<1> QED
  BY <1>8 DEF Max

-----------------------------------------------------------------------------
(* The projects, in the order of the inventory.                            *)

(* What compareRecent looks at.                                            *)
Timed(item) == item.activity.active \in BOOLEAN /\ item.activity.last \in Int

(* The positions whose elements come before the i-th.                      *)
BusierThan(s, i) ==
  {j \in DOMAIN s : Busier(s[j], s[i]) \/ (~Busier(s[i], s[j]) /\ j < i)}

(* That t is s with those that are active, then those used last, first.    *)
SortsBusier(t, s) == t = StableSort(s, Busier)

(* Sorting by activity keeps the items, and their order if it is this one. *)
LEMMA BusierFirst ==
  ASSUME NEW V, NEW s \in Seq(V), \A n \in DOMAIN s : Timed(s[n]),
         NEW t, SortsBusier(t, s)
  PROVE  /\ t \in Seq(V) /\ Len(t) = Len(s) /\ SameElements(t, s)
         /\ UniqueIds(s) => UniqueIds(t)
         /\ \A m, n \in DOMAIN s : m < n => ~Busier(t[n], t[m])
         /\ (\A m, n \in DOMAIN s : m < n => ~Busier(s[n], s[m])) => t = s
<1> DEFINE N == Len(s)
           Rank(i) == IF s[i].activity.active THEN 1 ELSE 0
           last(i) == s[i].activity.last
           less == {p \in (1..N) \X (1..N) : Busier(s[p[1]], s[p[2]])}
           ahead == [i \in 1..N |->
             {j \in 1..N : <<j, i>> \in less \/ (<<i, j>> \notin less /\ j < i)}]
           at == [n \in DOMAIN s |-> CHOOSE i \in DOMAIN s : Cardinality(BusierThan(s, i)) = n - 1]
<1>1. N \in Nat /\ DOMAIN s = 1..N
  OBVIOUS
<1>2. \A i, j \in 1..N : <<i, j>> \in less <=> Busier(s[i], s[j])
  OBVIOUS
<1>3. \A i \in 1..N : Rank(i) \in Int /\ last(i) \in Int
  BY <1>1 DEF Timed
<1>4. \A i, j \in 1..N : Busier(s[i], s[j]) <=>
        Rank(i) > Rank(j) \/ (Rank(i) = Rank(j) /\ last(i) > last(j))
  <2> SUFFICES ASSUME NEW i \in 1..N, NEW j \in 1..N
      PROVE Busier(s[i], s[j]) <=>
              Rank(i) > Rank(j) \/ (Rank(i) = Rank(j) /\ last(i) > last(j))
    OBVIOUS
  <2>1. s[i].activity.active \in BOOLEAN /\ s[j].activity.active \in BOOLEAN
    BY <1>1 DEF Timed
  <2> QED
    BY <2>1 DEF Busier
<1> HIDE DEF N, Rank, last, less
<1>5. Orders(N, ahead)
  <2>1. \A i \in 1..N : <<i, i>> \notin less
    BY <1>2, <1>3, <1>4
  <2>2. \A i, j, k \in 1..N : <<i, j>> \in less /\ <<j, k>> \in less => <<i, k>> \in less
    BY <1>2, <1>3, <1>4
  <2>3. \A i, j, k \in 1..N : <<i, k>> \in less => <<i, j>> \in less \/ <<j, k>> \in less
    BY <1>2, <1>3, <1>4
  <2>4. ahead = [i \in 1..N |->
          {j \in 1..N : <<j, i>> \in less \/ (<<i, j>> \notin less /\ j < i)}]
    OBVIOUS
  <2> HIDE DEF ahead
  <2> QED
    BY <1>1, <2>1, <2>2, <2>3, <2>4, StableOrders
<1>6. \A i \in 1..N : ahead[i] = BusierThan(s, i)
  BY <1>1, <1>2 DEF BusierThan
<1>7. t = [n \in DOMAIN s |-> s[at[n]]]
  BY DEF SortsBusier, StableSort, BusierThan
<1> HIDE DEF ahead
<1>8. \A n \in DOMAIN s : at[n] \in DOMAIN s /\ Cardinality(ahead[at[n]]) = n - 1
  <2> SUFFICES ASSUME NEW n \in 1..N PROVE at[n] \in 1..N /\ Cardinality(ahead[at[n]]) = n - 1
    BY <1>1
  <2>1. \E i \in 1..N : Cardinality(ahead[i]) = n - 1
    BY <1>1, <1>5, RanksAreAll
  <2>2. \E i \in DOMAIN s : Cardinality(BusierThan(s, i)) = n - 1
    BY <1>1, <1>6, <2>1
  <2>3. at[n] \in DOMAIN s /\ Cardinality(BusierThan(s, at[n])) = n - 1
    BY <1>1, <2>2
  <2> QED
    BY <1>1, <1>6, <2>3
<1> HIDE DEF at
<1>9. /\ t \in Seq(V) /\ Len(t) = N /\ SameElements(t, s)
      /\ UniqueIds(s) => UniqueIds(t)
      /\ \A m, n \in DOMAIN s : m < n => at[m] \in ahead[at[n]]
      /\ (\A i \in DOMAIN s : ahead[i] = 1..i - 1) => t = s
  <2>1. PutInOrder(s, ahead, at, t)
    BY <1>5, <1>7, <1>8 DEF N, PutInOrder
  <2> QED
    BY <2>1, SortedByRank DEF N
<1>10. ASSUME NEW m \in DOMAIN s, NEW n \in DOMAIN s, m < n PROVE ~Busier(t[n], t[m])
  <2>1. at[m] \in BusierThan(s, at[n]) /\ at[m] \in 1..N /\ at[n] \in 1..N
    BY <1>1, <1>6, <1>8, <1>9, <1>10
  <2>2. Busier(s[at[m]], s[at[n]]) \/ ~Busier(s[at[n]], s[at[m]])
    BY <2>1 DEF BusierThan
  <2>3. ~Busier(s[at[n]], s[at[m]])
    BY <1>3, <1>4, <2>1, <2>2
  <2> QED
    BY <1>7, <2>3
<1>11. ASSUME \A m, n \in DOMAIN s : m < n => ~Busier(s[n], s[m]) PROVE t = s
  <2>1. \A i \in 1..N : ahead[i] = 1..i - 1
    <3> SUFFICES ASSUME NEW i \in 1..N PROVE BusierThan(s, i) = 1..i - 1
      BY <1>6
    <3>1. ASSUME NEW j \in 1..N, j < i PROVE j \in BusierThan(s, i)
      BY <1>1, <1>11, <3>1 DEF BusierThan
    <3>2. ASSUME NEW j \in BusierThan(s, i) PROVE j < i
      <4>1. j \in 1..N /\ (Busier(s[j], s[i]) \/ j < i)
        BY <1>1 DEF BusierThan
      <4>2. ~Busier(s[i], s[i])
        BY <1>3, <1>4
      <4>3. j < i \/ j = i \/ i < j
        BY <1>1, <4>1
      <4> QED
        BY <1>1, <1>11, <4>1, <4>2, <4>3
    <3>3. \A j : j \in BusierThan(s, i) => j \in 1..N
      BY <1>1 DEF BusierThan
    <3>4. \A j : j \in 1..i - 1 <=> j \in 1..N /\ j < i
      BY <1>1
    <3> QED
      BY <3>1, <3>2, <3>3, <3>4
  <2> QED
    BY <1>1, <1>9, <2>1
<1> QED
  BY <1>9, <1>10, <1>11 DEF N

-----------------------------------------------------------------------------
(* The catalog of an inventory.                                            *)

(* The smaller of two numbers.                                             *)
LEMMA SmallerOne ==
  ASSUME NEW a \in Nat, NEW b \in Nat
  PROVE  Min({a, b}) = IF a <= b THEN a ELSE b
<1> DEFINE m == IF a <= b THEN a ELSE b
<1>1. m \in {a, b} /\ \A x \in {a, b} : m <= x
  OBVIOUS
<1>2. \A y \in {a, b} : (\A x \in {a, b} : y <= x) => y = m
  OBVIOUS
<1> HIDE DEF m
<1>3. Min({a, b}) = m
  BY <1>1, <1>2 DEF Min
<1> QED
  BY <1>3 DEF m

(* All that the host lists.                                                *)
Hosted == UNION {ToSet(projects) : projects \in ListedHosts}

(* A project that is an option: it has fitting texts, and is not scanned.  *)
Unscanned(i) ==
  /\ i.id \notin UnsafeIds /\ i.label \notin UnsafeTexts
  /\ i.scan = [state |-> "not_scanned", items |-> <<>>]
  /\ Timed(i) /\ i.activity.last >= Never

(* What the host lists as a known project makes one.                       *)
LEMMA OptionIsOne ==
  ASSUME NEW p \in Hosted, p.id \notin UnsafeIds
  PROVE  /\ Unscanned(Option(p)) /\ Option(p).id = p.id
         /\ Option(p).label \in {p.name, <<"Project", p.id>>}
<1>1. /\ IsFiniteSet(p.threads) /\ \A t \in p.threads : t.at \in Nat
      /\ <<"Project", p.id>> \notin UnsafeTexts
  BY SnapshotAssumption DEF Hosted
<1>2. OptionLabel(p) \notin UnsafeTexts /\ OptionLabel(p) \in {p.name, <<"Project", p.id>>}
  BY <1>1 DEF OptionLabel
<1> DEFINE seen == {t \in p.threads : t.visible}
           times == {t.at : t \in seen}
           busy == \E t \in seen : t.busy
           last == IF seen = {} THEN Never ELSE Max(times)
<1>3. last \in Int /\ last >= Never
  <2>1. CASE seen = {}
    BY <2>1 DEF Never
  <2>2. CASE seen # {}
    <3>1. IsFiniteSet(seen)
      BY <1>1, FS_Subset
    <3>2. times \subseteq Nat /\ times # {}
      BY <1>1, <2>2
    <3>3. IsFiniteSet(times)
      <4> DEFINE f == [t \in seen |-> t.at]
      <4>1. f \in [seen -> times] /\ \A x \in times : \E t \in seen : f[t] = x
        OBVIOUS
      <4>2. f \in Surjection(seen, times)
        <5> HIDE DEF f, seen, times
        <5> QED
          BY <4>1, Fun_IsSurj
      <4> HIDE DEF f, seen, times
      <4> QED
        BY <3>1, <4>2, FS_Surjection
    <3>4. Max(times) \in Nat
      <4> HIDE DEF times
      <4> QED
        BY <3>2, <3>3, LargestOne
    <3> HIDE DEF times
    <3> QED
      BY <2>2, <3>4 DEF Never
  <2> HIDE DEF seen, times
  <2> QED
    BY <2>1, <2>2
<1>4. Activity(p.threads) = [active |-> busy, last |-> last]
  BY DEF Activity
<1>5. busy \in BOOLEAN
  OBVIOUS
<1> HIDE DEF busy, last
<1>6. Option(p) = [id |-> p.id, label |-> OptionLabel(p),
                   activity |-> [active |-> busy, last |-> last],
                   scan |-> [state |-> "not_scanned", items |-> <<>>]]
  BY <1>4 DEF Option
<1>7. Timed(Option(p)) /\ Option(p).activity.last >= Never
  BY <1>3, <1>5, <1>6 DEF Timed
<1> QED
  BY <1>2, <1>6, <1>7 DEF Unscanned

(* The catalog of an inventory has no more projects than there may be,     *)
(* each once and none scanned, in order; it is partial if it is cut.       *)
IsInventory(c) ==
  /\ c.truncated \in BOOLEAN
  /\ c = [state |-> IF c.truncated THEN "partial" ELSE "ready",
          truncated |-> c.truncated, items |-> c.items]
  /\ c.items \in Seq({Option(p) : p \in Hosted})
  /\ Len(c.items) <= MaxListed /\ UniqueIds(c.items)
  /\ \A k \in DOMAIN c.items : Unscanned(c.items[k])
  /\ \A m, n \in DOMAIN c.items : m < n => ~Busier(c.items[n], c.items[m])

(* What loadProjectInventory makes of the host's projects is one; it has   *)
(* known projects of this machine only, and each known one unless it is    *)
(* cut, in which case one is missing.                                      *)
LEMMA LoadedIsInventory ==
  ASSUME NEW projects \in ListedHosts
  PROVE  /\ IsInventory(Loaded(projects))
         /\ ~Loaded(projects).truncated =>
              \A k \in DOMAIN projects : projects[k].id \notin UnsafeIds =>
                /\ SourceFor(projects[k]) # {}
                /\ \E n \in DOMAIN Loaded(projects).items :
                     Loaded(projects).items[n] = Option(projects[k])
         /\ \A n \in DOMAIN Loaded(projects).items : \E k \in DOMAIN projects :
              /\ projects[k].id \notin UnsafeIds /\ SourceFor(projects[k]) # {}
              /\ Loaded(projects).items[n] = Option(projects[k])
         /\ Loaded(projects).truncated =>
              \E k \in DOMAIN projects :
                /\ projects[k].id \notin UnsafeIds
                /\ \A n \in DOMAIN Loaded(projects).items :
                     Loaded(projects).items[n].id # projects[k].id
<1> DEFINE H == ToSet(projects)
           I == {Option(p) : p \in Hosted}
           knownAt == {n \in DOMAIN projects : projects[n].id \notin UnsafeIds}
           known == Known(projects)
           eligibleAt == {n \in DOMAIN known : SourceFor(known[n]) # {}}
           eligible == Eligible(projects)
           made == [n \in DOMAIN eligible |-> Option(eligible[n])]
           options == Options(projects)
           size == IF Len(options) <= MaxListed THEN Len(options) ELSE MaxListed
           partly == Len(eligible) < Len(known) \/ Len(options) > MaxListed
           items == SubSeq(options, 1, size)
<1>1. MaxListed \in Nat /\ projects \in Seq(H) /\ UniqueIds(projects) /\ H \subseteq Hosted
      /\ H = {projects[n] : n \in DOMAIN projects}
  BY SnapshotAssumption DEF Hosted, ToSet
<1> HIDE DEF H
<1>2. /\ known \in Seq(H) /\ UniqueIds(known)
      /\ ToSet(known) = {projects[n] : n \in knownAt}
  BY <1>1, KeptHolds DEF Known
<1>3. /\ eligible \in Seq(H) /\ UniqueIds(eligible) /\ Len(eligible) <= Len(known)
      /\ ToSet(eligible) = {known[n] : n \in eligibleAt}
      /\ Len(eligible) = Len(known) <=> eligibleAt = DOMAIN known
  <2>1. eligible = Kept(known, eligibleAt) /\ eligibleAt \subseteq DOMAIN known
    BY DEF Eligible
  <2> HIDE DEF known, eligible, eligibleAt
  <2> QED
    BY <1>2, <2>1, KeptHolds
<1> HIDE DEF known, eligible
<1>4. \A n \in DOMAIN known : known[n] \in H /\ known[n].id \notin UnsafeIds
  <2> SUFFICES ASSUME NEW n \in DOMAIN known PROVE known[n] \in H /\ known[n].id \notin UnsafeIds
    OBVIOUS
  <2>1. known[n] \in ToSet(known)
    BY DEF ToSet
  <2> QED
    BY <1>1, <1>2, <2>1
<1>5. \A n \in DOMAIN eligible : eligible[n] \in Hosted /\ eligible[n].id \notin UnsafeIds
  <2> SUFFICES ASSUME NEW n \in DOMAIN eligible
      PROVE eligible[n] \in Hosted /\ eligible[n].id \notin UnsafeIds
    OBVIOUS
  <2>1. eligible[n] \in ToSet(eligible)
    BY DEF ToSet
  <2>2. PICK m \in DOMAIN known : eligible[n] = known[m]
    BY <1>3, <2>1
  <2> QED
    BY <1>1, <1>4, <2>2
<1>6. /\ made \in Seq(I) /\ Len(made) = Len(eligible) /\ UniqueIds(made)
      /\ DOMAIN made = DOMAIN eligible
      /\ \A n \in DOMAIN made : Unscanned(made[n]) /\ made[n] = Option(eligible[n])
  <2>1. DOMAIN eligible = 1..Len(eligible) /\ Len(eligible) \in Nat
    BY <1>3
  <2>2. \A n \in DOMAIN eligible : /\ Unscanned(Option(eligible[n]))
                                   /\ Option(eligible[n]).id = eligible[n].id
                                   /\ Option(eligible[n]) \in I
    BY <1>5, OptionIsOne
  <2>3. made \in [1..Len(eligible) -> I]
    BY <2>1, <2>2
  <2>4. made \in Seq(I)
    BY <2>1, <2>3, SeqDef
  <2>5. UniqueIds(made)
    BY <1>3, <2>2 DEF UniqueIds
  <2>6. DOMAIN made = 1..Len(made) /\ Len(made) \in Nat /\ DOMAIN made = DOMAIN eligible
    <3> HIDE DEF made
    <3> QED
      BY <2>1, <2>3, <2>4, LenProperties
  <2>7. Len(made) = Len(eligible)
    <3> HIDE DEF made
    <3>1. 1..Len(made) = 1..Len(eligible) /\ Len(made) \in Nat /\ Len(eligible) \in Nat
      BY <2>1, <2>6
    <3>2. \A a, b \in Nat : 1..a = 1..b => a = b
      OBVIOUS
    <3> QED
      BY <3>1, <3>2
  <2> QED
    BY <2>2, <2>4, <2>5, <2>6, <2>7
<1>7. SortsBusier(options, made)
  BY DEF SortsBusier, Options, eligible
<1> HIDE DEF made, options, I
<1>8. /\ options \in Seq(I) /\ Len(options) = Len(made) /\ SameElements(options, made)
      /\ UniqueIds(options)
      /\ \A m, n \in DOMAIN made : m < n => ~Busier(options[n], options[m])
  <2>1. \A n \in DOMAIN made : Timed(made[n])
    BY <1>6 DEF Unscanned
  <2> QED
    BY <1>6, <1>7, <2>1, BusierFirst
<1>9. /\ size \in Nat /\ size <= MaxListed /\ size <= Len(options) /\ Len(options) \in Nat
      /\ DOMAIN options = 1..Len(options) /\ DOMAIN made = DOMAIN options
  BY <1>1, <1>6, <1>8
<1>10. Loaded(projects) = [state |-> IF partly THEN "partial" ELSE "ready", truncated |-> partly,
                           items |-> items]
  <2>1. Min({Len(options), MaxListed}) = size
    BY <1>1, <1>9, SmallerOne
  <2>2. Loaded(projects) = CatalogOf(options, partly)
    BY DEF Loaded, options, eligible, known
  <2> HIDE DEF partly
  <2> QED
    BY <2>1, <2>2 DEF CatalogOf
<1>11. items \in Seq(I) /\ Len(items) = size /\ DOMAIN items = 1..size
       /\ \A n \in 1..size : n \in DOMAIN options /\ items[n] = options[n]
  <2> HIDE DEF size
  <2> QED
    BY <1>8, <1>9
<1>12. partly \in BOOLEAN
  OBVIOUS
<1>13. \A k \in DOMAIN options : Unscanned(options[k])
  BY <1>6, <1>8 DEF SameElements
<1>14. ASSUME ~partly, NEW k \in DOMAIN projects, projects[k].id \notin UnsafeIds
       PROVE  SourceFor(projects[k]) # {} /\ \E n \in DOMAIN items : items[n] = Option(projects[k])
  <2>1. Len(eligible) = Len(known) /\ Len(options) <= MaxListed
    BY <1>2, <1>3, <1>9, <1>14
  <2>2. projects[k] \in ToSet(known)
    BY <1>2, <1>14
  <2>3. PICK m \in DOMAIN known : known[m] = projects[k]
    BY <2>2 DEF ToSet
  <2>4. m \in eligibleAt
    BY <1>3, <2>1
  <2>5. projects[k] \in ToSet(eligible)
    BY <1>3, <2>3, <2>4
  <2>6. PICK j \in DOMAIN eligible : eligible[j] = projects[k]
    BY <2>5 DEF ToSet
  <2>7. j \in DOMAIN made /\ made[j] = Option(projects[k])
    BY <1>6, <2>6
  <2>8. PICK n \in DOMAIN options : options[n] = Option(projects[k])
    BY <1>8, <2>7 DEF SameElements
  <2>9. size = Len(options)
    BY <2>1
  <2>10. n \in 1..size
    BY <1>9, <2>9
  <2> QED
    BY <1>11, <2>3, <2>4, <2>8, <2>10
<1>20. ASSUME NEW n \in DOMAIN options
       PROVE  \E k \in DOMAIN projects :
                /\ projects[k].id \notin UnsafeIds /\ SourceFor(projects[k]) # {}
                /\ options[n] = Option(projects[k]) /\ options[n].id = projects[k].id
  <2>1. PICK j \in DOMAIN made : options[n] = made[j]
    BY <1>8, <1>9 DEF SameElements
  <2>2. j \in DOMAIN eligible /\ options[n] = Option(eligible[j])
    BY <1>6, <2>1
  <2>3. eligible[j] \in ToSet(eligible)
    BY <2>2 DEF ToSet
  <2>4. PICK m \in DOMAIN known : eligible[j] = known[m] /\ SourceFor(known[m]) # {}
    BY <1>3, <2>3
  <2>5. known[m] \in ToSet(known)
    BY DEF ToSet
  <2>6. PICK k \in DOMAIN projects : known[m] = projects[k]
    BY <1>2, <2>5
  <2>7. Option(eligible[j]).id = eligible[j].id /\ eligible[j].id \notin UnsafeIds
    BY <1>5, <2>2, OptionIsOne
  <2> QED
    BY <2>2, <2>4, <2>6, <2>7
<1>21. ASSUME partly
       PROVE  \E k \in DOMAIN projects :
                /\ projects[k].id \notin UnsafeIds
                /\ \A n \in DOMAIN items : items[n].id # projects[k].id
  <2>1. CASE Len(eligible) < Len(known)
    <3>1. Len(eligible) # Len(known)
      BY <1>2, <1>3, <2>1
    <3>2. PICK m \in DOMAIN known : SourceFor(known[m]) = {}
      BY <1>3, <3>1
    <3>3. known[m] \in ToSet(known)
      BY DEF ToSet
    <3>4. PICK k \in DOMAIN projects : known[m] = projects[k] /\ projects[k].id \notin UnsafeIds
      BY <1>2, <3>3
    <3>5. ASSUME NEW n \in DOMAIN items PROVE items[n].id # projects[k].id
      <4>1. n \in DOMAIN options /\ items[n] = options[n]
        BY <1>11
      <4>2. PICK l \in DOMAIN projects : SourceFor(projects[l]) # {} /\ options[n].id = projects[l].id
        BY <1>20, <4>1
      <4>3. l # k
        BY <3>2, <3>4, <4>2
      <4>4. projects[l].id # projects[k].id
        BY <1>1, <4>3 DEF UniqueIds
      <4> QED
        BY <4>1, <4>2, <4>4
    <3> QED
      BY <3>4, <3>5
  <2>2. CASE Len(options) > MaxListed
    <3>1. size + 1 \in DOMAIN options
      BY <1>1, <1>9, <2>2
    <3>2. PICK k \in DOMAIN projects :
            projects[k].id \notin UnsafeIds /\ options[size + 1].id = projects[k].id
      BY <1>20, <3>1
    <3>3. ASSUME NEW n \in DOMAIN items PROVE items[n].id # projects[k].id
      <4>1. n \in 1..size /\ n \in DOMAIN options /\ items[n] = options[n]
        BY <1>11
      <4>2. n # size + 1
        BY <1>9, <4>1
      <4> QED
        <5>1. options[n].id # options[size + 1].id
          BY <1>8, <3>1, <4>1, <4>2 DEF UniqueIds
        <5> QED
          BY <3>2, <4>1, <5>1
    <3> QED
      BY <3>2, <3>3
  <2> QED
    BY <1>21, <2>1, <2>2
<1> HIDE DEF partly, items, size
<1> DEFINE c == Loaded(projects)
<1>15. /\ c.truncated = partly /\ c.items = items
       /\ c = [state |-> IF partly THEN "partial" ELSE "ready",
               truncated |-> partly, items |-> items]
  BY <1>10
<1> HIDE DEF c
<1>16. UniqueIds(items)
  BY <1>8, <1>11 DEF UniqueIds
<1>17. \A m, n \in DOMAIN items : m < n => ~Busier(items[n], items[m])
  BY <1>8, <1>9, <1>11
<1>18. IsInventory(c)
  BY <1>9, <1>11, <1>12, <1>13, <1>15, <1>16, <1>17 DEF IsInventory, I
<1>19. ~c.truncated =>
         \A k \in DOMAIN projects : projects[k].id \notin UnsafeIds =>
           SourceFor(projects[k]) # {} /\ \E n \in DOMAIN c.items : c.items[n] = Option(projects[k])
  BY <1>14, <1>15
<1>22. \A n \in DOMAIN c.items : \E k \in DOMAIN projects :
         /\ projects[k].id \notin UnsafeIds /\ SourceFor(projects[k]) # {}
         /\ c.items[n] = Option(projects[k])
  BY <1>11, <1>15, <1>20
<1>23. c.truncated => \E k \in DOMAIN projects :
                        /\ projects[k].id \notin UnsafeIds
                        /\ \A n \in DOMAIN c.items : c.items[n].id # projects[k].id
  BY <1>15, <1>21
<1> QED
  BY <1>18, <1>19, <1>22, <1>23 DEF c

(* An inventory is a sequence that is in the panel's order already.        *)
LEMMA InOrderAlready ==
  ASSUME NEW c, IsInventory(c)
  PROVE  ProjectsPage(c).projects = c.items
<1> DEFINE t == ProjectsPage(c).projects
<1>1. SortsBusier(t, c.items)
  BY DEF ProjectsPage, SortsBusier
<1> HIDE DEF t
<1>2. /\ c.items \in Seq({Option(p) : p \in Hosted})
      /\ \A n \in DOMAIN c.items : Timed(c.items[n])
      /\ \A m, n \in DOMAIN c.items : m < n => ~Busier(c.items[n], c.items[m])
  BY DEF IsInventory, Unscanned
<1>3. t = c.items
  BY <1>1, <1>2, BusierFirst
<1> QED
  BY <1>3 DEF t

(* A known project that is filtered or cut off between loadProjectInventory*)
(* and the page of PluginWorkbenchView marks the catalog as cut, nothing   *)
(* else does, and a page with projects on it says so.                      *)
THEOREM InventoriesAreShown == NoProjectIsLost
<1> SUFFICES ASSUME NEW projects \in ListedHosts
             PROVE  LET c == Loaded(projects)
                        page == ProjectsPage(c)
                        Shown(p) == \E i \in ToSet(page.projects) :
                                      i.id = p.id /\ i.label \in {p.name, <<"Project", p.id>>}
                    IN  /\ page.projects = c.items
                        /\ \A i \in ToSet(page.projects) : \E p \in ToSet(projects) :
                             p.id = i.id /\ p.id \notin UnsafeIds /\ Len(p.sources) = 1
                        /\ c.truncated <=>
                             \E p \in ToSet(projects) : p.id \notin UnsafeIds /\ ~Shown(p)
                        /\ page.projects # <<>> =>
                             (page.says = "inventory_incomplete" <=> c.truncated)
  BY DEF NoProjectIsLost
<1> DEFINE c == Loaded(projects)
           page == ProjectsPage(c)
           Shown(p) == \E i \in ToSet(page.projects) :
                         i.id = p.id /\ i.label \in {p.name, <<"Project", p.id>>}
<1>1. /\ IsInventory(c)
      /\ ~c.truncated =>
           \A k \in DOMAIN projects : projects[k].id \notin UnsafeIds =>
             /\ SourceFor(projects[k]) # {}
             /\ \E n \in DOMAIN c.items : c.items[n] = Option(projects[k])
      /\ \A n \in DOMAIN c.items : \E k \in DOMAIN projects :
           /\ projects[k].id \notin UnsafeIds /\ SourceFor(projects[k]) # {}
           /\ c.items[n] = Option(projects[k])
      /\ c.truncated => \E k \in DOMAIN projects :
                          /\ projects[k].id \notin UnsafeIds
                          /\ \A n \in DOMAIN c.items : c.items[n].id # projects[k].id
  BY LoadedIsInventory
<1> HIDE DEF c
<1>2. page.projects = c.items
  BY <1>1, InOrderAlready
<1>3. page.says = IF c.items = <<>> THEN "no_local_projects"
                  ELSE IF c.truncated THEN "inventory_incomplete" ELSE "complete"
  BY <1>1 DEF ProjectsPage, IsInventory
<1> HIDE DEF page
<1>4. page.projects # <<>> => (page.says = "inventory_incomplete" <=> c.truncated)
  BY <1>1, <1>2, <1>3
<1>5. /\ ToSet(page.projects) = {c.items[n] : n \in DOMAIN c.items}
      /\ ToSet(projects) = {projects[k] : k \in DOMAIN projects}
  BY <1>2 DEF ToSet
<1>6. \A k \in DOMAIN projects : projects[k].id \notin UnsafeIds =>
        /\ Option(projects[k]).id = projects[k].id
        /\ Option(projects[k]).label \in {projects[k].name, <<"Project", projects[k].id>>}
  <2> SUFFICES ASSUME NEW k \in DOMAIN projects, projects[k].id \notin UnsafeIds
      PROVE  /\ Option(projects[k]).id = projects[k].id
             /\ Option(projects[k]).label \in {projects[k].name, <<"Project", projects[k].id>>}
    OBVIOUS
  <2>1. projects[k] \in Hosted
    BY DEF Hosted, ToSet
  <2> QED
    BY <2>1, OptionIsOne
<1>7. ASSUME NEW i \in ToSet(page.projects)
      PROVE  \E p \in ToSet(projects) : p.id = i.id /\ p.id \notin UnsafeIds /\ Len(p.sources) = 1
  <2>1. PICK n \in DOMAIN c.items : i = c.items[n]
    BY <1>5
  <2>2. PICK k \in DOMAIN projects :
          /\ projects[k].id \notin UnsafeIds /\ SourceFor(projects[k]) # {}
          /\ c.items[n] = Option(projects[k])
    BY <1>1
  <2>3. Len(projects[k].sources) = 1
    BY <2>2 DEF SourceFor
  <2> QED
    BY <1>5, <1>6, <2>1, <2>2, <2>3
<1>8. ASSUME ~c.truncated, NEW p \in ToSet(projects), p.id \notin UnsafeIds
      PROVE  Shown(p)
  <2>1. PICK k \in DOMAIN projects : p = projects[k]
    BY <1>5
  <2>2. Option(p) \in ToSet(page.projects)
    BY <1>1, <1>5, <1>8, <2>1
  <2>3. Option(p).id = p.id /\ Option(p).label \in {p.name, <<"Project", p.id>>}
    BY <1>6, <1>8, <2>1
  <2> QED
    BY <2>2, <2>3
<1>9. ASSUME c.truncated
      PROVE  \E p \in ToSet(projects) : p.id \notin UnsafeIds /\ ~Shown(p)
  <2>1. PICK k \in DOMAIN projects : /\ projects[k].id \notin UnsafeIds
                                     /\ \A n \in DOMAIN c.items : c.items[n].id # projects[k].id
    BY <1>1, <1>9
  <2>2. \A i \in ToSet(page.projects) : i.id # projects[k].id
    BY <1>5, <2>1
  <2>3. projects[k] \in ToSet(projects)
    BY <1>5
  <2> QED
    BY <2>1, <2>2, <2>3
<1>10. c.truncated \in BOOLEAN
  BY <1>1 DEF IsInventory
<1>11. c.truncated <=> \E p \in ToSet(projects) : p.id \notin UnsafeIds /\ ~Shown(p)
  BY <1>8, <1>9, <1>10
<1> QED
  BY <1>2, <1>4, <1>7, <1>11 DEF c, page

-----------------------------------------------------------------------------

(* The tasks of a target.                                                  *)

(* Which elements come before the i-th.                                    *)
LaterThan(s, i) ==
  {j \in DOMAIN s : s[j].at > s[i].at \/ (~(s[i].at > s[j].at) /\ j < i)}

(* That t is s with the latest first.                                      *)
SortsLatest(t, s) == t = StableSort(s, LAMBDA a, b : a.at > b.at)

(* Sorting by time keeps the elements.                                     *)
LEMMA LatestFirst ==
  ASSUME NEW V, NEW s \in Seq(V), \A n \in DOMAIN s : s[n].at \in Nat,
         NEW t, SortsLatest(t, s)
  PROVE  SameElements(t, s)
<1> DEFINE N == Len(s)
           less == {p \in (1..N) \X (1..N) : s[p[1]].at > s[p[2]].at}
           ahead == [i \in 1..N |->
             {j \in 1..N : <<j, i>> \in less \/ (<<i, j>> \notin less /\ j < i)}]
           at == [n \in DOMAIN s |-> CHOOSE i \in DOMAIN s : Cardinality(LaterThan(s, i)) = n - 1]
<1>1. N \in Nat /\ DOMAIN s = 1..N
  OBVIOUS
<1>2. \A i, j \in 1..N : <<i, j>> \in less <=> s[i].at > s[j].at
  OBVIOUS
<1>3. \A i \in 1..N : s[i].at \in Nat
  BY <1>1
<1> HIDE DEF N, less
<1>4. Orders(N, ahead)
  <2>1. \A i \in 1..N : <<i, i>> \notin less
    BY <1>2, <1>3
  <2>2. \A i, j, k \in 1..N : <<i, j>> \in less /\ <<j, k>> \in less => <<i, k>> \in less
    BY <1>2, <1>3
  <2>3. \A i, j, k \in 1..N : <<i, k>> \in less => <<i, j>> \in less \/ <<j, k>> \in less
    BY <1>2, <1>3
  <2>4. ahead = [i \in 1..N |->
          {j \in 1..N : <<j, i>> \in less \/ (<<i, j>> \notin less /\ j < i)}]
    OBVIOUS
  <2> HIDE DEF ahead
  <2> QED
    BY <1>1, <2>1, <2>2, <2>3, <2>4, StableOrders
<1>5. \A i \in 1..N : ahead[i] = LaterThan(s, i)
  BY <1>1, <1>2 DEF LaterThan
<1>6. t = [n \in DOMAIN s |-> s[at[n]]]
  BY DEF SortsLatest, StableSort, LaterThan
<1> HIDE DEF ahead
<1>7. \A n \in DOMAIN s : at[n] \in DOMAIN s /\ Cardinality(ahead[at[n]]) = n - 1
  <2> SUFFICES ASSUME NEW n \in 1..N PROVE at[n] \in 1..N /\ Cardinality(ahead[at[n]]) = n - 1
    BY <1>1
  <2>1. \E i \in 1..N : Cardinality(ahead[i]) = n - 1
    BY <1>1, <1>4, RanksAreAll
  <2>2. \E i \in DOMAIN s : Cardinality(LaterThan(s, i)) = n - 1
    BY <1>1, <1>5, <2>1
  <2>3. at[n] \in DOMAIN s /\ Cardinality(LaterThan(s, at[n])) = n - 1
    BY <1>1, <2>2
  <2> QED
    BY <1>1, <1>5, <2>3
<1> HIDE DEF at
<1>8. PutInOrder(s, ahead, at, t)
  BY <1>4, <1>6, <1>7 DEF N, PutInOrder
<1> QED
  BY <1>8, SortedByRank

(* The tasks on a target's page are its project's that are not archived,   *)
(* and no list is shown as complete before the host's answer has come.     *)
THEOREM PageHasItsTasks == TasksAreTheProjects
<1> SUFFICES ASSUME NEW sidebar \in Sidebars, NEW p \in Projects
             PROVE  LET tasks == ProjectTasks(sidebar, p)
                    IN  /\ tasks.state = "ready" <=> sidebar.status = "ready"
                        /\ tasks.state = "ready" =>
                             ToSet(tasks.items) =
                               {t \in ToSet(sidebar.threads) : t.project = p /\ ~t.archived}
  BY DEF TasksAreTheProjects
<1> DEFINE tasks == ProjectTasks(sidebar, p)
           threads == sidebar.threads
           V == ToSet(threads)
           listed == {n \in DOMAIN threads : threads[n].project = p /\ ~threads[n].archived}
           kept == Kept(threads, listed)
<1>1. /\ sidebar.status \in {"loading", "error", "ready"}
      /\ threads \in Seq(V) /\ \A t \in V : t.at \in Nat
  BY SnapshotAssumption
<1>2. tasks.state = "ready" <=> sidebar.status = "ready"
  BY <1>1 DEF ProjectTasks
<1>3. ASSUME sidebar.status = "ready" PROVE SortsLatest(tasks.items, kept)
  BY <1>3 DEF ProjectTasks, SortsLatest
<1>4. V = {threads[n] : n \in DOMAIN threads}
  BY DEF ToSet
<1> HIDE DEF tasks, V
<1>5. kept \in Seq(V) /\ ToSet(kept) = {threads[n] : n \in listed}
  <2>1. listed \subseteq DOMAIN threads
    OBVIOUS
  <2> HIDE DEF listed
  <2> QED
    BY <1>1, <2>1, KeptHolds
<1>6. \A n \in DOMAIN kept : kept[n].at \in Nat
  <2> HIDE DEF kept
  <2> QED
    BY <1>1, <1>5
<1>7. ToSet(kept) = {t \in V : t.project = p /\ ~t.archived}
  <2> HIDE DEF kept
  <2> QED
    BY <1>4, <1>5
<1> HIDE DEF kept, listed
<1>8. ASSUME sidebar.status = "ready"
      PROVE  ToSet(tasks.items) = ToSet(kept)
  <2>1. SameElements(tasks.items, kept)
    BY <1>3, <1>5, <1>6, <1>8, LatestFirst
  <2> QED
    BY <2>1 DEF SameElements, ToSet
<1> QED
  BY <1>2, <1>7, <1>8 DEF tasks, V

-----------------------------------------------------------------------------

(* The targets of a root.                                                  *)

(* The targets that an admission has.                                      *)
TargetsOf(a) == {f.target : f \in ToSet(a.found)}

(* What is grouped under a key of the first of those found.                *)
GroupTo(a, k) ==
  CHOOSE g : g = [n \in 0..Len(a.found) |->
    IF n = 0 THEN <<>>
    ELSE IF k \in UNION {KeysOf(a, root) : root \in a.found[n].roots}
    THEN AddTarget(g[n - 1], a.found[n].target)
    ELSE g[n - 1]]

(* It grows by the targets found for a root that the key was admitted as.  *)
LEMMA GroupSteps ==
  ASSUME NEW a \in Admissions, NEW k \in DOMAIN a.admittedAs
  PROVE  LET N == Len(a.found)
         IN  /\ GroupTo(a, k)[0] = <<>>
             /\ \A n \in 0..N : GroupTo(a, k)[n] \in Seq(TargetsOf(a))
             /\ \A n \in 0..N - 1 :
                  GroupTo(a, k)[n + 1] =
                    IF a.admittedAs[k] \in a.found[n + 1].roots
                    THEN AddTarget(GroupTo(a, k)[n], a.found[n + 1].target)
                    ELSE GroupTo(a, k)[n]
             /\ GroupsOf(a)[k] = GroupTo(a, k)[N]
<1> DEFINE N == Len(a.found)
           U == Seq(TargetsOf(a))
           For(n) == k \in UNION {KeysOf(a, root) : root \in a.found[n].roots}
           step == [n \in 1..N |->
                      [v \in U |-> IF For(n) THEN AddTarget(v, a.found[n].target) ELSE v]]
           G(g) == [n \in 0..N |-> IF n = 0 THEN <<>>
                      ELSE IF For(n) THEN AddTarget(g[n - 1], a.found[n].target) ELSE g[n - 1]]
           K == GroupTo(a, k)
<1>0. N \in Nat /\ \A n \in 1..N : a.found[n].target \in TargetsOf(a)
  <2>1. a.found \in Seq(ToSet(a.found))
    BY SnapshotAssumption
  <2> QED
    BY <2>1 DEF TargetsOf
<1>0a. \A n : For(n) <=> a.admittedAs[k] \in a.found[n].roots
  BY DEF KeysOf
<1> HIDE DEF For
<1>1. <<>> \in U /\ \A n \in 1..N : \A v \in U : step[n][v] \in U
  <2> HIDE DEF N
  <2>1. \A v \in U : \A t \in TargetsOf(a) : AddTarget(v, t) \in U
    BY DEF AddTarget
  <2> HIDE DEF U
  <2>2. <<>> \in U
    BY DEF U
  <2> QED
    BY <1>0, <2>1, <2>2
<1>2. PICK g : IsRun(g, N, U, <<>>, step)
  <2> HIDE DEF U, step, N
  <2> QED
    BY <1>0, <1>1, StepByStep
<1>3. g \in [0..N -> U] /\ g[0] = <<>> /\ \A n \in 1..N : g[n] = step[n][g[n - 1]]
  <2> HIDE DEF U, step, N
  <2> QED
    BY <1>2 DEF IsRun
<1>4. \A n \in 1..N : g[n] = IF For(n) THEN AddTarget(g[n - 1], a.found[n].target) ELSE g[n - 1]
  <2> SUFFICES ASSUME NEW n \in 1..N
      PROVE g[n] = IF For(n) THEN AddTarget(g[n - 1], a.found[n].target) ELSE g[n - 1]
    OBVIOUS
  <2>1. n - 1 \in 0..N /\ g[n - 1] \in U /\ g[n] = step[n][g[n - 1]]
    <3> HIDE DEF U, step, N
    <3> QED
      BY <1>0, <1>3
  <2> HIDE DEF U, N
  <2> QED
    BY <2>1
<1> HIDE DEF U, step, N
<1>5. g = G(g)
  <2>1. \A n \in 0..N : g[n] = G(g)[n]
    <3> SUFFICES ASSUME NEW n \in 0..N PROVE g[n] = G(g)[n]
      OBVIOUS
    <3>1. n = 0 \/ (n \in 1..N /\ n # 0)
      BY <1>0
    <3>2. G(g)[n] = IF n = 0 THEN <<>>
                    ELSE IF For(n) THEN AddTarget(g[n - 1], a.found[n].target) ELSE g[n - 1]
      OBVIOUS
    <3> HIDE DEF G
    <3> QED
      BY <1>3, <1>4, <3>1, <3>2
  <2>2. DOMAIN g = 0..N /\ g = [n \in 0..N |-> g[n]]
    BY <1>3
  <2> QED
    BY <2>1, <2>2
<1>6. K = G(K)
  BY <1>5 DEF GroupTo, N, For
<1>7. GroupsOf(a)[k] = K[N]
  BY DEF GroupsOf, GroupTo, N
<1> HIDE DEF K
<1>8. K[0] = <<>>
  BY <1>0, <1>6
<1>9. \A n \in 0..N - 1 :
        K[n + 1] = IF For(n + 1) THEN AddTarget(K[n], a.found[n + 1].target) ELSE K[n]
  <2> SUFFICES ASSUME NEW n \in 0..N - 1
      PROVE K[n + 1] = IF For(n + 1) THEN AddTarget(K[n], a.found[n + 1].target) ELSE K[n]
    OBVIOUS
  <2>1. n + 1 \in 0..N /\ n + 1 # 0 /\ n + 1 - 1 = n
    BY <1>0
  <2>2. K[n + 1] = G(K)[n + 1]
    BY <1>6
  <2>3. G(K)[n + 1] = IF n + 1 = 0 THEN <<>>
                      ELSE IF For(n + 1) THEN AddTarget(K[n + 1 - 1], a.found[n + 1].target)
                      ELSE K[n + 1 - 1]
    BY <2>1
  <2> HIDE DEF G
  <2> QED
    BY <2>1, <2>2, <2>3
<1> DEFINE S == {n \in 0..N : K[n] \in U}
<1>10. 0 \in S
  BY <1>0, <1>1, <1>8
<1>11. \A n \in 0..N - 1 : n \in S => n + 1 \in S
  <2> SUFFICES ASSUME NEW n \in 0..N - 1, K[n] \in U
      PROVE n + 1 \in 0..N /\ K[n + 1] \in U
    OBVIOUS
  <2>1. n + 1 \in 0..N /\ a.found[n + 1].target \in TargetsOf(a)
    BY <1>0
  <2>2. K[n + 1] = IF For(n + 1) THEN AddTarget(K[n], a.found[n + 1].target) ELSE K[n]
    BY <1>9
  <2>3. AddTarget(K[n], a.found[n + 1].target) \in U
    BY <2>1 DEF AddTarget, U
  <2> QED
    BY <2>1, <2>2, <2>3
<1>12. \A n \in 0..N : n \in S
  <2> HIDE DEF S
  <2> QED
    BY <1>0, <1>10, <1>11, Upwards
<1>13. \A n \in 0..N : K[n] \in U
  BY <1>12
<1> QED
  BY <1>0a, <1>7, <1>8, <1>9, <1>13 DEF K, N, U

(* A group has each target that was found for its root, and has it once.   *)
LEMMA GroupHolds ==
  ASSUME NEW a \in Admissions, NEW k \in DOMAIN a.admittedAs
  PROVE  LET group == GroupsOf(a)[k]
         IN  /\ group \in Seq(TargetsOf(a)) /\ UniqueIds(group)
             /\ \A f \in ToSet(a.found) : a.admittedAs[k] \in f.roots =>
                  \E n \in DOMAIN group : group[n].id = f.target.id
<1> DEFINE N == Len(a.found)
           K == GroupTo(a, k)
           In(m) == a.admittedAs[k] \in a.found[m].roots
           Has(n) == \A m \in 1..N : m <= n /\ In(m) =>
                       \E i \in DOMAIN K[n] : K[n][i].id = a.found[m].target.id
           S == {n \in 0..N : UniqueIds(K[n]) /\ Has(n)}
<1>0. N \in Nat /\ N \in 0..N /\ ToSet(a.found) = {a.found[m] : m \in 1..N}
  BY SnapshotAssumption DEF ToSet
<1>1. /\ K[0] = <<>> /\ \A n \in 0..N : K[n] \in Seq(TargetsOf(a))
      /\ \A n \in 0..N - 1 : K[n + 1] = IF In(n + 1) THEN AddTarget(K[n], a.found[n + 1].target)
                                        ELSE K[n]
      /\ GroupsOf(a)[k] = K[N]
  <2> HIDE DEF K
  <2> QED
    BY GroupSteps DEF K
<1> HIDE DEF K, N, In
<1>2. 0 \in S
  <2>1. K[0] = <<>> /\ DOMAIN K[0] = {} /\ 0 \in 0..N
    BY <1>0, <1>1
  <2>2. \A m \in 1..N : ~(m <= 0)
    BY <1>0
  <2> QED
    BY <2>1, <2>2 DEF UniqueIds
<1>3. \A n \in 0..N - 1 : n \in S => n + 1 \in S
  <2> SUFFICES ASSUME NEW n \in 0..N - 1, UniqueIds(K[n]), Has(n)
               PROVE  n + 1 \in 0..N /\ UniqueIds(K[n + 1]) /\ Has(n + 1)
    OBVIOUS
  <2>1. /\ n + 1 \in 0..N /\ n \in 0..N /\ n + 1 \in 1..N
        /\ \A m \in 1..N : m <= n + 1 <=> (m <= n \/ m = n + 1)
    BY <1>0
  <2>2. K[n] \in Seq(TargetsOf(a))
        /\ K[n + 1] = IF In(n + 1) THEN AddTarget(K[n], a.found[n + 1].target) ELSE K[n]
    BY <1>1, <2>1
  <2> DEFINE t == a.found[n + 1].target
             L == Len(K[n])
  <2>3. CASE ~In(n + 1)
    BY <2>1, <2>2, <2>3
  <2>4. CASE In(n + 1) /\ \E i \in DOMAIN K[n] : K[n][i].id = t.id
    <3>1. K[n + 1] = K[n]
      BY <2>2, <2>4 DEF AddTarget
    <3> QED
      BY <2>1, <2>4, <3>1
  <2>5. CASE In(n + 1) /\ ~ \E i \in DOMAIN K[n] : K[n][i].id = t.id
    <3>1. K[n + 1] = Append(K[n], t)
      BY <2>2, <2>5 DEF AddTarget
    <3>2. /\ L \in Nat /\ DOMAIN K[n] = 1..L /\ DOMAIN K[n + 1] = 1..L + 1
          /\ K[n + 1][L + 1] = t /\ \A i \in 1..L : K[n + 1][i] = K[n][i]
      BY <2>2, <3>1
    <3> HIDE DEF L, t
    <3>3. /\ \A i \in 1..L + 1 : i \in 1..L \/ i = L + 1
          /\ \A i \in 1..L : i \in 1..L + 1
          /\ L + 1 \in 1..L + 1
      BY <3>2
    <3>4. UniqueIds(K[n + 1])
      BY <2>5, <3>2, <3>3 DEF UniqueIds
    <3>5. Has(n + 1)
      <4> SUFFICES ASSUME NEW m \in 1..N, m <= n + 1, In(m)
                   PROVE  \E i \in DOMAIN K[n + 1] : K[n + 1][i].id = a.found[m].target.id
        OBVIOUS
      <4>1. CASE m <= n
        BY <3>2, <3>3, <4>1
      <4>2. CASE m = n + 1
        BY <3>2, <3>3, <4>2 DEF t
      <4> QED
        BY <2>1, <4>1, <4>2
    <3> QED
      BY <2>1, <3>4, <3>5
  <2> QED
    BY <2>3, <2>4, <2>5
<1>4. N \in S
  <2>1. \A n \in 0..N : n \in S
    <3> HIDE DEF S
    <3> QED
      BY <1>0, <1>2, <1>3, Upwards
  <2> HIDE DEF S
  <2> QED
    BY <1>0, <2>1
<1>5. \A m \in 1..N : m <= N
  BY <1>0
<1>6. K[N] \in Seq(TargetsOf(a)) /\ UniqueIds(K[N]) /\ Has(N)
  BY <1>0, <1>1, <1>4
<1>7. ASSUME NEW f \in ToSet(a.found), a.admittedAs[k] \in f.roots
      PROVE  \E i \in DOMAIN K[N] : K[N][i].id = f.target.id
  <2>1. PICK m \in 1..N : f = a.found[m]
    BY <1>0
  <2>2. In(m) /\ m <= N
    BY <1>5, <1>7, <2>1 DEF In
  <2> QED
    BY <1>6, <2>1, <2>2
<1> QED
  BY <1>1, <1>6, <1>7

(* The room that is left when the groups of the first keys are listed.     *)
RoomOf(a) ==
  CHOOSE room : room = [k \in 0..Len(a.admittedAs) |->
    IF k = 0 THEN MaxEntries
    ELSE room[k - 1] - Min({room[k - 1], Len(GroupsOf(a)[k])})]

(* It shrinks by what is listed, and never below nothing.                  *)
LEMMA RoomSteps ==
  ASSUME NEW a \in Admissions
  PROVE  LET room == RoomOf(a)
         IN  /\ room[0] = MaxEntries
             /\ \A k \in 0..Len(a.admittedAs) : room[k] \in Nat
             /\ \A k \in DOMAIN a.admittedAs :
                  /\ room[k] <= room[k - 1]
                  /\ room[k - 1] - room[k] <= Len(GroupsOf(a)[k])
<1> DEFINE N == Len(a.admittedAs)
           L(k) == Len(GroupsOf(a)[k])
           step == [k \in 1..N |-> [v \in Nat |-> v - Min({v, L(k)})]]
           G(g) == [k \in 0..N |-> IF k = 0 THEN MaxEntries
                      ELSE g[k - 1] - Min({g[k - 1], L(k)})]
           K == RoomOf(a)
<1>0. N \in Nat /\ DOMAIN a.admittedAs = 1..N /\ MaxEntries \in Nat
      /\ \A k \in 1..N : L(k) \in Nat
  <2>1. N \in Nat /\ DOMAIN a.admittedAs = 1..N /\ MaxEntries \in Nat
    BY SnapshotAssumption
  <2>2. ASSUME NEW k \in 1..N PROVE L(k) \in Nat
    <3>1. GroupsOf(a)[k] \in Seq(TargetsOf(a))
      BY <2>1, GroupHolds
    <3> QED
      BY <3>1
  <2> QED
    BY <2>1, <2>2
<1> HIDE DEF L, N
<1>1. \A k \in 1..N : \A v \in Nat : v - Min({v, L(k)}) = IF v <= L(k) THEN 0 ELSE v - L(k)
  BY <1>0, SmallerOne
<1>2. \A k \in 1..N : \A v \in Nat : step[k][v] \in Nat
  BY <1>0, <1>1
<1>3. PICK g : IsRun(g, N, Nat, MaxEntries, step)
  <2> HIDE DEF step
  <2> QED
    BY <1>0, <1>2, StepByStep
<1>4. g \in [0..N -> Nat] /\ g[0] = MaxEntries /\ \A k \in 1..N : g[k] = step[k][g[k - 1]]
  <2> HIDE DEF step
  <2> QED
    BY <1>3 DEF IsRun
<1>5. \A k \in 1..N : k - 1 \in 0..N /\ g[k] = g[k - 1] - Min({g[k - 1], L(k)})
  <2> SUFFICES ASSUME NEW k \in 1..N
      PROVE k - 1 \in 0..N /\ g[k] = g[k - 1] - Min({g[k - 1], L(k)})
    OBVIOUS
  <2>1. k - 1 \in 0..N /\ g[k] = step[k][g[k - 1]]
    <3> HIDE DEF step
    <3> QED
      BY <1>0, <1>4
  <2>2. g[k - 1] \in Nat
    BY <1>4, <2>1
  <2> QED
    BY <2>1, <2>2
<1> HIDE DEF step
<1>6. g = G(g)
  <2>1. \A k \in 0..N : g[k] = G(g)[k]
    <3> SUFFICES ASSUME NEW k \in 0..N PROVE g[k] = G(g)[k]
      OBVIOUS
    <3>1. k = 0 \/ (k \in 1..N /\ k # 0)
      BY <1>0
    <3>2. G(g)[k] = IF k = 0 THEN MaxEntries ELSE g[k - 1] - Min({g[k - 1], L(k)})
      OBVIOUS
    <3> HIDE DEF G
    <3> QED
      BY <1>4, <1>5, <3>1, <3>2
  <2>2. DOMAIN g = 0..N /\ g = [k \in 0..N |-> g[k]]
    BY <1>4
  <2> QED
    BY <2>1, <2>2
<1>7. K = G(K)
  BY <1>6 DEF RoomOf, N, L
<1> HIDE DEF K
<1>8. K[0] = MaxEntries
  BY <1>0, <1>7
<1>9. \A k \in 0..N - 1 : K[k + 1] = K[k] - Min({K[k], L(k + 1)})
  <2> SUFFICES ASSUME NEW k \in 0..N - 1 PROVE K[k + 1] = K[k] - Min({K[k], L(k + 1)})
    OBVIOUS
  <2>1. k + 1 \in 0..N /\ k + 1 # 0 /\ k + 1 - 1 = k
    BY <1>0
  <2>2. K[k + 1] = G(K)[k + 1]
    BY <1>7
  <2>3. G(K)[k + 1] = IF k + 1 = 0 THEN MaxEntries
                      ELSE K[k + 1 - 1] - Min({K[k + 1 - 1], L(k + 1)})
    BY <2>1
  <2> HIDE DEF G
  <2> QED
    BY <2>1, <2>2, <2>3
<1> DEFINE S == {k \in 0..N : K[k] \in Nat}
<1>10. 0 \in S
  BY <1>0, <1>8
<1>11. \A k \in 0..N - 1 : k \in S => k + 1 \in S
  <2> SUFFICES ASSUME NEW k \in 0..N - 1, K[k] \in Nat
      PROVE k + 1 \in 0..N /\ K[k + 1] \in Nat
    OBVIOUS
  <2>1. k + 1 \in 0..N /\ k + 1 \in 1..N /\ L(k + 1) \in Nat
    BY <1>0
  <2>2. K[k + 1] = IF K[k] <= L(k + 1) THEN 0 ELSE K[k] - L(k + 1)
    BY <1>1, <1>9, <2>1
  <2> QED
    BY <2>1, <2>2
<1>12. \A k \in 0..N : k \in S
  <2> HIDE DEF S
  <2> QED
    BY <1>0, <1>10, <1>11, Upwards
<1>13. \A k \in 0..N : K[k] \in Nat
  BY <1>12
<1>14. ASSUME NEW k \in 1..N PROVE K[k] <= K[k - 1] /\ K[k - 1] - K[k] <= L(k)
  <2>1. k - 1 \in 0..N - 1 /\ k - 1 \in 0..N /\ k - 1 + 1 = k /\ L(k) \in Nat
    BY <1>0
  <2>2. K[k] = IF K[k - 1] <= L(k) THEN 0 ELSE K[k - 1] - L(k)
    BY <1>1, <1>9, <1>13, <2>1
  <2> QED
    BY <1>13, <2>1, <2>2
<1> QED
  BY <1>0, <1>8, <1>13, <1>14 DEF K, L, N

(* A batch lists the first of each group, and all of one that is ready.    *)
IsPortion(entry, group, size) ==
  /\ entry.targets = SubSeq(group, 1, size)
  /\ entry.state \in {"ready", "partial"}
  /\ entry.state = "ready" => entry.targets = group

(* Together no more than the limit.                                        *)
LEMMA BatchHolds ==
  ASSUME NEW a \in Admissions
  PROVE  /\ DOMAIN Batch(a) = DOMAIN a.admittedAs
         /\ \A k \in DOMAIN a.admittedAs :
              IsPortion(Batch(a)[k], GroupsOf(a)[k], RoomOf(a)[k - 1] - RoomOf(a)[k])
<1> DEFINE targets(k) == SubSeq(GroupsOf(a)[k], 1, RoomOf(a)[k - 1] - RoomOf(a)[k])
           state(k) == IF targets(k) # GroupsOf(a)[k] \/ k \in a.partial
                       THEN "partial" ELSE "ready"
<1>1. Batch(a) = [k \in DOMAIN a.admittedAs |-> [state |-> state(k), targets |-> targets(k)]]
  BY DEF Batch, RoomOf
<1>2. \A k : /\ state(k) \in {"ready", "partial"}
             /\ state(k) = "ready" => targets(k) = GroupsOf(a)[k]
  OBVIOUS
<1>3. \A k : targets(k) = SubSeq(GroupsOf(a)[k], 1, RoomOf(a)[k - 1] - RoomOf(a)[k])
  OBVIOUS
<1> HIDE DEF state, targets
<1>4. ASSUME NEW k \in DOMAIN a.admittedAs
      PROVE  IsPortion(Batch(a)[k], GroupsOf(a)[k], RoomOf(a)[k - 1] - RoomOf(a)[k])
  <2>1. Batch(a)[k].targets = targets(k) /\ Batch(a)[k].state = state(k)
    BY <1>1
  <2> QED
    BY <1>2, <1>3, <2>1 DEF IsPortion
<1> QED
  BY <1>1, <1>4

-----------------------------------------------------------------------------
(* What contract and panel take.                                           *)

(* The number of targets of the first projects.                            *)
ListingTo(c) ==
  CHOOSE g : g = [k \in 0..Len(c.items) |->
    IF k = 0 THEN 0 ELSE g[k - 1] + Len(c.items[k].scan.items)]

(* If each project lists no more than some room shrinks by, all of them    *)
(* list no more than the limit.                                            *)
LEMMA ListingFits ==
  ASSUME NEW V, NEW c, c.items \in Seq(V), NEW room,
         \A k \in DOMAIN c.items : Len(c.items[k].scan.items) \in Nat,
         \A k \in 0..Len(c.items) : room[k] \in Nat,
         room[0] = MaxEntries,
         \A k \in DOMAIN c.items : Len(c.items[k].scan.items) <= room[k - 1] - room[k]
  PROVE  Listing(c) <= MaxEntries
<1> DEFINE N == Len(c.items)
           L(k) == Len(c.items[k].scan.items)
           step == [k \in 1..N |-> [v \in Nat |-> v + L(k)]]
           G(g) == [k \in 0..N |-> IF k = 0 THEN 0 ELSE g[k - 1] + L(k)]
           K == ListingTo(c)
<1>0. /\ N \in Nat /\ DOMAIN c.items = 1..N /\ MaxEntries \in Nat
      /\ \A k \in 1..N : L(k) \in Nat /\ L(k) <= room[k - 1] - room[k]
      /\ \A k \in 0..N : room[k] \in Nat
  BY SnapshotAssumption
<1> HIDE DEF L, N
<1>2. \A k \in 1..N : \A v \in Nat : step[k][v] \in Nat
  BY <1>0
<1>3. PICK g : IsRun(g, N, Nat, 0, step)
  <2> HIDE DEF step
  <2> QED
    BY <1>0, <1>2, StepByStep
<1>4. g \in [0..N -> Nat] /\ g[0] = 0 /\ \A k \in 1..N : g[k] = step[k][g[k - 1]]
  <2> HIDE DEF step
  <2> QED
    BY <1>3 DEF IsRun
<1>5. \A k \in 1..N : k - 1 \in 0..N /\ g[k] = g[k - 1] + L(k)
  <2> SUFFICES ASSUME NEW k \in 1..N PROVE k - 1 \in 0..N /\ g[k] = g[k - 1] + L(k)
    OBVIOUS
  <2>1. k - 1 \in 0..N /\ g[k] = step[k][g[k - 1]]
    <3> HIDE DEF step
    <3> QED
      BY <1>0, <1>4
  <2>2. g[k - 1] \in Nat
    BY <1>4, <2>1
  <2> QED
    BY <2>1, <2>2
<1> HIDE DEF step
<1>6. g = G(g)
  <2>1. \A k \in 0..N : g[k] = G(g)[k]
    <3> SUFFICES ASSUME NEW k \in 0..N PROVE g[k] = G(g)[k]
      OBVIOUS
    <3>1. k = 0 \/ (k \in 1..N /\ k # 0)
      BY <1>0
    <3>2. G(g)[k] = IF k = 0 THEN 0 ELSE g[k - 1] + L(k)
      OBVIOUS
    <3> HIDE DEF G
    <3> QED
      BY <1>4, <1>5, <3>1, <3>2
  <2>2. DOMAIN g = 0..N /\ g = [k \in 0..N |-> g[k]]
    BY <1>4
  <2> QED
    BY <2>1, <2>2
<1>7. K = G(K)
  BY <1>6 DEF ListingTo, N, L
<1>7a. Listing(c) = K[N]
  BY DEF Listing, ListingTo, N
<1> HIDE DEF K
<1>8. K[0] = 0
  BY <1>0, <1>7
<1>9. \A k \in 0..N - 1 : K[k + 1] = K[k] + L(k + 1)
  <2> SUFFICES ASSUME NEW k \in 0..N - 1 PROVE K[k + 1] = K[k] + L(k + 1)
    OBVIOUS
  <2>1. k + 1 \in 0..N /\ k + 1 # 0 /\ k + 1 - 1 = k
    BY <1>0
  <2>2. K[k + 1] = G(K)[k + 1]
    BY <1>7
  <2>3. G(K)[k + 1] = IF k + 1 = 0 THEN 0 ELSE K[k + 1 - 1] + L(k + 1)
    BY <2>1
  <2> HIDE DEF G
  <2> QED
    BY <2>1, <2>2, <2>3
<1> DEFINE S == {k \in 0..N : K[k] \in Nat /\ K[k] <= MaxEntries - room[k]}
<1>10. 0 \in S
  BY <1>0, <1>8
<1>11. \A k \in 0..N - 1 : k \in S => k + 1 \in S
  <2> SUFFICES ASSUME NEW k \in 0..N - 1, K[k] \in Nat, K[k] <= MaxEntries - room[k]
      PROVE k + 1 \in 0..N /\ K[k + 1] \in Nat /\ K[k + 1] <= MaxEntries - room[k + 1]
    OBVIOUS
  <2>1. k + 1 \in 0..N /\ k + 1 \in 1..N /\ k \in 0..N /\ k + 1 - 1 = k
    BY <1>0
  <2>2. L(k + 1) \in Nat /\ L(k + 1) <= room[k] - room[k + 1]
        /\ room[k] \in Nat /\ room[k + 1] \in Nat
    BY <1>0, <2>1
  <2>3. K[k + 1] = K[k] + L(k + 1)
    BY <1>9
  <2>4. \A x, l, r, s, m \in Nat : x <= m - r /\ l <= r - s => x + l \in Nat /\ x + l <= m - s
    OBVIOUS
  <2>5. K[k] + L(k + 1) \in Nat /\ K[k] + L(k + 1) <= MaxEntries - room[k + 1]
    <3> HIDE DEF S
    <3> QED
      BY <1>0, <2>2, <2>4
  <2> QED
    BY <2>1, <2>3, <2>5
<1>12. \A k \in 0..N : k \in S
  <2> HIDE DEF S
  <2> QED
    BY <1>0, <1>10, <1>11, Upwards
<1>13. K[N] \in Nat /\ K[N] <= MaxEntries - room[N] /\ room[N] \in Nat
  BY <1>0, <1>12
<1> QED
  BY <1>0, <1>7a, <1>13

(* A scan that both schemas take.                                          *)
ScanFits(scan) ==
  /\ scan.state \in {"not_scanned", "ready", "partial", "unavailable"}
  /\ scan.state \in {"not_scanned", "unavailable"} => scan.items = <<>>
  /\ Len(scan.items) \in Nat /\ Len(scan.items) <= MaxEntries
  /\ DOMAIN scan.items = 1..Len(scan.items) /\ UniqueIds(scan.items)
  /\ \A n \in DOMAIN scan.items : TargetFits(scan.items[n].label, scan.items[n])

(* A catalog that both take, if its state is the one its scans call for.   *)
CatalogFits(c) ==
  /\ c.state \in {"ready", "partial"}
  /\ Len(c.items) <= MaxListed /\ UniqueIds(c.items) /\ Listing(c) <= MaxEntries
  /\ \A k \in DOMAIN c.items :
       /\ c.items[k].id \notin UnsafeIds /\ c.items[k].label \notin UnsafeTexts
       /\ c.items[k].activity.last >= Never
       /\ ScanFits(c.items[k].scan)

(* That it is.                                                             *)
StateFits(c) ==
  c.state = "partial"
    <=> c.truncated \/ \E k \in DOMAIN c.items : ScanIncomplete(c.items[k].scan)

(* The contract of the backend and the parser of the panel agree.          *)
LEMMA BothTake ==
  ASSUME NEW c, CatalogFits(c)
  PROVE  /\ ContractTakes(c) <=> StateFits(c)
         /\ StateFits(c) => PanelTakes(c)
<1>1. \A k \in DOMAIN c.items : ParsesScan(c.items[k].scan)
  BY DEF CatalogFits, ScanFits, ParsesScan
<1> DEFINE incomplete == \E k \in DOMAIN c.items : ScanIncomplete(c.items[k].scan)
<1>2. ContractTakes(c) <=> (c.truncated \/ incomplete <=> c.state = "partial")
  BY DEF ContractTakes, CatalogFits, ScanFits
<1>3. PanelTakes(c) <=> (IF c.state = "partial" THEN c.truncated \/ incomplete
                         ELSE ~c.truncated /\ ~incomplete)
  BY <1>1 DEF PanelTakes, CatalogFits
<1> HIDE DEF incomplete
<1> QED
  BY <1>2, <1>3 DEF StateFits, incomplete

(* That d is the inventory c with other scans, which fit.                  *)
Rescans(d, c) ==
  /\ d.truncated = c.truncated /\ d.state \in {"ready", "partial"}
  /\ DOMAIN d.items = DOMAIN c.items /\ Len(d.items) = Len(c.items)
  /\ \A k \in DOMAIN c.items :
       /\ d.items[k].id = c.items[k].id /\ d.items[k].label = c.items[k].label
       /\ d.items[k].activity = c.items[k].activity
       /\ ScanFits(d.items[k].scan)
       /\ d.items[k].scan.state = "unavailable" =>
            d.items[k].scan.reason \in {"source_changed", "scan_failed"}

(* An option with another scan is the same option.                         *)
LEMMA WithScan ==
  ASSUME NEW i \in {Option(p) : p \in Hosted}, NEW scan
  PROVE  LET j == [i EXCEPT !.scan = scan]
         IN  j.id = i.id /\ j.label = i.label /\ j.activity = i.activity /\ j.scan = scan
<1>1. PICK p \in Hosted : i = Option(p)
  OBVIOUS
<1> QED
  BY <1>1 DEF Option

(* An inventory fits the schemas, and so do its other scans if they list   *)
(* no more than the limit.                                                 *)
LEMMA RescansFit ==
  ASSUME NEW c, IsInventory(c), NEW d, Rescans(d, c), Listing(d) <= MaxEntries
  PROVE  CatalogFits(d)
<1>1. UniqueIds(d.items)
  BY DEF IsInventory, Rescans, UniqueIds
<1> QED
  BY <1>1 DEF IsInventory, Rescans, Unscanned, CatalogFits

(* Listings of nothing fit.                                                *)
LEMMA EmptyListingFits ==
  ASSUME NEW V, NEW c, c.items \in Seq(V),
         \A k \in DOMAIN c.items : c.items[k].scan.items = <<>>
  PROVE  Listing(c) <= MaxEntries
<1> DEFINE room == [k \in 0..Len(c.items) |-> MaxEntries]
<1>1. MaxEntries \in Nat /\ Len(c.items) \in Nat /\ DOMAIN c.items = 1..Len(c.items)
  BY SnapshotAssumption
<1>2. \A k \in 0..Len(c.items) : room[k] = MaxEntries
  OBVIOUS
<1> HIDE DEF room
<1>3. \A k \in DOMAIN c.items : /\ Len(c.items[k].scan.items) = 0
                                /\ room[k] = MaxEntries /\ room[k - 1] = MaxEntries
  BY <1>1, <1>2
<1>4. room[0] = MaxEntries
  BY <1>1, <1>2
<1>5. \A k \in DOMAIN c.items : Len(c.items[k].scan.items) \in Nat
                                /\ Len(c.items[k].scan.items) <= room[k - 1] - room[k]
  BY <1>1, <1>3
<1> QED
  BY <1>1, <1>2, <1>4, <1>5, ListingFits

(* An inventory is what contract and panel take.                           *)
LEMMA InventoryFits ==
  ASSUME NEW c, IsInventory(c)
  PROVE  CatalogFits(c) /\ StateFits(c) /\ Rescans(c, c)
<1>1. /\ MaxEntries \in Nat /\ c.items \in Seq({Option(p) : p \in Hosted})
      /\ \A k \in DOMAIN c.items : c.items[k].scan = [state |-> "not_scanned", items |-> <<>>]
  BY SnapshotAssumption DEF IsInventory, Unscanned
<1>2. ScanFits([state |-> "not_scanned", items |-> <<>>])
  BY <1>1 DEF ScanFits, UniqueIds
<1>3. c.state = IF c.truncated THEN "partial" ELSE "ready"
  BY DEF IsInventory
<1>4. Rescans(c, c)
  BY <1>1, <1>2, <1>3 DEF Rescans
<1>5. Listing(c) <= MaxEntries
  BY <1>1, EmptyListingFits
<1>6. \A k \in DOMAIN c.items : ~ScanIncomplete(c.items[k].scan)
  BY <1>1 DEF ScanIncomplete
<1> QED
  BY <1>3, <1>4, <1>5, <1>6, RescansFit DEF StateFits, IsInventory

(* The answer of a failed refresh fits if its state does.                  *)
LEMMA FailedFits ==
  ASSUME NEW c, IsInventory(c), NEW reason \in {"source_changed", "scan_failed"}
  PROVE  CatalogFits(FailedAs(c, reason)) /\ Rescans(FailedAs(c, reason), c)
<1> DEFINE d == FailedAs(c, reason)
           I == {Option(p) : p \in Hosted}
           made == [k \in DOMAIN c.items |-> [c.items[k] EXCEPT !.scan = NoScan(reason)]]
<1>1. MaxEntries \in Nat /\ c.items \in Seq(I) /\ DOMAIN c.items = 1..Len(c.items)
      /\ Len(c.items) \in Nat
  BY SnapshotAssumption DEF IsInventory
<1>2. d = [state |-> "partial", truncated |-> c.truncated, items |-> made]
  BY DEF FailedAs
<1>3. \A k \in DOMAIN c.items :
        /\ made[k].id = c.items[k].id /\ made[k].label = c.items[k].label
        /\ made[k].activity = c.items[k].activity /\ made[k].scan = NoScan(reason)
  <2> SUFFICES ASSUME NEW k \in DOMAIN c.items
               PROVE  /\ made[k].id = c.items[k].id /\ made[k].label = c.items[k].label
                      /\ made[k].activity = c.items[k].activity /\ made[k].scan = NoScan(reason)
    OBVIOUS
  <2>1. c.items[k] \in I /\ made[k] = [c.items[k] EXCEPT !.scan = NoScan(reason)]
    BY <1>1
  <2> HIDE DEF made
  <2> QED
    BY <2>1, WithScan
<1>4. DOMAIN made = 1..Len(c.items)
  BY <1>1
<1>5. made \in Seq({made[k] : k \in 1..Len(c.items)}) /\ Len(made) = Len(c.items)
  <2>1. made \in [1..Len(c.items) -> {made[k] : k \in 1..Len(c.items)}]
    BY <1>1
  <2> HIDE DEF made
  <2>2. made \in Seq({made[k] : k \in 1..Len(c.items)})
    BY <1>1, <2>1, SeqDef
  <2>3. 1..Len(made) = 1..Len(c.items) /\ Len(made) \in Nat
    BY <1>4, <2>2, LenProperties
  <2>4. \A a, b \in Nat : 1..a = 1..b => a = b
    OBVIOUS
  <2> QED
    BY <1>1, <2>2, <2>3, <2>4
<1> HIDE DEF made
<1>6. ScanFits(NoScan(reason)) /\ NoScan(reason).items = <<>> /\ NoScan(reason).reason = reason
  BY <1>1 DEF ScanFits, NoScan, UniqueIds
<1>7. Rescans(d, c)
  BY <1>1, <1>2, <1>3, <1>4, <1>5, <1>6 DEF Rescans
<1>8. Listing(d) <= MaxEntries
  <2>1. d.items = made /\ \A k \in DOMAIN d.items : d.items[k].scan.items = <<>>
    BY <1>1, <1>2, <1>3, <1>4, <1>6
  <2> HIDE DEF d
  <2> QED
    BY <1>5, <2>1, EmptyListingFits
<1> QED
  BY <1>7, <1>8, RescansFit

(* A function on the first numbers is a sequence of that length.           *)
LEMMA FirstNumbers ==
  ASSUME NEW n \in Nat, NEW s, DOMAIN s = 1..n, s = [k \in DOMAIN s |-> s[k]]
  PROVE  s \in Seq({s[k] : k \in 1..n}) /\ Len(s) = n
<1>1. s \in [1..n -> {s[k] : k \in 1..n}]
  OBVIOUS
<1>2. s \in Seq({s[k] : k \in 1..n})
  BY <1>1, SeqDef
<1>3. 1..Len(s) = 1..n /\ Len(s) \in Nat
  BY <1>2, LenProperties
<1>4. \A a, b \in Nat : 1..a = 1..b => a = b
  OBVIOUS
<1> QED
  BY <1>2, <1>3, <1>4

(* The summaries of targets fit, and are of the same targets.              *)
LEMMA SummariesFit ==
  ASSUME NEW V, NEW targets \in Seq(V), UniqueIds(targets), Summaries(targets) # {},
         NEW s, s = CHOOSE x \in Summaries(targets) : TRUE
  PROVE  /\ Len(s) = Len(targets) /\ DOMAIN s = DOMAIN targets /\ UniqueIds(s)
         /\ \A n \in DOMAIN targets : s[n].id = targets[n].id
         /\ \A n \in DOMAIN s : TargetFits(s[n].label, s[n])
<1> DEFINE label(t) == IF TargetFits(t.name, t) THEN t.name ELSE t.pluginId
           summary(t) == [id |-> t.id, pluginId |-> t.pluginId, label |-> label(t)]
           made == [n \in DOMAIN targets |-> summary(targets[n])]
<1>1. /\ Summaries(targets) = {made}
      /\ \A n \in DOMAIN targets : TargetFits(targets[n].pluginId, targets[n])
  BY DEF Summaries
<1>2. s = made
  BY <1>1
<1>3. \A n \in DOMAIN targets :
        TargetFits(targets[n].pluginId, targets[n]) =>
          TargetFits(summary(targets[n]).label, summary(targets[n]))
  BY DEF TargetFits
<1>4. \A n \in DOMAIN targets : s[n] = summary(targets[n])
  BY <1>2
<1>5. DOMAIN s = DOMAIN targets /\ s = [n \in DOMAIN s |-> s[n]]
  BY <1>2
<1>6. \A t : summary(t).id = t.id
  OBVIOUS
<1> HIDE DEF made, summary
<1>7. Len(s) = Len(targets)
  <2>1. DOMAIN s = 1..Len(targets) /\ Len(targets) \in Nat
    BY <1>5
  <2> QED
    BY <1>5, <2>1, FirstNumbers
<1>8. UniqueIds(s)
  BY <1>4, <1>5, <1>6 DEF UniqueIds
<1> QED
  BY <1>1, <1>3, <1>4, <1>5, <1>6, <1>7, <1>8

(* What the k-th project's scan becomes.                                   *)
ScanOf(a, k) ==
  IF Summaries(Batch(a)[k].targets) # {}
  THEN [state |-> Batch(a)[k].state, items |-> CHOOSE s \in Summaries(Batch(a)[k].targets) : TRUE]
  ELSE NoScan("scan_failed")

(* It fits, lists no more than there is room for, and if it is ready then  *)
(* it lists all that was found for its root.                               *)
LEMMA ScanOfFits ==
  ASSUME NEW a \in Admissions, NEW k \in DOMAIN a.admittedAs
  PROVE  LET scan == ScanOf(a, k)
         IN  /\ ScanFits(scan)
             /\ Len(scan.items) <= RoomOf(a)[k - 1] - RoomOf(a)[k]
             /\ \/ scan.state \in {"ready", "partial"}
                \/ scan = NoScan("scan_failed")
             /\ scan.state = "ready" =>
                  \A f \in ToSet(a.found) : a.admittedAs[k] \in f.roots =>
                    \E n \in DOMAIN scan.items : scan.items[n].id = f.target.id
<1> DEFINE scan == ScanOf(a, k)
           group == GroupsOf(a)[k]
           size == RoomOf(a)[k - 1] - RoomOf(a)[k]
           entry == Batch(a)[k]
           T == TargetsOf(a)
<1>1. /\ group \in Seq(T) /\ UniqueIds(group)
      /\ \A f \in ToSet(a.found) : a.admittedAs[k] \in f.roots =>
           \E n \in DOMAIN group : group[n].id = f.target.id
  BY GroupHolds
<1>2. size \in Nat /\ size <= Len(group) /\ size <= MaxEntries /\ MaxEntries \in Nat
  <2> DEFINE room == RoomOf(a)
             N == Len(a.admittedAs)
             S == {m \in 0..N : room[m] <= MaxEntries}
  <2>1. /\ room[0] = MaxEntries /\ \A m \in 0..N : room[m] \in Nat
        /\ \A m \in DOMAIN a.admittedAs :
             room[m] <= room[m - 1] /\ room[m - 1] - room[m] <= Len(GroupsOf(a)[m])
    <3> HIDE DEF room
    <3> QED
      BY RoomSteps DEF room
  <2>2. N \in Nat /\ DOMAIN a.admittedAs = 1..N /\ MaxEntries \in Nat
    BY SnapshotAssumption
  <2> HIDE DEF room, N
  <2>3. 0 \in S
    BY <2>1, <2>2
  <2>4. \A m \in 0..N - 1 : m \in S => m + 1 \in S
    <3> SUFFICES ASSUME NEW m \in 0..N - 1, room[m] <= MaxEntries
                 PROVE  m + 1 \in 0..N /\ room[m + 1] <= MaxEntries
      OBVIOUS
    <3>1. m + 1 \in 0..N /\ m \in 0..N /\ m + 1 \in 1..N /\ m + 1 - 1 = m
      BY <2>2
    <3>2. room[m + 1] <= room[m] /\ room[m] \in Nat /\ room[m + 1] \in Nat
      <4> HIDE DEF S
      <4>1. m + 1 \in DOMAIN a.admittedAs
        BY <2>2, <3>1
      <4>2. room[m + 1] <= room[(m + 1) - 1]
        BY <2>1, <4>1
      <4>3. room[m] \in Nat /\ room[m + 1] \in Nat
        BY <2>1, <3>1
      <4> QED
        BY <3>1, <4>2, <4>3
    <3> QED
      BY <2>2, <3>1, <3>2
  <2>5. \A m \in 0..N : m \in S
    <3> HIDE DEF S
    <3> QED
      BY <2>2, <2>3, <2>4, Upwards
  <2>6. k \in 0..N /\ k - 1 \in 0..N
    BY <2>2
  <2>7. room[k - 1] \in Nat /\ room[k] \in Nat /\ room[k - 1] <= MaxEntries
        /\ room[k] <= room[k - 1] /\ room[k - 1] - room[k] <= Len(group)
    BY <2>1, <2>5, <2>6
  <2>8. size = room[k - 1] - room[k]
    BY DEF room
  <2> HIDE DEF size, group
  <2> QED
    BY <2>2, <2>7, <2>8
<1>3. IsPortion(entry, group, size)
  BY BatchHolds
<1> HIDE DEF group, size, entry, T
<1>4. /\ entry.targets \in Seq(T) /\ Len(entry.targets) = size /\ UniqueIds(entry.targets)
      /\ entry.state \in {"ready", "partial"}
      /\ entry.state = "ready" => entry.targets = group
  <2>1. entry.targets = SubSeq(group, 1, size)
    BY <1>3 DEF IsPortion
  <2>2. /\ entry.targets \in Seq(T) /\ Len(entry.targets) = size
        /\ DOMAIN entry.targets = 1..size
        /\ \A n \in 1..size : n \in DOMAIN group /\ entry.targets[n] = group[n]
    BY <1>1, <1>2, <2>1
  <2>3. UniqueIds(entry.targets)
    BY <1>1, <2>2 DEF UniqueIds
  <2> QED
    BY <1>3, <2>2, <2>3 DEF IsPortion
<1>5. CASE Summaries(entry.targets) = {}
  <2>1. scan = NoScan("scan_failed")
    BY <1>5 DEF ScanOf, entry
  <2> HIDE DEF scan
  <2> QED
    BY <1>2, <2>1 DEF NoScan, ScanFits, UniqueIds, scan, size
<1>6. CASE Summaries(entry.targets) # {}
  <2> DEFINE s == CHOOSE x \in Summaries(entry.targets) : TRUE
  <2>1. scan = [state |-> entry.state, items |-> s]
    BY <1>6 DEF ScanOf, entry
  <2>2. /\ Len(s) = Len(entry.targets) /\ DOMAIN s = DOMAIN entry.targets /\ UniqueIds(s)
        /\ \A n \in DOMAIN entry.targets : s[n].id = entry.targets[n].id
        /\ \A n \in DOMAIN s : TargetFits(s[n].label, s[n])
    BY <1>4, <1>6, SummariesFit
  <2> HIDE DEF s, scan
  <2>3. ScanFits(scan)
    BY <1>2, <1>4, <2>1, <2>2 DEF ScanFits
  <2>4. Len(scan.items) <= size
    BY <1>2, <1>4, <2>1, <2>2
  <2>5. scan.state = "ready" =>
          \A f \in ToSet(a.found) : a.admittedAs[k] \in f.roots =>
            \E n \in DOMAIN scan.items : scan.items[n].id = f.target.id
    BY <1>1, <1>4, <2>1, <2>2
  <2> QED
    BY <1>4, <2>1, <2>3, <2>4, <2>5 DEF scan, size
<1> QED
  BY <1>5, <1>6

(* What scannedCatalog makes of an answer of the controller fits.          *)
LEMMA ScannedFits ==
  ASSUME NEW c, IsInventory(c), NEW a \in AnswersTo(c)
  PROVE  LET d == ScannedAs(c, Batch(a))
         IN  /\ CatalogFits(d) /\ StateFits(d) /\ Rescans(d, c)
             /\ DOMAIN c.items = DOMAIN a.admittedAs
             /\ \A k \in DOMAIN c.items : d.items[k].scan = ScanOf(a, k)
<1> DEFINE d == ScannedAs(c, Batch(a))
           I == {Option(p) : p \in Hosted}
           N == Len(c.items)
           scan(k) == IF k \in DOMAIN Batch(a) /\ Summaries(Batch(a)[k].targets) # {}
                      THEN [state |-> Batch(a)[k].state,
                            items |-> CHOOSE s \in Summaries(Batch(a)[k].targets) : TRUE]
                      ELSE NoScan("scan_failed")
           made == [k \in DOMAIN c.items |-> [c.items[k] EXCEPT !.scan = scan(k)]]
           incomplete == \E k \in DOMAIN made : ScanIncomplete(made[k].scan)
<1>1. /\ a \in Admissions /\ c.items \in Seq(I) /\ N \in Nat
      /\ DOMAIN c.items = 1..N /\ DOMAIN a.admittedAs = 1..N /\ Len(a.admittedAs) = N
  BY SnapshotAssumption DEF AnswersTo, IsInventory
<1>2. d = [state |-> IF c.truncated \/ incomplete THEN "partial" ELSE "ready",
           truncated |-> c.truncated, items |-> made]
  BY DEF ScannedAs
<1>3. \A k \in DOMAIN c.items : scan(k) = ScanOf(a, k)
  BY <1>1, BatchHolds DEF ScanOf
<1> HIDE DEF d, scan, I
<1>4. \A k \in DOMAIN c.items :
        /\ made[k].id = c.items[k].id /\ made[k].label = c.items[k].label
        /\ made[k].activity = c.items[k].activity /\ made[k].scan = ScanOf(a, k)
  <2> SUFFICES ASSUME NEW k \in DOMAIN c.items
               PROVE  /\ made[k].id = c.items[k].id /\ made[k].label = c.items[k].label
                      /\ made[k].activity = c.items[k].activity /\ made[k].scan = ScanOf(a, k)
    OBVIOUS
  <2>1. c.items[k] \in I /\ made[k] = [c.items[k] EXCEPT !.scan = ScanOf(a, k)]
    BY <1>1, <1>3
  <2> HIDE DEF made
  <2> QED
    BY <2>1, WithScan DEF I
<1>5. DOMAIN made = 1..N /\ made \in Seq({made[k] : k \in 1..N}) /\ Len(made) = N
  <2>1. DOMAIN made = 1..N /\ made = [k \in DOMAIN made |-> made[k]]
    BY <1>1
  <2> HIDE DEF made
  <2> QED
    BY <1>1, <2>1, FirstNumbers
<1> HIDE DEF made
<1>6. \A k \in 1..N :
        /\ ScanFits(ScanOf(a, k))
        /\ Len(ScanOf(a, k).items) <= RoomOf(a)[k - 1] - RoomOf(a)[k]
        /\ ScanOf(a, k).state \in {"ready", "partial"} \/ ScanOf(a, k) = NoScan("scan_failed")
  BY <1>1, ScanOfFits
<1>7. \A k \in 1..N : ScanOf(a, k).state = "unavailable" => ScanOf(a, k).reason = "scan_failed"
  BY <1>6 DEF NoScan
<1> HIDE DEF incomplete, N
<1>8. Rescans(d, c)
  BY <1>1, <1>2, <1>4, <1>5, <1>6, <1>7 DEF Rescans, N
<1>9. Listing(d) <= MaxEntries
  <2> DEFINE room == RoomOf(a)
  <2>1. room[0] = MaxEntries /\ \A k \in 0..N : room[k] \in Nat
    BY <1>1, RoomSteps
  <2>2. \A k \in 1..N : /\ Len(d.items[k].scan.items) \in Nat
                        /\ Len(d.items[k].scan.items) <= room[k - 1] - room[k]
    BY <1>1, <1>2, <1>4, <1>6 DEF ScanFits
  <2>3. d.items \in Seq({made[k] : k \in 1..N}) /\ Len(d.items) = N /\ DOMAIN d.items = 1..N
    BY <1>2, <1>5
  <2> HIDE DEF room
  <2> QED
    BY <2>1, <2>2, <2>3, ListingFits
<1>10. CatalogFits(d)
  BY <1>8, <1>9, RescansFit
<1>11. StateFits(d)
  <2>1. d.items = made /\ d.truncated = c.truncated
        /\ d.state = IF c.truncated \/ incomplete THEN "partial" ELSE "ready"
    BY <1>2
  <2> QED
    BY <2>1 DEF StateFits, incomplete
<1> QED
  BY <1>1, <1>2, <1>4, <1>8, <1>10, <1>11 DEF d

-----------------------------------------------------------------------------
(* What the backend's module sees of a catalog.                            *)

(* What it sees of a scan.                                                 *)
ScanSeen(scan) == IF scan.state = "unavailable" THEN scan.reason ELSE scan.state

(* A brief has what is seen of each project's scan.                        *)
LEMMA BriefHolds ==
  ASSUME NEW c, UniqueIds(c.items)
  PROVE  /\ Brief(c) = [state |-> c.state, truncated |-> c.truncated, scans |-> Brief(c).scans]
         /\ DOMAIN Brief(c).scans = {c.items[k].id : k \in DOMAIN c.items}
         /\ Brief(c).scans = [p \in DOMAIN Brief(c).scans |-> Brief(c).scans[p]]
         /\ \A k \in DOMAIN c.items : Brief(c).scans[c.items[k].id] = ScanSeen(c.items[k].scan)
<1> DEFINE ids == {c.items[k].id : k \in DOMAIN c.items}
           of(p) == CHOOSE i \in ToSet(c.items) : i.id = p
           scans == [p \in ids |-> ScanSeen(of(p).scan)]
<1>1. Brief(c) = [state |-> c.state, truncated |-> c.truncated, scans |-> scans]
  BY DEF Brief, ScanSeen
<1>2. ASSUME NEW k \in DOMAIN c.items PROVE of(c.items[k].id) = c.items[k]
  <2>1. c.items[k] \in ToSet(c.items)
    BY DEF ToSet
  <2>2. of(c.items[k].id) \in ToSet(c.items) /\ of(c.items[k].id).id = c.items[k].id
    BY <2>1
  <2> HIDE DEF of
  <2>3. PICK n \in DOMAIN c.items : of(c.items[k].id) = c.items[n]
    BY <2>2 DEF ToSet
  <2>4. n = k
    BY <2>2, <2>3 DEF UniqueIds
  <2> QED
    BY <2>3, <2>4
<1>3. \A k \in DOMAIN c.items : scans[c.items[k].id] = ScanSeen(c.items[k].scan)
  <2> SUFFICES ASSUME NEW k \in DOMAIN c.items
               PROVE scans[c.items[k].id] = ScanSeen(c.items[k].scan)
    OBVIOUS
  <2>1. c.items[k].id \in ids
    OBVIOUS
  <2>2. scans[c.items[k].id] = ScanSeen(of(c.items[k].id).scan)
    BY <2>1
  <2> HIDE DEF scans, of
  <2> QED
    BY <1>2, <2>2
<1>4. DOMAIN scans = ids /\ scans = [p \in DOMAIN scans |-> scans[p]]
  OBVIOUS
<1> HIDE DEF scans
<1> QED
  BY <1>1, <1>3, <1>4

(* The schema of a catalog asks of its brief what it asks of the catalog.  *)
LEMMA ValidBriefs ==
  ASSUME NEW c, NEW d, CatalogFits(d), Rescans(d, c)
  PROVE  Valid(Brief(d)) <=> StateFits(d)
<1>1. /\ d.state \in {"ready", "partial"} /\ UniqueIds(d.items)
      /\ \A k \in DOMAIN d.items :
           /\ d.items[k].scan.state \in {"not_scanned", "ready", "partial", "unavailable"}
           /\ d.items[k].scan.state = "unavailable" =>
                d.items[k].scan.reason \in {"source_changed", "scan_failed"}
  BY DEF CatalogFits, Rescans, ScanFits
<1> DEFINE b == Brief(d)
<1>2. /\ b = [state |-> d.state, truncated |-> d.truncated, scans |-> b.scans]
      /\ DOMAIN b.scans = {d.items[k].id : k \in DOMAIN d.items}
      /\ \A k \in DOMAIN d.items : b.scans[d.items[k].id] = ScanSeen(d.items[k].scan)
  BY <1>1, BriefHolds
<1> HIDE DEF b
<1>3. \A k \in DOMAIN d.items :
        ScanSeen(d.items[k].scan) \notin {"ready", "not_scanned"}
          <=> ScanIncomplete(d.items[k].scan)
  BY <1>1 DEF ScanSeen, ScanIncomplete
<1>4. Incomplete(b.scans) <=> \E k \in DOMAIN d.items : ScanIncomplete(d.items[k].scan)
  BY <1>2, <1>3 DEF Incomplete
<1>5. b.state = d.state /\ b.truncated = d.truncated
  BY <1>2
<1>6. Valid(b) <=> (d.truncated \/ Incomplete(b.scans) <=> d.state = "partial")
  BY <1>1, <1>5 DEF Valid
<1> QED
  BY <1>4, <1>6 DEF StateFits, b

(* The schemas of workbench-contract.ts and the parser of the panel take   *)
(* every inventory and every result of a scan, for any limits; the answer  *)
(* of a failed refresh they take just when the backend's own schema does.  *)
THEOREM BothEndsOfTheWireAgree == BothEndsAgree
<1> SUFFICES ASSUME NEW c \in Inventories
             PROVE  /\ ContractTakes(c) /\ PanelTakes(c)
                    /\ \A reason \in {"source_changed", "scan_failed"} :
                         /\ ContractTakes(FailedAs(c, reason)) <=> Valid(Brief(FailedAs(c, reason)))
                         /\ ContractTakes(FailedAs(c, reason)) => PanelTakes(FailedAs(c, reason))
                    /\ \A a \in AnswersTo(c) :
                         /\ ContractTakes(ScannedAs(c, Batch(a)))
                         /\ PanelTakes(ScannedAs(c, Batch(a)))
                         /\ Valid(Brief(ScannedAs(c, Batch(a))))
  BY DEF BothEndsAgree
<1>1. IsInventory(c)
  BY LoadedIsInventory DEF Inventories
<1>2. ContractTakes(c) /\ PanelTakes(c)
  BY <1>1, InventoryFits, BothTake
<1>3. ASSUME NEW reason \in {"source_changed", "scan_failed"}
      PROVE  /\ ContractTakes(FailedAs(c, reason)) <=> Valid(Brief(FailedAs(c, reason)))
             /\ ContractTakes(FailedAs(c, reason)) => PanelTakes(FailedAs(c, reason))
  BY <1>1, FailedFits, BothTake, ValidBriefs
<1>4. ASSUME NEW a \in AnswersTo(c)
      PROVE  /\ ContractTakes(ScannedAs(c, Batch(a)))
             /\ PanelTakes(ScannedAs(c, Batch(a)))
             /\ Valid(Brief(ScannedAs(c, Batch(a))))
  BY <1>1, ScannedFits, BothTake, ValidBriefs
<1> QED
  BY <1>2, <1>3, <1>4

(* Ids that differ are as many as what they are of.                        *)
LEMMA DistinctIds ==
  ASSUME NEW s, Len(s) \in Nat, DOMAIN s = 1..Len(s), UniqueIds(s)
  PROVE  Cardinality({t.id : t \in ToSet(s)}) = Len(s)
<1> DEFINE D == 1..Len(s)
           T == {t.id : t \in ToSet(s)}
           f == [n \in D |-> s[n].id]
<1>1. T = {s[n].id : n \in D}
  BY DEF ToSet
<1> HIDE DEF T
<1>2. /\ f \in [D -> T] /\ \A t \in T : \E n \in D : f[n] = t
      /\ \A m, n \in D : f[m] = f[n] => m = n
  BY <1>1 DEF UniqueIds
<1>3. f \in Bijection(D, T)
  <2> HIDE DEF D, f
  <2> QED
    BY <1>2, Fun_IsBij
<1>4. IsFiniteSet(D) /\ Cardinality(D) = Len(s)
  <2>1. IsFiniteSet(1..Len(s))
        /\ Cardinality(1..Len(s)) = IF 1 > Len(s) THEN 0 ELSE Len(s) - 1 + 1
    BY FS_Interval
  <2> QED
    BY <2>1
<1> HIDE DEF D, f
<1>5. Cardinality(T) = Cardinality(D)
  BY <1>3, <1>4, FS_Bijection DEF ExistsBijection
<1> QED
  BY <1>4, <1>5 DEF T

(* A target that the controller wrote is not called gone on its page, in   *)
(* any project it was found for, however the groups of several aliases     *)
(* share the limit; a project shown as scanned shows all that was found.   *)
THEOREM WrittenTargetsAreShown == NoTargetIsDenied
<1> SUFFICES ASSUME NEW c \in Inventories, NEW a \in AnswersTo(c),
                    NEW f \in ToSet(a.found), NEW k \in DOMAIN a.admittedAs,
                    a.admittedAs[k] \in f.roots
             PROVE  LET result == ScannedAs(c, Batch(a))
                        project == result.items[k]
                        row == ProjectRow(project)
                        page == TargetPage(result, project.id, f.target.id, Silent)
                    IN  /\ page.view # "no longer available"
                        /\ page.view = "target" => page.target = f.target.id
                        /\ row.counted # {} /\ ~row.incomplete =>
                             /\ row.line.says = "plugins"
                             /\ row.counted = {Cardinality({t.id : t \in ToSet(row.line.plugins)})}
                             /\ \E t \in ToSet(row.line.plugins) : t.id = f.target.id
  BY DEF NoTargetIsDenied
<1> DEFINE result == ScannedAs(c, Batch(a))
           project == result.items[k]
           scan == project.scan
           targetId == f.target.id
           row == ProjectRow(project)
           page == TargetPage(result, project.id, targetId, Silent)
           Found(items) == \E t \in ToSet(items) : t.id = targetId
<1>1. IsInventory(c)
  BY LoadedIsInventory DEF Inventories
<1>2. /\ UniqueIds(result.items) /\ k \in DOMAIN result.items
      /\ scan = ScanOf(a, k) /\ ScanFits(scan) /\ result.state # "unavailable"
  BY <1>1, ScannedFits DEF CatalogFits, Rescans
<1>3. /\ scan.state \in {"ready", "partial"} \/ scan = NoScan("scan_failed")
      /\ scan.state = "ready" => Found(scan.items)
  <2>1. a \in Admissions
    BY DEF AnswersTo
  <2>2. /\ scan.state \in {"ready", "partial"} \/ scan = NoScan("scan_failed")
        /\ scan.state = "ready" => \E n \in DOMAIN scan.items : scan.items[n].id = targetId
    <3> HIDE DEF scan
    <3> QED
      BY <1>2, <2>1, ScanOfFits
  <2> HIDE DEF scan, targetId
  <2> QED
    BY <2>2 DEF ToSet
<1> HIDE DEF result
<1>4. {p \in ToSet(result.items) : p.id = project.id} = {project}
  BY <1>2 DEF ToSet, UniqueIds
<1> HIDE DEF project
<1>5. page = IF Found(scan.items)
             THEN DetailPage(project,
                             CHOOSE t \in {t \in ToSet(scan.items) : t.id = targetId} : TRUE,
                             ProjectTasks(Silent, project.id))
             ELSE MissingPage(MissingReason(result, {project}))
  <2> DEFINE P == {p \in ToSet(result.items) : p.id = project.id}
             matching == {t \in ToSet(scan.items) : t.id = targetId}
             U == UNION {{t \in ToSet(p.scan.items) : t.id = targetId} : p \in P}
             tasks == ProjectTasks(Silent, project.id)
  <2>1. page = IF U # {}
               THEN DetailPage(CHOOSE p \in P : TRUE, CHOOSE t \in U : TRUE, tasks)
               ELSE MissingPage(MissingReason(result, P))
    BY DEF TargetPage
  <2>2. P = {project}
    BY <1>4
  <2> HIDE DEF P, page
  <2>3. U = matching
    BY <2>2
  <2> HIDE DEF U
  <2>4. (CHOOSE p \in {project} : TRUE) = project
    OBVIOUS
  <2>5. Found(scan.items) <=> matching # {}
    OBVIOUS
  <2> HIDE DEF tasks, Found
  <2>6. page = IF matching # {}
               THEN DetailPage(project, CHOOSE t \in matching : TRUE, tasks)
               ELSE MissingPage(MissingReason(result, {project}))
    BY <2>1, <2>2, <2>3, <2>4
  <2> QED
    BY <2>5, <2>6 DEF tasks
<1>6. page.view # "no longer available" /\ (page.view = "target" => page.target = targetId)
  <2>1. CASE Found(scan.items)
    <3> DEFINE t == CHOOSE t \in {u \in ToSet(scan.items) : u.id = targetId} : TRUE
    <3>1. t.id = targetId
      BY <2>1
    <3>2. page = DetailPage(project, t, ProjectTasks(Silent, project.id))
      BY <1>5, <2>1
    <3> HIDE DEF t, page
    <3> QED
      BY <3>1, <3>2 DEF DetailPage
  <2>2. CASE ~Found(scan.items)
    <3>1. scan.state = "partial" \/ scan = NoScan("scan_failed")
      BY <1>3, <2>2
    <3>2. MissingReason(result, {project}) \in {"scan_incomplete", "scan_failed"}
      BY <1>2, <3>1 DEF MissingReason, NoScan
    <3>3. page = MissingPage(MissingReason(result, {project}))
      BY <1>5, <2>2
    <3> HIDE DEF page
    <3> QED
      BY <3>2, <3>3 DEF MissingPage
  <2> QED
    BY <2>1, <2>2
<1> HIDE DEF page
<1>7. ASSUME row.counted # {}, ~row.incomplete
      PROVE  /\ row.line.says = "plugins"
             /\ row.counted = {Cardinality({t.id : t \in ToSet(row.line.plugins)})}
             /\ Found(row.line.plugins)
  <2>1. scan.state = "ready" /\ row.counted = {Len(scan.items)} /\ row.line = ProjectLine(scan)
    BY <1>7 DEF ProjectRow
  <2>2. Found(scan.items) /\ scan.items # <<>>
    BY <1>3, <2>1 DEF ToSet
  <2>3. row.line.says = "plugins" /\ row.line.plugins = scan.items
    BY <2>1, <2>2 DEF ProjectLine
  <2>4. Cardinality({t.id : t \in ToSet(scan.items)}) = Len(scan.items)
    BY <1>2, DistinctIds DEF ScanFits
  <2> HIDE DEF row
  <2> QED
    BY <2>1, <2>2, <2>3, <2>4
<1> QED
  BY <1>6, <1>7 DEF page, row, project, result

-----------------------------------------------------------------------------
(* What the backend answers.                                               *)

(* The catalogs that a scan may end with.                                  *)
ScannedBriefs ==
  UNION {{[state |-> IF partly \/ Incomplete(scans) THEN "partial" ELSE "ready",
           truncated |-> partly, scans |-> scans] : partly \in BOOLEAN} :
           scans \in UNION {[listed -> {"ready", "partial", "scan_failed"}] :
                              listed \in SUBSET Projects}}

(* Every catalog that is kept or answered was made of the host's projects. *)
AnswersAreMade ==
  /\ truncated \in [Refreshes -> BOOLEAN]
  /\ lastGood \in ScannedBriefs \cup {None}
  /\ answer \in Briefs \cup {None, Unavailable, Rejected}

(* An inventory of these projects, and whether it is cut.                  *)
InventoryOf(c, listed, partly) ==
  /\ IsInventory(c) /\ c.truncated = partly
  /\ {c.items[k].id : k \in DOMAIN c.items} = listed

(* Some inventory has these projects, and there is a catalog for each      *)
(* result that their scans may have.                                       *)
LEMMA SomeInventory ==
  ASSUME NEW listed \in SUBSET Projects, NEW partly \in BOOLEAN
  PROVE  \E c \in Inventories :
           /\ InventoryOf(c, listed, partly)
           /\ \A scans \in [listed -> {"ready", "partial", "scan_failed"}] :
                \E a \in AnswersTo(c) : Brief(ScannedAs(c, Batch(a))).scans = scans
<1>1. PICK c \in Inventories :
        /\ c.truncated = partly
        /\ listed = {i.id : i \in ToSet(c.items)}
        /\ \A scans \in [listed -> {"ready", "partial", "scan_failed"}] :
             \E a \in AnswersTo(c) : Brief(ScannedAs(c, Batch(a))).scans = scans
  BY CoveringAssumption
<1>2. IsInventory(c)
  BY LoadedIsInventory DEF Inventories
<1>3. {c.items[k].id : k \in DOMAIN c.items} = listed
  BY <1>1 DEF ToSet
<1> QED
  BY <1>1, <1>2, <1>3 DEF InventoryOf

(* A catalog whose scans all look the same.                                *)
LEMMA UniformBrief ==
  ASSUME NEW c, UniqueIds(c.items), NEW tag,
         \A k \in DOMAIN c.items : ScanSeen(c.items[k].scan) = tag
  PROVE  Brief(c) = [state |-> c.state, truncated |-> c.truncated,
                     scans |-> [p \in {c.items[k].id : k \in DOMAIN c.items} |-> tag]]
<1> DEFINE ids == {c.items[k].id : k \in DOMAIN c.items}
           scans == Brief(c).scans
<1>1. /\ Brief(c) = [state |-> c.state, truncated |-> c.truncated, scans |-> scans]
      /\ DOMAIN scans = ids /\ scans = [p \in DOMAIN scans |-> scans[p]]
      /\ \A k \in DOMAIN c.items : scans[c.items[k].id] = tag
  <2> HIDE DEF scans
  <2> QED
    BY BriefHolds DEF scans
<1> HIDE DEF scans
<1>2. \A p \in ids : scans[p] = tag
  BY <1>1
<1> HIDE DEF ids
<1>3. scans = [p \in ids |-> tag]
  BY <1>1, <1>2
<1> QED
  BY <1>1, <1>3 DEF ids

(* The inventory of a refresh is one that the host's answers make.         *)
LEMMA InventoryIsMade ==
  ASSUME NEW r \in Refreshes, truncated[r] \in BOOLEAN, DOMAIN before[r] \subseteq Projects
  PROVE  Inventory(r) \in Briefs
<1>1. PICK c \in Inventories : InventoryOf(c, DOMAIN before[r], truncated[r])
  <2>1. DOMAIN before[r] \in SUBSET Projects
    OBVIOUS
  <2> QED
    BY <2>1, SomeInventory
<1>2. /\ UniqueIds(c.items) /\ c.state = IF c.truncated THEN "partial" ELSE "ready"
      /\ \A k \in DOMAIN c.items : c.items[k].scan = [state |-> "not_scanned", items |-> <<>>]
  BY <1>1 DEF InventoryOf, IsInventory, Unscanned
<1>3. \A k \in DOMAIN c.items : ScanSeen(c.items[k].scan) = "not_scanned"
  BY <1>2 DEF ScanSeen
<1>4. Brief(c) = [state |-> c.state, truncated |-> c.truncated,
                  scans |-> [p \in {c.items[k].id : k \in DOMAIN c.items} |-> "not_scanned"]]
  BY <1>2, <1>3, UniformBrief
<1>5. Brief(c) = Inventory(r)
  BY <1>1, <1>2, <1>4 DEF InventoryOf, Inventory
<1>6. c \in Snapshots /\ ContractTakes(c)
  BY <1>1, InventoryFits, BothTake DEF InventoryOf, Snapshots
<1> QED
  BY <1>5, <1>6 DEF Briefs

(* So is every catalog that a scan ends with.                              *)
LEMMA ScannedIsMade == ScannedBriefs \subseteq Briefs
<1> SUFFICES ASSUME NEW b \in ScannedBriefs PROVE b \in Briefs
  OBVIOUS
<1>1. PICK listed \in SUBSET Projects :
        \E scans \in [listed -> {"ready", "partial", "scan_failed"}], partly \in BOOLEAN :
          b = [state |-> IF partly \/ Incomplete(scans) THEN "partial" ELSE "ready",
               truncated |-> partly, scans |-> scans]
  BY DEF ScannedBriefs
<1>2. PICK scans \in [listed -> {"ready", "partial", "scan_failed"}], partly \in BOOLEAN :
        b = [state |-> IF partly \/ Incomplete(scans) THEN "partial" ELSE "ready",
             truncated |-> partly, scans |-> scans]
  BY <1>1
<1>3. PICK c \in Inventories :
        /\ IsInventory(c) /\ c.truncated = partly
        /\ \E a \in AnswersTo(c) : Brief(ScannedAs(c, Batch(a))).scans = scans
  BY SomeInventory DEF InventoryOf
<1>4. PICK a \in AnswersTo(c) : Brief(ScannedAs(c, Batch(a))).scans = scans
  BY <1>3
<1> DEFINE d == ScannedAs(c, Batch(a))
<1>5. CatalogFits(d) /\ StateFits(d) /\ Rescans(d, c)
  BY <1>3, ScannedFits
<1>6. d \in Snapshots
  <2>1. <<c, a>> \in {j \in Inventories \X Admissions : j[2] \in AnswersTo(j[1])}
    BY DEF AnswersTo
  <2> QED
    BY <2>1 DEF Snapshots
<1>7. Brief(d).scans = scans
  BY <1>4
<1> HIDE DEF d
<1>8. Brief(d) = [state |-> d.state, truncated |-> partly, scans |-> scans]
  BY <1>3, <1>5, <1>7, BriefHolds DEF CatalogFits, Rescans
<1>9. ContractTakes(d) /\ Valid(Brief(d))
  BY <1>5, BothTake, ValidBriefs
<1>10. d.state \in {"ready", "partial"} /\ (partly \/ Incomplete(scans) <=> d.state = "partial")
  BY <1>5, <1>8, <1>9 DEF Valid, CatalogFits
<1>11. Brief(d) = b
  BY <1>2, <1>8, <1>10
<1> QED
  BY <1>6, <1>9, <1>11 DEF Briefs

(* And so is the answer of a refresh that fails.                           *)
LEMMA FailureIsMade ==
  ASSUME NEW r \in Refreshes, truncated[r] \in BOOLEAN, DOMAIN before[r] \subseteq Projects,
         lastGood \in ScannedBriefs \cup {None},
         NEW reason \in {"source_changed", "scan_failed"}
  PROVE  Failure(r, reason) \in Briefs \cup {Rejected}
<1> DEFINE good == IF lastGood # None THEN lastGood ELSE Inventory(r)
           failed == [state |-> "partial", truncated |-> good.truncated,
                      scans |-> [p \in DOMAIN good.scans |-> reason]]
<1>1. Failure(r, reason) = IF aborted \/ ~Valid(failed) THEN Rejected ELSE failed
  BY DEF Failure
<1>2. good.truncated \in BOOLEAN /\ DOMAIN good.scans \subseteq Projects
  <2>1. CASE lastGood # None
    <3>1. PICK listed \in SUBSET Projects :
            \E scans \in [listed -> {"ready", "partial", "scan_failed"}], partly \in BOOLEAN :
              lastGood = [state |-> IF partly \/ Incomplete(scans) THEN "partial" ELSE "ready",
                          truncated |-> partly, scans |-> scans]
      BY <2>1 DEF ScannedBriefs
    <3> QED
      BY <2>1, <3>1
  <2>2. CASE lastGood = None
    BY <2>2 DEF Inventory
  <2> QED
    BY <2>1, <2>2
<1> HIDE DEF good
<1>3. SUFFICES ASSUME Valid(failed) PROVE failed \in Briefs
  <2> HIDE DEF failed
  <2> QED
    BY <1>1
<1>4. PICK c \in Inventories : InventoryOf(c, DOMAIN good.scans, good.truncated)
  <2>1. DOMAIN good.scans \in SUBSET Projects
    BY <1>2
  <2> QED
    BY <1>2, <2>1, SomeInventory
<1> DEFINE d == FailedAs(c, reason)
<1>5. CatalogFits(d) /\ Rescans(d, c)
  BY <1>4, FailedFits DEF InventoryOf
<1>6. d \in Snapshots
  BY DEF Snapshots
<1>7. d.state = "partial" /\ d.truncated = c.truncated /\ DOMAIN d.items = DOMAIN c.items
      /\ \A k \in DOMAIN c.items : d.items[k].scan = NoScan(reason)
  <2>1. c.items \in Seq({Option(p) : p \in Hosted})
    BY <1>4 DEF InventoryOf, IsInventory
  <2>2. \A k \in DOMAIN c.items : c.items[k] \in {Option(p) : p \in Hosted}
    BY <2>1
  <2>3. \A k \in DOMAIN c.items : d.items[k] = [c.items[k] EXCEPT !.scan = NoScan(reason)]
    BY DEF FailedAs
  <2>4. d.state = "partial" /\ d.truncated = c.truncated /\ DOMAIN d.items = DOMAIN c.items
    BY DEF FailedAs
  <2> HIDE DEF d
  <2>5. ASSUME NEW k \in DOMAIN c.items PROVE d.items[k].scan = NoScan(reason)
    <3> DEFINE j == [c.items[k] EXCEPT !.scan = NoScan(reason)]
    <3>1. c.items[k] \in {Option(p) : p \in Hosted} /\ d.items[k] = j
      BY <2>2, <2>3
    <3>2. j.scan = NoScan(reason)
      BY <3>1, WithScan
    <3> QED
      BY <3>1, <3>2
  <2> QED
    BY <2>4, <2>5
<1> HIDE DEF d
<1>8. \A k \in DOMAIN d.items : ScanSeen(d.items[k].scan) = reason
  BY <1>7 DEF NoScan, ScanSeen
<1>9. {d.items[k].id : k \in DOMAIN d.items} = DOMAIN good.scans
  <2>1. \A k \in DOMAIN c.items : d.items[k].id = c.items[k].id
    BY <1>5 DEF Rescans
  <2> QED
    BY <1>4, <1>7, <2>1 DEF InventoryOf
<1>10. Brief(d) = [state |-> d.state, truncated |-> d.truncated,
                   scans |-> [p \in {d.items[k].id : k \in DOMAIN d.items} |-> reason]]
  BY <1>5, <1>8, UniformBrief DEF CatalogFits
<1>11. Brief(d) = failed
  BY <1>4, <1>7, <1>9, <1>10 DEF InventoryOf
<1> HIDE DEF failed
<1>12. ContractTakes(d)
  BY <1>3, <1>5, <1>11, BothTake, ValidBriefs
<1> QED
  BY <1>6, <1>11, <1>12 DEF Briefs

(* A refresh that settles with an answer that was made.                    *)
LEMMA SettleIsMade ==
  ASSUME AnswersAreMade, NEW r \in Refreshes, NEW a, Settle(r, a),
         a \in Briefs \cup {None, Unavailable, Rejected},
         lastGood' \in ScannedBriefs \cup {None}
  PROVE  AnswersAreMade'
<1>1. truncated' \in [Refreshes -> BOOLEAN] /\ answer' = a
  BY DEF AnswersAreMade, Settle
<1>2. Briefs' = Briefs /\ ScannedBriefs' = ScannedBriefs
  BY DEF Briefs, ScannedBriefs
<1> QED
  BY <1>1, <1>2 DEF AnswersAreMade, None, Unavailable, Rejected

(* The backend keeps and answers only what was made.                       *)
LEMMA NextIsMade == IInv /\ AnswersAreMade /\ [Next]_vars => AnswersAreMade'
<1> SUFFICES ASSUME IInv, AnswersAreMade, [Next]_vars PROVE AnswersAreMade'
  OBVIOUS
<1>1. /\ hidden \in BOOLEAN /\ truncated \in [Refreshes -> BOOLEAN]
      /\ \A r \in Refreshes : DOMAIN before[r] \subseteq Projects
      /\ lastGood \in ScannedBriefs \cup {None}
      /\ answer \in Briefs \cup {None, Unavailable, Rejected}
  BY DEF IInv, TypeOK, AnswersAreMade
<1>2. ASSUME UNCHANGED <<truncated, shown>> PROVE AnswersAreMade'
  BY <1>1, <1>2 DEF AnswersAreMade, shown
<1>3. ASSUME NEW r \in Refreshes, NEW reason \in {"source_changed", "scan_failed"},
             Fail(r, reason)
      PROVE  AnswersAreMade'
  <2>1. Failure(r, reason) \in Briefs \cup {Rejected}
    BY <1>1, FailureIsMade
  <2>2. Settle(r, Failure(r, reason)) /\ lastGood' = lastGood
    BY <1>3 DEF Fail
  <2> QED
    BY <1>1, <2>1, <2>2, SettleIsMade
<1>4. CASE HostChanges \/ Dispose \/ Close \/ Rest \/ UNCHANGED vars
  BY <1>2, <1>4 DEF HostChanges, Dispose, Close, Rest, vars, scanned
<1>5. ASSUME NEW c \in Callers, Ask(c) PROVE AnswersAreMade'
  <2>1. UNCHANGED <<truncated, lastGood>> /\ answer' \in {answer, None}
    BY <1>5 DEF Ask, Begin, scanned
  <2> QED
    BY <1>1, <2>1 DEF AnswersAreMade
<1>6. ASSUME NEW r \in Refreshes, Advance(r) PROVE AnswersAreMade'
  <2>1. CASE ReadInventory(r)
    <3>1. lastGood' = lastGood
      BY <2>1 DEF ReadInventory
    <3>2. ASSUME NEW a \in {lastGood, Unavailable}, Settle(r, a), a # None PROVE AnswersAreMade'
      <4>1. a \in Briefs \cup {None, Unavailable, Rejected}
        BY <1>1, <3>2, ScannedIsMade
      <4> QED
        BY <1>1, <3>1, <3>2, <4>1, SettleIsMade
    <3>3. ASSUME truncated' = [truncated EXCEPT ![r] = hidden], answer' = answer
          PROVE  AnswersAreMade'
      BY <1>1, <3>1, <3>3 DEF AnswersAreMade
    <3>4. Unavailable # None
      BY DEF Unavailable, None
    <3> QED
      BY <2>1, <3>2, <3>3, <3>4 DEF ReadInventory
  <2>2. CASE EndScan(r)
    <3>1. PICK c \in Scanned(r) : lastGood' = c /\ Settle(r, c)
      BY <2>2 DEF EndScan
    <3>2. c \in ScannedBriefs
      <4>1. PICK scans \in [DOMAIN before[r] -> {"partial", "scan_failed", "ready"}] :
              c = [state |-> IF truncated[r] \/ Incomplete(scans) THEN "partial" ELSE "ready",
                   truncated |-> truncated[r], scans |-> scans]
        BY <3>1 DEF Scanned
      <4>2. truncated[r] \in BOOLEAN /\ DOMAIN before[r] \in SUBSET Projects
        BY <1>1
      <4>3. scans \in UNION {[listed -> {"ready", "partial", "scan_failed"}] :
                               listed \in SUBSET Projects}
        BY <4>1, <4>2
      <4> QED
        BY <4>1, <4>2, <4>3 DEF ScannedBriefs
    <3> QED
      BY <1>1, <3>1, <3>2, ScannedIsMade, SettleIsMade
  <2>3. CASE Relist(r) \/ Resolve(r) \/ BeginScan(r) \/ ScanFails(r)
    BY <1>2, <1>3, <2>3 DEF Relist, Resolve, BeginScan, ScanFails, scanned
  <2>4. CASE BeginCheck(r) \/ BeginWrite(r) \/ EndWrite(r)
    BY <1>2, <2>4 DEF BeginCheck, BeginWrite, EndWrite, scanned
  <2> QED
    BY <1>6, <2>1, <2>2, <2>3, <2>4 DEF Advance
<1> QED
  BY <1>4, <1>5, <1>6 DEF Next

(* The backend's answer where the host's list could not be read.           *)
LEMMA UnreadBrief == Brief(NoCatalog) = Unavailable
<1>1. DOMAIN NoCatalog.items = {} /\ {NoCatalog.items[k].id : k \in DOMAIN NoCatalog.items} = {}
  BY DEF NoCatalog
<1> QED
  BY <1>1 DEF Brief, NoCatalog, Unavailable, NoProjects

LEMMA UnreadIsSaid == UnreadListDeniesNothing
<1> DEFINE c == NoCatalog
<1>1. /\ c.state = "unavailable" /\ ~c.truncated
      /\ c.items \in Seq({}) /\ Len(c.items) = 0 /\ DOMAIN c.items = {}
      /\ c.items = <<>> /\ ToSet(c.items) = {}
  BY DEF NoCatalog, ToSet
<1> HIDE DEF c
<1>2. Listing(c) <= MaxEntries
  BY <1>1, EmptyListingFits
<1>3. ContractTakes(c) /\ PanelTakes(c)
  <2>1. MaxListed \in Nat /\ UniqueIds(c.items)
    BY <1>1, SnapshotAssumption DEF UniqueIds
  <2> QED
    BY <1>1, <1>2, <2>1 DEF ContractTakes, PanelTakes
<1>4. ProjectsPage(c).says = "list_unavailable"
  BY <1>1 DEF ProjectsPage
<1>5. ASSUME NEW p, NEW t PROVE TargetPage(c, p, t, Silent).view = "unavailable"
  <2> DEFINE P == {i \in ToSet(c.items) : i.id = p}
             U == UNION {{j \in ToSet(i.scan.items) : j.id = t} : i \in P}
  <2>1. P = {} /\ U = {}
    BY <1>1
  <2>2. TargetPage(c, p, t, Silent) = MissingPage(MissingReason(c, {}))
    <3>1. TargetPage(c, p, t, Silent) =
            IF U # {} THEN DetailPage(CHOOSE i \in P : TRUE, CHOOSE j \in U : TRUE,
                                      ProjectTasks(Silent, p))
            ELSE MissingPage(MissingReason(c, P))
      BY DEF TargetPage
    <3> HIDE DEF P, U
    <3> QED
      BY <2>1, <3>1
  <2>3. MissingReason(c, {}) = "catalog_unavailable"
    BY <1>1 DEF MissingReason
  <2>4. MissingPage("catalog_unavailable").view = "unavailable"
    BY DEF MissingPage
  <2> QED
    BY <2>2, <2>3, <2>4
<1>6. \A a \in Admissions : \A f \in ToSet(a.found), p \in Projects :
        TargetPage(c, p, f.target.id, Silent).view = "unavailable"
  BY <1>5
<1>7. ProjectsPage(c).says \notin {"no_local_projects", "complete"}
  BY <1>4
<1> QED
  BY <1>3, <1>6, <1>7 DEF UnreadListDeniesNothing, c

(* Whatever the panel is shown of a refresh is true of it: each catalog    *)
(* that the backend works with or answers is one that loadProjectInventory,*)
(* scannedCatalog or unavailableCatalog makes and both schemas take, and   *)
(* what the pages say of such a catalog is so.                             *)
THEOREM PanelShowsTheTruth == Spec => []PanelTellsTheTruth
<1>1. Init => AnswersAreMade
  <2> SUFFICES ASSUME Init PROVE AnswersAreMade
    OBVIOUS
  <2> QED
    BY DEF Init, AnswersAreMade
<1>2. Spec => []AnswersAreMade
  BY <1>1, NextIsMade, BackendInvariance, PTL DEF Spec
<1>3. ASSUME IInv, AnswersAreMade PROVE PanelTellsTheTruth
  <2>1. \A r \in Refreshes : Inventory(r) \in Briefs
    BY <1>3, InventoryIsMade DEF IInv, TypeOK, AnswersAreMade
  <2>2. BackendAnswersSnapshots
    BY <1>3, <2>1, UnreadBrief DEF BackendAnswersSnapshots, AnswersAreMade
  <2> QED
    BY <2>2, BothEndsOfTheWireAgree, InventoriesAreShown, WrittenTargetsAreShown, UnreadIsSaid,
       PageHasItsTasks DEF PanelTellsTheTruth
<1>4. IInv /\ AnswersAreMade => PanelTellsTheTruth
  BY <1>3
<1> QED
  BY <1>2, <1>4, BackendInvariance, PTL

-----------------------------------------------------------------------------

(* At most one request counts, and none does once the panel is gone.       *)
Requests ==
  /\ \A c \in calls : c.generation <= generation
  /\ \A c, d \in calls : Current(c) /\ Current(d) => c = d
  /\ \A c \in calls : Current(c) => mounted /\ ~statusFailed
  /\ mounted => generation <= MaxGeneration

(* What is remembered of a reload that the user asked for.                 *)
Reloads ==
  /\ \A c \in calls : Current(c) /\ c.kind = "again" => refreshSubPath = c.from
  /\ mounted /\ refreshSubPath # NoPath => \E c \in calls : Current(c) /\ c.kind = "again"
  /\ mounted => refreshSubPath \in {NoPath, Root, subPath}

(* A malformed page is remembered while it is visited.                     *)
Redirects ==
  /\ subPath \in Malformed => recovered = subPath
  /\ ReplacedOnce

(* No request that was overtaken or left behind counts, or ever will.      *)
Outdated == \A g \in outdated : g < generation

PanelIInv ==
  PanelTypeOK /\ Requests /\ BusyIsBacked /\ Reloads /\ Redirects /\ Outdated

-----------------------------------------------------------------------------

(* What the constants say about pages and catalogs.                        *)
LEMMA PanelFacts ==
  /\ MaxGeneration \in Nat \ {0}
  /\ Root \in SubPaths /\ Details \subseteq SubPaths /\ Malformed \subseteq SubPaths
  /\ Root \notin Malformed /\ NoPath \notin SubPaths
  /\ "none" \notin Catalogs
BY PanelAssumption DEF PanelAssumption, SubPaths, Catalogs

(* Only requests that are pending are recorded as overtaken or left behind.*)
LEMMA RecordedOnly ==
  ASSUME Overtake \/ (\E p \in SubPaths : LeaveBehind(p)) \/ UNCHANGED outdated
  PROVE  \A g \in outdated' : g \in outdated \/ \E c \in calls : g = c.generation
<1>1. CASE Overtake
  BY <1>1, Zenon DEF Overtake
<1>2. ASSUME NEW p \in SubPaths, LeaveBehind(p)
      PROVE  \A g \in outdated' : g \in outdated \/ \E c \in calls : g = c.generation
  BY <1>2, Zenon DEF LeaveBehind
<1>3. CASE UNCHANGED outdated
  BY <1>3, Zenon
<1> QED
  BY <1>1, <1>2, <1>3

(* What is recorded of the requests overtaken or left behind by a step.    *)
LEMMA OutdatedType ==
  ASSUME PanelTypeOK, Overtake \/ (\E p \in SubPaths : LeaveBehind(p)) \/ UNCHANGED outdated
  PROVE  outdated' \subseteq 1..MaxGeneration
<1>1. \A c \in calls : c.generation \in 1..MaxGeneration
  BY DEF PanelTypeOK, Call
<1>2. \A g \in outdated' : g \in outdated \/ \E c \in calls : g = c.generation
  BY RecordedOnly
<1> QED
  BY <1>1, <1>2 DEF PanelTypeOK

(* A step that makes a new generation may record any request there was.    *)
LEMMA OvertakenInvariant ==
  ASSUME PanelIInv, Overtake \/ (\E p \in SubPaths : LeaveBehind(p)),
         generation' = generation + 1
  PROVE  Outdated'
<1>1. \A c \in calls : c.generation \in Nat /\ c.generation <= generation
  BY DEF PanelIInv, PanelTypeOK, Call, Requests
<1>2. generation \in Nat /\ \A g \in outdated : g \in Nat /\ g < generation
  BY PanelFacts DEF PanelIInv, PanelTypeOK, Outdated
<1>3. \A g \in outdated' : g \in outdated \/ \E c \in calls : g = c.generation
  BY RecordedOnly
<1>4. \A g \in outdated' : g < generation + 1
  BY <1>1, <1>2, <1>3
<1> QED
  BY <1>4 DEF Outdated

(* The panel is mounted with one request out, which is current.            *)
LEMMA PanelInitInvariant == PanelInit => PanelIInv
<1> SUFFICES ASSUME PanelInit PROVE PanelIInv
  OBVIOUS
<1>1. PanelTypeOK
  <2>1. redirecting \in BOOLEAN
    BY DEF PanelInit
  <2>2. calls \subseteq Call
    BY PanelFacts DEF Call, PanelInit
  <2>3. redirects \in Nat /\ recovered \in Malformed \cup {NoPath}
    BY DEF PanelInit
  <2>4. generation \in 1..(MaxGeneration + 1)
    BY PanelFacts DEF PanelInit
  <2>5. /\ mounted \in BOOLEAN /\ subPath \in SubPaths
        /\ snapshot \in Catalogs \cup {"none"} /\ statusFailed \in BOOLEAN /\ refreshing \in BOOLEAN
        /\ catalogMessage \in {"none", "changed", "loadFailed"}
        /\ refreshSubPath \in SubPaths \cup {NoPath} /\ outdated = {}
    BY DEF PanelInit
  <2> QED
    BY <2>1, <2>2, <2>3, <2>4, <2>5 DEF PanelTypeOK
<1>2. Requests /\ BusyIsBacked
  BY PanelFacts DEF Requests, BusyIsBacked, Current, PanelInit
<1>3. Reloads
  BY DEF Reloads, Current, PanelInit
<1>4. Redirects /\ Outdated
  BY DEF Redirects, ReplacedOnce, Outdated, PanelInit
<1> QED
  BY <1>1, <1>2, <1>3, <1>4 DEF PanelIInv

(* A retry supersedes whatever was under way.                              *)
LEMMA CheckAgainInvariant == PanelIInv /\ CheckAgain => PanelIInv'
<1> SUFFICES ASSUME PanelIInv, CheckAgain PROVE PanelIInv'
  OBVIOUS
<1> USE PanelFacts
<1>1. PanelTypeOK /\ Requests /\ BusyIsBacked /\ Reloads /\ Redirects
  BY DEF PanelIInv
<1> DEFINE new == [generation |-> generation + 1, kind |-> "status", from |-> subPath,
                   previous |-> snapshot]
<1>2. /\ mounted /\ statusFailed /\ generation < MaxGeneration /\ generation' = generation + 1
      /\ statusFailed' = FALSE /\ refreshing' = FALSE /\ catalogMessage' = "none"
      /\ calls' = calls \cup {new}
      /\ UNCHANGED <<mounted, snapshot, subPath, refreshSubPath, recovered, redirects,
                     redirecting>>
  BY DEF CheckAgain, route, Request
<1>20. outdated' \subseteq 1..MaxGeneration /\ Outdated'
  BY <1>1, OutdatedType, OvertakenInvariant DEF CheckAgain
<1>3. generation \in 1..MaxGeneration /\ generation' \in 1..MaxGeneration
  BY <1>1, <1>2 DEF PanelTypeOK
<1>4. new \in Call /\ new.generation = generation' /\ new.kind = "status"
  BY <1>1, <1>2, <1>3 DEF PanelTypeOK, Call
<1>5. \A c \in calls : c.generation \in Nat /\ c.generation <= generation
  BY <1>1 DEF PanelTypeOK, Call, Requests
<1>6. refreshSubPath = NoPath
  BY <1>1, <1>2 DEF Requests, Reloads
<1> HIDE DEF new
<1>7. PanelTypeOK'
  <2>1. calls' \subseteq Call
    BY <1>1, <1>2, <1>4 DEF PanelTypeOK
  <2>2. generation' \in 1..(MaxGeneration + 1)
    BY <1>3
  <2>3. /\ mounted' \in BOOLEAN /\ subPath' \in SubPaths /\ snapshot' \in Catalogs \cup {"none"}
        /\ statusFailed' \in BOOLEAN /\ refreshing' \in BOOLEAN
        /\ catalogMessage' \in {"none", "changed", "loadFailed"}
        /\ refreshSubPath' \in SubPaths \cup {NoPath} /\ recovered' \in Malformed \cup {NoPath}
        /\ redirects' \in Nat /\ redirecting' \in BOOLEAN
    BY <1>1, <1>2 DEF PanelTypeOK
  <2> QED
    BY <2>1, <2>2, <2>3, <1>20 DEF PanelTypeOK
<1>8. Requests' /\ BusyIsBacked'
  BY <1>1, <1>2, <1>3, <1>4, <1>5 DEF Requests, BusyIsBacked, Current
<1>9. Reloads'
  BY <1>1, <1>2, <1>3, <1>4, <1>5, <1>6 DEF Reloads, Current
<1>10. Redirects'
  BY <1>1, <1>2 DEF Redirects, ReplacedOnce
<1> QED
  BY <1>7, <1>8, <1>9, <1>10, <1>20 DEF PanelIInv

(* A reload is remembered with the page it was asked for on.               *)
LEMMA RefreshInvariant == PanelIInv /\ Refresh => PanelIInv'
<1> SUFFICES ASSUME PanelIInv, Refresh PROVE PanelIInv'
  OBVIOUS
<1> USE PanelFacts
<1>1. PanelTypeOK /\ Requests /\ BusyIsBacked /\ Reloads /\ Redirects
  BY DEF PanelIInv
<1> DEFINE new == [generation |-> generation + 1, kind |-> "again", from |-> subPath,
                   previous |-> snapshot]
<1>2. /\ mounted /\ ~statusFailed /\ snapshot # "none" /\ generation < MaxGeneration
      /\ generation' = generation + 1
      /\ refreshSubPath' = subPath /\ refreshing' = TRUE /\ catalogMessage' = "none"
      /\ calls' = calls \cup {new}
      /\ UNCHANGED <<mounted, snapshot, statusFailed, subPath, recovered, redirects,
                     redirecting>>
  BY DEF Refresh, Request
<1>20. outdated' \subseteq 1..MaxGeneration /\ Outdated'
  BY <1>1, OutdatedType, OvertakenInvariant DEF Refresh
<1>3. generation \in 1..MaxGeneration /\ generation' \in 1..MaxGeneration
  BY <1>1, <1>2 DEF PanelTypeOK
<1>4. /\ new \in Call /\ new.generation = generation' /\ new.kind = "again"
      /\ new.from = subPath
  BY <1>1, <1>2, <1>3 DEF PanelTypeOK, Call
<1>5. \A c \in calls : c.generation \in Nat /\ c.generation <= generation
  BY <1>1 DEF PanelTypeOK, Call, Requests
<1> HIDE DEF new
<1>6. PanelTypeOK'
  <2>1. calls' \subseteq Call
    BY <1>1, <1>2, <1>4 DEF PanelTypeOK
  <2>2. generation' \in 1..(MaxGeneration + 1)
    BY <1>3
  <2>3. /\ mounted' \in BOOLEAN /\ subPath' \in SubPaths /\ snapshot' \in Catalogs \cup {"none"}
        /\ statusFailed' \in BOOLEAN /\ refreshing' \in BOOLEAN
        /\ catalogMessage' \in {"none", "changed", "loadFailed"}
        /\ refreshSubPath' \in SubPaths \cup {NoPath} /\ recovered' \in Malformed \cup {NoPath}
        /\ redirects' \in Nat /\ redirecting' \in BOOLEAN
    BY <1>1, <1>2 DEF PanelTypeOK
  <2> QED
    BY <2>1, <2>2, <2>3, <1>20 DEF PanelTypeOK
<1>7. Requests' /\ BusyIsBacked'
  BY <1>1, <1>2, <1>3, <1>4, <1>5 DEF Requests, BusyIsBacked, Current
<1>8. Reloads'
  BY <1>1, <1>2, <1>3, <1>4, <1>5 DEF Reloads, Current
<1>9. Redirects'
  BY <1>1, <1>2 DEF Redirects, ReplacedOnce
<1> QED
  BY <1>6, <1>7, <1>8, <1>9, <1>20 DEF PanelIInv

(* An answer that does not count takes nothing from what does.             *)
LEMMA IgnoredInvariant ==
  ASSUME PanelIInv, NEW c \in calls, Ignored(c)
  PROVE  PanelIInv'
<1>1. PanelTypeOK /\ Requests /\ BusyIsBacked /\ Reloads /\ Redirects
  BY DEF PanelIInv
<1>2. /\ ~Current(c) /\ calls' = calls \ {c}
      /\ UNCHANGED <<mounted, generation, snapshot, statusFailed, refreshing, catalogMessage,
                     subPath, refreshSubPath, recovered, redirects, redirecting, outdated>>
  BY DEF Ignored, view, route
<1>3. PanelTypeOK'
  BY <1>1, <1>2 DEF PanelTypeOK
<1>4. Requests' /\ BusyIsBacked' /\ Reloads'
  BY <1>1, <1>2 DEF Requests, BusyIsBacked, Reloads, Current
<1>5. Redirects' /\ Outdated'
  BY <1>1, <1>2 DEF PanelIInv, Redirects, ReplacedOnce, Outdated
<1> QED
  BY <1>3, <1>4, <1>5 DEF PanelIInv

(* The status is answered: the refresh that follows takes its place.       *)
LEMMA StatusAnsweredInvariant ==
  ASSUME PanelIInv, NEW c \in calls, StatusAnswered(c)
  PROVE  PanelIInv'
<1> USE PanelFacts
<1>1. PanelTypeOK /\ Requests /\ BusyIsBacked /\ Reloads /\ Redirects
  BY DEF PanelIInv
<1>2. /\ c.kind = "status" /\ Current(c)
      /\ UNCHANGED <<mounted, generation, catalogMessage, subPath, refreshSubPath, recovered,
                     redirects, redirecting, outdated>>
  BY DEF StatusAnswered, route
<1>3. /\ mounted /\ ~statusFailed /\ c \in Call
      /\ \A d \in calls \ {c} : ~Current(d)
      /\ refreshSubPath = NoPath
  BY <1>1, <1>2 DEF Requests, Reloads, PanelTypeOK
<1> DEFINE next == [c EXCEPT !.kind = "first", !.previous = "none"]
<1>4. next \in Call /\ next.kind = "first" /\ next.generation = generation
  BY <1>2, <1>3 DEF Call, Current
<1> HIDE DEF next
<1>5. CASE /\ snapshot' \in Catalogs /\ refreshing' = TRUE
           /\ calls' = (calls \ {c}) \cup {next} /\ UNCHANGED statusFailed
  <2>1. PanelTypeOK'
    BY <1>1, <1>2, <1>4, <1>5 DEF PanelTypeOK
  <2>2. Requests' /\ BusyIsBacked'
    BY <1>1, <1>2, <1>3, <1>4, <1>5 DEF Requests, BusyIsBacked, Current, PanelTypeOK, Call
  <2>3. Reloads'
    BY <1>1, <1>2, <1>3, <1>4, <1>5 DEF Reloads, Current
  <2>4. Redirects' /\ Outdated'
    BY <1>1, <1>2 DEF PanelIInv, Redirects, ReplacedOnce, Outdated
  <2> QED
    BY <2>1, <2>2, <2>3, <2>4 DEF PanelIInv
<1>6. CASE statusFailed' = TRUE /\ calls' = calls \ {c} /\ UNCHANGED <<snapshot, refreshing>>
  <2>1. PanelTypeOK'
    BY <1>1, <1>2, <1>6 DEF PanelTypeOK
  <2>2. ~refreshing
    BY <1>1, <1>2, <1>3 DEF BusyIsBacked
  <2>3. Requests' /\ BusyIsBacked'
    BY <1>1, <1>2, <1>3, <1>6, <2>2 DEF Requests, BusyIsBacked, Current
  <2>4. Reloads'
    BY <1>1, <1>2, <1>3, <1>6 DEF Reloads, Current
  <2>5. Redirects' /\ Outdated'
    BY <1>1, <1>2 DEF PanelIInv, Redirects, ReplacedOnce, Outdated
  <2> QED
    BY <2>1, <2>3, <2>4, <2>5 DEF PanelIInv
<1> QED
  BY <1>5, <1>6 DEF StatusAnswered, next

(* A refresh is answered, and nothing that counts is under way.            *)
LEMMA RefreshAnsweredInvariant ==
  ASSUME PanelIInv, NEW c \in calls, RefreshAnswered(c)
  PROVE  PanelIInv'
<1> USE PanelFacts
<1>1. PanelTypeOK /\ Requests /\ BusyIsBacked /\ Reloads /\ Redirects
  BY DEF PanelIInv
<1>2. /\ c.kind \in {"first", "again"} /\ Current(c) /\ calls' = calls \ {c}
      /\ refreshing' = FALSE
      /\ refreshSubPath' = IF c.kind = "again" THEN NoPath ELSE refreshSubPath
      /\ UNCHANGED <<mounted, generation, statusFailed, subPath, recovered, redirects,
                     redirecting, outdated>>
  BY DEF RefreshAnswered
<1>3. /\ mounted /\ ~statusFailed
      /\ \A d \in calls \ {c} : ~Current(d)
      /\ c.kind = "first" => refreshSubPath = NoPath
  BY <1>1, <1>2 DEF Requests, Reloads
<1>4. snapshot # "none"
  BY <1>1, <1>2, <1>3 DEF BusyIsBacked
<1>5. /\ snapshot' \in Catalogs
      /\ catalogMessage' \in {"none", "changed", "loadFailed"}
  BY <1>1, <1>4 DEF RefreshAnswered, Accept, PanelTypeOK
<1>6. PanelTypeOK'
  BY <1>1, <1>2, <1>5 DEF PanelTypeOK
<1>7. Requests' /\ BusyIsBacked'
  BY <1>1, <1>2, <1>3, <1>5 DEF Requests, BusyIsBacked, Current
<1>8. Reloads'
  BY <1>1, <1>2, <1>3 DEF Reloads, Current
<1>9. Redirects' /\ Outdated'
  BY <1>1, <1>2 DEF PanelIInv, Redirects, ReplacedOnce, Outdated
<1> QED
  BY <1>6, <1>7, <1>8, <1>9 DEF PanelIInv

-----------------------------------------------------------------------------

(* Whoever leaves the page of a reload no longer waits for it.             *)
LEMMA SupersedeInvariant ==
  ASSUME PanelIInv, NEW p \in SubPaths, mounted, generation < MaxGeneration, Supersede(p),
         LeaveBehind(p), subPath' = p,
         UNCHANGED <<mounted, calls, snapshot, statusFailed, catalogMessage>>
  PROVE  /\ Requests' /\ BusyIsBacked' /\ Reloads' /\ Outdated'
         /\ generation' \in 1..(MaxGeneration + 1)
         /\ refreshSubPath' \in SubPaths \cup {NoPath} /\ refreshing' \in BOOLEAN
<1> USE PanelFacts
<1>1. PanelTypeOK /\ Requests /\ BusyIsBacked /\ Reloads
  BY DEF PanelIInv
<1>2. CASE /\ refreshSubPath \notin {NoPath, Root, p} /\ generation' = generation + 1
           /\ refreshSubPath' = NoPath /\ refreshing' = FALSE
  <2>1. \A c \in calls : c.generation \in Nat /\ c.generation <= generation
    BY <1>1 DEF PanelTypeOK, Call, Requests
  <2>2. generation \in 1..MaxGeneration /\ generation' \in 1..(MaxGeneration + 1)
    BY <1>1, <1>2 DEF PanelTypeOK
  <2>3. \A c \in calls : c.generation # generation'
    BY <1>2, <2>1, <2>2
  <2>4. PICK c \in calls : Current(c) /\ c.kind = "again"
    BY <1>1, <1>2 DEF Reloads
  <2>5. statusFailed \/ snapshot # "none"
    BY <1>1, <2>4 DEF Requests, BusyIsBacked
  <2>6. Requests' /\ Reloads'
    BY <1>2, <2>1, <2>2, <2>3 DEF Requests, Reloads, Current
  <2>7. BusyIsBacked'
    BY <1>2, <2>5 DEF BusyIsBacked
  <2>8. Outdated'
    BY <1>2, OvertakenInvariant
  <2> QED
    BY <1>2, <2>2, <2>6, <2>7, <2>8
<1>3. CASE /\ refreshSubPath \in {NoPath, Root, p}
           /\ UNCHANGED <<generation, refreshSubPath, refreshing>>
  <2>1. Requests' /\ BusyIsBacked' /\ Reloads'
    BY <1>1, <1>3 DEF Requests, BusyIsBacked, Reloads, Current
  <2>2. \A c \in calls : /\ c.generation \in Nat /\ c.generation <= generation
                          /\ c.from \in SubPaths
    BY <1>1 DEF PanelTypeOK, Call, Requests
  <2>3. \A c \in calls : c.kind = "again" /\ c.from \notin {Root, p} => c.generation # generation
    BY <1>1, <1>3, <2>2 DEF Reloads, Current
  <2>4. \A g \in outdated' :
          \/ g \in outdated
          \/ \E c \in calls : c.kind = "again" /\ c.from \notin {Root, p} /\ g = c.generation
    BY Zenon DEF LeaveBehind
  <2>6. generation \in Nat /\ \A g \in outdated : g < generation
    BY <1>1 DEF PanelIInv, Outdated, PanelTypeOK
  <2>7. \A g \in outdated' : g < generation
    BY <2>2, <2>3, <2>4, <2>6
  <2>5. Outdated'
    BY <1>3, <2>7 DEF Outdated
  <2> QED
    BY <1>1, <1>3, <2>1, <2>5 DEF PanelTypeOK
<1> QED
  BY <1>2, <1>3 DEF Supersede

(* A visit, and another run of the effect on the page it is on.            *)
LEMMA VisitInvariant ==
  ASSUME PanelIInv, NEW p \in SubPaths, Visit(p)
  PROVE  PanelIInv'
<1>1. PanelTypeOK /\ Redirects
  BY DEF PanelIInv
<1>2. /\ mounted /\ generation < MaxGeneration /\ Supersede(p) /\ Recover(p) /\ LeaveBehind(p)
      /\ subPath' = p
      /\ UNCHANGED <<mounted, calls, snapshot, statusFailed, catalogMessage>>
  BY DEF Visit, RouteEffect
<1>3. /\ Requests' /\ BusyIsBacked' /\ Reloads' /\ Outdated'
      /\ generation' \in 1..(MaxGeneration + 1)
      /\ refreshSubPath' \in SubPaths \cup {NoPath} /\ refreshing' \in BOOLEAN
  BY <1>2, SupersedeInvariant
<1> DEFINE asks == p \in Malformed /\ recovered # p
<1>4. /\ recovered' = IF p \in Malformed THEN p ELSE NoPath
      /\ redirects' = (IF p # subPath THEN 0 ELSE redirects) + (IF asks THEN 1 ELSE 0)
  BY <1>2 DEF Recover
<1>5. redirecting' \in BOOLEAN
  <2>1. redirecting' = (redirecting \/ asks)
    BY <1>2, Zenon DEF Recover
  <2> HIDE DEF asks
  <2> QED
    BY <2>1, Zenon
<1>6. redirects' \in Nat /\ Redirects'
  BY <1>1, <1>2, <1>4 DEF Redirects, ReplacedOnce, PanelTypeOK
<1>7. PanelTypeOK'
  BY <1>1, <1>2, <1>3, <1>4, <1>5, <1>6, OutdatedType DEF PanelTypeOK
<1> QED
  BY <1>3, <1>6, <1>7 DEF PanelIInv

(* A redirect is a visit of the root.                                      *)
LEMMA RedirectedInvariant == PanelIInv /\ Redirected => PanelIInv'
<1> SUFFICES ASSUME PanelIInv, Redirected PROVE PanelIInv'
  OBVIOUS
<1>1. PanelTypeOK
  BY DEF PanelIInv
<1>2. /\ mounted /\ generation < MaxGeneration /\ Supersede(Root) /\ LeaveBehind(Root)
      /\ subPath' = Root
      /\ recovered' = NoPath /\ redirecting' = FALSE /\ redirects' = 0
      /\ UNCHANGED <<mounted, calls, snapshot, statusFailed, catalogMessage>>
  BY DEF Redirected
<1>3. /\ Requests' /\ BusyIsBacked' /\ Reloads' /\ Outdated'
      /\ generation' \in 1..(MaxGeneration + 1)
      /\ refreshSubPath' \in SubPaths \cup {NoPath} /\ refreshing' \in BOOLEAN
  BY <1>2, PanelFacts, SupersedeInvariant
<1>4. Redirects'
  BY <1>2, PanelFacts DEF Redirects, ReplacedOnce
<1>5. PanelTypeOK'
  BY <1>1, <1>2, <1>3, PanelFacts, OutdatedType DEF PanelTypeOK
<1> QED
  BY <1>3, <1>4, <1>5 DEF PanelIInv

(* Nothing counts for a panel that is gone.                                *)
LEMMA UnmountInvariant == PanelIInv /\ Unmount => PanelIInv'
<1> SUFFICES ASSUME PanelIInv, Unmount PROVE PanelIInv'
  OBVIOUS
<1>1. PanelTypeOK /\ Requests /\ BusyIsBacked /\ Reloads /\ Redirects
  BY DEF PanelIInv
<1>2. /\ mounted /\ mounted' = FALSE /\ generation' = generation + 1
      /\ UNCHANGED <<calls, snapshot, statusFailed, refreshing, catalogMessage,
                     subPath, refreshSubPath, recovered, redirects, redirecting>>
  BY DEF Unmount, view, route
<1>3. \A c \in calls : c.generation \in 1..MaxGeneration /\ c.generation <= generation
  BY <1>1 DEF PanelTypeOK, Call, Requests
<1>4. generation \in 1..(MaxGeneration + 1)
  BY <1>1 DEF PanelTypeOK
<1>5. generation' \in 1..(MaxGeneration + 1) /\ \A c \in calls : c.generation # generation'
  BY <1>1, <1>2, <1>3, <1>4, PanelFacts DEF Requests
<1>6. PanelTypeOK' /\ Outdated'
  <2>1. outdated' \subseteq 1..MaxGeneration /\ Outdated'
    BY <1>1, <1>2, OutdatedType, OvertakenInvariant DEF Unmount
  <2> QED
    BY <1>1, <1>2, <1>5, <2>1 DEF PanelTypeOK
<1>7. Requests'
  BY <1>2, <1>3, <1>4, <1>5 DEF Requests, Current
<1>8. BusyIsBacked' /\ Reloads'
  BY <1>2, <1>5 DEF BusyIsBacked, Reloads, Current
<1>9. Redirects'
  BY <1>1, <1>2 DEF Redirects, ReplacedOnce
<1> QED
  BY <1>6, <1>7, <1>8, <1>9 DEF PanelIInv

(* A step in which nothing changes.                                        *)
LEMMA PanelStutterInvariant == PanelIInv /\ UNCHANGED panelVars => PanelIInv'
<1> SUFFICES ASSUME PanelIInv, UNCHANGED panelVars PROVE PanelIInv'
  OBVIOUS
<1>1. UNCHANGED <<mounted, generation, calls, snapshot, statusFailed, refreshing,
                  catalogMessage, subPath, refreshSubPath, recovered, redirects, redirecting,
                  outdated>>
  BY DEF panelVars, view, route
<1>2. PanelTypeOK'
  BY <1>1 DEF PanelIInv, PanelTypeOK
<1>3. Requests' /\ BusyIsBacked' /\ Reloads' /\ Redirects' /\ Outdated'
  BY <1>1 DEF PanelIInv, Requests, BusyIsBacked, Reloads, Redirects, ReplacedOnce, Outdated,
              Current
<1> QED
  BY <1>2, <1>3 DEF PanelIInv

(* Every event of the panel keeps the invariant.                           *)
LEMMA PanelNextInvariant == PanelIInv /\ [PanelNext]_panelVars => PanelIInv'
<1> SUFFICES ASSUME PanelIInv, [PanelNext]_panelVars PROVE PanelIInv'
  OBVIOUS
<1>1. CASE CheckAgain
  BY <1>1, CheckAgainInvariant
<1>2. CASE Refresh
  BY <1>2, RefreshInvariant
<1>3. ASSUME NEW c \in calls, Ignored(c) \/ StatusAnswered(c) \/ RefreshAnswered(c)
      PROVE  PanelIInv'
  BY <1>3, IgnoredInvariant, StatusAnsweredInvariant, RefreshAnsweredInvariant
<1>4. ASSUME NEW p \in SubPaths, Visit(p) PROVE PanelIInv'
  BY <1>4, VisitInvariant
<1>5. CASE Redirected
  BY <1>5, RedirectedInvariant
<1>6. CASE Unmount
  BY <1>6, UnmountInvariant
<1>7. CASE Gone \/ UNCHANGED panelVars
  BY <1>7, PanelStutterInvariant DEF Gone
<1> QED
  BY <1>1, <1>2, <1>3, <1>4, <1>5, <1>6, <1>7 DEF PanelNext

-----------------------------------------------------------------------------

(* The invariant of the panel: requests and generations of plugin-app.tsx. *)
THEOREM PanelInvariance == PanelSpec => []PanelIInv
BY PanelInitInvariant, PanelNextInvariant, PTL DEF PanelSpec

(* Every variable of the panel keeps its type.                             *)
THEOREM PanelTypeCorrect == PanelSpec => []PanelTypeOK
<1>1. PanelIInv => PanelTypeOK
  BY DEF PanelIInv
<1> QED
  BY <1>1, PanelInvariance, PTL

(* A page that shows itself busy, or empty, waits for a request whose      *)
(* answer will count, whatever was superseded in between.                  *)
THEOREM WaitingIsForSomething == PanelSpec => []BusyIsBacked
<1>1. PanelIInv => BusyIsBacked
  BY DEF PanelIInv
<1> QED
  BY <1>1, PanelInvariance, PTL

(* The effect of the route never redirects one visit twice, however often  *)
(* the host hands out a new navigate function.                             *)
THEOREM NoRedirectLoop == PanelSpec => []ReplacedOnce
<1>1. PanelIInv => ReplacedOnce
  BY DEF PanelIInv, Redirects
<1> QED
  BY <1>1, PanelInvariance, PTL

(* However a request that the user overtook or left behind is answered in  *)
(* the end, the panel shows what it showed: refresh, initialLoad and the   *)
(* effect of the route.                                                    *)
THEOREM OutdatedRequestsAreSilent == PanelSpec => OutdatedChangesNothing
<1> DEFINE Changeless ==
      \A c \in calls \ calls' :
        c.generation \in outdated => calls' \subseteq calls /\ UNCHANGED view
<1>1. ASSUME PanelIInv, PanelNext, NEW c \in calls \ calls', c.generation \in outdated
      PROVE  calls' \subseteq calls /\ UNCHANGED view
  <2>1. PICK d \in calls : Ignored(d) \/ StatusAnswered(d) \/ RefreshAnswered(d)
    <3>1. ~CheckAgain /\ ~Refresh /\ ~Redirected /\ ~Unmount /\ ~Gone
      BY <1>1 DEF CheckAgain, Refresh, Redirected, Unmount, Gone, panelVars
    <3>2. \A p \in SubPaths : ~Visit(p)
      BY <1>1 DEF Visit, RouteEffect
    <3> QED
      BY <1>1, <3>1, <3>2 DEF PanelNext
  <2>2. c = d
    BY <1>1, <2>1 DEF Ignored, StatusAnswered, RefreshAnswered
  <2>3. c.generation # generation
    BY <1>1 DEF PanelIInv, Outdated, PanelTypeOK
  <2> QED
    BY <2>1, <2>2, <2>3 DEF Ignored, StatusAnswered, RefreshAnswered, Current
<1>2. PanelIInv /\ [PanelNext]_panelVars => [Changeless]_panelVars
  BY <1>1
<1> QED
  BY <1>2, PanelInvariance, PTL DEF PanelSpec, OutdatedChangesNothing

(* A panel that is gone asks for nothing: neither the status nor a refresh *)
(* that is answered afterwards starts another request.                     *)
THEOREM GonePanelIsSilent == PanelSpec => NothingAfterUnmount
<1>1. ASSUME PanelIInv, PanelNext, ~mounted PROVE calls' \subseteq calls
  <2>1. ASSUME NEW c \in calls, Ignored(c) \/ StatusAnswered(c) \/ RefreshAnswered(c)
        PROVE  calls' \subseteq calls
    <3>1. ~Current(c)
      BY <1>1 DEF PanelIInv, Requests
    <3> QED
      BY <2>1, <3>1 DEF Ignored, StatusAnswered, RefreshAnswered
  <2>2. CASE Gone
    BY <2>2 DEF Gone, panelVars
  <2> QED
    BY <1>1, <2>1, <2>2 DEF PanelNext, CheckAgain, Refresh, Visit, Redirected, Unmount
<1>2. PanelIInv /\ [PanelNext]_panelVars => [~mounted => calls' \subseteq calls]_panelVars
  BY <1>1
<1> QED
  BY <1>2, PanelInvariance, PTL DEF PanelSpec, NothingAfterUnmount

=============================================================================
