--------------------------- MODULE SourceCandidates ---------------------------
(***************************************************************************)
(* How a directory becomes a candidate, and a candidate a target: the scan *)
(* of packages/inspection (discoverSourceCandidates), the one-use hand-    *)
(* over to the runtime (consumeIssuedSourceCandidate, the bridge's issue)  *)
(* and the validation before the catalog writes it.  Every call to the     *)
(* file system is a step, so the tree may change between any two.  How far *)
(* a scan gets under its budgets is DiscoveryScan's subject; here every    *)
(* directory is reached.                                                   *)
(***************************************************************************)
EXTENDS TrustedRoots

CONSTANTS Callers  \* who hands candidates over

VARIABLES
  scan,        \* the scan, or what is left of it
  candidates,  \* what it recorded, as issued: the path, the identities seen
  finders,     \* discoveringRoots: <<path, key>>
  complaints,  \* diagnostics of the scan: <<path, code>>
  consumed,    \* candidates that were handed over or are being so
  hand,        \* what each caller is doing with which candidate
  held         \* history: whether what it was told stood in the tree since

discovery == <<scan, candidates, finders, complaints>>
handing == <<consumed, hand, held>>

------------------------------------------------------------------------------
(* Calls.                                                                    *)

(* The directories in a directory that is read under a name. *)
Inside(path) ==
  CASE path = "out" -> <<"outPkg">>
    [] path = "root" /\ (top = Link \/ (top \in RootDirs /\ IsDirectory(inner[top]))) -> <<"pkg">>
    [] OTHER -> <<>>

Ask(call, path, seen) ==
  CASE call = "lstat"    -> LStat(path)
    [] call = "realpath" -> RealPath(path)
    [] call \in {"leaf", "open", "settle"} -> LStatManifest(path)
    [] call = "read"     -> text[seen[Len(seen)]]
    [] call = "readdir"  -> Inside(path)

IsFile(found) == found \in Inodes

(* Faulty: a root is not inside of itself. *)
ContainedStrictly(root, path) ==
  <<root, path>> \in {<<"root", "pkg">>, <<"out", "outPkg">>}

Contained(root, path) ==
  path = root \/ <<root, path>> \in {<<"root", "pkg">>, <<"out", "outPkg">>}

(* attestScanDirectory: a directory, no link, that resolves inside the root *)
(* and, when one is expected, is the same as before.                        *)
Attest == <<"lstat", "realpath">>
Attests(root, seen, expected) ==
  /\ IsDirectory(seen[1])
  /\ Len(seen) = 2 => /\ seen[2] # None
                      /\ Contained(root, seen[2])
                      /\ expected \in {<<>>, seen}

(* readBoundedManifestSnapshot: no file, a file it refuses, or a snapshot. *)
Snapshot == <<"leaf", "open", "read">>
Snaps(seen) == \A i \in DOMAIN seen : i < 3 => IsFile(seen[i])

------------------------------------------------------------------------------
(* The scan.                                                                 *)

(* Where the scan is: in this root, after these were done, with these       *)
(* directories in the queue and nothing known of the first of them.         *)
At(root, done, queue) ==
  [root |-> root, done |-> done, queue |-> queue, step |-> "attest", seen |-> <<>>,
   attested |-> <<>>, manifest |-> <<>>, inside |-> <<>>]
NoRoot == [key |-> None, canonical |-> None]
Idle == At(NoRoot, {}, <<>>)

DiscoveryInit ==
  /\ scan = Idle
  /\ candidates = {}
  /\ finders = {}
  /\ complaints = {}

(* createRootScanStates: roots are scanned in the order of their names, so *)
(* that one which lies in another comes after it.                           *)
Names == <<"out", "outPkg", "root", "pkg">>
Before(one, other) ==
  \E i, j \in DOMAIN Names : i < j /\ Names[i] = one.canonical /\ Names[j] = other.canonical
ScanRoot == scan.root
RootsLeft == Admitted \ scan.done
Here == Head(scan.queue)

(* What JSON.parse and the checks of candidateAtRoot make of a manifest:   *)
(* not a plugin's, one with a field that a validator refuses, or a plugin. *)
IsPlugin(said) == said.bb
Valid(said) == said.flaws = {}

(* The calls of each step, and the step that follows when they agree. *)
CallsOf(step) ==
  CASE step \in {"attest", "issue", "stable", "enter", "leave"} -> Attest
    [] step = "manifest" -> Snapshot
    [] step = "declared" -> <<"realpath", "realpath">>
    [] step = "entries"  -> <<"readdir">>
After(step) ==
  CASE step = "attest"   -> "manifest"
    [] step = "manifest" -> "declared"
    [] step = "declared" -> "issue"
    [] step = "issue"    -> "stable"
    [] step = "stable"   -> "enter"
    [] step = "enter"    -> "entries"
    [] step = "entries"  -> "leave"

(* Whether a step's calls, as far as they went, let it go on.  The declared  *)
(* server file is looked at under the directory's name: what it is in       *)
(* follows links, what it resolves to has to be inside.                     *)
Agrees(seen) ==
  CASE scan.step = "attest"   -> Attests(ScanRoot.canonical, seen, <<>>)
    [] scan.step = "manifest" ->
         Snaps(seen) /\ (Len(seen) = 3 => IsPlugin(seen[3]) /\ Valid(seen[3]))
    [] scan.step = "declared" ->
         seen[1] # None /\ (Len(seen) = 2 => Contained(Here, seen[2]))
    [] scan.step = "issue"    ->
         Attests(ScanRoot.canonical, seen, <<>>)
           /\ (Len(seen) = 2 => seen[2] = Here)
    [] scan.step = "entries"  -> LStat(Here) # None
    [] OTHER -> Attests(ScanRoot.canonical, seen, scan.attested)

Seeing == Append(scan.seen, Ask(CallsOf(scan.step)[Len(scan.seen) + 1], Here, scan.seen))

Scanning == scan.queue # <<>>
ScanEnded == scan.step = "ended"

(* What the scan knows of the directory it is at, and its next step. *)
Scans(step, seen, attested, manifest, inside) ==
  scan' = [root |-> scan.root, done |-> scan.done, queue |-> scan.queue, step |-> step,
           seen |-> seen, attested |-> attested, manifest |-> manifest, inside |-> inside]

(* The next root, with its directory in the queue, or the end. *)
NextRoot ==
  /\ inputs = <<>> /\ ~Scanning /\ ~ScanEnded
  /\ \/ \E root \in RootsLeft :
          /\ ~\E other \in RootsLeft : Before(other, root)
          /\ scan' = At(root, scan.done \cup {root}, <<root.canonical>>)
     \/ /\ RootsLeft = {}
        /\ Scans("ended", <<>>, <<>>, <<>>, <<>>)
  /\ UNCHANGED <<candidates, finders, complaints, tree>>

(* A call that does not end its step. *)
ScanCall ==
  /\ Scanning
  /\ Agrees(Seeing)
  /\ Len(Seeing) < Len(CallsOf(scan.step))
  /\ Scans(scan.step, Seeing, scan.attested, scan.manifest, scan.inside)
  /\ UNCHANGED <<candidates, finders, complaints, tree>>

(* One that does.  The step "issue" adds the directory's identity to what   *)
(* the manifest's reading remembered.                                       *)
ScanStep ==
  /\ Scanning /\ scan.step # "leave"
  /\ Agrees(Seeing)
  /\ Len(Seeing) = Len(CallsOf(scan.step))
  /\ Scans(After(scan.step), <<>>,
           IF scan.step = "attest" THEN Seeing ELSE scan.attested,
           CASE scan.step = "manifest" -> <<Seeing[2], Seeing[3]>>
             [] scan.step = "issue"    -> <<Seeing[1]>> \o scan.manifest
             [] OTHER                  -> scan.manifest,
           IF scan.step = "entries" THEN Seeing[1] ELSE scan.inside)
  /\ UNCHANGED <<candidates, finders, complaints, tree>>

(* What was seen is no plugin, or none that is accepted: the scan goes on   *)
(* without a candidate.                                                     *)
NoCandidate ==
  /\ Scanning /\ scan.step \in {"manifest", "declared", "issue"}
  /\ ~Agrees(Seeing)
  /\ Scans("stable", <<>>, scan.attested, <<>>, scan.inside)
  /\ complaints' = IF scan.step = "manifest" /\
                      (Seeing = <<None>> \/ (Len(Seeing) = 3 /\ ~IsPlugin(Seeing[3])))
                   THEN complaints
                   ELSE complaints \cup {<<Here, "manifest">>}
  /\ UNCHANGED <<candidates, finders, tree>>

NextDirectory(found) == At(scan.root, scan.done, Tail(scan.queue) \o found)

(* The directory is not what it was: the scan says so and passes on; what  *)
(* was found in it is forgotten.                                            *)
ScanFails ==
  /\ Scanning /\ scan.step \notin {"manifest", "declared", "issue"}
  /\ ~Agrees(Seeing)
  /\ complaints' = complaints \cup {<<Here, "directory">>}
  /\ scan' = NextDirectory(<<>>)
  /\ UNCHANGED <<candidates, finders, tree>>

(* Faulty: one candidate for each root that leads to the directory. *)
RecordedPerRoot ==
  IF scan.manifest = <<>> \/ <<Here, ScanRoot.key>> \in finders
  THEN candidates
  ELSE candidates \cup {[path |-> Here, root |-> ScanRoot.canonical, dir |-> scan.manifest[1],
                         inode |-> scan.manifest[2], said |-> scan.manifest[3]]}

(* recordCandidate: one candidate for one directory, however many roots    *)
(* lead to it.                                                              *)
Recorded ==
  IF scan.manifest = <<>> \/ \E known \in candidates : known.path = Here
  THEN candidates
  ELSE candidates \cup {[path |-> Here, root |-> ScanRoot.canonical, dir |-> scan.manifest[1],
                         inode |-> scan.manifest[2], said |-> scan.manifest[3]]}

ScanDirectory ==
  /\ Scanning /\ scan.step = "leave"
  /\ Agrees(Seeing) /\ Len(Seeing) = 2
  /\ candidates' = Recorded
  /\ finders' = IF scan.manifest = <<>> THEN finders
                ELSE finders \cup {<<Here, ScanRoot.key>>}
  /\ scan' = NextDirectory(scan.inside)
  /\ UNCHANGED <<complaints, tree>>

Scan ==
  NextRoot \/ ScanCall \/ ScanStep \/ NoCandidate \/ ScanFails \/ ScanDirectory

------------------------------------------------------------------------------
(* The hand-over.  A caller takes a candidate, which nobody can take again;  *)
(* revalidates it; lets the runtime inspect the source and make a trusted    *)
(* candidate of it; revalidates it once more; and is given the result.       *)
(* Later the catalog validates it before it writes.                          *)

Free == [step |-> "free", on |-> <<>>, seen |-> <<>>, failed |-> FALSE]

HandingInit ==
  /\ consumed = {}
  /\ hand = [caller \in Callers |-> Free]
  /\ held = [caller \in Callers |-> FALSE]

Revalidate == <<"lstat", "realpath", "leaf", "open", "read", "lstat", "realpath">>
(* Faulty: the manifest's identity is compared, its text is not. *)
RevalidatesIdentity(on, seen) == \A i \in DOMAIN seen :
  /\ i \in {1, 6} => IsDirectory(seen[i])
  /\ i \in {2, 7} => /\ seen[i] = on.path /\ Contained(on.root, seen[i])
                     /\ seen[i - 1] = on.dir
  /\ i \in {3, 4} => IsFile(seen[i])
  /\ i = 5 => seen[4] = on.inode
Revalidates(on, seen) == \A i \in DOMAIN seen :
  /\ i \in {1, 6} => IsDirectory(seen[i])
  /\ i \in {2, 7} => /\ seen[i] = on.path /\ Contained(on.root, seen[i])
                     /\ seen[i - 1] = on.dir
  /\ i \in {3, 4} => IsFile(seen[i])
  /\ i = 5 => seen[4] = on.inode /\ seen[5] = on.said

(* inspectDevelopmentSourceIdentity, compared with what was remembered. *)
Inspect == <<"lstat", "realpath", "lstat", "leaf", "open", "read", "settle",
             "lstat", "realpath", "lstat">>
SameDirectory(on, seen, i) ==
  /\ IsDirectory(seen[i]) /\ seen[i - 2] = seen[i]
  /\ seen[i - 1] = on.path
Inspects(on, seen) == \A i \in DOMAIN seen :
  /\ i \in {1, 2, 8, 9} => seen[i] # None
  /\ i \in {3, 10} => SameDirectory(on, seen, i)
  /\ i = 4 => IsFile(seen[4])
  /\ i = 5 => seen[5] = seen[4]
  /\ i = 7 => seen[7] = seen[5]
  /\ i = 10 => /\ seen[10] = seen[3]
               /\ <<seen[10], seen[5], seen[6]>> = <<on.dir, on.inode, on.said>>

HandCalls(step) == IF step \in {"before", "after"} THEN Revalidate ELSE Inspect
HandAgrees(step, on, seen) ==
  IF step \in {"before", "after"} THEN Revalidates(on, seen) ELSE Inspects(on, seen)

Handing(caller) == hand[caller].step \in {"before", "inspect", "after", "validate"}
HandSees(caller) ==
  Append(hand[caller].seen,
         Ask(HandCalls(hand[caller].step)[Len(hand[caller].seen) + 1],
             hand[caller].on.path, hand[caller].seen))
HandAgreed(caller) == HandAgrees(hand[caller].step, hand[caller].on, HandSees(caller))
HandLast(caller) == Len(HandSees(caller)) = Len(HandCalls(hand[caller].step))

Puts(caller, step, on, seen, failed) ==
  hand' = [hand EXCEPT ![caller] = [step |-> step, on |-> on, seen |-> seen, failed |-> failed]]
Becomes(caller, step) == Puts(caller, step, hand[caller].on, <<>>, hand[caller].failed)

Refuse(caller) == Becomes(caller, "refused") /\ UNCHANGED consumed

(* Taken and marked at once, before anything is awaited. *)
Take(caller) ==
  /\ hand[caller].step = "free"
  /\ \E on \in candidates :
       IF on \in consumed
       THEN Becomes(caller, "refused") /\ UNCHANGED consumed
       ELSE /\ Puts(caller, "before", on, <<>>, FALSE)
            /\ consumed' = consumed \cup {on}

(* A call that does not end its step. *)
HandCall(caller) ==
  /\ Handing(caller) /\ HandAgreed(caller) /\ ~HandLast(caller)
  /\ Puts(caller, hand[caller].step, hand[caller].on, HandSees(caller), hand[caller].failed)
  /\ UNCHANGED consumed

(* The first revalidation passed: the runtime inspects the source. *)
StartConsumer(caller) ==
  /\ hand[caller].step = "before" /\ HandAgreed(caller) /\ HandLast(caller)
  /\ Becomes(caller, "inspect")
  /\ UNCHANGED consumed

(* Whether it succeeded or threw, the candidate is revalidated again. *)
ConsumerReturns(caller) ==
  /\ hand[caller].step = "inspect" /\ (HandAgreed(caller) => HandLast(caller))
  /\ Puts(caller, "after", hand[caller].on, <<>>, ~HandAgreed(caller))
  /\ UNCHANGED consumed

Give(caller) ==
  /\ hand[caller].step = "after" /\ HandAgreed(caller) /\ HandLast(caller)
  /\ Becomes(caller, IF hand[caller].failed THEN "refused" ELSE "given")
  /\ UNCHANGED consumed

(* A revalidation or the validation before a write disagrees. *)
HandFails(caller) ==
  /\ Handing(caller) /\ hand[caller].step # "inspect" /\ ~HandAgreed(caller)
  /\ Refuse(caller)

(* The catalog is asked to write the target, now or later. *)
StartWrite(caller) ==
  /\ hand[caller].step = "given"
  /\ Becomes(caller, "validate")
  /\ UNCHANGED consumed

(* The validation passed: what comes of it depends on what is written. *)
Validated(caller) ==
  hand[caller].step = "validate" /\ HandAgreed(caller) /\ HandLast(caller)
Write(caller) == Becomes(caller, "written") /\ UNCHANGED consumed

HandOver(caller) ==
  /\ ScanEnded
  /\ \/ Take(caller) \/ HandCall(caller) \/ StartConsumer(caller)
     \/ ConsumerReturns(caller) \/ Give(caller) \/ HandFails(caller)
     \/ StartWrite(caller)
  /\ UNCHANGED tree

(* The history: since the runtime made the trusted candidate, and since the  *)
(* catalog began to validate it, has there been a moment when the source was *)
(* in the tree as it says?                                                   *)
Vouched(on) ==
  /\ RealPath(on.path) = on.path /\ LStat(on.path) = on.dir
  /\ LStatManifest(on.path) = on.inode /\ text[on.inode] = on.said
Watched == {"after", "validate"}
Watch ==
  held' = [caller \in Callers |->
             LET was == hand[caller].step
                 now == hand[caller]'.step
             IN  IF now \in Watched /\ was # now THEN Vouched(hand[caller].on)'
                 ELSE IF was \in Watched THEN held[caller] \/ Vouched(hand[caller].on)'
                 ELSE held[caller]]
===============================================================================
