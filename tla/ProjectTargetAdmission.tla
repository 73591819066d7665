------------------------ MODULE ProjectTargetAdmission -----------------------
(***************************************************************************)
(* How one inventory of projects becomes targets of the catalog: admit of  *)
(* packages/runtime/src/project-target-controller.ts.                      *)
(*                                                                         *)
(* An admission scans the roots of the projects and then writes: one       *)
(* snapshot of everything if the inventory is complete and every root was  *)
(* admitted; otherwise the scopes it is not sure of, a snapshot of each    *)
(* group of overlapping roots that were scanned completely, and the other  *)
(* candidates one by one.  Each write may fail alone and the admission     *)
(* goes on, or may be refused authorisation, which ends it.                *)
(*                                                                         *)
(* The catalog is seen through its contract: which packages have an active *)
(* target and which scopes are registered.  Projects with the same root    *)
(* are one here: whatever marks a root marks all of them.                  *)
(***************************************************************************)
EXTENDS SourceScopes

CONSTANTS
  Roots,      \* canonical roots of projects
  Packages,   \* canonical roots of plugin packages
  Sees        \* <<p, r>>: the workspace patterns of r match the package p

ASSUME AdmissionAssumption ==
  /\ Roots \subseteq Paths /\ Packages \subseteq Paths
  /\ Sees \subseteq Inside

VARIABLES
  host,          \* the roots of the projects that bb has
  present,       \* the packages that exist
  targets,       \* catalog: the packages with an active target
  scopes,        \* catalog: the registered project scopes
  phase,         \* what the admission writes next
  complete,      \* inventoryState: whether the inventory holds every project
  inventory,     \* the roots of the inventory
  admitted,      \* those that were admitted
  found,         \* found[r]: the packages of the scan that r discovered
  issued,        \* the packages whose candidate was issued
  partial,       \* the roots whose group is partial
  uncertain,     \* uncertainSourceRoots
  done,          \* authoritative roots whose component was dealt with
  reconciled,    \* those whose component was written
  rescued,       \* the component whose scopes are registered after a failure
  settled,       \* the packages written by a component or on their own
  tried,         \* failed writes of single candidates: <<root, package>>
  groups,        \* groups[r]: the targets answered for r
  unregistered,  \* history: roots whose registration failed since the last
  known          \* history: projects of the host that an admission dealt with

world == <<host, present>>
catalog == <<targets, scopes>>
scan == <<complete, inventory, admitted, found, issued, uncertain>>
progress == <<done, reconciled, rescued, settled, tried>>
history == <<unregistered, known>>
vars == <<world, catalog, phase, scan, partial, progress, groups, history>>

Nothing == [r \in Roots |-> {}]

Init ==
  /\ host = {} /\ present = {} /\ targets = {} /\ scopes = {}
  /\ phase = "idle" /\ complete = TRUE
  /\ inventory = {} /\ admitted = {} /\ found = Nothing /\ issued = {}
  /\ partial = {} /\ uncertain = {}
  /\ done = {} /\ reconciled = {} /\ rescued = {} /\ settled = {} /\ tried = {}
  /\ groups = Nothing /\ unregistered = {} /\ known = {}

WorldChanges ==
  /\ phase = "idle"
  /\ host' \in SUBSET Roots /\ present' \in SUBSET Packages
  /\ known' = known \cap host'
  /\ UNCHANGED <<catalog, phase, scan, partial, progress, groups, unregistered>>

-----------------------------------------------------------------------------

Seen(r) == {p \in present : <<p, r>> \in Sees}

Discovered(r) == found[r] \cap issued

(* Faulty: the roots of a candidate that was not issued stay ready.        *)
DoubtfulIfDiagnosed(f, diagnosed, bad) == diagnosed

(* Groups are partial that were diagnosed, or whose candidate could not be *)
(* issued.                                                                 *)
Doubtful(f, diagnosed, bad) == diagnosed \cup {r \in Roots : f[r] \cap bad # {}}

(* Faulty: an inventory replaces the scopes although a root was refused.   *)
ReplacesAnyway(whole, listed, taken) == whole

(* canReplaceProjectScopes.                                                *)
Replaces(whole, listed, taken) == whole /\ taken = listed

(* Roots are admitted, or refused with a diagnostic; they are scanned, and *)
(* one without a diagnostic was scanned completely; the candidates are     *)
(* issued, or not.                                                         *)
Scan ==
  /\ phase = "idle"
  /\ inventory' \in SUBSET host
  /\ complete' = (inventory' = host)
  /\ admitted' \in SUBSET inventory'
  /\ \E diagnosed \in SUBSET admitted' :
       /\ found' \in [Roots -> SUBSET present]
       /\ \A r \in Roots :
            /\ found'[r] \subseteq Seen(r)
            /\ r \notin admitted' => found'[r] = {}
            /\ r \in admitted' \ diagnosed => found'[r] = Seen(r)
       /\ issued' \in SUBSET UNION {found'[r] : r \in Roots}
       /\ LET bad == (UNION {found'[r] : r \in Roots}) \ issued'
          IN  partial' = (inventory' \ admitted') \cup Doubtful(found', diagnosed, bad)
  /\ uncertain' = partial' \cap admitted'
  /\ phase' = IF Replaces(complete', inventory', admitted') THEN "replace"
              ELSE "register"
  /\ UNCHANGED <<world, catalog, progress, groups, history>>

-----------------------------------------------------------------------------

(* A write of the catalog that registers scopes; one that fails leaves the *)
(* scopes it should have registered unprotected.                           *)
Registers(S) == scopes' = scopes \cup S /\ unregistered' = unregistered \ S
FailsToRegister(S) ==
  unregistered' = unregistered \cup (S \ scopes) /\ UNCHANGED scopes

(* addTargetToGroups, for the roots that discovered each package.          *)
Answered(S) ==
  groups' = [r \in Roots |-> groups[r] \cup (found[r] \cap S)]

(* Faulty: the complete inventory speaks for its own scopes only.          *)
ReplaceCurrent ==
  /\ phase = "replace"
  /\ targets' = (targets \ SpeaksFor({}, admitted, uncertain)) \cup issued
  /\ scopes' = admitted /\ unregistered' = unregistered \ admitted
  /\ Answered(issued)
  /\ phase' = "answer"
  /\ UNCHANGED <<world, scan, partial, progress, known>>

(* refreshFromCompleteSnapshot with currentSourceRoots.                    *)
Replace ==
  /\ phase = "replace"
  /\ targets' = (targets \ SpeaksForAll(scopes, admitted, uncertain)) \cup issued
  /\ scopes' = admitted /\ unregistered' = unregistered \ admitted
  /\ Answered(issued)
  /\ phase' = "answer"
  /\ UNCHANGED <<world, scan, partial, progress, known>>

ReplaceFails ==
  /\ phase = "replace"
  /\ partial' = inventory
  /\ FailsToRegister(admitted)
  /\ phase' = "answer"
  /\ UNCHANGED <<world, targets, scan, progress, groups, known>>

(* registerProjectScopes for the roots that are not authoritative.         *)
RegisterUncertain ==
  /\ phase = "register"
  /\ phase' = "components"
  /\ \/ Registers(uncertain)
     \/ uncertain # {} /\ FailsToRegister(uncertain)
  /\ UNCHANGED <<world, targets, scan, partial, progress, groups, known>>

Authoritative == admitted \ uncertain

(* overlappingRootComponents: the classes of overlap, transitively.        *)
Closed(C, A) == \A r \in C, s \in A : Overlap(r, s) => s \in C
Components(A) ==
  {C \in SUBSET A :
     /\ C # {} /\ Closed(C, A)
     /\ \A D \in SUBSET C : D # {} /\ Closed(D, A) => D = C}

CandidatesOf(C) == UNION {Discovered(r) : r \in C}

(* refreshFromCompleteSnapshot with authoritativeSourceRoots.              *)
WriteComponent(C) ==
  /\ phase = "components" /\ C \cap done = {}
  /\ targets' = (targets \ SpeaksFor(scopes, C, uncertain)) \cup CandidatesOf(C)
  /\ Registers(C)
  /\ Answered(CandidatesOf(C))
  /\ settled' = settled \cup CandidatesOf(C)
  /\ reconciled' = reconciled \cup C
  /\ done' = done \cup C
  /\ UNCHANGED <<world, phase, scan, partial, rescued, tried, known>>

(* It fails, and the scopes of the component are registered instead.       *)
ComponentFails(C) ==
  /\ phase = "components" /\ C \cap done = {}
  /\ partial' = partial \cup C
  /\ done' = done \cup C
  /\ rescued' = C
  /\ phase' = "rescue"
  /\ UNCHANGED <<world, catalog, scan, reconciled, settled, tried, groups, history>>

Rescue ==
  /\ phase = "rescue"
  /\ Registers(rescued) \/ FailsToRegister(rescued)
  /\ rescued' = {}
  /\ phase' = "components"
  /\ UNCHANGED <<world, targets, scan, partial, done, reconciled, settled, tried, groups,
                 known>>

Single(r, p) ==
  /\ phase = "components" /\ done = Authoritative
  /\ r \in admitted \ reconciled /\ p \in Discovered(r) \ settled
  /\ <<r, p>> \notin tried

(* refreshFromTrustedCandidate for a candidate of no component.            *)
WriteSingle(r, p) ==
  /\ Single(r, p)
  /\ targets' = targets \cup {p}
  /\ settled' = settled \cup {p}
  /\ Answered({p})
  /\ UNCHANGED <<world, scopes, phase, scan, partial, done, reconciled, rescued,
                 tried, history>>

SingleFails(r, p) ==
  /\ Single(r, p)
  /\ partial' = partial \cup {r}
  /\ tried' = tried \cup {<<r, p>>}
  /\ UNCHANGED <<world, catalog, phase, scan, done, reconciled, rescued, settled,
                 groups, history>>

Conclude ==
  /\ phase = "components" /\ done = Authoritative
  /\ \A r \in Roots, p \in Packages : ~Single(r, p)
  /\ phase' = "answer"
  /\ UNCHANGED <<world, catalog, scan, partial, progress, groups, history>>

(* The answer is given; or the admission ends without one, because it was  *)
(* aborted or the next write was refused authorisation.                    *)
End ==
  /\ phase # "idle" /\ phase' = "idle"
  /\ complete' = TRUE
  /\ inventory' = {} /\ admitted' = {} /\ found' = Nothing /\ issued' = {}
  /\ partial' = {} /\ uncertain' = {}
  /\ done' = {} /\ reconciled' = {} /\ rescued' = {} /\ settled' = {} /\ tried' = {}
  /\ groups' = Nothing
  /\ known' = IF phase = "answer" THEN known \cup admitted ELSE known
  /\ UNCHANGED <<world, catalog, unregistered>>

Next ==
  \/ WorldChanges
  \/ Scan
  \/ Replace \/ ReplaceFails
  \/ RegisterUncertain
  \/ \E C \in Components(Authoritative) : WriteComponent(C) \/ ComponentFails(C)
  \/ Rescue
  \/ \E r \in Roots, p \in Packages : WriteSingle(r, p) \/ SingleFails(r, p)
  \/ Conclude
  \/ End

Spec == Init /\ [][Next]_vars

-----------------------------------------------------------------------------

TypeOK ==
  /\ host \subseteq Roots /\ present \subseteq Packages
  /\ targets \subseteq Packages /\ scopes \subseteq Roots
  /\ phase \in {"idle", "replace", "register", "components", "rescue", "answer"}
  /\ complete \in BOOLEAN
  /\ inventory \subseteq Roots /\ admitted \subseteq inventory
  /\ found \in [Roots -> SUBSET Packages] /\ issued \subseteq Packages
  /\ partial \subseteq inventory /\ uncertain \subseteq admitted
  /\ reconciled \subseteq done /\ done \subseteq Authoritative
  /\ rescued \subseteq Authoritative
  /\ settled \subseteq issued /\ tried \subseteq Roots \X Packages
  /\ groups \in [Roots -> SUBSET Packages]
  /\ unregistered \subseteq Roots /\ known \subseteq host

(* No target is out of reach: each lies below a registered scope, so that  *)
(* the inventory without its project can retire it, unless the scope could *)
(* not be registered when the target was written.                          *)
NoOrphan == targets \subseteq Below(scopes \cup unregistered)

(* A target is not retired while its package is there and a project of the *)
(* host sees it that an earlier admission dealt with, however the project  *)
(* fares now: refused, cut off from the inventory, scanned in part or in   *)
(* doubt.  Only a scope that could not be registered is not protected.     *)
KeepsWhatAProjectSees ==
  [][\A p \in (targets \ targets') \cap present, r \in known \cup admitted :
       <<p, r>> \in Sees => r \in unregistered]_vars

(* A group that is answered as ready holds all the packages its root sees, *)
(* each with an active target, whatever the later writes did.              *)
HonestGroups ==
  phase = "answer" =>
    \A r \in inventory \ partial :
      r \in admitted /\ groups[r] = Seen(r) /\ groups[r] \subseteq targets

=============================================================================
