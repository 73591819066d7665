--------------------- MODULE ProjectTargetAdmission_proofs --------------------
(***************************************************************************)
(* Proofs about the admission of projects, for any forest of paths, any    *)
(* projects and packages, and any workspace patterns.                      *)
(*                                                                         *)
(* The argument rests on what the admission has protected so far.  A scope *)
(* is protected once it is registered, or exempt because its registration  *)
(* failed; within an admission no scope ceases to be either, except where  *)
(* a complete inventory replaces them all.  Two scopes that hold the same  *)
(* package overlap, since paths form a forest, so a snapshot of one of     *)
(* them leaves alone what a protected other may hold.                      *)
(***************************************************************************)
EXTENDS ProjectTargetAdmission, TLAPS

Protected == scopes \cup unregistered

(* What the scan established, and the admission relies on throughout.      *)
Discoveries ==
  /\ inventory \subseteq host
  /\ \A r \in Roots : found[r] \subseteq Seen(r)
  /\ \A r \in Roots \ admitted : found[r] = {}
  /\ \A r \in Authoritative : found[r] = Seen(r) /\ Seen(r) \subseteq issued
  /\ issued \subseteq UNION {found[r] : r \in Roots}
  /\ uncertain \subseteq partial
  /\ inventory \ admitted \subseteq partial

(* Between admissions nothing is left of the last one.                     *)
Cleared ==
  /\ phase = "idle" => inventory = {}
  /\ phase \in {"idle", "replace", "register"} => done = {} /\ groups = Nothing
  /\ phase = "replace" => admitted = host
  /\ phase # "rescue" => rescued = {}

(* What is protected at each point of an admission.                        *)
Protection ==
  /\ known \subseteq Protected
  /\ phase \in {"components", "rescue"} => uncertain \subseteq Protected
  /\ phase \in {"components", "rescue"} => done \ rescued \subseteq Protected
  /\ phase = "answer" => admitted \subseteq Protected
  /\ reconciled \subseteq scopes

(* What was written and answered for the roots whose component was.        *)
Written ==
  /\ \A r \in Roots : groups[r] \subseteq found[r]
  /\ \A r \in reconciled : groups[r] = Seen(r) /\ Seen(r) \subseteq targets
  /\ done \ reconciled \subseteq partial

IInv ==
  TypeOK /\ Discoveries /\ Cleared /\ Protection /\ Written /\ NoOrphan /\ HonestGroups

(* Two scopes that hold the same path overlap.                            *)
LEMMA Forest ==
  ASSUME NEW p \in Paths, NEW q, NEW r, <<p, q>> \in Inside, <<p, r>> \in Inside
  PROVE  Overlap(q, r) /\ Overlap(r, q)
<1>1. q \in Paths /\ r \in Paths
  BY ScopesAssumption DEF ScopesAssumption
<1> QED
  BY <1>1, ScopesAssumption DEF ScopesAssumption, Overlap

(* The invariant holds of an empty catalog.                                *)
LEMMA InitInvariant == Init => IInv
<1> SUFFICES ASSUME Init PROVE IInv
  OBVIOUS
<1> USE DEF Init
<1>1. TypeOK
  BY DEF TypeOK, Nothing, Authoritative
<1>2. Discoveries
  BY DEF Discoveries, Nothing, Authoritative, Seen
<1>3. Cleared
  BY DEF Cleared
<1>4. Protection
  BY DEF Protection, Protected
<1>5. Written
  BY DEF Written, Nothing
<1>6. NoOrphan /\ HonestGroups
  BY DEF NoOrphan, HonestGroups, Below
<1> QED
  BY <1>1, <1>2, <1>3, <1>4, <1>5, <1>6 DEF IInv

(* Projects and files change only while no admission depends on them.      *)
LEMMA WorldChangesInvariant == IInv /\ WorldChanges => IInv'
<1> SUFFICES ASSUME IInv, WorldChanges PROVE IInv'
  OBVIOUS
<1>1. TypeOK /\ Discoveries /\ Cleared /\ Protection /\ Written /\ NoOrphan /\ HonestGroups
  BY DEF IInv
<1>2. /\ phase = "idle" /\ host' \in SUBSET Roots /\ present' \in SUBSET Packages
      /\ known' = known \cap host'
      /\ UNCHANGED <<targets, scopes, phase, complete, inventory, admitted, found, issued,
                     uncertain, partial, done, reconciled, rescued, settled, tried, groups,
                     unregistered>>
  BY DEF WorldChanges, catalog, scan, progress
<1>3. inventory = {} /\ admitted = {} /\ Authoritative = {} /\ done = {} /\ reconciled = {}
  BY <1>1, <1>2 DEF TypeOK, Cleared, Authoritative
<1>4. TypeOK'
  BY <1>1, <1>2 DEF TypeOK, Authoritative
<1>5. \A r \in Roots : found[r] = {}
  BY <1>1, <1>3 DEF Discoveries
<1>6. Discoveries'
  BY <1>1, <1>2, <1>3, <1>5 DEF Discoveries, Authoritative, Seen
<1>7. Cleared'
  BY <1>1, <1>2, <1>3 DEF Cleared
<1>8. Protection'
  BY <1>1, <1>2, <1>3 DEF Protection, Protected
<1>9. Written'
  BY <1>1, <1>2, <1>3 DEF Written, Seen
<1>10. NoOrphan' /\ HonestGroups'
  BY <1>1, <1>2 DEF NoOrphan, HonestGroups, Below
<1> QED
  BY <1>4, <1>6, <1>7, <1>8, <1>9, <1>10 DEF IInv

(* The scan makes every root it does not doubt a complete one.             *)
LEMMA ScanInvariant == IInv /\ Scan => IInv'
<1> SUFFICES ASSUME IInv, Scan PROVE IInv'
  OBVIOUS
<1>1. TypeOK /\ Discoveries /\ Cleared /\ Protection /\ Written /\ NoOrphan /\ HonestGroups
  BY DEF IInv
<1>2. /\ phase = "idle" /\ inventory' \in SUBSET host /\ complete' = (inventory' = host)
      /\ admitted' \in SUBSET inventory' /\ uncertain' = partial' \cap admitted'
      /\ phase' = IF Replaces(complete', inventory', admitted') THEN "replace"
                  ELSE "register"
      /\ UNCHANGED <<host, present, targets, scopes, done, reconciled, rescued, settled,
                     tried, groups, unregistered, known>>
  BY DEF Scan, world, catalog, progress, history
<1>3. /\ found' \in [Roots -> SUBSET present]
      /\ issued' \in SUBSET UNION {found'[r] : r \in Roots}
      /\ \A r \in Roots : found'[r] \subseteq Seen(r)
      /\ \A r \in Roots \ admitted' : found'[r] = {}
      /\ partial' \subseteq inventory' /\ inventory' \ admitted' \subseteq partial'
      /\ \A r \in admitted' \ partial' : found'[r] = Seen(r) /\ Seen(r) \subseteq issued'
  <2>1. PICK diagnosed \in SUBSET admitted' :
           /\ found' \in [Roots -> SUBSET present]
           /\ \A r \in Roots :
                /\ found'[r] \subseteq Seen(r)
                /\ r \notin admitted' => found'[r] = {}
                /\ r \in admitted' \ diagnosed => found'[r] = Seen(r)
           /\ issued' \in SUBSET UNION {found'[r] : r \in Roots}
           /\ partial' = (inventory' \ admitted')
                 \cup Doubtful(found', diagnosed,
                              (UNION {found'[r] : r \in Roots}) \ issued')
    BY DEF Scan
  <2>2. admitted' \subseteq inventory' /\ inventory' \subseteq Roots
    BY <1>1, <1>2 DEF TypeOK
  <2>3. partial' \subseteq inventory'
    BY <2>1, <2>2 DEF Doubtful
  <2>4. ASSUME NEW r \in admitted' \ partial'
        PROVE  found'[r] = Seen(r) /\ Seen(r) \subseteq issued'
    <3> DEFINE bad == (UNION {found'[x] : x \in Roots}) \ issued'
    <3>1. r \in Roots /\ r \notin diagnosed /\ found'[r] \cap bad = {}
      BY <2>1, <2>2 DEF Doubtful
    <3>2. found'[r] = Seen(r)
      BY <2>1, <3>1
    <3>3. found'[r] \subseteq UNION {found'[x] : x \in Roots}
      BY <3>1
    <3>4. found'[r] \subseteq issued'
      BY <3>1, <3>3
    <3> QED
      BY <3>2, <3>4
  <2> QED
    BY <2>1, <2>3, <2>4
<1>4. done = {} /\ reconciled = {} /\ rescued = {} /\ settled \subseteq issued /\ issued = {}
  BY <1>1, <1>2 DEF TypeOK, Discoveries, Cleared
<1>5. TypeOK'
  BY <1>1, <1>2, <1>3, <1>4 DEF TypeOK, Authoritative
<1>6. Discoveries'
  BY <1>1, <1>2, <1>3, <1>5 DEF Discoveries, Authoritative, Seen, TypeOK
<1>7. Cleared'
  BY <1>1, <1>2, <1>4 DEF Cleared, Replaces
<1>8. Protection'
  BY <1>1, <1>2, <1>4 DEF Protection, Protected
<1>9. Written'
  BY <1>1, <1>2, <1>4 DEF Written, Cleared, Nothing
<1>10. NoOrphan' /\ HonestGroups'
  BY <1>1, <1>2 DEF NoOrphan, HonestGroups, Below
<1> QED
  BY <1>5, <1>6, <1>7, <1>8, <1>9, <1>10 DEF IInv

(* A package that the scan found lies below the root that found it.        *)
LEMMA FoundBelow ==
  ASSUME Discoveries, NEW r \in Roots, NEW p \in found[r]
  PROVE  p \in Paths /\ <<p, r>> \in Inside /\ r \in admitted
BY AdmissionAssumption, ScopesAssumption
   DEF Discoveries, Seen, AdmissionAssumption, ScopesAssumption

(* So do all issued candidates lie below admitted roots.                  *)
LEMMA IssuedBelow ==
  ASSUME Discoveries, NEW S, admitted \subseteq S
  PROVE  issued \subseteq Below(S)
<1> SUFFICES ASSUME NEW p \in issued PROVE p \in Below(S)
  OBVIOUS
<1>1. PICK r \in Roots : p \in found[r]
  BY DEF Discoveries
<1> QED
  BY <1>1, FoundBelow DEF Below

(* A complete inventory protects every scope it keeps.                     *)
LEMMA ReplaceInvariant == IInv /\ Replace => IInv'
<1> SUFFICES ASSUME IInv, Replace PROVE IInv'
  OBVIOUS
<1>1. TypeOK /\ Discoveries /\ Cleared /\ Protection /\ Written /\ NoOrphan /\ HonestGroups
  BY DEF IInv
<1>2. /\ phase = "replace" /\ phase' = "answer"
      /\ targets' = (targets \ SpeaksForAll(scopes, admitted, uncertain)) \cup issued
      /\ scopes' = admitted /\ unregistered' = unregistered \ admitted
      /\ groups' = [r \in Roots |-> groups[r] \cup (found[r] \cap issued)]
      /\ UNCHANGED <<host, present, complete, inventory, admitted, found, issued, uncertain,
                     partial, done, reconciled, rescued, settled, tried, known>>
  BY DEF Replace, Answered, world, scan, progress
<1>3. admitted = host /\ inventory = host /\ done = {} /\ reconciled = {} /\ rescued = {}
      /\ groups = Nothing
  BY <1>1, <1>2 DEF TypeOK, Discoveries, Cleared
<1>4. TypeOK'
  BY <1>1, <1>2 DEF TypeOK, Authoritative
<1>5. Discoveries'
  BY <1>1, <1>2 DEF Discoveries, Authoritative, Seen
<1>6. Cleared'
  BY <1>1, <1>2, <1>3 DEF Cleared
<1>7. known \subseteq host
  BY <1>1 DEF TypeOK
<1>8. Protection'
  BY <1>1, <1>2, <1>3, <1>7 DEF Protection, Protected
<1>9. Written'
  BY <1>1, <1>2, <1>3 DEF Written, Nothing
<1>10. NoOrphan'
  <2> SUFFICES ASSUME NEW p \in targets' PROVE p \in Below(scopes' \cup unregistered')
    BY DEF NoOrphan
  <2>1. CASE p \in issued
    BY <2>1, <1>1, <1>2, IssuedBelow
  <2>2. CASE p \in targets /\ p \notin SpeaksForAll(scopes, admitted, uncertain)
    <3>1. PICK s \in scopes \cup unregistered : p \in Paths /\ <<p, s>> \in Inside
      BY <2>2, <1>1 DEF NoOrphan, Below
    <3>2. CASE p \in Below(scopes \cup admitted)
      <4>1. p \in Below(uncertain) /\ uncertain \subseteq admitted
        BY <2>2, <3>2, <1>1 DEF SpeaksForAll, TypeOK
      <4> QED
        BY <4>1, <1>2 DEF Below
    <3>3. CASE p \notin Below(scopes \cup admitted)
      <4>1. s \notin scopes \cup admitted
        BY <3>1, <3>3 DEF Below
      <4> QED
        BY <3>1, <4>1, <1>2 DEF Below
    <3> QED
      BY <3>2, <3>3
  <2> QED
    BY <2>1, <2>2, <1>2
<1>11. HonestGroups'
  <2> SUFFICES ASSUME NEW r \in inventory \ partial
               PROVE  /\ r \in admitted /\ groups'[r] = Seen(r)
                      /\ groups'[r] \subseteq targets'
    BY <1>2 DEF HonestGroups, Seen
  <2>1. r \in Authoritative /\ r \in Roots
    BY <1>1, <1>3 DEF Authoritative, Discoveries, TypeOK
  <2>2. found[r] = Seen(r) /\ Seen(r) \subseteq issued
    BY <2>1, <1>1 DEF Discoveries
  <2> QED
    BY <2>1, <2>2, <1>2, <1>3 DEF Nothing, Authoritative
<1> QED
  BY <1>4, <1>5, <1>6, <1>8, <1>9, <1>10, <1>11 DEF IInv

(* A failed replacement leaves its roots protected or exempt.              *)
LEMMA ReplaceFailsInvariant == IInv /\ ReplaceFails => IInv'
<1> SUFFICES ASSUME IInv, ReplaceFails PROVE IInv'
  OBVIOUS
<1>1. TypeOK /\ Discoveries /\ Cleared /\ Protection /\ Written /\ NoOrphan /\ HonestGroups
  BY DEF IInv
<1>2. /\ phase = "replace" /\ phase' = "answer" /\ partial' = inventory
      /\ unregistered' = unregistered \cup (admitted \ scopes)
      /\ UNCHANGED <<host, present, targets, scopes, complete, inventory, admitted, found,
                     issued, uncertain, done, reconciled, rescued, settled, tried, groups,
                     known>>
  BY DEF ReplaceFails, FailsToRegister, world, scan, progress
<1>3. done = {} /\ reconciled = {} /\ rescued = {}
  BY <1>1, <1>2 DEF TypeOK, Cleared
<1>4. TypeOK'
  BY <1>1, <1>2 DEF TypeOK, Authoritative
<1>5. Discoveries'
  BY <1>1, <1>2 DEF Discoveries, Authoritative, Seen, TypeOK
<1>6. Cleared'
  BY <1>1, <1>2, <1>3 DEF Cleared
<1>7. Protection'
  BY <1>1, <1>2, <1>3 DEF Protection, Protected, TypeOK
<1>8. Written'
  BY <1>1, <1>2, <1>3 DEF Written, Seen
<1>9. NoOrphan' /\ HonestGroups'
  BY <1>1, <1>2 DEF NoOrphan, HonestGroups, Below
<1> QED
  BY <1>4, <1>5, <1>6, <1>7, <1>8, <1>9 DEF IInv

(* Registering scopes, or failing to, takes no protection away.            *)
LEMMA RegistrationProtects ==
  ASSUME NEW S, Registers(S) \/ FailsToRegister(S)
  PROVE  /\ Protected \subseteq Protected' /\ S \subseteq Protected'
         /\ scopes \subseteq scopes'
BY DEF Registers, FailsToRegister, Protected

(* Registration keeps the types.                                           *)
LEMMA RegistrationTyped ==
  ASSUME TypeOK, NEW S, S \subseteq Roots, Registers(S) \/ FailsToRegister(S)
  PROVE  scopes' \subseteq Roots /\ unregistered' \subseteq Roots
BY DEF Registers, FailsToRegister, TypeOK

(* After it, every root in doubt is protected or exempt.                   *)
LEMMA RegisterUncertainInvariant == IInv /\ RegisterUncertain => IInv'
<1> SUFFICES ASSUME IInv, RegisterUncertain PROVE IInv'
  OBVIOUS
<1>1. TypeOK /\ Discoveries /\ Cleared /\ Protection /\ Written /\ NoOrphan /\ HonestGroups
  BY DEF IInv
<1>2. /\ phase = "register" /\ phase' = "components"
      /\ Registers(uncertain) \/ FailsToRegister(uncertain)
      /\ UNCHANGED <<host, present, targets, complete, inventory, admitted, found, issued,
                     uncertain, partial, done, reconciled, rescued, settled, tried, groups,
                     known>>
  BY DEF RegisterUncertain, world, scan, progress
<1>3. done = {} /\ reconciled = {} /\ rescued = {} /\ uncertain \subseteq Roots
  BY <1>1, <1>2 DEF TypeOK, Cleared
<1>4. Protected \subseteq Protected' /\ uncertain \subseteq Protected'
  BY <1>2, RegistrationProtects
<1>5. scopes' \subseteq Roots /\ unregistered' \subseteq Roots
  BY <1>1, <1>2, <1>3, RegistrationTyped
<1>6. TypeOK'
  BY <1>1, <1>2, <1>5 DEF TypeOK, Authoritative
<1>7. Discoveries'
  BY <1>1, <1>2 DEF Discoveries, Authoritative, Seen
<1>8. Cleared'
  BY <1>1, <1>2, <1>3 DEF Cleared
<1>9. Protection'
  BY <1>1, <1>2, <1>3, <1>4 DEF Protection
<1>10. Written'
  BY <1>1, <1>2, <1>3 DEF Written, Seen
<1>11. NoOrphan' /\ HonestGroups'
  BY <1>1, <1>2, <1>4 DEF NoOrphan, HonestGroups, Below, Protected
<1> QED
  BY <1>6, <1>7, <1>8, <1>9, <1>10, <1>11 DEF IInv

(* A snapshot of a component spares what a protected scope outside the     *)
(* component may hold: it was not scanned, yet it overlaps.                *)
LEMMA ComponentSpares ==
  ASSUME Discoveries, NEW C, NEW p \in SpeaksFor(scopes, C, uncertain),
         NEW r \in scopes, <<p, r>> \in Inside
  PROVE  r \in C
<1>1. PICK s \in C : p \in Paths /\ <<p, s>> \in Inside
  BY DEF SpeaksFor, Below
<1>2. Overlap(r, s)
  BY <1>1, Forest
<1>3. SUFFICES ASSUME r \notin C PROVE FALSE
  OBVIOUS
<1>4. r \in Unscanned(scopes, C)
  BY <1>1, <1>2, <1>3 DEF Unscanned
<1>5. p \in Below(uncertain \cup Unscanned(scopes, C))
  BY <1>1, <1>4 DEF Below
<1> QED
  BY <1>5 DEF SpeaksFor

(* A component's snapshot keeps what was written for the others.           *)
LEMMA WriteComponentInvariant ==
  ASSUME IInv, NEW C \in Components(Authoritative), WriteComponent(C)
  PROVE  IInv'
<1>1. TypeOK /\ Discoveries /\ Cleared /\ Protection /\ Written /\ NoOrphan /\ HonestGroups
  BY DEF IInv
<1> DEFINE mine == CandidatesOf(C)
<1>2. /\ phase = "components" /\ C \cap done = {}
      /\ targets' = (targets \ SpeaksFor(scopes, C, uncertain)) \cup mine
      /\ scopes' = scopes \cup C /\ unregistered' = unregistered \ C
      /\ groups' = [r \in Roots |-> groups[r] \cup (found[r] \cap mine)]
      /\ settled' = settled \cup mine
      /\ reconciled' = reconciled \cup C /\ done' = done \cup C
      /\ UNCHANGED <<host, present, phase, complete, inventory, admitted, found, issued,
                     uncertain, partial, rescued, tried, known>>
  BY DEF WriteComponent, Registers, Answered, world, scan
<1>3. C \subseteq Authoritative /\ Authoritative \subseteq Roots
      /\ Authoritative \subseteq admitted
  BY <1>1 DEF Components, Authoritative, TypeOK
<1>4. /\ mine \subseteq issued
      /\ \A r \in C : Seen(r) \subseteq mine /\ found[r] = Seen(r)
  <2>1. ASSUME NEW r \in C PROVE Seen(r) = Discovered(r) /\ found[r] = Seen(r)
    BY <1>1, <1>3 DEF Discoveries, Discovered
  <2>2. \A r \in C : Discovered(r) \subseteq mine
    BY DEF CandidatesOf
  <2>3. mine \subseteq issued
    BY DEF CandidatesOf, Discovered
  <2> QED
    BY <2>1, <2>2, <2>3
<1>5. mine \subseteq Below(C)
  <2> SUFFICES ASSUME NEW p \in mine PROVE p \in Below(C)
    OBVIOUS
  <2>1. PICK r \in C : p \in found[r]
    BY DEF CandidatesOf, Discovered
  <2> QED
    BY <2>1, <1>1, <1>3, FoundBelow DEF Below
<1> HIDE DEF mine
<1>6. Protected \subseteq Protected' /\ C \subseteq Protected' /\ scopes \subseteq scopes'
  BY <1>2 DEF Protected
<1>7. TypeOK'
  <2>1. targets' \subseteq Packages /\ scopes' \subseteq Roots /\ unregistered' \subseteq Roots
        /\ settled' \subseteq issued'
    BY <1>1, <1>2, <1>3, <1>4 DEF TypeOK
  <2>2. groups' \in [Roots -> SUBSET Packages]
    BY <1>1, <1>2, <1>4 DEF TypeOK
  <2>3. reconciled' \subseteq done' /\ done' \subseteq Authoritative'
    BY <1>1, <1>2, <1>3 DEF TypeOK, Authoritative
  <2> QED
    BY <1>1, <1>2, <2>1, <2>2, <2>3 DEF TypeOK, Authoritative
<1>8. Discoveries'
  BY <1>1, <1>2 DEF Discoveries, Authoritative, Seen
<1>9. Cleared'
  BY <1>1, <1>2 DEF Cleared
<1>10. Protection'
  BY <1>1, <1>2, <1>6 DEF Protection
<1>11. Written'
  <2>1. \A r \in Roots : groups'[r] \subseteq found'[r]
    BY <1>1, <1>2 DEF Written
  <2>2. ASSUME NEW r \in reconciled
        PROVE  groups'[r] = Seen(r) /\ Seen(r) \subseteq targets'
    <3>1. groups[r] = Seen(r) /\ Seen(r) \subseteq targets /\ r \in scopes /\ r \notin C
          /\ r \in Authoritative /\ r \in Roots
      BY <1>1, <1>2, <1>3 DEF Written, Protection, TypeOK
    <3>2. found[r] = Seen(r)
      BY <1>1, <3>1 DEF Discoveries
    <3>3. \A p \in Seen(r) : <<p, r>> \in Inside
      BY <3>1, <3>2, <1>1, FoundBelow
    <3>4. \A p \in Seen(r) : p \notin SpeaksFor(scopes, C, uncertain)
      BY <3>1, <3>3, <1>1, ComponentSpares
    <3> QED
      BY <3>1, <3>2, <3>4, <1>2
  <2>3. ASSUME NEW r \in C
        PROVE  groups'[r] = Seen(r) /\ Seen(r) \subseteq targets'
    BY <1>1, <1>2, <1>3, <1>4 DEF Written
  <2> QED
    BY <2>1, <2>2, <2>3, <1>1, <1>2 DEF Written, Seen
<1>12. NoOrphan'
  <2> SUFFICES ASSUME NEW p \in targets' PROVE p \in Below(scopes' \cup unregistered')
    BY DEF NoOrphan
  <2>1. CASE p \in mine
    BY <2>1, <1>2, <1>5 DEF Below
  <2>2. CASE p \in targets
    BY <2>2, <1>1, <1>6 DEF NoOrphan, Below, Protected
  <2> QED
    BY <2>1, <2>2, <1>2
<1>13. HonestGroups'
  BY <1>2 DEF HonestGroups
<1> QED
  BY <1>7, <1>8, <1>9, <1>10, <1>11, <1>12, <1>13 DEF IInv

(* A failed component is no longer answered as ready.                      *)
LEMMA ComponentFailsInvariant ==
  ASSUME IInv, NEW C \in Components(Authoritative), ComponentFails(C)
  PROVE  IInv'
<1>1. TypeOK /\ Discoveries /\ Cleared /\ Protection /\ Written /\ NoOrphan /\ HonestGroups
  BY DEF IInv
<1>2. /\ phase = "components" /\ phase' = "rescue" /\ C \cap done = {}
      /\ partial' = partial \cup C /\ done' = done \cup C /\ rescued' = C
      /\ UNCHANGED <<host, present, targets, scopes, complete, inventory, admitted, found,
                     issued, uncertain, reconciled, settled, tried, groups, unregistered,
                     known>>
  BY DEF ComponentFails, world, catalog, scan, history
<1>3. C \subseteq Authoritative /\ Authoritative \subseteq inventory
  BY <1>1 DEF Components, Authoritative, TypeOK
<1>4. TypeOK'
  BY <1>1, <1>2, <1>3 DEF TypeOK, Authoritative
<1>5. Discoveries'
  BY <1>1, <1>2 DEF Discoveries, Authoritative, Seen
<1>6. Cleared'
  BY <1>1, <1>2 DEF Cleared
<1>7. rescued = {}
  BY <1>1, <1>2 DEF Cleared
<1>8. Protection'
  BY <1>1, <1>2, <1>7 DEF Protection, Protected
<1>9. Written'
  BY <1>1, <1>2 DEF Written, Seen
<1>10. NoOrphan' /\ HonestGroups'
  BY <1>1, <1>2 DEF NoOrphan, HonestGroups, Below
<1> QED
  BY <1>4, <1>5, <1>6, <1>8, <1>9, <1>10 DEF IInv

(* After it, the failed component is protected or exempt.                  *)
LEMMA RescueInvariant == IInv /\ Rescue => IInv'
<1> SUFFICES ASSUME IInv, Rescue PROVE IInv'
  OBVIOUS
<1>1. TypeOK /\ Discoveries /\ Cleared /\ Protection /\ Written /\ NoOrphan /\ HonestGroups
  BY DEF IInv
<1>2. /\ phase = "rescue" /\ phase' = "components" /\ rescued' = {}
      /\ Registers(rescued) \/ FailsToRegister(rescued)
      /\ UNCHANGED <<host, present, targets, complete, inventory, admitted, found, issued,
                     uncertain, partial, done, reconciled, settled, tried, groups, known>>
  BY DEF Rescue, world, scan
<1>3. Protected \subseteq Protected' /\ rescued \subseteq Protected'
      /\ scopes \subseteq scopes'
  BY <1>2, RegistrationProtects
<1>4. rescued \subseteq Roots
  BY <1>1 DEF TypeOK, Authoritative
<1>5. scopes' \subseteq Roots /\ unregistered' \subseteq Roots
  BY <1>1, <1>2, <1>4, RegistrationTyped
<1>6. TypeOK'
  BY <1>1, <1>2, <1>5 DEF TypeOK, Authoritative
<1>7. Discoveries'
  BY <1>1, <1>2 DEF Discoveries, Authoritative, Seen
<1>8. Cleared'
  BY <1>1, <1>2 DEF Cleared
<1>9. Protection'
  BY <1>1, <1>2, <1>3 DEF Protection
<1>10. Written'
  BY <1>1, <1>2 DEF Written, Seen
<1>11. NoOrphan' /\ HonestGroups'
  BY <1>1, <1>2, <1>3 DEF NoOrphan, HonestGroups, Below, Protected
<1> QED
  BY <1>6, <1>7, <1>8, <1>9, <1>10, <1>11 DEF IInv

(* By the time candidates are written on their own, every admitted root is *)
(* protected: it was in doubt, or its component was dealt with.            *)
LEMMA AdmittedProtected ==
  ASSUME Cleared, Protection, phase = "components", done = Authoritative
  PROVE  admitted \subseteq Protected
BY DEF Cleared, Protection, Authoritative

(* A target written on its own lies below a protected root.                *)
LEMMA WriteSingleInvariant ==
  ASSUME IInv, NEW r \in Roots, NEW p \in Packages, WriteSingle(r, p)
  PROVE  IInv'
<1>1. TypeOK /\ Discoveries /\ Cleared /\ Protection /\ Written /\ NoOrphan /\ HonestGroups
  BY DEF IInv
<1>2. /\ phase = "components" /\ done = Authoritative
      /\ r \in admitted \ reconciled /\ p \in found[r] /\ p \in issued
      /\ targets' = targets \cup {p} /\ settled' = settled \cup {p}
      /\ groups' = [s \in Roots |-> groups[s] \cup (found[s] \cap {p})]
      /\ UNCHANGED <<host, present, scopes, phase, complete, inventory, admitted, found,
                     issued, uncertain, partial, done, reconciled, rescued, tried,
                     unregistered, known>>
  BY DEF WriteSingle, Single, Discovered, Answered, world, scan, history
<1>3. r \in Protected /\ p \in Paths /\ <<p, r>> \in Inside
  BY <1>1, <1>2, AdmittedProtected, FoundBelow
<1>4. TypeOK'
  <2>1. targets' \subseteq Packages /\ settled' \subseteq issued'
    BY <1>1, <1>2 DEF TypeOK
  <2>2. groups' \in [Roots -> SUBSET Packages]
    BY <1>1, <1>2 DEF TypeOK
  <2> QED
    BY <1>1, <1>2, <2>1, <2>2 DEF TypeOK, Authoritative
<1>5. Discoveries'
  BY <1>1, <1>2 DEF Discoveries, Authoritative, Seen
<1>6. Cleared'
  BY <1>1, <1>2 DEF Cleared
<1>7. Protection'
  BY <1>1, <1>2 DEF Protection, Protected
<1>8. Written'
  <2>1. \A s \in Roots : groups'[s] \subseteq found'[s]
    BY <1>1, <1>2 DEF Written
  <2>2. ASSUME NEW s \in reconciled
        PROVE  groups'[s] = Seen(s) /\ Seen(s) \subseteq targets'
    <3>1. s \in Authoritative /\ s \in Roots
      BY <1>1 DEF TypeOK, Authoritative
    <3>2. groups[s] = Seen(s) /\ Seen(s) \subseteq targets /\ found[s] = Seen(s)
      BY <3>1, <1>1 DEF Written, Discoveries
    <3> QED
      BY <3>1, <3>2, <1>2
  <2> QED
    BY <2>1, <2>2, <1>1, <1>2 DEF Written, Seen
<1>9. NoOrphan'
  BY <1>1, <1>2, <1>3 DEF NoOrphan, Below, Protected
<1>10. HonestGroups'
  BY <1>2 DEF HonestGroups
<1> QED
  BY <1>4, <1>5, <1>6, <1>7, <1>8, <1>9, <1>10 DEF IInv

(* A candidate that fails makes its group partial.                         *)
LEMMA SingleFailsInvariant ==
  ASSUME IInv, NEW r \in Roots, NEW p \in Packages, SingleFails(r, p)
  PROVE  IInv'
<1>1. TypeOK /\ Discoveries /\ Cleared /\ Protection /\ Written /\ NoOrphan /\ HonestGroups
  BY DEF IInv
<1>2. /\ phase = "components" /\ r \in admitted
      /\ partial' = partial \cup {r} /\ tried' = tried \cup {<<r, p>>}
      /\ UNCHANGED <<host, present, targets, scopes, phase, complete, inventory, admitted,
                     found, issued, uncertain, done, reconciled, rescued, settled, groups,
                     unregistered, known>>
  BY DEF SingleFails, Single, world, catalog, scan, history
<1>3. TypeOK'
  BY <1>1, <1>2 DEF TypeOK, Authoritative
<1>4. Discoveries'
  BY <1>1, <1>2 DEF Discoveries, Authoritative, Seen
<1>5. Cleared' /\ Protection'
  BY <1>1, <1>2 DEF Cleared, Protection, Protected
<1>6. Written'
  BY <1>1, <1>2 DEF Written, Seen
<1>7. NoOrphan' /\ HonestGroups'
  BY <1>1, <1>2 DEF NoOrphan, HonestGroups, Below
<1> QED
  BY <1>3, <1>4, <1>5, <1>6, <1>7 DEF IInv

(* What is answered as ready was written by a component.                   *)
LEMMA ConcludeInvariant == IInv /\ Conclude => IInv'
<1> SUFFICES ASSUME IInv, Conclude PROVE IInv'
  OBVIOUS
<1>1. TypeOK /\ Discoveries /\ Cleared /\ Protection /\ Written /\ NoOrphan /\ HonestGroups
  BY DEF IInv
<1>2. /\ phase = "components" /\ phase' = "answer" /\ done = Authoritative
      /\ UNCHANGED <<host, present, targets, scopes, complete, inventory, admitted, found,
                     issued, uncertain, partial, done, reconciled, rescued, settled, tried,
                     groups, unregistered, known>>
  BY DEF Conclude, world, catalog, scan, progress, history
<1>3. TypeOK'
  BY <1>1, <1>2 DEF TypeOK, Authoritative
<1>4. Discoveries'
  BY <1>1, <1>2 DEF Discoveries, Authoritative, Seen
<1>5. Cleared'
  BY <1>1, <1>2 DEF Cleared
<1>6. Protection'
  BY <1>1, <1>2, AdmittedProtected DEF Protection, Protected
<1>7. Written' /\ NoOrphan'
  BY <1>1, <1>2 DEF Written, Seen, NoOrphan, Below
<1>8. HonestGroups'
  <2> SUFFICES ASSUME NEW r \in inventory \ partial
               PROVE  r \in admitted /\ groups[r] = Seen(r) /\ groups[r] \subseteq targets
    BY <1>2 DEF HonestGroups, Seen
  <2>1. r \in admitted /\ r \in Authoritative
    BY <1>1 DEF Discoveries, Authoritative
  <2>2. r \in reconciled
    BY <2>1, <1>1, <1>2 DEF Written
  <2> QED
    BY <2>1, <2>2, <1>1 DEF Written
<1> QED
  BY <1>3, <1>4, <1>5, <1>6, <1>7, <1>8 DEF IInv

(* An admission leaves its roots known, and protected or exempt.           *)
LEMMA EndInvariant == IInv /\ End => IInv'
<1> SUFFICES ASSUME IInv, End PROVE IInv'
  OBVIOUS
<1>1. TypeOK /\ Discoveries /\ Cleared /\ Protection /\ Written /\ NoOrphan /\ HonestGroups
  BY DEF IInv
<1>2. /\ phase' = "idle" /\ complete' = TRUE
      /\ inventory' = {} /\ admitted' = {} /\ found' = Nothing /\ issued' = {}
      /\ partial' = {} /\ uncertain' = {} /\ done' = {} /\ reconciled' = {}
      /\ rescued' = {} /\ settled' = {} /\ tried' = {} /\ groups' = Nothing
      /\ known' = IF phase = "answer" THEN known \cup admitted ELSE known
      /\ UNCHANGED <<host, present, targets, scopes, unregistered>>
  BY DEF End, world, catalog
<1>3. TypeOK'
  BY <1>1, <1>2 DEF TypeOK, Authoritative, Nothing, Discoveries
<1>4. Discoveries'
  BY <1>2 DEF Discoveries, Authoritative, Nothing
<1>5. Cleared'
  BY <1>2 DEF Cleared
<1>6. Protection'
  BY <1>1, <1>2 DEF Protection, Protected
<1>7. Written'
  BY <1>2 DEF Written, Nothing
<1>8. NoOrphan' /\ HonestGroups'
  BY <1>1, <1>2 DEF NoOrphan, HonestGroups, Below
<1> QED
  BY <1>3, <1>4, <1>5, <1>6, <1>7, <1>8 DEF IInv

(* Steps that change nothing.                                              *)
LEMMA StutterInvariant == IInv /\ UNCHANGED vars => IInv'
<1> SUFFICES ASSUME IInv, UNCHANGED vars PROVE IInv'
  OBVIOUS
<1> USE DEF vars, world, catalog, scan, progress, history
<1>1. TypeOK' /\ Discoveries' /\ Cleared'
  BY DEF IInv, TypeOK, Discoveries, Cleared, Authoritative, Seen
<1>2. Protection' /\ Written' /\ NoOrphan' /\ HonestGroups'
  BY DEF IInv, Protection, Protected, Written, NoOrphan, HonestGroups, Below, Seen
<1> QED
  BY <1>1, <1>2 DEF IInv

(* Every step preserves the invariant.                                     *)
LEMMA NextInvariant == IInv /\ [Next]_vars => IInv'
<1> SUFFICES ASSUME IInv, [Next]_vars PROVE IInv'
  OBVIOUS
<1>1. CASE WorldChanges
  BY <1>1, WorldChangesInvariant
<1>2. CASE Scan
  BY <1>2, ScanInvariant
<1>3. CASE Replace \/ ReplaceFails
  BY <1>3, ReplaceInvariant, ReplaceFailsInvariant
<1>4. CASE RegisterUncertain
  BY <1>4, RegisterUncertainInvariant
<1>5. CASE \E C \in Components(Authoritative) : WriteComponent(C) \/ ComponentFails(C)
  BY <1>5, WriteComponentInvariant, ComponentFailsInvariant
<1>6. CASE Rescue
  BY <1>6, RescueInvariant
<1>7. CASE \E r \in Roots, p \in Packages : WriteSingle(r, p) \/ SingleFails(r, p)
  BY <1>7, WriteSingleInvariant, SingleFailsInvariant
<1>8. CASE Conclude \/ End
  BY <1>8, ConcludeInvariant, EndInvariant
<1>9. CASE UNCHANGED vars
  BY <1>9, StutterInvariant
<1> QED
  BY <1>1, <1>2, <1>3, <1>4, <1>5, <1>6, <1>7, <1>8, <1>9 DEF Next

-----------------------------------------------------------------------------

(* The inductive invariant: what the scan established, what is protected   *)
(* at each point, and what was written for the components dealt with.      *)
THEOREM AdmissionInvariance == Spec => []IInv
BY InitInvariant, NextInvariant, PTL DEF Spec

(* Every variable of the admission keeps its type.                         *)
THEOREM AdmissionTypeCorrect == Spec => []TypeOK
<1>1. IInv => TypeOK
  BY DEF IInv
<1> QED
  BY <1>1, AdmissionInvariance, PTL

(* Every target lies below a registered scope, or below one whose          *)
(* registration failed when the target was written.                        *)
THEOREM NoTargetIsOutOfReach == Spec => []NoOrphan
<1>1. IInv => NoOrphan
  BY DEF IInv
<1> QED
  BY <1>1, AdmissionInvariance, PTL

(* A group that is answered as ready holds every package its root sees,    *)
(* each of which has an active target.                                     *)
THEOREM ReadyGroupsAreComplete == Spec => []HonestGroups
<1>1. IInv => HonestGroups
  BY DEF IInv
<1> QED
  BY <1>1, AdmissionInvariance, PTL

-----------------------------------------------------------------------------

(* A snapshot of a complete inventory retires nothing that a project of    *)
(* the host sees.                                                          *)
LEMMA ReplaceKeeps ==
  ASSUME IInv, Replace, NEW p \in (targets \ targets') \cap present,
         NEW r \in known \cup admitted, <<p, r>> \in Sees
  PROVE  r \in unregistered
<1>1. TypeOK /\ Discoveries /\ Cleared /\ Protection /\ Written /\ NoOrphan /\ HonestGroups
  BY DEF IInv
<1>2. /\ phase = "replace"
      /\ targets' = (targets \ SpeaksForAll(scopes, admitted, uncertain)) \cup issued
  BY DEF Replace
<1>3. r \in admitted /\ r \in Roots /\ p \in Seen(r) /\ p \in Paths /\ <<p, r>> \in Inside
  BY <1>1, <1>2, AdmissionAssumption, ScopesAssumption
     DEF TypeOK, Cleared, Seen, AdmissionAssumption, ScopesAssumption
<1>4. CASE r \in uncertain
  <2>1. p \notin SpeaksForAll(scopes, admitted, uncertain)
    BY <1>3, <1>4 DEF SpeaksForAll, Below
  <2> QED
    BY <2>1, <1>2
<1>5. CASE r \notin uncertain
  BY <1>1, <1>2, <1>3, <1>5 DEF Discoveries, Authoritative
<1> QED
  BY <1>4, <1>5

(* A snapshot of a component retires nothing that a root inside it found,  *)
(* nor what a protected root outside it may hold.                          *)
LEMMA WriteComponentKeeps ==
  ASSUME IInv, NEW C \in Components(Authoritative), WriteComponent(C),
         NEW p \in (targets \ targets') \cap present,
         NEW r \in known \cup admitted, <<p, r>> \in Sees
  PROVE  r \in unregistered
<1>1. TypeOK /\ Discoveries /\ Cleared /\ Protection /\ Written /\ NoOrphan /\ HonestGroups
  BY DEF IInv
<1>2. /\ phase = "components"
      /\ targets' = (targets \ SpeaksFor(scopes, C, uncertain)) \cup CandidatesOf(C)
  BY DEF WriteComponent
<1>3. r \in Roots /\ p \in Seen(r) /\ p \in Paths /\ <<p, r>> \in Inside
  BY <1>1, AdmissionAssumption, ScopesAssumption
     DEF TypeOK, Seen, AdmissionAssumption, ScopesAssumption
<1>4. p \in SpeaksFor(scopes, C, uncertain) /\ p \notin CandidatesOf(C)
  BY <1>2
<1>5. C \subseteq Authoritative /\ Closed(C, Authoritative)
  BY DEF Components
<1>6. r \notin C
  <2> SUFFICES ASSUME r \in C PROVE FALSE
    OBVIOUS
  <2>1. p \in Discovered(r)
    BY <1>1, <1>3, <1>5 DEF Discoveries, Discovered
  <2> QED
    BY <2>1, <1>4 DEF CandidatesOf
<1>7. r \notin scopes
  BY <1>1, <1>3, <1>4, <1>6, ComponentSpares
<1>8. r \notin uncertain
  BY <1>3, <1>4 DEF SpeaksFor, Below
<1>9. r \notin Authoritative
  <2>1. PICK s \in C : <<p, s>> \in Inside
    BY <1>4 DEF SpeaksFor, Below
  <2>2. Overlap(s, r)
    BY <2>1, <1>3, Forest
  <2> QED
    BY <2>2, <1>5, <1>6 DEF Closed
<1>10. r \in known
  BY <1>8, <1>9 DEF Authoritative
<1> QED
  BY <1>1, <1>7, <1>10 DEF Protection, Protected

(* A target whose package is there is kept as long as a project sees it    *)
(* that an admission dealt with, unless its scope could not be registered. *)
THEOREM VisibleTargetsAreKept == Spec => KeepsWhatAProjectSees
<1> DEFINE Kept ==
      \A p \in (targets \ targets') \cap present, r \in known \cup admitted :
        <<p, r>> \in Sees => r \in unregistered
<1>1. IInv /\ [Next]_vars => [Kept]_vars
  <2> SUFFICES ASSUME IInv, Next PROVE Kept
    OBVIOUS
  <2>1. CASE Replace
    BY <2>1, ReplaceKeeps
  <2>2. CASE \E C \in Components(Authoritative) : WriteComponent(C)
    BY <2>2, WriteComponentKeeps
  <2>3. CASE targets \subseteq targets'
    BY <2>3
  <2>4. \/ Replace
        \/ \E C \in Components(Authoritative) : WriteComponent(C)
        \/ targets \subseteq targets'
    BY DEF Next, WorldChanges, Scan, ReplaceFails, RegisterUncertain, ComponentFails, Rescue,
           WriteSingle, SingleFails, Conclude, End, catalog
  <2> QED
    BY <2>1, <2>2, <2>3, <2>4
<1>2. Spec => [][Kept]_vars
  BY <1>1, AdmissionInvariance, PTL DEF Spec
<1> QED
  BY <1>2 DEF KeepsWhatAProjectSees

=============================================================================
