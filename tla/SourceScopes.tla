---------------------------- MODULE SourceScopes -----------------------------
(***************************************************************************)
(* What scans of project roots say about the paths below them: the rules   *)
(* of discovery/catalog.ts by which a snapshot retires a target, shared by *)
(* the catalog and by the controller that feeds it.                        *)
(***************************************************************************)

CONSTANTS
  Paths,   \* canonical paths
  Inside   \* <<p, q>>: path p is q or lies below q

(* Paths form a forest: of two that hold the same one, one holds the other.*)
ASSUME ScopesAssumption ==
  /\ Inside \subseteq Paths \X Paths
  /\ \A p \in Paths : <<p, p>> \in Inside
  /\ \A p, q, r \in Paths :
       (<<p, q>> \in Inside /\ <<q, r>> \in Inside) => <<p, r>> \in Inside
  /\ \A p, q, r \in Paths :
       (<<p, q>> \in Inside /\ <<p, r>> \in Inside)
         => (<<q, r>> \in Inside \/ <<r, q>> \in Inside)

Below(S) == {p \in Paths : \E s \in S : <<p, s>> \in Inside}
Overlap(s, t) == <<s, t>> \in Inside \/ <<t, s>> \in Inside

(* Registered scopes that a snapshot of the authoritative ones did not     *)
(* scan, but that overlap one of them.                                     *)
Unscanned(registered, authoritative) ==
  {s \in registered \ authoritative : \E a \in authoritative : Overlap(s, a)}

(* The paths that a snapshot of some scopes speaks for.                    *)
SpeaksFor(registered, authoritative, doubted) ==
  Below(authoritative) \ Below(doubted \cup Unscanned(registered, authoritative))

(* The paths that one speaks for which lists every current scope.          *)
SpeaksForAll(registered, current, doubted) ==
  Below(registered \cup current) \ Below(doubted)

=============================================================================
