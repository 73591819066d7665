---------------------- MODULE MCProjectTargetAdmission -----------------------
(* A project nested in another; a package that both see, and one in the    *)
(* inner project that only the inner one sees.                             *)
EXTENDS ProjectTargetAdmission

CONSTANTS outer, inner, other, both, deep, far

ThreeRoots == {outer, inner, other}
TwoPackages == {both, deep}
AllPaths == Roots \cup Packages
Placement ==
  {<<p, p>> : p \in {outer, inner, other, both, deep, far}}
    \cup ({inner} \X {outer}) \cup ({both, deep} \X {outer, inner})
    \cup ({far} \X {other})
InPaths == Placement \cap (AllPaths \X AllPaths)
Patterns == {<<both, outer>>, <<both, inner>>, <<deep, inner>>, <<far, other>>}
SeesHere == Patterns \cap InPaths

=============================================================================
