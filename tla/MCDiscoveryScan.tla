--------------------------- MODULE MCDiscoveryScan ---------------------------
(* Two roots beside each other or one inside the other, or three; what may *)
(* lie below a root, and what its configuration may say.  "node" stands    *)
(* for node_modules.                                                       *)
EXTENDS DiscoveryScan

X == <<"x">>
Y == <<"y">>
Hid == <<".", "h">>
Dist == <<"d", "i", "s", "t">>
Node == <<"n", "o", "d", "e">>
Package == <<"p", ".", "j", "s", "o", "n">>
PnpmYaml == <<"p", "n", ".", "y", "m", "l">>

GeneratedNames == {Dist}

Dir(n) == [name |-> n, kind |-> "directory"]
File(n) == [name |-> n, kind |-> "file"]
Link(n) == [name |-> n, kind |-> "symlink"]
Man == File(Package)

(* Texts: "*", "**", "./x/", "*/y" and so on.                              *)
Star == <<"*">>
Text(segments) == [negative |-> FALSE, segments |-> segments]
Not(segments) == [negative |-> TRUE, segments |-> segments]
Nothing == [pnpm |-> Absent, workspaces |-> Absent]
Workspaces(texts) == [pnpm |-> Absent, workspaces |-> texts]

Configs == {
  Workspaces(<<Text(<<Star>>)>>),
  Workspaces(<<Text(<<Glob>>)>>),
  Workspaces(<<Text(<<<<".">>, X, <<>>>>), Text(<<Star, <<"?">>>>)>>),
  Workspaces(<<Text(<<Glob, Y>>), Text(<<Dist>>)>>),
  Workspaces(<<Text(<<X, Glob>>), Not(<<X, Y>>)>>),
  Workspaces(<<Text(<<Glob>>), Not(<<X>>)>>),
  Workspaces(<<Text(<<Glob>>), Text(<<<<".", "*">>, Star>>), Not(<<X, Glob>>)>>) }

OddConfigs == {
  Nothing, Workspaces(Bad), Workspaces(<<Malformed>>),
  Workspaces(<<Text(<<X, <<"*", "*", "a">>>>)>>), Workspaces(<<Text(<<<<>>, X>>)>>),
  Workspaces(<<Text(<<X>>), Text(<<Y>>), Text(<<X>>), Text(<<Y>>)>>),
  Workspaces(<<Text(<<X, X, X, X>>)>>) }

(* Below a root: what each directory holds, by its path.                   *)
Forests == {
  (<<>> :> <<Man, Dir(X)>>) @@ (<<X>> :> <<Man>>),
  (<<>> :> <<Man, Dir(X), Dir(Y)>>) @@ (<<X>> :> <<Dir(Y)>>)
    @@ (<<X, Y>> :> <<Man>>) @@ (<<Y>> :> <<Man>>),
  (<<>> :> <<Dir(Dist), Man, Dir(X)>>) @@ (<<Dist>> :> <<Man>>)
    @@ (<<X>> :> <<Man, Dir(Y)>>) @@ (<<X, Y>> :> <<Man>>),
  (<<>> :> <<Dir(Hid), Man, Link(X)>>) @@ (<<Hid>> :> <<Dir(X)>>)
    @@ (<<Hid, X>> :> <<Man>>),
  (<<>> :> <<Dir(Node), Man, Dir(X)>>) @@ (<<Node>> :> <<Man>>) @@ (<<X>> :> <<>>) }

Small == {
  (<<>> :> <<Man>>),
  (<<>> :> <<Man, Dir(X), Dir(Y)>>) @@ (<<X>> :> <<Man>>) @@ (<<Y>> :> <<Man>>) }

Wider == (<<>> :> <<Man, Dir(X)>>)
  @@ (<<X>> :> <<File(Dist), Man, File(X), File(Y)>>)

Placed(root, forest) ==
  [d \in {root \o p : p \in DOMAIN forest} |->
     forest[SubSeq(d, Len(root) + 1, Len(d))]]

Tree(roots, entries, config) ==
  [roots |-> roots, entries |-> entries, config |-> config,
   plugins |-> {d \in DOMAIN entries :
                  d # roots[1] /\ \E k \in 1..Len(entries[d]) : entries[d][k] = Man}]

AtP == <<<<"p">>>>
AtQ == <<<<"q">>>>
AtS == <<<<"s">>>>

BesideTrees ==
  {Tree(<<AtP, AtQ>>, Placed(AtP, f) @@ Placed(AtQ, g), <<c, Workspaces(<<Text(<<Star>>)>>)>>) :
     f \in Forests, g \in Small, c \in Configs}

NestedTrees ==
  {Tree(<<AtP, Append(AtP, X)>>, Placed(AtP, f), <<c, e>>) :
     f \in {g \in Forests : <<X, Y>> \in DOMAIN g}, c \in Configs,
     e \in {Nothing, Workspaces(<<Text(<<Glob>>)>>)}}

OddTrees ==
  {Tree(<<AtP, AtQ>>, Placed(AtP, Wider) @@ Placed(AtQ, (<<>> :> <<Man>>)), <<c, Nothing>>) :
     c \in OddConfigs \cup {Workspaces(<<Text(<<Glob>>)>>)}}
  \cup
  {Tree(<<AtP, AtQ>>, Placed(AtP, (<<>> :> <<Man, File(PnpmYaml), Dir(X)>>) @@ (<<X>> :> <<Man>>))
                      @@ Placed(AtQ, (<<>> :> <<Man>>)),
        <<[pnpm |-> c, workspaces |-> Bad], Nothing>>) :
     c \in {Bad, <<>>, <<Text(<<X>>)>>}}

TwoRootTrees == BesideTrees \cup NestedTrees \cup OddTrees

(* Three roots beside each other; below x there is nothing, or a package.  *)
Deep == {
  (<<>> :> <<Man, Dir(X)>>) @@ (<<X>> :> <<>>),
  (<<>> :> <<Man, Dir(X)>>) @@ (<<X>> :> <<Dir(Y)>>) @@ (<<X, Y>> :> <<Man>>) }

ThreeRootTrees ==
  {Tree(<<AtP, AtQ, AtS>>, Placed(AtP, f) @@ Placed(AtQ, g) @@ Placed(AtS, h),
        [r \in 1..3 |-> Workspaces(<<Text(<<Glob>>)>>)]) : f, g, h \in Deep}

=============================================================================
