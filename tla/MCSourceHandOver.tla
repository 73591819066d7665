---------------------------- MODULE MCSourceHandOver ----------------------------
(* Instances of SourceHandOver for model checking. *)
EXTENDS SourceHandOver

CONSTANTS c1, c2

Says(bb, flaws) == [bb |-> bb, flaws |-> flaws]
SomeTexts == {Says(TRUE, {}), Says(TRUE, {"engines"}), Says(FALSE, {})}

Input(path, key, flaw) == [path |-> path, key |-> key, flaw |-> flaw]
OneRoot == <<Input("root", "k1", "none")>>
Overlapping ==
  <<Input("pkg", "k1", "none"), Input("spelled", "k2", "none"), Input("root", "k3", "none")>>
Rejected ==
  <<Input("root", "k1", "root-key-invalid"), Input("pkg", "k2", "none"),
    Input("root", "k2", "none"), Input("out", "k3", "none"), Input("spelled", "k4", "none"),
    Input("outPkg", "k5", "none")>>

Line(id, source, declared, root, provenance, orphaned, flaws) ==
  [id |-> id, source |-> source, declared |-> declared, rootDir |-> root,
   provenance |-> provenance, orphaned |-> orphaned, flaws |-> flaws]
Rows ==
  {Line("p", "path", "pkg", "pkg", "direct", FALSE, {}),
   Line("p", "path", "out", "out", "direct", FALSE, {}),
   Line("p", "path", "pkg", "root", "direct", FALSE, {"version"}),
   Line("q", "path", "pkg", "pkg", "direct", FALSE, {}),
   Line("q", "path", "pkg", "pkg", "direct", FALSE, {"id"}),
   Line("p", "npm", "pkg", "pkg", "direct", FALSE, {}),
   Line("p", "builtin", "pkg", "pkg", "catalog", TRUE, {}),
   Line("q", "git", "pkg", "pkg", "builtin", TRUE, {"row"})}
SomeLists ==
  {<<>>} \cup {<<row>> : row \in Rows}
    \cup {<<Line("p", "path", "pkg", "pkg", "direct", FALSE, {}), row>> : row \in Rows}
    \cup {<<row, row, row>> : row \in {row \in Rows : row.source = "git"}}

Scene(configuration, often, lists) ==
  [configuration |-> configuration, changes |-> often, lists |-> lists]
SomeScenes ==
  {Scene(OneRoot, 2, {}), Scene(Overlapping, 1, {}), Scene(Rejected, 1, {}),
   Scene(OneRoot, 1, SomeLists)}
================================================================================
