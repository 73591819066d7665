------------------------------ MODULE SourceTree ------------------------------
(***************************************************************************)
(* The directories a source is looked for in, as the system calls of       *)
(* packages/inspection and packages/runtime see them while somebody else   *)
(* works on them.  The file system is not the repository's code: this      *)
(* module is the environment of TrustedRoots, SourceCandidates and         *)
(* NativeInventory.                                                        *)
(*                                                                         *)
(*   root        a configured directory       (canonical name root)        *)
(*   spelled     the same directory through a linked parent                *)
(*   pkg         the directory in it that holds the package                *)
(*   out, outPkg a directory outside and the package in it: where links    *)
(*               lead                                                      *)
(*                                                                         *)
(* A directory and a file have an identity of their own (device and        *)
(* inode), whatever name they are found under; names are given to other    *)
(* directories, taken away, turned into links, and given back.             *)
(***************************************************************************)
EXTENDS Naturals, Sequences

CONSTANTS
  Texts       \* what a package.json may say

VARIABLES
  top,     \* what the name root stands for: a directory, a link out, nothing
  inner,   \* what the name pkg stands for in each directory root stood for
  file,    \* the package.json of each package directory: an inode, or not
  text,    \* what each inode says
  changes  \* how often the tree will still be changed

tree == <<top, inner, file, text, changes>>

None == "none"
Link == "link"  \* as a file: a link, a directory, or a file too large to read

RootDirs == {"r1", "r2"}
PackageDirs == {"p1", "p2"}
Files(dir) == CASE dir = "p1" -> {"m1", "m3"}
                [] dir = "p2" -> {"m2"}
                [] OTHER      -> {"mx"}
Inodes == {"m1", "m2", "m3", "mx"}

(* The names something is configured or printed under. *)
Places == {"root", "spelled", "pkg", "out", "outPkg"}

IsDirectory(found) == found \notin {None, Link}

(* fs.lstat: the identity of what a name stands for, links not followed. *)
LStat(path) ==
  CASE path \in {"root", "spelled"} -> top
    [] path = "out"    -> "x"
    [] path = "outPkg" -> "xp"
    [] path = "pkg"    -> IF top \in RootDirs THEN inner[top]
                          ELSE IF top = Link THEN "xp" ELSE None

(* fs.realpath: the name every link on the way leads to, None when it ends *)
(* nowhere.                                                                *)
RealPath(path) ==
  CASE path \in {"out", "outPkg"} -> path
    [] path \in {"root", "spelled"} ->
         IF top = None THEN None ELSE IF top = Link THEN "out" ELSE "root"
    [] path = "pkg" ->
         IF LStat(path) = None THEN None
         ELSE IF top = Link \/ LStat(path) = Link THEN "outPkg" ELSE "pkg"

(* The package.json found under a name, the directory's links followed: its *)
(* inode, Link, or None.                                                    *)
LeadsTo(path) ==
  IF LStat(path) # Link THEN LStat(path) ELSE IF path = "pkg" THEN "xp" ELSE "x"
LStatManifest(path) ==
  IF LeadsTo(path) \in DOMAIN file THEN file[LeadsTo(path)] ELSE None

TreeInit ==
  /\ top = "r1"
  /\ inner = [r1 |-> "p1", r2 |-> "p2"]
  /\ file = [p1 |-> "m1", p2 |-> "m2", xp |-> "mx"]
  /\ \E said \in Texts : text = [inode \in Inodes |-> said]

(* The number of changes in one behaviour is bounded. *)
Changed == changes > 0 /\ changes' = changes - 1

(* The name root is given to another directory, to a link, or taken away. *)
MoveRoot ==
  /\ Changed
  /\ top' \in (RootDirs \cup {Link, None}) \ {top}
  /\ UNCHANGED <<inner, file, text>>

(* So is the name pkg, in the directory root stands for; a directory that  *)
(* is moved there is gone from where it was.                               *)
MovePackage ==
  /\ Changed
  /\ top \in RootDirs
  /\ \E found \in (PackageDirs \cup {Link, None}) \ {inner[top]} :
       inner' = [dir \in RootDirs |->
                   IF dir = top THEN found
                   ELSE IF inner[dir] = found /\ IsDirectory(found) THEN None
                   ELSE inner[dir]]
  /\ UNCHANGED <<top, file, text>>

Standing == top \in RootDirs /\ inner[top] \in PackageDirs

(* An editor saves package.json by renaming a new file over it, or it is   *)
(* removed.                                                                *)
ReplaceManifest ==
  /\ Changed
  /\ Standing
  /\ \E found \in (Files(inner[top]) \cup {Link, None}) \ {file[inner[top]]} :
       file' = [file EXCEPT ![inner[top]] = found]
  /\ UNCHANGED <<top, inner, text>>

(* Or it writes into the file that is there. *)
EditManifest ==
  /\ Changed
  /\ Standing
  /\ file[inner[top]] \in Inodes
  /\ \E said \in Texts \ {text[file[inner[top]]]} :
       text' = [text EXCEPT ![file[inner[top]]] = said]
  /\ UNCHANGED <<top, inner, file>>

ChangeTree == MoveRoot \/ MovePackage \/ ReplaceManifest \/ EditManifest
===============================================================================
