----------------------------- MODULE TrustedRoots -----------------------------
(***************************************************************************)
(* admitTrustedRoots (packages/inspection/src/trusted-roots.ts): the       *)
(* configured directories are looked at one after the other, each with     *)
(* four calls between which the tree may change.  A root that is admitted  *)
(* stands for one canonical directory; a second spelling of it becomes an  *)
(* alias.  What the code rejects without looking at the tree (key, kind,   *)
(* display name, forbidden places) is given with the input as its flaw.    *)
(***************************************************************************)
EXTENDS SourceTree, FiniteSets

CONSTANTS
  MaxTrustedRoots, \* MAX_TRUSTED_ROOTS
  Forbidden        \* canonical names isForbiddenCanonicalRoot refuses

VARIABLES
  inputs,     \* the configuration that is being admitted
  looked,     \* what the calls for the first of them have returned
  roots,      \* the admitted roots: [key, canonical]
  aliases,    \* [key, of]
  refusals    \* diagnostics: <<key, code>>

admission == <<inputs, looked, roots, aliases, refusals>>

(* The configuration: a sequence of [path, key, flaw]. *)
AdmissionInit(configuration) ==
  /\ inputs = configuration
  /\ looked = <<>>
  /\ roots = <<>>
  /\ aliases = {}
  /\ refusals = {}

Admitted == {roots[i] : i \in DOMAIN roots}
UsedKeys == {root.key : root \in Admitted} \cup {alias.key : alias \in aliases}

Dismiss(code) ==
  /\ refusals' = refusals \cup {<<Head(inputs).key, code>>}
  /\ inputs' = Tail(inputs)
  /\ looked' = <<>>
  /\ UNCHANGED <<roots, aliases>>

(* An input the code rejects before it looks at the tree. *)
RejectInput ==
  /\ inputs # <<>> /\ Head(inputs).flaw # "none"
  /\ Dismiss(Head(inputs).flaw)
  /\ UNCHANGED tree

(* The next of the four calls: lstat, realpath, lstat, realpath. *)
Looking == IF Len(looked) % 2 = 0 THEN LStat(Head(inputs).path)
           ELSE RealPath(Head(inputs).path)

LookAtRoot ==
  /\ inputs # <<>> /\ Head(inputs).flaw = "none"
  /\ Len(looked) < 3
  /\ IF looked = <<>> /\ ~IsDirectory(Looking)
     THEN Dismiss(IF Looking = None THEN "root-missing" ELSE "root-symlink")
     ELSE /\ looked' = Append(looked, Looking)
          /\ UNCHANGED <<inputs, roots, aliases, refusals>>
  /\ UNCHANGED tree

(* Both looks and both resolutions have to agree. *)
SameRoot(seen) ==
  /\ seen[2] # None
  /\ seen[4] = seen[2]
  /\ seen[3] = seen[1]

Trust(key, canonical) ==
  /\ roots' = Append(roots, [key |-> key, canonical |-> canonical])
  /\ inputs' = Tail(inputs)
  /\ looked' = <<>>
  /\ UNCHANGED <<aliases, refusals>>

Alias(key, canonical) ==
  /\ \E root \in Admitted :
       /\ root.canonical = canonical
       /\ aliases' = aliases \cup {[key |-> key, of |-> root.key]}
  /\ inputs' = Tail(inputs)
  /\ looked' = <<>>
  /\ UNCHANGED <<roots, refusals>>

(* The last call, and the decision. *)
DecideRoot ==
  /\ inputs # <<>> /\ Head(inputs).flaw = "none"
  /\ Len(looked) = 3
  /\ LET seen == Append(looked, Looking)
         key == Head(inputs).key
     IN  IF ~SameRoot(seen) THEN Dismiss("root-changed")
         ELSE IF seen[2] \in Forbidden THEN Dismiss("root-forbidden")
         ELSE IF key \in UsedKeys THEN Dismiss("root-key-duplicate")
         ELSE IF \E root \in Admitted : root.canonical = seen[2]
              THEN Alias(key, seen[2])
         ELSE IF Len(roots) >= MaxTrustedRoots THEN Dismiss("root-limit")
         ELSE Trust(key, seen[2])
  /\ UNCHANGED tree

Admit == RejectInput \/ LookAtRoot \/ DecideRoot
===============================================================================
