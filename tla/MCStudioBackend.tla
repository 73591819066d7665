--------------------------- MODULE MCStudioBackend ---------------------------
(* Two projects, two callers, and a host that changes while they are read. *)
(* For what the panel is shown: hosts with up to three projects, of which  *)
(* two are listed, and admissions of up to two projects and three targets, *)
(* of which two are listed.                                                *)
EXTENDS StudioSnapshot

CONSTANTS p1, p2, c1, c2,
          p3, bad,               \* another project, and one with an id that is no id
          t1, t2, t3, k1, k2,    \* targets, threads
          named, odd, plug, dash \* texts: a plugin id may end with a dash

TwoProjects == {p1, p2}
OneProject == {p1}
TwoCallers == {c1, c2}

Sources(p) ==
  LET local == [type |-> "local_path", project |-> p, onHost |-> TRUE]
  IN  {<<local>>, <<[local EXCEPT !.onHost = FALSE]>>,
       <<local, [local EXCEPT !.onHost = FALSE]>>}

Threads ==
  {{}, {[visible |-> TRUE, at |-> 2, busy |-> FALSE], [visible |-> FALSE, at |-> 3, busy |-> TRUE]},
   {[visible |-> TRUE, at |-> 1, busy |-> TRUE]}}

(* The later projects of a host vary less than the first.                  *)
HostProject(p) ==
  [id : {p}, name : {named, odd}, sources : Sources(p), threads : Threads]
Plain(p) ==
  {h \in HostProject(p) : h.name = named /\ h.threads # {} /\ Len(h.sources) = 1}
SomeHosts ==
  {<<>>} \cup {<<a>> : a \in HostProject(p1) \cup Plain(p2) \cup Plain(bad)}
    \cup {<<a, b>> : a \in HostProject(p1), b \in {h \in HostProject(p2) : h.name = named}}
    \cup {<<a, b, c>> : a \in HostProject(p1), b \in Plain(p2), c \in Plain(p3) \cup Plain(bad)}

Target(t, name, plugin) == [id |-> t, name |-> name, pluginId |-> plugin]
Written(keys) ==
  [target : {Target(t1, odd, plug), Target(t2, named, dash), Target(t2, named, plug),
             Target(t3, named, plug)},
   roots : (SUBSET keys) \ {{}}]

(* One target for each candidate: no two writes are of the same candidate. *)
Distinct(found) == \A m, n \in DOMAIN found : m # n => found[m].target.id # found[n].target.id
Found(keys) ==
  {f \in {<<>>} \cup [1..1 -> Written(keys)] \cup [1..2 -> Written(keys)]
           \cup [1..3 -> Written(keys)] : Distinct(f)}

SomeAdmissions ==
  [admittedAs : {<<>>}, partial : {{}}, found : {<<>>}]
    \cup [admittedAs : {<<1>>}, partial : SUBSET {1}, found : Found({1})]
    \cup [admittedAs : {<<1, 2>>}, partial : SUBSET {1, 2}, found : Found({1, 2})]
    \cup [admittedAs : {<<1, 1>>}, partial : {{}, {1, 2}}, found : Found({1})]

Thread(k, p, archived, at) == [id |-> k, project |-> p, archived |-> archived, at |-> at]
SomeSidebars ==
  [status : {"loading", "error"}, threads : {<<>>}]
    \cup [status : {"ready"},
          threads : {<<Thread(k1, p, x, 1), Thread(k2, p1, FALSE, 2)>> :
                       p \in TwoProjects, x \in BOOLEAN}]

=============================================================================
