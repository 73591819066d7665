------------------------------ MODULE Workbench ------------------------------
(***************************************************************************)
(* The browser workbench: several starts of its server on one data root,   *)
(* and a page that outlives them.                                          *)
(***************************************************************************)
EXTENDS BrowserSession

CONSTANT Visitable  \* bound of the model: the origins whose page is opened

VARIABLE visited     \* whether it is, in this behaviour
vars == <<allVars, visited>>

Origin ==
  [root |-> root, file |-> file, journal |-> journal, wal |-> wal,
   table |-> table, ledger |-> ledger, drifted |-> drifted]

Init ==
  /\ ServerInit /\ BrowserInit
  /\ visited \in BOOLEAN /\ (visited => Origin \in Visitable)

(* Where the page is opened, a start follows the end of the one before.    *)
Alone(p) == \A q \in Starts \ {p} : pc[q] \in {"off"} \cup Ended

StartNext(p) ==
  /\ visited => Alone(p)
  /\ StartStep(p)
  /\ UNCHANGED <<browserVars, visited>>

PageNext == visited /\ BrowserNext /\ UNCHANGED <<serverVars, visited>>

Next == (\E p \in Starts : StartNext(p)) \/ PageNext

(* Nobody has to start a server, to end or crash one or to touch the page; *)
(* a start that runs, a request that was sent and the effects of a render  *)
(* go on by themselves.                                                    *)
Fairness ==
  /\ \A p \in Starts : WF_vars(pc[p] # "off" /\ Serve(p) /\ StartNext(p))
  /\ WF_vars(Effects /\ PageNext)
  /\ \A q \in Requests : WF_vars((Answer(q) \/ Deliver(q)) /\ PageNext)

Spec == Init /\ [][Next]_vars /\ Fairness

-----------------------------------------------------------------------------

(* The ledger tells the schema: the tables are those of the migrations     *)
(* recorded, each of them whole.  A crash anywhere, or two starts that     *)
(* apply the same migration, leave neither a migration without its row nor *)
(* a row without its migration (applyRuntimeMigrations).                   *)
LedgerTellsSchema ==
  \A n \in 0..9 : ledger = 1..n => schema = SchemaAt(n)

(* A start that opened its catalog has every migration behind it, whoever  *)
(* applied it, and every current project an old database knew is a scope.  *)
PastOpening == {"open", "mint", "persist", "discover", "register", "serving"}

OpenHasWholeSchema ==
  (\E p \in Starts : pc[p] \in PastOpening) =>
    ledger = Versions /\ schema = SchemaAt(9) /\ sources \subseteq scopes

(* What openRuntimeDatabase must refuse: files of another owner or mode, a *)
(* write-ahead log, a ledger that is not the program's own, a database     *)
(* without a ledger that none of the starts has just created.              *)
Untrusted ==
  \/ "unsafe" \in {root, file, journal} \/ wal
  \/ table = "foreign" \/ ledger \cap drifted # {} \/ ~ledger \subseteq Versions
  \/ ledger # 1..Cardinality(ledger)
Unfinished == file = "private" /\ table = "absent"
Creating(p) == born[p] /\ pc[p] \in {"checkFiles", "connect", "initLedger"}

(* A database that is not to be trusted is left as it was found: whatever  *)
(* is refused is refused before the first write, by every start.  (Where   *)
(* only sidecars were left, an empty file is put beside them before they   *)
(* are looked at, which no later start will take for its own.)             *)
RefusalChangesNothing ==
  [][\/ Untrusted /\ (root = "unsafe" \/ file # "absent")
     \/ Unfinished /\ \A p \in Starts : ~Creating(p)
     => UNCHANGED <<disk, data, identityFile, identity, rows>>]_vars

(* A start beside no other is refused only by what was there before the    *)
(* first one: no crash of an earlier start, and no failure of its own      *)
(* configuration, makes the database unusable.  The exception is a start   *)
(* that ended between the creation of the file and that of the ledger.     *)
SoundStartsSucceed ==
  \A p \in Starts \ met :
    pc[p] = "refused" => Untrusted \/ Unfinished

(* Restarting preserves the id of a root: two starts that met no other     *)
(* list the same root under the same id, although the first may have ended *)
(* anywhere, with the identity written and not all of the targets, and its *)
(* configuration may have named other slots.  And it preserves the key of  *)
(* a slot that the configuration of no start in between leaves out, though *)
(* each of them writes the keys of its own slots only.                     *)
RestartKeepsIds ==
  \A p, q \in Starts \ met :
    /\ \A s \in listed[p], t \in listed[q] : s[1] = t[1] => s[2] = t[2]
    /\ \A s \in Slots :
         (p < q /\ \A o \in Starts : p <= o /\ o <= q => s \in DOMAIN Config[o]) =>
           mine[p].keys[s] = mine[q].keys[s] \/ None \in {mine[p].keys[s], mine[q].keys[s]}

(* Once its effects have run, the page shows nothing but an answer to its  *)
(* own target: never another target's, whatever order answers come in and  *)
(* whichever start gave them.  A target the server does not list is told   *)
(* and not replaced, and a page whose target was refused asks for nothing. *)
(* With an answer on the page, its mode is one that the answer offers.     *)
ShownIsAsked ==
  page.open /\ due # "all" =>
    /\ (due = "none" /\ (shown.error \/ shown.modes # {}))
         => page.mode \in shown.modes \cup {"fixture"}
    /\ shown.asked = page.target
    /\ page.target # NoTarget => shown.selected \in {NoTarget, page.target}
    /\ (shown.targets # {} /\ page.target \notin shown.targets \cup {NoTarget}) => shown.unavailable
    /\ page.refused => shown = [Blank(NoTarget) EXCEPT !.unavailable = TRUE]

(* Every change of the page comes to rest: the effects run, the automatic  *)
(* choice of the only target does not repeat itself, and the request of    *)
(* the last selection is answered, fails, or is given up.                  *)
PageSettles ==
  (due # "none") ~> (due = "none" /\ \A q \in Requests : ~requests[q].live)

=============================================================================
