--------------------------- MODULE WorkbenchServer ---------------------------
(***************************************************************************)
(* A start of the browser workbench's server, from the opening of its      *)
(* database to the end of its service: server/development-target-adapter   *)
(* .ts, identities.ts, workbench-session-server.ts, public-session.ts and  *)
(* http-policy.ts.                                                         *)
(*                                                                         *)
(* Everything a start draws at random (its principal, a root key, a target *)
(* id) is named after the start that drew it.                              *)
(***************************************************************************)
EXTENDS RuntimeDatabase

CONSTANTS
  Slots,       \* the configuration's slots for roots
  Roots,       \* directories with one plugin each
  Config,      \* of each start, for each slot it uses the directory named
  Looks        \* what the display path of each root looks like

Likenesses == {"absolute", "drive", "scheme", "parent", "backslash", "control"}

ASSUME ServerAssumption ==
  /\ \A p \in Starts : /\ DOMAIN Config[p] \subseteq Slots
                       /\ \A s \in DOMAIN Config[p] : Config[p][s] \in Roots
  /\ Looks \in [Roots -> SUBSET Likenesses]

VARIABLES
  identityFile, \* workbench-server.json: "absent" or "private"
  identity,     \* what it holds: the principal and the key of each slot
  rows,         \* the catalog: for a principal and a root its id and key
  mine,         \* the identity each start holds in memory
  todo,         \* candidates a start has discovered and not yet registered
  listed,       \* the targets a start has registered, as it will list them
  met           \* history: the starts that ran beside another start

identities == <<identityFile, identity, mine>>
server == <<identities, rows, todo, listed>>
serverVars == <<database, pc, server, met>>

NoKeys == [s \in Slots |-> None]
NoIdentity == [principal |-> None, keys |-> NoKeys]
NoTarget == <<None, None>>
Target(r, id) == <<r, id>>

ServerInit ==
  /\ DatabaseInit
  /\ identityFile = "absent"
  /\ identity = NoIdentity
  /\ rows = [k \in {} |-> None]
  /\ mine = [p \in Starts |-> NoIdentity]
  /\ todo = [p \in Starts |-> {}]
  /\ listed = [p \in Starts |-> {}]
  /\ met = {}

-----------------------------------------------------------------------------

(* loadWorkbenchServerIdentity: the file is read, unless it is no longer   *)
(* what the server wrote.                                                  *)
ReadIdentity(p) ==
  /\ pc[p] = "open"
  /\ \/ Goto(p, IF identityFile = "absent" THEN "mint" ELSE "persist")
     \/ Goto(p, "failed")
  /\ mine' = [mine EXCEPT ![p] = identity]
  /\ UNCHANGED <<database, identityFile, identity, rows, todo, listed>>

(* Whoever saw no file draws an identity and moves it into place; a file   *)
(* that another start has put there meanwhile is replaced.                 *)
MintIdentity(p) ==
  /\ pc[p] = "mint"
  /\ LET new == [principal |-> p, keys |-> NoKeys]
     IN  /\ identity' = new
         /\ mine' = [mine EXCEPT ![p] = new]
  /\ identityFile' = "private"
  /\ Goto(p, "persist")
  /\ UNCHANGED <<database, rows, todo, listed>>

(* rootKey keeps a slot's key and draws one for a slot without.            *)
KeyOf(p, keys, s) == IF keys[s] = None THEN p ELSE keys[s]

(* Faulty: a start writes the identity it would have drawn.                *)
PersistFresh(p) ==
  /\ pc[p] = "persist"
  /\ identity' =
       [principal |-> p,
        keys |-> [s \in Slots |->
                    IF s \in DOMAIN Config[p] THEN KeyOf(p, mine[p].keys, s) ELSE None]]
  /\ mine' = [mine EXCEPT ![p] = identity']
  /\ identityFile' = "private"
  /\ Goto(p, "discover")
  /\ UNCHANGED <<database, rows, todo, listed>>

(* persistWorkbenchServerIdentity: what the start holds in memory, with    *)
(* the keys of this start's slots only, whatever the file says by now.     *)
PersistIdentity(p) ==
  /\ pc[p] = "persist"
  /\ identity' =
       [principal |-> mine[p].principal,
        keys |-> [s \in Slots |->
                    IF s \in DOMAIN Config[p] THEN KeyOf(p, mine[p].keys, s) ELSE None]]
  /\ mine' = [mine EXCEPT ![p] = identity']
  /\ identityFile' = "private"
  /\ Goto(p, "discover")
  /\ UNCHANGED <<database, rows, todo, listed>>

Configured(p) == {Config[p][s] : s \in DOMAIN Config[p]}

(* Trusted roots are admitted and scanned; a root that is not admitted, or *)
(* a plugin that cannot be read, is left out of the candidates.            *)
Discover(p) ==
  /\ pc[p] = "discover"
  /\ \E found \in SUBSET Configured(p) :
       todo' = [todo EXCEPT ![p] = found]
  /\ Goto(p, "register")
  /\ UNCHANGED <<database, identities, rows, listed>>

(* refreshFromTrustedCandidate: the row of this principal and root, with   *)
(* the key of the slot that names the root.                                *)
RowOf(p, r) ==
  LET key == CHOOSE k \in {mine[p].keys[s] : s \in {t \in DOMAIN Config[p] : Config[p][t] = r}} :
               TRUE
      at == <<mine[p].principal, r>>
  IN  [id |-> IF at \in DOMAIN rows THEN rows[at].id ELSE p, key |-> key]

(* The payload of a target takes no path that may leave its root.          *)
Storable(r) == Looks[r] \cap {"absolute", "drive", "parent"} = {}

Register(p, r) ==
  /\ pc[p] = "register" /\ r \in todo[p] /\ Storable(r)
  /\ LET at == <<mine[p].principal, r>>
     IN  rows' = [k \in DOMAIN rows \cup {at} |->
                    IF k = at THEN RowOf(p, r) ELSE rows[k]]
  /\ todo' = [todo EXCEPT ![p] = @ \ {r}]
  /\ listed' = [listed EXCEPT ![p] = @ \cup {Target(r, RowOf(p, r).id)}]
  /\ UNCHANGED <<database, pc, identities>>

(* A candidate that no longer validates, or whose path cannot be stored,   *)
(* fails the whole start; the rows of the candidates before it stay.       *)
FailCandidate(p) ==
  /\ pc[p] = "register" /\ todo[p] # {}
  /\ Goto(p, "failed")
  /\ UNCHANGED <<database, server>>

Listen(p) ==
  /\ pc[p] = "register" /\ todo[p] = {}
  /\ Goto(p, "serving")
  /\ UNCHANGED <<database, server>>

CloseServer(p) ==
  /\ pc[p] = "serving"
  /\ Goto(p, "closed")
  /\ UNCHANGED <<database, server>>

Ended == {"refused", "failed", "crashed", "closed"}
Under(p) == pc[p] \notin {"off", "serving"} \cup Ended

Crash(p) ==
  /\ Under(p) \/ pc[p] = "serving"
  /\ Goto(p, "crashed")
  /\ CrashDatabase(p)
  /\ UNCHANGED server

-----------------------------------------------------------------------------

(* projectInspection: what the session says of the target selected.  Only  *)
(* the fixture can be shown of a target that is known by its source alone. *)
Inspection(targets, selected) ==
  LET one == selected # NoTarget
  IN  [state |-> IF one THEN "ready" ELSE IF targets = {} THEN "missing" ELSE "ambiguous",
       outcome |-> IF one THEN "ready" ELSE "attention",
       candidates |-> {t[1] : t \in targets},
       target |-> selected[1],
       checks |-> {IF one THEN "pass" ELSE IF targets = {} THEN "fail" ELSE "info",
                   "pass", "unavailable"},
       modes |-> {"fixture"},
       trust |-> "full-trust-local-code"]

(* projectSession: the target asked for, or the only one there is.         *)
NoSession == [ok |-> FALSE]

Session(p, asked) ==
  LET only == CHOOSE t \in listed[p] : TRUE
      selected == IF asked # NoTarget
                    THEN IF asked \in listed[p] THEN asked ELSE NoTarget
                    ELSE IF Cardinality(listed[p]) = 1 THEN only ELSE NoTarget
  IN  [ok |-> TRUE, targets |-> listed[p], selected |-> selected,
       unavailable |-> asked # NoTarget /\ asked \notin listed[p],
       inspection |-> Inspection(listed[p], selected)]

-----------------------------------------------------------------------------

Serve(p) ==
  \/ OpenNext(p) /\ UNCHANGED server
  \/ ReadIdentity(p) \/ MintIdentity(p) \/ PersistIdentity(p) \/ Discover(p)
  \/ \E r \in Roots : Register(p, r)
  \/ FailCandidate(p) \/ Listen(p)

(* Starts come one after the other, though perhaps before the last ended.  *)
StartStep(p) ==
  /\ \A q \in Starts : q < p => pc[q] # "off"
  /\ \/ Serve(p) \/ CloseServer(p) \/ Crash(p)
  /\ met' = met \cup {q \in Starts : Under(q)' /\ \E o \in Starts \ {q} : Under(o)'}

=============================================================================
