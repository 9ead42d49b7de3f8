------------------------- MODULE WorkstationsProofs --------------------------
(***************************************************************************)
(* Proofs about Workstations for any number of requests, panes and         *)
(* workstations: a pane of a workstation is shown in its tabs, and what    *)
(* requests that overlap leave of the tree can be saved.                   *)
(*                                                                         *)
(* The requests leave the lock between their two regions, so the invariant *)
(* is about what they remember (PanesInv): a pane or name they drew is     *)
(* nobody else's yet, and a deletion's list holds the panes of what it     *)
(* removes but for those that escaped it.  Depth is defined by the set of  *)
(* a workstation's ancestors, the least one that is closed upwards; that   *)
(* every parent is there, every workstation is below its parent and no     *)
(* chain is too long is kept by adding leaves and removing whole subtrees  *)
(* (TreeInv).                                                              *)
(*                                                                         *)
(* And about TmuxClients, for any number of workstations, terminals and    *)
(* control clients: a pane's connection is whole when all is quiet.  Until *)
(* then a live pane has its sink, and its window is where the pane is, or  *)
(* somebody will learn that it is not: a client that has not read the      *)
(* closing or is lost and will be replaced, the healer with its list, or   *)
(* the move that took the window away (TmuxInv).                           *)
(***************************************************************************)
EXTENDS MCWorkstations, FiltersProofs, SequenceTheorems, FiniteSetTheorems

Names == WorkspaceIds \cup {Home}

\* What a request remembers between its regions.
Creating == [at : {"creating"}, workspace : Names, parent : Names \cup {None},
             pane : PaneIds, remote : BOOLEAN]
SigningIn == [at : {"signing in"}, workspace : Names, pane : PaneIds]
Opening == [at : {"opening"}, workspace : Names, pane : PaneIds]
Moving == [at : {"moving"}, from : Names, pane : PaneIds, to : Names]
Disconnecting == [at : {"disconnecting"}, workspace : Names, targets : SUBSET Names]
Respawned == [at : {"respawned"}, workspace : Names, panes : SUBSET PaneIds,
              new : SUBSET PaneIds, top : BOOLEAN, todo : SUBSET Names]
Listing == [at : {"listing", "next"}, workspace : Names, todo : SUBSET Names]
Deleting == [at : {"deleting"}, workspace : Names, removed : SUBSET Names,
             panes : SUBSET PaneIds]

Request == {Idle} \cup Creating \cup SigningIn \cup Opening \cup Moving \cup Disconnecting
           \cup Respawned \cup Listing \cup Deleting

\* The panes and workstations a request knows, and those among them that are
\* nobody else's yet.
PanesOf(r) ==
  {p \in PaneIds : \/ r.at \in {"creating", "signing in", "opening", "moving"} /\ p = r.pane
                   \/ r.at \in {"respawned", "deleting"} /\ p \in r.panes}
NamesOf(r) ==
  {w \in Names :
     \/ /\ r.at \in {"creating", "signing in", "opening", "disconnecting", "respawned",
                     "listing", "next", "deleting"}
        /\ w = r.workspace
     \/ r.at = "creating" /\ w = r.parent
     \/ r.at = "moving" /\ w \in {r.from, r.to}
     \/ r.at = "disconnecting" /\ w \in r.targets
     \/ r.at \in {"respawned", "listing", "next"} /\ w \in r.todo
     \/ r.at = "deleting" /\ w \in r.removed}
NewPanes(r) ==
  {p \in PaneIds : \/ r.at \in {"creating", "opening"} /\ p = r.pane
                   \/ r.at = "respawned" /\ p \in r.new}
NewNames(r) == {w \in Names : r.at = "creating" /\ w = r.workspace}

Kinds(r) ==
  /\ r.at \in {"idle", "creating", "signing in", "opening", "moving", "disconnecting",
               "respawned", "listing", "next", "deleting"}
  /\ r.at = "idle" => r = Idle
  /\ r.at = "creating" => r \in Creating
  /\ r.at = "signing in" => r \in SigningIn
  /\ r.at = "opening" => r \in Opening
  /\ r.at = "moving" => r \in Moving
  /\ r.at = "disconnecting" => r \in Disconnecting
  /\ r.at = "respawned" => r \in Respawned
  /\ r.at \in {"listing", "next"} => r \in Listing
  /\ r.at = "deleting" => r \in Deleting

LEMMA RequestKinds == ASSUME NEW r \in Request PROVE Kinds(r)
<1>1. CASE r = Idle
  BY <1>1 DEF Kinds, Idle
<1>2. CASE r \in Creating
  <2>1. r.at = "creating"
    BY <1>2 DEF Creating
  <2> QED BY <1>2, <2>1 DEF Kinds
<1>3. CASE r \in SigningIn
  <2>1. r.at = "signing in"
    BY <1>3 DEF SigningIn
  <2> QED BY <1>3, <2>1 DEF Kinds
<1>4. CASE r \in Opening
  <2>1. r.at = "opening"
    BY <1>4 DEF Opening
  <2> QED BY <1>4, <2>1 DEF Kinds
<1>5. CASE r \in Moving
  <2>1. r.at = "moving"
    BY <1>5 DEF Moving
  <2> QED BY <1>5, <2>1 DEF Kinds
<1>6. CASE r \in Disconnecting
  <2>1. r.at = "disconnecting"
    BY <1>6 DEF Disconnecting
  <2> QED BY <1>6, <2>1 DEF Kinds
<1>7. CASE r \in Respawned
  <2>1. r.at = "respawned"
    BY <1>7 DEF Respawned
  <2> QED BY <1>7, <2>1 DEF Kinds
<1>8. CASE r \in Listing
  <2>1. r.at \in {"listing", "next"}
    BY <1>8 DEF Listing
  <2> QED BY <1>8, <2>1 DEF Kinds
<1>9. CASE r \in Deleting
  <2>1. r.at = "deleting"
    BY <1>9 DEF Deleting
  <2> QED BY <1>9, <2>1 DEF Kinds
<1> QED BY <1>1, <1>2, <1>3, <1>4, <1>5, <1>6, <1>7, <1>8, <1>9 DEF Request

LEMMA RequestsHold ==
  ASSUME NEW r \in Request
  PROVE  PanesOf(r) \subseteq HeldPanes(r) /\ NamesOf(r) \subseteq HeldIds(r)
<1>1. Kinds(r)
  BY RequestKinds
<1>2. CASE r.at = "idle"
  BY <1>2 DEF PanesOf, NamesOf
<1>3. CASE r.at = "creating"
  <2>1. r \in Creating
    BY <1>1, <1>3 DEF Kinds
  <2>2. "pane" \in DOMAIN r /\ {"workspace", "parent"} \subseteq DOMAIN r
    BY <2>1 DEF Creating
  <2>3. {r.workspace, r.parent} \subseteq HeldIds(r)
    BY <2>2 DEF HeldIds
  <2> QED BY <1>3, <2>2, <2>3 DEF PanesOf, NamesOf, HeldPanes
<1>4. CASE r.at = "signing in" \/ r.at = "opening"
  <2>1. r \in SigningIn \cup Opening
    BY <1>1, <1>4 DEF Kinds
  <2>2. "pane" \in DOMAIN r /\ "workspace" \in DOMAIN r
    BY <2>1 DEF SigningIn, Opening
  <2>3. r.workspace \in HeldIds(r)
    BY <2>2 DEF HeldIds
  <2> QED BY <1>4, <2>2, <2>3 DEF PanesOf, NamesOf, HeldPanes
<1>5. CASE r.at = "moving"
  <2>1. r \in Moving
    BY <1>1, <1>5 DEF Kinds
  <2>2. "pane" \in DOMAIN r /\ {"from", "to"} \subseteq DOMAIN r
    BY <2>1 DEF Moving
  <2>3. {r.from, r.to} \subseteq HeldIds(r)
    BY <2>2 DEF HeldIds
  <2> QED BY <1>5, <2>2, <2>3 DEF PanesOf, NamesOf, HeldPanes
<1>6. CASE r.at = "disconnecting"
  <2>1. r \in Disconnecting
    BY <1>1, <1>6 DEF Kinds
  <2>2. {"workspace", "targets"} \subseteq DOMAIN r
    BY <2>1 DEF Disconnecting
  <2>3. r.workspace \in HeldIds(r) /\ r.targets \subseteq HeldIds(r)
    BY <2>2 DEF HeldIds
  <2> QED BY <1>6, <2>2, <2>3 DEF PanesOf, NamesOf, HeldPanes
<1>7. CASE r.at = "respawned"
  <2>1. r \in Respawned
    BY <1>1, <1>7 DEF Kinds
  <2>2. {"workspace", "todo", "panes"} \subseteq DOMAIN r
    BY <2>1 DEF Respawned
  <2>3. r.workspace \in HeldIds(r) /\ r.todo \subseteq HeldIds(r)
    BY <2>2 DEF HeldIds
  <2> QED BY <1>7, <2>2, <2>3 DEF PanesOf, NamesOf, HeldPanes
<1>8. CASE r.at \in {"listing", "next"}
  <2>1. r \in Listing
    BY <1>1, <1>8 DEF Kinds
  <2>2. {"workspace", "todo"} \subseteq DOMAIN r
    BY <2>1 DEF Listing
  <2>3. r.workspace \in HeldIds(r) /\ r.todo \subseteq HeldIds(r)
    BY <2>2 DEF HeldIds
  <2> QED BY <1>8, <2>2, <2>3 DEF PanesOf, NamesOf, HeldPanes
<1>9. CASE r.at = "deleting"
  <2>1. r \in Deleting
    BY <1>1, <1>9 DEF Kinds
  <2>2. {"workspace", "removed", "panes"} \subseteq DOMAIN r
    BY <2>1 DEF Deleting
  <2>3. r.workspace \in HeldIds(r) /\ r.removed \subseteq HeldIds(r)
    BY <2>2 DEF HeldIds
  <2> QED BY <1>9, <2>2, <2>3 DEF PanesOf, NamesOf, HeldPanes
<1> QED BY <1>1, <1>2, <1>3, <1>4, <1>5, <1>6, <1>7, <1>8, <1>9 DEF Kinds

-----------------------------------------------------------------------------
(* The invariant of the panes. *)

WorkspaceRecord == [parent : Names \cup {None}, remote : BOOLEAN, online : BOOLEAN,
                    tabs : SUBSET PaneIds]

Types ==
  /\ Ids \subseteq Names /\ workspaces \in [Ids -> WorkspaceRecord]
  /\ Registered \subseteq PaneIds /\ panes \in [Registered -> {"live", "ended"}]
  /\ request \in [Requests -> Request]

TabsAreApart ==
  \A v, w \in Ids : v # w => workspaces[v].tabs \cap workspaces[w].tabs = {}

\* What is new of a request is nobody else's.
NewAreNew(r) ==
  NewPanes(r) \cap (Registered \cup Shown) = {} /\ NewNames(r) \cap Ids = {}

NewAreApart(r, s) ==
  NewPanes(r) \cap PanesOf(s) = {} /\ NewNames(r) \cap NamesOf(s) = {}

\* The panes a reconnection brings back are shown, or were overlooked.
Respawns(r) ==
  r.at = "respawned" => r.new \subseteq r.panes /\ r.panes \subseteq Shown \cup escaped \cup r.new

\* A tab moves between two workstations of one machine.
StaysOnMachine(r) ==
  r.at = "moving" /\ {r.from, r.to} \subseteq Ids => same_machine(r.from, r.to)

\* A deletion's list is that of the workstations it removes, but for the
\* panes that were overlooked.
Removes(r) ==
  r.at = "deleting" =>
    \A w \in Ids : IF w \in r.removed THEN workspaces[w].tabs \subseteq r.panes \cup escaped
                   ELSE workspaces[w].tabs \cap r.panes \subseteq escaped

Fits(r) == NewAreNew(r) /\ Respawns(r) /\ StaysOnMachine(r) /\ Removes(r)

RequestsFit ==
  /\ \A q \in Requests : Fits(request[q])
  /\ \A q, o \in Requests : q # o => NewAreApart(request[q], request[o])

PanesInv == Types /\ TabsAreApart /\ PanesAreShown /\ RequestsFit

-----------------------------------------------------------------------------
(* The invariant of the tree. *)

\* Every parent is there.
Parented(ws) ==
  /\ IsFiniteSet(DOMAIN ws) /\ None \notin DOMAIN ws
  /\ \A v \in DOMAIN ws : ws[v].parent \in DOMAIN ws \cup {None}

\* `Ancestors`, of any tree.
AncestorsIn(ws, w) ==
  LET up[n \in 0 .. Cardinality(DOMAIN ws)] ==
        IF n = 0 THEN {w}
        ELSE up[n - 1] \cup {ws[v].parent : v \in up[n - 1] \cap DOMAIN ws}
  IN up[Cardinality(DOMAIN ws)] \ {None}

\* `Nested`, of any tree.
WellNested(ws, w) ==
  /\ Cardinality(AncestorsIn(ws, w)) <= MaxDepth
  /\ ws[w].parent # None => ws[w].remote = ws[ws[w].parent].remote

\* What a deletion has listed holds whoever is nested in it, and not the home.
RemovesSubtree(ws, r) ==
  r.at = "deleting" =>
    /\ Home \notin r.removed
    /\ \A w \in DOMAIN ws : ws[w].parent \in r.removed => w \in r.removed

\* A new workstation is for the machine of its parent.
SuitsParent(ws, r) ==
  r.at = "creating" /\ r.parent \in DOMAIN ws => r.remote = ws[r.parent].remote

\* The tree, as long as no workstation was nested in one being deleted.
IsTree(ws) ==
  /\ Parented(ws)
  /\ Home \in DOMAIN ws /\ ws[Home].parent = None
  /\ Cardinality(DOMAIN ws) <= MaxWorkspaces
  /\ \A w \in DOMAIN ws : WellNested(ws, w)

TreeInv ==
  orphans = {} =>
    /\ IsTree(workspaces)
    /\ \A q \in Requests : /\ RemovesSubtree(workspaces, request[q])
                           /\ SuitsParent(workspaces, request[q])

-----------------------------------------------------------------------------
(* One request moves on, the others stay. *)

LEMMA IdleKnowsNothing ==
  PanesOf(Idle) = {} /\ NamesOf(Idle) = {} /\ NewPanes(Idle) = {} /\ NewNames(Idle) = {}
BY DEF PanesOf, NamesOf, NewPanes, NewNames, Idle

LEMMA NewAreKnown ==
  ASSUME NEW r \in Request, r.at = "respawned" => r.new \subseteq r.panes
  PROVE  NewPanes(r) \subseteq PanesOf(r) /\ NewNames(r) \subseteq NamesOf(r)
BY DEF NewPanes, PanesOf, NewNames, NamesOf

\* What a step may do to the workstations and panes without disturbing a
\* request `r` that takes no part in it.
LeavesAlone(r) ==
  /\ escaped \subseteq escaped'
  /\ NewNames(r) \cap Ids' = {}
  /\ NewPanes(r) \cap (Registered' \cup Shown') = {}
  /\ r.at = "respawned" => r.panes \cap Shown \subseteq Shown' \cup escaped'
  /\ \A w \in Ids' \cap NamesOf(r) :
       w \in Ids /\ workspaces'[w].remote = workspaces[w].remote
  /\ r.at = "deleting" =>
       \A w \in Ids' : \A x \in workspaces'[w].tabs :
         \/ w \in Ids /\ x \in workspaces[w].tabs
         \/ x \in escaped'
         \/ w \notin r.removed /\ x \notin r.panes

LEMMA StillFits ==
  ASSUME NEW r \in Request, Fits(r), LeavesAlone(r)
  PROVE  Fits(r)'
<1>1. Kinds(r)
  BY RequestKinds
<1>2. NewAreNew(r)'
  BY DEF LeavesAlone, NewAreNew, NewPanes, NewNames
<1>3. Respawns(r)'
  BY DEF Fits, LeavesAlone, Respawns
<1>4. StaysOnMachine(r)'
  <2> SUFFICES ASSUME r.at = "moving", {r.from, r.to} \subseteq Ids'
               PROVE  workspaces'[r.from].remote = workspaces'[r.to].remote
    BY DEF StaysOnMachine, same_machine
  <2>1. r \in Moving
    BY <1>1 DEF Kinds
  <2>2. {r.from, r.to} \subseteq NamesOf(r)
    BY <2>1 DEF Moving, NamesOf
  <2> QED BY <2>2 DEF Fits, LeavesAlone, StaysOnMachine, same_machine
<1>5. Removes(r)'
  <2> SUFFICES ASSUME r.at = "deleting", NEW w \in Ids', NEW x \in workspaces'[w].tabs
               PROVE  IF w \in r.removed THEN x \in r.panes \cup escaped'
                      ELSE x \in r.panes => x \in escaped'
    BY DEF Removes
  <2> QED BY DEF Fits, LeavesAlone, Removes
<1> QED BY <1>2, <1>3, <1>4, <1>5 DEF Fits

\* All that is left to show of a step of `q`: that it leaves the others alone, and
\* that what it goes on with fits and shares nothing new with them.
LEMMA OneMovesOn ==
  ASSUME PanesInv, NEW q \in Requests, NEW n \in Request,
         request' = [request EXCEPT ![q] = n],
         Fits(n)',
         \A o \in Requests \ {q} : /\ LeavesAlone(request[o])
                                   /\ NewAreApart(n, request[o])
                                   /\ NewAreApart(request[o], n)
  PROVE  RequestsFit' /\ request' \in [Requests -> Request]
<1>1. request \in [Requests -> Request]
  BY DEF PanesInv, Types
<1>2. request' \in [Requests -> Request]
  BY <1>1
<1>3. request'[q] = n /\ \A o \in Requests \ {q} : request'[o] = request[o]
  BY <1>1
<1>4. \A o \in Requests \ {q} : Fits(request[o])'
  <2> SUFFICES ASSUME NEW o \in Requests \ {q} PROVE Fits(request[o])'
    OBVIOUS
  <2>1. PICK r \in Request : r = request[o]
    BY <1>1
  <2>2. Fits(r) /\ LeavesAlone(r)
    BY <2>1 DEF PanesInv, RequestsFit
  <2>3. Fits(r)'
    BY <2>2, StillFits
  <2>4. request'[o] = r
    BY <1>3, <2>1
  <2> QED BY <2>3, <2>4
<1>5. \A o \in Requests : Fits(request[o])'
  BY <1>3, <1>4
<1>6. \A o, p \in Requests : o # p => NewAreApart(request[o], request[p])'
  <2> SUFFICES ASSUME NEW o \in Requests, NEW p \in Requests, o # p
               PROVE  NewAreApart(request'[o], request'[p])
    BY DEF NewAreApart, NewPanes, PanesOf, NewNames, NamesOf
  <2> QED BY <1>3 DEF PanesInv, RequestsFit
<1> QED BY <1>2, <1>5, <1>6 DEF RequestsFit

LEMMA FreshPaneIs ==
  ASSUME Types, NEW p \in FreshPane
  PROVE  /\ p \in PaneIds /\ p \notin Registered \cup Shown \cup escaped
         /\ \A q \in Requests : p \notin PanesOf(request[q])
<1>1. /\ p \in PaneIds /\ p \notin Registered \cup Shown \cup escaped
      /\ \A q \in Requests : p \notin HeldPanes(request[q])
  BY DEF FreshPane, Least
<1>2. \A q \in Requests : request[q] \in Request
  BY DEF Types
<1> QED BY <1>1, <1>2, RequestsHold

LEMMA FreshIdIs ==
  ASSUME Types, NEW w \in FreshId
  PROVE  /\ w \in Names /\ w \notin Ids
         /\ \A q \in Requests : w \notin NamesOf(request[q])
         /\ \A v \in Ids : workspaces[v].parent # w
<1>1. /\ w \in Names /\ w \notin Ids
      /\ \A q \in Requests : w \notin HeldIds(request[q])
      /\ \A v \in Ids : workspaces[v].parent # w
  <2> DEFINE held == {HeldIds(request[q]) : q \in Requests}
             parents == {workspaces[v].parent : v \in Ids}
  <2>1. w \in WorkspaceIds /\ w \notin Ids /\ w \notin parents /\ w \notin UNION held
    BY DEF FreshId, Least
  <2>2. \A q \in Requests : w \notin HeldIds(request[q])
    <3>1. \A q \in Requests : HeldIds(request[q]) \in held
      OBVIOUS
    <3> HIDE DEF held
    <3> QED BY <2>1, <3>1
  <2>3. \A v \in Ids : workspaces[v].parent # w
    BY <2>1
  <2> QED BY <2>1, <2>2, <2>3 DEF Names
<1>2. \A q \in Requests : request[q] \in Request
  BY DEF Types
<1> QED BY <1>1, <1>2, RequestsHold

\* What a request goes on with is nobody else's news if it comes from what there
\* is, from what the request knew, or is fresh.
LEMMA SharesNoNews ==
  ASSUME PanesInv, NEW q \in Requests, NEW o \in Requests \ {q}, NEW n \in Request,
         \A x \in PanesOf(n) : x \in Registered \cup Shown \cup FreshPane \cup PanesOf(request[q]),
         \A x \in NewPanes(n) : x \in FreshPane \cup NewPanes(request[q]),
         \A x \in NamesOf(n) : x \in Ids \cup FreshId \cup NamesOf(request[q]),
         \A x \in NewNames(n) : x \in FreshId \cup NewNames(request[q])
  PROVE  NewAreApart(n, request[o]) /\ NewAreApart(request[o], n)
<1>1. Types
  BY DEF PanesInv
<1>2. /\ NewAreApart(request[q], request[o]) /\ NewAreApart(request[o], request[q])
      /\ NewAreNew(request[o]) /\ Respawns(request[o])
  BY DEF PanesInv, RequestsFit, Fits
<1>3. request[o] \in Request
  BY <1>1 DEF Types
<1>4. NewPanes(request[o]) \subseteq PanesOf(request[o])
      /\ NewNames(request[o]) \subseteq NamesOf(request[o])
  BY <1>2, <1>3, NewAreKnown DEF Respawns
<1>5. \A x \in FreshPane : x \notin PanesOf(request[o])
  BY <1>1, FreshPaneIs
<1>6. \A x \in FreshId : x \notin NamesOf(request[o])
  BY <1>1, FreshIdIs
<1> QED BY <1>2, <1>4, <1>5, <1>6 DEF NewAreApart, NewAreNew

\* A step that only concerns the request itself.
LEMMA NothingMoved ==
  ASSUME NEW r \in Request, Fits(r), UNCHANGED <<workspaces, panes, escaped>>
  PROVE  LeavesAlone(r)
BY DEF LeavesAlone, Fits, NewAreNew, Ids, Registered, Shown, ShownIn

LEMMA OnlyRequests ==
  ASSUME PanesInv, NEW q \in Requests, NEW n \in Request,
         request' = [request EXCEPT ![q] = n], UNCHANGED <<workspaces, panes, escaped>>,
         Fits(n),
         \A x \in PanesOf(n) : x \in Registered \cup Shown \cup FreshPane \cup PanesOf(request[q]),
         \A x \in NewPanes(n) : x \in FreshPane \cup NewPanes(request[q]),
         \A x \in NamesOf(n) : x \in Ids \cup FreshId \cup NamesOf(request[q]),
         \A x \in NewNames(n) : x \in FreshId \cup NewNames(request[q])
  PROVE  PanesInv'
<1>1. Fits(n)'
  BY DEF Fits, NewAreNew, Respawns, StaysOnMachine, Removes, same_machine, Ids, Registered, Shown, ShownIn
<1>2. \A o \in Requests \ {q} : LeavesAlone(request[o])
  BY NothingMoved DEF PanesInv, RequestsFit, Types
<1>3. \A o \in Requests \ {q} : NewAreApart(n, request[o]) /\ NewAreApart(request[o], n)
  BY SharesNoNews
<1>4. RequestsFit' /\ request' \in [Requests -> Request]
  BY <1>1, <1>2, <1>3, OneMovesOn
<1>5. Types'
  BY <1>4 DEF PanesInv, Types, Ids, Registered
<1>6. TabsAreApart' /\ PanesAreShown'
  BY DEF PanesInv, TabsAreApart, PanesAreShown, Ids, Registered, Shown, ShownIn
<1> QED BY <1>4, <1>5, <1>6 DEF PanesInv

LEMMA IdleFits == Idle \in Request /\ Fits(Idle) /\ Fits(Idle)'
<1>1. Idle \in Request
  BY DEF Request
<1>2. Idle.at = "idle"
  BY DEF Idle
<1> QED BY <1>1, <1>2, IdleKnowsNothing DEF Fits, NewAreNew, Respawns, StaysOnMachine, Removes

\* A request that ends and leaves all as it was.
LEMMA OnlyEnds ==
  ASSUME PanesInv, NEW q \in Requests, request' = [request EXCEPT ![q] = Idle],
         UNCHANGED <<workspaces, panes, escaped>>
  PROVE  PanesInv'
<1> PICK n : n = Idle
  OBVIOUS
<1>1. /\ n \in Request /\ Fits(n)
      /\ PanesOf(n) = {} /\ NamesOf(n) = {} /\ NewPanes(n) = {} /\ NewNames(n) = {}
  BY IdleFits, IdleKnowsNothing
<1> QED BY <1>1, OnlyRequests

LEMMA RequestFailsKeeps ==
  ASSUME PanesInv, NEW q \in Requests, RequestFails(q)
  PROVE  PanesInv'
BY OnlyEnds DEF RequestFails, Continues

-----------------------------------------------------------------------------
(* What only starts a request, or carries it on. *)

LEMMA create_workspaceKeeps ==
  ASSUME PanesInv, NEW q \in Requests, NEW parent \in Ids \cup {None}, create_workspace(q, parent)
  PROVE  PanesInv'
<1>1. PICK w \in FreshId, p \in FreshPane :
        /\ Starts(q, [at |-> "creating", workspace |-> w, parent |-> parent, pane |-> p,
                      remote |-> parent # None /\ workspaces[parent].remote])
        /\ UNCHANGED <<workspaces, panes, orphans, escaped>>
  BY DEF create_workspace
<1>2. PICK remote : remote = (parent # None /\ workspaces[parent].remote)
  OBVIOUS
<1>3. PICK n : n = [at |-> "creating", workspace |-> w, parent |-> parent, pane |-> p,
                    remote |-> remote]
  OBVIOUS
<1>4. Types /\ remote \in BOOLEAN
  BY <1>2 DEF PanesInv
<1>5. /\ w \in Names /\ p \in PaneIds /\ parent \in Names \cup {None}
      /\ w \notin Ids /\ p \notin Registered \cup Shown
  BY <1>4, FreshPaneIs, FreshIdIs DEF Types
<1>6. /\ n \in Creating /\ n.at = "creating" /\ n.workspace = w /\ n.parent = parent /\ n.pane = p
  BY <1>3, <1>4, <1>5 DEF Creating
<1>7. n \in Request
  BY <1>6 DEF Request
<1>8. /\ PanesOf(n) \subseteq {p} /\ NewPanes(n) \subseteq {p} /\ NewNames(n) \subseteq {w}
      /\ NamesOf(n) \subseteq {w} \cup (Ids \cap {parent})
  <2>1. None \in Names /\ parent = None => FALSE
    BY NoneAssumption DEF Names
  <2> QED BY <1>6, <2>1 DEF PanesOf, NewPanes, NewNames, NamesOf
<1>9. Fits(n)
  BY <1>5, <1>6, <1>8 DEF Fits, NewAreNew, Respawns, StaysOnMachine, Removes
<1>10. request' = [request EXCEPT ![q] = n]
  BY <1>1, <1>2, <1>3 DEF Starts
<1> QED BY <1>1, <1>7, <1>8, <1>9, <1>10, OnlyRequests

LEMMA create_workspace_tabKeeps ==
  ASSUME PanesInv, NEW q \in Requests, NEW w \in Ids, create_workspace_tab(q, w)
  PROVE  PanesInv'
<1>1. PICK p \in FreshPane :
        /\ Starts(q, [at |-> "opening", workspace |-> w, pane |-> p])
        /\ UNCHANGED <<workspaces, panes, orphans, escaped>>
  BY DEF create_workspace_tab
<1>2. PICK n : n = [at |-> "opening", workspace |-> w, pane |-> p]
  OBVIOUS
<1>3. Types
  BY DEF PanesInv
<1>4. /\ w \in Names /\ p \in PaneIds /\ p \notin Registered \cup Shown
  BY <1>3, FreshPaneIs DEF Types
<1>5. n \in Opening /\ n.at = "opening" /\ n.workspace = w /\ n.pane = p
  BY <1>2, <1>4 DEF Opening
<1>6. n \in Request
  BY <1>5 DEF Request
<1>7. /\ PanesOf(n) \subseteq {p} /\ NewPanes(n) \subseteq {p} /\ NewNames(n) = {}
      /\ NamesOf(n) \subseteq {w}
  BY <1>5 DEF PanesOf, NewPanes, NewNames, NamesOf
<1>8. Fits(n)
  BY <1>4, <1>5, <1>7 DEF Fits, NewAreNew, Respawns, StaysOnMachine, Removes
<1>9. request' = [request EXCEPT ![q] = n]
  BY <1>1, <1>2 DEF Starts
<1> QED BY <1>1, <1>6, <1>7, <1>8, <1>9, OnlyRequests

LEMMA move_tab_to_workstationKeeps ==
  ASSUME PanesInv, NEW q \in Requests, NEW from \in Ids, NEW p \in workspaces[from].tabs,
         NEW to \in Ids, move_tab_to_workstation(q, from, p, to)
  PROVE  PanesInv'
<1>1. /\ same_machine(from, to)
      /\ Starts(q, [at |-> "moving", from |-> from, pane |-> p, to |-> to])
      /\ UNCHANGED <<workspaces, panes, orphans, escaped>>
  BY DEF move_tab_to_workstation
<1>2. PICK n : n = [at |-> "moving", from |-> from, pane |-> p, to |-> to]
  OBVIOUS
<1>3. /\ from \in Names /\ to \in Names /\ p \in PaneIds /\ p \in Shown
  <2>1. workspaces[from] \in WorkspaceRecord
    BY DEF PanesInv, Types
  <2> QED BY <2>1 DEF PanesInv, Types, WorkspaceRecord, Shown, ShownIn
<1>4. n \in Moving /\ n.at = "moving" /\ n.from = from /\ n.to = to /\ n.pane = p
  BY <1>2, <1>3 DEF Moving
<1>5. n \in Request
  BY <1>4 DEF Request
<1>6. /\ PanesOf(n) \subseteq {p} /\ NewPanes(n) = {} /\ NewNames(n) = {}
      /\ NamesOf(n) \subseteq {from, to}
  BY <1>4 DEF PanesOf, NewPanes, NewNames, NamesOf
<1>7. Fits(n)
  BY <1>1, <1>4, <1>6 DEF Fits, NewAreNew, Respawns, StaysOnMachine, Removes
<1>8. request' = [request EXCEPT ![q] = n]
  BY <1>1, <1>2 DEF Starts
<1> QED BY <1>1, <1>3, <1>5, <1>6, <1>7, <1>8, OnlyRequests

LEMMA PlansKeeps ==
  ASSUME PanesInv, NEW q \in Requests, NEW w \in Ids, NEW top \in BOOLEAN,
         NEW todo \in SUBSET Names, todo \subseteq NamesOf(request[q]), Plans(q, w, top, todo)
  PROVE  PanesInv'
<1>1. PICK new \in IF top /\ Dead(w) = {} THEN {{p} : p \in FreshPane} ELSE {{}} :
        LET r == [at |-> "respawned", workspace |-> w, panes |-> Dead(w) \cup new,
                  new |-> new, top |-> top, todo |-> todo]
        IN request' = [request EXCEPT ![q] = r]
  BY DEF Plans, Starts, Continues
<1>2. PICK dead : dead = Dead(w)
  OBVIOUS
<1>3. PICK n : n = [at |-> "respawned", workspace |-> w, panes |-> dead \cup new,
                    new |-> new, top |-> top, todo |-> todo]
  OBVIOUS
<1>4. new \subseteq FreshPane
  BY <1>1
<1>5. /\ w \in Names /\ new \subseteq PaneIds /\ new \cap (Registered \cup Shown) = {}
  BY <1>4, FreshPaneIs DEF PanesInv, Types
<1>6. dead \subseteq PaneIds /\ dead \subseteq Shown
  <2>1. workspaces[w] \in WorkspaceRecord
    BY DEF PanesInv, Types
  <2> QED BY <2>1, <1>2 DEF WorkspaceRecord, Shown, ShownIn, Dead
<1>7. /\ n \in Respawned /\ n.at = "respawned" /\ n.workspace = w /\ n.panes = dead \cup new
      /\ n.new = new /\ n.todo = todo
  BY <1>3, <1>5, <1>6 DEF Respawned
<1>8. n \in Request
  BY <1>7 DEF Request
<1>9. /\ PanesOf(n) \subseteq dead \cup new /\ NewPanes(n) \subseteq new /\ NewNames(n) = {}
      /\ NamesOf(n) \subseteq {w} \cup todo
  BY <1>7 DEF PanesOf, NewPanes, NewNames, NamesOf
<1>10. Fits(n)
  BY <1>5, <1>6, <1>7, <1>9 DEF Fits, NewAreNew, Respawns, StaysOnMachine, Removes
<1>11. request' = [request EXCEPT ![q] = n] /\ UNCHANGED <<workspaces, panes, escaped>>
  BY <1>1, <1>2, <1>3 DEF Plans
<1> QED BY <1>4, <1>6, <1>8, <1>9, <1>10, <1>11, OnlyRequests

LEMMA reconnect_workspaceKeeps ==
  ASSUME PanesInv, NEW q \in Requests, NEW w \in Ids, reconnect_workspace(q, w)
  PROVE  PanesInv'
<1> PICK todo : todo = {}
  OBVIOUS
<1>1. todo \in SUBSET Names /\ todo \subseteq NamesOf(request[q]) /\ Plans(q, w, TRUE, todo)
  BY DEF reconnect_workspace
<1> QED BY <1>1, PlansKeeps

\* A request that goes on to the workstations nested in its own.
LEMMA OnlyLists ==
  ASSUME PanesInv, NEW q \in Requests, NEW n \in Listing,
         request' = [request EXCEPT ![q] = n], UNCHANGED <<workspaces, panes, escaped>>,
         {n.workspace} \cup n.todo \subseteq Ids \cup NamesOf(request[q])
  PROVE  PanesInv'
<1>1. n.at \in {"listing", "next"} /\ n \in Request
  BY DEF Listing, Request
<1>2. /\ PanesOf(n) = {} /\ NewPanes(n) = {} /\ NewNames(n) = {}
      /\ NamesOf(n) \subseteq {n.workspace} \cup n.todo
  BY <1>1 DEF PanesOf, NewPanes, NewNames, NamesOf
<1>3. Fits(n)
  BY <1>1, <1>2 DEF Fits, NewAreNew, Respawns, StaysOnMachine, Removes
<1> QED BY <1>1, <1>2, <1>3, OnlyRequests

LEMMA ListsNestedKeeps ==
  ASSUME PanesInv, NEW q \in Requests, ListsNested(q)
  PROVE  PanesInv'
<1>1. PICK r : r = request[q]
  OBVIOUS
<1>2. r \in Listing /\ r.at = "listing"
  <2>1. r \in Request /\ r.at = "listing"
    BY <1>1 DEF PanesInv, Types, ListsNested
  <2> QED BY <2>1, RequestKinds DEF Kinds
<1>3. r.workspace \in Names /\ r.workspace \in NamesOf(r)
  BY <1>2 DEF Listing, NamesOf
<1>4. PICK todo : /\ todo \subseteq Ids
                  /\ request' = [request EXCEPT ![q] = [at |-> "next", workspace |-> r.workspace,
                                                        todo |-> todo]]
  <2>1. PICK t : t = IF r.workspace \in Ids
                   THEN {v \in workstation_descendants(r.workspace) :
                           workspaces[v].remote /\ ~workspaces[v].online}
                   ELSE {}
    OBVIOUS
  <2>2. t \subseteq Ids
    BY <2>1 DEF workstation_descendants
  <2> QED BY <1>1, <2>1, <2>2 DEF ListsNested, Continues
<1>5. PICK n : n = [at |-> "next", workspace |-> r.workspace, todo |-> todo]
  OBVIOUS
<1>6. n \in Listing /\ n.workspace = r.workspace /\ n.todo = todo
  BY <1>3, <1>4, <1>5 DEF Listing, PanesInv, Types
<1>7. request' = [request EXCEPT ![q] = n] /\ UNCHANGED <<workspaces, panes, escaped>>
  BY <1>4, <1>5 DEF ListsNested
<1>8. {n.workspace} \cup n.todo \subseteq Ids \cup NamesOf(request[q])
  BY <1>1, <1>3, <1>4, <1>6
<1> QED BY <1>6, <1>7, <1>8, OnlyLists

LEMMA ReconnectsNextKeeps ==
  ASSUME PanesInv, NEW q \in Requests, ReconnectsNext(q)
  PROVE  PanesInv'
<1>1. PICK r : r = request[q]
  OBVIOUS
<1>2. r \in Listing /\ r.at = "next"
  <2>1. r \in Request /\ r.at = "next"
    BY <1>1 DEF PanesInv, Types, ReconnectsNext
  <2> QED BY <2>1, RequestKinds DEF Kinds
<1>3. r.todo \subseteq Names /\ r.todo \subseteq NamesOf(r)
  BY <1>2 DEF Listing, NamesOf
<1>4. \/ \E w \in r.todo : w \in Ids /\ Plans(q, w, FALSE, r.todo \ {w})
      \/ Continues(q, Idle) /\ UNCHANGED <<workspaces, panes, orphans, escaped>>
  BY <1>1 DEF ReconnectsNext
<1>5. CASE \E w \in r.todo : w \in Ids /\ Plans(q, w, FALSE, r.todo \ {w})
  <2>1. PICK w \in Ids : Plans(q, w, FALSE, r.todo \ {w})
    BY <1>5
  <2>2. PICK todo : todo = r.todo \ {w}
    OBVIOUS
  <2>3. todo \in SUBSET Names /\ todo \subseteq NamesOf(request[q]) /\ Plans(q, w, FALSE, todo)
    BY <1>1, <1>3, <2>1, <2>2
  <2> QED BY <2>3, PlansKeeps
<1>6. CASE Continues(q, Idle) /\ UNCHANGED <<workspaces, panes, orphans, escaped>>
  BY <1>6, OnlyEnds DEF Continues
<1> QED BY <1>4, <1>5, <1>6

LEMMA delete_workspaceKeeps ==
  ASSUME PanesInv, NEW q \in Requests, NEW w \in Ids, delete_workspace(q, w)
  PROVE  PanesInv'
<1>1. PICK removed : removed = Subtree(w)
  OBVIOUS
<1>2. PICK listed : listed = ShownIn(removed)
  OBVIOUS
<1>3. PICK n : n = [at |-> "deleting", workspace |-> w, removed |-> removed, panes |-> listed]
  OBVIOUS
<1>4. request' = [request EXCEPT ![q] = n] /\ UNCHANGED <<workspaces, panes, escaped>>
  BY <1>1, <1>2, <1>3 DEF delete_workspace, PanesToRemove, Starts
<1>5. removed \subseteq Ids /\ removed \subseteq Names /\ w \in Names
  BY <1>1 DEF Subtree, workstation_descendants, PanesInv, Types
<1>6. \A v \in Ids : workspaces[v].tabs \subseteq PaneIds
  <2>1. \A v \in Ids : workspaces[v] \in WorkspaceRecord
    BY DEF PanesInv, Types
  <2> QED BY <2>1 DEF WorkspaceRecord
<1>7. \A x : x \in listed <=> \E v \in removed : x \in workspaces[v].tabs
  BY <1>2 DEF ShownIn
<1>8. listed \subseteq PaneIds /\ listed \subseteq Shown
  BY <1>5, <1>6, <1>7 DEF Shown, ShownIn
<1>9. /\ n \in Deleting /\ n.at = "deleting" /\ n.workspace = w /\ n.removed = removed
      /\ n.panes = listed
  BY <1>3, <1>5, <1>8 DEF Deleting
<1>10. n \in Request
  BY <1>9 DEF Request
<1>11. /\ PanesOf(n) \subseteq listed /\ NewPanes(n) = {} /\ NewNames(n) = {}
       /\ NamesOf(n) \subseteq {w} \cup removed
  BY <1>9 DEF PanesOf, NewPanes, NewNames, NamesOf
<1>12. Removes(n)
  <2>1. ASSUME NEW v \in Ids, v \in removed PROVE workspaces[v].tabs \subseteq listed
    BY <1>7, <2>1
  <2>2. ASSUME NEW v \in Ids, v \notin removed PROVE workspaces[v].tabs \cap listed = {}
    BY <1>5, <1>7, <2>2 DEF PanesInv, TabsAreApart
  <2> QED BY <1>9, <2>1, <2>2 DEF Removes
<1>13. Fits(n)
  BY <1>9, <1>11, <1>12 DEF Fits, NewAreNew, Respawns, StaysOnMachine
<1> QED BY <1>4, <1>5, <1>8, <1>10, <1>11, <1>13, OnlyRequests

-----------------------------------------------------------------------------
(* What changes workspaces and panes. *)

LEMMA RequestEnds ==
  ASSUME PanesInv, NEW q \in Requests, request' = [request EXCEPT ![q] = Idle],
         \A o \in Requests \ {q} : LeavesAlone(request[o])
  PROVE  RequestsFit' /\ request' \in [Requests -> Request]
<1> PICK n : n = Idle
  OBVIOUS
<1>1. /\ n \in Request /\ Fits(n)'
      /\ PanesOf(n) = {} /\ NamesOf(n) = {} /\ NewPanes(n) = {} /\ NewNames(n) = {}
  BY IdleFits, IdleKnowsNothing
<1>2. \A o \in Requests \ {q} : NewAreApart(n, request[o]) /\ NewAreApart(request[o], n)
  BY <1>1 DEF NewAreApart
<1> QED BY <1>1, <1>2, OneMovesOn

\* What is known of a request that takes no part.
Bystander(r, s) ==
  /\ r \in Request /\ Kinds(r) /\ Fits(r) /\ NewAreApart(r, s) /\ NewAreApart(s, r)
  /\ NewPanes(r) \subseteq PanesOf(r) /\ NewNames(r) \subseteq NamesOf(r)
  /\ r.at = "deleting" => r.removed \subseteq NamesOf(r) /\ r.panes \subseteq PanesOf(r)
  /\ r.at = "deleting" => \A w \in r.removed : BeingDeleted(w)
  /\ r.at = "respawned" => r.panes \subseteq Respawning

LEMMA ManyBystanders ==
  ASSUME PanesInv, NEW o \in Requests
  PROVE  /\ request[o] \in Request /\ Kinds(request[o]) /\ Fits(request[o])
         /\ NewPanes(request[o]) \subseteq PanesOf(request[o])
         /\ NewNames(request[o]) \subseteq NamesOf(request[o])
         /\ request[o].at = "deleting" => /\ request[o].removed \subseteq NamesOf(request[o])
                                          /\ request[o].panes \subseteq PanesOf(request[o])
                                          /\ \A w \in request[o].removed : BeingDeleted(w)
         /\ request[o].at = "respawned" => request[o].panes \subseteq Respawning
<1>1. PICK r : r = request[o]
  OBVIOUS
<1>2. r \in Request /\ Fits(r)
  BY <1>1 DEF PanesInv, Types, RequestsFit
<1>3. Kinds(r)
  BY <1>2, RequestKinds
<1>4. NewPanes(r) \subseteq PanesOf(r) /\ NewNames(r) \subseteq NamesOf(r)
  BY <1>2, NewAreKnown DEF Fits, Respawns
<1>5. ASSUME r.at = "deleting"
      PROVE  r.removed \subseteq NamesOf(r) /\ r.panes \subseteq PanesOf(r)
  <2>1. r \in Deleting
    BY <1>3, <1>5 DEF Kinds
  <2>2. r.removed \subseteq Names /\ r.panes \subseteq PaneIds
    BY <2>1 DEF Deleting
  <2> QED BY <1>5, <2>2 DEF NamesOf, PanesOf
<1>6. ASSUME r.at = "deleting" PROVE \A w \in r.removed : BeingDeleted(w)
  BY <1>1, <1>6 DEF BeingDeleted, Busy
<1>7. ASSUME r.at = "respawned" PROVE r.panes \subseteq Respawning
  BY <1>1, <1>7 DEF Respawning, Busy
<1> QED BY <1>1, <1>2, <1>3, <1>4, <1>5, <1>6, <1>7

LEMMA Bystanders ==
  ASSUME PanesInv, NEW q \in Requests
  PROVE  \A o \in Requests \ {q} : Bystander(request[o], request[q])
<1> SUFFICES ASSUME NEW o \in Requests \ {q} PROVE Bystander(request[o], request[q])
  OBVIOUS
<1>1. NewAreApart(request[o], request[q]) /\ NewAreApart(request[q], request[o])
  BY DEF PanesInv, RequestsFit
<1> QED BY <1>1, ManyBystanders DEF Bystander

\* A step that ends a request is shown by what it does to a bystander.
LEMMA EndsAmongBystanders ==
  ASSUME PanesInv, NEW q \in Requests, request' = [request EXCEPT ![q] = Idle],
         \A r : Bystander(r, request[q]) => LeavesAlone(r)
  PROVE  RequestsFit' /\ request' \in [Requests -> Request]
BY Bystanders, RequestEnds

LEMMA WithWorkspace ==
  ASSUME Types, NEW w \in Names \ Ids, NEW rec \in WorkspaceRecord,
         workspaces' = With(workspaces, w, rec)
  PROVE  /\ Ids' = Ids \cup {w} /\ workspaces' \in [Ids' -> WorkspaceRecord]
         /\ workspaces'[w] = rec /\ \A v \in Ids : workspaces'[v] = workspaces[v]
         /\ Shown' = Shown \cup rec.tabs
<1>1. Ids' = Ids \cup {w} /\ workspaces'[w] = rec /\ \A v \in Ids : workspaces'[v] = workspaces[v]
  BY DEF With, Ids
<1>2. workspaces' \in [Ids' -> WorkspaceRecord]
  BY <1>1 DEF With, Ids, Types
<1>3. \A x : x \in Shown' <=> x \in Shown \/ x \in rec.tabs
  BY <1>1 DEF Shown, ShownIn
<1> QED BY <1>1, <1>2, <1>3

LEMMA WithPane ==
  ASSUME Types, NEW p \in PaneIds, panes' = With(panes, p, "live")
  PROVE  /\ Registered' = Registered \cup {p} /\ Registered' \subseteq PaneIds
         /\ panes' \in [Registered' -> {"live", "ended"}]
BY DEF With, Registered, Types

LEMMA CreatesWorkspaceKeeps ==
  ASSUME PanesInv, NEW q \in Requests, CreatesWorkspace(q)
  PROVE  PanesInv'
<1>1. PICK r : r = request[q]
  OBVIOUS
<1>2. r \in Creating /\ r.at = "creating" /\ Fits(r)
  <2>1. r \in Request /\ r.at = "creating" /\ Fits(r)
    BY <1>1 DEF PanesInv, Types, RequestsFit, CreatesWorkspace
  <2> QED BY <2>1, RequestKinds DEF Kinds
<1>3. request' = [request EXCEPT ![q] = Idle] /\ UNCHANGED escaped
  BY DEF CreatesWorkspace, Continues
<1>4. CASE UNCHANGED <<workspaces, panes>>
  BY <1>3, <1>4, OnlyEnds
<1>5. CASE /\ workspaces' = With(workspaces, r.workspace,
                              Workspace(r.parent, r.remote, r.remote, {r.pane}))
           /\ panes' = With(panes, r.pane, "live")
  <2>1. PICK rec : rec = Workspace(r.parent, r.remote, r.remote, {r.pane})
    OBVIOUS
  <2>2. PICK w \in Names, p \in PaneIds : w = r.workspace /\ p = r.pane
    BY <1>2 DEF Creating
  <2>3. rec \in WorkspaceRecord /\ rec.tabs = {p} /\ rec.remote = r.remote
    BY <1>2, <2>1, <2>2 DEF Workspace, WorkspaceRecord, Creating
  <2>4. w \notin Ids /\ p \notin Registered \cup Shown /\ w \in NewNames(r) /\ p \in NewPanes(r)
    BY <1>2, <2>2 DEF Fits, NewAreNew, NewNames, NewPanes
  <2>5. Types
    BY DEF PanesInv
  <2>6. /\ Ids' = Ids \cup {w} /\ workspaces' \in [Ids' -> WorkspaceRecord]
        /\ workspaces'[w] = rec /\ \A v \in Ids : workspaces'[v] = workspaces[v]
        /\ Shown' = Shown \cup {p}
    BY <1>5, <2>1, <2>2, <2>3, <2>4, <2>5, WithWorkspace
  <2>7. /\ Registered' = Registered \cup {p} /\ Registered' \subseteq PaneIds
        /\ panes' \in [Registered' -> {"live", "ended"}]
    BY <1>5, <2>2, <2>5, WithPane
  <2>8. ASSUME NEW o, Bystander(o, r) PROVE LeavesAlone(o)
    <3>1. w \notin NamesOf(o) /\ p \notin PanesOf(o)
      BY <2>4, <2>8 DEF Bystander, NewAreApart
    <3>2. NewNames(o) \cap Ids' = {} /\ NewPanes(o) \cap (Registered' \cup Shown') = {}
      BY <2>6, <2>7, <2>8, <3>1 DEF Bystander, Fits, NewAreNew
    <3>3. \A v \in Ids' \cap NamesOf(o) : v \in Ids /\ workspaces'[v].remote = workspaces[v].remote
      BY <2>6, <3>1
    <3>4. ASSUME o.at = "deleting", NEW v \in Ids', NEW x \in workspaces'[v].tabs
          PROVE  \/ v \in Ids /\ x \in workspaces[v].tabs
                 \/ v \notin o.removed /\ x \notin o.panes
      BY <2>3, <2>6, <2>8, <3>1, <3>4 DEF Bystander
    <3> QED BY <1>3, <2>6, <3>2, <3>3, <3>4 DEF LeavesAlone
  <2>9. RequestsFit' /\ request' \in [Requests -> Request]
    BY <1>1, <1>3, <2>8, EndsAmongBystanders
  <2>10. Types'
    BY <2>5, <2>2, <2>6, <2>7, <2>9 DEF Types
  <2>11. TabsAreApart'
    <3>1. \A v \in Ids : p \notin workspaces[v].tabs
      BY <2>4 DEF Shown, ShownIn
    <3> QED BY <2>3, <2>6, <3>1 DEF PanesInv, TabsAreApart
  <2>12. PanesAreShown'
    <3>1. ASSUME NEW v \in Ids', ~workspaces'[v].remote, NEW x \in workspaces'[v].tabs
          PROVE  x \in Registered' \cup escaped'
      BY <1>3, <2>3, <2>6, <2>7, <3>1 DEF PanesInv, PanesAreShown, ShownIn
    <3>2. Registered' \subseteq Shown' \cup escaped'
      BY <1>3, <2>6, <2>7 DEF PanesInv, PanesAreShown
    <3> QED BY <3>1, <3>2 DEF PanesAreShown, ShownIn
  <2> QED BY <2>9, <2>10, <2>11, <2>12 DEF PanesInv
<1> QED BY <1>1, <1>4, <1>5 DEF CreatesWorkspace

LEMMA MovesOnAmongBystanders ==
  ASSUME PanesInv, NEW q \in Requests, NEW n \in Request, request' = [request EXCEPT ![q] = n],
         Fits(n)',
         \A x \in PanesOf(n) : x \in Registered \cup Shown \cup FreshPane \cup PanesOf(request[q]),
         \A x \in NewPanes(n) : x \in FreshPane \cup NewPanes(request[q]),
         \A x \in NamesOf(n) : x \in Ids \cup FreshId \cup NamesOf(request[q]),
         \A x \in NewNames(n) : x \in FreshId \cup NewNames(request[q]),
         \A o \in Requests \ {q} : LeavesAlone(request[o])
  PROVE  RequestsFit' /\ request' \in [Requests -> Request]
<1>1. \A o \in Requests \ {q} : NewAreApart(n, request[o]) /\ NewAreApart(request[o], n)
  BY SharesNoNews
<1> QED BY <1>1, OneMovesOn

LEMMA NobodyMoves ==
  ASSUME PanesInv, UNCHANGED request, \A o \in Requests : LeavesAlone(request[o])
  PROVE  RequestsFit' /\ request' \in [Requests -> Request]
<1>1. \A o \in Requests : Fits(request[o])'
  <2> SUFFICES ASSUME NEW o \in Requests PROVE Fits(request[o])'
    OBVIOUS
  <2>1. PICK r \in Request : r = request[o]
    BY DEF PanesInv, Types
  <2>2. Fits(r)'
    BY <2>1, StillFits DEF PanesInv, RequestsFit
  <2> QED BY <2>1, <2>2
<1>2. \A o, p \in Requests : o # p => NewAreApart(request[o], request[p])'
  <2> SUFFICES ASSUME NEW o \in Requests, NEW p \in Requests, o # p
               PROVE  NewAreApart(request'[o], request'[p])
    BY DEF NewAreApart, NewPanes, PanesOf, NewNames, NamesOf
  <2> QED BY DEF PanesInv, RequestsFit
<1> QED BY <1>1, <1>2 DEF RequestsFit, PanesInv, Types

LEMMA persist_ssh_workspace_intentKeeps ==
  ASSUME PanesInv, NEW q \in Requests, persist_ssh_workspace_intent(q)
  PROVE  PanesInv'
<1>1. PICK w \in FreshId, p \in FreshPane :
        /\ workspaces' = With(workspaces, w, Workspace(None, TRUE, FALSE, {p}))
        /\ Starts(q, [at |-> "signing in", workspace |-> w, pane |-> p])
        /\ UNCHANGED <<panes, orphans, escaped>>
  BY DEF persist_ssh_workspace_intent
<1>2. PICK n : n = [at |-> "signing in", workspace |-> w, pane |-> p]
  OBVIOUS
<1>3. PICK rec : rec = Workspace(None, TRUE, FALSE, {p})
  OBVIOUS
<1>4. Types
  BY DEF PanesInv
<1>5. /\ w \in Names \ Ids /\ p \in PaneIds /\ p \notin Registered \cup Shown
      /\ \A o \in Requests : w \notin NamesOf(request[o]) /\ p \notin PanesOf(request[o])
  BY <1>4, FreshPaneIs, FreshIdIs
<1>6. rec \in WorkspaceRecord /\ rec.tabs = {p} /\ rec.remote = TRUE
  BY <1>3, <1>5 DEF Workspace, WorkspaceRecord
<1>7. n \in SigningIn /\ n.at = "signing in" /\ n.workspace = w /\ n.pane = p
  BY <1>2, <1>5 DEF SigningIn
<1>8. n \in Request
  BY <1>7 DEF Request
<1>9. /\ PanesOf(n) \subseteq {p} /\ NewPanes(n) = {} /\ NewNames(n) = {} /\ NamesOf(n) \subseteq {w}
  BY <1>7 DEF PanesOf, NewPanes, NewNames, NamesOf
<1>10. Fits(n)'
  BY <1>7, <1>9 DEF Fits, NewAreNew, Respawns, StaysOnMachine, Removes
<1>11. /\ Ids' = Ids \cup {w} /\ workspaces' \in [Ids' -> WorkspaceRecord]
       /\ workspaces'[w] = rec /\ \A v \in Ids : workspaces'[v] = workspaces[v]
       /\ Shown' = Shown \cup {p}
  BY <1>1, <1>3, <1>4, <1>5, <1>6, WithWorkspace
<1>12. Registered' = Registered
  BY <1>1 DEF Registered
<1>13. ASSUME NEW q2 \in Requests \ {q} PROVE LeavesAlone(request[q2])
  <2>1. PICK o : o = request[q2]
    OBVIOUS
  <2>2. w \notin NamesOf(o) /\ p \notin PanesOf(o) /\ Bystander(o, request[q])
    BY <1>5, <2>1, Bystanders
  <2>3. NewNames(o) \cap Ids' = {} /\ NewPanes(o) \cap (Registered' \cup Shown') = {}
    BY <1>11, <1>12, <2>2 DEF Bystander, Fits, NewAreNew
  <2>4. \A v \in Ids' \cap NamesOf(o) : v \in Ids /\ workspaces'[v].remote = workspaces[v].remote
    BY <1>11, <2>2
  <2>5. ASSUME o.at = "deleting", NEW v \in Ids', NEW x \in workspaces'[v].tabs
        PROVE  \/ v \in Ids /\ x \in workspaces[v].tabs
               \/ v \notin o.removed /\ x \notin o.panes
    BY <1>6, <1>11, <2>2, <2>5 DEF Bystander
  <2> QED BY <1>1, <1>11, <2>1, <2>3, <2>4, <2>5 DEF LeavesAlone
<1>14. RequestsFit' /\ request' \in [Requests -> Request]
  <2>1. request' = [request EXCEPT ![q] = n]
    BY <1>1, <1>2 DEF Starts
  <2> QED BY <2>1, <1>8, <1>9, <1>10, <1>13, MovesOnAmongBystanders
<1>15. Types'
  BY <1>1, <1>4, <1>5, <1>11, <1>12, <1>14 DEF Types
<1>16. TabsAreApart'
  <2>1. \A v \in Ids : p \notin workspaces[v].tabs
    BY <1>5 DEF Shown, ShownIn
  <2> QED BY <1>6, <1>11, <2>1 DEF PanesInv, TabsAreApart
<1>17. PanesAreShown'
  <2>1. ASSUME NEW v \in Ids', ~workspaces'[v].remote, NEW x \in workspaces'[v].tabs
        PROVE  x \in Registered' \cup escaped'
    BY <1>1, <1>6, <1>11, <1>12, <2>1 DEF PanesInv, PanesAreShown, ShownIn
  <2>2. Registered' \subseteq Shown' \cup escaped'
    BY <1>1, <1>11, <1>12 DEF PanesInv, PanesAreShown
  <2> QED BY <2>1, <2>2 DEF PanesAreShown, ShownIn
<1> QED BY <1>14, <1>15, <1>16, <1>17 DEF PanesInv

LEMMA attach_ssh_workspaceKeeps ==
  ASSUME PanesInv, NEW q \in Requests, attach_ssh_workspace(q)
  PROVE  PanesInv'
<1>1. PICK r : r = request[q]
  OBVIOUS
<1>2. r \in SigningIn /\ r.at = "signing in" /\ Fits(r)
  <2>1. r \in Request /\ r.at = "signing in" /\ Fits(r)
    BY <1>1 DEF PanesInv, Types, RequestsFit, attach_ssh_workspace
  <2> QED BY <2>1, RequestKinds DEF Kinds
<1>3. request' = [request EXCEPT ![q] = Idle]
  BY DEF attach_ssh_workspace, Continues
<1>4. CASE UNCHANGED <<workspaces, panes, escaped>>
  BY <1>3, <1>4, OnlyEnds
<1>5. CASE /\ r.workspace \in Ids
           /\ workspaces' = [workspaces EXCEPT ![r.workspace].online = TRUE]
           /\ panes' = With(panes, r.pane, "live")
           /\ escaped' = IF r.pane \in Shown THEN escaped ELSE escaped \cup {r.pane}
  <2>1. PICK p \in PaneIds : p = r.pane /\ p \in PanesOf(r)
    BY <1>2 DEF SigningIn, PanesOf
  <2>2. Types
    BY DEF PanesInv
  <2>3. /\ Ids' = Ids /\ workspaces' \in [Ids' -> WorkspaceRecord]
        /\ \A v \in Ids : /\ workspaces'[v].tabs = workspaces[v].tabs
                          /\ workspaces'[v].remote = workspaces[v].remote
    <3>1. PICK w \in Ids : w = r.workspace /\ workspaces' = [workspaces EXCEPT ![w].online = TRUE]
      BY <1>5
    <3>2. workspaces \in [Ids -> WorkspaceRecord]
      BY <2>2 DEF Types
    <3>3. Ids' = Ids
      BY <3>1 DEF Ids
    <3>4. ASSUME NEW v \in Ids
          PROVE  /\ workspaces'[v] \in WorkspaceRecord
                 /\ workspaces'[v].tabs = workspaces[v].tabs
                 /\ workspaces'[v].remote = workspaces[v].remote
      <4>1. workspaces[v] \in WorkspaceRecord
        BY <3>2
      <4>2. CASE v = w
        <5>1. workspaces'[v] = [workspaces[v] EXCEPT !.online = TRUE]
          BY <3>1, <3>2, <4>2
        <5> QED BY <4>1, <5>1 DEF WorkspaceRecord
      <4>3. CASE v # w
        <5>1. workspaces'[v] = workspaces[v]
          BY <3>1, <3>2, <4>3
        <5> QED BY <4>1, <5>1
      <4> QED BY <4>2, <4>3
    <3>5. workspaces' = [v \in Ids' |-> workspaces'[v]]
      BY <3>1, <3>2, <3>3
    <3> QED BY <3>3, <3>4, <3>5
  <2>4. Shown' = Shown
    BY <2>3 DEF Shown, ShownIn
  <2>5. /\ Registered' = Registered \cup {p} /\ Registered' \subseteq PaneIds
        /\ panes' \in [Registered' -> {"live", "ended"}]
    BY <1>5, <2>1, <2>2, WithPane
  <2>6. escaped \subseteq escaped' /\ p \in Shown \cup escaped'
    BY <1>5, <2>1
  <2>7. ASSUME NEW o, Bystander(o, r) PROVE LeavesAlone(o)
    <3>1. p \notin NewPanes(o)
      BY <2>1, <2>7 DEF Bystander, NewAreApart
    <3> QED BY <2>3, <2>4, <2>5, <2>6, <2>7, <3>1 DEF LeavesAlone, Bystander, Fits, NewAreNew
  <2>8. RequestsFit' /\ request' \in [Requests -> Request]
    BY <1>1, <1>3, <2>7, EndsAmongBystanders
  <2>9. Types'
    BY <2>2, <2>3, <2>5, <2>8 DEF Types
  <2>10. TabsAreApart'
    BY <2>3 DEF PanesInv, TabsAreApart
  <2>11. PanesAreShown'
    BY <2>3, <2>4, <2>5, <2>6 DEF PanesInv, PanesAreShown, ShownIn
  <2> QED BY <2>8, <2>9, <2>10, <2>11 DEF PanesInv
<1> QED BY <1>1, <1>4, <1>5 DEF attach_ssh_workspace

LEMMA OpensTabKeeps ==
  ASSUME PanesInv, NEW q \in Requests, OpensTab(q)
  PROVE  PanesInv'
<1>1. PICK r : r = request[q]
  OBVIOUS
<1>2. r \in Opening /\ r.at = "opening" /\ Fits(r)
  <2>1. r \in Request /\ r.at = "opening" /\ Fits(r)
    BY <1>1 DEF PanesInv, Types, RequestsFit, OpensTab
  <2> QED BY <2>1, RequestKinds DEF Kinds
<1>3. request' = [request EXCEPT ![q] = Idle]
  BY DEF OpensTab, Continues
<1>4. CASE UNCHANGED <<workspaces, panes, escaped>>
  BY <1>3, <1>4, OnlyEnds
<1>5. CASE /\ r.workspace \in Ids
           /\ workspaces' = [workspaces EXCEPT ![r.workspace].tabs = @ \cup {r.pane}]
           /\ panes' = With(panes, r.pane, "live")
           /\ escaped' = IF BeingDeleted(r.workspace) THEN escaped \cup {r.pane} ELSE escaped
  <2>1. PICK p \in PaneIds : p = r.pane /\ p \in NewPanes(r) /\ p \notin Registered \cup Shown
    BY <1>2 DEF Opening, NewPanes, Fits, NewAreNew
  <2>2. PICK w \in Ids : w = r.workspace
    BY <1>5
  <2>3. Types
    BY DEF PanesInv
  <2>4. /\ Ids' = Ids /\ workspaces' \in [Ids' -> WorkspaceRecord]
        /\ \A v \in Ids : workspaces'[v].remote = workspaces[v].remote
        /\ \A v \in Ids : v # w => workspaces'[v].tabs = workspaces[v].tabs
        /\ workspaces'[w].tabs = workspaces[w].tabs \cup {p}
    BY <1>5, <2>1, <2>2, <2>3 DEF Types, Ids, WorkspaceRecord
  <2>5. Shown' = Shown \cup {p}
    <3>1. \A x : x \in Shown' <=> x \in Shown \/ x = p
      BY <2>4 DEF Shown, ShownIn
    <3> QED BY <3>1
  <2>6. /\ Registered' = Registered \cup {p} /\ Registered' \subseteq PaneIds
        /\ panes' \in [Registered' -> {"live", "ended"}]
    BY <1>5, <2>1, <2>3, WithPane
  <2>7. escaped \subseteq escaped' /\ (BeingDeleted(w) => p \in escaped')
    BY <1>5, <2>1, <2>2
  <2>8. ASSUME NEW o, Bystander(o, r) PROVE LeavesAlone(o)
    <3>1. p \notin PanesOf(o) /\ p \notin NewPanes(o)
      BY <2>1, <2>8 DEF Bystander, NewAreApart
    <3>2. ASSUME o.at = "deleting", NEW v \in Ids', NEW x \in workspaces'[v].tabs
          PROVE  \/ v \in Ids /\ x \in workspaces[v].tabs
                 \/ x \in escaped'
                 \/ v \notin o.removed /\ x \notin o.panes
      BY <2>4, <2>7, <2>8, <3>1, <3>2 DEF Bystander
    <3>3. o.at = "respawned" => o.panes \cap Shown \subseteq Shown' \cup escaped'
      BY <2>5
    <3>4. NewNames(o) \cap Ids' = {} /\ NewPanes(o) \cap (Registered' \cup Shown') = {}
      BY <2>4, <2>5, <2>6, <2>8, <3>1 DEF Bystander, Fits, NewAreNew
    <3> QED BY <2>4, <2>7, <3>2, <3>3, <3>4 DEF LeavesAlone
  <2>9. RequestsFit' /\ request' \in [Requests -> Request]
    BY <1>1, <1>3, <2>8, EndsAmongBystanders
  <2>10. Types'
    BY <2>3, <2>4, <2>6, <2>9 DEF Types
  <2>11. TabsAreApart'
    <3>1. \A v \in Ids : p \notin workspaces[v].tabs
      BY <2>1 DEF Shown, ShownIn
    <3> QED BY <2>4, <3>1 DEF PanesInv, TabsAreApart
  <2>12. PanesAreShown'
    <3>1. ASSUME NEW v \in Ids', ~workspaces'[v].remote, NEW x \in workspaces'[v].tabs
          PROVE  x \in Registered' \cup escaped'
      BY <2>4, <2>6, <2>7, <3>1 DEF PanesInv, PanesAreShown, ShownIn
    <3>2. Registered' \subseteq Shown' \cup escaped'
      BY <2>5, <2>6, <2>7 DEF PanesInv, PanesAreShown
    <3> QED BY <3>1, <3>2 DEF PanesAreShown, ShownIn
  <2> QED BY <2>9, <2>10, <2>11, <2>12 DEF PanesInv
<1> QED BY <1>1, <1>4, <1>5 DEF OpensTab

\* What moves no pane leaves everybody alone.
LEMMA TabsStay ==
  ASSUME PanesInv, workspaces' \in [Ids' -> WorkspaceRecord], Ids' = Ids,
         \A v \in Ids : /\ workspaces'[v].tabs = workspaces[v].tabs
                        /\ workspaces'[v].remote = workspaces[v].remote,
         Registered' = Registered, panes' \in [Registered' -> {"live", "ended"}],
         UNCHANGED escaped
  PROVE  /\ TabsAreApart' /\ PanesAreShown' /\ Shown' = Shown
         /\ \A o \in Requests : LeavesAlone(request[o])
         /\ request' \in [Requests -> Request] => Types'
<1>1. Shown' = Shown
  BY DEF Shown, ShownIn
<1>2. TabsAreApart' /\ PanesAreShown'
  BY <1>1 DEF PanesInv, TabsAreApart, PanesAreShown, ShownIn
<1>3. ASSUME NEW o \in Requests PROVE LeavesAlone(request[o])
  <2>1. NewAreNew(request[o])
    BY DEF PanesInv, RequestsFit, Fits
  <2> QED BY <1>1, <2>1 DEF LeavesAlone, NewAreNew
<1>4. request' \in [Requests -> Request] => Types'
  BY DEF PanesInv, Types
<1> QED BY <1>1, <1>2, <1>3, <1>4

LEMMA RefreshedIs ==
  ASSUME NEW ids, NEW ws \in [ids -> WorkspaceRecord], NEW ps
  PROVE  /\ DOMAIN Refreshed(ws, ps) = ids /\ Refreshed(ws, ps) \in [ids -> WorkspaceRecord]
         /\ \A v \in ids : /\ Refreshed(ws, ps)[v].tabs = ws[v].tabs
                           /\ Refreshed(ws, ps)[v].remote = ws[v].remote
                           /\ Refreshed(ws, ps)[v].parent = ws[v].parent
<1>1. ASSUME NEW v \in ids PROVE OnlineNow(ws, ps, v) \in BOOLEAN /\ ws[v] \in WorkspaceRecord
  BY DEF OnlineNow, WorkspaceRecord
<1> QED BY <1>1 DEF Refreshed, WorkspaceRecord

LEMMA refresh_runtime_metadataKeeps ==
  ASSUME PanesInv, NEW lost, refresh_runtime_metadata(lost)
  PROVE  PanesInv'
<1>1. Types
  BY DEF PanesInv
<1>2. Registered' = Registered /\ panes' \in [Registered' -> {"live", "ended"}]
  BY <1>1 DEF refresh_runtime_metadata, Registered, Types
<1>3. PICK ps : ps = panes'
  OBVIOUS
<1>4. workspaces' = Refreshed(workspaces, ps)
  BY <1>3 DEF refresh_runtime_metadata
<1>5. workspaces \in [Ids -> WorkspaceRecord]
  BY <1>1 DEF Types
<1>6. /\ Ids' = Ids /\ workspaces' \in [Ids' -> WorkspaceRecord]
      /\ \A v \in Ids : /\ workspaces'[v].tabs = workspaces[v].tabs
                        /\ workspaces'[v].remote = workspaces[v].remote
  BY <1>4, <1>5, RefreshedIs DEF Ids
<1>7. UNCHANGED <<escaped, request>>
  BY DEF refresh_runtime_metadata
<1>8. /\ TabsAreApart' /\ PanesAreShown'
      /\ \A o \in Requests : LeavesAlone(request[o])
      /\ request' \in [Requests -> Request] => Types'
  BY <1>2, <1>6, <1>7, TabsStay
<1>9. RequestsFit' /\ request' \in [Requests -> Request]
  BY <1>7, <1>8, NobodyMoves
<1> QED BY <1>8, <1>9 DEF PanesInv

LEMMA disconnect_workspaceKeeps ==
  ASSUME PanesInv, NEW q \in Requests, NEW w \in Ids, disconnect_workspace(q, w)
  PROVE  PanesInv'
<1>1. PICK targets : targets = {v \in Subtree(w) : workspaces[v].remote}
  OBVIOUS
<1>2. PICK n : n = [at |-> "disconnecting", workspace |-> w, targets |-> targets]
  OBVIOUS
<1>3. /\ request' = [request EXCEPT ![q] = n] /\ UNCHANGED <<workspaces, escaped>>
      /\ panes' = [p \in Registered |-> IF p \in ShownIn(targets) THEN "ended" ELSE panes[p]]
  BY <1>1, <1>2 DEF disconnect_workspace, Starts
<1>4. targets \subseteq Ids /\ targets \subseteq Names /\ w \in Names
  BY <1>1 DEF Subtree, workstation_descendants, PanesInv, Types
<1>5. n \in Disconnecting /\ n.at = "disconnecting" /\ n.workspace = w /\ n.targets = targets
  BY <1>2, <1>4 DEF Disconnecting
<1>6. n \in Request
  BY <1>5 DEF Request
<1>7. /\ PanesOf(n) = {} /\ NewPanes(n) = {} /\ NewNames(n) = {}
      /\ NamesOf(n) \subseteq {w} \cup targets
  BY <1>5 DEF PanesOf, NewPanes, NewNames, NamesOf
<1>8. Fits(n)'
  BY <1>5, <1>7 DEF Fits, NewAreNew, Respawns, StaysOnMachine, Removes
<1>9. /\ Registered' = Registered /\ panes' \in [Registered' -> {"live", "ended"}]
      /\ Ids' = Ids /\ workspaces' \in [Ids' -> WorkspaceRecord]
  BY <1>3 DEF Registered, Ids, PanesInv, Types
<1>10. /\ TabsAreApart' /\ PanesAreShown'
       /\ \A o \in Requests : LeavesAlone(request[o])
       /\ request' \in [Requests -> Request] => Types'
  BY <1>3, <1>9, TabsStay
<1>11. RequestsFit' /\ request' \in [Requests -> Request]
  BY <1>3, <1>4, <1>6, <1>7, <1>8, <1>10, MovesOnAmongBystanders
<1> QED BY <1>10, <1>11 DEF PanesInv

LEMMA DisconnectsKeeps ==
  ASSUME PanesInv, NEW q \in Requests, Disconnects(q)
  PROVE  PanesInv'
<1>1. PICK r : r = request[q]
  OBVIOUS
<1>2. /\ request' = [request EXCEPT ![q] = Idle] /\ UNCHANGED <<panes, escaped>>
  BY DEF Disconnects, Continues
<1>3. CASE UNCHANGED workspaces
  BY <1>2, <1>3, OnlyEnds
<1>4. CASE workspaces' = [w \in Ids |-> [Refreshed(workspaces, panes)[w] EXCEPT
                              !.online = @ /\ w \notin r.targets]]
  <2>1. PICK now : now = Refreshed(workspaces, panes)
    OBVIOUS
  <2>2. workspaces \in [Ids -> WorkspaceRecord]
    BY DEF PanesInv, Types
  <2>3. /\ now \in [Ids -> WorkspaceRecord]
        /\ \A v \in Ids : now[v].tabs = workspaces[v].tabs /\ now[v].remote = workspaces[v].remote
    BY <2>1, <2>2, RefreshedIs
  <2>4. workspaces' = [w \in Ids |-> [now[w] EXCEPT !.online = @ /\ w \notin r.targets]]
    BY <1>4, <2>1
  <2>5. ASSUME NEW w \in Ids
        PROVE  LET n == [now[w] EXCEPT !.online = @ /\ w \notin r.targets]
               IN n \in WorkspaceRecord /\ n.tabs = workspaces[w].tabs
                  /\ n.remote = workspaces[w].remote
    BY <2>3 DEF WorkspaceRecord
  <2>6. /\ Ids' = Ids /\ workspaces' \in [Ids' -> WorkspaceRecord]
        /\ \A v \in Ids : /\ workspaces'[v].tabs = workspaces[v].tabs
                          /\ workspaces'[v].remote = workspaces[v].remote
    BY <2>4, <2>5 DEF Ids
  <2>7. Registered' = Registered /\ panes' \in [Registered' -> {"live", "ended"}]
    BY <1>2 DEF Registered, PanesInv, Types
  <2>8. /\ TabsAreApart' /\ PanesAreShown'
        /\ \A o \in Requests : LeavesAlone(request[o])
        /\ request' \in [Requests -> Request] => Types'
    BY <1>2, <2>6, <2>7, TabsStay
  <2>9. RequestsFit' /\ request' \in [Requests -> Request]
    BY <1>2, <2>8, RequestEnds
  <2> QED BY <2>8, <2>9 DEF PanesInv
<1> QED BY <1>1, <1>3, <1>4 DEF Disconnects

LEMMA close_tabKeeps ==
  ASSUME PanesInv, NEW w \in Ids, NEW p, close_tab(w, p)
  PROVE  PanesInv'
<1>1. Types
  BY DEF PanesInv
<1>2. p \in workspaces[w].tabs /\ UNCHANGED request
  BY DEF close_tab
<1>3. /\ Ids' = Ids /\ workspaces' \in [Ids' -> WorkspaceRecord]
      /\ \A v \in Ids : workspaces'[v].remote = workspaces[v].remote
      /\ \A v \in Ids : v # w => workspaces'[v].tabs = workspaces[v].tabs
      /\ workspaces'[w].tabs = workspaces[w].tabs \ {p}
  BY <1>1 DEF close_tab, Ids, Types, WorkspaceRecord
<1>4. Registered' = Registered \ {p} /\ panes' \in [Registered' -> {"live", "ended"}]
  BY <1>1 DEF close_tab, Without, Registered, Types
<1>5. escaped' = escaped \cup ({p} \cap Respawning)
  BY DEF close_tab
<1>6. Shown' = Shown \ {p}
  <2>1. \A v \in Ids : v # w => p \notin workspaces[v].tabs
    BY <1>2 DEF PanesInv, TabsAreApart
  <2>2. \A x : x \in Shown' <=> x \in Shown /\ x # p
    BY <1>3, <2>1 DEF Shown, ShownIn
  <2> QED BY <2>2
<1>7. ASSUME NEW q \in Requests PROVE LeavesAlone(request[q])
  <2>1. PICK o : o = request[q]
    OBVIOUS
  <2>2. Fits(o) /\ (o.at = "respawned" => o.panes \subseteq Respawning)
    BY <2>1, ManyBystanders
  <2>3. o.at = "respawned" => o.panes \cap Shown \subseteq Shown' \cup escaped'
    BY <1>5, <1>6, <2>2
  <2>4. NewNames(o) \cap Ids' = {} /\ NewPanes(o) \cap (Registered' \cup Shown') = {}
    BY <1>3, <1>4, <1>6, <2>2 DEF Fits, NewAreNew
  <2>5. \A v \in Ids' : \A x \in workspaces'[v].tabs : v \in Ids /\ x \in workspaces[v].tabs
    BY <1>3
  <2> QED BY <1>3, <1>5, <2>1, <2>3, <2>4, <2>5 DEF LeavesAlone
<1>8. RequestsFit' /\ request' \in [Requests -> Request]
  BY <1>2, <1>7, NobodyMoves
<1>9. Types'
  BY <1>1, <1>3, <1>4, <1>8 DEF Types
<1>10. TabsAreApart'
  BY <1>3 DEF PanesInv, TabsAreApart
<1>11. PanesAreShown'
  <2>1. ASSUME NEW v \in Ids', ~workspaces'[v].remote, NEW x \in workspaces'[v].tabs
        PROVE  x \in Registered' \cup escaped'
    <3>1. x \in workspaces[v].tabs /\ ~workspaces[v].remote /\ x \in Registered \cup escaped
      BY <1>3, <2>1 DEF PanesInv, PanesAreShown, ShownIn
    <3>2. x # p
      BY <1>2, <1>3, <2>1, <3>1 DEF PanesInv, TabsAreApart
    <3> QED BY <1>4, <1>5, <3>1, <3>2
  <2>2. Registered' \subseteq Shown' \cup escaped'
    BY <1>4, <1>5, <1>6 DEF PanesInv, PanesAreShown
  <2> QED BY <2>1, <2>2 DEF PanesAreShown, ShownIn
<1> QED BY <1>8, <1>9, <1>10, <1>11 DEF PanesInv

LEMMA MovesTabKeeps ==
  ASSUME PanesInv, NEW q \in Requests, MovesTab(q)
  PROVE  PanesInv'
<1>1. PICK r : r = request[q]
  OBVIOUS
<1>2. r \in Moving /\ r.at = "moving" /\ Fits(r)
  <2>1. r \in Request /\ r.at = "moving" /\ Fits(r)
    BY <1>1 DEF PanesInv, Types, RequestsFit, MovesTab
  <2> QED BY <2>1, RequestKinds DEF Kinds
<1>3. request' = [request EXCEPT ![q] = Idle] /\ UNCHANGED panes
  BY DEF MovesTab, Continues
<1>4. CASE UNCHANGED <<workspaces, escaped>>
  BY <1>3, <1>4, OnlyEnds
<1>5. CASE /\ {r.from, r.to} \subseteq Ids /\ r.pane \in workspaces[r.from].tabs
           /\ workspaces' = Refreshed(
                  [workspaces EXCEPT ![r.from].tabs = @ \ {r.pane},
                                     ![r.to].tabs = @ \cup {r.pane}], panes)
           /\ escaped' = IF BeingDeleted(r.from) \/ BeingDeleted(r.to)
                         THEN escaped \cup {r.pane} ELSE escaped
  <2>1. PICK p \in PaneIds, from \in Ids, to \in Ids :
          p = r.pane /\ from = r.from /\ to = r.to /\ p \in PanesOf(r) /\ p \in workspaces[from].tabs
    BY <1>2, <1>5 DEF Moving, PanesOf
  <2>2. workspaces[from].remote = workspaces[to].remote
    BY <1>2, <2>1 DEF Fits, StaysOnMachine, same_machine
  <2>3. Types
    BY DEF PanesInv
  <2>4. \A v \in Ids : v # from => p \notin workspaces[v].tabs
    BY <2>1 DEF PanesInv, TabsAreApart
  <2>5. PICK ws : ws = [workspaces EXCEPT ![from].tabs = @ \ {p}, ![to].tabs = @ \cup {p}]
    OBVIOUS
  <2>6. /\ ws \in [Ids -> WorkspaceRecord]
        /\ \A v \in Ids : ws[v].remote = workspaces[v].remote
        /\ \A v \in Ids : \A x : x \in ws[v].tabs <=>
             IF x = p THEN v = to ELSE x \in workspaces[v].tabs
    <3>1. workspaces \in [Ids -> WorkspaceRecord]
      BY <2>3 DEF Types
    <3>2. PICK half : half = [workspaces EXCEPT ![from].tabs = @ \ {p}]
      OBVIOUS
    <3>3. /\ half \in [Ids -> WorkspaceRecord]
          /\ \A v \in Ids : half[v].remote = workspaces[v].remote
          /\ \A v \in Ids : v # from => half[v].tabs = workspaces[v].tabs
          /\ half[from].tabs = workspaces[from].tabs \ {p}
      BY <3>1, <3>2 DEF WorkspaceRecord
    <3>4. ws = [half EXCEPT ![to].tabs = @ \cup {p}]
      BY <2>5, <3>2
    <3>5. /\ ws \in [Ids -> WorkspaceRecord]
          /\ \A v \in Ids : ws[v].remote = half[v].remote
          /\ \A v \in Ids : v # to => ws[v].tabs = half[v].tabs
          /\ ws[to].tabs = half[to].tabs \cup {p}
      BY <3>3, <3>4 DEF WorkspaceRecord
    <3>6. ASSUME NEW v \in Ids, NEW x
          PROVE  x \in ws[v].tabs <=> IF x = p THEN v = to ELSE x \in workspaces[v].tabs
      BY <2>4, <3>3, <3>5
    <3> QED BY <3>3, <3>5, <3>6
  <2>7. workspaces' = Refreshed(ws, panes)
    BY <1>5, <2>1, <2>5
  <2>8. /\ Ids' = Ids /\ workspaces' \in [Ids' -> WorkspaceRecord]
        /\ \A v \in Ids : workspaces'[v].remote = workspaces[v].remote
        /\ \A v \in Ids : \A x : x \in workspaces'[v].tabs <=>
             IF x = p THEN v = to ELSE x \in workspaces[v].tabs
    BY <2>6, <2>7, RefreshedIs DEF Ids
  <2>9. Shown' = Shown
    <3>1. \A x : x \in Shown' <=> x \in Shown
      BY <2>1, <2>8 DEF Shown, ShownIn
    <3> QED BY <3>1
  <2>10. Registered' = Registered /\ panes' \in [Registered' -> {"live", "ended"}]
    BY <1>3, <2>3 DEF Registered, Types
  <2>11. /\ escaped \subseteq escaped'
         /\ BeingDeleted(from) \/ BeingDeleted(to) => p \in escaped'
    BY <1>5, <2>1
  <2>12. ASSUME NEW o, Bystander(o, r) PROVE LeavesAlone(o)
    <3>1. ASSUME o.at = "deleting", NEW v \in Ids', NEW x \in workspaces'[v].tabs
          PROVE  \/ v \in Ids /\ x \in workspaces[v].tabs
                 \/ x \in escaped'
                 \/ v \notin o.removed /\ x \notin o.panes
      <4>1. CASE x # p
        BY <2>8, <3>1, <4>1
      <4>2. CASE x = p /\ (from \in o.removed \/ to \in o.removed)
        BY <2>11, <2>12, <3>1, <4>2 DEF Bystander
      <4>3. CASE x = p /\ from \notin o.removed /\ to \notin o.removed
        <5>1. v = to
          BY <2>8, <4>3
        <5>2. x \in o.panes => x \in escaped
          BY <2>1, <2>12, <3>1, <4>3 DEF Bystander, Fits, Removes
        <5> QED BY <2>11, <4>3, <5>1, <5>2
      <4> QED BY <4>1, <4>2, <4>3
    <3>2. NewNames(o) \cap Ids' = {} /\ NewPanes(o) \cap (Registered' \cup Shown') = {}
      BY <2>8, <2>9, <2>10, <2>12 DEF Bystander, Fits, NewAreNew
    <3> QED BY <2>8, <2>9, <2>11, <3>1, <3>2 DEF LeavesAlone
  <2>13. RequestsFit' /\ request' \in [Requests -> Request]
    BY <1>1, <1>3, <2>12, EndsAmongBystanders
  <2>14. Types'
    BY <2>3, <2>8, <2>10, <2>13 DEF Types
  <2>15. TabsAreApart'
    <3> SUFFICES ASSUME NEW v \in Ids, NEW w \in Ids, v # w, NEW x \in workspaces'[v].tabs,
                        x \in workspaces'[w].tabs
                 PROVE  FALSE
      BY <2>8 DEF TabsAreApart
    <3> QED BY <2>8 DEF PanesInv, TabsAreApart
  <2>16. PanesAreShown'
    <3>1. ASSUME NEW v \in Ids', ~workspaces'[v].remote, NEW x \in workspaces'[v].tabs
          PROVE  x \in Registered' \cup escaped'
      <4>1. \E w \in Ids : ~workspaces[w].remote /\ x \in workspaces[w].tabs
        BY <2>1, <2>2, <2>8, <3>1
      <4> QED BY <2>10, <2>11, <4>1 DEF PanesInv, PanesAreShown, ShownIn
    <3>2. Registered' \subseteq Shown' \cup escaped'
      BY <2>9, <2>10, <2>11 DEF PanesInv, PanesAreShown
    <3> QED BY <3>1, <3>2 DEF PanesAreShown, ShownIn
  <2> QED BY <2>13, <2>14, <2>15, <2>16 DEF PanesInv
<1> QED BY <1>1, <1>4, <1>5 DEF MovesTab

LEMMA apply_workspace_reconnectionKeeps ==
  ASSUME PanesInv, NEW q \in Requests, apply_workspace_reconnection(q)
  PROVE  PanesInv'
<1>1. PICK r : r = request[q]
  OBVIOUS
<1>2. r \in Respawned /\ r.at = "respawned" /\ Fits(r)
  <2>1. r \in Request /\ r.at = "respawned" /\ Fits(r)
    BY <1>1 DEF PanesInv, Types, RequestsFit, apply_workspace_reconnection
  <2> QED BY <2>1, RequestKinds DEF Kinds
<1>3. CASE Continues(q, Idle) /\ UNCHANGED <<workspaces, panes, escaped>>
  BY <1>3, OnlyEnds DEF Continues
<1>4. CASE /\ r.workspace \in Ids
           /\ workspaces' = [workspaces EXCEPT ![r.workspace].online = TRUE,
                                               ![r.workspace].tabs = @ \cup r.new]
           /\ panes' = [p \in Registered \cup r.panes |->
                          IF p \in r.panes THEN "live" ELSE panes[p]]
           /\ Continues(q, [at |-> IF r.top THEN "listing" ELSE "next",
                            workspace |-> r.workspace, todo |-> r.todo])
           /\ escaped' = IF BeingDeleted(r.workspace) THEN escaped \cup r.panes ELSE escaped
  <2>1. PICK w \in Ids : w = r.workspace
    BY <1>4
  <2>2. PICK n : n = [at |-> IF r.top THEN "listing" ELSE "next", workspace |-> w,
                      todo |-> r.todo]
    OBVIOUS
  <2>3. Types /\ w \in Names
    BY DEF PanesInv, Types
  <2>4. /\ n \in Listing /\ n.at \in {"listing", "next"} /\ n.workspace = w /\ n.todo = r.todo
    BY <1>2, <2>2, <2>3 DEF Respawned, Listing
  <2>5. n \in Request
    BY <2>4 DEF Request
  <2>6. /\ PanesOf(n) = {} /\ NewPanes(n) = {} /\ NewNames(n) = {}
        /\ NamesOf(n) \subseteq {w} \cup (r.todo \cap Names)
    BY <2>4 DEF PanesOf, NewPanes, NewNames, NamesOf
  <2>7. r.todo \cap Names \subseteq NamesOf(request[q])
    BY <1>1, <1>2 DEF NamesOf
  <2>8. Fits(n)'
    BY <2>4, <2>6 DEF Fits, NewAreNew, Respawns, StaysOnMachine, Removes
  <2>9. PICK new \in SUBSET PaneIds, P \in SUBSET PaneIds :
          new = r.new /\ P = r.panes /\ new = NewPanes(r) /\ P = PanesOf(r)
    BY <1>2 DEF Respawned, NewPanes, PanesOf
  <2>10. /\ new \subseteq P /\ P \subseteq Shown \cup escaped \cup new
         /\ new \cap (Registered \cup Shown) = {}
    BY <1>2, <2>9 DEF Fits, Respawns, NewAreNew
  <2>11. /\ Ids' = Ids /\ workspaces' \in [Ids' -> WorkspaceRecord]
         /\ \A v \in Ids : workspaces'[v].remote = workspaces[v].remote
         /\ \A v \in Ids : v # w => workspaces'[v].tabs = workspaces[v].tabs
         /\ workspaces'[w].tabs = workspaces[w].tabs \cup new
    <3>1. PICK half : half = [workspaces EXCEPT ![w].online = TRUE]
      OBVIOUS
    <3>2. /\ half \in [Ids -> WorkspaceRecord]
          /\ \A v \in Ids : half[v].remote = workspaces[v].remote /\ half[v].tabs = workspaces[v].tabs
      BY <2>3, <3>1 DEF Types, WorkspaceRecord
    <3>3. workspaces' = [half EXCEPT ![w].tabs = @ \cup new]
      BY <1>4, <2>1, <2>9, <3>1
    <3>4. /\ workspaces' \in [Ids -> WorkspaceRecord]
          /\ \A v \in Ids : workspaces'[v].remote = half[v].remote
          /\ \A v \in Ids : v # w => workspaces'[v].tabs = half[v].tabs
          /\ workspaces'[w].tabs = half[w].tabs \cup new
      BY <2>9, <3>2, <3>3 DEF WorkspaceRecord
    <3> QED BY <3>2, <3>4 DEF Ids
  <2>12. Shown' = Shown \cup new
    <3>1. \A x : x \in Shown' <=> x \in Shown \/ x \in new
      BY <2>11 DEF Shown, ShownIn
    <3> QED BY <3>1
  <2>13. /\ Registered' = Registered \cup P /\ Registered' \subseteq PaneIds
         /\ panes' \in [Registered' -> {"live", "ended"}]
    BY <1>4, <2>3, <2>9 DEF Registered, Types
  <2>14. escaped \subseteq escaped' /\ (BeingDeleted(w) => P \subseteq escaped')
    BY <1>4, <2>1, <2>9
  <2>15. ASSUME NEW q2 \in Requests \ {q} PROVE LeavesAlone(request[q2])
    <3>1. PICK o : o = request[q2]
      OBVIOUS
    <3>2. Bystander(o, r)
      BY <1>1, <3>1, Bystanders
    <3>3. new \cap PanesOf(o) = {} /\ P \cap NewPanes(o) = {} /\ new \cap NewPanes(o) = {}
      BY <2>9, <2>10, <3>2 DEF Bystander, NewAreApart
    <3>4. ASSUME o.at = "deleting", NEW v \in Ids', NEW x \in workspaces'[v].tabs
          PROVE  \/ v \in Ids /\ x \in workspaces[v].tabs
                 \/ x \in escaped'
                 \/ v \notin o.removed /\ x \notin o.panes
      BY <2>10, <2>11, <2>14, <3>2, <3>3, <3>4 DEF Bystander
    <3>5. NewNames(o) \cap Ids' = {} /\ NewPanes(o) \cap (Registered' \cup Shown') = {}
      BY <2>11, <2>12, <2>13, <3>2, <3>3 DEF Bystander, Fits, NewAreNew
    <3> QED BY <2>11, <2>12, <2>14, <3>1, <3>4, <3>5 DEF LeavesAlone
  <2>16. RequestsFit' /\ request' \in [Requests -> Request]
    <3>1. request' = [request EXCEPT ![q] = n]
      BY <1>4, <2>1, <2>2 DEF Continues
    <3> QED BY <2>5, <2>6, <2>7, <2>8, <2>15, <3>1, MovesOnAmongBystanders
  <2>17. Types'
    BY <2>3, <2>11, <2>13, <2>16 DEF Types
  <2>18. TabsAreApart'
    <3>1. \A v \in Ids : new \cap workspaces[v].tabs = {}
      BY <2>10 DEF Shown, ShownIn
    <3> QED BY <2>11, <3>1 DEF PanesInv, TabsAreApart
  <2>19. PanesAreShown'
    <3>1. ASSUME NEW v \in Ids', ~workspaces'[v].remote, NEW x \in workspaces'[v].tabs
          PROVE  x \in Registered' \cup escaped'
      BY <2>10, <2>11, <2>13, <2>14, <3>1 DEF PanesInv, PanesAreShown, ShownIn
    <3>2. Registered' \subseteq Shown' \cup escaped'
      BY <2>10, <2>12, <2>13, <2>14 DEF PanesInv, PanesAreShown
    <3> QED BY <3>1, <3>2 DEF PanesAreShown, ShownIn
  <2> QED BY <2>16, <2>17, <2>18, <2>19 DEF PanesInv
<1>5. IF r.workspace \in Ids
      THEN /\ workspaces' = [workspaces EXCEPT ![r.workspace].online = TRUE,
                                               ![r.workspace].tabs = @ \cup r.new]
           /\ panes' = [p \in Registered \cup r.panes |->
                          IF p \in r.panes THEN "live" ELSE panes[p]]
           /\ Continues(q, [at |-> IF r.top THEN "listing" ELSE "next",
                            workspace |-> r.workspace, todo |-> r.todo])
           /\ escaped' = IF BeingDeleted(r.workspace) THEN escaped \cup r.panes ELSE escaped
      ELSE Continues(q, Idle) /\ UNCHANGED <<workspaces, panes, escaped>>
  BY <1>1 DEF apply_workspace_reconnection
<1> QED BY <1>3, <1>4, <1>5

LEMMA DeletesKeeps ==
  ASSUME PanesInv, NEW q \in Requests, Deletes(q)
  PROVE  PanesInv'
<1>1. PICK r : r = request[q]
  OBVIOUS
<1>2. r \in Deleting /\ r.at = "deleting" /\ Fits(r)
  <2>1. r \in Request /\ r.at = "deleting" /\ Fits(r)
    BY <1>1 DEF PanesInv, Types, RequestsFit, Deletes
  <2> QED BY <2>1, RequestKinds DEF Kinds
<1>3. request' = [request EXCEPT ![q] = Idle]
  BY DEF Deletes, Continues
<1>4. CASE UNCHANGED <<workspaces, panes, escaped>>
  BY <1>3, <1>4, OnlyEnds
<1>5. CASE /\ workspaces' = Without(workspaces, r.removed)
           /\ panes' = Without(panes, r.panes)
           /\ escaped' = escaped \cup (r.panes \cap Respawning)
  <2>1. Types
    BY DEF PanesInv
  <2>2. PICK R, P : R = r.removed /\ P = r.panes
    OBVIOUS
  <2>3. \A w \in Ids : IF w \in R THEN workspaces[w].tabs \subseteq P \cup escaped
                       ELSE workspaces[w].tabs \cap P \subseteq escaped
    BY <1>2, <2>2 DEF Fits, Removes
  <2>4. /\ Ids' = Ids \ R /\ workspaces' \in [Ids' -> WorkspaceRecord]
        /\ \A v \in Ids' : workspaces'[v] = workspaces[v]
    BY <1>5, <2>1, <2>2 DEF Without, Ids, Types
  <2>5. Registered' = Registered \ P /\ panes' \in [Registered' -> {"live", "ended"}]
    BY <1>5, <2>1, <2>2 DEF Without, Registered, Types
  <2>6. escaped' = escaped \cup (P \cap Respawning)
    BY <1>5, <2>2
  <2>7. Shown' \subseteq Shown /\ Shown \subseteq Shown' \cup P \cup escaped
    <3>1. \A x \in Shown' : x \in Shown
      BY <2>4 DEF Shown, ShownIn
    <3>2. \A x \in Shown : x \in Shown' \cup P \cup escaped
      BY <2>3, <2>4 DEF Shown, ShownIn
    <3> QED BY <3>1, <3>2
  <2>8. ASSUME NEW o, Bystander(o, r) PROVE LeavesAlone(o)
    <3>1. o.at = "respawned" => o.panes \cap Shown \subseteq Shown' \cup escaped'
      BY <2>6, <2>7, <2>8 DEF Bystander
    <3>2. NewNames(o) \cap Ids' = {} /\ NewPanes(o) \cap (Registered' \cup Shown') = {}
      BY <2>4, <2>5, <2>7, <2>8 DEF Bystander, Fits, NewAreNew
    <3> QED BY <2>4, <2>6, <3>1, <3>2 DEF LeavesAlone
  <2>9. RequestsFit' /\ request' \in [Requests -> Request]
    BY <1>1, <1>3, <2>8, EndsAmongBystanders
  <2>10. Types'
    BY <2>1, <2>4, <2>5, <2>9 DEF Types
  <2>11. TabsAreApart'
    BY <2>4 DEF PanesInv, TabsAreApart
  <2>12. PanesAreShown'
    <3>1. ASSUME NEW v \in Ids', ~workspaces'[v].remote, NEW x \in workspaces'[v].tabs
          PROVE  x \in Registered' \cup escaped'
      <4>1. x \in workspaces[v].tabs /\ x \in Registered \cup escaped /\ v \notin R /\ v \in Ids
        BY <2>4, <3>1 DEF PanesInv, PanesAreShown, ShownIn
      <4> QED BY <2>3, <2>5, <2>6, <4>1
    <3>2. Registered' \subseteq Shown' \cup escaped'
      BY <2>5, <2>6, <2>7 DEF PanesInv, PanesAreShown
    <3> QED BY <3>1, <3>2 DEF PanesAreShown, ShownIn
  <2> QED BY <2>9, <2>10, <2>11, <2>12 DEF PanesInv
<1> QED BY <1>1, <1>4, <1>5 DEF Deletes

LEMMA PanesInit == Init => PanesInv
<1> SUFFICES ASSUME Init PROVE PanesInv
  OBVIOUS
<1>1. Ids = {Home} /\ Registered = {} /\ workspaces[Home].tabs = {}
  BY DEF Init, Ids, Registered, Workspace
<1>2. workspaces \in [Ids -> WorkspaceRecord]
  BY DEF Init, Ids, Workspace, WorkspaceRecord
<1>3. panes \in [Registered -> {"live", "ended"}]
  BY DEF Init, Registered
<1>4. \A q \in Requests : request[q] = Idle
  BY DEF Init
<1>5. request \in [Requests -> Request]
  BY IdleFits DEF Init
<1>6. Types
  BY <1>1, <1>2, <1>3, <1>5 DEF Types, Names
<1>7. RequestsFit
  BY <1>4, IdleFits, IdleKnowsNothing DEF RequestsFit, NewAreApart
<1>8. TabsAreApart /\ PanesAreShown
  BY <1>1 DEF TabsAreApart, PanesAreShown, Shown, ShownIn
<1> QED BY <1>6, <1>7, <1>8 DEF PanesInv

LEMMA PanesStep == PanesInv /\ [Next]_vars => PanesInv'
<1> SUFFICES ASSUME PanesInv, [Next]_vars PROVE PanesInv'
  OBVIOUS
<1>1. CASE UNCHANGED vars
  <2>1. /\ Registered' = Registered /\ panes' \in [Registered' -> {"live", "ended"}]
        /\ Ids' = Ids /\ workspaces' \in [Ids' -> WorkspaceRecord] /\ workspaces' = workspaces
        /\ UNCHANGED <<escaped, request>>
    BY <1>1 DEF vars, Registered, Ids, PanesInv, Types
  <2>2. /\ TabsAreApart' /\ PanesAreShown'
        /\ \A o \in Requests : LeavesAlone(request[o])
        /\ request' \in [Requests -> Request] => Types'
    BY <2>1, TabsStay
  <2>3. RequestsFit' /\ request' \in [Requests -> Request]
    BY <2>1, <2>2, NobodyMoves
  <2> QED BY <2>2, <2>3 DEF PanesInv
<1>2. ASSUME NEW q \in Requests, \E parent \in Ids \cup {None} : create_workspace(q, parent)
      PROVE  PanesInv'
  BY <1>2, create_workspaceKeeps
<1>3. ASSUME NEW q \in Requests, NEW w \in Ids,
             \/ create_workspace_tab(q, w) \/ delete_workspace(q, w)
             \/ disconnect_workspace(q, w) \/ reconnect_workspace(q, w)
      PROVE  PanesInv'
  BY <1>3, create_workspace_tabKeeps, delete_workspaceKeeps, disconnect_workspaceKeeps,
     reconnect_workspaceKeeps
<1>4. ASSUME NEW q \in Requests, NEW w \in Ids, NEW p \in workspaces[w].tabs, NEW to \in Ids,
             move_tab_to_workstation(q, w, p, to)
      PROVE  PanesInv'
  BY <1>4, move_tab_to_workstationKeeps
<1>5. ASSUME NEW q \in Requests,
             \/ CreatesWorkspace(q) \/ persist_ssh_workspace_intent(q)
             \/ attach_ssh_workspace(q) \/ OpensTab(q) \/ MovesTab(q) \/ RequestFails(q)
      PROVE  PanesInv'
  BY <1>5, CreatesWorkspaceKeeps, persist_ssh_workspace_intentKeeps, attach_ssh_workspaceKeeps,
     OpensTabKeeps, MovesTabKeeps, RequestFailsKeeps
<1>6. ASSUME NEW q \in Requests,
             \/ Disconnects(q) \/ apply_workspace_reconnection(q) \/ ListsNested(q)
             \/ ReconnectsNext(q) \/ Deletes(q)
      PROVE  PanesInv'
  BY <1>6, DisconnectsKeeps, apply_workspace_reconnectionKeeps, ListsNestedKeeps,
     ReconnectsNextKeeps, DeletesKeeps
<1>7. ASSUME NEW w \in Ids, NEW p \in PaneIds, close_tab(w, p) PROVE PanesInv'
  BY <1>7, close_tabKeeps
<1>8. ASSUME NEW w \in Ids, refresh_runtime_metadata(workspaces[w].tabs) PROVE PanesInv'
  BY <1>8, refresh_runtime_metadataKeeps
<1> QED BY <1>1, <1>2, <1>3, <1>4, <1>5, <1>6, <1>7, <1>8 DEF Next

\* registry/workspaces.rs: a registered pane is shown, and a pane of a local
\* workstation is registered, however requests overlap, except for panes that
\* a deletion or reconnection overlooked.
THEOREM PanesAreShownHolds == Spec => []PanesAreShown
<1>1. PanesInv => PanesAreShown
  BY DEF PanesInv
<1> QED BY <1>1, PanesInit, PanesStep, PTL DEF Spec

-----------------------------------------------------------------------------
(* The ancestors of a workstation are the least set that holds it and the     *)
(* parents of its members.                                                    *)

\* The sets that the recursive function of `Ancestors` climbs through.
Climbing(ws, w, up) ==
  up = [n \in 0 .. Cardinality(DOMAIN ws) |->
          IF n = 0 THEN {w}
          ELSE up[n - 1] \cup {ws[v].parent : v \in up[n - 1] \cap DOMAIN ws}]

LEMMA ClimbingExists ==
  ASSUME NEW ws, NEW w, Cardinality(DOMAIN ws) \in Nat
  PROVE  \E up : Climbing(ws, w, up)
<1> DEFINE Rise(U) == U \cup {ws[v].parent : v \in U \cap DOMAIN ws}
           Upto(m, g) == g = [n \in 0 .. m |-> IF n = 0 THEN {w} ELSE Rise(g[n - 1])]
           Good == {m \in Nat : \E g : Upto(m, g)}
<1>1. 0 \in Good
  <2>1. Upto(0, [n \in 0 .. 0 |-> {w}])
    OBVIOUS
  <2> QED BY <2>1
<1>2. ASSUME NEW m \in Nat, m \in Good PROVE m + 1 \in Good
  <2> HIDE DEF Rise
  <2>1. PICK g : Upto(m, g)
    BY <1>2
  <2>2. PICK h : h = [n \in 0 .. m + 1 |-> IF n = m + 1 THEN Rise(g[m]) ELSE g[n]]
    OBVIOUS
  <2>3. h[m + 1] = Rise(g[m]) /\ \A n \in 0 .. m : h[n] = g[n]
    BY <2>2
  <2>4. \A n \in 0 .. m : g[n] = IF n = 0 THEN {w} ELSE Rise(g[n - 1])
    BY <2>1
  <2>5. ASSUME NEW n \in 0 .. m + 1
        PROVE  h[n] = IF n = 0 THEN {w} ELSE Rise(h[n - 1])
    <3>1. CASE n = m + 1
      <4>1. n # 0 /\ n - 1 = m /\ h[m] = g[m]
        BY <3>1, <2>3
      <4> QED BY <4>1, <3>1, <2>3
    <3>2. CASE n = 0
      BY <3>2, <2>3, <2>4
    <3>3. CASE n \in 1 .. m
      <4>1. n - 1 \in 0 .. m /\ n \in 0 .. m /\ n # 0
        BY <3>3
      <4> QED BY <4>1, <2>3, <2>4
    <3> QED BY <3>1, <3>2, <3>3
  <2>6. h = [n \in 0 .. m + 1 |-> IF n = 0 THEN {w} ELSE Rise(h[n - 1])]
    <3>1. h = [n \in 0 .. m + 1 |-> h[n]]
      BY <2>2
    <3> QED BY <3>1, <2>5
  <2> QED BY <2>6
<1>3. Nat \subseteq Good
  <2> HIDE DEF Good
  <2> QED BY <1>1, <1>2, SetInduction
<1>4. PICK g : Upto(Cardinality(DOMAIN ws), g)
  BY <1>3
<1> QED BY <1>4 DEF Climbing

LEMMA AncestorsClimb ==
  ASSUME NEW ws, NEW w, Cardinality(DOMAIN ws) \in Nat
  PROVE  \E up : /\ Climbing(ws, w, up)
                 /\ AncestorsIn(ws, w) = up[Cardinality(DOMAIN ws)] \ {None}
<1> DEFINE chosen == CHOOSE up : Climbing(ws, w, up)
<1>1. Climbing(ws, w, chosen)
  BY ClimbingExists
<1>2. AncestorsIn(ws, w) = chosen[Cardinality(DOMAIN ws)] \ {None}
  BY DEF AncestorsIn, Climbing
<1> HIDE DEF chosen
<1> QED BY <1>1, <1>2

\* A set of workstations that holds the parents of its members.
ClosedUp(ws, C) ==
  C \subseteq DOMAIN ws /\ \A v \in C : ws[v].parent \in C \cup {None}

LEMMA AncestorsAreClosed ==
  ASSUME NEW ws, Parented(ws), NEW w \in DOMAIN ws
  PROVE  w \in AncestorsIn(ws, w) /\ ClosedUp(ws, AncestorsIn(ws, w))
<1>1. PICK N : N = Cardinality(DOMAIN ws)
  OBVIOUS
<1>2. N \in Nat
  BY <1>1, FS_CardinalityType DEF Parented
<1>3. PICK up : /\ Climbing(ws, w, up)
                /\ AncestorsIn(ws, w) = up[N] \ {None}
  BY <1>1, <1>2, AncestorsClimb
<1>4. up[0] = {w}
  BY <1>1, <1>2, <1>3 DEF Climbing
<1>5. ASSUME NEW n \in Nat, n < N
      PROVE  up[n + 1] = up[n] \cup {ws[v].parent : v \in up[n] \cap DOMAIN ws}
  <2>1. n + 1 \in 0 .. N /\ n + 1 # 0 /\ (n + 1) - 1 = n
    BY <1>2, <1>5
  <2> QED BY <2>1, <1>1, <1>3 DEF Climbing
<1> DEFINE Below(n) == w \in up[n] /\ up[n] \subseteq DOMAIN ws \cup {None}
           Ready(n) == \A v \in up[n] \cap DOMAIN ws : ws[v].parent \in up[n] \cup {None}
           Many(n) == n < Cardinality(up[n] \cap DOMAIN ws)
           Good == {n \in Nat : n <= N => Below(n) /\ (Ready(n) \/ Many(n))}
<1>6. 0 \in Good
  <2>1. up[0] \cap DOMAIN ws = {w} /\ Below(0)
    BY <1>4
  <2>2. 0 < Cardinality(up[0] \cap DOMAIN ws)
    BY <2>1, FS_Singleton
  <2> QED BY <2>1, <2>2
<1>7. ASSUME NEW n \in Nat, n \in Good PROVE n + 1 \in Good
  <2> SUFFICES ASSUME n + 1 <= N PROVE Below(n + 1) /\ (Ready(n + 1) \/ Many(n + 1))
    OBVIOUS
  <2>1. n < N /\ n <= N
    BY <1>2
  <2>2. Below(n) /\ (Ready(n) \/ Many(n))
    BY <1>7, <2>1
  <2> DEFINE parents == {ws[v].parent : v \in up[n] \cap DOMAIN ws}
  <2>3. up[n + 1] = up[n] \cup parents
    BY <1>5, <2>1
  <2>4. parents \subseteq DOMAIN ws \cup {None}
    BY DEF Parented
  <2>5. Below(n + 1)
    BY <2>2, <2>3, <2>4
  <2>6. CASE Ready(n)
    <3>1. up[n + 1] \cup {None} = up[n] \cup {None}
      BY <2>3, <2>6
    <3>2. up[n + 1] \cap DOMAIN ws = up[n] \cap DOMAIN ws
      BY <3>1 DEF Parented
    <3>3. Ready(n + 1)
      BY <2>6, <3>1, <3>2
    <3> QED BY <2>5, <3>3
  <2>7. CASE ~Ready(n)
    <3>1. PICK v \in up[n] \cap DOMAIN ws : ws[v].parent \notin up[n] \cup {None}
      BY <2>7
    <3>2. PICK p : p = ws[v].parent
      OBVIOUS
    <3>3. p \in parents /\ p \in DOMAIN ws /\ p \notin up[n]
      BY <2>4, <3>1, <3>2
    <3>4. PICK U : U = up[n] \cap DOMAIN ws
      OBVIOUS
    <3>5. PICK V : V = up[n + 1] \cap DOMAIN ws
      OBVIOUS
    <3>6. U \subseteq DOMAIN ws /\ V \subseteq DOMAIN ws /\ U \cup {p} \subseteq V /\ p \notin U
      BY <2>3, <3>3, <3>4, <3>5
    <3>7. n < Cardinality(U)
      BY <2>2, <2>7, <3>4
    <3>8. IsFiniteSet(U) /\ IsFiniteSet(V)
      BY <3>6, FS_Subset DEF Parented
    <3>9. IsFiniteSet(U \cup {p}) /\ Cardinality(U \cup {p}) = Cardinality(U) + 1
      BY <3>6, <3>8, FS_AddElement
    <3>10. Cardinality(U \cup {p}) <= Cardinality(V)
      BY <3>6, <3>8, FS_Subset
    <3>11. Cardinality(U) \in Nat /\ Cardinality(V) \in Nat
      BY <3>8, FS_CardinalityType
    <3>12. Many(n + 1)
      BY <3>5, <3>7, <3>9, <3>10, <3>11
    <3> QED BY <2>5, <3>12
  <2> QED BY <2>6, <2>7
<1>8. N \in Good
  <2> HIDE DEF Good
  <2>1. Nat \subseteq Good
    BY <1>6, <1>7, SetInduction
  <2> QED BY <1>2, <2>1
<1>9. Below(N) /\ (Ready(N) \/ Many(N))
  BY <1>8, <1>2
<1>10. ~Many(N)
  <2>1. PICK U : U = up[N] \cap DOMAIN ws
    OBVIOUS
  <2>2. Cardinality(U) <= N /\ IsFiniteSet(U)
    BY <1>1, <2>1, FS_Subset DEF Parented
  <2>3. Cardinality(U) \in Nat
    BY <2>2, FS_CardinalityType
  <2> QED BY <1>2, <2>1, <2>2, <2>3
<1>11. Below(N) /\ Ready(N)
  BY <1>9, <1>10
<1>12. PICK A : A = up[N] \ {None}
  OBVIOUS
<1>13. w \in A /\ A \subseteq DOMAIN ws /\ A \subseteq up[N] /\ up[N] \subseteq A \cup {None}
  BY <1>11, <1>12 DEF Parented
<1>14. \A v \in A : ws[v].parent \in A \cup {None}
  BY <1>11, <1>13
<1> QED BY <1>3, <1>12, <1>13, <1>14 DEF ClosedUp

LEMMA AncestorsAreLeast ==
  ASSUME NEW ws, Parented(ws), NEW w, NEW C, ClosedUp(ws, C), w \in C
  PROVE  AncestorsIn(ws, w) \subseteq C
<1>1. PICK N : N = Cardinality(DOMAIN ws)
  OBVIOUS
<1>2. N \in Nat
  BY <1>1, FS_CardinalityType DEF Parented
<1>3. PICK up : /\ Climbing(ws, w, up)
                /\ AncestorsIn(ws, w) = up[N] \ {None}
  BY <1>1, <1>2, AncestorsClimb
<1> DEFINE Good == {n \in Nat : n <= N => up[n] \subseteq C \cup {None}}
<1>4. 0 \in Good
  BY <1>1, <1>2, <1>3 DEF Climbing
<1>5. ASSUME NEW n \in Nat, n \in Good PROVE n + 1 \in Good
  <2> SUFFICES ASSUME n + 1 <= N PROVE up[n + 1] \subseteq C \cup {None}
    OBVIOUS
  <2>1. n + 1 \in 0 .. N /\ n + 1 # 0 /\ (n + 1) - 1 = n /\ n <= N
    BY <1>2
  <2>2. up[n + 1] = up[n] \cup {ws[v].parent : v \in up[n] \cap DOMAIN ws}
    BY <2>1, <1>1, <1>3 DEF Climbing
  <2>3. up[n] \subseteq C \cup {None}
    BY <1>5, <2>1
  <2>4. \A v \in up[n] \cap DOMAIN ws : v \in C
    BY <2>3 DEF Parented
  <2> QED BY <2>2, <2>3, <2>4 DEF ClosedUp
<1>6. N \in Good
  <2> HIDE DEF Good
  <2>1. Nat \subseteq Good
    BY <1>4, <1>5, SetInduction
  <2> QED BY <1>2, <2>1
<1> QED BY <1>2, <1>3, <1>6

LEMMA AncestorsAgree ==
  ASSUME NEW ws, Parented(ws), NEW vs, Parented(vs), NEW w \in DOMAIN ws,
         \A v \in AncestorsIn(ws, w) : v \in DOMAIN vs /\ vs[v].parent = ws[v].parent
  PROVE  AncestorsIn(vs, w) = AncestorsIn(ws, w)
<1>1. PICK A : A = AncestorsIn(ws, w)
  OBVIOUS
<1>2. w \in A /\ ClosedUp(ws, A)
  BY <1>1, AncestorsAreClosed
<1>3. ClosedUp(vs, A) /\ w \in DOMAIN vs
  BY <1>1, <1>2 DEF ClosedUp
<1>4. AncestorsIn(vs, w) \subseteq A
  BY <1>2, <1>3, AncestorsAreLeast
<1>5. w \in AncestorsIn(vs, w) /\ ClosedUp(vs, AncestorsIn(vs, w))
  BY <1>3, AncestorsAreClosed
<1>6. ClosedUp(ws, AncestorsIn(vs, w))
  BY <1>1, <1>2, <1>4, <1>5 DEF ClosedUp
<1>7. A \subseteq AncestorsIn(vs, w)
  BY <1>1, <1>5, <1>6, AncestorsAreLeast
<1> QED BY <1>1, <1>4, <1>7

Alike(ws, vs) ==
  \A v \in DOMAIN ws \cap DOMAIN vs :
    vs[v].parent = ws[v].parent /\ vs[v].remote = ws[v].remote

\* A new leaf of the tree.
LEMMA TreeGrows ==
  ASSUME NEW ws, IsTree(ws), NEW vs, Alike(ws, vs), NEW w, w \notin DOMAIN ws, w # None,
         DOMAIN vs = DOMAIN ws \cup {w}, Cardinality(DOMAIN ws) < MaxWorkspaces,
         \/ vs[w].parent = None
         \/ /\ vs[w].parent \in DOMAIN ws
            /\ Cardinality(AncestorsIn(ws, vs[w].parent)) < MaxDepth
            /\ vs[w].remote = ws[vs[w].parent].remote
  PROVE  IsTree(vs)
<1>1. Parented(ws)
  BY DEF IsTree
<1>2. IsFiniteSet(DOMAIN vs) /\ Cardinality(DOMAIN vs) = Cardinality(DOMAIN ws) + 1
  BY <1>1, FS_AddElement DEF Parented
<1>3. Parented(vs)
  BY <1>1, <1>2 DEF Parented, Alike
<1>4. MaxWorkspaces \in Nat /\ MaxDepth \in Nat /\ 1 <= MaxDepth
  BY LimitsAssumption
<1>5. Cardinality(DOMAIN vs) <= MaxWorkspaces
  <2>1. Cardinality(DOMAIN ws) \in Nat
    BY <1>1, FS_CardinalityType DEF Parented
  <2> QED BY <1>2, <1>4, <2>1
<1>6. ASSUME NEW v \in DOMAIN ws PROVE WellNested(vs, v)
  <2>1. ClosedUp(ws, AncestorsIn(ws, v))
    BY <1>1, AncestorsAreClosed
  <2>2. AncestorsIn(vs, v) = AncestorsIn(ws, v)
    BY <1>1, <1>3, <2>1, AncestorsAgree DEF ClosedUp, Alike
  <2>3. WellNested(ws, v) /\ ws[v].parent \in DOMAIN ws \cup {None}
    BY <1>1 DEF IsTree, Parented
  <2> QED BY <2>2, <2>3 DEF WellNested, Alike
<1>7. WellNested(vs, w)
  <2>1. PICK p : p = vs[w].parent
    OBVIOUS
  <2>2. CASE p = None
    <3>1. ClosedUp(vs, {w})
      BY <2>1, <2>2 DEF ClosedUp
    <3>2. AncestorsIn(vs, w) = {w}
      BY <1>3, <3>1, AncestorsAreLeast, AncestorsAreClosed
    <3>3. Cardinality(AncestorsIn(vs, w)) = 1
      BY <3>2, FS_Singleton
    <3> QED BY <1>4, <2>1, <2>2, <3>3 DEF WellNested
  <2>3. CASE p \in DOMAIN ws
    <3>1. PICK A : A = AncestorsIn(ws, p)
      OBVIOUS
    <3>2. p \in A /\ ClosedUp(ws, A)
      BY <1>1, <2>3, <3>1, AncestorsAreClosed
    <3>3. ClosedUp(vs, A \cup {w})
      BY <2>1, <3>2 DEF ClosedUp, Alike
    <3>4. AncestorsIn(vs, w) \subseteq A \cup {w}
      BY <1>3, <3>3, AncestorsAreLeast
    <3>5. IsFiniteSet(A)
      BY <1>1, <3>2, FS_Subset DEF ClosedUp, Parented
    <3>6. IsFiniteSet(A \cup {w}) /\ Cardinality(A \cup {w}) = Cardinality(A) + 1
      <4>1. w \notin A
        BY <3>2 DEF ClosedUp
      <4> QED BY <3>5, <4>1, FS_AddElement
    <3>7. PICK B : B = AncestorsIn(vs, w)
      OBVIOUS
    <3>8. Cardinality(B) <= Cardinality(A \cup {w}) /\ IsFiniteSet(B)
      BY <3>4, <3>6, <3>7, FS_Subset
    <3>9. Cardinality(A) \in Nat /\ Cardinality(B) \in Nat /\ Cardinality(A \cup {w}) \in Nat
      BY <3>5, <3>6, <3>8, FS_CardinalityType
    <3>10. Cardinality(A) < MaxDepth
      BY <1>1, <2>1, <2>3, <3>1 DEF Parented
    <3>11. Cardinality(B) <= MaxDepth
      BY <1>4, <3>6, <3>8, <3>9, <3>10
    <3>12. vs[w].remote = vs[p].remote
      BY <1>1, <2>1, <2>3 DEF Alike, Parented
    <3> QED BY <2>1, <3>7, <3>11, <3>12 DEF WellNested
  <2> QED BY <2>1, <2>2, <2>3
<1>8. Home \in DOMAIN vs /\ vs[Home].parent = None
  BY DEF IsTree, Alike
<1> QED BY <1>3, <1>5, <1>6, <1>7, <1>8 DEF IsTree

\* What is nested in nothing else that goes can go.
LEMMA TreeShrinks ==
  ASSUME NEW ws, IsTree(ws), NEW vs, Alike(ws, vs), NEW R,
         DOMAIN vs = DOMAIN ws \ R, Home \notin R,
         \A v \in DOMAIN ws : ws[v].parent \in R => v \in R
  PROVE  IsTree(vs)
<1>1. Parented(ws)
  BY DEF IsTree
<1>2. IsFiniteSet(DOMAIN vs) /\ Cardinality(DOMAIN vs) <= Cardinality(DOMAIN ws)
  BY <1>1, FS_Subset DEF Parented
<1>3. Parented(vs)
  BY <1>1, <1>2 DEF Parented, Alike
<1>4. Cardinality(DOMAIN vs) <= MaxWorkspaces
  <2>1. Cardinality(DOMAIN ws) \in Nat /\ Cardinality(DOMAIN vs) \in Nat
    BY <1>1, <1>2, FS_CardinalityType DEF Parented
  <2>2. MaxWorkspaces \in Nat /\ Cardinality(DOMAIN ws) <= MaxWorkspaces
    BY LimitsAssumption DEF IsTree
  <2> QED BY <1>2, <2>1, <2>2
<1>5. ASSUME NEW v \in DOMAIN vs PROVE WellNested(vs, v)
  <2>1. PICK A : A = AncestorsIn(ws, v)
    OBVIOUS
  <2>2. v \in A /\ ClosedUp(ws, A)
    BY <1>1, <2>1, AncestorsAreClosed
  <2>3. ClosedUp(ws, A \ R)
    BY <2>2 DEF ClosedUp
  <2>4. A \subseteq A \ R
    BY <1>1, <2>1, <2>2, <2>3, AncestorsAreLeast
  <2>5. AncestorsIn(vs, v) = AncestorsIn(ws, v)
    BY <1>1, <1>3, <2>1, <2>2, <2>4, AncestorsAgree DEF ClosedUp, Alike
  <2>6. WellNested(ws, v)
    BY DEF IsTree
  <2>7. vs[v].parent = ws[v].parent /\ vs[v].parent \in DOMAIN vs \cup {None}
    BY <1>3 DEF Alike, Parented
  <2> QED BY <2>5, <2>6, <2>7 DEF WellNested, Alike
<1>6. Home \in DOMAIN vs /\ vs[Home].parent = None
  BY DEF IsTree, Alike
<1> QED BY <1>3, <1>4, <1>5, <1>6 DEF IsTree

\* What is nested in one of what is nested in `w` is nested in `w`.
LEMMA SubtreeIsClosed ==
  ASSUME IsTree(workspaces), NEW w \in Ids, w # Home
  PROVE  /\ Subtree(w) \subseteq Ids /\ Home \notin Subtree(w)
         /\ \A v \in Ids : workspaces[v].parent \in Subtree(w) => v \in Subtree(w)
<1>1. Parented(workspaces) /\ Ids = DOMAIN workspaces
  BY DEF IsTree, Ids
<1>2. \A v : Ancestors(v) = AncestorsIn(workspaces, v)
  BY DEF Ancestors, AncestorsIn, Ids
<1>3. Home \notin Subtree(w)
  <2>1. ClosedUp(workspaces, {Home})
    BY <1>1 DEF IsTree, ClosedUp
  <2>2. AncestorsIn(workspaces, Home) \subseteq {Home}
    BY <1>1, <2>1, AncestorsAreLeast
  <2> QED BY <1>2, <2>2 DEF Subtree, workstation_descendants
<1>4. ASSUME NEW v \in Ids, workspaces[v].parent \in Subtree(w) PROVE v \in Subtree(w)
  <2>1. PICK p : p = workspaces[v].parent
    OBVIOUS
  <2>2. p \in Ids /\ p # None
    BY <1>1, <1>4, <2>1 DEF Subtree, workstation_descendants, Parented
  <2>3. w \in AncestorsIn(workspaces, p)
    BY <1>1, <1>2, <1>4, <2>1, <2>2, AncestorsAreClosed DEF Subtree, workstation_descendants
  <2>4. PICK A : A = AncestorsIn(workspaces, v)
    OBVIOUS
  <2>5. v \in A /\ ClosedUp(workspaces, A)
    BY <1>1, <2>4, AncestorsAreClosed
  <2>6. p \in A
    BY <2>1, <2>2, <2>5 DEF ClosedUp
  <2>7. AncestorsIn(workspaces, p) \subseteq A
    BY <1>1, <2>5, <2>6, AncestorsAreLeast
  <2> QED BY <1>2, <2>3, <2>4, <2>7 DEF Subtree, workstation_descendants
<1>5. Subtree(w) \subseteq Ids
  BY DEF Subtree, workstation_descendants
<1> QED BY <1>3, <1>4, <1>5

-----------------------------------------------------------------------------
(* The steps keep the tree. *)

\* What most requests go on with has nothing to do with the tree.
NoTreeRequest(n) == n.at \notin {"creating", "deleting"}

\* Nothing, or workstations with all that is nested in them, goes from the tree.
LEMMA TreeStays ==
  ASSUME Types, TreeInv, orphans' = orphans, Alike(workspaces, workspaces'), NEW R,
         Ids' = Ids \ R, Home \notin R,
         \A w \in Ids : workspaces[w].parent \in R => w \in R,
         NEW q \in Requests, NEW n, request' = [request EXCEPT ![q] = n],
         orphans = {} => RemovesSubtree(workspaces, n) /\ SuitsParent(workspaces, n)
  PROVE  TreeInv'
<1> SUFFICES ASSUME orphans = {}
             PROVE  /\ IsTree(workspaces')
                    /\ \A o \in Requests : /\ RemovesSubtree(workspaces', request'[o])
                                           /\ SuitsParent(workspaces', request'[o])
  BY DEF TreeInv
<1>1. PICK ws, vs : ws = workspaces /\ vs = workspaces'
  OBVIOUS
<1>2. /\ IsTree(ws) /\ Alike(ws, vs) /\ DOMAIN vs = DOMAIN ws \ R
      /\ \A w \in DOMAIN ws : ws[w].parent \in R => w \in R
  BY <1>1 DEF TreeInv, Ids
<1>3. IsTree(vs)
  BY <1>2, TreeShrinks
<1>4. ASSUME NEW r, RemovesSubtree(ws, r), SuitsParent(ws, r)
      PROVE  RemovesSubtree(vs, r) /\ SuitsParent(vs, r)
  BY <1>2, <1>4 DEF RemovesSubtree, SuitsParent, Alike
<1>5. ASSUME NEW o \in Requests
      PROVE  RemovesSubtree(ws, request'[o]) /\ SuitsParent(ws, request'[o])
  <2>1. request'[o] = IF o = q THEN n ELSE request[o]
    BY DEF Types
  <2> QED BY <1>1, <2>1 DEF TreeInv
<1> QED BY <1>1, <1>3, <1>4, <1>5

LEMMA WholeTreeStays ==
  ASSUME Types, TreeInv, orphans' = orphans, Ids' = Ids, Alike(workspaces, workspaces'),
         NEW q \in Requests, NEW n, request' = [request EXCEPT ![q] = n],
         orphans = {} => RemovesSubtree(workspaces, n) /\ SuitsParent(workspaces, n)
  PROVE  TreeInv'
<1>1. PICK R : R = {}
  OBVIOUS
<1>2. /\ Ids' = Ids \ R /\ Home \notin R
      /\ \A w \in Ids : workspaces[w].parent \in R => w \in R
  BY <1>1
<1> QED BY <1>2, TreeStays

LEMMA SameTree ==
  ASSUME Types, TreeInv, orphans' = orphans, Ids' = Ids, Alike(workspaces, workspaces'),
         NEW q \in Requests, NEW n, request' = [request EXCEPT ![q] = n], NoTreeRequest(n)
  PROVE  TreeInv'
<1>1. RemovesSubtree(workspaces, n) /\ SuitsParent(workspaces, n)
  BY DEF NoTreeRequest, RemovesSubtree, SuitsParent
<1> QED BY <1>1, WholeTreeStays

LEMMA IdleIsNoTreeRequest == NoTreeRequest(Idle)
BY DEF NoTreeRequest, Idle

LEMMA AlikeItself ==
  ASSUME UNCHANGED workspaces
  PROVE  Ids' = Ids /\ Alike(workspaces, workspaces')
BY DEF Ids, Alike

\* A step that leaves the workstations and only concerns the request itself.
LEMMA OnlyARequest ==
  ASSUME Types, TreeInv, NEW q \in Requests, UNCHANGED <<workspaces, orphans>>,
         NEW n, request' = [request EXCEPT ![q] = n], NoTreeRequest(n)
  PROVE  TreeInv'
BY AlikeItself, SameTree

LEMMA AlikeTwice ==
  ASSUME NEW ws, NEW us, NEW vs, Alike(ws, us), Alike(us, vs), DOMAIN us = DOMAIN ws
  PROVE  Alike(ws, vs)
BY DEF Alike

LEMMA RequestFailsTree ==
  ASSUME Types, TreeInv, NEW q \in Requests, RequestFails(q)
  PROVE  TreeInv'
BY OnlyARequest, IdleIsNoTreeRequest DEF RequestFails, Continues

LEMMA create_workspaceTree ==
  ASSUME Types, TreeInv, NEW q \in Requests, NEW parent \in Ids \cup {None},
         create_workspace(q, parent)
  PROVE  TreeInv'
<1>1. PICK w, p :
        /\ Starts(q, [at |-> "creating", workspace |-> w, parent |-> parent, pane |-> p,
                      remote |-> parent # None /\ workspaces[parent].remote])
        /\ UNCHANGED <<workspaces, panes, orphans, escaped>>
  BY DEF create_workspace
<1>2. PICK remote : remote = (parent # None /\ workspaces[parent].remote)
  OBVIOUS
<1>3. PICK n : n = [at |-> "creating", workspace |-> w, parent |-> parent, pane |-> p,
                    remote |-> remote]
  OBVIOUS
<1>4. request' = [request EXCEPT ![q] = n]
  BY <1>1, <1>2, <1>3 DEF Starts
<1>5. n.at = "creating" /\ n.parent = parent /\ n.remote = remote
  BY <1>3
<1>6. ASSUME parent \in Ids PROVE remote = workspaces[parent].remote
  <2>1. parent # None
    BY <1>6, NoneAssumption DEF Types, Names
  <2>2. workspaces[parent].remote \in BOOLEAN
    BY <1>6 DEF Types, WorkspaceRecord
  <2> QED BY <1>2, <2>1, <2>2
<1>7. RemovesSubtree(workspaces, n) /\ SuitsParent(workspaces, n)
  BY <1>5, <1>6 DEF RemovesSubtree, SuitsParent, Ids
<1>8. Alike(workspaces, workspaces') /\ Ids' = Ids /\ UNCHANGED orphans
  BY <1>1, AlikeItself
<1> QED BY <1>4, <1>7, <1>8, WholeTreeStays

LEMMA delete_workspaceTree ==
  ASSUME Types, TreeInv, NEW q \in Requests, NEW w \in Ids, delete_workspace(q, w)
  PROVE  TreeInv'
<1>1. PICK removed : removed = Subtree(w)
  OBVIOUS
<1>2. PICK n : n = [at |-> "deleting", workspace |-> w, removed |-> removed,
                    panes |-> PanesToRemove(removed, w)]
  OBVIOUS
<1>3. /\ w # Home /\ request' = [request EXCEPT ![q] = n]
      /\ UNCHANGED <<workspaces, panes, orphans, escaped>>
  BY <1>1, <1>2 DEF delete_workspace, Starts
<1>4. n.at = "deleting" /\ n.removed = removed
  BY <1>2
<1>5. ASSUME orphans = {} PROVE RemovesSubtree(workspaces, n) /\ SuitsParent(workspaces, n)
  <2>1. /\ Home \notin removed
        /\ \A v \in Ids : workspaces[v].parent \in removed => v \in removed
    BY <1>1, <1>3, <1>5, SubtreeIsClosed DEF TreeInv
  <2> QED BY <1>4, <2>1 DEF RemovesSubtree, SuitsParent, Ids
<1>6. Alike(workspaces, workspaces') /\ Ids' = Ids /\ UNCHANGED orphans
  BY <1>3, AlikeItself
<1> QED BY <1>3, <1>5, <1>6, WholeTreeStays

LEMMA PlansTree ==
  ASSUME Types, TreeInv, NEW q \in Requests, NEW w, NEW top, NEW todo, Plans(q, w, top, todo)
  PROVE  TreeInv'
<1>1. PICK new :
        LET r == [at |-> "respawned", workspace |-> w, panes |-> Dead(w) \cup new,
                  new |-> new, top |-> top, todo |-> todo]
        IN IF top THEN Starts(q, r) ELSE Continues(q, r)
  BY DEF Plans
<1>2. PICK n : n = [at |-> "respawned", workspace |-> w, panes |-> Dead(w) \cup new,
                    new |-> new, top |-> top, todo |-> todo]
  OBVIOUS
<1>3. request' = [request EXCEPT ![q] = n]
  BY <1>1, <1>2 DEF Starts, Continues
<1>4. NoTreeRequest(n)
  BY <1>2 DEF NoTreeRequest
<1>5. UNCHANGED <<workspaces, orphans>>
  BY DEF Plans
<1> QED BY <1>3, <1>4, <1>5, OnlyARequest

\* Requests that read the tree and do not change it.
LEMMA ReadersTree ==
  ASSUME Types, TreeInv, NEW q \in Requests,
         \/ \E w \in Ids : \/ create_workspace_tab(q, w) \/ disconnect_workspace(q, w)
                           \/ reconnect_workspace(q, w)
                           \/ \E p \in workspaces[w].tabs, to \in Ids :
                                move_tab_to_workstation(q, w, p, to)
         \/ ListsNested(q) \/ ReconnectsNext(q)
  PROVE  TreeInv'
<1>1. ASSUME NEW w \in Ids, create_workspace_tab(q, w) PROVE TreeInv'
  <2>1. PICK n : /\ n.at = "opening" /\ request' = [request EXCEPT ![q] = n]
                 /\ UNCHANGED <<workspaces, orphans>>
    BY <1>1 DEF create_workspace_tab, Starts
  <2> QED BY <2>1, OnlyARequest DEF NoTreeRequest
<1>2. ASSUME NEW w \in Ids, disconnect_workspace(q, w) PROVE TreeInv'
  <2>1. PICK n : /\ n.at = "disconnecting" /\ request' = [request EXCEPT ![q] = n]
                 /\ UNCHANGED <<workspaces, orphans>>
    BY <1>2 DEF disconnect_workspace, Starts
  <2> QED BY <2>1, OnlyARequest DEF NoTreeRequest
<1>3. ASSUME NEW w \in Ids, reconnect_workspace(q, w) PROVE TreeInv'
  BY <1>3, PlansTree DEF reconnect_workspace
<1>4. ASSUME NEW w \in Ids, NEW p \in workspaces[w].tabs, NEW to \in Ids,
             move_tab_to_workstation(q, w, p, to)
      PROVE  TreeInv'
  <2>1. PICK n : /\ n.at = "moving" /\ request' = [request EXCEPT ![q] = n]
                 /\ UNCHANGED <<workspaces, orphans>>
    BY <1>4 DEF move_tab_to_workstation, Starts
  <2> QED BY <2>1, OnlyARequest DEF NoTreeRequest
<1>5. ASSUME ListsNested(q) PROVE TreeInv'
  <2>1. PICK todo : /\ Continues(q, [at |-> "next", workspace |-> request[q].workspace,
                                     todo |-> todo])
                    /\ UNCHANGED <<workspaces, orphans>>
    BY <1>5 DEF ListsNested
  <2>2. PICK n : n.at = "next" /\ request' = [request EXCEPT ![q] = n]
    BY <2>1 DEF Continues
  <2> QED BY <2>1, <2>2, OnlyARequest DEF NoTreeRequest
<1>6. ASSUME ReconnectsNext(q) PROVE TreeInv'
  <2>1. \/ \E w \in request[q].todo : Plans(q, w, FALSE, request[q].todo \ {w})
        \/ Continues(q, Idle) /\ UNCHANGED <<workspaces, orphans>>
    BY <1>6 DEF ReconnectsNext
  <2>2. CASE Continues(q, Idle) /\ UNCHANGED <<workspaces, orphans>>
    BY <2>2, OnlyARequest, IdleIsNoTreeRequest DEF Continues
  <2> QED BY <2>1, <2>2, PlansTree
<1> QED BY <1>1, <1>2, <1>3, <1>4, <1>5, <1>6

\* A step outside all requests.
LEMMA TreeAlone ==
  ASSUME TreeInv, UNCHANGED <<request, orphans>>, Ids' = Ids, Alike(workspaces, workspaces')
  PROVE  TreeInv'
<1> SUFFICES ASSUME orphans = {}
             PROVE  /\ IsTree(workspaces')
                    /\ \A o \in Requests : /\ RemovesSubtree(workspaces', request[o])
                                           /\ SuitsParent(workspaces', request[o])
  BY DEF TreeInv
<1>1. PICK ws, vs, R : (ws = workspaces) /\ (vs = workspaces') /\ (R = {})
  OBVIOUS
<1>2. /\ IsTree(ws) /\ Alike(ws, vs) /\ DOMAIN vs = DOMAIN ws \ R /\ Home \notin R
      /\ \A w \in DOMAIN ws : ws[w].parent \in R => w \in R
  BY <1>1 DEF TreeInv, Ids
<1>3. IsTree(vs)
  BY <1>2, TreeShrinks
<1>4. ASSUME NEW o \in Requests
      PROVE  RemovesSubtree(vs, request[o]) /\ SuitsParent(vs, request[o])
  <2>1. RemovesSubtree(ws, request[o]) /\ SuitsParent(ws, request[o])
    BY <1>1 DEF TreeInv
  <2> QED BY <1>1, <1>2, <2>1 DEF RemovesSubtree, SuitsParent, Alike
<1> QED BY <1>1, <1>3, <1>4

LEMMA AlikeRefreshed ==
  ASSUME NEW ids, NEW ws \in [ids -> WorkspaceRecord], NEW ps
  PROVE  DOMAIN Refreshed(ws, ps) = ids /\ Alike(ws, Refreshed(ws, ps))
BY RefreshedIs DEF Alike

LEMMA attach_ssh_workspaceTree ==
  ASSUME Types, TreeInv, NEW q \in Requests, attach_ssh_workspace(q)
  PROVE  TreeInv'
<1>1. request' = [request EXCEPT ![q] = Idle] /\ UNCHANGED orphans
  BY DEF attach_ssh_workspace, Continues
<1>2. CASE UNCHANGED workspaces
  BY <1>1, <1>2, OnlyARequest, IdleIsNoTreeRequest
<1>3. CASE /\ request[q].workspace \in Ids
           /\ workspaces' = [workspaces EXCEPT ![request[q].workspace].online = TRUE]
  <2>1. workspaces \in [Ids -> WorkspaceRecord]
    BY DEF Types
  <2>2. PICK w \in Ids, on \in BOOLEAN : w = request[q].workspace /\ on = TRUE
    BY <1>3
  <2>3. workspaces' = [workspaces EXCEPT ![w].online = on]
    BY <1>3, <2>2
  <2>4. workspaces' \in [Ids -> WorkspaceRecord] /\ Alike(workspaces, workspaces')
    BY <2>1, <2>3 DEF WorkspaceRecord, Alike
  <2>5. Ids' = Ids
    BY <2>4 DEF Ids
  <2> QED BY <1>1, <2>4, <2>5, SameTree, IdleIsNoTreeRequest
<1> QED BY <1>2, <1>3 DEF attach_ssh_workspace

LEMMA OpensTabTree ==
  ASSUME Types, TreeInv, NEW q \in Requests, OpensTab(q)
  PROVE  TreeInv'
<1>1. request' = [request EXCEPT ![q] = Idle] /\ UNCHANGED orphans
  BY DEF OpensTab, Continues
<1>2. CASE UNCHANGED workspaces
  BY <1>1, <1>2, OnlyARequest, IdleIsNoTreeRequest
<1>3. PICK r : r = request[q]
  OBVIOUS
<1>4. CASE r.workspace \in Ids /\ workspaces' = [workspaces EXCEPT
             ![r.workspace].tabs = workspaces[r.workspace].tabs \cup {r.pane}]
  <2>1. r \in Request /\ r.at = "opening"
    BY <1>3 DEF Types, OpensTab
  <2>2. r \in Opening
    BY <2>1, RequestKinds DEF Kinds
  <2>3. PICK w, S : w \in Ids /\ w = r.workspace /\ S = workspaces[w].tabs \cup {r.pane}
    BY <1>4
  <2>4. workspaces \in [Ids -> WorkspaceRecord]
    BY DEF Types
  <2>5. S \in SUBSET PaneIds
    BY <2>2, <2>3, <2>4 DEF Opening, WorkspaceRecord
  <2>6. workspaces' = [workspaces EXCEPT ![w].tabs = S]
    BY <1>4, <2>3
  <2>7. workspaces' \in [Ids -> WorkspaceRecord] /\ Alike(workspaces, workspaces')
    BY <2>4, <2>5, <2>6 DEF WorkspaceRecord, Alike
  <2>8. Ids' = Ids
    BY <2>7 DEF Ids
  <2> QED BY <1>1, <2>7, <2>8, SameTree, IdleIsNoTreeRequest
<1> QED BY <1>2, <1>3, <1>4 DEF OpensTab

LEMMA close_tabTree ==
  ASSUME Types, TreeInv, NEW w \in Ids, NEW p \in PaneIds, close_tab(w, p)
  PROVE  TreeInv'
<1>1. workspaces \in [Ids -> WorkspaceRecord]
  BY DEF Types
<1>2. PICK S : S = workspaces[w].tabs \ {p}
  OBVIOUS
<1>3. S \in SUBSET PaneIds
  BY <1>1, <1>2 DEF WorkspaceRecord
<1>4. workspaces' = [workspaces EXCEPT ![w].tabs = S] /\ UNCHANGED <<request, orphans>>
  BY <1>2 DEF close_tab
<1>5. workspaces' \in [Ids -> WorkspaceRecord] /\ Alike(workspaces, workspaces')
  BY <1>1, <1>3, <1>4 DEF WorkspaceRecord, Alike
<1>6. Ids' = Ids
  BY <1>5 DEF Ids
<1> QED BY <1>4, <1>5, <1>6, TreeAlone

LEMMA refresh_runtime_metadataTree ==
  ASSUME Types, TreeInv, NEW lost, refresh_runtime_metadata(lost)
  PROVE  TreeInv'
<1>1. workspaces \in [Ids -> WorkspaceRecord]
  BY DEF Types
<1>2. PICK ps : ps = panes'
  OBVIOUS
<1>3. workspaces' = Refreshed(workspaces, ps) /\ UNCHANGED <<request, orphans>>
  BY <1>2 DEF refresh_runtime_metadata
<1>4. Ids' = Ids /\ Alike(workspaces, workspaces')
  BY <1>1, <1>3, AlikeRefreshed DEF Ids
<1> QED BY <1>3, <1>4, TreeAlone

LEMMA MovesTabTree ==
  ASSUME Types, TreeInv, NEW q \in Requests, MovesTab(q)
  PROVE  TreeInv'
<1>1. request' = [request EXCEPT ![q] = Idle] /\ UNCHANGED orphans
  BY DEF MovesTab, Continues
<1>2. CASE UNCHANGED workspaces
  BY <1>1, <1>2, OnlyARequest, IdleIsNoTreeRequest
<1>3. PICK r : r = request[q]
  OBVIOUS
<1>4. CASE /\ {r.from, r.to} \subseteq Ids
           /\ workspaces' = Refreshed(
                  [workspaces EXCEPT ![r.from].tabs = @ \ {r.pane},
                                     ![r.to].tabs = @ \cup {r.pane}], panes)
  <2>1. r \in Request /\ r.at = "moving"
    BY <1>3 DEF Types, MovesTab
  <2>2. r \in Moving
    BY <2>1, RequestKinds DEF Kinds
  <2>3. PICK from \in Ids, to \in Ids, p \in PaneIds : from = r.from /\ to = r.to /\ p = r.pane
    BY <1>4, <2>2 DEF Moving
  <2>4. workspaces \in [Ids -> WorkspaceRecord]
    BY DEF Types
  <2>5. PICK S \in SUBSET PaneIds : S = workspaces[from].tabs \ {p}
    BY <2>4 DEF WorkspaceRecord
  <2>6. PICK half : half = [workspaces EXCEPT ![from].tabs = S]
    OBVIOUS
  <2>7. half \in [Ids -> WorkspaceRecord] /\ Alike(workspaces, half)
    BY <2>4, <2>6 DEF WorkspaceRecord, Alike
  <2>8. PICK T \in SUBSET PaneIds : T = half[to].tabs \cup {p}
    BY <2>7 DEF WorkspaceRecord
  <2>9. PICK ws : ws = [half EXCEPT ![to].tabs = T]
    OBVIOUS
  <2>10. ws \in [Ids -> WorkspaceRecord] /\ Alike(half, ws)
    BY <2>7, <2>9 DEF WorkspaceRecord, Alike
  <2>11. ws = [workspaces EXCEPT ![from].tabs = @ \ {p}, ![to].tabs = @ \cup {p}]
    BY <2>5, <2>6, <2>8, <2>9
  <2>12. workspaces' = Refreshed(ws, panes)
    BY <1>4, <2>3, <2>11
  <2>13. DOMAIN workspaces' = Ids /\ Alike(ws, workspaces')
    BY <2>10, <2>12, AlikeRefreshed
  <2>14. DOMAIN half = Ids /\ DOMAIN ws = Ids /\ DOMAIN workspaces = Ids
    BY <2>7, <2>10 DEF Ids
  <2>15. Alike(workspaces, ws)
    BY <2>7, <2>10, <2>14, AlikeTwice
  <2>16. Alike(workspaces, workspaces')
    BY <2>13, <2>14, <2>15, AlikeTwice
  <2>17. Ids' = Ids
    BY <2>13 DEF Ids
  <2> QED BY <1>1, <2>16, <2>17, SameTree, IdleIsNoTreeRequest
<1> QED BY <1>2, <1>3, <1>4 DEF MovesTab

LEMMA DisconnectsTree ==
  ASSUME Types, TreeInv, NEW q \in Requests, Disconnects(q)
  PROVE  TreeInv'
<1>1. request' = [request EXCEPT ![q] = Idle] /\ UNCHANGED orphans
  BY DEF Disconnects, Continues
<1>2. CASE UNCHANGED workspaces
  BY <1>1, <1>2, OnlyARequest, IdleIsNoTreeRequest
<1>3. PICK now, targets : now = Refreshed(workspaces, panes) /\ targets = request[q].targets
  OBVIOUS
<1>4. CASE workspaces' = [w \in Ids |-> [now[w] EXCEPT !.online = @ /\ w \notin targets]]
  <2>1. workspaces \in [Ids -> WorkspaceRecord]
    BY DEF Types
  <2>2. /\ now \in [Ids -> WorkspaceRecord] /\ DOMAIN workspaces = Ids
        /\ \A v \in Ids : /\ now[v].parent = workspaces[v].parent
                          /\ now[v].remote = workspaces[v].remote
    BY <1>3, <2>1, RefreshedIs DEF Ids
  <2>3. DOMAIN workspaces' = Ids
    BY <1>4
  <2>4. ASSUME NEW v \in Ids
        PROVE  workspaces'[v].parent = now[v].parent /\ workspaces'[v].remote = now[v].remote
    <3>1. now[v] \in WorkspaceRecord
      BY <2>2
    <3>2. workspaces'[v] = [now[v] EXCEPT !.online = @ /\ v \notin targets]
      BY <1>4
    <3> QED BY <3>1, <3>2 DEF WorkspaceRecord
  <2>5. Alike(workspaces, workspaces') /\ Ids' = Ids
    BY <2>2, <2>3, <2>4 DEF Alike, Ids
  <2> QED BY <1>1, <2>5, SameTree, IdleIsNoTreeRequest
<1> QED BY <1>2, <1>3, <1>4 DEF Disconnects

LEMMA apply_workspace_reconnectionTree ==
  ASSUME Types, TreeInv, NEW q \in Requests, apply_workspace_reconnection(q)
  PROVE  TreeInv'
<1>1. PICK r : r = request[q]
  OBVIOUS
<1>2. UNCHANGED orphans
  BY DEF apply_workspace_reconnection
<1>3. CASE Continues(q, Idle) /\ UNCHANGED workspaces
  BY <1>2, <1>3, OnlyARequest, IdleIsNoTreeRequest DEF Continues
<1>4. CASE /\ r.workspace \in Ids
           /\ workspaces' = [workspaces EXCEPT ![r.workspace].online = TRUE,
                                               ![r.workspace].tabs = @ \cup r.new]
           /\ Continues(q, [at |-> IF r.top THEN "listing" ELSE "next",
                            workspace |-> r.workspace, todo |-> r.todo])
  <2>1. r \in Request /\ r.at = "respawned"
    BY <1>1 DEF Types, apply_workspace_reconnection
  <2>2. r \in Respawned
    BY <2>1, RequestKinds DEF Kinds
  <2>3. PICK n : n = [at |-> IF r.top THEN "listing" ELSE "next", workspace |-> r.workspace,
                      todo |-> r.todo]
    OBVIOUS
  <2>4. request' = [request EXCEPT ![q] = n] /\ NoTreeRequest(n)
    BY <1>4, <2>3 DEF Continues, NoTreeRequest
  <2>5. PICK w \in Ids, on \in BOOLEAN, new \in SUBSET PaneIds :
          w = r.workspace /\ on = TRUE /\ new = r.new
    BY <1>4, <2>2 DEF Respawned
  <2>6. workspaces \in [Ids -> WorkspaceRecord]
    BY DEF Types
  <2>7. PICK half : half = [workspaces EXCEPT ![w].online = on]
    OBVIOUS
  <2>8. half \in [Ids -> WorkspaceRecord] /\ Alike(workspaces, half)
    BY <2>6, <2>7 DEF WorkspaceRecord, Alike
  <2>9. PICK T \in SUBSET PaneIds : T = half[w].tabs \cup new
    BY <2>8 DEF WorkspaceRecord
  <2>10. workspaces' = [half EXCEPT ![w].tabs = T]
    BY <1>4, <2>5, <2>7, <2>9
  <2>11. workspaces' \in [Ids -> WorkspaceRecord] /\ Alike(half, workspaces')
    BY <2>8, <2>10 DEF WorkspaceRecord, Alike
  <2>12. DOMAIN half = Ids /\ DOMAIN workspaces = Ids /\ Ids' = Ids
    BY <2>8, <2>11 DEF Ids
  <2>13. Alike(workspaces, workspaces')
    BY <2>8, <2>11, <2>12, AlikeTwice
  <2> QED BY <1>2, <2>4, <2>12, <2>13, SameTree
<1> QED BY <1>1, <1>3, <1>4 DEF apply_workspace_reconnection

\* A leaf is added, and the request that added it ends or goes on with
\* something else.
LEMMA TreeGains ==
  ASSUME Types, TreeInv, NEW w \in Names \ Ids, NEW rec \in WorkspaceRecord,
         workspaces' = With(workspaces, w, rec), Cardinality(Ids) < MaxWorkspaces,
         \/ rec.parent = None
         \/ /\ rec.parent \in Ids
            /\ Cardinality(AncestorsIn(workspaces, rec.parent)) < MaxDepth
            /\ rec.remote = workspaces[rec.parent].remote
            /\ ~BeingDeleted(rec.parent),
         UNCHANGED orphans,
         NEW q \in Requests, NEW n, request' = [request EXCEPT ![q] = n], NoTreeRequest(n),
         \A o \in Requests \ {q} : w \notin NamesOf(request[o])
  PROVE  TreeInv'
<1> SUFFICES ASSUME orphans = {}
             PROVE  /\ IsTree(workspaces')
                    /\ \A o \in Requests : /\ RemovesSubtree(workspaces', request'[o])
                                           /\ SuitsParent(workspaces', request'[o])
  BY DEF TreeInv
<1>1. /\ Ids' = Ids \cup {w} /\ workspaces'[w] = rec
      /\ \A v \in Ids : workspaces'[v] = workspaces[v]
  BY WithWorkspace
<1>2. PICK ws, vs : ws = workspaces /\ vs = workspaces'
  OBVIOUS
<1>3. /\ IsTree(ws) /\ w \notin DOMAIN ws /\ DOMAIN vs = DOMAIN ws \cup {w} /\ vs[w] = rec
      /\ Cardinality(DOMAIN ws) < MaxWorkspaces
      /\ \A v \in DOMAIN ws : vs[v] = ws[v]
  BY <1>1, <1>2 DEF TreeInv, Ids
<1>4. w # None
  BY NoneAssumption DEF Names
<1>5. Alike(ws, vs)
  BY <1>3 DEF Alike
<1>6. \/ vs[w].parent = None
      \/ /\ vs[w].parent \in DOMAIN ws
         /\ Cardinality(AncestorsIn(ws, vs[w].parent)) < MaxDepth
         /\ vs[w].remote = ws[vs[w].parent].remote
  BY <1>2, <1>3 DEF Ids
<1>7. IsTree(vs)
  BY <1>3, <1>4, <1>5, <1>6, TreeGrows
<1>8. ASSUME NEW o \in Requests
      PROVE  RemovesSubtree(vs, request'[o]) /\ SuitsParent(vs, request'[o])
  <2>1. request'[o] = IF o = q THEN n ELSE request[o]
    BY DEF Types
  <2>2. CASE o = q
    BY <2>1, <2>2 DEF NoTreeRequest, RemovesSubtree, SuitsParent
  <2>3. CASE o # q
    <3>1. PICK r : r = request[o]
      OBVIOUS
    <3>2. /\ r \in Request /\ request'[o] = r /\ w \notin NamesOf(r)
          /\ RemovesSubtree(ws, r) /\ SuitsParent(ws, r)
      BY <1>2, <2>1, <2>3, <3>1 DEF Types, TreeInv
    <3>3. SuitsParent(vs, r)
      <4> SUFFICES ASSUME r.at = "creating", r.parent \in DOMAIN vs
                   PROVE  r.remote = vs[r.parent].remote
        BY DEF SuitsParent
      <4>1. w = r.parent => w \in NamesOf(r)
        BY DEF NamesOf
      <4>2. r.parent \in DOMAIN ws
        BY <1>3, <3>2, <4>1
      <4> QED BY <1>3, <3>2, <4>2 DEF SuitsParent
    <3>4. RemovesSubtree(vs, r)
      <4> SUFFICES ASSUME r.at = "deleting"
                   PROVE  /\ Home \notin r.removed
                          /\ \A v \in DOMAIN vs : vs[v].parent \in r.removed => v \in r.removed
        BY DEF RemovesSubtree
      <4>1. r \in Deleting
        BY <3>2, RequestKinds DEF Kinds
      <4>2. None \notin r.removed
        BY <4>1, NoneAssumption DEF Deleting, Names
      <4>3. r \in Busy("deleting")
        BY <3>1 DEF Busy
      <4>4. vs[w].parent \notin r.removed
        BY <1>3, <4>2, <4>3 DEF BeingDeleted
      <4> QED BY <1>3, <3>2, <4>4 DEF RemovesSubtree
    <3> QED BY <3>2, <3>3, <3>4
  <2> QED BY <2>2, <2>3
<1> QED BY <1>2, <1>7, <1>8

LEMMA CreatesWorkspaceTree ==
  ASSUME PanesInv, TreeInv, NEW q \in Requests, CreatesWorkspace(q)
  PROVE  TreeInv'
<1>1. PICK r : r = request[q]
  OBVIOUS
<1>2. Types /\ r \in Request /\ r.at = "creating" /\ Fits(r)
  BY <1>1 DEF PanesInv, Types, RequestsFit, CreatesWorkspace
<1>3. r \in Creating
  BY <1>2, RequestKinds DEF Kinds
<1>4. request' = [request EXCEPT ![q] = Idle]
  BY DEF CreatesWorkspace, Continues
<1>5. CASE UNCHANGED <<workspaces, orphans>>
  BY <1>2, <1>4, <1>5, OnlyARequest, IdleIsNoTreeRequest
<1>6. CASE /\ RoomForOne /\ (r.parent # None => nested_connection(r.parent))
           /\ workspaces' = With(workspaces, r.workspace,
                  Workspace(r.parent, r.remote, r.remote, {r.pane}))
           /\ orphans' = IF BeingDeleted(r.parent)
                         THEN orphans \cup {r.workspace} ELSE orphans
  <2>1. CASE BeingDeleted(r.parent)
    BY <1>6, <2>1 DEF TreeInv
  <2>2. CASE ~BeingDeleted(r.parent) /\ orphans = {}
    <3>1. PICK w, rec : w = r.workspace /\ rec = Workspace(r.parent, r.remote, r.remote, {r.pane})
      OBVIOUS
    <3>2. /\ rec \in WorkspaceRecord /\ rec.parent = r.parent /\ rec.remote = r.remote
      BY <1>3, <3>1 DEF Creating, WorkspaceRecord, Workspace
    <3>3. w \in Names /\ w \in NewNames(r)
      BY <1>2, <1>3, <3>1 DEF Creating, NewNames
    <3>4. w \notin Ids
      BY <1>2, <3>3 DEF Fits, NewAreNew
    <3>5. Cardinality(Ids) < MaxWorkspaces
      BY <1>6 DEF RoomForOne
    <3>6. \A o \in Requests \ {q} : w \notin NamesOf(request[o])
      BY <1>1, <3>3 DEF PanesInv, RequestsFit, NewAreApart
    <3>7. \/ rec.parent = None
          \/ /\ rec.parent \in Ids
             /\ Cardinality(AncestorsIn(workspaces, rec.parent)) < MaxDepth
             /\ rec.remote = workspaces[rec.parent].remote
             /\ ~BeingDeleted(rec.parent)
      <4> SUFFICES ASSUME r.parent # None
                   PROVE  /\ r.parent \in Ids
                          /\ Cardinality(AncestorsIn(workspaces, r.parent)) < MaxDepth
                          /\ r.remote = workspaces[r.parent].remote
        BY <2>2, <3>2
      <4>1. nested_connection(r.parent)
        BY <1>6
      <4>2. Ancestors(r.parent) = AncestorsIn(workspaces, r.parent)
        BY DEF Ancestors, AncestorsIn, Ids
      <4>3. SuitsParent(workspaces, r)
        BY <1>1, <2>2 DEF TreeInv
      <4>4. r.parent \in Ids /\ Cardinality(AncestorsIn(workspaces, r.parent)) < MaxDepth
        BY <4>1, <4>2 DEF nested_connection, workstation_depth
      <4> QED BY <1>2, <4>3, <4>4 DEF SuitsParent, Ids
    <3>8. workspaces' = With(workspaces, w, rec) /\ UNCHANGED orphans
      BY <1>6, <2>2, <3>1
    <3> QED BY <1>2, <1>4, <3>2, <3>3, <3>4, <3>5, <3>6, <3>7, <3>8, TreeGains, IdleIsNoTreeRequest
  <2>3. CASE orphans # {} /\ ~BeingDeleted(r.parent)
    BY <1>6, <2>3 DEF TreeInv
  <2> QED BY <2>1, <2>2, <2>3
<1> QED BY <1>1, <1>5, <1>6 DEF CreatesWorkspace

LEMMA persist_ssh_workspace_intentTree ==
  ASSUME PanesInv, TreeInv, NEW q \in Requests, persist_ssh_workspace_intent(q)
  PROVE  TreeInv'
<1>1. PICK w \in FreshId, p \in FreshPane :
        /\ RoomForOne
        /\ workspaces' = With(workspaces, w, Workspace(None, TRUE, FALSE, {p}))
        /\ Starts(q, [at |-> "signing in", workspace |-> w, pane |-> p])
        /\ UNCHANGED <<panes, orphans, escaped>>
  BY DEF persist_ssh_workspace_intent
<1>2. PICK n : n = [at |-> "signing in", workspace |-> w, pane |-> p]
  OBVIOUS
<1>3. request' = [request EXCEPT ![q] = n] /\ NoTreeRequest(n) /\ UNCHANGED orphans
  BY <1>1, <1>2 DEF Starts, NoTreeRequest
<1>4. Types
  BY DEF PanesInv
<1>5. w \in Names \ Ids /\ \A o \in Requests : w \notin NamesOf(request[o])
  BY <1>4, FreshIdIs
<1>6. p \in PaneIds
  BY <1>4, FreshPaneIs
<1>7. PICK rec : rec = Workspace(None, TRUE, FALSE, {p})
  OBVIOUS
<1>8. rec \in WorkspaceRecord /\ rec.parent = None
  BY <1>6, <1>7 DEF Workspace, WorkspaceRecord
<1>9. Cardinality(Ids) < MaxWorkspaces
  BY <1>1 DEF RoomForOne
<1>10. workspaces' = With(workspaces, w, rec)
  BY <1>1, <1>7
<1> QED BY <1>3, <1>4, <1>5, <1>8, <1>9, <1>10, TreeGains

LEMMA DeletesTree ==
  ASSUME Types, TreeInv, NEW q \in Requests, Deletes(q)
  PROVE  TreeInv'
<1>1. request' = [request EXCEPT ![q] = Idle] /\ UNCHANGED orphans
  BY DEF Deletes, Continues
<1>2. CASE UNCHANGED workspaces
  BY <1>1, <1>2, OnlyARequest, IdleIsNoTreeRequest
<1>3. PICK r : r = request[q]
  OBVIOUS
<1>4. CASE orphans # {}
  BY <1>1, <1>4 DEF TreeInv
<1>5. CASE orphans = {} /\ workspaces' = Without(workspaces, r.removed)
  <2>1. PICK R : R = r.removed
    OBVIOUS
  <2>2. RemovesSubtree(workspaces, r) /\ r.at = "deleting"
    BY <1>3, <1>5 DEF TreeInv, Deletes
  <2>3. Home \notin R /\ \A w \in Ids : workspaces[w].parent \in R => w \in R
    BY <2>1, <2>2 DEF RemovesSubtree, Ids
  <2>4. Ids' = Ids \ R /\ Alike(workspaces, workspaces')
    BY <1>5, <2>1 DEF Without, Ids, Alike
  <2>5. RemovesSubtree(workspaces, Idle) /\ SuitsParent(workspaces, Idle)
    BY DEF RemovesSubtree, SuitsParent, Idle
  <2> QED BY <1>1, <2>3, <2>4, <2>5, TreeStays
<1> QED BY <1>2, <1>3, <1>4, <1>5 DEF Deletes

LEMMA TreeInit == Init => TreeInv
<1> SUFFICES ASSUME Init PROVE TreeInv
  OBVIOUS
<1>1. PICK ws : ws = workspaces
  OBVIOUS
<1>2. DOMAIN ws = {Home} /\ ws[Home].parent = None
  BY <1>1 DEF Init, Workspace
<1>3. IsFiniteSet({Home}) /\ Cardinality({Home}) = 1
  BY FS_Singleton
<1>4. Parented(ws)
  BY <1>2, <1>3, NoneAssumption DEF Parented
<1>5. 1 <= MaxWorkspaces /\ 1 <= MaxDepth
  BY LimitsAssumption
<1>6. WellNested(ws, Home)
  <2>1. ClosedUp(ws, {Home})
    BY <1>2 DEF ClosedUp
  <2>2. AncestorsIn(ws, Home) = {Home}
    BY <1>2, <1>4, <2>1, AncestorsAreLeast, AncestorsAreClosed
  <2> QED BY <1>2, <1>3, <1>5, <2>2 DEF WellNested
<1>7. IsTree(ws)
  BY <1>2, <1>3, <1>4, <1>5, <1>6 DEF IsTree
<1>8. \A q \in Requests : request[q] = Idle
  BY DEF Init
<1>9. RemovesSubtree(ws, Idle) /\ SuitsParent(ws, Idle)
  BY DEF RemovesSubtree, SuitsParent, Idle
<1> QED BY <1>1, <1>7, <1>8, <1>9 DEF TreeInv

LEMMA TreeStep == PanesInv /\ TreeInv /\ [Next]_vars => TreeInv'
<1> SUFFICES ASSUME PanesInv, TreeInv, [Next]_vars PROVE TreeInv'
  OBVIOUS
<1>0. Types
  BY DEF PanesInv
<1>1. CASE UNCHANGED vars
  BY <1>1, AlikeItself, TreeAlone DEF vars
<1>2. ASSUME NEW q \in Requests, NEW parent \in Ids \cup {None}, create_workspace(q, parent)
      PROVE  TreeInv'
  BY <1>0, <1>2, create_workspaceTree
<1>3. ASSUME NEW q \in Requests, NEW w \in Ids,
             \/ create_workspace_tab(q, w) \/ disconnect_workspace(q, w)
             \/ reconnect_workspace(q, w)
             \/ \E p \in workspaces[w].tabs, to \in Ids : move_tab_to_workstation(q, w, p, to)
      PROVE  TreeInv'
  BY <1>0, <1>3, ReadersTree
<1>4. ASSUME NEW q \in Requests, NEW w \in Ids, delete_workspace(q, w) PROVE TreeInv'
  BY <1>0, <1>4, delete_workspaceTree
<1>5. ASSUME NEW q \in Requests,
             \/ CreatesWorkspace(q) \/ persist_ssh_workspace_intent(q)
             \/ attach_ssh_workspace(q) \/ OpensTab(q) \/ MovesTab(q) \/ RequestFails(q)
      PROVE  TreeInv'
  BY <1>0, <1>5, CreatesWorkspaceTree, persist_ssh_workspace_intentTree,
     attach_ssh_workspaceTree, OpensTabTree, MovesTabTree, RequestFailsTree
<1>6. ASSUME NEW q \in Requests,
             \/ Disconnects(q) \/ apply_workspace_reconnection(q) \/ Deletes(q)
      PROVE  TreeInv'
  BY <1>0, <1>6, DisconnectsTree, apply_workspace_reconnectionTree, DeletesTree
<1>7. ASSUME NEW q \in Requests, ListsNested(q) \/ ReconnectsNext(q) PROVE TreeInv'
  BY <1>0, <1>7, ReadersTree
<1>8. ASSUME NEW w \in Ids, NEW p \in PaneIds, close_tab(w, p) PROVE TreeInv'
  BY <1>0, <1>8, close_tabTree
<1>9. ASSUME NEW w \in Ids, refresh_runtime_metadata(workspaces[w].tabs) PROVE TreeInv'
  BY <1>0, <1>9, refresh_runtime_metadataTree
<1> QED BY <1>1, <1>2, <1>3, <1>4, <1>5, <1>6, <1>7, <1>8, <1>9 DEF Next

LEMMA TreesCanBeSaved ==
  ASSUME PanesInv, TreeInv
  PROVE  OnlyOrphansAndOfflinePanesBlockSaves
<1> SUFFICES ASSUME orphans = {}, ~(Cardinality(Shown) > MaxPanes)
             PROVE  encode_desired_state
  BY DEF OnlyOrphansAndOfflinePanesBlockSaves
<1>1. IsTree(workspaces) /\ Parented(workspaces) /\ Ids = DOMAIN workspaces
  BY DEF TreeInv, IsTree, Ids
<1>2. Cardinality(Shown) <= MaxPanes
  <2>1. Shown \subseteq PaneIds
    BY DEF PanesInv, Types, WorkspaceRecord, Shown, ShownIn
  <2>2. PICK S : S = Shown
    OBVIOUS
  <2>3. IsFiniteSet(S)
    BY <2>1, <2>2, IdsAssumption, FS_Subset
  <2>4. Cardinality(S) \in Nat
    BY <2>3, FS_CardinalityType
  <2> QED BY <2>2, <2>4, LimitsAssumption
<1>3. ASSUME NEW w \in Ids PROVE Nested(w)
  <2>1. Ancestors(w) = AncestorsIn(workspaces, w)
    BY DEF Ancestors, AncestorsIn, Ids
  <2>2. ClosedUp(workspaces, AncestorsIn(workspaces, w)) /\ WellNested(workspaces, w)
    BY <1>1, AncestorsAreClosed DEF IsTree
  <2> QED BY <1>1, <2>1, <2>2 DEF Nested, HasDepth, workstation_depth, ClosedUp, WellNested
<1>4. Ids # {} /\ Cardinality(Ids) <= MaxWorkspaces
  BY <1>1 DEF IsTree
<1> QED BY <1>2, <1>3, <1>4 DEF encode_desired_state

\* registry/workspaces.rs: the tree of workstations can be saved, however
\* requests overlap, unless one was nested in a workstation that was being
\* deleted, or more panes are shown than may be.
THEOREM SavesAreBlockedByOrphansAndOfflinePanes ==
  Spec => []OnlyOrphansAndOfflinePanesBlockSaves
<1>1. Init => PanesInv /\ TreeInv
  BY PanesInit, TreeInit
<1>2. PanesInv /\ TreeInv /\ [Next]_vars => (PanesInv /\ TreeInv)'
  BY PanesStep, TreeStep
<1>3. PanesInv /\ TreeInv => OnlyOrphansAndOfflinePanesBlockSaves
  BY TreesCanBeSaved
<1> QED BY <1>1, <1>2, <1>3, PTL DEF Spec

-----------------------------------------------------------------------------
(* The tmux clients: what requests and the healer remember. *)

InRequest == {"opening", "resizing", "moving", "attaching", "made", "returning",
              "terminating", "removing"}

IsRequest(r) ==
  /\ r.at \in InRequest /\ {"at", "op", "pane", "client"} \subseteq DOMAIN r
  /\ r.op \in {"create", "reattach", "move", "close"} /\ r.client \in DOMAIN client
  /\ r.at \notin {"terminating", "removing"} =>
       /\ "of" \in DOMAIN r /\ r.of \in LocalWorkstations /\ client[r.client].of = r.of
       /\ r.op # "close"
  /\ r.at \in {"moving", "returning"} => r.op = "move"
  /\ r.at \in {"opening", "resizing"} => r.op # "move"
  /\ r.at = "attaching" \/ r.op = "move" =>
       "window" \in DOMAIN r /\ r.window \in DOMAIN windows
  /\ r.op = "move" => "from" \in DOMAIN r /\ r.from \in LocalWorkstations
  /\ r.at \in {"resizing", "made", "terminating"} =>
       "session" \in DOMAIN r /\ r.session \in DOMAIN session

IsHealer ==
  /\ healer.at \in {"listing", "marking", "installing"}
  /\ {"at", "of", "client"} \subseteq DOMAIN healer
  /\ healer.of \in LocalWorkstations /\ healer.client \in DOMAIN client
  /\ client[healer.client].of = healer.of
  /\ tmux_clients[healer.of] # None
  /\ healer.at # "listing" => "listed" \in DOMAIN healer

Client == [of : LocalWorkstations, up : BOOLEAN, unread : SUBSET Nat]
Session == [window : Nat, client : Nat, ended : BOOLEAN]
Pane == [of : LocalWorkstations, session : Nat]

TmuxTypes ==
      /\ client \in Seq(Client) /\ session \in Seq(Session)
      /\ windows \in Seq(LocalWorkstations \cup {None})
      /\ tmux_clients = [w \in LocalWorkstations |-> tmux_clients[w]]
      /\ tmux_sinks = [w \in LocalWorkstations |-> tmux_sinks[w]]
      /\ attached \in [DOMAIN attached -> Pane]
      /\ thread = [q \in Requests |-> thread[q]]
      /\ \A w \in LocalWorkstations :
           tmux_clients[w] # None => /\ tmux_clients[w] \in DOMAIN client
                                     /\ client[tmux_clients[w]].of = w
      /\ \A c \in DOMAIN client : tmux_clients[client[c].of] # None
      /\ \A s \in DOMAIN session : /\ session[s].window \in DOMAIN windows
                                   /\ session[s].client \in DOMAIN client
      /\ \A p \in DOMAIN attached : attached[p].session \in DOMAIN session
      /\ \A q \in Requests : thread[q] = Tmux!Idle \/ IsRequest(thread[q])
      /\ healer = Tmux!Idle \/ IsHealer

-----------------------------------------------------------------------------
(* The invariant. *)

Makes(q) == thread[q].at \in {"resizing", "made"}

SessionsDiffer ==
  /\ \A p, o \in DOMAIN attached : attached[p].session = attached[o].session => p = o
  /\ \A q \in Requests : Makes(q) =>
       /\ \A p \in DOMAIN attached : thread[q].session # attached[p].session
       /\ \A o \in Requests : Makes(o) /\ thread[o].session = thread[q].session => o = q

EndsAreTrue ==
  \A s \in DOMAIN session :
    session[s].ended /\ s \notin misjudged => windows[session[s].window] = None

\* A session that says it lives, and should.
Lives(s) == ~session[s].ended /\ s \notin misjudged

\* It has a client of the workstation, and its sink.
Connected(s, w) ==
  /\ client[session[s].client].of = w
  /\ session[s].window \in DOMAIN tmux_sinks[w] /\ tmux_sinks[w][session[s].window] = s

\* The client will tell that the window closed, or is lost.
Hears(c, win) == ~client[c].up \/ win \in client[c].unread

\* So will the client the healer installs, or the healer's list.
HealerHears(w, win) ==
  healer.at \in {"marking", "installing"} /\ healer.of = w =>
    Hears(healer.client, win) \/ (healer.at = "marking" /\ win \notin healer.listed)

InPlace(s, w) ==
  \/ windows[session[s].window] = w
  \/ /\ windows[session[s].window] = None
     /\ Hears(session[s].client, session[s].window) /\ HealerHears(w, session[s].window)

\* A request has moved the window of the pane and not finished.
MovesBy(q, p, win) ==
  /\ thread[q].at \in {"attaching", "made", "returning"} /\ thread[q].op = "move"
  /\ thread[q].pane = p /\ thread[q].window = win
Moves(p, win) == \E q \in Requests : MovesBy(q, p, win)

PanesFit ==
  \A p \in DOMAIN attached :
    Lives(attached[p].session) =>
      /\ Connected(attached[p].session, attached[p].of)
      /\ InPlace(attached[p].session, attached[p].of) \/ Moves(p, session[attached[p].session].window)

MadeFit ==
  \A q \in Requests : Makes(q) =>
    /\ session[thread[q].session].client = thread[q].client
    /\ Lives(thread[q].session) => /\ Connected(thread[q].session, thread[q].of)
                                   /\ InPlace(thread[q].session, thread[q].of)

TmuxInv == TmuxTypes /\ SessionsDiffer /\ EndsAreTrue /\ PanesFit /\ MadeFit

-----------------------------------------------------------------------------
(* Types. *)

LEMMA RequestKind ==
  ASSUME TmuxTypes, NEW q \in Requests, thread[q].at # "idle"
  PROVE  thread[q] # Tmux!Idle /\ IsRequest(thread[q])
<1>1. thread[q] # Tmux!Idle
  BY DEF Tmux!Idle
<1> QED BY <1>1 DEF TmuxTypes

LEMMA HealerKind ==
  ASSUME TmuxTypes, healer.at # "idle"
  PROVE  healer # Tmux!Idle /\ IsHealer
<1>1. healer # Tmux!Idle
  BY DEF Tmux!Idle
<1> QED BY <1>1 DEF TmuxTypes

LEMMA MakerKind ==
  ASSUME TmuxTypes, NEW q \in Requests, Makes(q)
  PROVE  /\ thread[q] # Tmux!Idle /\ thread[q].client \in DOMAIN client
         /\ thread[q].of \in LocalWorkstations /\ client[thread[q].client].of = thread[q].of
         /\ thread[q].session \in DOMAIN session
<1>1. thread[q] # Tmux!Idle /\ IsRequest(thread[q])
  BY RequestKind DEF Makes
<1> QED BY <1>1 DEF IsRequest, Makes

\* What a step may never do to the maps and lists.
Grows ==
  /\ DOMAIN client \subseteq DOMAIN client' /\ DOMAIN windows \subseteq DOMAIN windows'
  /\ DOMAIN session \subseteq DOMAIN session'
  /\ \A c \in DOMAIN client : client'[c].of = client[c].of
  /\ \A w \in LocalWorkstations : tmux_clients[w] # None => tmux_clients'[w] # None

LEMMA RequestStays ==
  ASSUME NEW r, IsRequest(r), Grows
  PROVE  IsRequest(r)'
BY DEF IsRequest, Grows

LEMMA HealerStays ==
  ASSUME IsHealer, Grows, healer' = healer
  PROVE  IsHealer'
BY DEF IsHealer, Grows

ClientTypes ==
  /\ client \in Seq(Client)
  /\ tmux_clients = [w \in LocalWorkstations |-> tmux_clients[w]]
  /\ \A w \in LocalWorkstations :
       tmux_clients[w] # None => /\ tmux_clients[w] \in DOMAIN client
                                 /\ client[tmux_clients[w]].of = w
  /\ \A c \in DOMAIN client : tmux_clients[client[c].of] # None

SessionTypes ==
  /\ session \in Seq(Session) /\ windows \in Seq(LocalWorkstations \cup {None})
  /\ tmux_sinks = [w \in LocalWorkstations |-> tmux_sinks[w]]
  /\ \A s \in DOMAIN session : /\ session[s].window \in DOMAIN windows
                               /\ session[s].client \in DOMAIN client

PaneTypes ==
  /\ attached \in [DOMAIN attached -> Pane]
  /\ \A p \in DOMAIN attached : attached[p].session \in DOMAIN session

LEMMA TypesAre == TmuxTypes <=>
  /\ ClientTypes /\ SessionTypes /\ PaneTypes
  /\ thread = [q \in Requests |-> thread[q]]
  /\ \A q \in Requests : thread[q] = Tmux!Idle \/ IsRequest(thread[q])
  /\ healer = Tmux!Idle \/ IsHealer
BY DEF TmuxTypes, ClientTypes, SessionTypes, PaneTypes

LEMMA TypesAreNext == TmuxTypes' <=>
  /\ ClientTypes' /\ SessionTypes' /\ PaneTypes'
  /\ thread' = [q \in Requests |-> thread'[q]]
  /\ \A q \in Requests : thread'[q] = Tmux!Idle \/ IsRequest(thread[q])'
  /\ healer' = Tmux!Idle \/ IsHealer'
BY DEF TmuxTypes, ClientTypes, SessionTypes, PaneTypes

\* One request goes on, or ends.
LEMMA OneRequest ==
  ASSUME TmuxTypes, Grows, NEW q \in Requests, NEW n, Tmux!Becomes(q, n),
         n = Tmux!Idle \/ IsRequest(n)'
  PROVE  /\ thread' = [o \in Requests |-> thread'[o]] /\ thread'[q] = n
         /\ \A o \in Requests : o # q => thread'[o] = thread[o]
         /\ \A o \in Requests : thread'[o] = Tmux!Idle \/ IsRequest(thread[o])'
<1>1. /\ thread' = [o \in Requests |-> thread'[o]] /\ thread'[q] = n
      /\ \A o \in Requests : o # q => thread'[o] = thread[o]
  BY DEF TmuxTypes, Tmux!Becomes
<1>2. ASSUME NEW o \in Requests PROVE thread'[o] = Tmux!Idle \/ IsRequest(thread[o])'
  <2>1. CASE o = q
    BY <2>1, <1>1 DEF IsRequest
  <2>2. CASE o # q
    <3>1. PICK r : r = thread[o]
      OBVIOUS
    <3>2. r = Tmux!Idle \/ IsRequest(r)
      BY <3>1 DEF TmuxTypes
    <3>3. r = Tmux!Idle \/ IsRequest(r)'
      BY <3>2, RequestStays
    <3>4. thread'[o] = r
      BY <3>1, <2>2, <1>1
    <3> QED BY <3>3, <3>4 DEF IsRequest
  <2> QED BY <2>1, <2>2
<1> QED BY <1>1, <1>2

\* No request goes on.
LEMMA NoRequest ==
  ASSUME TmuxTypes, Grows, thread' = thread
  PROVE  /\ thread' = [o \in Requests |-> thread'[o]]
         /\ \A o \in Requests : thread'[o] = Tmux!Idle \/ IsRequest(thread[o])'
<1>1. thread' = [o \in Requests |-> thread'[o]]
  BY DEF TmuxTypes
<1>2. ASSUME NEW o \in Requests PROVE thread'[o] = Tmux!Idle \/ IsRequest(thread[o])'
  <2>1. PICK r : r = thread[o]
    OBVIOUS
  <2>2. r = Tmux!Idle \/ IsRequest(r)
    BY <2>1 DEF TmuxTypes
  <2>3. r = Tmux!Idle \/ IsRequest(r)'
    BY <2>2, RequestStays
  <2>4. thread'[o] = r
    BY <2>1
  <2> QED BY <2>3, <2>4 DEF IsRequest
<1> QED BY <1>1, <1>2

-----------------------------------------------------------------------------
(* Clients. *)

\* The clients, some of them told of something.
Telling(n) ==
  /\ n \in Seq(Client) /\ DOMAIN n = DOMAIN client
  /\ \A c \in DOMAIN client : /\ n[c].of = client[c].of /\ n[c].up = client[c].up
                              /\ client[c].unread \subseteq n[c].unread

LEMMA ClientIs ==
  ASSUME ClientTypes, NEW c \in DOMAIN client
  PROVE  /\ client[c] \in Client /\ client[c].of \in LocalWorkstations
         /\ client[c].up \in BOOLEAN /\ client[c].unread \subseteq Nat
<1>1. client[c] \in Client
  BY DEF ClientTypes
<1> QED BY <1>1 DEF Client

LEMMA ToldIs ==
  ASSUME ClientTypes, NEW w, NEW win \in Nat
  PROVE  /\ Telling(Tmux!Told(w, win))
         /\ \A c \in DOMAIN client :
              client[c].of = w /\ Tmux!IsUp(c) => win \in Tmux!Told(w, win)[c].unread
<1> DEFINE new(c) == IF client[c].of = w /\ Tmux!IsUp(c)
                     THEN [client[c] EXCEPT !.unread = @ \cup {win}] ELSE client[c]
<1>1. PICK n : n = Tmux!Told(w, win)
  OBVIOUS
<1>2. n = [c \in DOMAIN client |-> new(c)]
  BY <1>1 DEF Tmux!Told
<1>3. DOMAIN n = DOMAIN client /\ \A c \in DOMAIN client : n[c] = new(c)
  <2> HIDE DEF new
  <2> QED BY <1>2
<1>4. ASSUME NEW c \in DOMAIN client
      PROVE  /\ new(c) \in Client /\ new(c).of = client[c].of /\ new(c).up = client[c].up
             /\ client[c].unread \subseteq new(c).unread
             /\ client[c].of = w /\ Tmux!IsUp(c) => win \in new(c).unread
  <2>1. PICK r : r = client[c]
    OBVIOUS
  <2>2. r \in Client /\ r.unread \subseteq Nat
    BY <2>1, ClientIs
  <2>3. PICK x : x = [r EXCEPT !.unread = r.unread \cup {win}]
    OBVIOUS
  <2>4. /\ x \in Client /\ x.of = r.of /\ x.up = r.up /\ x.unread = r.unread \cup {win}
    BY <2>2, <2>3 DEF Client
  <2>5. new(c) = IF r.of = w /\ Tmux!IsUp(c) THEN x ELSE r
    BY <2>1, <2>3
  <2> HIDE DEF new
  <2>6. CASE r.of = w /\ Tmux!IsUp(c)
    <3>1. new(c) = x
      BY <2>5, <2>6
    <3> QED BY <2>1, <2>2, <2>4, <3>1
  <2>7. CASE ~(r.of = w /\ Tmux!IsUp(c))
    <3>1. new(c) = r
      BY <2>5, <2>7
    <3> QED BY <2>1, <2>2, <2>7, <3>1
  <2> QED BY <2>6, <2>7
<1> HIDE DEF new
<1>5. n \in Seq(Client)
  <2>1. DOMAIN client = 1 .. Len(client) /\ Len(client) \in Nat
    BY DEF ClientTypes
  <2>2. n \in [1 .. Len(client) -> Client]
    BY <1>2, <1>4, <2>1
  <2> QED BY <2>1, <2>2
<1>6. \A c \in DOMAIN client : client[c].of = w /\ Tmux!IsUp(c) => win \in n[c].unread
  BY <1>3, <1>4
<1>7. Telling(n)
  BY <1>3, <1>4, <1>5 DEF Telling
<1> QED BY <1>1, <1>6, <1>7

\* Telling clients changes nothing of their types, and nobody forgets.
LEMMA TellingKeeps ==
  ASSUME ClientTypes, NEW n, Telling(n), client' = n, UNCHANGED tmux_clients
  PROVE  /\ ClientTypes'
         /\ DOMAIN client' = DOMAIN client
         /\ \A c \in DOMAIN client : client'[c].of = client[c].of
         /\ \A c \in DOMAIN client : \A win : Hears(c, win) => Hears(c, win)'
BY DEF ClientTypes, Telling, Hears

\* Nobody's client changes when another one is started.
Added ==
  /\ DOMAIN client \subseteq DOMAIN client'
  /\ \A c \in DOMAIN client : client'[c] = client[c]

LEMMA SpawnedIs ==
  ASSUME ClientTypes, NEW w \in LocalWorkstations
  PROVE  /\ Tmux!Spawned(w) \in Seq(Client) /\ Len(Tmux!Spawned(w)) = Len(client) + 1
         /\ Len(client) + 1 \in DOMAIN Tmux!Spawned(w) /\ DOMAIN client \subseteq DOMAIN Tmux!Spawned(w)
         /\ DOMAIN Tmux!Spawned(w) = DOMAIN client \cup {Len(client) + 1}
         /\ \A c \in DOMAIN client : Tmux!Spawned(w)[c] = client[c]
         /\ Tmux!Spawned(w)[Len(client) + 1].of = w
<1> DEFINE r == [of |-> w, up |-> TRUE, unread |-> {}]
<1>1. r \in Client /\ r.of = w
  BY DEF Client
<1>2. PICK n : n = Append(client, r)
  OBVIOUS
<1> HIDE DEF r
<1>3. /\ n \in Seq(Client) /\ Len(n) = Len(client) + 1 /\ Len(client) \in Nat
      /\ n[Len(client) + 1] = r /\ \A i \in 1 .. Len(client) : n[i] = client[i]
  BY <1>1, <1>2 DEF ClientTypes
<1>4. DOMAIN client = 1 .. Len(client) /\ DOMAIN n = 1 .. Len(client) + 1
  BY <1>3 DEF ClientTypes
<1>5. n = Tmux!Spawned(w)
  BY <1>2 DEF Tmux!Spawned, r
<1>6. /\ Len(client) + 1 \in DOMAIN n /\ DOMAIN client \subseteq DOMAIN n
      /\ DOMAIN n = DOMAIN client \cup {Len(client) + 1}
  BY <1>3, <1>4
<1> QED BY <1>1, <1>3, <1>4, <1>5, <1>6

\* A new client, which no session has.
LEMMA ForWorkspace ==
  ASSUME ClientTypes, NEW w \in LocalWorkstations, NEW c, Tmux!client_for_workspace(w, c)
  PROVE  /\ ClientTypes' /\ Added
         /\ c \in DOMAIN client' /\ client'[c].of = w
         /\ \A v \in LocalWorkstations : tmux_clients[v] # None => tmux_clients'[v] # None
<1>1. CASE tmux_clients[w] # None /\ client[tmux_clients[w]].up
  BY <1>1 DEF Tmux!client_for_workspace, ClientTypes, Added
<1>2. CASE ~(tmux_clients[w] # None /\ client[tmux_clients[w]].up)
  <2>1. PICK n : n = Tmux!Spawned(w)
    OBVIOUS
  <2>2. /\ n \in Seq(Client) /\ c \in DOMAIN n /\ DOMAIN client \subseteq DOMAIN n
        /\ DOMAIN n = DOMAIN client \cup {c}
        /\ \A d \in DOMAIN client : n[d] = client[d]
        /\ n[c].of = w
    BY <1>2, <2>1, SpawnedIs DEF Tmux!client_for_workspace
  <2>3. client' = n /\ c \in Nat
    BY <1>2, <2>1 DEF Tmux!client_for_workspace, ClientTypes
  <2>4. tmux_clients' = [tmux_clients EXCEPT ![w] = c]
    BY <1>2 DEF Tmux!client_for_workspace
  <2>5. /\ tmux_clients' = [v \in LocalWorkstations |-> tmux_clients'[v]] /\ tmux_clients'[w] = c
        /\ \A v \in LocalWorkstations : v # w => tmux_clients'[v] = tmux_clients[v]
    BY <2>4 DEF ClientTypes
  <2>6. c # None
    BY <2>3, NoClientAssumption
  <2>7. Added
    BY <2>2, <2>3 DEF Added
  <2>8. \A v \in LocalWorkstations : tmux_clients'[v] # None =>
          tmux_clients'[v] \in DOMAIN client' /\ client'[tmux_clients'[v]].of = v
    BY <2>2, <2>3, <2>5 DEF ClientTypes
  <2>9. \A d \in DOMAIN client' : tmux_clients'[client'[d].of] # None
    <3>1. ASSUME NEW d \in DOMAIN client PROVE tmux_clients'[client'[d].of] # None
      BY <2>2, <2>3, <2>5, <2>6, ClientIs DEF ClientTypes
    <3> QED BY <2>2, <2>3, <2>5, <2>6, <3>1
  <2> QED BY <2>2, <2>3, <2>5, <2>6, <2>7, <2>8, <2>9 DEF ClientTypes
<1> QED BY <1>1, <1>2

-----------------------------------------------------------------------------
(* How sessions go on. *)

InstalledAt(p, s, w) == p \in DOMAIN attached /\ attached[p].session = s /\ attached[p].of = w
MadeAt(q, s, w) == Makes(q) /\ thread[q].session = s /\ thread[q].of = w
Used(s, w) == \/ \E p : InstalledAt(p, s, w)
              \/ \E q \in Requests : MadeAt(q, s, w)

LEMMA UsedIs ==
  ASSUME TmuxTypes, MadeFit, NEW s, NEW w, Used(s, w)
  PROVE  /\ s \in DOMAIN session /\ w \in LocalWorkstations
         /\ session[s].client \in DOMAIN client /\ session[s].window \in DOMAIN windows
         /\ Tmux!Held(session[s].client)
<1>1. CASE \E p : InstalledAt(p, s, w)
  BY <1>1 DEF InstalledAt, TmuxTypes, Pane, Tmux!Held, Tmux!SessionOf
<1>2. CASE \E q \in Requests : MadeAt(q, s, w)
  <2>1. PICK q \in Requests : MadeAt(q, s, w)
    BY <1>2
  <2>2. /\ thread[q] # Tmux!Idle /\ thread[q].session = s /\ s \in DOMAIN session
        /\ w \in LocalWorkstations
    BY <2>1, MakerKind DEF MadeAt
  <2>3. session[s].client = thread[q].client
    BY <2>1 DEF MadeFit, MadeAt
  <2> QED BY <2>2, <2>3 DEF Tmux!Held, TmuxTypes
<1> QED BY <1>1, <1>2 DEF Used

\* What a step leaves of a session that still lives.
Steady(s, w) ==
  Lives(s)' => /\ Lives(s)
               /\ Connected(s, w) => Connected(s, w)'
               /\ Connected(s, w) /\ InPlace(s, w) => InPlace(s, w)'

\* A request that has moved a pane's window goes on, or leaves it in place.
MovesOn(p, win) ==
  Moves(p, win) =>
    \/ Moves(p, win)'
    \/ \A s, w : InstalledAt(p, s, w) /\ session[s].window = win /\ Lives(s)' => InPlace(s, w)'

LEMMA FitsHold ==
  ASSUME PanesFit, MadeFit,
         \A p, s, w : InstalledAt(p, s, w)' =>
           \/ /\ InstalledAt(p, s, w) /\ Steady(s, w)
              /\ session'[s].window = session[s].window /\ MovesOn(p, session[s].window)
           \/ Lives(s)' => /\ Connected(s, w)'
                           /\ InPlace(s, w)' \/ Moves(p, session[s].window)',
         \A q \in Requests : \A s, w : MadeAt(q, s, w)' =>
           \/ /\ MadeAt(q, s, w) /\ Steady(s, w)
              /\ session'[s].client = session[s].client /\ thread'[q].client = thread[q].client
           \/ /\ session'[s].client = thread'[q].client
              /\ Lives(s)' => Connected(s, w)' /\ InPlace(s, w)'
  PROVE  PanesFit' /\ MadeFit'
<1>1. ASSUME NEW p, NEW s, NEW w, InstalledAt(p, s, w)', Lives(s)'
      PROVE  Connected(s, w)' /\ (InPlace(s, w)' \/ Moves(p, session[s].window)')
  <2>1. CASE Lives(s)' => /\ Connected(s, w)'
                          /\ InPlace(s, w)' \/ Moves(p, session[s].window)'
    BY <1>1, <2>1
  <2>2. CASE /\ InstalledAt(p, s, w) /\ Steady(s, w)
             /\ session'[s].window = session[s].window /\ MovesOn(p, session[s].window)
    <3>1. PICK win : win = session[s].window
      OBVIOUS
    <3>2. Lives(s) /\ Connected(s, w) /\ (InPlace(s, w) \/ Moves(p, win))
      BY <1>1, <2>2, <3>1 DEF Steady, PanesFit, InstalledAt
    <3>3. Connected(s, w)'
      BY <1>1, <2>2, <3>2 DEF Steady
    <3>4. CASE InPlace(s, w)
      BY <1>1, <2>2, <3>2, <3>3, <3>4 DEF Steady
    <3>5. CASE Moves(p, win)
      <4>1. Moves(p, win)' \/ InPlace(s, w)'
        BY <1>1, <2>2, <3>1, <3>5 DEF MovesOn
      <4>2. Moves(p, win)' => Moves(p, session[s].window)'
        BY <2>2, <3>1 DEF Moves, MovesBy
      <4> QED BY <3>3, <4>1, <4>2
    <3> QED BY <3>2, <3>4, <3>5
  <2> QED BY <1>1, <2>1, <2>2
<1>2. ASSUME NEW q \in Requests, NEW s, NEW w, MadeAt(q, s, w)'
      PROVE  /\ session'[s].client = thread'[q].client
             /\ Lives(s)' => Connected(s, w)' /\ InPlace(s, w)'
  <2>1. CASE /\ MadeAt(q, s, w) /\ Steady(s, w)
             /\ session'[s].client = session[s].client /\ thread'[q].client = thread[q].client
    BY <2>1 DEF Steady, MadeFit, MadeAt
  <2> QED BY <1>2, <2>1
<1>3. PanesFit'
  <2> SUFFICES ASSUME NEW p \in DOMAIN attached', Lives(attached[p].session)'
               PROVE  /\ Connected(attached[p].session, attached[p].of)'
                      /\ \/ InPlace(attached[p].session, attached[p].of)'
                         \/ Moves(p, session[attached[p].session].window)'
    BY DEF PanesFit
  <2>1. PICK s, w : s = attached'[p].session /\ w = attached'[p].of
    OBVIOUS
  <2>2. InstalledAt(p, s, w)' /\ Lives(s)'
    BY <2>1 DEF InstalledAt, Lives
  <2>3. Connected(s, w)' /\ (InPlace(s, w)' \/ Moves(p, session[s].window)')
    BY <1>1, <2>2
  <2>4. Connected(attached[p].session, attached[p].of)'
    BY <2>1, <2>3 DEF Connected
  <2>5. InPlace(s, w)' => InPlace(attached[p].session, attached[p].of)'
    BY <2>1 DEF InPlace, HealerHears
  <2>6. Moves(p, session[s].window)' => Moves(p, session[attached[p].session].window)'
    BY <2>1
  <2> QED BY <2>3, <2>4, <2>5, <2>6
<1>4. MadeFit'
  <2> SUFFICES ASSUME NEW q \in Requests, Makes(q)'
               PROVE  /\ session'[thread'[q].session].client = thread'[q].client
                      /\ Lives(thread[q].session)' =>
                           /\ Connected(thread[q].session, thread[q].of)'
                           /\ InPlace(thread[q].session, thread[q].of)'
    BY DEF MadeFit
  <2>1. PICK s, w : s = thread'[q].session /\ w = thread'[q].of
    OBVIOUS
  <2>2. MadeAt(q, s, w)'
    BY <2>1 DEF MadeAt
  <2>3. session'[s].client = thread'[q].client /\ (Lives(s)' => Connected(s, w)' /\ InPlace(s, w)')
    BY <1>2, <2>2
  <2>4. Connected(s, w)' => Connected(thread[q].session, thread[q].of)'
    BY <2>1 DEF Connected
  <2>5. InPlace(s, w)' => InPlace(thread[q].session, thread[q].of)'
    BY <2>1 DEF InPlace, HealerHears
  <2>6. Lives(thread[q].session)' => Lives(s)'
    BY <2>1 DEF Lives
  <2> QED BY <2>1, <2>3, <2>4, <2>5, <2>6
<1> QED BY <1>3, <1>4

\* No session is new to a pane or a request, but for those of X no more.
OnlyOld(X) ==
  /\ \A p, s, w : InstalledAt(p, s, w)' => InstalledAt(p, s, w) /\ s \notin X
  /\ \A q \in Requests : \A s, w : MadeAt(q, s, w)' =>
       MadeAt(q, s, w) /\ s \notin X /\ thread'[q].client = thread[q].client

LEMMA OldDiffer ==
  ASSUME SessionsDiffer, NEW X, OnlyOld(X)
  PROVE  SessionsDiffer'
<1>1. ASSUME NEW p \in DOMAIN attached'
      PROVE  p \in DOMAIN attached /\ attached'[p].session = attached[p].session
  <2>1. PICK s, w : s = attached'[p].session /\ w = attached'[p].of
    OBVIOUS
  <2>2. InstalledAt(p, s, w)'
    BY <2>1 DEF InstalledAt
  <2>3. InstalledAt(p, s, w)
    BY <2>2 DEF OnlyOld
  <2> QED BY <2>1, <2>3 DEF InstalledAt
<1>2. ASSUME NEW q \in Requests, Makes(q)'
      PROVE  Makes(q) /\ thread'[q].session = thread[q].session
  <2>1. PICK s, w : s = thread'[q].session /\ w = thread'[q].of
    OBVIOUS
  <2>2. MadeAt(q, s, w)'
    BY <1>2, <2>1 DEF MadeAt
  <2>3. MadeAt(q, s, w)
    BY <2>2 DEF OnlyOld
  <2> QED BY <2>1, <2>3 DEF MadeAt
<1>3. \A p, o \in DOMAIN attached' : attached'[p].session = attached'[o].session => p = o
  BY <1>1 DEF SessionsDiffer
<1>4. ASSUME NEW q \in Requests, Makes(q)'
      PROVE  /\ \A p \in DOMAIN attached' : thread'[q].session # attached'[p].session
             /\ \A o \in Requests :
                  Makes(o)' /\ thread'[o].session = thread'[q].session => o = q
  BY <1>1, <1>2, <1>4 DEF SessionsDiffer
<1>5. SessionsDiffer' <=>
        /\ \A p, o \in DOMAIN attached' : attached'[p].session = attached'[o].session => p = o
        /\ \A q \in Requests : Makes(q)' =>
             /\ \A p \in DOMAIN attached' : thread'[q].session # attached'[p].session
             /\ \A o \in Requests :
                  Makes(o)' /\ thread'[o].session = thread'[q].session => o = q
  BY DEF SessionsDiffer
<1> QED BY <1>3, <1>4, <1>5

LEMMA EndsHold ==
  ASSUME TmuxTypes, EndsAreTrue, misjudged \subseteq misjudged',
         \A s \in DOMAIN session : session'[s].window = session[s].window,
         \A win \in DOMAIN windows : windows[win] = None => windows'[win] = None,
         \A s \in DOMAIN session' : session'[s].ended =>
           \/ s \in DOMAIN session /\ session[s].ended
           \/ s \in misjudged'
           \/ windows'[session'[s].window] = None
  PROVE  EndsAreTrue'
<1> SUFFICES ASSUME NEW s \in DOMAIN session', session'[s].ended, s \notin misjudged'
             PROVE  windows'[session'[s].window] = None
  BY DEF EndsAreTrue
<1>1. CASE s \in DOMAIN session /\ session[s].ended
  <2>1. windows[session[s].window] = None /\ session[s].window \in DOMAIN windows
    BY <1>1 DEF EndsAreTrue, TmuxTypes
  <2> QED BY <1>1, <2>1
<1> QED BY <1>1

LEMMA FrameHolds ==
  ASSUME TmuxTypes, SessionsDiffer, PanesFit, MadeFit, NEW X, OnlyOld(X),
         \A s \in DOMAIN session : /\ session'[s].window = session[s].window
                                   /\ session'[s].client = session[s].client,
         \A s \in DOMAIN session, w \in LocalWorkstations : Used(s, w) /\ s \notin X => Steady(s, w),
         \A p, win : MovesOn(p, win)
  PROVE  SessionsDiffer' /\ PanesFit' /\ MadeFit'
<1>1. \A p, s, w : InstalledAt(p, s, w)' =>
        /\ InstalledAt(p, s, w) /\ Steady(s, w)
        /\ session'[s].window = session[s].window /\ MovesOn(p, session[s].window)
  <2> SUFFICES ASSUME NEW p, NEW s, NEW w, InstalledAt(p, s, w)'
               PROVE  /\ InstalledAt(p, s, w) /\ Steady(s, w)
                      /\ session'[s].window = session[s].window
                      /\ MovesOn(p, session[s].window)
    OBVIOUS
  <2>1. InstalledAt(p, s, w) /\ s \notin X
    BY DEF OnlyOld
  <2>2. Used(s, w)
    BY <2>1 DEF Used
  <2>3. s \in DOMAIN session /\ w \in LocalWorkstations
    BY <2>2, UsedIs
  <2>4. PICK win : win = session[s].window
    OBVIOUS
  <2>5. MovesOn(p, win)
    OBVIOUS
  <2> QED BY <2>1, <2>2, <2>3, <2>4, <2>5
<1>2. \A q \in Requests : \A s, w : MadeAt(q, s, w)' =>
        /\ MadeAt(q, s, w) /\ Steady(s, w)
        /\ session'[s].client = session[s].client /\ thread'[q].client = thread[q].client
  <2> SUFFICES ASSUME NEW q \in Requests, NEW s, NEW w, MadeAt(q, s, w)'
               PROVE  /\ MadeAt(q, s, w) /\ Steady(s, w)
                      /\ session'[s].client = session[s].client
                      /\ thread'[q].client = thread[q].client
    OBVIOUS
  <2>1. MadeAt(q, s, w) /\ s \notin X /\ thread'[q].client = thread[q].client
    BY DEF OnlyOld
  <2>2. Used(s, w)
    BY <2>1 DEF Used
  <2>3. s \in DOMAIN session /\ w \in LocalWorkstations
    BY <2>2, UsedIs
  <2> QED BY <2>1, <2>2, <2>3
<1>3. PanesFit' /\ MadeFit'
  BY <1>1, <1>2, FitsHold
<1> QED BY <1>3, OldDiffer

HearsOn == \A c \in DOMAIN client : \A win : Hears(c, win) => Hears(c, win)'


\* So the healer's client, or its list.
HealerOn ==
  \A w, win : windows[win] = None /\ HealerHears(w, win) => HealerHears(w, win)'

LEMMA HealerWaits ==
  ASSUME TmuxTypes, HearsOn, healer' = healer
  PROVE  HealerOn
<1> SUFFICES ASSUME NEW w, NEW win, HealerHears(w, win)
             PROVE  HealerHears(w, win)'
  BY DEF HealerOn
<1>1. CASE healer.at \in {"marking", "installing"} /\ healer.of = w
  <2>1. PICK d : d = healer.client
    OBVIOUS
  <2>2. d \in DOMAIN client
    BY <1>1, <2>1, HealerKind DEF IsHealer
  <2>3. Hears(d, win) => Hears(d, win)'
    BY <2>2 DEF HearsOn
  <2>4. Hears(d, win)' => Hears(healer.client, win)'
    BY <2>1 DEF Hears
  <2> QED BY <1>1, <2>1, <2>3, <2>4 DEF HealerHears
<1>2. CASE ~(healer.at \in {"marking", "installing"} /\ healer.of = w)
  BY <1>2 DEF HealerHears
<1> QED BY <1>1, <1>2

LEMMA InPlaceStays ==
  ASSUME TmuxTypes, HearsOn, HealerOn, NEW s \in DOMAIN session, NEW w,
         session'[s].window = session[s].window, session'[s].client = session[s].client,
         windows'[session[s].window] = windows[session[s].window], InPlace(s, w)
  PROVE  InPlace(s, w)'
<1>1. session[s].client \in DOMAIN client
  BY DEF TmuxTypes
<1>2. PICK win, c : win = session[s].window /\ c = session[s].client
  OBVIOUS
<1>3. CASE windows[win] = w
  BY <1>2, <1>3 DEF InPlace
<1>4. CASE windows[win] = None /\ Hears(c, win) /\ HealerHears(w, win)
  <2>1. Hears(c, win)' /\ HealerHears(w, win)'
    BY <1>1, <1>2, <1>4 DEF HearsOn, HealerOn
  <2>2. Hears(c, win)' => Hears(session[s].client, session[s].window)'
    BY <1>2 DEF Hears
  <2>3. HealerHears(w, win)' => HealerHears(w, session[s].window)'
    BY <1>2
  <2> QED BY <1>2, <1>4, <2>1, <2>2, <2>3 DEF InPlace
<1> QED BY <1>2, <1>3, <1>4 DEF InPlace

LEMMA SteadyIf ==
  ASSUME NEW s, NEW w, misjudged \subseteq misjudged',
         session[s].ended => session'[s].ended,
         session'[s].window = session[s].window, session'[s].client = session[s].client,
         client'[session[s].client].of = client[session[s].client].of,
         Lives(s)' /\ Connected(s, w) =>
           /\ session[s].window \in DOMAIN tmux_sinks'[w]
           /\ tmux_sinks'[w][session[s].window] = s,
         Lives(s)' /\ Connected(s, w) /\ InPlace(s, w) => InPlace(s, w)'
  PROVE  Steady(s, w)
<1>1. Lives(s)' => Lives(s)
  BY DEF Lives
<1>2. Lives(s)' /\ Connected(s, w) => Connected(s, w)'
  BY DEF Connected
<1> QED BY <1>1, <1>2 DEF Steady

\* Nothing happens but that clients come, are lost or are told.
LEMMA SteadyCalm ==
  ASSUME TmuxTypes, UNCHANGED <<session, windows, tmux_sinks, misjudged>>, HearsOn, HealerOn,
         \A c \in DOMAIN client : client'[c].of = client[c].of,
         NEW s \in DOMAIN session, NEW w
  PROVE  Steady(s, w)
<1>1. session[s].client \in DOMAIN client
  BY DEF TmuxTypes
<1>2. InPlace(s, w) => InPlace(s, w)'
  BY InPlaceStays
<1>3. Connected(s, w) =>
        /\ session[s].window \in DOMAIN tmux_sinks'[w]
        /\ tmux_sinks'[w][session[s].window] = s
  BY DEF Connected
<1> QED BY <1>1, <1>2, <1>3, SteadyIf

\* What a request does to its own sessions and moves.
LEMMA Remakes ==
  ASSUME NEW q \in Requests, NEW n, thread'[q] = n,
         \A o \in Requests : o # q => thread'[o] = thread[o],
         n.at \in {"resizing", "made"} =>
           /\ Makes(q) /\ n.session = thread[q].session /\ n.of = thread[q].of
           /\ n.client = thread[q].client
  PROVE  \A o \in Requests : \A s, w : MadeAt(o, s, w)' =>
           /\ MadeAt(o, s, w) /\ thread'[o].client = thread[o].client
           /\ o = q => n.at \in {"resizing", "made"}
<1> SUFFICES ASSUME NEW o \in Requests, NEW s, NEW w, MadeAt(o, s, w)'
             PROVE  /\ MadeAt(o, s, w) /\ thread'[o].client = thread[o].client
                    /\ o = q => n.at \in {"resizing", "made"}
  OBVIOUS
<1>1. CASE o = q
  BY <1>1 DEF MadeAt, Makes
<1>2. CASE o # q
  BY <1>2 DEF MadeAt, Makes
<1> QED BY <1>1, <1>2

MovesNow(r) == r.at \in {"attaching", "made", "returning"} /\ r.op = "move"

LEMMA MovesStay ==
  ASSUME NEW q \in Requests, NEW n, thread'[q] = n,
         \A o \in Requests : o # q => thread'[o] = thread[o],
         MovesNow(thread[q]) =>
           MovesNow(n) /\ n.pane = thread[q].pane /\ n.window = thread[q].window
  PROVE  \A p, win : Moves(p, win) => Moves(p, win)'
<1> SUFFICES ASSUME NEW p, NEW win, NEW o \in Requests, MovesBy(o, p, win)
             PROVE  MovesBy(o, p, win)'
  BY DEF Moves
<1>1. CASE o = q
  BY <1>1 DEF MovesBy, MovesNow
<1>2. CASE o # q
  BY <1>2 DEF MovesBy
<1> QED BY <1>1, <1>2

\* A step that leaves sessions, windows and sinks alone.
LEMMA CalmHolds ==
  ASSUME TmuxInv, TmuxTypes', UNCHANGED <<session, windows, tmux_sinks, misjudged>>,
         HearsOn, HealerOn,
         \A c \in DOMAIN client : client'[c].of = client[c].of,
         OnlyOld({}), \A p, win : Moves(p, win) => Moves(p, win)'
  PROVE  TmuxInv'
<1>1. TmuxTypes /\ SessionsDiffer /\ EndsAreTrue /\ PanesFit /\ MadeFit
  BY DEF TmuxInv
<1>2. EndsAreTrue'
  BY <1>1 DEF EndsAreTrue
<1>3. \A s \in DOMAIN session : session'[s].window = session[s].window
                                /\ session'[s].client = session[s].client
  OBVIOUS
<1>4. \A s \in DOMAIN session, w \in LocalWorkstations :
        Used(s, w) /\ s \notin {} => Steady(s, w)
  BY <1>1, SteadyCalm
<1>5. \A p, win : MovesOn(p, win)
  BY DEF MovesOn
<1>6. SessionsDiffer' /\ PanesFit' /\ MadeFit'
  BY <1>1, <1>3, <1>4, <1>5, FrameHolds
<1> QED BY <1>2, <1>6 DEF TmuxInv

-----------------------------------------------------------------------------
(* The actions. *)

\* Of a request, one moment later.
LEMMA Retimed ==
  ASSUME NEW r, NEW at, "at" \in DOMAIN r, NEW n, n = [r EXCEPT !.at = at]
  PROVE  /\ DOMAIN n = DOMAIN r /\ n.at = at
         /\ \A x \in DOMAIN r : x # "at" => n[x] = r[x]
OBVIOUS

LEMMA CalmRequest ==
  ASSUME TmuxInv, NEW q \in Requests, NEW n, Tmux!Becomes(q, n), ClientTypes',
         DOMAIN client \subseteq DOMAIN client',
         \A c \in DOMAIN client : client'[c].of = client[c].of,
         HearsOn,
         \A v \in LocalWorkstations : tmux_clients[v] # None => tmux_clients'[v] # None,
         UNCHANGED <<tmux_sinks, session, attached, windows, healer, misjudged>>,
         n = Tmux!Idle \/ IsRequest(n)', n.at \notin {"resizing", "made"},
         MovesNow(thread[q]) =>
           MovesNow(n) /\ n.pane = thread[q].pane /\ n.window = thread[q].window
  PROVE  TmuxInv'
<1>0. TmuxTypes /\ SessionsDiffer /\ EndsAreTrue /\ PanesFit /\ MadeFit
  BY DEF TmuxInv
<1>1. Grows
  BY DEF Grows
<1>2. /\ thread' = [o \in Requests |-> thread'[o]] /\ thread'[q] = n
      /\ \A o \in Requests : o # q => thread'[o] = thread[o]
      /\ \A o \in Requests : thread'[o] = Tmux!Idle \/ IsRequest(thread[o])'
  BY <1>0, <1>1, OneRequest
<1>3. healer' = Tmux!Idle \/ IsHealer'
  <2>1. CASE healer = Tmux!Idle
    BY <2>1
  <2>2. CASE IsHealer
    BY <2>2, <1>1, HealerStays
  <2> QED BY <1>0, <2>1, <2>2 DEF TmuxTypes
<1>4. SessionTypes' /\ PaneTypes'
  <2>1. SessionTypes /\ PaneTypes
    BY <1>0, TypesAre
  <2> QED BY <2>1 DEF SessionTypes, PaneTypes
<1>5. TmuxTypes'
  BY <1>2, <1>3, <1>4, TypesAreNext
<1>6. HealerOn
  BY <1>0, HealerWaits
<1>7. OnlyOld({})
  <2>1. \A o \in Requests : \A s, w : MadeAt(o, s, w)' =>
          MadeAt(o, s, w) /\ s \notin {} /\ thread'[o].client = thread[o].client
    BY <1>2, Remakes
  <2>2. \A p, s, w : InstalledAt(p, s, w)' => InstalledAt(p, s, w) /\ s \notin {}
    BY DEF InstalledAt
  <2> QED BY <2>1, <2>2 DEF OnlyOld
<1>8. \A p, win : Moves(p, win) => Moves(p, win)'
  BY <1>2, MovesStay
<1> QED BY <1>5, <1>6, <1>7, <1>8, CalmHolds

\* A request that asks for a client of `w` first.
LEMMA StartHolds ==
  ASSUME TmuxInv, NEW q \in Requests, thread[q] = Tmux!Idle, NEW w \in LocalWorkstations, NEW c,
         Tmux!client_for_workspace(w, c), NEW n, Tmux!Becomes(q, n),
         UNCHANGED <<tmux_sinks, session, attached, windows, healer, misjudged>>,
         c \in DOMAIN client' /\ client'[c].of = w => IsRequest(n)',
         n.at \notin {"resizing", "made"}
  PROVE  TmuxInv'
<1>1. ClientTypes
  BY TypesAre DEF TmuxInv
<1>2. /\ ClientTypes' /\ Added /\ c \in DOMAIN client' /\ client'[c].of = w
      /\ \A v \in LocalWorkstations : tmux_clients[v] # None => tmux_clients'[v] # None
  BY <1>1, ForWorkspace
<1>3. ~MovesNow(thread[q])
  BY DEF MovesNow, Tmux!Idle
<1>4. DOMAIN client \subseteq DOMAIN client' /\ \A d \in DOMAIN client : client'[d] = client[d]
  BY <1>2 DEF Added
<1>5. HearsOn
  BY <1>4 DEF HearsOn, Hears
<1>6. n = Tmux!Idle \/ IsRequest(n)'
  BY <1>2
<1> QED BY <1>2, <1>3, <1>4, <1>5, <1>6, CalmRequest

LEMMA CreateHolds ==
  ASSUME TmuxInv, NEW q \in Requests, NEW p \in LocalPanes, NEW w \in LocalWorkstations,
         Tmux!create(q, p, w)
  PROVE  TmuxInv'
<1>1. PICK c \in 1 .. MaxClients :
        /\ Tmux!client_for_workspace(w, c)
        /\ Tmux!Becomes(q, [at |-> "opening", op |-> "create", pane |-> p, of |-> w, client |-> c])
  BY DEF Tmux!create
<1>2. PICK n : n = [at |-> "opening", op |-> "create", pane |-> p, of |-> w, client |-> c]
  OBVIOUS
<1>3. /\ DOMAIN n = {"at", "op", "pane", "of", "client"} /\ n.at = "opening" /\ n.op = "create"
      /\ n.pane = p /\ n.of = w /\ n.client = c
  BY <1>2
<1>4. /\ Tmux!Becomes(q, n) /\ thread[q] = Tmux!Idle
      /\ UNCHANGED <<tmux_sinks, session, attached, windows, healer, misjudged>>
  BY <1>1, <1>2 DEF Tmux!create
<1>5. c \in DOMAIN client' /\ client'[c].of = w => IsRequest(n)'
  BY <1>3 DEF IsRequest, InRequest
<1> QED BY <1>1, <1>3, <1>4, <1>5, StartHolds

LEMMA MoveHolds ==
  ASSUME TmuxInv, NEW q \in Requests, NEW p \in LocalPanes, NEW w \in LocalWorkstations,
         Tmux!move_tab_to_workstation(q, p, w)
  PROVE  TmuxInv'
<1>1. PICK c \in 1 .. MaxClients :
        /\ Tmux!client_for_workspace(w, c)
        /\ Tmux!Becomes(q, [at |-> "moving", op |-> "move", pane |-> p, of |-> w, client |-> c,
                            window |-> Tmux!SessionOf(p).window, from |-> attached[p].of])
  BY DEF Tmux!move_tab_to_workstation
<1>2. PICK n : n = [at |-> "moving", op |-> "move", pane |-> p, of |-> w, client |-> c,
                    window |-> Tmux!SessionOf(p).window, from |-> attached[p].of]
  OBVIOUS
<1>3. /\ DOMAIN n = {"at", "op", "pane", "of", "client", "window", "from"}
      /\ n.at = "moving" /\ n.op = "move" /\ n.pane = p /\ n.of = w /\ n.client = c
      /\ n.window = Tmux!SessionOf(p).window /\ n.from = attached[p].of
  BY <1>2
<1>4. /\ Tmux!Becomes(q, n) /\ thread[q] = Tmux!Idle /\ p \in DOMAIN attached
      /\ UNCHANGED <<tmux_sinks, session, attached, windows, healer, misjudged>>
  BY <1>1, <1>2 DEF Tmux!move_tab_to_workstation
<1>5. Tmux!SessionOf(p).window \in DOMAIN windows /\ attached[p].of \in LocalWorkstations
  BY <1>4 DEF TmuxInv, TmuxTypes, Tmux!SessionOf, Pane
<1>6. c \in DOMAIN client' /\ client'[c].of = w => IsRequest(n)'
  BY <1>3, <1>4, <1>5 DEF IsRequest, InRequest
<1> QED BY <1>1, <1>3, <1>4, <1>6, StartHolds

LEMMA ReattachHolds ==
  ASSUME TmuxInv, NEW q \in Requests, NEW p \in LocalPanes, Tmux!reattach_pane(q, p)
  PROVE  TmuxInv'
<1>1. PICK w, win : w = attached[p].of /\ win = Tmux!SessionOf(p).window
  OBVIOUS
<1>2. PICK c \in 1 .. MaxClients :
        /\ Tmux!client_for_workspace(w, c)
        /\ LET r == [at |-> "opening", op |-> "reattach", pane |-> p, of |-> w, client |-> c]
           IN Tmux!Becomes(q, IF windows[win] # w THEN r
                              ELSE Tmux!Put([r EXCEPT !.at = "attaching"], "window", win))
  BY <1>1 DEF Tmux!reattach_pane
<1>3. PICK r : r = [at |-> "opening", op |-> "reattach", pane |-> p, of |-> w, client |-> c]
  OBVIOUS
<1>4. PICK x : x = [r EXCEPT !.at = "attaching"]
  OBVIOUS
<1>5. PICK y : y = Tmux!Put(x, "window", win)
  OBVIOUS
<1>6. PICK n : n = IF windows[win] # w THEN r ELSE y
  OBVIOUS
<1>7. /\ DOMAIN r = {"at", "op", "pane", "of", "client"}
      /\ r.at = "opening" /\ r.op = "reattach" /\ r.pane = p /\ r.of = w /\ r.client = c
  BY <1>3
<1>8. /\ DOMAIN x = {"at", "op", "pane", "of", "client"}
      /\ x.at = "attaching" /\ x.op = "reattach" /\ x.pane = p /\ x.of = w /\ x.client = c
  BY <1>3, <1>4
<1>9. /\ DOMAIN y = {"at", "op", "pane", "of", "client", "window"} /\ y.window = win
      /\ y.at = "attaching" /\ y.op = "reattach" /\ y.pane = p /\ y.of = w /\ y.client = c
  <2>1. /\ DOMAIN y = DOMAIN x \cup {"window"} /\ y["window"] = win
        /\ \A z \in DOMAIN x : z # "window" => y[z] = x[z]
    BY <1>5 DEF Tmux!Put
  <2>2. DOMAIN y = {"at", "op", "pane", "of", "client", "window"}
    BY <1>8, <2>1
  <2>3. /\ y["at"] = x["at"] /\ y["op"] = x["op"] /\ y["pane"] = x["pane"]
        /\ y["of"] = x["of"] /\ y["client"] = x["client"]
    BY <1>8, <2>1
  <2> QED BY <1>8, <2>1, <2>2, <2>3
<1>10. Tmux!Becomes(q, n)
  BY <1>2, <1>3, <1>4, <1>5, <1>6
<1>11. /\ thread[q] = Tmux!Idle /\ p \in DOMAIN attached
       /\ UNCHANGED <<tmux_sinks, session, attached, windows, healer, misjudged>>
  BY DEF Tmux!reattach_pane
<1>12. win \in DOMAIN windows /\ w \in LocalWorkstations
  BY <1>1, <1>11 DEF TmuxInv, TmuxTypes, Tmux!SessionOf, Pane
<1>13. ASSUME c \in DOMAIN client' /\ client'[c].of = w PROVE IsRequest(n)'
  <2>1. CASE n = r
    BY <2>1, <1>7, <1>11, <1>12, <1>13 DEF IsRequest, InRequest
  <2>2. CASE n = y
    BY <2>2, <1>9, <1>11, <1>12, <1>13 DEF IsRequest, InRequest
  <2> QED BY <1>6, <2>1, <2>2
<1>14. n.at \notin {"resizing", "made"}
  BY <1>6, <1>7, <1>9
<1>15. Tmux!client_for_workspace(w, c)
  BY <1>2
<1> QED BY <1>10, <1>11, <1>12, <1>13, <1>14, <1>15, StartHolds

LEMMA CloseHolds ==
  ASSUME TmuxInv, NEW q \in Requests, NEW p \in LocalPanes, Tmux!close_pane(q, p)
  PROVE  TmuxInv'
<1>1. PICK n : n = [at |-> "terminating", op |-> "close", pane |-> p,
                    client |-> Tmux!SessionOf(p).client, session |-> attached[p].session]
  OBVIOUS
<1>2. /\ DOMAIN n = {"at", "op", "pane", "client", "session"} /\ n.at = "terminating"
      /\ n.op = "close" /\ n.pane = p /\ n.client = Tmux!SessionOf(p).client
      /\ n.session = attached[p].session
  BY <1>1
<1>3. /\ Tmux!Becomes(q, n) /\ thread[q] = Tmux!Idle /\ p \in DOMAIN attached
      /\ UNCHANGED <<tmux_clients, client, tmux_sinks, session, attached, windows, healer,
                     misjudged>>
  BY <1>1 DEF Tmux!close_pane
<1>4. /\ attached[p].session \in DOMAIN session /\ Tmux!SessionOf(p).client \in DOMAIN client
      /\ ClientTypes
  BY <1>3, TypesAre DEF TmuxInv, TmuxTypes, Tmux!SessionOf
<1>5. IsRequest(n)'
  BY <1>2, <1>3, <1>4 DEF IsRequest, InRequest
<1>6. ClientTypes' /\ HearsOn
  BY <1>3, <1>4 DEF ClientTypes, HearsOn, Hears
<1>7. ~MovesNow(thread[q])
  BY <1>3 DEF MovesNow, Tmux!Idle
<1> QED BY <1>2, <1>3, <1>5, <1>6, <1>7, CalmRequest

LEMMA FailsHolds ==
  ASSUME TmuxInv, NEW q \in Requests, Tmux!Fails(q)
  PROVE  TmuxInv'
<1>1. PICK r : r = thread[q]
  OBVIOUS
<1>2. PICK x : x = [r EXCEPT !.at = "returning"]
  OBVIOUS
<1>3. PICK n : n = IF r.op = "move" THEN x ELSE Tmux!Idle
  OBVIOUS
<1>4. /\ r.at \in {"opening", "moving", "attaching"} /\ Tmux!Becomes(q, n)
      /\ UNCHANGED <<tmux_clients, client, tmux_sinks, session, attached, windows, healer,
                     misjudged>>
  BY <1>1, <1>2, <1>3 DEF Tmux!Fails
<1>5. IsRequest(r) /\ ClientTypes
  BY <1>1, <1>4, RequestKind, TypesAre DEF TmuxInv
<1>6. IsRequest(r)' /\ "at" \in DOMAIN r
  BY <1>4, <1>5 DEF IsRequest
<1>7. DOMAIN x = DOMAIN r /\ x.at = "returning" /\ \A y \in DOMAIN r : y # "at" => x[y] = r[y]
  BY <1>2, <1>6, Retimed
<1>8. n = Tmux!Idle \/ IsRequest(n)'
  <2>1. CASE r.op = "move"
    <3>1. n = x
      BY <1>3, <2>1
    <3>2. IsRequest(x)'
      BY <1>4, <1>6, <1>7, <2>1 DEF IsRequest, InRequest
    <3> QED BY <3>1, <3>2
  <2>2. CASE r.op # "move"
    BY <2>2, <1>3
  <2> QED BY <2>1, <2>2
<1>9. n.at \notin {"resizing", "made"}
  BY <1>3, <1>7 DEF Tmux!Idle
<1>10. MovesNow(r) => MovesNow(n) /\ n.pane = r.pane /\ n.window = r.window
  BY <1>3, <1>5, <1>7 DEF MovesNow, IsRequest
<1>11. ClientTypes' /\ HearsOn
  BY <1>4, <1>5 DEF ClientTypes, HearsOn, Hears
<1> QED BY <1>1, <1>4, <1>8, <1>9, <1>10, <1>11, CalmRequest

LEMMA TypesOn ==
  ASSUME TmuxTypes, Grows, ClientTypes', SessionTypes', PaneTypes',
         healer' = Tmux!Idle \/ IsHealer' \/ healer' = healer,
         thread' = [o \in Requests |-> thread'[o]],
         \A o \in Requests : thread'[o] = Tmux!Idle \/ IsRequest(thread[o])'
  PROVE  TmuxTypes'
<1>1. CASE healer' = healer
  <2>1. CASE healer = Tmux!Idle
    BY <1>1, <2>1, TypesAreNext
  <2>2. CASE IsHealer
    <3>1. IsHealer'
      BY <1>1, <2>2, HealerStays
    <3> QED BY <3>1, TypesAreNext
  <2> QED BY <2>1, <2>2 DEF TmuxTypes
<1>2. CASE healer' = Tmux!Idle \/ IsHealer'
  BY <1>2, TypesAreNext
<1> QED BY <1>1, <1>2

\* Neither panes nor requests change.
LEMMA NobodyNew ==
  ASSUME UNCHANGED <<attached, thread>>, NEW X, \A s, w : Used(s, w) => s \notin X
  PROVE  OnlyOld(X) /\ \A p, win : Moves(p, win) => Moves(p, win)'
<1>1. \A p, s, w : InstalledAt(p, s, w)' => InstalledAt(p, s, w)
  BY DEF InstalledAt
<1>2. \A q \in Requests : \A s, w : MadeAt(q, s, w)' =>
        MadeAt(q, s, w) /\ thread'[q].client = thread[q].client
  BY DEF MadeAt, Makes
<1>3. \A p, win : Moves(p, win) => Moves(p, win)'
  BY DEF Moves, MovesBy
<1>4. OnlyOld(X)
  <2>1. \A p, s, w : InstalledAt(p, s, w) => Used(s, w)
    BY DEF Used
  <2>2. \A q \in Requests : \A s, w : MadeAt(q, s, w) => Used(s, w)
    BY DEF Used
  <2> QED BY <1>1, <1>2, <2>1, <2>2 DEF OnlyOld
<1> QED BY <1>3, <1>4

LEMMA LostHolds ==
  ASSUME TmuxInv, NEW c \in DOMAIN client, Tmux!ClientLost(c)
  PROVE  TmuxInv'
<1>0. TmuxTypes /\ ClientTypes /\ SessionTypes /\ PaneTypes
  BY TypesAre DEF TmuxInv
<1>1. PICK r : r = [client[c] EXCEPT !.up = FALSE, !.unread = {}]
  OBVIOUS
<1>2. r \in Client /\ r.of = client[c].of /\ r.up = FALSE
  BY <1>0, <1>1, ClientIs DEF Client
<1>3. /\ client' = [client EXCEPT ![c] = r]
      /\ UNCHANGED <<tmux_clients, tmux_sinks, session, attached, windows, thread, healer,
                     misjudged>>
  BY <1>1 DEF Tmux!ClientLost
<1>4. /\ client' \in Seq(Client) /\ DOMAIN client' = DOMAIN client /\ client'[c] = r
      /\ \A d \in DOMAIN client : d # c => client'[d] = client[d]
  BY <1>0, <1>2, <1>3 DEF ClientTypes
<1>5. \A d \in DOMAIN client : client'[d].of = client[d].of
  BY <1>2, <1>4
<1>6. HearsOn
  BY <1>2, <1>4 DEF HearsOn, Hears
<1>7. Grows /\ ClientTypes' /\ SessionTypes' /\ PaneTypes'
  BY <1>0, <1>3, <1>4, <1>5 DEF Grows, ClientTypes, SessionTypes, PaneTypes
<1>8. TmuxTypes'
  BY <1>0, <1>3, <1>7, NoRequest, TypesOn
<1>9. HealerOn
  BY <1>0, <1>3, <1>6, HealerWaits
<1>10. OnlyOld({}) /\ \A p, win : Moves(p, win) => Moves(p, win)'
  BY <1>3, NobodyNew
<1> QED BY <1>3, <1>5, <1>6, <1>8, <1>9, <1>10, CalmHolds

LEMMA HealHolds ==
  ASSUME TmuxInv, NEW w \in LocalWorkstations, Tmux!heal_local_tmux_clients(w)
  PROVE  TmuxInv'
<1>0. TmuxTypes /\ ClientTypes /\ SessionTypes /\ PaneTypes
  BY TypesAre DEF TmuxInv
<1>1. PICK c : c = IF ~client[tmux_clients[w]].up THEN Len(client') ELSE tmux_clients[w]
  OBVIOUS
<1>2. PICK h : h = [at |-> "listing", of |-> w, client |-> c]
  OBVIOUS
<1>3. /\ DOMAIN h = {"at", "of", "client"} /\ h.at = "listing" /\ h.of = w /\ h.client = c
  BY <1>2
<1>4. /\ healer' = h /\ tmux_clients[w] # None
      /\ client' = IF ~client[tmux_clients[w]].up THEN Tmux!Spawned(w) ELSE client
      /\ UNCHANGED <<tmux_clients, tmux_sinks, session, attached, windows, thread, misjudged>>
  BY <1>1, <1>2 DEF Tmux!heal_local_tmux_clients, Tmux!Heals
<1>5. /\ client' \in Seq(Client) /\ DOMAIN client \subseteq DOMAIN client'
      /\ \A d \in DOMAIN client : client'[d] = client[d]
      /\ \A d \in DOMAIN client' : d \in DOMAIN client \/ client'[d].of = w
      /\ c \in DOMAIN client' /\ client'[c].of = w
  <2>1. CASE ~client[tmux_clients[w]].up
    <3>1. client' = Tmux!Spawned(w) /\ c = Len(client')
      BY <1>1, <1>4, <2>1
    <3> QED BY <1>0, <3>1, SpawnedIs
  <2>2. CASE client[tmux_clients[w]].up
    <3>1. client' = client /\ c = tmux_clients[w]
      BY <1>1, <1>4, <2>2
    <3> QED BY <1>0, <1>4, <3>1 DEF ClientTypes
  <2> QED BY <2>1, <2>2
<1>6. HearsOn
  BY <1>5 DEF HearsOn, Hears
<1>7. HealerOn
  BY <1>3, <1>4 DEF HealerOn, HealerHears
<1>8. Grows /\ ClientTypes' /\ SessionTypes' /\ PaneTypes'
  <2>1. \A d \in DOMAIN client' : tmux_clients'[client'[d].of] # None
    BY <1>0, <1>4, <1>5 DEF ClientTypes
  <2>2. ClientTypes'
    BY <1>0, <1>4, <1>5, <2>1 DEF ClientTypes
  <2> QED BY <1>0, <1>4, <1>5, <2>2 DEF Grows, SessionTypes, PaneTypes
<1>9. IsHealer'
  BY <1>3, <1>4, <1>5 DEF IsHealer
<1>10. TmuxTypes'
  BY <1>0, <1>4, <1>8, <1>9, NoRequest, TypesOn
<1>11. OnlyOld({}) /\ \A p, win : Moves(p, win) => Moves(p, win)'
  BY <1>4, NobodyNew
<1> QED BY <1>4, <1>5, <1>6, <1>7, <1>10, <1>11, CalmHolds

LEMMA ListHolds ==
  ASSUME TmuxInv, Tmux!list_panes
  PROVE  TmuxInv'
<1>0. TmuxTypes /\ ClientTypes /\ SessionTypes /\ PaneTypes
  BY TypesAre DEF TmuxInv
<1>1. PICK listed : listed = {win \in DOMAIN windows : windows[win] = healer.of}
  OBVIOUS
<1>2. PICK x : x = [healer EXCEPT !.at = "marking"]
  OBVIOUS
<1>3. PICK h : h = Tmux!Put(x, "listed", listed)
  OBVIOUS
<1>4. /\ healer.at = "listing"
      /\ healer' = Tmux!Idle \/ healer' = h
      /\ UNCHANGED <<tmux_clients, client, tmux_sinks, session, attached, windows, thread,
                     misjudged>>
  BY <1>1, <1>2, <1>3 DEF Tmux!list_panes
<1>5. /\ {"of", "client"} \subseteq DOMAIN healer
      /\ healer.of \in LocalWorkstations /\ healer.client \in DOMAIN client
      /\ client[healer.client].of = healer.of /\ tmux_clients[healer.of] # None
  BY <1>0, <1>4, HealerKind DEF IsHealer
<1>6. DOMAIN x = DOMAIN healer /\ x.of = healer.of /\ x.client = healer.client
      /\ ("at" \in DOMAIN healer => x.at = "marking")
  BY <1>2, <1>5
<1>7. "at" \in DOMAIN healer
  BY <1>0, <1>4, HealerKind DEF IsHealer
<1>8. DOMAIN h = DOMAIN x \cup {"listed"} /\ h["listed"] = listed
      /\ \A y \in DOMAIN x : y # "listed" => h[y] = x[y]
  BY <1>3 DEF Tmux!Put
<1>9. /\ {"of", "client", "listed"} \subseteq DOMAIN h /\ h.at = "marking"
      /\ h.of = healer.of /\ h.client = healer.client /\ h.listed = listed
  BY <1>5, <1>6, <1>7, <1>8
<1>10. ASSUME healer' = h PROVE IsHealer'
  <2>1. /\ client' = client /\ tmux_clients' = tmux_clients
        /\ h.of \in LocalWorkstations /\ h.client \in DOMAIN client
        /\ client[h.client].of = h.of /\ tmux_clients[h.of] # None
    BY <1>4, <1>5, <1>9
  <2>2. {"at", "of", "client"} \subseteq DOMAIN h /\ "listed" \in DOMAIN h
    BY <1>6, <1>7, <1>8, <1>9
  <2> QED BY <1>9, <1>10, <2>1, <2>2 DEF IsHealer
<1>11. Grows /\ ClientTypes' /\ SessionTypes' /\ PaneTypes' /\ HearsOn
  BY <1>0, <1>4 DEF Grows, ClientTypes, SessionTypes, PaneTypes, HearsOn, Hears
<1>12. TmuxTypes'
  BY <1>0, <1>4, <1>10, <1>11, NoRequest, TypesOn
<1>13. HealerOn
  <2> SUFFICES ASSUME NEW w, NEW win, windows[win] = None
               PROVE  HealerHears(w, win)'
    BY DEF HealerOn
  <2>1. win \notin listed
    BY <1>1, <1>5, NoClientAssumption
  <2>2. CASE healer' = Tmux!Idle
    BY <2>2 DEF HealerHears, Tmux!Idle
  <2>3. CASE healer' = h
    BY <1>9, <2>1, <2>3 DEF HealerHears
  <2> QED BY <1>4, <2>2, <2>3
<1>14. OnlyOld({}) /\ \A p, win : Moves(p, win) => Moves(p, win)'
  BY <1>4, NobodyNew
<1> QED BY <1>4, <1>11, <1>12, <1>13, <1>14, CalmHolds

LEMMA EndedIs ==
  ASSUME SessionTypes, NEW X
  PROVE  /\ Tmux!Ended(X) \in Seq(Session) /\ DOMAIN Tmux!Ended(X) = DOMAIN session
         /\ \A s \in DOMAIN session :
              /\ Tmux!Ended(X)[s].window = session[s].window
              /\ Tmux!Ended(X)[s].client = session[s].client
              /\ Tmux!Ended(X)[s].ended <=> session[s].ended \/ s \in X
<1> DEFINE new(s) == [session[s] EXCEPT !.ended = @ \/ s \in X]
<1>1. PICK n : n = Tmux!Ended(X)
  OBVIOUS
<1>2. n = [s \in DOMAIN session |-> new(s)]
  BY <1>1 DEF Tmux!Ended
<1>3. ASSUME NEW s \in DOMAIN session
      PROVE  /\ new(s) \in Session /\ new(s).window = session[s].window
             /\ new(s).client = session[s].client
             /\ new(s).ended <=> session[s].ended \/ s \in X
  <2>1. PICK r : r = session[s]
    OBVIOUS
  <2>2. r \in Session
    BY <2>1 DEF SessionTypes
  <2>3. PICK b \in BOOLEAN : b <=> r.ended \/ s \in X
    BY <2>2 DEF Session
  <2>4. (r.ended \/ s \in X) = b
    BY <2>2, <2>3 DEF Session
  <2>5. new(s) = [r EXCEPT !.ended = b]
    BY <2>1, <2>4
  <2> HIDE DEF new
  <2>6. /\ new(s) \in Session /\ new(s).window = r.window /\ new(s).client = r.client
        /\ new(s).ended = b
    BY <2>2, <2>5 DEF Session
  <2> QED BY <2>1, <2>3, <2>6
<1> HIDE DEF new
<1>4. DOMAIN n = DOMAIN session /\ \A s \in DOMAIN session : n[s] = new(s)
  BY <1>2
<1>5. n \in Seq(Session)
  <2>1. DOMAIN session = 1 .. Len(session) /\ Len(session) \in Nat
    BY DEF SessionTypes
  <2>2. n \in [1 .. Len(session) -> Session]
    BY <1>2, <1>3, <2>1
  <2> QED BY <2>1, <2>2
<1> QED BY <1>1, <1>3, <1>4, <1>5

\* What Steady needs of a step that changes no session but its end.
LEMMA SteadyEnds ==
  ASSUME SessionTypes, NEW X, session' = Tmux!Ended(X), misjudged \subseteq misjudged',
         \A c \in DOMAIN client : client'[c].of = client[c].of,
         NEW s \in DOMAIN session, NEW w,
         Lives(s)' /\ Connected(s, w) /\ s \notin X =>
           /\ session[s].window \in DOMAIN tmux_sinks'[w]
           /\ tmux_sinks'[w][session[s].window] = s,
         Lives(s)' /\ Connected(s, w) /\ InPlace(s, w) /\ s \notin X => InPlace(s, w)'
  PROVE  Steady(s, w)
<1>1. /\ session'[s].window = session[s].window /\ session'[s].client = session[s].client
      /\ session'[s].ended <=> session[s].ended \/ s \in X
  BY EndedIs
<1>2. client'[session[s].client].of = client[session[s].client].of
  BY DEF SessionTypes
<1>3. Lives(s)' => s \notin X
  BY <1>1 DEF Lives
<1> QED BY <1>1, <1>2, <1>3, SteadyIf

LEMMA ReadsHolds ==
  ASSUME TmuxInv, NEW c \in DOMAIN client, NEW win \in client[c].unread, Tmux!ReadsClose(c, win)
  PROVE  TmuxInv'
<1>0. /\ TmuxTypes /\ SessionsDiffer /\ EndsAreTrue /\ PanesFit /\ MadeFit
      /\ ClientTypes /\ SessionTypes /\ PaneTypes
  BY TypesAre DEF TmuxInv
<1>1. PICK v, fed, r : /\ v = client[c].of /\ fed = Tmux!Fed(v, {win})
                       /\ r = [client[c] EXCEPT !.unread = @ \ {win}]
  OBVIOUS
<1>2. r \in Client /\ r.of = v /\ r.up = client[c].up /\ r.unread = client[c].unread \ {win}
  <2>1. client[c] \in Client
    BY <1>0, ClientIs
  <2> QED BY <1>1, <2>1 DEF Client
<1>3. /\ client' = [client EXCEPT ![c] = r] /\ session' = Tmux!Ended(fed)
      /\ misjudged' = misjudged \cup Tmux!Alive(fed)
      /\ UNCHANGED <<tmux_clients, tmux_sinks, attached, windows, thread, healer>>
  BY <1>1 DEF Tmux!ReadsClose
<1>4. /\ client' \in Seq(Client) /\ DOMAIN client' = DOMAIN client /\ client'[c] = r
      /\ \A d \in DOMAIN client : d # c => client'[d] = client[d]
  BY <1>0, <1>2, <1>3 DEF ClientTypes
<1>5. \A d \in DOMAIN client : client'[d].of = client[d].of
  BY <1>1, <1>2, <1>4
<1>6. \A d \in DOMAIN client : \A x : Hears(d, x) /\ (d # c \/ x # win) => Hears(d, x)'
  BY <1>2, <1>4 DEF Hears
<1>7. /\ session' \in Seq(Session) /\ DOMAIN session' = DOMAIN session
      /\ \A s \in DOMAIN session : /\ session'[s].window = session[s].window
                                   /\ session'[s].client = session[s].client
                                   /\ session'[s].ended <=> session[s].ended \/ s \in fed
  BY <1>0, <1>3, EndedIs
<1>8. Grows /\ ClientTypes' /\ SessionTypes' /\ PaneTypes'
  BY <1>0, <1>3, <1>4, <1>5, <1>7 DEF Grows, ClientTypes, SessionTypes, PaneTypes
<1>9. TmuxTypes'
  BY <1>0, <1>3, <1>8, NoRequest, TypesOn
<1>10. OnlyOld({}) /\ \A p, x : Moves(p, x) => Moves(p, x)'
  BY <1>3, NobodyNew
<1>11. ASSUME NEW s \in DOMAIN session, NEW w \in LocalWorkstations, Used(s, w)
       PROVE  Steady(s, w)
  <2>1. ASSUME Connected(s, w), InPlace(s, w), s \notin fed
        PROVE  InPlace(s, w)'
    <3>1. PICK y, d : y = session[s].window /\ d = session[s].client
      OBVIOUS
    <3>2. d \in DOMAIN client /\ client[d].of = w /\ y \in DOMAIN tmux_sinks[w]
          /\ tmux_sinks[w][y] = s
      BY <1>0, <2>1, <3>1 DEF Connected, SessionTypes
    <3>3. y # win \/ w # v
      BY <1>1, <2>1, <3>2 DEF Tmux!Fed
    <3>4. CASE windows[y] = w
      BY <1>3, <1>7, <3>1, <3>4 DEF InPlace
    <3>5. CASE windows[y] = None /\ Hears(d, y) /\ HealerHears(w, y)
      <4>1. Hears(d, y)'
        BY <1>1, <1>6, <3>2, <3>3, <3>5
      <4>2. HealerHears(w, y)'
        <5>1. CASE healer.at \in {"marking", "installing"} /\ healer.of = w
          <6>1. PICK e : e = healer.client
            OBVIOUS
          <6>2. e \in DOMAIN client /\ client[e].of = w
            BY <1>0, <5>1, <6>1, HealerKind DEF IsHealer
          <6>3. Hears(e, y) => Hears(e, y)'
            BY <1>1, <1>6, <3>3, <6>2
          <6>4. Hears(e, y)' => Hears(healer.client, y)'
            BY <1>3, <6>1 DEF Hears
          <6> QED BY <1>3, <3>5, <5>1, <6>1, <6>3, <6>4 DEF HealerHears
        <5>2. CASE ~(healer.at \in {"marking", "installing"} /\ healer.of = w)
          BY <1>3, <5>2 DEF HealerHears
        <5> QED BY <5>1, <5>2
      <4>3. Hears(d, y)' => Hears(session[s].client, session[s].window)'
        BY <1>7, <3>1 DEF Hears
      <4>4. HealerHears(w, y)' => HealerHears(w, session[s].window)'
        BY <1>7, <3>1
      <4> QED BY <1>3, <1>7, <3>1, <3>5, <4>1, <4>2, <4>3, <4>4 DEF InPlace
    <3> QED BY <2>1, <3>1, <3>4, <3>5 DEF InPlace
  <2>2. Connected(s, w) => /\ session[s].window \in DOMAIN tmux_sinks'[w]
                           /\ tmux_sinks'[w][session[s].window] = s
    BY <1>3 DEF Connected
  <2>3. misjudged \subseteq misjudged'
    BY <1>3
  <2> QED BY <1>0, <1>3, <1>5, <2>1, <2>2, <2>3, SteadyEnds
<1>12. \A p, x : MovesOn(p, x)
  BY <1>10 DEF MovesOn
<1>13. SessionsDiffer' /\ PanesFit' /\ MadeFit'
  <2>1. \A s \in DOMAIN session, w \in LocalWorkstations :
          Used(s, w) /\ s \notin {} => Steady(s, w)
    BY <1>11
  <2> QED BY <1>0, <1>7, <1>10, <1>12, <2>1, FrameHolds
<1>14. EndsAreTrue'
  <2>1. \A s \in DOMAIN session' : session'[s].ended =>
           \/ s \in DOMAIN session /\ session[s].ended
           \/ s \in misjudged'
           \/ windows'[session'[s].window] = None
    BY <1>3, <1>7 DEF Tmux!Alive
  <2> QED BY <1>0, <1>3, <1>7, <2>1, EndsHold
<1> QED BY <1>9, <1>13, <1>14 DEF TmuxInv

\* A window that closes: its clients are told, the healer's too.
LEMMA ClosesInPlace ==
  ASSUME TmuxTypes, MadeFit, NEW x \in DOMAIN windows, windows[x] # None,
         windows' = [windows EXCEPT ![x] = None], client' = Tmux!Told(windows[x], x),
         healer' = healer, NEW s \in DOMAIN session, NEW w, Used(s, w),
         session'[s].window = session[s].window, session'[s].client = session[s].client,
         Connected(s, w), InPlace(s, w)
  PROVE  InPlace(s, w)'
<1>0. ClientTypes /\ SessionTypes
  BY TypesAre
<1>1. PICK v, n : v = windows[x] /\ n = Tmux!Told(v, x)
  OBVIOUS
<1>2. client' = n /\ x \in Nat
  BY <1>0, <1>1 DEF SessionTypes
<1>3. Telling(n) /\ \A c \in DOMAIN client : client[c].of = v /\ Tmux!IsUp(c) => x \in n[c].unread
  BY <1>0, <1>1, <1>2, ToldIs
<1>4. HearsOn
  BY <1>2, <1>3 DEF HearsOn, Hears, Telling
<1>5. HealerOn
  BY <1>4, HealerWaits
<1>6. PICK y, d : y = session[s].window /\ d = session[s].client
  OBVIOUS
<1>7. d \in DOMAIN client /\ y \in DOMAIN windows /\ client[d].of = w /\ Tmux!Held(d)
  BY <1>6, UsedIs DEF Connected
<1>8. CASE y # x
  <2>1. windows'[y] = windows[y]
    BY <1>7, <1>8
  <2> QED BY <1>4, <1>5, <1>6, <2>1, InPlaceStays
<1>9. CASE y = x
  <2>1. v = w /\ windows'[y] = None
    BY <1>1, <1>6, <1>7, <1>9 DEF InPlace
  <2>2. ASSUME NEW c \in DOMAIN client, client[c].of = w, Tmux!Held(c) PROVE Hears(c, y)'
    BY <1>2, <1>3, <1>9, <2>1, <2>2 DEF Hears, Tmux!IsUp, Telling
  <2>3. Hears(d, y)'
    BY <1>7, <2>2
  <2>4. HealerHears(w, y)'
    <3>1. CASE healer.at \in {"marking", "installing"} /\ healer.of = w
      <4>1. PICK e : e = healer.client
        OBVIOUS
      <4>2. e \in DOMAIN client /\ client[e].of = w /\ healer # Tmux!Idle
        BY <3>1, <4>1, HealerKind DEF IsHealer
      <4>3. Tmux!Held(e)
        BY <4>1, <4>2 DEF Tmux!Held
      <4>4. Hears(e, y)'
        BY <2>2, <4>2, <4>3
      <4>5. Hears(e, y)' => Hears(healer.client, y)'
        BY <4>1 DEF Hears
      <4> QED BY <4>4, <4>5 DEF HealerHears
    <3>2. CASE ~(healer.at \in {"marking", "installing"} /\ healer.of = w)
      BY <3>2 DEF HealerHears
    <3> QED BY <3>1, <3>2
  <2>5. Hears(d, y)' => Hears(session[s].client, session[s].window)'
    BY <1>6 DEF Hears
  <2>6. HealerHears(w, y)' => HealerHears(w, session[s].window)'
    BY <1>6
  <2> QED BY <1>6, <2>1, <2>3, <2>4, <2>5, <2>6 DEF InPlace
<1> QED BY <1>8, <1>9

LEMMA ClosedTypes ==
  ASSUME TmuxTypes, NEW x \in DOMAIN windows, NEW v,
         windows' = [windows EXCEPT ![x] = v], v \in LocalWorkstations \cup {None}
  PROVE  /\ windows' \in Seq(LocalWorkstations \cup {None}) /\ DOMAIN windows' = DOMAIN windows
         /\ windows'[x] = v /\ \A y \in DOMAIN windows : y # x => windows'[y] = windows[y]
BY DEF TmuxTypes

LEMMA ProgramHolds ==
  ASSUME TmuxInv, NEW x \in DOMAIN windows, Tmux!ProgramEnds(x)
  PROVE  TmuxInv'
<1>0. /\ TmuxTypes /\ SessionsDiffer /\ EndsAreTrue /\ PanesFit /\ MadeFit
      /\ ClientTypes /\ SessionTypes /\ PaneTypes
  BY TypesAre DEF TmuxInv
<1>1. /\ windows[x] # None /\ windows' = [windows EXCEPT ![x] = None]
      /\ client' = Tmux!Told(windows[x], x)
      /\ UNCHANGED <<tmux_clients, tmux_sinks, session, attached, thread, healer, misjudged>>
  BY DEF Tmux!ProgramEnds
<1>2. PICK n : n = Tmux!Told(windows[x], x)
  OBVIOUS
<1>3. x \in Nat
  BY <1>0 DEF SessionTypes
<1>4. Telling(n)
  BY <1>0, <1>2, <1>3, ToldIs
<1>5. /\ ClientTypes' /\ DOMAIN client' = DOMAIN client
      /\ \A c \in DOMAIN client : client'[c].of = client[c].of
  BY <1>0, <1>1, <1>2, <1>4, TellingKeeps
<1>6. /\ windows' \in Seq(LocalWorkstations \cup {None}) /\ DOMAIN windows' = DOMAIN windows
      /\ windows'[x] = None /\ \A y \in DOMAIN windows : y # x => windows'[y] = windows[y]
  BY <1>0, <1>1, ClosedTypes
<1>7. Grows /\ SessionTypes' /\ PaneTypes'
  BY <1>0, <1>1, <1>5, <1>6 DEF Grows, SessionTypes, PaneTypes
<1>8. TmuxTypes'
  BY <1>0, <1>1, <1>5, <1>7, NoRequest, TypesOn
<1>9. OnlyOld({}) /\ \A p, y : Moves(p, y) => Moves(p, y)'
  BY <1>1, NobodyNew
<1>10. ASSUME NEW s \in DOMAIN session, NEW w \in LocalWorkstations, Used(s, w)
       PROVE  Steady(s, w)
  <2>1. /\ session'[s].window = session[s].window /\ session'[s].client = session[s].client
        /\ session[s].ended => session'[s].ended
        /\ misjudged \subseteq misjudged'
    BY <1>1
  <2>2. Connected(s, w) /\ InPlace(s, w) => InPlace(s, w)'
    BY <1>0, <1>1, <1>10, <2>1, ClosesInPlace
  <2>3. Connected(s, w) => /\ session[s].window \in DOMAIN tmux_sinks'[w]
                           /\ tmux_sinks'[w][session[s].window] = s
    BY <1>1 DEF Connected
  <2>4. client'[session[s].client].of = client[session[s].client].of
    BY <1>0, <1>5 DEF SessionTypes
  <2> QED BY <2>1, <2>2, <2>3, <2>4, SteadyIf
<1>11. \A p, y : MovesOn(p, y)
  BY <1>9 DEF MovesOn
<1>12. SessionsDiffer' /\ PanesFit' /\ MadeFit'
  <2>1. \A s \in DOMAIN session, w \in LocalWorkstations :
          Used(s, w) /\ s \notin {} => Steady(s, w)
    BY <1>10
  <2>2. \A s \in DOMAIN session : /\ session'[s].window = session[s].window
                                  /\ session'[s].client = session[s].client
    BY <1>1
  <2> QED BY <1>0, <1>9, <1>11, <2>1, <2>2, FrameHolds
<1>13. EndsAreTrue'
  BY <1>0, <1>1, <1>6, EndsHold
<1> QED BY <1>8, <1>12, <1>13 DEF TmuxInv

LEMMA MarksHolds ==
  ASSUME TmuxInv, Tmux!mark_missing_panes_exited
  PROVE  TmuxInv'
<1>0. /\ TmuxTypes /\ SessionsDiffer /\ EndsAreTrue /\ PanesFit /\ MadeFit
      /\ ClientTypes /\ SessionTypes /\ PaneTypes
  BY TypesAre DEF TmuxInv
<1>1. PICK v, missing, h : /\ v = healer.of
                           /\ missing = Tmux!Fed(v, DOMAIN windows \ healer.listed)
                           /\ h = [healer EXCEPT !.at = "installing"]
  OBVIOUS
<1>2. /\ healer.at = "marking" /\ healer' = h /\ session' = Tmux!Ended(missing)
      /\ misjudged' = misjudged \cup Tmux!Alive(missing)
      /\ UNCHANGED <<tmux_clients, client, tmux_sinks, attached, windows, thread>>
  BY <1>1 DEF Tmux!mark_missing_panes_exited
<1>3. IsHealer
  BY <1>0, <1>2, HealerKind
<1>4. /\ h.at = "installing" /\ h.of = v /\ h.client = healer.client
      /\ h.listed = healer.listed /\ DOMAIN h = DOMAIN healer
  BY <1>1, <1>2, <1>3 DEF IsHealer
<1>5. IsHealer'
  BY <1>1, <1>2, <1>3, <1>4 DEF IsHealer
<1>6. /\ session' \in Seq(Session) /\ DOMAIN session' = DOMAIN session
      /\ \A s \in DOMAIN session : /\ session'[s].window = session[s].window
                                   /\ session'[s].client = session[s].client
                                   /\ session'[s].ended <=> session[s].ended \/ s \in missing
  BY <1>0, <1>2, EndedIs
<1>7. Grows /\ ClientTypes' /\ SessionTypes' /\ PaneTypes'
  BY <1>0, <1>2, <1>6 DEF Grows, ClientTypes, SessionTypes, PaneTypes
<1>8. TmuxTypes'
  BY <1>0, <1>2, <1>5, <1>7, NoRequest, TypesOn
<1>9. OnlyOld({}) /\ \A p, x : Moves(p, x) => Moves(p, x)'
  BY <1>2, NobodyNew
<1>10. ASSUME NEW s \in DOMAIN session, NEW w \in LocalWorkstations, Used(s, w)
       PROVE  Steady(s, w)
  <2>1. ASSUME Connected(s, w), InPlace(s, w), s \notin missing
        PROVE  InPlace(s, w)'
    <3>1. PICK y, d : y = session[s].window /\ d = session[s].client
      OBVIOUS
    <3>2. /\ y \in DOMAIN tmux_sinks[w] /\ tmux_sinks[w][y] = s
          /\ y \in DOMAIN windows
      BY <1>0, <2>1, <3>1 DEF Connected, SessionTypes
    <3>3. w = v => y \in healer.listed
      BY <1>1, <2>1, <3>2 DEF Tmux!Fed
    <3>4. CASE windows[y] = w
      BY <1>2, <1>6, <3>1, <3>4 DEF InPlace
    <3>5. CASE windows[y] = None /\ Hears(d, y) /\ HealerHears(w, y)
      <4>1. Hears(d, y)'
        BY <1>2, <3>5 DEF Hears
      <4>2. HealerHears(w, y)'
        <5>1. CASE w = v
          <6>1. Hears(healer.client, y)
            BY <1>1, <1>2, <3>3, <3>5, <5>1 DEF HealerHears
          <6>2. Hears(healer.client, y)'
            BY <1>2, <1>4, <6>1 DEF Hears
          <6> QED BY <6>2 DEF HealerHears
        <5>2. CASE w # v
          BY <1>2, <1>4, <5>2 DEF HealerHears
        <5> QED BY <5>1, <5>2
      <4>3. Hears(d, y)' => Hears(session[s].client, session[s].window)'
        BY <1>6, <3>1 DEF Hears
      <4>4. HealerHears(w, y)' => HealerHears(w, session[s].window)'
        BY <1>6, <3>1
      <4> QED BY <1>2, <1>6, <3>1, <3>5, <4>1, <4>2, <4>3, <4>4 DEF InPlace
    <3> QED BY <2>1, <3>1, <3>4, <3>5 DEF InPlace
  <2>2. Connected(s, w) => /\ session[s].window \in DOMAIN tmux_sinks'[w]
                           /\ tmux_sinks'[w][session[s].window] = s
    BY <1>2 DEF Connected
  <2>3. misjudged \subseteq misjudged' /\ \A c \in DOMAIN client : client'[c].of = client[c].of
    BY <1>2
  <2> QED BY <1>0, <1>2, <2>1, <2>2, <2>3, SteadyEnds
<1>11. \A p, x : MovesOn(p, x)
  BY <1>9 DEF MovesOn
<1>12. SessionsDiffer' /\ PanesFit' /\ MadeFit'
  <2>1. \A s \in DOMAIN session, w \in LocalWorkstations :
          Used(s, w) /\ s \notin {} => Steady(s, w)
    BY <1>10
  <2> QED BY <1>0, <1>6, <1>9, <1>11, <2>1, FrameHolds
<1>13. EndsAreTrue'
  <2>1. \A s \in DOMAIN session' : session'[s].ended =>
           \/ s \in DOMAIN session /\ session[s].ended
           \/ s \in misjudged'
           \/ windows'[session'[s].window] = None
    BY <1>2, <1>6 DEF Tmux!Alive
  <2> QED BY <1>0, <1>2, <1>6, <2>1, EndsHold
<1> QED BY <1>8, <1>12, <1>13 DEF TmuxInv

\* The sessions of the panes stay the same, and so do those that requests make.
LEMMA SameDiffer ==
  ASSUME SessionsDiffer, DOMAIN attached' \subseteq DOMAIN attached,
         \A p \in DOMAIN attached' : attached'[p].session = attached[p].session,
         thread' = thread
  PROVE  SessionsDiffer'
<1>1. \A q \in Requests : Makes(q)' => Makes(q)
  BY DEF Makes
<1>2. ASSUME NEW q \in Requests, Makes(q)'
      PROVE  /\ \A p \in DOMAIN attached' : thread'[q].session # attached'[p].session
             /\ \A o \in Requests :
                  Makes(o)' /\ thread'[o].session = thread'[q].session => o = q
  BY <1>1, <1>2 DEF SessionsDiffer
<1>3. \A p, o \in DOMAIN attached' : attached'[p].session = attached'[o].session => p = o
  BY DEF SessionsDiffer
<1> QED BY <1>2, <1>3 DEF SessionsDiffer

LEMMA MovesEndedHolds ==
  ASSUME TmuxInv, NEW q \in Requests, NEW p \in LocalPanes, NEW to \in LocalWorkstations,
         Tmux!MovesEnded(q, p, to)
  PROVE  TmuxInv'
<1>0. /\ TmuxTypes /\ SessionsDiffer /\ EndsAreTrue /\ PanesFit /\ MadeFit
      /\ ClientTypes /\ SessionTypes /\ PaneTypes
  BY TypesAre DEF TmuxInv
<1>1. PICK r : r = [attached[p] EXCEPT !.of = to]
  OBVIOUS
<1>2. /\ p \in DOMAIN attached /\ Tmux!SessionOf(p).ended /\ attached' = [attached EXCEPT ![p] = r]
      /\ UNCHANGED <<tmux_clients, client, tmux_sinks, session, windows, thread, healer,
                     misjudged>>
  BY <1>1 DEF Tmux!MovesEnded
<1>3. r \in Pane /\ r.of = to /\ r.session = attached[p].session
  <2>1. attached[p] \in Pane
    BY <1>0, <1>2 DEF PaneTypes
  <2> QED BY <1>1, <2>1 DEF Pane
<1>4. /\ DOMAIN attached' = DOMAIN attached /\ attached'[p] = r
      /\ \A x \in DOMAIN attached : x # p => attached'[x] = attached[x]
      /\ attached' \in [DOMAIN attached' -> Pane]
  BY <1>0, <1>2, <1>3 DEF PaneTypes
<1>5. \A x \in DOMAIN attached : attached'[x].session = attached[x].session
  BY <1>3, <1>4
<1>6. Grows /\ ClientTypes' /\ SessionTypes' /\ PaneTypes' /\ HearsOn
  BY <1>0, <1>2, <1>4, <1>5
     DEF Grows, ClientTypes, SessionTypes, PaneTypes, HearsOn, Hears
<1>7. TmuxTypes'
  BY <1>0, <1>2, <1>6, NoRequest, TypesOn
<1>8. SessionsDiffer'
  BY <1>0, <1>2, <1>4, <1>5, SameDiffer
<1>9. HealerOn
  BY <1>0, <1>2, <1>6, HealerWaits
<1>10. \A s \in DOMAIN session : \A w : Steady(s, w)
  BY <1>0, <1>2, <1>6, <1>9, SteadyCalm
<1>11. \A x, win : MovesOn(x, win)
  BY <1>2 DEF MovesOn, Moves, MovesBy
<1>12. ASSUME NEW x, NEW s, NEW w, InstalledAt(x, s, w)'
       PROVE  \/ /\ InstalledAt(x, s, w) /\ Steady(s, w)
                 /\ session'[s].window = session[s].window /\ MovesOn(x, session[s].window)
              \/ Lives(s)' => /\ Connected(s, w)'
                              /\ InPlace(s, w)' \/ Moves(x, session[s].window)'
  <2>1. CASE x = p
    <3>1. s = attached[p].session
      BY <1>3, <1>4, <1>12, <2>1 DEF InstalledAt
    <3>2. ~Lives(s)'
      BY <1>2, <3>1 DEF Lives, Tmux!SessionOf
    <3> QED BY <3>2
  <2>2. CASE x # p
    <3>1. InstalledAt(x, s, w)
      BY <1>4, <1>12, <2>2 DEF InstalledAt
    <3>2. s \in DOMAIN session
      BY <1>0, <3>1 DEF InstalledAt, PaneTypes
    <3>3. PICK win : win = session[s].window
      OBVIOUS
    <3>4. MovesOn(x, win)
      BY <1>11
    <3> QED BY <1>2, <1>10, <3>1, <3>2, <3>3, <3>4
  <2> QED BY <2>1, <2>2
<1>13. ASSUME NEW o \in Requests, NEW s, NEW w, MadeAt(o, s, w)'
       PROVE  /\ MadeAt(o, s, w) /\ Steady(s, w)
              /\ session'[s].client = session[s].client
              /\ thread'[o].client = thread[o].client
  <2>1. MadeAt(o, s, w)
    BY <1>2, <1>13 DEF MadeAt, Makes
  <2>2. s \in DOMAIN session
    BY <1>0, <2>1, MakerKind DEF MadeAt
  <2> QED BY <1>2, <1>10, <2>1, <2>2
<1>14. PanesFit' /\ MadeFit'
  BY <1>0, <1>12, <1>13, FitsHold
<1>15. EndsAreTrue'
  BY <1>0, <1>2 DEF EndsAreTrue
<1> QED BY <1>7, <1>8, <1>14, <1>15 DEF TmuxInv

LEMMA InstallsHolds ==
  ASSUME TmuxInv, Tmux!InstallsClient
  PROVE  TmuxInv'
<1>0. /\ TmuxTypes /\ SessionsDiffer /\ EndsAreTrue /\ PanesFit /\ MadeFit
      /\ ClientTypes /\ SessionTypes /\ PaneTypes
  BY TypesAre DEF TmuxInv
<1>1. PICK v, c : v = healer.of /\ c = healer.client
  OBVIOUS
<1>2. /\ healer.at = "installing" /\ healer' = Tmux!Idle
      /\ tmux_clients' = [tmux_clients EXCEPT ![v] = c] /\ session' = Tmux!Replaced(v, c)
      /\ UNCHANGED <<client, tmux_sinks, attached, windows, thread, misjudged>>
  BY <1>1 DEF Tmux!InstallsClient
<1>3. v \in LocalWorkstations /\ c \in DOMAIN client /\ client[c].of = v /\ c \in Nat /\ c # None
  BY <1>0, <1>1, <1>2, HealerKind, NoClientAssumption DEF IsHealer, ClientTypes
<1>4. /\ tmux_clients' = [w \in LocalWorkstations |-> tmux_clients'[w]] /\ tmux_clients'[v] = c
      /\ \A w \in LocalWorkstations : w # v => tmux_clients'[w] = tmux_clients[w]
  BY <1>0, <1>2, <1>3 DEF ClientTypes
<1>5. ClientTypes'
  <2>1. \A w \in LocalWorkstations : tmux_clients'[w] # None =>
           tmux_clients'[w] \in DOMAIN client' /\ client'[tmux_clients'[w]].of = w
    BY <1>0, <1>2, <1>3, <1>4 DEF ClientTypes
  <2>2. \A d \in DOMAIN client' : tmux_clients'[client'[d].of] # None
    BY <1>0, <1>2, <1>3, <1>4, ClientIs DEF ClientTypes
  <2> QED BY <1>0, <1>2, <1>4, <2>1, <2>2 DEF ClientTypes
<1>6. /\ session' \in Seq(Session) /\ DOMAIN session' = DOMAIN session
      /\ \A s \in DOMAIN session :
           /\ session'[s].window = session[s].window /\ session'[s].ended = session[s].ended
           /\ session'[s].client = session[s].client \/ session'[s].client = c
           /\ (\E p : InstalledAt(p, s, v)) => session'[s].client = c
           /\ ~(\E p : InstalledAt(p, s, v)) => session'[s].client = session[s].client
  <2> DEFINE new(s) == IF \E p \in DOMAIN attached : attached[p] = [of |-> v, session |-> s]
                       THEN [session[s] EXCEPT !.client = c] ELSE session[s]
  <2>1. session' = [s \in DOMAIN session |-> new(s)]
    BY <1>2 DEF Tmux!Replaced
  <2>2. ASSUME NEW s \in DOMAIN session
        PROVE  (\E p \in DOMAIN attached : attached[p] = [of |-> v, session |-> s])
                 <=> \E p : InstalledAt(p, s, v)
    <3>1. ASSUME NEW p \in DOMAIN attached
          PROVE  attached[p] = [of |-> v, session |-> s] <=> InstalledAt(p, s, v)
      <4>1. PICK x : x = attached[p]
        OBVIOUS
      <4>2. x \in Pane
        BY <1>0, <4>1 DEF PaneTypes
      <4>3. x = [of |-> v, session |-> s] <=> x.session = s /\ x.of = v
        BY <4>2 DEF Pane
      <4> QED BY <4>1, <4>3 DEF InstalledAt
    <3> QED BY <3>1 DEF InstalledAt
  <2>3. ASSUME NEW s \in DOMAIN session
        PROVE  /\ new(s) \in Session
               /\ new(s).window = session[s].window /\ new(s).ended = session[s].ended
               /\ new(s).client = session[s].client \/ new(s).client = c
               /\ (\E p : InstalledAt(p, s, v)) => new(s).client = c
               /\ ~(\E p : InstalledAt(p, s, v)) => new(s).client = session[s].client
    <3>1. PICK r, x : r = session[s] /\ x = [r EXCEPT !.client = c]
      OBVIOUS
    <3>2. r \in Session
      BY <1>0, <3>1 DEF SessionTypes
    <3>3. x \in Session /\ x.window = r.window /\ x.ended = r.ended /\ x.client = c
      BY <1>3, <3>1, <3>2 DEF Session
    <3>4. CASE \E p : InstalledAt(p, s, v)
      <4>1. new(s) = x
        BY <2>2, <3>1, <3>4
      <4> HIDE DEF new
      <4> QED BY <3>1, <3>3, <3>4, <4>1
    <3>5. CASE ~\E p : InstalledAt(p, s, v)
      <4>1. new(s) = r
        BY <2>2, <3>1, <3>5
      <4> HIDE DEF new
      <4> QED BY <3>1, <3>2, <3>5, <4>1
    <3> QED BY <3>4, <3>5
  <2> HIDE DEF new
  <2>4. session' \in Seq(Session)
    <3>1. DOMAIN session = 1 .. Len(session) /\ Len(session) \in Nat
      BY <1>0 DEF SessionTypes
    <3>2. session' \in [1 .. Len(session) -> Session]
      BY <2>1, <2>3, <3>1
    <3> QED BY <3>1, <3>2
  <2> QED BY <2>1, <2>3, <2>4
<1>7. Grows /\ SessionTypes' /\ PaneTypes'
  <2>1. \A w \in LocalWorkstations : tmux_clients[w] # None => tmux_clients'[w] # None
    BY <1>3, <1>4
  <2> QED BY <1>0, <1>2, <1>3, <1>6, <2>1 DEF Grows, SessionTypes, PaneTypes
<1>8. TmuxTypes'
  BY <1>0, <1>2, <1>5, <1>7, NoRequest, TypesOn
<1>9. SessionsDiffer'
  BY <1>0, <1>2, SameDiffer
<1>10. \A x, win : MovesOn(x, win)
  BY <1>2 DEF MovesOn, Moves, MovesBy
<1>11. \A w, win : HealerHears(w, win)'
  BY <1>2 DEF HealerHears, Tmux!Idle
<1>12. HearsOn /\ HealerOn
  BY <1>2, <1>11 DEF HearsOn, Hears, HealerOn
<1>13. ASSUME NEW s \in DOMAIN session, NEW w,
              session'[s].client = session[s].client \/ (w = v /\ session'[s].client = c)
       PROVE  Steady(s, w)
  <2>1. Lives(s)' => Lives(s)
    BY <1>2, <1>6 DEF Lives
  <2>2. PICK win, d, e : win = session[s].window /\ d = session[s].client /\ e = session'[s].client
    OBVIOUS
  <2>3. Connected(s, w) => Connected(s, w)'
    BY <1>2, <1>3, <1>6, <1>13 DEF Connected
  <2>4. Hears(d, win) /\ HealerHears(w, win) => Hears(e, win)
    BY <1>1, <1>2, <1>13, <2>2 DEF HealerHears
  <2>5. Hears(e, win) => Hears(session[s].client, session[s].window)'
    BY <1>2, <1>6, <2>2 DEF Hears
  <2>6. HealerHears(w, session[s].window)'
    <3>1. PICK y : y = session'[s].window
      OBVIOUS
    <3>2. HealerHears(w, y)'
      BY <1>11
    <3> QED BY <3>1, <3>2
  <2>7. InPlace(s, w) => InPlace(s, w)'
    BY <1>2, <1>6, <2>2, <2>4, <2>5, <2>6 DEF InPlace
  <2> QED BY <2>1, <2>3, <2>7 DEF Steady
<1>14. ASSUME NEW x, NEW s, NEW w, InstalledAt(x, s, w)'
       PROVE  /\ InstalledAt(x, s, w) /\ Steady(s, w)
              /\ session'[s].window = session[s].window /\ MovesOn(x, session[s].window)
  <2>1. InstalledAt(x, s, w)
    BY <1>2, <1>14 DEF InstalledAt
  <2>2. s \in DOMAIN session
    BY <1>0, <2>1 DEF InstalledAt, PaneTypes
  <2>3. w # v => ~\E p : InstalledAt(p, s, v)
    BY <1>0, <2>1 DEF SessionsDiffer, InstalledAt
  <2>4. session'[s].client = session[s].client \/ (w = v /\ session'[s].client = c)
    BY <1>6, <2>2, <2>3
  <2>5. Steady(s, w)
    BY <1>13, <2>2, <2>4
  <2>6. PICK win : win = session[s].window
    OBVIOUS
  <2>7. MovesOn(x, win)
    BY <1>10
  <2> QED BY <1>6, <2>1, <2>2, <2>5, <2>6, <2>7
<1>15. ASSUME NEW o \in Requests, NEW s, NEW w, MadeAt(o, s, w)'
       PROVE  /\ MadeAt(o, s, w) /\ Steady(s, w)
              /\ session'[s].client = session[s].client
              /\ thread'[o].client = thread[o].client
  <2>1. MadeAt(o, s, w)
    BY <1>2, <1>15 DEF MadeAt, Makes
  <2>2. s \in DOMAIN session
    BY <1>0, <2>1, MakerKind DEF MadeAt
  <2>3. ~\E p : InstalledAt(p, s, v)
    BY <1>0, <2>1 DEF SessionsDiffer, InstalledAt, MadeAt
  <2>4. session'[s].client = session[s].client
    BY <1>6, <2>2, <2>3
  <2>5. Steady(s, w)
    BY <1>13, <2>2, <2>4
  <2> QED BY <1>2, <2>1, <2>4, <2>5
<1>16. PanesFit' /\ MadeFit'
  BY <1>0, <1>14, <1>15, FitsHold
<1>17. EndsAreTrue'
  BY <1>0, <1>2, <1>6 DEF EndsAreTrue
<1> QED BY <1>8, <1>9, <1>16, <1>17 DEF TmuxInv

\* A request makes a session, or goes on without one.
LEMMA MakesHolds ==
  ASSUME TmuxInv, TmuxTypes', NEW q \in Requests, NEW n, thread'[q] = n,
         \A o \in Requests : o # q => thread'[o] = thread[o],
         UNCHANGED <<client, attached, healer>>,
         NEW s1, s1 \notin DOMAIN session, DOMAIN session' = DOMAIN session \cup {s1},
         \A s \in DOMAIN session : session'[s] = session[s],
         ~session'[s1].ended,
         \A x \in DOMAIN windows : windows'[x] = windows[x],
         misjudged \subseteq misjudged',
         \A s \in DOMAIN session, w \in LocalWorkstations : s \notin misjudged' /\ Connected(s, w) =>
           /\ session[s].window \in DOMAIN tmux_sinks'[w]
           /\ tmux_sinks'[w][session[s].window] = s,
         n.at \in {"resizing", "made"} =>
           /\ n.session = s1 /\ session'[s1].client = n.client
           /\ s1 \notin misjudged' => /\ Connected(s1, n.of)'
                                      /\ windows'[session'[s1].window] = n.of,
         MovesNow(thread[q]) =>
           MovesNow(n) /\ n.pane = thread[q].pane /\ n.window = thread[q].window
  PROVE  TmuxInv'
<1>0. /\ TmuxTypes /\ SessionsDiffer /\ EndsAreTrue /\ PanesFit /\ MadeFit
      /\ ClientTypes /\ SessionTypes /\ PaneTypes
  BY TypesAre DEF TmuxInv
<1>1. HearsOn
  BY DEF HearsOn, Hears
<1>2. HealerOn
  BY <1>0, <1>1, HealerWaits
<1>3. ASSUME NEW s \in DOMAIN session, NEW w \in LocalWorkstations
      PROVE  Steady(s, w)
  <2>1. /\ session'[s].window = session[s].window /\ session'[s].client = session[s].client
        /\ session[s].ended => session'[s].ended
    OBVIOUS
  <2>2. windows'[session[s].window] = windows[session[s].window]
    BY <1>0 DEF SessionTypes
  <2>3. InPlace(s, w) => InPlace(s, w)'
    BY <1>0, <1>1, <1>2, <2>1, <2>2, InPlaceStays
  <2>4. Lives(s)' /\ Connected(s, w) => /\ session[s].window \in DOMAIN tmux_sinks'[w]
                                        /\ tmux_sinks'[w][session[s].window] = s
    BY DEF Lives
  <2> QED BY <2>1, <2>3, <2>4, SteadyIf
<1>4. \A p, win : MovesOn(p, win)
  <2>1. \A p, win : Moves(p, win) => Moves(p, win)'
    BY MovesStay
  <2> QED BY <2>1 DEF MovesOn
<1>5. ASSUME NEW p, NEW s, NEW w, InstalledAt(p, s, w)'
      PROVE  /\ InstalledAt(p, s, w) /\ Steady(s, w)
             /\ session'[s].window = session[s].window /\ MovesOn(p, session[s].window)
  <2>1. InstalledAt(p, s, w)
    BY <1>5 DEF InstalledAt
  <2>2. s \in DOMAIN session /\ w \in LocalWorkstations
    BY <1>0, <2>1 DEF InstalledAt, PaneTypes, Pane
  <2>3. PICK win : win = session[s].window
    OBVIOUS
  <2>4. MovesOn(p, win)
    BY <1>4
  <2> QED BY <1>3, <2>1, <2>2, <2>3, <2>4
<1>6. ASSUME NEW o \in Requests, NEW s, NEW w, MadeAt(o, s, w)'
      PROVE  \/ /\ MadeAt(o, s, w) /\ Steady(s, w)
                /\ session'[s].client = session[s].client
                /\ thread'[o].client = thread[o].client
             \/ /\ session'[s].client = thread'[o].client
                /\ Lives(s)' => Connected(s, w)' /\ InPlace(s, w)'
  <2>1. CASE o = q
    <3>1. s = s1 /\ w = n.of /\ n.at \in {"resizing", "made"}
      BY <1>6, <2>1 DEF MadeAt, Makes
    <3>2. session'[s].client = thread'[o].client
      BY <2>1, <3>1
    <3>3. ASSUME Lives(s)' PROVE Connected(s, w)' /\ InPlace(s, w)'
      <4>1. s1 \notin misjudged'
        BY <3>1, <3>3 DEF Lives
      <4>2. PICK v : v = n.of
        OBVIOUS
      <4>3. Connected(s1, v)' /\ windows'[session'[s1].window] = v
        BY <3>1, <4>1, <4>2 DEF Connected
      <4>4. InPlace(s1, v)'
        BY <4>3 DEF InPlace
      <4> QED BY <3>1, <4>2, <4>3, <4>4
    <3> QED BY <3>2, <3>3
  <2>2. CASE o # q
    <3>1. MadeAt(o, s, w)
      BY <1>6, <2>2 DEF MadeAt, Makes
    <3>2. s \in DOMAIN session /\ w \in LocalWorkstations
      BY <1>0, <3>1, MakerKind DEF MadeAt
    <3> QED BY <1>3, <2>2, <3>1, <3>2
  <2> QED BY <2>1, <2>2
<1>7. PanesFit' /\ MadeFit'
  BY <1>0, <1>5, <1>6, FitsHold
<1>8. SessionsDiffer'
  <2>1. \A o \in Requests : Makes(o)' =>
           \/ o = q /\ thread'[o].session = s1
           \/ /\ o # q /\ Makes(o) /\ thread'[o].session = thread[o].session
              /\ thread[o].session \in DOMAIN session
    <3> SUFFICES ASSUME NEW o \in Requests, Makes(o)'
                 PROVE  \/ o = q /\ thread'[o].session = s1
                        \/ /\ o # q /\ Makes(o) /\ thread'[o].session = thread[o].session
                           /\ thread[o].session \in DOMAIN session
      OBVIOUS
    <3>1. CASE o = q
      BY <3>1 DEF Makes
    <3>2. CASE o # q
      BY <1>0, <3>2, MakerKind DEF Makes
    <3> QED BY <3>1, <3>2
  <2>2. \A p \in DOMAIN attached' : attached'[p].session = attached[p].session
                                    /\ attached[p].session \in DOMAIN session
    BY <1>0 DEF PaneTypes
  <2>3. \A p, o \in DOMAIN attached' : attached'[p].session = attached'[o].session => p = o
    BY <1>0 DEF SessionsDiffer
  <2>4. ASSUME NEW x \in Requests, Makes(x)'
        PROVE  /\ \A p \in DOMAIN attached' : thread'[x].session # attached'[p].session
               /\ \A o \in Requests :
                    Makes(o)' /\ thread'[o].session = thread'[x].session => o = x
    BY <1>0, <2>1, <2>2, <2>4 DEF SessionsDiffer
  <2> QED BY <2>3, <2>4 DEF SessionsDiffer
<1>9. EndsAreTrue'
  <2>1. \A s \in DOMAIN session' : session'[s].ended => s \in DOMAIN session /\ session[s].ended
    OBVIOUS
  <2> QED BY <1>0, <2>1, EndsHold
<1> QED BY <1>7, <1>8, <1>9 DEF TmuxInv

LEMMA AppendedIs ==
  ASSUME SessionTypes, NEW x \in Nat, NEW c \in Nat,
         session' = Append(session, [window |-> x, client |-> c, ended |-> FALSE])
  PROVE  /\ session' \in Seq(Session) /\ Len(session) + 1 \in Nat
         /\ Len(session) + 1 \notin DOMAIN session
         /\ DOMAIN session' = DOMAIN session \cup {Len(session) + 1}
         /\ \A s \in DOMAIN session : session'[s] = session[s]
         /\ session'[Len(session) + 1].window = x /\ session'[Len(session) + 1].client = c
         /\ session'[Len(session) + 1].ended = FALSE
<1>1. PICK r : r = [window |-> x, client |-> c, ended |-> FALSE]
  OBVIOUS
<1>2. r \in Session /\ r.window = x /\ r.client = c /\ r.ended = FALSE
  BY <1>1 DEF Session
<1>3. session' = Append(session, r)
  BY <1>1
<1>4. /\ session' \in Seq(Session) /\ Len(session') = Len(session) + 1 /\ Len(session) \in Nat
      /\ session'[Len(session) + 1] = r
      /\ \A i \in 1 .. Len(session) : session'[i] = session[i]
  BY <1>2, <1>3 DEF SessionTypes
<1>5. DOMAIN session = 1 .. Len(session) /\ DOMAIN session' = 1 .. Len(session) + 1
  BY <1>4 DEF SessionTypes
<1> QED BY <1>2, <1>4, <1>5

LEMMA SinkPut ==
  ASSUME SessionTypes, NEW v \in LocalWorkstations, NEW x, NEW s1, NEW n,
         x \in DOMAIN n, n[x] = s1,
         \A y \in DOMAIN tmux_sinks[v] : y # x => y \in DOMAIN n /\ n[y] = tmux_sinks[v][y],
         tmux_sinks' = [tmux_sinks EXCEPT ![v] = n]
  PROVE  /\ tmux_sinks' = [w \in LocalWorkstations |-> tmux_sinks'[w]]
         /\ x \in DOMAIN tmux_sinks'[v] /\ tmux_sinks'[v][x] = s1
         /\ \A w \in LocalWorkstations : \A y \in DOMAIN tmux_sinks[w] :
              w # v \/ y # x => /\ y \in DOMAIN tmux_sinks'[w]
                                /\ tmux_sinks'[w][y] = tmux_sinks[w][y]
<1>1. /\ tmux_sinks' = [w \in LocalWorkstations |-> tmux_sinks'[w]] /\ tmux_sinks'[v] = n
      /\ \A w \in LocalWorkstations : w # v => tmux_sinks'[w] = tmux_sinks[w]
  BY DEF SessionTypes
<1> QED BY <1>1

LEMMA OpensHolds ==
  ASSUME TmuxInv, NEW q \in Requests, Tmux!OpensWindow(q)
  PROVE  TmuxInv'
<1>0. /\ TmuxTypes /\ SessionsDiffer /\ EndsAreTrue /\ PanesFit /\ MadeFit
      /\ ClientTypes /\ SessionTypes /\ PaneTypes
  BY TypesAre DEF TmuxInv
<1>1. PICK r, x, s1 : r = thread[q] /\ x = Len(windows) + 1 /\ s1 = Len(session) + 1
  OBVIOUS
<1>2. PICK y : y = [r EXCEPT !.at = "resizing"]
  OBVIOUS
<1>3. PICK n : n = Tmux!Put(y, "session", s1)
  OBVIOUS
<1>4. /\ r.at = "opening" /\ windows' = Append(windows, r.of)
      /\ session' = Append(session, [window |-> x, client |-> r.client, ended |-> FALSE])
      /\ tmux_sinks' = [tmux_sinks EXCEPT ![r.of] = Tmux!Put(@, x, s1)]
      /\ Tmux!Becomes(q, n)
      /\ UNCHANGED <<tmux_clients, client, attached, healer, misjudged>>
  BY <1>1, <1>2, <1>3 DEF Tmux!OpensWindow
<1>5. IsRequest(r)
  BY <1>0, <1>1, <1>4, RequestKind
<1>6. /\ r.of \in LocalWorkstations /\ r.client \in DOMAIN client /\ client[r.client].of = r.of
      /\ r.op \in {"create", "reattach"} /\ {"at", "op", "pane", "client", "of"} \subseteq DOMAIN r
  BY <1>4, <1>5 DEF IsRequest
<1>7. DOMAIN y = DOMAIN r /\ y.at = "resizing" /\ \A z \in DOMAIN r : z # "at" => y[z] = r[z]
  BY <1>2, <1>6, Retimed
<1>8. /\ DOMAIN n = DOMAIN y \cup {"session"} /\ n["session"] = s1
      /\ \A z \in DOMAIN y : z # "session" => n[z] = y[z]
  BY <1>3 DEF Tmux!Put
<1>9. /\ {"at", "op", "pane", "client", "of", "session"} \subseteq DOMAIN n
      /\ n.at = "resizing" /\ n.op = r.op /\ n.client = r.client /\ n.of = r.of
      /\ n.session = s1
  BY <1>6, <1>7, <1>8
<1>10. r.client \in Nat /\ x \in Nat
  BY <1>0, <1>1, <1>6 DEF ClientTypes, SessionTypes
<1>11. /\ session' \in Seq(Session) /\ s1 \in Nat /\ s1 \notin DOMAIN session
       /\ DOMAIN session' = DOMAIN session \cup {s1}
       /\ \A s \in DOMAIN session : session'[s] = session[s]
       /\ session'[s1].window = x /\ session'[s1].client = r.client
       /\ session'[s1].ended = FALSE
  BY <1>0, <1>1, <1>4, <1>10, AppendedIs
<1>12. /\ windows' \in Seq(LocalWorkstations \cup {None}) /\ x \notin DOMAIN windows
       /\ DOMAIN windows' = DOMAIN windows \cup {x} /\ windows'[x] = r.of
       /\ \A z \in DOMAIN windows : windows'[z] = windows[z]
  <2>1. /\ windows' \in Seq(LocalWorkstations \cup {None}) /\ Len(windows') = Len(windows) + 1
        /\ Len(windows) \in Nat /\ windows'[Len(windows) + 1] = r.of
        /\ \A i \in 1 .. Len(windows) : windows'[i] = windows[i]
    BY <1>0, <1>4, <1>6 DEF SessionTypes
  <2>2. DOMAIN windows = 1 .. Len(windows) /\ DOMAIN windows' = 1 .. Len(windows) + 1
    BY <1>0, <2>1 DEF SessionTypes
  <2> QED BY <1>1, <2>1, <2>2
<1>13. /\ tmux_sinks' = [w \in LocalWorkstations |-> tmux_sinks'[w]]
       /\ x \in DOMAIN tmux_sinks'[r.of] /\ tmux_sinks'[r.of][x] = s1
       /\ \A w \in LocalWorkstations : \A z \in DOMAIN tmux_sinks[w] :
            w # r.of \/ z # x => /\ z \in DOMAIN tmux_sinks'[w]
                                 /\ tmux_sinks'[w][z] = tmux_sinks[w][z]
  <2>1. PICK v, m : v = r.of /\ m = Tmux!Put(tmux_sinks[v], x, s1)
    OBVIOUS
  <2>2. tmux_sinks' = [tmux_sinks EXCEPT ![v] = m] /\ v \in LocalWorkstations
    BY <1>4, <1>6, <2>1
  <2>4. /\ x \in DOMAIN m /\ m[x] = s1
        /\ \A z \in DOMAIN tmux_sinks[v] : z # x => z \in DOMAIN m /\ m[z] = tmux_sinks[v][z]
    BY <2>1 DEF Tmux!Put
  <2>3. /\ tmux_sinks' = [w \in LocalWorkstations |-> tmux_sinks'[w]]
        /\ x \in DOMAIN tmux_sinks'[v] /\ tmux_sinks'[v][x] = s1
        /\ \A w \in LocalWorkstations : \A z \in DOMAIN tmux_sinks[w] :
             w # v \/ z # x => /\ z \in DOMAIN tmux_sinks'[w]
                               /\ tmux_sinks'[w][z] = tmux_sinks[w][z]
    BY <1>0, <2>2, <2>4, SinkPut
  <2> QED BY <2>1, <2>3
<1>14. Grows /\ ClientTypes' /\ SessionTypes' /\ PaneTypes'
  BY <1>0, <1>4, <1>6, <1>11, <1>12, <1>13
     DEF Grows, ClientTypes, SessionTypes, PaneTypes
<1>15. IsRequest(n)'
  BY <1>4, <1>6, <1>9, <1>11 DEF IsRequest, InRequest
<1>16. /\ thread' = [o \in Requests |-> thread'[o]] /\ thread'[q] = n
       /\ \A o \in Requests : o # q => thread'[o] = thread[o]
       /\ \A o \in Requests : thread'[o] = Tmux!Idle \/ IsRequest(thread[o])'
  BY <1>0, <1>4, <1>14, <1>15, OneRequest
<1>17. TmuxTypes'
  BY <1>0, <1>4, <1>14, <1>16, TypesOn
<1>18. \A s \in DOMAIN session, w \in LocalWorkstations : s \notin misjudged' /\ Connected(s, w) =>
         /\ session[s].window \in DOMAIN tmux_sinks'[w]
         /\ tmux_sinks'[w][session[s].window] = s
  BY <1>0, <1>12, <1>13 DEF Connected, SessionTypes
<1>19. n.session = s1 /\ session'[s1].client = n.client
  BY <1>9, <1>11
<1>20. /\ Connected(s1, n.of)' /\ windows'[session'[s1].window] = n.of
  <2>1. PICK v : v = n.of
    OBVIOUS
  <2>2. Connected(s1, v)'
    BY <1>4, <1>6, <1>9, <1>11, <1>13, <2>1 DEF Connected
  <2> QED BY <1>9, <1>11, <1>12, <2>1, <2>2 DEF Connected
<1>21. ~MovesNow(thread[q])
  BY <1>1, <1>4 DEF MovesNow
<1> QED BY <1>4, <1>11, <1>12, <1>16, <1>17, <1>18, <1>19, <1>20, <1>21, MakesHolds

LEMMA AttachHolds ==
  ASSUME TmuxInv, NEW q \in Requests, Tmux!attach_tmux(q)
  PROVE  TmuxInv'
<1>0. /\ TmuxTypes /\ SessionsDiffer /\ EndsAreTrue /\ PanesFit /\ MadeFit
      /\ ClientTypes /\ SessionTypes /\ PaneTypes
  BY TypesAre DEF TmuxInv
<1>1. PICK r, x, v, s1 : r = thread[q] /\ x = r.window /\ v = r.of /\ s1 = Len(session) + 1
  OBVIOUS
<1>2. PICK y, e : y = [r EXCEPT !.at = "made"] /\ e = [r EXCEPT !.at = "returning"]
  OBVIOUS
<1>3. PICK m : m = Tmux!Put(y, "session", s1)
  OBVIOUS
<1>4. PICK n : n = CASE ~(x \in DOMAIN tmux_sinks[v]) -> m
                     [] x \in DOMAIN tmux_sinks[v] /\ r.op = "move" -> e
                     [] OTHER -> Tmux!Idle
  OBVIOUS
<1>5. /\ r.at = "attaching"
      /\ session' = Append(session, [window |-> x, client |-> r.client, ended |-> FALSE])
      /\ tmux_sinks' = [tmux_sinks EXCEPT ![v] = Tmux!Put(@, x, s1)]
      /\ misjudged' = misjudged
           \cup (IF x \in DOMAIN tmux_sinks[v] THEN {s1, tmux_sinks[v][x]} ELSE {})
           \cup (IF windows[x] # v THEN {s1} ELSE {})
      /\ Tmux!Becomes(q, n)
      /\ UNCHANGED <<tmux_clients, client, attached, windows, healer>>
  BY <1>1, <1>2, <1>3, <1>4 DEF Tmux!attach_tmux
<1>6. IsRequest(r)
  BY <1>0, <1>1, <1>5, RequestKind
<1>7. /\ v \in LocalWorkstations /\ r.client \in DOMAIN client /\ client[r.client].of = v
      /\ r.op \in {"create", "reattach", "move"} /\ x \in DOMAIN windows
      /\ {"at", "op", "pane", "client", "of", "window"} \subseteq DOMAIN r
      /\ r.op = "move" => "from" \in DOMAIN r /\ r.from \in LocalWorkstations
  BY <1>1, <1>5, <1>6 DEF IsRequest
<1>8. DOMAIN y = DOMAIN r /\ y.at = "made" /\ \A z \in DOMAIN r : z # "at" => y[z] = r[z]
  BY <1>2, <1>7, Retimed
<1>9. DOMAIN e = DOMAIN r /\ e.at = "returning" /\ \A z \in DOMAIN r : z # "at" => e[z] = r[z]
  BY <1>2, <1>7, Retimed
<1>10. /\ DOMAIN m = DOMAIN y \cup {"session"} /\ m["session"] = s1
       /\ \A z \in DOMAIN y : z # "session" => m[z] = y[z]
  BY <1>3 DEF Tmux!Put
<1>11. /\ {"at", "op", "pane", "client", "of", "session", "window"} \subseteq DOMAIN m
       /\ m.at = "made" /\ m.op = r.op /\ m.client = r.client /\ m.of = v
       /\ m.session = s1 /\ m.window = x /\ m.pane = r.pane
       /\ r.op = "move" => "from" \in DOMAIN m /\ m.from = r.from
  BY <1>1, <1>7, <1>8, <1>10
<1>12. /\ e.op = r.op /\ e.client = r.client /\ e.of = v /\ e.window = x /\ e.pane = r.pane
       /\ r.op = "move" => e.from = r.from
  BY <1>1, <1>7, <1>9
<1>13. /\ r.client \in Nat /\ x \in Nat
  BY <1>0, <1>7 DEF ClientTypes, SessionTypes
<1>14. /\ session' \in Seq(Session) /\ s1 \in Nat /\ s1 \notin DOMAIN session
       /\ DOMAIN session' = DOMAIN session \cup {s1}
       /\ \A s \in DOMAIN session : session'[s] = session[s]
       /\ session'[s1].window = x /\ session'[s1].client = r.client
       /\ session'[s1].ended = FALSE
  BY <1>0, <1>1, <1>5, <1>13, AppendedIs
<1>15. /\ tmux_sinks' = [w \in LocalWorkstations |-> tmux_sinks'[w]]
       /\ x \in DOMAIN tmux_sinks'[v] /\ tmux_sinks'[v][x] = s1
       /\ \A w \in LocalWorkstations : \A z \in DOMAIN tmux_sinks[w] :
            w # v \/ z # x => /\ z \in DOMAIN tmux_sinks'[w]
                              /\ tmux_sinks'[w][z] = tmux_sinks[w][z]
  <2>1. PICK d : d = Tmux!Put(tmux_sinks[v], x, s1)
    OBVIOUS
  <2>2. tmux_sinks' = [tmux_sinks EXCEPT ![v] = d] /\ v \in LocalWorkstations
    BY <1>5, <1>7, <2>1
  <2>3. /\ x \in DOMAIN d /\ d[x] = s1
        /\ \A z \in DOMAIN tmux_sinks[v] : z # x => z \in DOMAIN d /\ d[z] = tmux_sinks[v][z]
    BY <2>1 DEF Tmux!Put
  <2> QED BY <1>0, <2>2, <2>3, SinkPut
<1>16. Grows /\ ClientTypes' /\ SessionTypes' /\ PaneTypes'
  BY <1>0, <1>5, <1>7, <1>14, <1>15 DEF Grows, ClientTypes, SessionTypes, PaneTypes
<1>17. n = m \/ (n = e /\ r.op = "move") \/ (n = Tmux!Idle /\ r.op # "move")
  BY <1>4
<1>18. n = m => x \notin DOMAIN tmux_sinks[v]
  BY <1>4, <1>9, <1>11 DEF Tmux!Idle
<1>19. n = Tmux!Idle \/ IsRequest(n)'
  <2>1. IsRequest(m)'
    BY <1>5, <1>7, <1>11, <1>14 DEF IsRequest, InRequest
  <2>2. r.op = "move" => IsRequest(e)'
    BY <1>5, <1>7, <1>9, <1>12 DEF IsRequest, InRequest
  <2> QED BY <1>17, <2>1, <2>2
<1>20. /\ thread' = [o \in Requests |-> thread'[o]] /\ thread'[q] = n
       /\ \A o \in Requests : o # q => thread'[o] = thread[o]
       /\ \A o \in Requests : thread'[o] = Tmux!Idle \/ IsRequest(thread[o])'
  BY <1>0, <1>5, <1>16, <1>19, OneRequest
<1>21. TmuxTypes'
  BY <1>0, <1>5, <1>16, <1>20, TypesOn
<1>22. ASSUME NEW s \in DOMAIN session, NEW w \in LocalWorkstations,
              s \notin misjudged', Connected(s, w)
       PROVE  /\ session[s].window \in DOMAIN tmux_sinks'[w]
              /\ tmux_sinks'[w][session[s].window] = s
  <2>1. /\ session[s].window \in DOMAIN tmux_sinks[w]
        /\ tmux_sinks[w][session[s].window] = s
    BY <1>22 DEF Connected
  <2>2. w # v \/ session[s].window # x
    BY <1>5, <1>22, <2>1
  <2> QED BY <1>15, <2>1, <2>2
<1>23. misjudged \subseteq misjudged'
  BY <1>5
<1>24. ASSUME n.at \in {"resizing", "made"}
       PROVE  /\ n.session = s1 /\ session'[s1].client = n.client
              /\ s1 \notin misjudged' => /\ Connected(s1, n.of)'
                                         /\ windows'[session'[s1].window] = n.of
  <2>1. n = m
    BY <1>9, <1>17, <1>24 DEF Tmux!Idle
  <2>2. n.session = s1 /\ session'[s1].client = n.client /\ n.of = v
    BY <1>11, <1>14, <2>1
  <2>3. Connected(s1, v)'
    BY <1>5, <1>7, <1>14, <1>15 DEF Connected
  <2>4. s1 \notin misjudged' => windows[x] = v
    BY <1>5
  <2>5. windows' = windows /\ session'[s1].window = x
    BY <1>5, <1>14
  <2>6. s1 \notin misjudged' => windows'[session'[s1].window] = n.of
    BY <2>2, <2>4, <2>5
  <2>7. Connected(s1, n.of)'
    BY <2>2, <2>3 DEF Connected
  <2> QED BY <2>2, <2>6, <2>7
<1>25. MovesNow(r) => MovesNow(n) /\ n.pane = r.pane /\ n.window = r.window
  BY <1>1, <1>9, <1>11, <1>12, <1>17 DEF MovesNow
<1>26. /\ s1 \notin DOMAIN session /\ DOMAIN session' = DOMAIN session \cup {s1}
       /\ \A s \in DOMAIN session : session'[s] = session[s]
       /\ ~session'[s1].ended
  BY <1>14
<1>27. UNCHANGED <<client, attached, healer>> /\ \A y1 \in DOMAIN windows : windows'[y1] = windows[y1]
  BY <1>5
<1>28. MovesNow(thread[q]) =>
         MovesNow(n) /\ n.pane = thread[q].pane /\ n.window = thread[q].window
  BY <1>1, <1>25
<1> QED BY <1>20, <1>21, <1>22, <1>23, <1>24, <1>26, <1>27, <1>28, MakesHolds

-----------------------------------------------------------------------------
(* A window is moved: away from the sessions it had elsewhere. *)

LEMMA MovedIs ==
  ASSUME TmuxTypes, NEW x \in DOMAIN windows, windows[x] # None, NEW to \in LocalWorkstations,
         Tmux!MoveWindow(x, to), UNCHANGED tmux_clients
  PROVE  /\ windows' \in Seq(LocalWorkstations \cup {None}) /\ DOMAIN windows' = DOMAIN windows
         /\ windows'[x] = to /\ \A y \in DOMAIN windows : y # x => windows'[y] = windows[y]
         /\ ClientTypes' /\ DOMAIN client' = DOMAIN client
         /\ \A c \in DOMAIN client : client'[c].of = client[c].of
         /\ HearsOn
<1>0. ClientTypes /\ SessionTypes
  BY TypesAre
<1>1. windows' = [windows EXCEPT ![x] = to] /\ client' \in {client, Tmux!Told(windows[x], x)}
  BY DEF Tmux!MoveWindow
<1>2. /\ windows' \in Seq(LocalWorkstations \cup {None}) /\ DOMAIN windows' = DOMAIN windows
      /\ windows'[x] = to /\ \A y \in DOMAIN windows : y # x => windows'[y] = windows[y]
  BY <1>1, ClosedTypes
<1>3. CASE client' = client
  BY <1>0, <1>2, <1>3 DEF ClientTypes, HearsOn, Hears
<1>4. CASE client' = Tmux!Told(windows[x], x)
  <2>1. PICK n : n = Tmux!Told(windows[x], x)
    OBVIOUS
  <2>2. x \in Nat
    BY <1>0 DEF SessionTypes
  <2>3. Telling(n)
    BY <1>0, <2>1, <2>2, ToldIs
  <2>4. client' = n
    BY <1>4, <2>1
  <2>5. /\ ClientTypes' /\ DOMAIN client' = DOMAIN client
        /\ \A c \in DOMAIN client : client'[c].of = client[c].of
        /\ \A c \in DOMAIN client : \A win : Hears(c, win) => Hears(c, win)'
    BY <1>0, <2>3, <2>4, TellingKeeps
  <2> QED BY <1>2, <2>5 DEF HearsOn
<1> QED BY <1>1, <1>2, <1>3, <1>4

LEMMA MoveWindowHolds ==
  ASSUME TmuxInv, NEW q \in Requests, Tmux!move_window_to_session(q)
  PROVE  TmuxInv'
<1>0. /\ TmuxTypes /\ SessionsDiffer /\ EndsAreTrue /\ PanesFit /\ MadeFit
      /\ ClientTypes /\ SessionTypes /\ PaneTypes
  BY TypesAre DEF TmuxInv
<1>1. PICK r, x, v : r = thread[q] /\ x = r.window /\ v = r.of
  OBVIOUS
<1>2. r.at = "moving" /\ UNCHANGED <<tmux_clients, tmux_sinks, session, attached, healer>>
  BY <1>1 DEF Tmux!move_window_to_session
<1>3. IsRequest(r)
  BY <1>0, <1>1, <1>2, RequestKind
<1>4. ~MovesNow(thread[q])
  BY <1>1, <1>2 DEF MovesNow
<1>5. CASE windows[x] = None
  <2>1. PICK n : n = Tmux!Idle
    OBVIOUS
  <2>2. Tmux!Becomes(q, n) /\ UNCHANGED <<client, windows, misjudged>>
    BY <1>1, <1>5, <2>1 DEF Tmux!move_window_to_session
  <2>3. n.at \notin {"resizing", "made"}
    BY <2>1 DEF Tmux!Idle
  <2>4. ClientTypes' /\ HearsOn
    BY <1>0, <1>2, <2>2 DEF ClientTypes, HearsOn, Hears
  <2> QED BY <1>2, <1>4, <2>1, <2>2, <2>3, <2>4, CalmRequest
<1>6. CASE windows[x] # None
  <2>1. PICK n : n = [r EXCEPT !.at = "attaching"]
    OBVIOUS
  <2>2. /\ Tmux!MoveWindow(x, v) /\ Tmux!Becomes(q, n)
        /\ misjudged' = misjudged \cup (Tmux!Away(x, v) \ Tmux!Own(r.pane))
    BY <1>1, <1>6, <2>1 DEF Tmux!move_window_to_session
  <2>3. /\ v \in LocalWorkstations /\ r.client \in DOMAIN client /\ client[r.client].of = v
        /\ r.op = "move" /\ x \in DOMAIN windows
        /\ {"at", "op", "pane", "client", "of", "window", "from"} \subseteq DOMAIN r
        /\ r.from \in LocalWorkstations
    BY <1>1, <1>2, <1>3 DEF IsRequest
  <2>4. DOMAIN n = DOMAIN r /\ n.at = "attaching" /\ \A z \in DOMAIN r : z # "at" => n[z] = r[z]
    BY <2>1, <2>3, Retimed
  <2>5. /\ n.op = "move" /\ n.pane = r.pane /\ n.window = x /\ n.of = v /\ n.client = r.client
        /\ n.from = r.from
    BY <1>1, <2>3, <2>4
  <2>6. /\ windows' \in Seq(LocalWorkstations \cup {None}) /\ DOMAIN windows' = DOMAIN windows
        /\ windows'[x] = v /\ \A y \in DOMAIN windows : y # x => windows'[y] = windows[y]
        /\ ClientTypes' /\ DOMAIN client' = DOMAIN client
        /\ \A c \in DOMAIN client : client'[c].of = client[c].of
        /\ HearsOn
    BY <1>0, <1>2, <1>6, <2>2, <2>3, MovedIs
  <2>7. Grows /\ SessionTypes' /\ PaneTypes'
    BY <1>0, <1>2, <2>6 DEF Grows, SessionTypes, PaneTypes
  <2>8. IsRequest(n)'
    BY <2>3, <2>4, <2>5, <2>6 DEF IsRequest, InRequest
  <2>9. /\ thread' = [o \in Requests |-> thread'[o]] /\ thread'[q] = n
        /\ \A o \in Requests : o # q => thread'[o] = thread[o]
        /\ \A o \in Requests : thread'[o] = Tmux!Idle \/ IsRequest(thread[o])'
    BY <1>0, <2>2, <2>7, <2>8, OneRequest
  <2>10. TmuxTypes'
    BY <1>0, <1>2, <2>6, <2>7, <2>9, TypesOn
  <2>11. \A p, win : Moves(p, win) => Moves(p, win)'
    BY <1>4, <2>9, MovesStay
  <2>12. Moves(r.pane, x)'
    BY <2>4, <2>5, <2>9 DEF Moves, MovesBy
  <2>13. HealerOn
    BY <1>0, <1>2, <2>6, HealerWaits
  <2>14. ASSUME NEW s \in DOMAIN session, NEW w \in LocalWorkstations, s \notin Tmux!Own(r.pane)
         PROVE  Steady(s, w)
    <3>1. /\ session'[s].window = session[s].window /\ session'[s].client = session[s].client
          /\ session[s].ended => session'[s].ended
          /\ session[s].client \in DOMAIN client /\ session[s].window \in DOMAIN windows
          /\ misjudged \subseteq misjudged'
      BY <1>0, <1>2, <2>2 DEF SessionTypes
    <3>2. ASSUME Lives(s)', Connected(s, w), InPlace(s, w) PROVE InPlace(s, w)'
      <4>1. CASE session[s].window = x
        <5>1. w = v
          BY <2>2, <2>14, <3>2, <4>1 DEF Tmux!Away, Connected, Lives
        <5> QED BY <2>6, <3>1, <4>1, <5>1 DEF InPlace
      <4>2. CASE session[s].window # x
        <5>1. windows'[session[s].window] = windows[session[s].window]
          BY <2>6, <3>1, <4>2
        <5> QED BY <1>0, <2>6, <2>13, <3>1, <3>2, <5>1, InPlaceStays
      <4> QED BY <4>1, <4>2
    <3>3. Connected(s, w) => /\ session[s].window \in DOMAIN tmux_sinks'[w]
                             /\ tmux_sinks'[w][session[s].window] = s
      BY <1>2 DEF Connected
    <3>4. client'[session[s].client].of = client[session[s].client].of
      BY <2>6, <3>1
    <3> QED BY <3>1, <3>2, <3>3, <3>4, SteadyIf
  <2>15. ASSUME NEW p, NEW s, NEW w, InstalledAt(p, s, w)'
         PROVE  \/ /\ InstalledAt(p, s, w) /\ Steady(s, w)
                   /\ session'[s].window = session[s].window
                   /\ MovesOn(p, session[s].window)
                \/ Lives(s)' => /\ Connected(s, w)'
                                /\ InPlace(s, w)' \/ Moves(p, session[s].window)'
    <3>1. InstalledAt(p, s, w)
      BY <1>2, <2>15 DEF InstalledAt
    <3>2. s \in DOMAIN session /\ w \in LocalWorkstations /\ session[s].client \in DOMAIN client
      BY <1>0, <3>1 DEF InstalledAt, PaneTypes, Pane, SessionTypes
    <3>3. PICK win : win = session[s].window
      OBVIOUS
    <3>4. MovesOn(p, win)
      BY <2>11 DEF MovesOn
    <3>5. CASE s \notin Tmux!Own(r.pane)
      BY <1>2, <2>14, <3>1, <3>2, <3>3, <3>4, <3>5
    <3>6. CASE s \in Tmux!Own(r.pane)
      <4>1. p = r.pane
        BY <1>0, <3>1, <3>6 DEF Tmux!Own, SessionsDiffer, InstalledAt
      <4>2. ASSUME Lives(s)' PROVE Connected(s, w)' /\ (InPlace(s, w)' \/ Moves(p, win)')
        <5>1. Lives(s)
          BY <1>2, <2>2, <4>2 DEF Lives
        <5>2. Connected(s, w) /\ (InPlace(s, w) \/ Moves(p, win))
          BY <1>0, <3>1, <3>3, <5>1 DEF PanesFit, InstalledAt
        <5>3. Connected(s, w)'
          BY <1>2, <2>6, <3>2, <5>2 DEF Connected
        <5>4. CASE win = x
          BY <2>12, <4>1, <5>3, <5>4
        <5>5. CASE win # x
          <6>1. windows'[session[s].window] = windows[session[s].window]
            BY <1>0, <2>6, <3>2, <3>3, <5>5 DEF SessionTypes
          <6>2. InPlace(s, w) => InPlace(s, w)'
            BY <1>0, <1>2, <2>6, <2>13, <3>2, <6>1, InPlaceStays
          <6> QED BY <2>11, <5>2, <5>3, <6>2
        <5> QED BY <5>4, <5>5
      <4>3. Moves(p, win)' => Moves(p, session[s].window)'
        BY <1>2, <3>3 DEF Moves, MovesBy
      <4> QED BY <4>2, <4>3
    <3> QED BY <3>5, <3>6
  <2>16. ASSUME NEW o \in Requests, NEW s, NEW w, MadeAt(o, s, w)'
         PROVE  /\ MadeAt(o, s, w) /\ Steady(s, w)
                /\ session'[s].client = session[s].client
                /\ thread'[o].client = thread[o].client
    <3>1. o # q
      BY <2>4, <2>9, <2>16 DEF MadeAt, Makes
    <3>2. MadeAt(o, s, w)
      BY <2>9, <2>16, <3>1 DEF MadeAt, Makes
    <3>3. s \in DOMAIN session /\ w \in LocalWorkstations
      BY <1>0, <3>2, MakerKind DEF MadeAt
    <3>4. s \notin Tmux!Own(r.pane)
      BY <1>0, <3>2 DEF Tmux!Own, SessionsDiffer, MadeAt
    <3> QED BY <1>2, <2>9, <2>14, <3>1, <3>2, <3>3, <3>4
  <2>17. PanesFit' /\ MadeFit'
    BY <1>0, <2>15, <2>16, FitsHold
  <2>18. OnlyOld({})
    <3>1. \A o \in Requests : \A s, w : MadeAt(o, s, w)' =>
            MadeAt(o, s, w) /\ s \notin {} /\ thread'[o].client = thread[o].client
      BY <2>16
    <3>2. \A p, s, w : InstalledAt(p, s, w)' => InstalledAt(p, s, w) /\ s \notin {}
      BY <1>2 DEF InstalledAt
    <3> QED BY <3>1, <3>2 DEF OnlyOld
  <2>19. SessionsDiffer'
    BY <1>0, <2>18, OldDiffer
  <2>20. EndsAreTrue'
    <3>1. \A s \in DOMAIN session' : session'[s].ended => s \in DOMAIN session /\ session[s].ended
      BY <1>2
    <3>2. \A win \in DOMAIN windows : windows[win] = None => windows'[win] = None
      BY <1>6, <2>6
    <3>3. misjudged \subseteq misjudged'
      BY <2>2
    <3> QED BY <1>0, <1>2, <3>1, <3>2, <3>3, EndsHold
  <2> QED BY <2>10, <2>17, <2>19, <2>20 DEF TmuxInv
<1> QED BY <1>5, <1>6

LEMMA ReturnsHolds ==
  ASSUME TmuxInv, NEW q \in Requests, Tmux!ReturnsWindow(q)
  PROVE  TmuxInv'
<1>0. /\ TmuxTypes /\ SessionsDiffer /\ EndsAreTrue /\ PanesFit /\ MadeFit
      /\ ClientTypes /\ SessionTypes /\ PaneTypes
  BY TypesAre DEF TmuxInv
<1>1. PICK r, x : r = thread[q] /\ x = r.window
  OBVIOUS
<1>2. PICK moves \in BOOLEAN : moves <=> client[r.client].up /\ windows[x] # None
  OBVIOUS
<1>3. PICK there, n : there = (IF moves THEN r.from ELSE windows[x]) /\ n = Tmux!Idle
  OBVIOUS
<1>4. /\ r.at = "returning" /\ Tmux!Becomes(q, n)
      /\ IF moves THEN Tmux!MoveWindow(x, r.from) ELSE UNCHANGED <<client, windows>>
      /\ misjudged' = misjudged \cup Tmux!Away(x, there)
      /\ UNCHANGED <<tmux_clients, tmux_sinks, session, attached, healer>>
  BY <1>1, <1>2, <1>3 DEF Tmux!ReturnsWindow
<1>5. IsRequest(r)
  BY <1>0, <1>1, <1>4, RequestKind
<1>6. x \in DOMAIN windows /\ r.from \in LocalWorkstations /\ r.op = "move"
  BY <1>1, <1>4, <1>5 DEF IsRequest
<1>7. /\ windows' \in Seq(LocalWorkstations \cup {None}) /\ DOMAIN windows' = DOMAIN windows
      /\ windows'[x] = there /\ \A y \in DOMAIN windows : y # x => windows'[y] = windows[y]
      /\ ClientTypes' /\ DOMAIN client' = DOMAIN client
      /\ \A c \in DOMAIN client : client'[c].of = client[c].of
      /\ HearsOn
  <2>1. CASE moves
    <3>1. windows[x] # None /\ Tmux!MoveWindow(x, r.from) /\ there = r.from
      BY <1>2, <1>3, <1>4, <2>1
    <3> QED BY <1>0, <1>4, <1>6, <3>1, MovedIs
  <2>2. CASE ~moves
    <3>1. UNCHANGED <<client, windows>> /\ there = windows[x]
      BY <1>3, <1>4, <2>2
    <3> QED BY <1>0, <1>4, <3>1 DEF ClientTypes, SessionTypes, HearsOn, Hears
  <2> QED BY <2>1, <2>2
<1>8. Grows /\ SessionTypes' /\ PaneTypes'
  BY <1>0, <1>4, <1>7 DEF Grows, SessionTypes, PaneTypes
<1>9. /\ thread' = [o \in Requests |-> thread'[o]] /\ thread'[q] = n
      /\ \A o \in Requests : o # q => thread'[o] = thread[o]
      /\ \A o \in Requests : thread'[o] = Tmux!Idle \/ IsRequest(thread[o])'
  BY <1>0, <1>3, <1>4, <1>8, OneRequest
<1>10. TmuxTypes'
  BY <1>0, <1>4, <1>7, <1>8, <1>9, TypesOn
<1>11. HealerOn
  BY <1>0, <1>4, <1>7, HealerWaits
<1>12. ASSUME NEW s \in DOMAIN session, NEW w \in LocalWorkstations, Lives(s)', Connected(s, w),
              session[s].window = x
       PROVE  InPlace(s, w)'
  <2>1. w = there
    BY <1>4, <1>12 DEF Tmux!Away, Connected, Lives
  <2> QED BY <1>4, <1>7, <1>12, <2>1 DEF InPlace
<1>13. ASSUME NEW s \in DOMAIN session, NEW w \in LocalWorkstations
       PROVE  Steady(s, w)
  <2>1. /\ session'[s].window = session[s].window /\ session'[s].client = session[s].client
        /\ session[s].ended => session'[s].ended
        /\ session[s].client \in DOMAIN client /\ session[s].window \in DOMAIN windows
        /\ misjudged \subseteq misjudged'
    BY <1>0, <1>4 DEF SessionTypes
  <2>2. ASSUME Lives(s)', Connected(s, w), InPlace(s, w) PROVE InPlace(s, w)'
    <3>1. CASE session[s].window = x
      BY <1>12, <2>2, <3>1
    <3>2. CASE session[s].window # x
      <4>1. windows'[session[s].window] = windows[session[s].window]
        BY <1>7, <2>1, <3>2
      <4> QED BY <1>0, <1>7, <1>11, <2>1, <2>2, <4>1, InPlaceStays
    <3> QED BY <3>1, <3>2
  <2>3. Connected(s, w) => /\ session[s].window \in DOMAIN tmux_sinks'[w]
                           /\ tmux_sinks'[w][session[s].window] = s
    BY <1>4 DEF Connected
  <2>4. client'[session[s].client].of = client[session[s].client].of
    BY <1>7, <2>1
  <2> QED BY <2>1, <2>2, <2>3, <2>4, SteadyIf
<1>14. ASSUME NEW p, NEW win PROVE MovesOn(p, win)
  <2>1. ASSUME NEW o \in Requests, MovesBy(o, p, win), o # q PROVE Moves(p, win)'
    BY <1>9, <2>1 DEF Moves, MovesBy
  <2>2. ASSUME MovesBy(q, p, win), NEW s, NEW w, InstalledAt(p, s, w),
               session[s].window = win, Lives(s)'
        PROVE  InPlace(s, w)'
    <3>1. win = x
      BY <1>1, <2>2 DEF MovesBy
    <3>2. s \in DOMAIN session /\ w \in LocalWorkstations
      BY <1>0, <2>2 DEF InstalledAt, PaneTypes, Pane
    <3>3. Lives(s)
      BY <1>4, <2>2 DEF Lives
    <3>4. Connected(s, w)
      BY <1>0, <2>2, <3>3 DEF PanesFit, InstalledAt
    <3> QED BY <1>12, <2>2, <3>1, <3>2, <3>4
  <2> QED BY <2>1, <2>2 DEF Moves, MovesOn
<1>15. OnlyOld({})
  <2>1. n.at \notin {"resizing", "made"}
    BY <1>3 DEF Tmux!Idle
  <2>2. \A o \in Requests : \A s, w : MadeAt(o, s, w)' =>
          MadeAt(o, s, w) /\ s \notin {} /\ thread'[o].client = thread[o].client
    BY <1>9, <2>1, Remakes
  <2>3. \A p, s, w : InstalledAt(p, s, w)' => InstalledAt(p, s, w) /\ s \notin {}
    BY <1>4 DEF InstalledAt
  <2> QED BY <2>2, <2>3 DEF OnlyOld
<1>16. SessionsDiffer' /\ PanesFit' /\ MadeFit'
  <2>1. \A s \in DOMAIN session, w \in LocalWorkstations :
          Used(s, w) /\ s \notin {} => Steady(s, w)
    BY <1>13
  <2>2. \A s \in DOMAIN session : /\ session'[s].window = session[s].window
                                  /\ session'[s].client = session[s].client
    BY <1>4
  <2> QED BY <1>0, <1>14, <1>15, <2>1, <2>2, FrameHolds
<1>17. EndsAreTrue'
  <2>1. \A s \in DOMAIN session' : session'[s].ended => s \in DOMAIN session /\ session[s].ended
    BY <1>4
  <2>2. ASSUME NEW y \in DOMAIN windows, windows[y] = None PROVE windows'[y] = None
    BY <1>2, <1>3, <1>7, <2>2
  <2>3. misjudged \subseteq misjudged' /\ session' = session
    BY <1>4
  <2> QED BY <1>0, <2>1, <2>2, <2>3, EndsHold
<1> QED BY <1>10, <1>16, <1>17 DEF TmuxInv

-----------------------------------------------------------------------------
(* A session's sink goes. *)

LEMMA UnregisterIs ==
  ASSUME ClientTypes, SessionTypes, NEW s0 \in DOMAIN session, NEW X, Tmux!unregister_sink(s0, X)
  PROVE  /\ tmux_sinks' = [w \in LocalWorkstations |-> tmux_sinks'[w]]
         /\ misjudged \cup X \subseteq misjudged'
         /\ \A s \in DOMAIN session, w \in LocalWorkstations :
              s # s0 /\ s \notin misjudged' /\ Connected(s, w) =>
                /\ session[s].window \in DOMAIN tmux_sinks'[w]
                /\ tmux_sinks'[w][session[s].window] = s
<1>1. PICK v, x : v = client[session[s0].client].of /\ x = session[s0].window
  OBVIOUS
<1>2. v \in LocalWorkstations
  BY <1>1, ClientIs DEF SessionTypes
<1>3. PICK n : n = Tmux!Without(tmux_sinks[v], x)
  OBVIOUS
<1>4. tmux_sinks' = [tmux_sinks EXCEPT ![v] = n]
  BY <1>1, <1>3 DEF Tmux!unregister_sink
<1>5. /\ tmux_sinks' = [w \in LocalWorkstations |-> tmux_sinks'[w]] /\ tmux_sinks'[v] = n
      /\ \A w \in LocalWorkstations : w # v => tmux_sinks'[w] = tmux_sinks[w]
  BY <1>2, <1>4 DEF SessionTypes
<1>6. \A y \in DOMAIN tmux_sinks[v] : y # x => y \in DOMAIN n /\ n[y] = tmux_sinks[v][y]
  BY <1>3 DEF Tmux!Without
<1>7. misjudged' = misjudged \cup (Tmux!Fed(v, {x}) \ {s0}) \cup X
  BY <1>1 DEF Tmux!unregister_sink, Tmux!SinkOf
<1>8. ASSUME NEW s \in DOMAIN session, NEW w \in LocalWorkstations,
             s # s0, s \notin misjudged', Connected(s, w)
      PROVE  /\ session[s].window \in DOMAIN tmux_sinks'[w]
             /\ tmux_sinks'[w][session[s].window] = s
  <2>1. PICK y : y = session[s].window
    OBVIOUS
  <2>2. y \in DOMAIN tmux_sinks[w] /\ tmux_sinks[w][y] = s
    BY <1>8, <2>1 DEF Connected
  <2>3. w # v \/ y # x
    <3> SUFFICES ASSUME w = v, y = x PROVE FALSE
      OBVIOUS
    <3>1. s \in Tmux!Fed(v, {x})
      BY <2>2 DEF Tmux!Fed
    <3> QED BY <1>7, <1>8, <3>1
  <2> QED BY <1>5, <1>6, <2>1, <2>2, <2>3
<1> QED BY <1>5, <1>7, <1>8

LEMMA UnregisterSteady ==
  ASSUME TmuxTypes, NEW s0 \in DOMAIN session, NEW X, Tmux!unregister_sink(s0, X),
         UNCHANGED <<client, session, windows, healer>>,
         NEW s \in DOMAIN session, NEW w \in LocalWorkstations, s # s0
  PROVE  Steady(s, w)
<1>0. ClientTypes /\ SessionTypes
  BY TypesAre
<1>1. HearsOn
  BY DEF HearsOn, Hears
<1>2. HealerOn
  BY <1>1, HealerWaits
<1>3. /\ session'[s].window = session[s].window /\ session'[s].client = session[s].client
      /\ session[s].ended => session'[s].ended
      /\ client'[session[s].client].of = client[session[s].client].of
      /\ windows'[session[s].window] = windows[session[s].window]
  OBVIOUS
<1>4. InPlace(s, w) => InPlace(s, w)'
  BY <1>1, <1>2, <1>3, InPlaceStays
<1>5. /\ misjudged \subseteq misjudged'
      /\ s \notin misjudged' /\ Connected(s, w) =>
           /\ session[s].window \in DOMAIN tmux_sinks'[w]
           /\ tmux_sinks'[w][session[s].window] = s
  BY <1>0, UnregisterIs
<1>6. Lives(s)' => s \notin misjudged'
  BY DEF Lives
<1> QED BY <1>3, <1>4, <1>5, <1>6, SteadyIf

LEMMA UnregisterHolds ==
  ASSUME TmuxInv, TmuxTypes', NEW s0 \in DOMAIN session, NEW X, Tmux!unregister_sink(s0, X),
         UNCHANGED <<client, session, windows, healer>>,
         NEW Y, OnlyOld(Y), s0 \in Y \/ ~Lives(s0)', \A p, win : MovesOn(p, win)
  PROVE  TmuxInv'
<1>0. /\ TmuxTypes /\ SessionsDiffer /\ EndsAreTrue /\ PanesFit /\ MadeFit
      /\ ClientTypes /\ SessionTypes /\ PaneTypes
  BY TypesAre DEF TmuxInv
<1>1. ASSUME NEW s \in DOMAIN session, NEW w \in LocalWorkstations, s \notin Y
      PROVE  Steady(s, w)
  <2>1. CASE s = s0
    BY <1>1, <2>1 DEF Steady, Lives
  <2>2. CASE s # s0
    BY <1>0, <2>2, UnregisterSteady
  <2> QED BY <2>1, <2>2
<1>2. \A s \in DOMAIN session : /\ session'[s].window = session[s].window
                                /\ session'[s].client = session[s].client
  OBVIOUS
<1>3. SessionsDiffer' /\ PanesFit' /\ MadeFit'
  BY <1>0, <1>1, <1>2, FrameHolds
<1>4. EndsAreTrue'
  <2>1. misjudged \subseteq misjudged'
    BY <1>0, UnregisterIs
  <2>2. \A s \in DOMAIN session' : session'[s].ended => s \in DOMAIN session /\ session[s].ended
    OBVIOUS
  <2> QED BY <1>0, <1>2, <2>1, <2>2, EndsHold
<1> QED BY <1>3, <1>4 DEF TmuxInv

LEMMA ResizesHolds ==
  ASSUME TmuxInv, NEW q \in Requests, Tmux!Resizes(q)
  PROVE  TmuxInv'
<1>0. /\ TmuxTypes /\ SessionsDiffer /\ EndsAreTrue /\ PanesFit /\ MadeFit
      /\ ClientTypes /\ SessionTypes /\ PaneTypes
  BY TypesAre DEF TmuxInv
<1>1. PICK r, s0 : r = thread[q] /\ s0 = r.session
  OBVIOUS
<1>2. PICK y, n : y = [r EXCEPT !.at = "made"] /\ n = Tmux!Idle
  OBVIOUS
<1>3. /\ r.at = "resizing"
      /\ \/ Tmux!Becomes(q, y) /\ UNCHANGED <<tmux_sinks, misjudged>>
         \/ Tmux!Becomes(q, n) /\ Tmux!unregister_sink(s0, {})
      /\ UNCHANGED <<tmux_clients, client, session, attached, windows, healer>>
  BY <1>1, <1>2 DEF Tmux!Resizes
<1>4. IsRequest(r)
  BY <1>0, <1>1, <1>3, RequestKind
<1>5. /\ {"at", "op", "pane", "client", "of", "session"} \subseteq DOMAIN r
      /\ r.op \in {"create", "reattach"} /\ s0 \in DOMAIN session
  BY <1>1, <1>3, <1>4 DEF IsRequest
<1>6. DOMAIN y = DOMAIN r /\ y.at = "made" /\ \A z \in DOMAIN r : z # "at" => y[z] = r[z]
  BY <1>2, <1>5, Retimed
<1>7. y.op = r.op /\ y.client = r.client /\ y.of = r.of /\ y.session = r.session
  BY <1>5, <1>6
<1>8. Grows /\ ClientTypes' /\ PaneTypes' /\ HearsOn
  BY <1>0, <1>3 DEF Grows, ClientTypes, PaneTypes, HearsOn, Hears
<1>9. HealerOn
  BY <1>0, <1>3, <1>8, HealerWaits
<1>10. ~MovesNow(thread[q])
  BY <1>1, <1>5 DEF MovesNow
<1>11. CASE Tmux!Becomes(q, y) /\ UNCHANGED <<tmux_sinks, misjudged>>
  <2>1. IsRequest(y)'
    <3>1. IsRequest(r)'
      BY <1>4, <1>8, RequestStays
    <3> QED BY <1>3, <1>5, <1>6, <1>7, <3>1 DEF IsRequest, InRequest
  <2>2. /\ thread' = [o \in Requests |-> thread'[o]] /\ thread'[q] = y
        /\ \A o \in Requests : o # q => thread'[o] = thread[o]
        /\ \A o \in Requests : thread'[o] = Tmux!Idle \/ IsRequest(thread[o])'
    BY <1>0, <1>8, <1>11, <2>1, OneRequest
  <2>3. SessionTypes'
    BY <1>0, <1>3, <1>11 DEF SessionTypes
  <2>4. TmuxTypes'
    BY <1>0, <1>3, <1>8, <2>2, <2>3, TypesOn
  <2>5. Makes(q) /\ y.session = thread[q].session /\ y.of = thread[q].of
        /\ y.client = thread[q].client
    BY <1>1, <1>3, <1>7 DEF Makes
  <2>6. \A o \in Requests : \A s, w : MadeAt(o, s, w)' =>
          MadeAt(o, s, w) /\ s \notin {} /\ thread'[o].client = thread[o].client
    BY <2>2, <2>5, Remakes
  <2>7. \A p, s, w : InstalledAt(p, s, w)' => InstalledAt(p, s, w) /\ s \notin {}
    BY <1>3 DEF InstalledAt
  <2>8. OnlyOld({})
    BY <2>6, <2>7 DEF OnlyOld
  <2>9. \A p, win : Moves(p, win) => Moves(p, win)'
    BY <1>10, <2>2, MovesStay
  <2> QED BY <1>3, <1>8, <1>9, <1>11, <2>4, <2>8, <2>9, CalmHolds
<1>12. CASE Tmux!Becomes(q, n) /\ Tmux!unregister_sink(s0, {})
  <2>1. /\ thread' = [o \in Requests |-> thread'[o]] /\ thread'[q] = n
        /\ \A o \in Requests : o # q => thread'[o] = thread[o]
        /\ \A o \in Requests : thread'[o] = Tmux!Idle \/ IsRequest(thread[o])'
    BY <1>0, <1>2, <1>8, <1>12, OneRequest
  <2>2. tmux_sinks' = [w \in LocalWorkstations |-> tmux_sinks'[w]]
    BY <1>0, <1>5, <1>12, UnregisterIs
  <2>3. SessionTypes'
    BY <1>0, <1>3, <2>2 DEF SessionTypes
  <2>4. TmuxTypes'
    BY <1>0, <1>3, <1>8, <2>1, <2>3, TypesOn
  <2>5. n.at \notin {"resizing", "made"}
    BY <1>2 DEF Tmux!Idle
  <2>6. \A o \in Requests : \A s, w : MadeAt(o, s, w)' =>
          /\ MadeAt(o, s, w) /\ thread'[o].client = thread[o].client /\ o # q
    BY <2>1, <2>5, Remakes
  <2>7. MadeAt(q, s0, r.of)
    BY <1>1, <1>3 DEF MadeAt, Makes
  <2>8. \A o \in Requests : \A s, w : MadeAt(o, s, w)' =>
          MadeAt(o, s, w) /\ s \notin {s0} /\ thread'[o].client = thread[o].client
    BY <1>0, <2>6, <2>7 DEF SessionsDiffer, MadeAt
  <2>9. \A p, s, w : InstalledAt(p, s, w)' => InstalledAt(p, s, w) /\ s \notin {s0}
    BY <1>0, <1>3, <2>7 DEF InstalledAt, SessionsDiffer, MadeAt
  <2>10. OnlyOld({s0})
    BY <2>8, <2>9 DEF OnlyOld
  <2>11. \A p, win : MovesOn(p, win)
    <3>1. \A p, win : Moves(p, win) => Moves(p, win)'
      BY <1>10, <2>1, MovesStay
    <3> QED BY <3>1 DEF MovesOn
  <2> QED BY <1>3, <1>5, <1>12, <2>4, <2>10, <2>11, UnregisterHolds
<1> QED BY <1>3, <1>11, <1>12

LEMMA GivesUpHolds ==
  ASSUME TmuxInv, NEW q \in Requests, Tmux!GivesUp(q)
  PROVE  TmuxInv'
<1>0. /\ TmuxTypes /\ SessionsDiffer /\ EndsAreTrue /\ PanesFit /\ MadeFit
      /\ ClientTypes /\ SessionTypes /\ PaneTypes
  BY TypesAre DEF TmuxInv
<1>1. PICK r, s0, x : r = thread[q] /\ s0 = r.session /\ x = r.window
  OBVIOUS
<1>2. PICK y, n, X : /\ y = [r EXCEPT !.at = "terminating"] /\ n = Tmux!Idle
                     /\ X = IF r.op = "move" THEN Tmux!Away(x, windows[x]) ELSE {}
  OBVIOUS
<1>3. /\ r.at = "made"
      /\ \/ r.op = "create" /\ Tmux!Becomes(q, y) /\ UNCHANGED <<tmux_sinks, misjudged>>
         \/ Tmux!Becomes(q, n) /\ Tmux!unregister_sink(s0, X)
      /\ UNCHANGED <<tmux_clients, client, session, attached, windows, healer>>
  BY <1>1, <1>2 DEF Tmux!GivesUp
<1>4. IsRequest(r)
  BY <1>0, <1>1, <1>3, RequestKind
<1>5. /\ {"at", "op", "pane", "client", "of", "session"} \subseteq DOMAIN r
      /\ s0 \in DOMAIN session
  BY <1>1, <1>3, <1>4 DEF IsRequest
<1>6. DOMAIN y = DOMAIN r /\ y.at = "terminating" /\ \A z \in DOMAIN r : z # "at" => y[z] = r[z]
  BY <1>2, <1>5, Retimed
<1>7. /\ y.op = r.op /\ y.client = r.client /\ y.of = r.of /\ y.session = r.session
      /\ y.pane = r.pane
  BY <1>5, <1>6
<1>8. Grows /\ ClientTypes' /\ PaneTypes' /\ HearsOn
  BY <1>0, <1>3 DEF Grows, ClientTypes, PaneTypes, HearsOn, Hears
<1>9. CASE r.op = "create" /\ Tmux!Becomes(q, y) /\ UNCHANGED <<tmux_sinks, misjudged>>
  <2>1. IsRequest(y)'
    <3>1. IsRequest(r)'
      BY <1>4, <1>8, RequestStays
    <3> QED BY <1>3, <1>5, <1>6, <1>7, <1>9, <3>1 DEF IsRequest, InRequest
  <2>2. ~MovesNow(thread[q])
    BY <1>1, <1>9 DEF MovesNow
  <2>3. y.at \notin {"resizing", "made"}
    BY <1>6
  <2> QED BY <1>3, <1>8, <1>9, <2>1, <2>2, <2>3, CalmRequest
<1>10. CASE Tmux!Becomes(q, n) /\ Tmux!unregister_sink(s0, X)
  <2>1. /\ thread' = [o \in Requests |-> thread'[o]] /\ thread'[q] = n
        /\ \A o \in Requests : o # q => thread'[o] = thread[o]
        /\ \A o \in Requests : thread'[o] = Tmux!Idle \/ IsRequest(thread[o])'
    BY <1>0, <1>2, <1>8, <1>10, OneRequest
  <2>2. /\ tmux_sinks' = [w \in LocalWorkstations |-> tmux_sinks'[w]]
        /\ misjudged \cup X \subseteq misjudged'
    BY <1>0, <1>5, <1>10, UnregisterIs
  <2>3. SessionTypes'
    BY <1>0, <1>3, <2>2 DEF SessionTypes
  <2>4. TmuxTypes'
    BY <1>0, <1>3, <1>8, <2>1, <2>3, TypesOn
  <2>5. n.at \notin {"resizing", "made"}
    BY <1>2 DEF Tmux!Idle
  <2>6. \A o \in Requests : \A s, w : MadeAt(o, s, w)' =>
          /\ MadeAt(o, s, w) /\ thread'[o].client = thread[o].client /\ o # q
    BY <2>1, <2>5, Remakes
  <2>7. MadeAt(q, s0, r.of)
    BY <1>1, <1>3 DEF MadeAt, Makes
  <2>8. \A o \in Requests : \A s, w : MadeAt(o, s, w)' =>
          MadeAt(o, s, w) /\ s \notin {s0} /\ thread'[o].client = thread[o].client
    BY <1>0, <2>6, <2>7 DEF SessionsDiffer, MadeAt
  <2>9. \A p, s, w : InstalledAt(p, s, w)' => InstalledAt(p, s, w) /\ s \notin {s0}
    BY <1>0, <1>3, <2>7 DEF InstalledAt, SessionsDiffer, MadeAt
  <2>10. OnlyOld({s0})
    BY <2>8, <2>9 DEF OnlyOld
  <2>11. ASSUME NEW p, NEW win PROVE MovesOn(p, win)
    <3>1. ASSUME NEW o \in Requests, MovesBy(o, p, win), o # q PROVE Moves(p, win)'
      BY <2>1, <3>1 DEF Moves, MovesBy
    <3>2. ASSUME MovesBy(q, p, win), NEW s, NEW w, InstalledAt(p, s, w),
                 session[s].window = win, Lives(s)'
          PROVE  InPlace(s, w)'
      <4>1. win = x /\ r.op = "move"
        BY <1>1, <3>2 DEF MovesBy
      <4>2. s \in DOMAIN session /\ w \in LocalWorkstations
        BY <1>0, <3>2 DEF InstalledAt, PaneTypes, Pane
      <4>3. Lives(s)
        BY <1>3, <2>2, <3>2 DEF Lives
      <4>4. Connected(s, w)
        BY <1>0, <3>2, <4>3 DEF PanesFit, InstalledAt
      <4>5. s \notin Tmux!Away(x, windows[x])
        BY <1>2, <2>2, <3>2, <4>1 DEF Lives
      <4>6. windows[x] = w
        BY <3>2, <4>1, <4>2, <4>4, <4>5 DEF Tmux!Away, Connected
      <4> QED BY <1>3, <3>2, <4>1, <4>6 DEF InPlace
    <3> QED BY <3>1, <3>2 DEF Moves, MovesOn
  <2> QED BY <1>3, <1>5, <1>10, <2>4, <2>10, <2>11, UnregisterHolds
<1> QED BY <1>3, <1>9, <1>10

LEMMA RemovesHolds ==
  ASSUME TmuxInv, NEW q \in Requests, Tmux!RemovesPane(q)
  PROVE  TmuxInv'
<1>0. /\ TmuxTypes /\ SessionsDiffer /\ EndsAreTrue /\ PanesFit /\ MadeFit
      /\ ClientTypes /\ SessionTypes /\ PaneTypes
  BY TypesAre DEF TmuxInv
<1>1. PICK x, n, s0 : x = thread[q].pane /\ n = Tmux!Idle /\ s0 = attached[x].session
  OBVIOUS
<1>2. /\ thread[q].at = "removing" /\ Tmux!Becomes(q, n)
      /\ UNCHANGED <<tmux_clients, client, session, windows, healer>>
  BY <1>1 DEF Tmux!RemovesPane
<1>3. n.at \notin {"resizing", "made"} /\ ~MovesNow(thread[q])
  BY <1>1, <1>2 DEF Tmux!Idle, MovesNow
<1>4. ClientTypes' /\ HearsOn /\ Grows
  BY <1>0, <1>2 DEF ClientTypes, HearsOn, Hears, Grows
<1>5. CASE x \notin DOMAIN attached
  <2>1. UNCHANGED <<attached, tmux_sinks, misjudged>>
    BY <1>1, <1>5 DEF Tmux!RemovesPane
  <2> QED BY <1>1, <1>2, <1>3, <1>4, <2>1, CalmRequest
<1>6. CASE x \in DOMAIN attached
  <2>1. attached' = Tmux!Without(attached, x) /\ Tmux!unregister_sink(s0, {})
    BY <1>1, <1>6 DEF Tmux!RemovesPane
  <2>2. /\ DOMAIN attached' = DOMAIN attached \ {x}
        /\ \A p \in DOMAIN attached' : attached'[p] = attached[p]
    BY <2>1 DEF Tmux!Without
  <2>3. attached' = [p \in DOMAIN attached' |-> attached[p]]
    BY <2>1 DEF Tmux!Without
  <2>4. s0 \in DOMAIN session
    BY <1>0, <1>1, <1>6 DEF PaneTypes
  <2>5. tmux_sinks' = [w \in LocalWorkstations |-> tmux_sinks'[w]]
    BY <1>0, <2>1, <2>4, UnregisterIs
  <2>6. SessionTypes' /\ PaneTypes'
    BY <1>0, <1>2, <2>2, <2>3, <2>5 DEF SessionTypes, PaneTypes
  <2>7. /\ thread' = [o \in Requests |-> thread'[o]] /\ thread'[q] = n
        /\ \A o \in Requests : o # q => thread'[o] = thread[o]
        /\ \A o \in Requests : thread'[o] = Tmux!Idle \/ IsRequest(thread[o])'
    BY <1>0, <1>1, <1>2, <1>4, OneRequest
  <2>8. TmuxTypes'
    BY <1>0, <1>2, <1>4, <2>6, <2>7, TypesOn
  <2>9. \A o \in Requests : \A s, w : MadeAt(o, s, w)' =>
          MadeAt(o, s, w) /\ thread'[o].client = thread[o].client
    BY <1>3, <2>7, Remakes
  <2>10. \A o \in Requests : \A s, w : MadeAt(o, s, w)' =>
          MadeAt(o, s, w) /\ s \notin {s0} /\ thread'[o].client = thread[o].client
    BY <1>0, <1>1, <1>6, <2>9 DEF SessionsDiffer, MadeAt
  <2>11. \A p, s, w : InstalledAt(p, s, w)' => InstalledAt(p, s, w) /\ s \notin {s0}
    BY <1>0, <1>1, <1>6, <2>2 DEF InstalledAt, SessionsDiffer
  <2>12. OnlyOld({s0})
    BY <2>10, <2>11 DEF OnlyOld
  <2>13. \A p, win : MovesOn(p, win)
    <3>1. \A p, win : Moves(p, win) => Moves(p, win)'
      BY <1>3, <2>7, MovesStay
    <3> QED BY <3>1 DEF MovesOn
  <2> QED BY <1>2, <2>1, <2>4, <2>8, <2>12, <2>13, UnregisterHolds
<1> QED BY <1>5, <1>6

-----------------------------------------------------------------------------
(* A made session is installed. *)

LEMMA CommitHolds ==
  ASSUME TmuxInv, TmuxTypes', NEW q \in Requests, NEW n, thread'[q] = n,
         \A o \in Requests : o # q => thread'[o] = thread[o],
         Makes(q), n.at \notin {"resizing", "made"}, UNCHANGED <<session, windows>>,
         NEW p, NEW pv, pv.session = thread[q].session,
         DOMAIN attached' = DOMAIN attached \cup {p}, attached'[p] = pv,
         \A x \in DOMAIN attached : x # p => attached'[x] = attached[x],
         misjudged \subseteq misjudged',
         pv.of = thread[q].of \/ thread[q].session \in misjudged',
         \A s \in DOMAIN session, w \in LocalWorkstations :
           (p \in DOMAIN attached => s # attached[p].session) => Steady(s, w),
         MovesNow(thread[q]) => thread[q].pane = p
  PROVE  TmuxInv'
<1>0. /\ TmuxTypes /\ SessionsDiffer /\ EndsAreTrue /\ PanesFit /\ MadeFit
      /\ ClientTypes /\ SessionTypes /\ PaneTypes
  BY TypesAre DEF TmuxInv
<1>1. PICK s1, v : s1 = thread[q].session /\ v = thread[q].of
  OBVIOUS
<1>2. s1 \in DOMAIN session /\ v \in LocalWorkstations /\ MadeAt(q, s1, v)
  BY <1>0, <1>1, MakerKind DEF MadeAt
<1>3. p \in DOMAIN attached => s1 # attached[p].session
  BY <1>0, <1>1 DEF SessionsDiffer
<1>4. ASSUME NEW x, NEW s, NEW w, InstalledAt(x, s, w)'
      PROVE  \/ /\ InstalledAt(x, s, w) /\ Steady(s, w)
                /\ session'[s].window = session[s].window /\ MovesOn(x, session[s].window)
             \/ Lives(s)' => /\ Connected(s, w)'
                             /\ InPlace(s, w)' \/ Moves(x, session[s].window)'
  <2>1. CASE x = p
    <3>1. s = s1 /\ w = pv.of
      BY <1>1, <1>4, <2>1 DEF InstalledAt
    <3>2. ASSUME Lives(s)' PROVE Connected(s, w)' /\ InPlace(s, w)'
      <4>1. w = v
        BY <1>1, <3>1, <3>2 DEF Lives
      <4>2. Steady(s1, v)
        BY <1>2, <1>3
      <4>3. Steady(s, w)
        BY <3>1, <4>1, <4>2
      <4>4. Lives(s)
        BY <3>2, <4>3 DEF Steady
      <4>5. Connected(s, w) /\ InPlace(s, w)
        BY <1>0, <1>2, <3>1, <4>1, <4>4 DEF MadeFit, MadeAt
      <4> QED BY <3>2, <4>3, <4>5 DEF Steady
    <3> QED BY <3>2
  <2>2. CASE x # p
    <3>1. InstalledAt(x, s, w)
      BY <1>4, <2>2 DEF InstalledAt
    <3>2. s \in DOMAIN session /\ w \in LocalWorkstations
      BY <1>0, <3>1 DEF InstalledAt, PaneTypes, Pane
    <3>3. p \in DOMAIN attached => s # attached[p].session
      BY <1>0, <2>2, <3>1 DEF SessionsDiffer, InstalledAt
    <3>4. PICK win : win = session[s].window
      OBVIOUS
    <3>5. MovesOn(x, win)
      <4>1. ASSUME NEW o \in Requests, MovesBy(o, x, win) PROVE Moves(x, win)'
        <5>1. o # q
          BY <2>2, <4>1 DEF MovesBy, MovesNow
        <5> QED BY <4>1, <5>1 DEF Moves, MovesBy
      <4> QED BY <4>1 DEF Moves, MovesOn
    <3> QED BY <3>1, <3>2, <3>3, <3>4, <3>5
  <2> QED BY <2>1, <2>2
<1>5. ASSUME NEW o \in Requests, Makes(o)'
      PROVE  /\ o # q /\ Makes(o) /\ thread'[o] = thread[o]
             /\ thread[o].session # s1
             /\ \A x \in DOMAIN attached : thread[o].session # attached[x].session
  <2>1. o # q
    BY <1>5 DEF Makes
  <2>2. Makes(o) /\ thread'[o] = thread[o]
    BY <1>5, <2>1 DEF Makes
  <2> QED BY <1>0, <1>1, <2>1, <2>2 DEF SessionsDiffer
<1>6. ASSUME NEW o \in Requests, NEW s, NEW w, MadeAt(o, s, w)'
      PROVE  /\ MadeAt(o, s, w) /\ Steady(s, w)
             /\ session'[s].client = session[s].client
             /\ thread'[o].client = thread[o].client
  <2>1. Makes(o)'
    BY <1>6 DEF MadeAt
  <2>2. MadeAt(o, s, w)
    BY <1>5, <1>6, <2>1 DEF MadeAt
  <2>3. s \in DOMAIN session /\ w \in LocalWorkstations
    BY <1>0, <2>2, MakerKind DEF MadeAt
  <2>4. p \in DOMAIN attached => s # attached[p].session
    BY <1>5, <2>1, <2>2 DEF MadeAt
  <2> QED BY <1>5, <2>1, <2>2, <2>3, <2>4
<1>7. PanesFit' /\ MadeFit'
  BY <1>0, <1>4, <1>6, FitsHold
<1>8. SessionsDiffer'
  <2>1. ASSUME NEW x \in DOMAIN attached'
        PROVE  \/ x = p /\ attached'[x].session = s1
               \/ /\ x # p /\ x \in DOMAIN attached /\ attached'[x].session = attached[x].session
                  /\ attached[x].session # s1
    BY <1>0, <1>1 DEF SessionsDiffer
  <2>2. \A x, o \in DOMAIN attached' : attached'[x].session = attached'[o].session => x = o
    BY <1>0, <2>1 DEF SessionsDiffer
  <2>3. ASSUME NEW o \in Requests, Makes(o)'
        PROVE  /\ \A x \in DOMAIN attached' : thread'[o].session # attached'[x].session
               /\ \A y \in Requests :
                    Makes(y)' /\ thread'[y].session = thread'[o].session => y = o
    BY <1>0, <1>5, <2>1, <2>3 DEF SessionsDiffer
  <2> QED BY <2>2, <2>3 DEF SessionsDiffer
<1>9. EndsAreTrue'
  <2>1. \A s \in DOMAIN session' : session'[s].ended => s \in DOMAIN session /\ session[s].ended
    OBVIOUS
  <2> QED BY <1>0, <2>1, EndsHold
<1> QED BY <1>7, <1>8, <1>9 DEF TmuxInv

LEMMA CommitsHolds ==
  ASSUME TmuxInv, NEW q \in Requests, Tmux!Commits(q)
  PROVE  TmuxInv'
<1>0. /\ TmuxTypes /\ SessionsDiffer /\ EndsAreTrue /\ PanesFit /\ MadeFit
      /\ ClientTypes /\ SessionTypes /\ PaneTypes
  BY TypesAre DEF TmuxInv
<1>1. PICK r, p, v, s1 : r = thread[q] /\ p = r.pane /\ v = r.of /\ s1 = r.session
  OBVIOUS
<1>2. /\ r.at = "made" /\ Tmux!Finds(r)
      /\ UNCHANGED <<tmux_clients, client, session, windows, healer>>
  BY <1>1 DEF Tmux!Commits
<1>3. IsRequest(r) /\ Makes(q)
  BY <1>0, <1>1, <1>2, RequestKind DEF Makes
<1>4. /\ {"at", "op", "pane", "client", "of", "session"} \subseteq DOMAIN r
      /\ r.op \in {"create", "reattach", "move"} /\ v \in LocalWorkstations
      /\ s1 \in DOMAIN session /\ s1 \in Nat /\ r.client \in DOMAIN client
  BY <1>0, <1>1, <1>2, <1>3 DEF IsRequest, SessionTypes
<1>5. Grows /\ ClientTypes' /\ HearsOn
  BY <1>0, <1>2 DEF Grows, ClientTypes, HearsOn, Hears
<1>6. HealerOn
  BY <1>0, <1>2, <1>5, HealerWaits
<1>7. MovesNow(thread[q]) => thread[q].pane = p
  BY <1>1
<1>8. CASE r.op = "reattach"
  <2>1. PICK old, n, pv : /\ old = attached[p].session
                          /\ n = [r EXCEPT !.at = "terminating", !.session = old]
                          /\ pv = [attached[p] EXCEPT !.session = s1]
    OBVIOUS
  <2>2. /\ attached' = [attached EXCEPT ![p] = pv] /\ Tmux!Becomes(q, n) /\ UNCHANGED tmux_sinks
        /\ misjudged' = IF attached'[p].of = v THEN misjudged ELSE misjudged \cup {s1}
    BY <1>1, <1>8, <2>1 DEF Tmux!Commits
  <2>3. p \in DOMAIN attached
    BY <1>1, <1>2, <1>8 DEF Tmux!Finds
  <2>4. attached[p] \in Pane /\ old \in DOMAIN session
    BY <1>0, <2>1, <2>3 DEF PaneTypes
  <2>5. pv \in Pane /\ pv.session = s1 /\ pv.of = attached[p].of
    BY <1>4, <2>1, <2>4 DEF Pane
  <2>6. /\ DOMAIN attached' = DOMAIN attached /\ attached'[p] = pv
        /\ \A x \in DOMAIN attached : x # p => attached'[x] = attached[x]
        /\ attached' \in [DOMAIN attached' -> Pane]
    BY <1>0, <2>2, <2>3, <2>5 DEF PaneTypes
  <2>7. /\ DOMAIN n = DOMAIN r /\ n.at = "terminating" /\ n.session = old
        /\ n.op = "reattach" /\ n.pane = p /\ n.client = r.client /\ n.of = v
    BY <1>1, <1>4, <1>8, <2>1
  <2>8. SessionTypes' /\ PaneTypes'
    BY <1>0, <1>2, <1>4, <2>2, <2>5, <2>6 DEF SessionTypes, PaneTypes
  <2>9. IsRequest(n)'
    BY <1>2, <1>4, <2>4, <2>7 DEF IsRequest, InRequest
  <2>10. /\ thread' = [o \in Requests |-> thread'[o]] /\ thread'[q] = n
         /\ \A o \in Requests : o # q => thread'[o] = thread[o]
         /\ \A o \in Requests : thread'[o] = Tmux!Idle \/ IsRequest(thread[o])'
    BY <1>0, <1>5, <2>2, <2>9, OneRequest
  <2>11. TmuxTypes'
    BY <1>0, <1>2, <1>5, <2>8, <2>10, TypesOn
  <2>12. ASSUME NEW s \in DOMAIN session, NEW w \in LocalWorkstations
         PROVE  Steady(s, w)
    <3>1. /\ session'[s].window = session[s].window /\ session'[s].client = session[s].client
          /\ session[s].ended => session'[s].ended
          /\ client'[session[s].client].of = client[session[s].client].of
          /\ windows'[session[s].window] = windows[session[s].window]
          /\ misjudged \subseteq misjudged'
      BY <1>2, <2>2
    <3>2. InPlace(s, w) => InPlace(s, w)'
      BY <1>0, <1>5, <1>6, <3>1, InPlaceStays
    <3>3. Connected(s, w) => /\ session[s].window \in DOMAIN tmux_sinks'[w]
                             /\ tmux_sinks'[w][session[s].window] = s
      BY <2>2 DEF Connected
    <3> QED BY <3>1, <3>2, <3>3, SteadyIf
  <2>13. /\ pv.session = thread[q].session /\ DOMAIN attached' = DOMAIN attached \cup {p}
         /\ misjudged \subseteq misjudged' /\ n.at \notin {"resizing", "made"}
         /\ pv.of = thread[q].of \/ thread[q].session \in misjudged'
    BY <1>1, <2>2, <2>3, <2>5, <2>6, <2>7
  <2> QED BY <1>2, <1>3, <1>7, <2>6, <2>10, <2>11, <2>12, <2>13, CommitHolds
<1>9. CASE r.op # "reattach"
  <2>1. PICK old, n, pv : /\ old = attached[p].session /\ n = Tmux!Idle
                          /\ pv = [of |-> v, session |-> s1]
    OBVIOUS
  <2>2. attached' = Tmux!Put(attached, p, pv) /\ Tmux!Becomes(q, n)
    BY <1>1, <1>9, <2>1 DEF Tmux!Commits
  <2>3. pv \in Pane /\ pv.session = s1 /\ pv.of = v
    BY <1>4, <2>1 DEF Pane
  <2>4. /\ DOMAIN attached' = DOMAIN attached \cup {p} /\ attached'[p] = pv
        /\ \A x \in DOMAIN attached : x # p => attached'[x] = attached[x]
        /\ attached' = [x \in DOMAIN attached' |-> attached'[x]]
    BY <2>2 DEF Tmux!Put
  <2>5. PaneTypes'
    <3>1. \A x \in DOMAIN attached' : attached'[x] \in Pane /\ attached'[x].session \in DOMAIN session'
      BY <1>0, <1>2, <1>4, <2>3, <2>4 DEF PaneTypes
    <3>2. attached' \in [DOMAIN attached' -> Pane]
      BY <2>4, <3>1
    <3> QED BY <3>1, <3>2 DEF PaneTypes
  <2>6. /\ thread' = [o \in Requests |-> thread'[o]] /\ thread'[q] = n
        /\ \A o \in Requests : o # q => thread'[o] = thread[o]
        /\ \A o \in Requests : thread'[o] = Tmux!Idle \/ IsRequest(thread[o])'
    BY <1>0, <1>5, <2>1, <2>2, OneRequest
  <2>7. n.at \notin {"resizing", "made"}
    BY <2>1 DEF Tmux!Idle
  <2>8. pv.session = thread[q].session /\ pv.of = thread[q].of
    BY <1>1, <2>3
  <2>9. CASE r.op = "move"
    <3>1. p \in DOMAIN attached
      BY <1>1, <1>2, <2>9 DEF Tmux!Finds
    <3>2. old \in DOMAIN session
      BY <1>0, <2>1, <3>1 DEF PaneTypes
    <3>3. Tmux!unregister_sink(old, {})
      BY <1>1, <2>1, <2>9 DEF Tmux!Commits
    <3>4. /\ tmux_sinks' = [w \in LocalWorkstations |-> tmux_sinks'[w]]
          /\ misjudged \subseteq misjudged'
      BY <1>0, <3>2, <3>3, UnregisterIs
    <3>5. SessionTypes'
      BY <1>0, <1>2, <3>4 DEF SessionTypes
    <3>6. TmuxTypes'
      BY <1>0, <1>2, <1>5, <2>5, <2>6, <3>5, TypesOn
    <3>7. \A s \in DOMAIN session, w \in LocalWorkstations :
            (p \in DOMAIN attached => s # attached[p].session) => Steady(s, w)
      BY <1>0, <1>2, <2>1, <3>1, <3>2, <3>3, UnregisterSteady
    <3> QED BY <1>2, <1>3, <1>7, <2>4, <2>6, <2>7, <2>8, <3>4, <3>6, <3>7, CommitHolds
  <2>10. CASE r.op = "create"
    <3>1. UNCHANGED tmux_sinks
          /\ misjudged' = IF attached'[p].of = v THEN misjudged ELSE misjudged \cup {s1}
      BY <1>1, <2>10 DEF Tmux!Commits
    <3>2. misjudged' = misjudged
      BY <2>3, <2>4, <3>1
    <3>3. SessionTypes'
      BY <1>0, <1>2, <3>1 DEF SessionTypes
    <3>4. TmuxTypes'
      BY <1>0, <1>2, <1>5, <2>5, <2>6, <3>3, TypesOn
    <3>5. \A s \in DOMAIN session : \A w : Steady(s, w)
      BY <1>0, <1>2, <1>5, <1>6, <3>1, <3>2, SteadyCalm
    <3> QED BY <1>2, <1>3, <1>7, <2>4, <2>6, <2>7, <2>8, <3>2, <3>4, <3>5, CommitHolds
  <2> QED BY <1>4, <1>9, <2>9, <2>10
<1> QED BY <1>8, <1>9

LEMMA TerminatesHolds ==
  ASSUME TmuxInv, NEW q \in Requests, Tmux!terminate_and_wait(q)
  PROVE  TmuxInv'
<1>0. /\ TmuxTypes /\ SessionsDiffer /\ EndsAreTrue /\ PanesFit /\ MadeFit
      /\ ClientTypes /\ SessionTypes /\ PaneTypes
  BY TypesAre DEF TmuxInv
<1>1. PICK r, s0 : r = thread[q] /\ s0 = r.session
  OBVIOUS
<1>2. PICK x : x = session[s0].window
  OBVIOUS
<1>3. PICK kills \in BOOLEAN :
        kills <=> ~session[s0].ended /\ client[session[s0].client].up /\ windows[x] # None
  OBVIOUS
<1>4. PICK fails \in BOOLEAN : fails <=> ~session[s0].ended /\ ~kills
  OBVIOUS
<1>5. PICK y, n, X : /\ y = [r EXCEPT !.at = "removing"]
                     /\ n = (IF r.op = "close" /\ ~fails THEN y ELSE Tmux!Idle)
                     /\ X = IF fails THEN {s0} ELSE {}
  OBVIOUS
<1>6. /\ r.at = "terminating" /\ Tmux!unregister_sink(s0, X)
      /\ windows' = IF kills THEN [windows EXCEPT ![x] = None] ELSE windows
      /\ client' = IF kills THEN Tmux!Told(windows[x], x) ELSE client
      /\ session' = IF kills THEN Tmux!Ended({s0}) ELSE session
      /\ Tmux!Becomes(q, n) /\ UNCHANGED <<tmux_clients, attached, healer>>
  BY <1>1, <1>2, <1>3, <1>4, <1>5 DEF Tmux!terminate_and_wait, Tmux!unregister_sink
<1>7. IsRequest(r)
  BY <1>0, <1>1, <1>6, RequestKind
<1>8. /\ {"at", "op", "pane", "client"} \subseteq DOMAIN r /\ s0 \in DOMAIN session
      /\ r.op \in {"create", "reattach", "move", "close"} /\ r.client \in DOMAIN client
  BY <1>1, <1>6, <1>7 DEF IsRequest
<1>9. x \in DOMAIN windows /\ x \in Nat
  BY <1>0, <1>2, <1>8 DEF SessionTypes
<1>10. DOMAIN y = DOMAIN r /\ y.at = "removing" /\ \A z \in DOMAIN r : z # "at" => y[z] = r[z]
  BY <1>5, <1>8, Retimed
<1>11. y.op = r.op /\ y.pane = r.pane /\ y.client = r.client
  BY <1>8, <1>10
<1>12. /\ tmux_sinks' = [w \in LocalWorkstations |-> tmux_sinks'[w]]
       /\ misjudged \cup X \subseteq misjudged'
       /\ \A s \in DOMAIN session, w \in LocalWorkstations :
            s # s0 /\ s \notin misjudged' /\ Connected(s, w) =>
              /\ session[s].window \in DOMAIN tmux_sinks'[w]
              /\ tmux_sinks'[w][session[s].window] = s
  BY <1>0, <1>6, <1>8, UnregisterIs
<1>13. /\ ClientTypes' /\ DOMAIN client' = DOMAIN client
       /\ \A c \in DOMAIN client : client'[c].of = client[c].of
       /\ HearsOn
  <2>1. CASE kills
    <3>1. PICK m : m = Tmux!Told(windows[x], x)
      OBVIOUS
    <3>2. Telling(m)
      BY <1>0, <1>9, <3>1, ToldIs
    <3>3. client' = m
      BY <1>6, <2>1, <3>1
    <3>4. /\ ClientTypes' /\ DOMAIN client' = DOMAIN client
          /\ \A c \in DOMAIN client : client'[c].of = client[c].of
          /\ \A c \in DOMAIN client : \A win : Hears(c, win) => Hears(c, win)'
      BY <1>0, <1>6, <3>2, <3>3, TellingKeeps
    <3> QED BY <3>4 DEF HearsOn
  <2>2. CASE ~kills
    <3>1. client' = client
      BY <1>6, <2>2
    <3> QED BY <1>0, <1>6, <3>1 DEF ClientTypes, HearsOn, Hears
  <2> QED BY <2>1, <2>2
<1>14. /\ windows' \in Seq(LocalWorkstations \cup {None}) /\ DOMAIN windows' = DOMAIN windows
       /\ \A z \in DOMAIN windows : windows[z] = None => windows'[z] = None
       /\ kills => windows'[x] = None
  <2>1. CASE kills
    <3>1. windows' = [windows EXCEPT ![x] = None]
      BY <1>6, <2>1
    <3>2. /\ windows' \in Seq(LocalWorkstations \cup {None}) /\ DOMAIN windows' = DOMAIN windows
          /\ windows'[x] = None /\ \A z \in DOMAIN windows : z # x => windows'[z] = windows[z]
      BY <1>0, <1>9, <3>1, ClosedTypes
    <3> QED BY <3>2
  <2>2. CASE ~kills
    <3>1. windows' = windows
      BY <1>6, <2>2
    <3> QED BY <1>0, <2>2, <3>1 DEF SessionTypes
  <2> QED BY <2>1, <2>2
<1>15. /\ session' \in Seq(Session) /\ DOMAIN session' = DOMAIN session
       /\ \A s \in DOMAIN session :
            /\ session'[s].window = session[s].window /\ session'[s].client = session[s].client
            /\ session'[s].ended <=> session[s].ended \/ (kills /\ s = s0)
  <2>1. CASE kills
    <3>1. session' = Tmux!Ended({s0})
      BY <1>6, <2>1
    <3>2. /\ session' \in Seq(Session) /\ DOMAIN session' = DOMAIN session
          /\ \A s \in DOMAIN session :
               /\ session'[s].window = session[s].window
               /\ session'[s].client = session[s].client
               /\ session'[s].ended <=> session[s].ended \/ s \in {s0}
      BY <1>0, <3>1, EndedIs
    <3> QED BY <2>1, <3>2
  <2>2. CASE ~kills
    <3>1. session' = session
      BY <1>6, <2>2
    <3> QED BY <1>0, <2>2, <3>1 DEF SessionTypes
  <2> QED BY <2>1, <2>2
<1>16. Grows /\ SessionTypes' /\ PaneTypes'
  BY <1>0, <1>6, <1>12, <1>13, <1>14, <1>15 DEF Grows, SessionTypes, PaneTypes
<1>17. n = Tmux!Idle \/ IsRequest(n)'
  <2>1. r.op = "close" => IsRequest(y)'
    BY <1>6, <1>8, <1>10, <1>11, <1>13 DEF IsRequest, InRequest
  <2> QED BY <1>5, <2>1
<1>18. /\ thread' = [o \in Requests |-> thread'[o]] /\ thread'[q] = n
       /\ \A o \in Requests : o # q => thread'[o] = thread[o]
       /\ \A o \in Requests : thread'[o] = Tmux!Idle \/ IsRequest(thread[o])'
  BY <1>0, <1>6, <1>16, <1>17, OneRequest
<1>19. TmuxTypes'
  BY <1>0, <1>6, <1>13, <1>16, <1>18, TypesOn
<1>20. n.at \notin {"resizing", "made"}
  BY <1>5, <1>10 DEF Tmux!Idle
<1>21. OnlyOld({})
  <2>1. \A o \in Requests : \A s, w : MadeAt(o, s, w)' =>
          MadeAt(o, s, w) /\ s \notin {} /\ thread'[o].client = thread[o].client
    BY <1>18, <1>20, Remakes
  <2>2. \A p, s, w : InstalledAt(p, s, w)' => InstalledAt(p, s, w) /\ s \notin {}
    BY <1>6 DEF InstalledAt
  <2> QED BY <2>1, <2>2 DEF OnlyOld
<1>22. \A p, win : MovesOn(p, win)
  <2>1. ~MovesNow(thread[q])
    BY <1>1, <1>6 DEF MovesNow
  <2>2. \A p, win : Moves(p, win) => Moves(p, win)'
    BY <1>18, <2>1, MovesStay
  <2> QED BY <2>2 DEF MovesOn
<1>23. ~Lives(s0)'
  <2>1. CASE fails
    BY <1>5, <1>12, <2>1 DEF Lives
  <2>2. CASE ~fails
    BY <1>4, <1>8, <1>15, <2>2 DEF Lives
  <2> QED BY <2>1, <2>2
<1>24. HealerOn
  BY <1>0, <1>6, <1>13, HealerWaits
<1>25. ASSUME NEW s \in DOMAIN session, NEW w \in LocalWorkstations, Used(s, w)
       PROVE  Steady(s, w)
  <2>1. CASE s = s0
    BY <1>23, <2>1 DEF Steady, Lives
  <2>2. CASE s # s0
    <3>1. /\ session'[s].window = session[s].window /\ session'[s].client = session[s].client
          /\ session[s].ended => session'[s].ended
          /\ client'[session[s].client].of = client[session[s].client].of
          /\ misjudged \subseteq misjudged'
      BY <1>0, <1>12, <1>13, <1>15 DEF SessionTypes
    <3>2. Connected(s, w) /\ InPlace(s, w) => InPlace(s, w)'
      <4>1. CASE kills
        <5>1. /\ windows[x] # None /\ windows' = [windows EXCEPT ![x] = None]
              /\ client' = Tmux!Told(windows[x], x) /\ healer' = healer
          BY <1>3, <1>6, <4>1
        <5> QED BY <1>0, <1>9, <1>25, <3>1, <5>1, ClosesInPlace
      <4>2. CASE ~kills
        <5>1. windows'[session[s].window] = windows[session[s].window]
          BY <1>6, <4>2
        <5> QED BY <1>0, <1>13, <1>24, <3>1, <5>1, InPlaceStays
      <4> QED BY <4>1, <4>2
    <3>3. Lives(s)' /\ Connected(s, w) =>
            /\ session[s].window \in DOMAIN tmux_sinks'[w]
            /\ tmux_sinks'[w][session[s].window] = s
      BY <1>12, <2>2 DEF Lives
    <3> QED BY <3>1, <3>2, <3>3, SteadyIf
  <2> QED BY <2>1, <2>2
<1>26. SessionsDiffer' /\ PanesFit' /\ MadeFit'
  <2>1. \A s \in DOMAIN session, w \in LocalWorkstations :
          Used(s, w) /\ s \notin {} => Steady(s, w)
    BY <1>25
  <2> QED BY <1>0, <1>15, <1>21, <1>22, <2>1, FrameHolds
<1>27. EndsAreTrue'
  <2>1. \A s \in DOMAIN session' : session'[s].ended =>
           \/ s \in DOMAIN session /\ session[s].ended
           \/ s \in misjudged'
           \/ windows'[session'[s].window] = None
    BY <1>2, <1>14, <1>15
  <2>2. misjudged \subseteq misjudged'
    BY <1>12
  <2> QED BY <1>0, <1>14, <1>15, <2>1, <2>2, EndsHold
<1> QED BY <1>19, <1>26, <1>27 DEF TmuxInv

-----------------------------------------------------------------------------
(* Together. *)

LEMMA TmuxStarts == ASSUME Tmux!Init PROVE TmuxInv
<1>1. /\ tmux_clients = [w \in LocalWorkstations |-> None]
      /\ client = <<>> /\ session = <<>> /\ windows = <<>>
      /\ tmux_sinks = [w \in LocalWorkstations |-> Tmux!NoMap] /\ attached = Tmux!NoMap
      /\ thread = [q \in Requests |-> Tmux!Idle] /\ healer = Tmux!Idle
  BY DEF Tmux!Init
<1>2. DOMAIN client = {} /\ DOMAIN session = {} /\ DOMAIN attached = {}
  BY <1>1 DEF Tmux!NoMap
<1>3. attached \in [DOMAIN attached -> Pane]
  BY <1>1 DEF Tmux!NoMap
<1>4. /\ client \in Seq(Client) /\ session \in Seq(Session)
      /\ windows \in Seq(LocalWorkstations \cup {None})
  BY <1>1
<1>5. TmuxTypes
  BY <1>1, <1>2, <1>3, <1>4 DEF TmuxTypes
<1>6. \A q \in Requests : ~Makes(q)
  BY <1>1 DEF Makes, Tmux!Idle
<1> QED BY <1>2, <1>5, <1>6 DEF TmuxInv, SessionsDiffer, EndsAreTrue, PanesFit, MadeFit

LEMMA TmuxStutters == ASSUME TmuxInv, UNCHANGED Tmux!vars PROVE TmuxInv'
<1>1. UNCHANGED <<tmux_clients, client, tmux_sinks, session, attached, windows, thread, healer,
                  misjudged>>
  BY DEF Tmux!vars
<1>2. TmuxTypes /\ ClientTypes /\ SessionTypes /\ PaneTypes
  BY TypesAre DEF TmuxInv
<1>3. Grows /\ ClientTypes' /\ SessionTypes' /\ PaneTypes' /\ HearsOn
  BY <1>1, <1>2 DEF Grows, ClientTypes, SessionTypes, PaneTypes, HearsOn, Hears
<1>4. TmuxTypes'
  BY <1>1, <1>2, <1>3, NoRequest, TypesOn
<1>5. HealerOn
  BY <1>1, <1>2, <1>3, HealerWaits
<1>6. OnlyOld({}) /\ \A p, win : Moves(p, win) => Moves(p, win)'
  BY <1>1, NobodyNew
<1> QED BY <1>1, <1>3, <1>4, <1>5, <1>6, CalmHolds

LEMMA TmuxSteps == ASSUME TmuxInv, [Tmux!Next]_(Tmux!vars) PROVE TmuxInv'
<1>1. ASSUME NEW c \in DOMAIN client,
             Tmux!ClientLost(c) \/ \E win \in client[c].unread : Tmux!ReadsClose(c, win)
      PROVE  TmuxInv'
  BY <1>1, LostHolds, ReadsHolds
<1>2. ASSUME NEW win \in DOMAIN windows, Tmux!ProgramEnds(win) PROVE TmuxInv'
  BY <1>2, ProgramHolds
<1>3. ASSUME NEW q \in Requests, NEW p \in LocalPanes,
             Tmux!reattach_pane(q, p) \/ Tmux!close_pane(q, p)
      PROVE  TmuxInv'
  BY <1>3, ReattachHolds, CloseHolds
<1>4. ASSUME NEW q \in Requests, NEW p \in LocalPanes, NEW w \in LocalWorkstations,
             \/ Tmux!create(q, p, w) \/ Tmux!MovesEnded(q, p, w)
             \/ Tmux!move_tab_to_workstation(q, p, w)
      PROVE  TmuxInv'
  BY <1>4, CreateHolds, MoveHolds, MovesEndedHolds
<1>5. ASSUME NEW q \in Requests,
             \/ Tmux!Fails(q) \/ Tmux!OpensWindow(q) \/ Tmux!Resizes(q)
             \/ Tmux!move_window_to_session(q) \/ Tmux!attach_tmux(q) \/ Tmux!ReturnsWindow(q)
             \/ Tmux!Commits(q) \/ Tmux!GivesUp(q) \/ Tmux!terminate_and_wait(q) \/ Tmux!RemovesPane(q)
      PROVE  TmuxInv'
  BY <1>5, FailsHolds, OpensHolds, ResizesHolds, MoveWindowHolds, AttachHolds, ReturnsHolds,
     CommitsHolds, GivesUpHolds, TerminatesHolds, RemovesHolds
<1>6. ASSUME NEW w \in LocalWorkstations, Tmux!heal_local_tmux_clients(w) PROVE TmuxInv'
  BY <1>6, HealHolds
<1>7. ASSUME Tmux!list_panes \/ Tmux!mark_missing_panes_exited \/ Tmux!InstallsClient PROVE TmuxInv'
  BY <1>7, ListHolds, MarksHolds, InstallsHolds
<1>8. ASSUME UNCHANGED Tmux!vars PROVE TmuxInv'
  BY <1>8, TmuxStutters
<1> QED BY <1>1, <1>2, <1>3, <1>4, <1>5, <1>6, <1>7, <1>8 DEF Tmux!Next

LEMMA TmuxAlways == Tmux!Spec => []TmuxInv
<1>1. Tmux!Init => TmuxInv
  BY TmuxStarts
<1>2. TmuxInv /\ [Tmux!Next]_(Tmux!vars) => TmuxInv'
  BY TmuxSteps
<1> QED BY <1>1, <1>2, PTL DEF Tmux!Spec

\* When all is quiet nobody moves a window and every live pane's client is up.
LEMMA QuietIs ==
  ASSUME TmuxInv
  PROVE  PanesAreConnected
<1>0. /\ TmuxTypes /\ SessionsDiffer /\ EndsAreTrue /\ PanesFit /\ MadeFit
      /\ ClientTypes /\ SessionTypes /\ PaneTypes
  BY TypesAre DEF TmuxInv
<1>1. SUFFICES ASSUME Tmux!Quiet, NEW p \in DOMAIN attached, attached[p].session \notin misjudged
               PROVE  LET w == attached[p].of  s == Tmux!SessionOf(p)
                      IN /\ s.ended <=> windows[s.window] = None
                         /\ ~s.ended => /\ windows[s.window] = w
                                        /\ s.window \in DOMAIN tmux_sinks[w]
                                        /\ tmux_sinks[w][s.window] = attached[p].session
                                        /\ s.client = tmux_clients[w] /\ client[s.client].up
  BY DEF PanesAreConnected, Tmux!PanesAreConnected
<1>2. PICK s, w, x, c : /\ s = attached[p].session /\ w = attached[p].of
                        /\ x = session[s].window /\ c = session[s].client
  OBVIOUS
<1>3. /\ s \in DOMAIN session /\ w \in LocalWorkstations /\ x \in DOMAIN windows
      /\ c \in DOMAIN client
  BY <1>0, <1>2 DEF PaneTypes, Pane, SessionTypes
<1>4. session[s].ended => windows[x] = None
  BY <1>0, <1>1, <1>2, <1>3 DEF EndsAreTrue
<1>5. ASSUME ~session[s].ended
      PROVE  /\ windows[x] = w /\ x \in DOMAIN tmux_sinks[w] /\ tmux_sinks[w][x] = s
             /\ c = tmux_clients[w] /\ client[c].up
  <2>1. Lives(s)
    BY <1>1, <1>2, <1>5 DEF Lives
  <2>2. Connected(s, w) /\ (InPlace(s, w) \/ Moves(p, x))
    BY <1>0, <1>2, <2>1 DEF PanesFit
  <2>3. ~Moves(p, x)
    BY <1>1 DEF Moves, MovesBy, Tmux!Quiet, Tmux!Idle
  <2>4. client[c].of = w /\ x \in DOMAIN tmux_sinks[w] /\ tmux_sinks[w][x] = s
    BY <1>2, <2>2 DEF Connected
  <2>5. tmux_clients[w] # None
    BY <1>0, <1>3, <2>4 DEF ClientTypes
  <2>6. ~Tmux!Needs(w)
    BY <1>1, <1>3, <2>5 DEF Tmux!Quiet, Tmux!Heals
  <2>7. client[c].up /\ c = tmux_clients[w]
    BY <1>2, <2>6 DEF Tmux!Needs, Tmux!SessionOf
  <2>8. Tmux!IsUp(c) /\ client[c].unread = {}
    BY <1>1, <1>3, <2>7 DEF Tmux!IsUp, Tmux!Held, Tmux!Quiet
  <2>9. ~Hears(c, x)
    BY <2>7, <2>8 DEF Hears
  <2>10. windows[x] = w
    BY <1>2, <2>2, <2>3, <2>9 DEF InPlace
  <2> QED BY <2>4, <2>7, <2>10
<1>6. w # None
  BY <1>3, NoClientAssumption
<1> QED BY <1>2, <1>4, <1>5, <1>6 DEF Tmux!SessionOf

\* However clients are lost, replaced by the healer and by requests at once, and
\* terminals created, moved, reattached and closed meanwhile: when all is quiet
\* every pane that the code did not misjudge is as connected as it says it is
\* (heal_local_tmux_clients, move_tab_to_workstation, reattach_pane, close_pane).
THEOREM PanesAreConnectedHolds == Tmux!Spec => []PanesAreConnected
<1>1. TmuxInv => PanesAreConnected
  BY QuietIs
<1> QED BY <1>1, TmuxAlways, PTL
=============================================================================
