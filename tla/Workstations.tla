---------------------------- MODULE Workstations ----------------------------
(***************************************************************************)
(* The tree of workstations and the requests that create, nest, fill,      *)
(* move tabs between, disconnect, reconnect and delete them                *)
(* (crates/session-service/src/registry/workspaces.rs, registry/tabs.rs,   *)
(* registry/identity.rs, persistence.rs).                                  *)
(*                                                                         *)
(* Most requests ask their questions in one region of the state lock, talk *)
(* to tmux or SSH without it, and change the state in a second region that *)
(* asks only part of them again.  A tab is a set of one pane here (the     *)
(* layouts are PaneLayout's), one SSH destination stands for all, and what *)
(* runs behind a registered pane is SavedSessions' and PaneLayout's.       *)
(***************************************************************************)
EXTENDS Naturals, FiniteSets

CONSTANTS
  Home,           \* the home workstation
  WorkspaceIds,   \* ids for other workstations, numbers
  PaneIds,        \* ids for panes, numbers
  Requests,       \* request threads, numbers
  None,           \* no parent
  MaxWorkspaces,  \* MAX_WORKSPACES
  MaxPanes,       \* MAX_PANES
  MaxDepth,       \* MAX_WORKSTATION_DEPTH
  MaxRequests     \* bound: requests of more than one region

\* Ids have a fixed width, and there is room for something.
ASSUME IdsAssumption == IsFiniteSet(WorkspaceIds) /\ IsFiniteSet(PaneIds)
ASSUME NoneAssumption == Home \notin WorkspaceIds /\ None \notin WorkspaceIds \cup {Home}
ASSUME LimitsAssumption == {MaxWorkspaces, MaxPanes, MaxDepth} \subseteq Nat \ {0}

VARIABLES
  workspaces,  \* SessionSnapshot::workspaces, by id
  panes,       \* RegistryState::panes: "live", or "ended" (exit_status is set)
  request,     \* requests between two regions of the lock
  made,        \* counts them
  orphans,     \* history: workstations nested in one that was being deleted
  escaped      \* history: panes a concurrent deletion or closing overlooked

vars == <<workspaces, panes, request, made, orphans, escaped>>

Idle == [at |-> "idle"]
Least(S) == {x \in S : \A y \in S : x <= y}

\* Which idle thread serves a request makes no difference, nor which fresh id
\* is drawn: it is the least.
Starts(q, r) == /\ q \in Least({p \in Requests : request[p] = Idle})
                /\ made < MaxRequests /\ made' = made + 1
                /\ request' = [request EXCEPT ![q] = r]
Continues(q, r) == request' = [request EXCEPT ![q] = r] /\ UNCHANGED made

Busy(step) == {r \in {request[q] : q \in Requests} : r.at = step}

Ids == DOMAIN workspaces
Registered == DOMAIN panes
ShownIn(ids) == UNION {workspaces[w].tabs : w \in ids}
Shown == ShownIn(Ids)

Workspace(parent, remote, online, tabs) ==
  [parent |-> parent, remote |-> remote, online |-> online, tabs |-> tabs]

With(f, x, value) == [y \in DOMAIN f \cup {x} |-> IF y = x THEN value ELSE f[y]]
Without(f, gone) == [y \in DOMAIN f \ gone |-> f[y]]

\* An id is drawn once: one that some request still holds is not fresh.
HeldPanes(r) == (IF "pane" \in DOMAIN r THEN {r.pane} ELSE {})
                \cup (IF "panes" \in DOMAIN r THEN r.panes ELSE {})
HeldIds(r) ==
  {r[f] : f \in DOMAIN r \cap {"workspace", "parent", "from", "to"}}
  \cup UNION {r[f] : f \in DOMAIN r \cap {"removed", "targets", "todo"}}

FreshPane == Least(PaneIds \ (Registered \cup Shown \cup escaped
                              \cup UNION {HeldPanes(request[q]) : q \in Requests}))
FreshId == Least(WorkspaceIds \ (Ids \cup {workspaces[w].parent : w \in Ids}
                                 \cup UNION {HeldIds(request[q]) : q \in Requests}))

(***************************************************************************)
(* The nesting tree                                                        *)
(***************************************************************************)
\* The ancestors of `w`, itself included, as far as they exist.
Ancestors(w) ==
  LET up[n \in 0 .. Cardinality(Ids)] ==
        IF n = 0 THEN {w}
        ELSE up[n - 1] \cup {workspaces[v].parent : v \in up[n - 1] \cap Ids}
  IN up[Cardinality(Ids)] \ {None}

workstation_descendants(w) == {v \in Ids \ {w} : w \in Ancestors(v)}

\* The depth, unless an ancestor is missing.
HasDepth(w) == Ancestors(w) \subseteq Ids
workstation_depth(w) == Cardinality(Ancestors(w))

NestsTooDeep(parent) == /\ parent \in Ids
                        /\ HasDepth(parent)
                        /\ workstation_depth(parent) <= MaxDepth

\* Whether a workstation may be nested in `parent`.
nested_connection(parent) == /\ parent \in Ids
                             /\ HasDepth(parent)
                             /\ workstation_depth(parent) < MaxDepth

\* What DesiredState::validate asks of the tree and the pane count.
Nested(w) == /\ HasDepth(w) /\ workstation_depth(w) <= MaxDepth
             /\ workspaces[w].parent # None =>
                  workspaces[w].remote = workspaces[workspaces[w].parent].remote

encode_desired_state ==
  /\ Ids # {} /\ Cardinality(Ids) <= MaxWorkspaces
  /\ \A w \in Ids : Nested(w)
  /\ Cardinality(Shown) <= MaxPanes

(***************************************************************************)
(* Creating                                                                *)
(***************************************************************************)
Room == Cardinality(Registered) < MaxPanes
RoomForOne == Cardinality(Ids) < MaxWorkspaces /\ Room

\* Some deletion has listed what it removes, and `w` is on the list.
BeingDeleted(w) == \E r \in Busy("deleting") : w \in r.removed

create_workspace(q, parent) ==
  \E w \in FreshId, p \in FreshPane :
    /\ RoomForOne /\ (parent # None => nested_connection(parent))
    /\ Starts(q, [at |-> "creating", workspace |-> w, parent |-> parent, pane |-> p,
                  remote |-> parent # None /\ workspaces[parent].remote])
    /\ UNCHANGED <<workspaces, panes, orphans, escaped>>

\* The terminal runs.
CreatesWorkspace(q) ==
  LET r == request[q]
  IN /\ request[q].at = "creating"
     /\ Continues(q, Idle)
     /\ IF RoomForOne /\ (r.parent # None => nested_connection(r.parent))
        THEN /\ workspaces' = With(workspaces, r.workspace,
                  Workspace(r.parent, r.remote, r.remote, {r.pane}))
             /\ panes' = With(panes, r.pane, "live")
             /\ orphans' = IF BeingDeleted(r.parent)
                           THEN orphans \cup {r.workspace} ELSE orphans
        ELSE UNCHANGED <<workspaces, panes, orphans>>
     /\ UNCHANGED escaped

\* The workstation is saved, offline and with its tab, before SSH starts.
persist_ssh_workspace_intent(q) ==
  \E w \in FreshId, p \in FreshPane :
    /\ RoomForOne
    /\ workspaces' = With(workspaces, w, Workspace(None, TRUE, FALSE, {p}))
    /\ Starts(q, [at |-> "signing in", workspace |-> w, pane |-> p])
    /\ UNCHANGED <<panes, orphans, escaped>>

attach_ssh_workspace(q) ==
  LET r == request[q]
  IN /\ request[q].at = "signing in"
     /\ Continues(q, Idle)
     /\ IF Room /\ r.workspace \in Ids
        THEN /\ workspaces' = [workspaces EXCEPT ![r.workspace].online = TRUE]
             /\ panes' = With(panes, r.pane, "live")
             /\ escaped' = IF r.pane \in Shown THEN escaped ELSE escaped \cup {r.pane}
        ELSE UNCHANGED <<workspaces, panes, escaped>>
     /\ UNCHANGED orphans

create_workspace_tab(q, w) ==
  \E p \in FreshPane :
    /\ Room /\ Starts(q, [at |-> "opening", workspace |-> w, pane |-> p])
    /\ UNCHANGED <<workspaces, panes, orphans, escaped>>

OpensTab(q) ==
  LET r == request[q]
  IN /\ request[q].at = "opening"
     /\ Continues(q, Idle)
     /\ IF Room /\ r.workspace \in Ids
        THEN /\ workspaces' = [workspaces EXCEPT ![r.workspace].tabs = @ \cup {r.pane}]
             /\ panes' = With(panes, r.pane, "live")
             /\ escaped' = IF BeingDeleted(r.workspace)
                           THEN escaped \cup {r.pane} ELSE escaped
        ELSE UNCHANGED <<workspaces, panes, escaped>>
     /\ UNCHANGED orphans

\* Spawning a terminal, signing in or moving windows fails: what the first
\* region saved stays.
RequestFails(q) ==
  /\ request[q].at \in {"creating", "signing in", "opening", "moving", "respawned"}
  /\ Continues(q, Idle)
  /\ UNCHANGED <<workspaces, panes, orphans, escaped>>

(***************************************************************************)
(* Closing and moving tabs                                                 *)
(***************************************************************************)
\* The panes that reconnections have new sessions for.
Respawning == UNION {r.panes : r \in Busy("respawned")}

close_tab(w, p) ==
  /\ p \in workspaces[w].tabs
  /\ workspaces' = [workspaces EXCEPT ![w].tabs = @ \ {p}]
  /\ panes' = Without(panes, {p})
  /\ escaped' = escaped \cup ({p} \cap Respawning)
  /\ UNCHANGED <<request, made, orphans>>

same_machine(v, w) == workspaces[v].remote = workspaces[w].remote

move_tab_to_workstation(q, from, p, to) ==
  /\ p \in workspaces[from].tabs /\ from # to /\ same_machine(from, to)
  /\ Starts(q, [at |-> "moving", from |-> from, pane |-> p, to |-> to])
  /\ UNCHANGED <<workspaces, panes, orphans, escaped>>

\* What refresh_workspace_activity makes of the connection of `w`.
OnlineNow(ws, ps, w) ==
  LET mine == {p \in ws[w].tabs : p \in DOMAIN ps}
  IN IF ~ws[w].remote \/ mine = {} THEN ws[w].online
     ELSE \E p \in mine : ps[p] = "live"

Refreshed(ws, ps) ==
  [w \in DOMAIN ws |-> [ws[w] EXCEPT !.online = OnlineNow(ws, ps, w)]]

MovesTab(q) ==
  LET r == request[q]
  IN /\ request[q].at = "moving"
     /\ Continues(q, Idle)
     /\ IF {r.from, r.to} \subseteq Ids /\ r.pane \in workspaces[r.from].tabs
        THEN /\ workspaces' = Refreshed(
                  [workspaces EXCEPT ![r.from].tabs = @ \ {r.pane},
                                     ![r.to].tabs = @ \cup {r.pane}], panes)
             /\ escaped' = IF BeingDeleted(r.from) \/ BeingDeleted(r.to)
                           THEN escaped \cup {r.pane} ELSE escaped
        ELSE UNCHANGED <<workspaces, escaped>>
     /\ UNCHANGED <<panes, orphans>>

(***************************************************************************)
(* Disconnecting and reconnecting                                          *)
(***************************************************************************)
Subtree(w) == {w} \cup workstation_descendants(w)

\* The panes are marked before their SSH clients stop.
disconnect_workspace(q, w) ==
  /\ workspaces[w].remote
  /\ LET targets == {v \in Subtree(w) : workspaces[v].remote}
     IN /\ panes' = [p \in Registered |->
                       IF p \in ShownIn(targets) THEN "ended" ELSE panes[p]]
        /\ Starts(q, [at |-> "disconnecting", workspace |-> w, targets |-> targets])
  /\ UNCHANGED <<workspaces, orphans, escaped>>

Disconnects(q) ==
  LET r == request[q]
      now == Refreshed(workspaces, panes)
  IN /\ request[q].at = "disconnecting"
     /\ Continues(q, Idle)
     /\ workspaces' = IF r.workspace \notin Ids THEN workspaces
                      ELSE [w \in Ids |-> [now[w] EXCEPT
                              !.online = @ /\ w \notin r.targets]]
     /\ UNCHANGED <<panes, orphans, escaped>>

\* The panes of `w` without a live terminal.
Dead(w) == {p \in workspaces[w].tabs : p \in Registered => panes[p] = "ended"}

\* reconnection_plan, and the sessions spawned after it.  Only the workstation
\* the user chose gets a fresh terminal when it has none to bring back.
Plans(q, w, top, todo) ==
  /\ workspaces[w].remote /\ ~workspaces[w].online
  /\ \E new \in IF top /\ Dead(w) = {} THEN {{p} : p \in FreshPane} ELSE {{}} :
       LET r == [at |-> "respawned", workspace |-> w, panes |-> Dead(w) \cup new,
                 new |-> new, top |-> top, todo |-> todo]
       IN IF top THEN Starts(q, r) ELSE Continues(q, r)
  /\ UNCHANGED <<workspaces, panes, orphans, escaped>>

reconnect_workspace(q, w) == Plans(q, w, TRUE, {})

apply_workspace_reconnection(q) ==
  LET r == request[q]
      Live(p) == IF p \in r.panes THEN "live" ELSE panes[p]
  IN /\ request[q].at = "respawned"
     /\ IF r.workspace \in Ids
        THEN /\ workspaces' = [workspaces EXCEPT ![r.workspace].online = TRUE,
                                                 ![r.workspace].tabs = @ \cup r.new]
             /\ panes' = [p \in Registered \cup r.panes |-> Live(p)]
             /\ Continues(q, [at |-> IF r.top THEN "listing" ELSE "next",
                              workspace |-> r.workspace, todo |-> r.todo])
             /\ escaped' = IF BeingDeleted(r.workspace)
                           THEN escaped \cup r.panes ELSE escaped
        ELSE /\ Continues(q, Idle)
             /\ UNCHANGED <<workspaces, panes, escaped>>
     /\ UNCHANGED orphans

ListsNested(q) ==
  LET r == request[q]
  IN /\ request[q].at = "listing"
     /\ Continues(q, [at |-> "next", workspace |-> r.workspace,
          todo |-> IF r.workspace \in Ids
                   THEN {v \in workstation_descendants(r.workspace) :
                           workspaces[v].remote /\ ~workspaces[v].online}
                   ELSE {}])
     /\ UNCHANGED <<workspaces, panes, orphans, escaped>>

\* Parents first; one that has gone or is connected again ends the request
\* with an error.
ReconnectsNext(q) ==
  LET r == request[q]
      Offline(w) == w \in Ids /\ workspaces[w].remote /\ ~workspaces[w].online
  IN /\ request[q].at = "next"
     /\ \/ \E w \in r.todo : /\ Offline(w) /\ workspaces[w].parent \notin r.todo
                            /\ Plans(q, w, FALSE, r.todo \ {w})
        \/ /\ r.todo = {} \/ \E w \in r.todo : ~Offline(w)
           /\ Continues(q, Idle)
           /\ UNCHANGED <<workspaces, panes, orphans, escaped>>

\* The periodic refresh, which may find the terminals of a lost connection.
refresh_runtime_metadata(lost) ==
  /\ panes' = [p \in Registered |-> IF p \in lost THEN "ended" ELSE panes[p]]
  /\ workspaces' = Refreshed(workspaces, panes')
  /\ UNCHANGED <<request, made, orphans, escaped>>

(***************************************************************************)
(* Deleting                                                                *)
(***************************************************************************)
PanesOfTarget(removed, w) == workspaces[w].tabs

\* The panes a deletion of `removed` will unregister.
PanesToRemove(removed, w) == ShownIn(removed)

\* Region one lists what there is; terminals, tmux sessions and galleries are
\* then removed without the lock.
delete_workspace(q, w) ==
  /\ w # Home
  /\ LET removed == Subtree(w)
     IN Starts(q, [at |-> "deleting", workspace |-> w, removed |-> removed,
                   panes |-> PanesToRemove(removed, w)])
  /\ UNCHANGED <<workspaces, panes, orphans, escaped>>

Deletes(q) ==
  LET r == request[q]
  IN /\ request[q].at = "deleting"
     /\ Continues(q, Idle)
     /\ IF r.workspace \in Ids
        THEN /\ workspaces' = Without(workspaces, r.removed)
             /\ panes' = Without(panes, r.panes)
             /\ escaped' = escaped \cup (r.panes \cap Respawning)
        ELSE UNCHANGED <<workspaces, panes, escaped>>
     /\ UNCHANGED orphans

(***************************************************************************)
(* Behaviours                                                              *)
(***************************************************************************)
Init ==
  /\ workspaces = [w \in {Home} |-> Workspace(None, FALSE, FALSE, {})]
  /\ panes = [p \in {} |-> "live"]
  /\ request = [q \in Requests |-> Idle] /\ made = 0
  /\ orphans = {} /\ escaped = {}

Next ==
  \/ \E q \in Requests :
       \/ \E parent \in Ids \cup {None} : create_workspace(q, parent)
       \/ CreatesWorkspace(q)
       \/ persist_ssh_workspace_intent(q) \/ attach_ssh_workspace(q)
       \/ \E w \in Ids : \/ create_workspace_tab(q, w) \/ delete_workspace(q, w)
                         \/ disconnect_workspace(q, w) \/ reconnect_workspace(q, w)
                         \/ \E p \in workspaces[w].tabs, to \in Ids :
                              move_tab_to_workstation(q, w, p, to)
       \/ OpensTab(q) \/ MovesTab(q) \/ RequestFails(q)
       \/ Disconnects(q) \/ apply_workspace_reconnection(q)
       \/ ListsNested(q) \/ ReconnectsNext(q) \/ Deletes(q)
  \/ \E w \in Ids, p \in PaneIds : close_tab(w, p)
  \/ \E w \in Ids :
       workspaces[w].remote /\ refresh_runtime_metadata(workspaces[w].tabs)

Spec == Init /\ [][Next]_vars

(***************************************************************************)
(* Properties                                                              *)
(***************************************************************************)
\* Whatever requests overlap, the tree of workstations can be saved: nested no
\* deeper than allowed, on one machine, no more than the limit.  Two things
\* break this, and from then on every save fails: a workstation nested in one
\* whose deletion had already listed what it removes, and panes that are shown
\* without being registered (an SSH workstation that never connected, a
\* reconnection that opens a terminal), which the pane limit of later
\* creations does not count (registry/workspaces.rs).
OnlyOrphansAndOfflinePanesBlockSaves ==
  encode_desired_state \/ orphans # {} \/ Cardinality(Shown) > MaxPanes

\* A registered pane is shown by some workstation, and a pane of a local
\* workstation is registered, except for panes created, moved, reconnected or
\* closed while a deletion or reconnection worked from an older list: those
\* count against the pane limit, unseen, until the service restarts.
PanesAreShown ==
  /\ Registered \subseteq Shown \cup escaped
  /\ ShownIn({w \in Ids : ~workspaces[w].remote}) \subseteq Registered \cup escaped
=============================================================================
