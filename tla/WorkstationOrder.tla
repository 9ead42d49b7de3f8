-------------------------- MODULE WorkstationOrder --------------------------
(***************************************************************************)
(* The order of workstations and bots in the sidebar: how creating,        *)
(* pinning, dragging and deleting them renumber the whole list             *)
(* (crates/session-service/src/registry/workspaces.rs,                     *)
(* registry/bots.rs), and what the sidebar makes of the numbers            *)
(* (crates/desktop/src/helpers/tabs.rs, bots/mod.rs).                      *)
(*                                                                         *)
(* Each request runs in one region of the state lock.  Numbers are kept    *)
(* per pinned flag for all workstations together, while the sidebar shows  *)
(* one list for each parent, kind and pinned flag.  `pin_order`, which     *)
(* nothing shows, is left out with move_pinned_workspace.                  *)
(***************************************************************************)
EXTENDS Naturals, Sequences, SequencesExt, FiniteSets, FiniteSetsExt

CONSTANTS
  Names,  \* ids for workstations and bots
  Top     \* no parent

VARIABLE workspaces  \* SessionSnapshot::workspaces, in the snapshot's order

Workspace(id, kind, parent, order) ==
  [id |-> id, kind |-> kind, parent |-> parent,
   pinned |-> FALSE, order |-> order]

Ids(ws) == {ws[i].id : i \in DOMAIN ws}
Fresh == Names \ Ids(workspaces)
IndexOf(ws, id) == CHOOSE i \in DOMAIN ws : ws[i].id = id
The(ws, id) == ws[IndexOf(ws, id)]

Group(w) == <<w.pinned, w.kind, w.parent>>

Largest(numbers) == Max(numbers \cup {0})
next_workspace_order(pinned) ==
  1 + Largest({w.order : w \in {v \in Range(workspaces) : v.pinned = pinned}})

\* sort_by_key is stable: equal numbers keep the list's order.
Precedes(ws, i, j) ==
  ws[i].order < ws[j].order \/ (ws[i].order = ws[j].order /\ i < j)

normalize_workspace_orders(ws) ==
  LET before(i) == {j \in DOMAIN ws : ws[j].pinned = ws[i].pinned /\ Precedes(ws, j, i)}
  IN [i \in DOMAIN ws |-> [ws[i] EXCEPT !.order = Cardinality(before(i)) + 1]]

(***************************************************************************)
(* Requests                                                                *)
(***************************************************************************)
\* A new one is pushed behind all others and nothing is renumbered.
Create(id, kind, parent) ==
  /\ id \in Fresh
  /\ parent # Top => /\ parent \in Ids(workspaces) /\ kind = "workstation"
                     /\ The(workspaces, parent).kind = "workstation"
  /\ workspaces' = Append(workspaces,
       Workspace(id, kind, parent, next_workspace_order(FALSE)))

\* Pinning keeps the number, unpinning takes the last one.
set_workspace_pinned(id, pinned) ==
  workspaces' = normalize_workspace_orders(
    [workspaces EXCEPT ![IndexOf(workspaces, id)] =
       [@ EXCEPT !.pinned = pinned,
                 !.order = IF pinned THEN @ ELSE next_workspace_order(FALSE)]])

\* The siblings of `id` as reorder_workspace lists them.
Siblings(id) ==
  LET w  == The(workspaces, id)
      in == {i \in DOMAIN workspaces : Group(workspaces[i]) = Group(w)}
  IN SetToSortSeq(in, LAMBDA i, j : Precedes(workspaces, i, j))

\* `list` with `source` at the place where `target` used to be.
AtOldPlace(list, source, target, after) ==
  InsertAt(SelectSeq(list, LAMBDA i : i # source),
           SelectInSeq(list, LAMBDA i : i = target), source)

\* `list` with `source` taken out and put back next to `target`.
NextTo(list, source, target, after) ==
  LET rest == SelectSeq(list, LAMBDA i : i # source)
  IN InsertAt(rest, SelectInSeq(rest, LAMBDA i : i = target)
                    + (IF after THEN 1 ELSE 0), source)

reorder_workspace(id, target, after) ==
  /\ id # target
  /\ Group(The(workspaces, id)) = Group(The(workspaces, target))
  /\ LET list == NextTo(Siblings(id), IndexOf(workspaces, id),
                        IndexOf(workspaces, target), after)
     IN workspaces' = normalize_workspace_orders(
          [i \in DOMAIN workspaces |->
             IF i \in Range(list)
             THEN [workspaces[i] EXCEPT !.order = SelectInSeq(list, LAMBDA j : j = i)]
             ELSE workspaces[i]])

\* With everything nested in it.
RECURSIVE Nested(_)
Nested(ids) ==
  LET more == ids \cup {w.id : w \in {v \in Range(workspaces) : v.parent \in ids}}
  IN IF more = ids THEN ids ELSE Nested(more)

delete_workspace(id) ==
  LET gone == Nested({id})
  IN workspaces' = normalize_workspace_orders(
       SelectSeq(workspaces, LAMBDA w : w.id \notin gone))

Init == workspaces = <<>>

Next ==
  \/ \E id \in Names, kind \in {"workstation", "bot"},
        parent \in Ids(workspaces) \cup {Top} : Create(id, kind, parent)
  \/ \E id \in Ids(workspaces) :
       \/ \E pinned \in BOOLEAN : set_workspace_pinned(id, pinned)
       \/ \E target \in Ids(workspaces), after \in BOOLEAN :
            reorder_workspace(id, target, after)
       \/ delete_workspace(id)

Spec == Init /\ [][Next]_workspaces

(***************************************************************************)
(* Properties                                                              *)
(***************************************************************************)
ById(ws) == [id \in Ids(ws) |-> The(ws, id)]

\* child_workstations, bot_workspaces: `x` is shown above `y` in a list.
Above(list, x, y) ==
  Group(list[x]) = Group(list[y]) /\ list[x].order < list[y].order

\* A request moves one workstation at most: all others keep the order they
\* are shown in, in every list, although each request renumbers all lists
\* together (normalize_workspace_orders); and one that is dragged ends right
\* next to the one it was dropped on.
MovesOnlyOne ==
  LET was    == ById(workspaces)
      now    == ById(workspaces')
      stay   == DOMAIN was \cap DOMAIN now
      staid  == {id \in stay : Group(was[id]) = Group(now[id])}
  IN /\ \E moved \in Names : \A x, y \in staid \ {moved} :
                              Above(was, x, y) => Above(now, x, y)
     /\ \A id, target \in stay, after \in BOOLEAN :
          reorder_workspace(id, target, after) =>
            /\ IF after THEN Above(now, target, id) ELSE Above(now, id, target)
            /\ \A x \in stay \ {id, target} :
                 Above(now, x, id) <=> Above(now, x, target)

OnlyTheDraggedMoves == [][workspaces' = workspaces \/ MovesOnlyOne]_workspaces
=============================================================================
