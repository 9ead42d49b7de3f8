----------------------------- MODULE PaneLayout -----------------------------
(***************************************************************************)
(* The tabs of one workstation: trees of splits and stacks of panes, the   *)
(* requests that create, move, swap and close panes in them, and whether   *)
(* the result can still be saved (crates/session-service/src/layout.rs,    *)
(* registry/tabs.rs, registry/panes.rs, registry/remote.rs,                *)
(* persistence.rs).                                                        *)
(*                                                                         *)
(* A pane of a layout carries its id and everything that is shown of it    *)
(* (kind, names, colour, icon); the kind stands for all of that here.      *)
(* Axes and ratios are left out.  A terminal is kept by tmux, so that      *)
(* dropping its session leaves the program running.                        *)
(***************************************************************************)
EXTENDS Naturals, Sequences, FiniteSets, SequencesExt, FiniteSetsExt

CONSTANTS
  Callers,    \* request threads
  PaneIds,    \* the pane ids a request may draw
  Backend,    \* what each id becomes: "terminal", "view" or "attached"
  MaxPanes,   \* MAX_PANES
  MaxTabs,    \* MAX_TABS_PER_WORKSPACE: as many as MAX_PANES, so that it binds
              \* no save (every saved tab shows a pane)
  MaxDepth    \* MAX_LAYOUT_DEPTH

VARIABLES
  tabs,       \* the layouts of the workstation's tabs, in order
  panes,      \* the registered panes (RegistryState::panes)
  running,    \* panes whose session's program runs
  caller,     \* requests between two regions of the state lock
  saveFailed  \* some desired state could not be encoded

vars == <<tabs, panes, running, caller, saveFailed>>

Idle == [at |-> "idle"]

HasSession(id) == Backend[id] # "view"

(***************************************************************************)
(* Layouts                                                                 *)
(***************************************************************************)
Pane(id) == [id |-> id, kind |-> IF HasSession(id) THEN "terminal" ELSE "view"]
Leaf(p) == [node |-> "leaf", pane |-> p]
Stack(ps, a) == [node |-> "stack", panes |-> ps, active |-> a]
Split(f, s) == [node |-> "split", first |-> f, second |-> s]
Gone == [node |-> "gone"]

\* What is left of a split when one side may have gone.
Joined(f, s) == IF f = Gone THEN s ELSE IF s = Gone THEN f ELSE Split(f, s)

StackedForgetsActive(ps, active) ==
  IF ps = <<>> THEN Gone ELSE IF Len(ps) = 1 THEN Leaf(ps[1])
  ELSE Stack(ps, active)

\* What is left of a stack.
Stacked(ps, active) ==
  CASE ps = <<>>    -> Gone
    [] Len(ps) = 1  -> Leaf(ps[1])
    [] OTHER        -> Stack(ps, IF \E i \in DOMAIN ps : ps[i].id = active
                                   THEN active ELSE ps[1].id)

RECURSIVE PanesOf(_)
PanesOf(l) ==
  CASE l.node = "leaf"  -> <<l.pane>>
    [] l.node = "stack" -> l.panes
    [] l.node = "split" -> PanesOf(l.first) \o PanesOf(l.second)

IdsOf(l) == {p.id : p \in Range(PanesOf(l))}

RECURSIVE layout_contains(_, _)
layout_contains(l, id) ==
  CASE l.node = "leaf"  -> l.pane.id = id
    [] l.node = "stack" -> \E i \in DOMAIN l.panes : l.panes[i].id = id
    [] l.node = "split" -> layout_contains(l.first, id) \/ layout_contains(l.second, id)

PaneIn(l, id) == CHOOSE p \in Range(PanesOf(l)) : p.id = id

RECURSIVE DepthOf(_)
DepthOf(l) == IF l.node # "split" THEN 1
              ELSE 1 + LET f == DepthOf(l.first)  s == DepthOf(l.second)
                       IN IF f > s THEN f ELSE s

RECURSIVE first_layout_pane(_)
first_layout_pane(l) ==
  CASE l.node = "leaf"  -> l.pane.id
    [] l.node = "stack" -> l.active
    [] l.node = "split" -> first_layout_pane(l.first)

\* The leaf or stack that holds pane `id`.
RECURSIVE NodeOf(_, _)
NodeOf(l, id) ==
  IF l.node # "split" THEN l
  ELSE NodeOf(IF layout_contains(l.first, id) THEN l.first ELSE l.second, id)

\* `l` with that node replaced by `n`.
RECURSIVE WithNode(_, _, _)
WithNode(l, id, n) ==
  IF ~layout_contains(l, id) THEN l
  ELSE IF l.node # "split" THEN n
  ELSE Split(WithNode(l.first, id, n), WithNode(l.second, id, n))

split_layout(l, target, p) ==
  WithNode(l, target, Split(NodeOf(l, target), Leaf(p)))

\* Left and top place the incoming pane first.
insert_split(l, target, p, before) ==
  LET n == NodeOf(l, target)
  IN WithNode(l, target, IF before THEN Split(Leaf(p), n) ELSE Split(n, Leaf(p)))

\* The pane that moves stays on the side it was dropped on.
split_lone_layout_with_replacement(l, target, p, before) ==
  insert_split(l, target, p, ~before)

add_tab(l, target, p, activate) ==
  LET n      == NodeOf(l, target)
      others == IF n.node = "leaf" THEN <<n.pane>> ELSE n.panes
      active == IF activate THEN p.id
                ELSE IF n.node = "leaf" THEN n.pane.id ELSE n.active
  IN WithNode(l, target, Stack(Append(others, p), active))

activate_tab(l, id) ==
  LET n == NodeOf(l, id)
  IN IF n.node = "leaf" THEN l ELSE WithNode(l, id, Stack(n.panes, id))

\* The layout that remains; the pane itself is PaneIn(l, source).
RECURSIVE detach_pane(_, _)
detach_pane(l, source) ==
  CASE l.node = "leaf"  -> IF l.pane.id = source THEN Gone ELSE l
    [] l.node = "stack" ->
         IF layout_contains(l, source)
         THEN Stacked(SelectSeq(l.panes, LAMBDA p : p.id # source), l.active)
         ELSE l
    [] l.node = "split" -> Joined(detach_pane(l.first, source),
                                  detach_pane(l.second, source))

\* Only the ids change places: everything else of the two panes stays.
RECURSIVE swap_pane_ids(_, _, _)
swap_pane_ids(l, source, target) ==
  LET swapped(id) == IF id = source THEN target
                     ELSE IF id = target THEN source ELSE id
      moved(p)    == [p EXCEPT !.id = swapped(@)]
  IN CASE l.node = "leaf"  -> Leaf(moved(l.pane))
       [] l.node = "stack" -> Stack([i \in DOMAIN l.panes |-> moved(l.panes[i])],
                                    swapped(l.active))
       [] l.node = "split" -> Split(swap_pane_ids(l.first, source, target),
                                    swap_pane_ids(l.second, source, target))

RECURSIVE retain_persistable_panes(_, _)
retain_persistable_panes(l, dropped) ==
  CASE l.node = "leaf"  -> IF l.pane.id \in dropped THEN Gone ELSE l
    [] l.node = "stack" ->
         Stacked(SelectSeq(l.panes, LAMBDA p : p.id \notin dropped), l.active)
    [] l.node = "split" -> Joined(retain_persistable_panes(l.first, dropped),
                                  retain_persistable_panes(l.second, dropped))

(***************************************************************************)
(* Encoding the desired state                                              *)
(***************************************************************************)
\* The tabs without the panes attached to a user's own tmux.
Persistable(ts, ps) ==
  LET dropped == {id \in ps : Backend[id] = "attached"}
  IN SelectSeq([i \in DOMAIN ts |-> retain_persistable_panes(ts[i], dropped)],
               LAMBDA l : l # Gone)

\* A pane shown as a terminal needs a directory to start in again, and only
\* a registered local terminal has one; a pane without a runtime is offline.
HasCwd(p, ps) ==
  p.kind = "view" \/ Backend[p.id] # "view" \/ p.id \notin ps

RECURSIVE WellFormed(_)
WellFormed(l) ==
  CASE l.node = "leaf"  -> TRUE
    [] l.node = "stack" -> /\ Len(l.panes) >= 2
                           /\ \E i \in DOMAIN l.panes : l.panes[i].id = l.active
    [] l.node = "split" -> WellFormed(l.first) /\ WellFormed(l.second)
    [] OTHER            -> FALSE

RECURSIVE AllPanes(_)
AllPanes(ts) == IF ts = <<>> THEN <<>> ELSE PanesOf(Head(ts)) \o AllPanes(Tail(ts))

encode_desired_state(ts, ps) ==
  LET saved == Persistable(ts, ps)
      all   == AllPanes(saved)
  IN /\ \A i \in DOMAIN all : HasCwd(all[i], ps)
     /\ Len(saved) <= MaxTabs /\ Len(all) <= MaxPanes
     /\ \A i, j \in DOMAIN all : all[i].id = all[j].id => i = j
     /\ \A i \in DOMAIN saved : DepthOf(saved[i]) <= MaxDepth /\ WellFormed(saved[i])

(***************************************************************************)
(* Requests                                                                *)
(***************************************************************************)
InFlight == {caller[c].new : c \in {d \in Callers : caller[d].at = "spawned"}}
Fresh == PaneIds \ (panes \cup running \cup InFlight)

TabOf(id) == CHOOSE i \in DOMAIN tabs : layout_contains(tabs[i], id)
Shown(id) == \E i \in DOMAIN tabs : layout_contains(tabs[i], id)
Room == Cardinality(panes) < MaxPanes

\* The end of a region that changed the state: the layouts stay as they are
\* even when they cannot be encoded.
Saves(ts, ps) ==
  /\ tabs' = ts /\ panes' = ps
  /\ saveFailed' = (saveFailed \/ ~encode_desired_state(ts, ps))

WithTab(i, l) == IF l = Gone THEN RemoveAt(tabs, i) ELSE [tabs EXCEPT ![i] = l]

NewTabs == {"create_workspace_tab", "create_workspace_terminal",
            "attach_tmux_session_one"}
InTabs == {"create_pane", "create_tab_terminal",
           "split_lone_pane_with_replacement"}

AcceptsTab == Room /\ Len(tabs) < MaxTabs
AcceptsFirstTerminal == Room /\ tabs = <<>>
AcceptsReplacement(target) ==
  /\ Room /\ Shown(target)
  /\ NodeOf(tabs[TabOf(target)], target).node = "leaf"

\* What the region at the end of a request asks, having mostly been asked
\* by the one at its start.
Accepts(op, target) ==
  CASE op = "create_workspace_tab"      -> AcceptsTab
    [] op = "create_workspace_terminal" -> AcceptsFirstTerminal
    [] op = "attach_tmux_session_one"   -> Room
    [] op = "split_lone_pane_with_replacement" -> AcceptsReplacement(target)
    [] OTHER                            -> Room /\ Shown(target)

AsksFirst(op, target) ==
  CASE op = "attach_tmux_session_one" -> TRUE
    [] op = "split_lone_pane_with_replacement" -> Shown(target)
    [] op \in {"create_pane", "create_tab_terminal"} ->
         Accepts(op, target) /\ target \in panes /\ HasSession(target)
    [] OTHER -> Accepts(op, target)

\* The first region of a creation and, after it, the new session.
Spawns(c, op) ==
  \E new \in Fresh, target \in IF op \in NewTabs THEN {""} ELSE PaneIds,
     before \in IF op = "split_lone_pane_with_replacement" THEN BOOLEAN ELSE {TRUE} :
    /\ caller[c] = Idle /\ AsksFirst(op, target)
    /\ Backend[new] = IF op = "attach_tmux_session_one" THEN "attached"
                                                        ELSE "terminal"
    /\ caller' = [caller EXCEPT ![c] =
         [at |-> "spawned", op |-> op, target |-> target, new |-> new,
          before |-> before]]
    /\ running' = running \cup {new}
    /\ UNCHANGED <<tabs, panes, saveFailed>>

NewTab(p) == Append(tabs, Leaf(p))

\* The tabs with the new pane where the request wants it.
Placed(r) ==
  IF r.op \in NewTabs THEN NewTab(Pane(r.new))
  ELSE LET i == TabOf(r.target)
       IN [tabs EXCEPT ![i] =
            CASE r.op = "create_pane" -> split_layout(@, r.target, Pane(r.new))
              [] r.op = "create_tab_terminal" ->
                   add_tab(@, r.target, Pane(r.new), TRUE)
              [] OTHER -> split_lone_layout_with_replacement(
                            @, r.target, Pane(r.new), r.before)]

\* A refused creation that forgets to end the session it has started.
RefusalForgets(c) ==
  LET r == caller[c]
  IN /\ caller[c].at = "spawned"
     /\ caller' = [caller EXCEPT ![c] = Idle]
     /\ IF Accepts(r.op, r.target)
        THEN /\ Saves(Placed(r), panes \cup {r.new})
             /\ running' = IF encode_desired_state(tabs', panes')
                           THEN running ELSE running \ {r.new}
        ELSE UNCHANGED <<tabs, panes, running, saveFailed>>

\* The second region of a creation.  A failure ends the new session, even
\* one that is registered by then.
Registers(c) ==
  LET r == caller[c]
  IN /\ caller[c].at = "spawned"
     /\ caller' = [caller EXCEPT ![c] = Idle]
     /\ IF Accepts(r.op, r.target)
        THEN /\ Saves(Placed(r), panes \cup {r.new})
             /\ running' = IF encode_desired_state(tabs', panes')
                           THEN running ELSE running \ {r.new}
        ELSE /\ running' = running \ {r.new}
             /\ UNCHANGED <<tabs, panes, saveFailed>>

\* Browsers and galleries need no session and are created in one region.
create_tab_browser(target, new, activate) ==
  /\ Room /\ Shown(target) /\ Backend[new] = "view"
  /\ LET i == TabOf(target)
     IN Saves([tabs EXCEPT ![i] = add_tab(@, target, Pane(new), activate)],
              panes \cup {new})
  /\ UNCHANGED <<running, caller>>

create_browser_tab(new) ==
  /\ Room /\ Len(tabs) < MaxTabs /\ Backend[new] = "view"
  /\ Saves(NewTab(Pane(new)), panes \cup {new})
  /\ UNCHANGED <<running, caller>>

ActivateTab(id) ==
  /\ Shown(id)
  /\ Saves([tabs EXCEPT ![TabOf(id)] = activate_tab(@, id)], panes)
  /\ UNCHANGED <<running, caller>>

swap_panes(source, target) ==
  /\ source # target /\ {source, target} \subseteq panes
  /\ \E i \in DOMAIN tabs :
       /\ layout_contains(tabs[i], source) /\ layout_contains(tabs[i], target)
       /\ Saves([tabs EXCEPT ![i] = swap_pane_ids(@, source, target)], panes)
  /\ UNCHANGED <<running, caller>>

Beside(l, target, pane, place) ==
  IF place = "tab" THEN add_tab(l, target, pane, TRUE)
                   ELSE insert_split(l, target, pane, place = "before")

\* `source` leaves its place and goes beside `target`, in whatever layout holds
\* it, which may be the one `source` came from.
Moves(source, target, place) ==
  LET from == TabOf(source)
      to   == TabOf(target)
      rest == detach_pane(tabs[from], source)
      pane == PaneIn(tabs[from], source)
  IN IF from = to
     THEN rest # Gone /\ Saves([tabs EXCEPT ![from] = Beside(rest, target, pane, place)], panes)
     ELSE LET inserted == [tabs EXCEPT ![to] = Beside(@, target, pane, place)]
          IN Saves(IF rest = Gone THEN RemoveAt(inserted, from)
                                  ELSE [inserted EXCEPT ![from] = rest], panes)

BothShown(source, target) ==
  /\ source # target /\ {source, target} \subseteq panes
  /\ Shown(source) /\ Shown(target)

move_pane_to_split(source, target, before) ==
  /\ BothShown(source, target)
  /\ Moves(source, target, IF before THEN "before" ELSE "after")
  /\ UNCHANGED <<running, caller>>

move_pane_to_tab(source, target) ==
  /\ BothShown(source, target)
  /\ Moves(source, target, "tab")
  /\ UNCHANGED <<running, caller>>

move_pane_into_tab(source, to) ==
  /\ source \in panes /\ Shown(source) /\ to # TabOf(source)
  /\ LET target == first_layout_pane(tabs[to])
     IN Moves(source, target, "tab")
  /\ UNCHANGED <<running, caller>>

move_pane_to_new_tab(source, to, after) ==
  /\ source \in panes /\ Shown(source)
  /\ LET from  == TabOf(source)
         rest  == detach_pane(tabs[from], source)
         lone  == rest = Gone
         place == to + (IF after THEN 1 ELSE 0)
                     - (IF lone /\ from < to THEN 1 ELSE 0)
         left  == IF lone THEN RemoveAt(tabs, from)
                  ELSE [tabs EXCEPT ![from] = rest]
     IN /\ ~(lone /\ from = to) /\ (lone \/ Len(tabs) < MaxTabs)
        /\ Saves(InsertAt(left, place, Leaf(PaneIn(tabs[from], source))), panes)
  /\ UNCHANGED <<running, caller>>

reorder_tab(from, to, after) ==
  /\ from # to
  /\ LET left  == RemoveAt(tabs, from)
         place == to + (IF after THEN 1 ELSE 0) - (IF from < to THEN 1 ELSE 0)
     IN Saves(InsertAt(left, place, tabs[from]), panes)
  /\ UNCHANGED <<running, caller>>

\* The sessions end only once the rest has been encoded: when it cannot be,
\* their programs run on without a pane.
close_tab(i) ==
  /\ Saves(RemoveAt(tabs, i), panes \ IdsOf(tabs[i]))
  /\ running' = IF encode_desired_state(tabs', panes')
                THEN running \ IdsOf(tabs[i]) ELSE running
  /\ UNCHANGED caller

\* The first region labels a terminal's pane as terminating and saves that.
close_pane(c, id) ==
  /\ caller[c] = Idle /\ Shown(id)
  /\ IF HasSession(id) /\ id \in panes /\ ~encode_desired_state(tabs, panes)
     THEN saveFailed' = TRUE /\ UNCHANGED caller
     ELSE /\ caller' = [caller EXCEPT ![c] = [at |-> "closing", pane |-> id]]
          /\ UNCHANGED saveFailed
  /\ UNCHANGED <<tabs, panes, running>>

\* The session has ended; the second region looks for the pane again.
Closes(c) ==
  LET id == caller[c].pane
  IN /\ caller[c].at = "closing"
     /\ caller' = [caller EXCEPT ![c] = Idle]
     /\ running' = running \ {id}
     /\ IF Shown(id)
        THEN Saves(WithTab(TabOf(id), detach_pane(tabs[TabOf(id)], id)),
                   panes \ {id})
        ELSE UNCHANGED <<tabs, panes, saveFailed>>

Init ==
  /\ \E id \in PaneIds : Backend[id] = "terminal" /\ tabs = <<Leaf(Pane(id))>>
                         /\ panes = {id} /\ running = {id}
  /\ caller = [c \in Callers |-> Idle] /\ saveFailed = FALSE

Next ==
  \/ \E c \in Callers : \/ \E op \in NewTabs \cup InTabs : Spawns(c, op)
                        \/ Registers(c) \/ Closes(c)
                        \/ \E id \in PaneIds : close_pane(c, id)
  \/ \E target \in PaneIds, new \in Fresh, activate \in BOOLEAN :
       create_tab_browser(target, new, activate)
  \/ \E new \in Fresh : create_browser_tab(new)
  \/ \E id \in PaneIds : ActivateTab(id)
  \/ \E source, target \in PaneIds : \/ swap_panes(source, target)
                                    \/ move_pane_to_tab(source, target)
                                    \/ \E before \in BOOLEAN :
                                         move_pane_to_split(source, target, before)
  \/ \E source \in PaneIds, to \in DOMAIN tabs :
       \/ move_pane_into_tab(source, to)
       \/ \E after \in BOOLEAN : move_pane_to_new_tab(source, to, after)
  \/ \E from, to \in DOMAIN tabs, after \in BOOLEAN : reorder_tab(from, to, after)
  \/ \E i \in DOMAIN tabs : close_tab(i)

Spec == Init /\ [][Next]_vars

(***************************************************************************)
(* Properties                                                              *)
(***************************************************************************)
\* Every registered pane is shown exactly once and nothing else is shown;
\* until a save fails, no program runs without a pane or a request that
\* still has to give it one.  Creations, moves and closings whose regions
\* interleave must agree on that (registry/panes.rs, registry/tabs.rs).
SessionsAreShown ==
  LET all == AllPanes(tabs)
  IN /\ {all[i].id : i \in DOMAIN all} = panes
     /\ Len(all) = Cardinality(panes)
     /\ saveFailed \/ running \subseteq panes \cup InFlight

TooDeep == \E i \in DOMAIN tabs : DepthOf(tabs[i]) > MaxDepth
KindsMixed == \E p \in Range(AllPanes(tabs)) :
                (Backend[p.id] = "view") # (p.kind = "view")

\* Whatever sequence of requests led here, the tabs can be saved, except
\* when splits nest too deep or a swap gave a terminal's id to a view: no
\* move, merge, closing or pruning leaves a layout that validate refuses
\* (persistence.rs, DesiredLayout::validate).
OnlyDepthAndSwapsBlockSaves ==
  encode_desired_state(tabs, panes) \/ TooDeep \/ KindsMixed
=============================================================================
