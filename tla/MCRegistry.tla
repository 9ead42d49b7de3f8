----------------------------- MODULE MCRegistry -----------------------------
(***************************************************************************)
(* Four parts of the registry side by side in one run: a behaviour follows *)
(* the tabs of one workstation (PaneLayout), the tree of workstations      *)
(* (Workstations), their order (WorkstationOrder) or the tmux clients      *)
(* (TmuxClients).  `part` says which (with tmux clients twice, under       *)
(* different bounds); the variables of the others keep their initial       *)
(* values.                                                                 *)
(***************************************************************************)
EXTENDS MCWorkstations, SequencesExt

CONSTANTS
  Callers, TabPanes, Backend,  \* of PaneLayout
  t1, t2, v1, a1, c1, w1, w2, p1

VARIABLES
  part,
  tabs, registered, running, caller, saveFailed,
  sidebar

\* Two local terminals, a browser or gallery and an attached tmux session.
TabIds == {t1, t2, v1, a1}
Kinds == [id \in TabIds |-> IF id = v1 THEN "view" ELSE IF id = a1 THEN "attached"
                                                       ELSE "terminal"]

\* In every part two names are interchangeable: all are swapped at once.
Twins == <<t1, t2, w1, w2>>
Swapped == [i \in 1 .. 4 |-> Twins[IF i % 2 = 1 THEN i + 1 ELSE i - 1]]
Swap == {[x \in Range(Twins) |-> p[SelectInSeq(Twins, LAMBDA y : y = x)]] :
           p \in {Twins, Swapped}}

Tabs == INSTANCE PaneLayout
  WITH PaneIds <- TabPanes, MaxPanes <- 3, MaxTabs <- 3, MaxDepth <- 2,
       panes <- registered
Order == INSTANCE WorkstationOrder
  WITH Names <- 1 .. 3, Top <- None, workspaces <- sidebar

\* Bounds of the tmux parts: one request, with a second window, a third client
\* and a second workstation, but not all three; or two requests with none but
\* the workstation.
TmuxBound ==
  IF part = "tmux"
  THEN \/ Len(windows) < 2 \/ Len(client) < 3
       \/ \A c, d \in DOMAIN client : client[c].of = client[d].of
  ELSE Len(windows) < 2 /\ Len(client) < 3

tabVars == <<tabs, registered, running, caller, saveFailed>>
tmuxVars == <<tmux_clients, client, tmux_sinks, session, attached, windows, thread,
              healer, misjudged>>
allVars == <<part, vars, tabVars, sidebar, tmuxVars>>

OnTabs(A) == /\ part = "tabs" /\ A
              /\ UNCHANGED <<part, vars, sidebar, tmuxVars>>
OnTree(A) == /\ part = "tree" /\ A
             /\ UNCHANGED <<part, tabVars, sidebar, tmuxVars>>
OnOrder(A) == /\ part = "order" /\ A
              /\ UNCHANGED <<part, vars, tabVars, tmuxVars>>
OnTmux(A) == /\ part \in {"tmux", "overlap"} /\ A
             /\ UNCHANGED <<part, vars, tabVars, sidebar>>
             /\ TmuxBound'

MCInit ==
  /\ part \in {"tabs", "tree", "order", "tmux", "overlap"}
  /\ IF part = "tabs" THEN Tabs!Init
     ELSE /\ tabs = <<>> /\ registered = {} /\ running = {} /\ saveFailed = FALSE
          /\ caller = [c \in Callers |-> Tabs!Idle]
  /\ Init /\ Order!Init /\ Tmux!Init

TabsNext ==
  \/ \E c \in Callers :
       \/ \E op \in Tabs!NewTabs \cup Tabs!InTabs : OnTabs(Tabs!Spawns(c, op))
       \/ OnTabs(Tabs!Registers(c)) \/ OnTabs(Tabs!Closes(c))
       \/ \E id \in TabPanes : OnTabs(Tabs!close_pane(c, id))
  \/ \E target \in TabPanes, new \in Tabs!Fresh, activate \in BOOLEAN :
       OnTabs(Tabs!create_tab_browser(target, new, activate))
  \/ \E new \in Tabs!Fresh : OnTabs(Tabs!create_browser_tab(new))
  \/ \E id \in TabPanes : OnTabs(Tabs!ActivateTab(id))
  \/ \E source, target \in TabPanes :
       \/ OnTabs(Tabs!swap_panes(source, target)) \/ OnTabs(Tabs!move_pane_to_tab(source, target))
       \/ \E before \in BOOLEAN : OnTabs(Tabs!move_pane_to_split(source, target, before))
  \/ \E source \in TabPanes, to \in DOMAIN tabs :
       \/ OnTabs(Tabs!move_pane_into_tab(source, to))
       \/ \E after \in BOOLEAN : OnTabs(Tabs!move_pane_to_new_tab(source, to, after))
  \/ \E from, to \in DOMAIN tabs, after \in BOOLEAN : OnTabs(Tabs!reorder_tab(from, to, after))
  \/ \E i \in DOMAIN tabs : OnTabs(Tabs!close_tab(i))

TreeNext ==
  \/ \E q \in Requests :
       \/ \E parent \in Ids \cup {None} : OnTree(create_workspace(q, parent))
       \/ OnTree(CreatesWorkspace(q)) \/ OnTree(persist_ssh_workspace_intent(q))
       \/ OnTree(attach_ssh_workspace(q))
       \/ \E w \in Ids :
            \/ OnTree(create_workspace_tab(q, w)) \/ OnTree(delete_workspace(q, w))
            \/ OnTree(disconnect_workspace(q, w))
            \/ OnTree(reconnect_workspace(q, w))
            \/ \E p \in workspaces[w].tabs, to \in Ids :
                 OnTree(move_tab_to_workstation(q, w, p, to))
       \/ OnTree(OpensTab(q)) \/ OnTree(MovesTab(q)) \/ OnTree(RequestFails(q))
       \/ OnTree(Disconnects(q)) \/ OnTree(apply_workspace_reconnection(q))
       \/ OnTree(ListsNested(q)) \/ OnTree(ReconnectsNext(q))
       \/ OnTree(Deletes(q))
  \/ \E w \in Ids :
       \/ \E p \in workspaces[w].tabs : OnTree(close_tab(w, p))
       \/ workspaces[w].remote /\ OnTree(refresh_runtime_metadata(workspaces[w].tabs))

OrderNext ==
  \/ \E id \in 1 .. 3, kind \in {"workstation", "bot"},
        parent \in Order!Ids(sidebar) \cup {None} : OnOrder(Order!Create(id, kind, parent))
  \/ \E id \in Order!Ids(sidebar) :
       \/ \E pinned \in BOOLEAN : OnOrder(Order!set_workspace_pinned(id, pinned))
       \/ \E target \in Order!Ids(sidebar), after \in BOOLEAN :
            OnOrder(Order!reorder_workspace(id, target, after))
       \/ OnOrder(Order!delete_workspace(id))

\* Which idle thread serves a request makes no difference.
NextThread == IF thread[1] = Tmux!Idle THEN {1}
              ELSE IF part = "overlap" THEN {2} ELSE {}

TmuxNext ==
  \/ \E c \in DOMAIN client :
       \/ OnTmux(Tmux!ClientLost(c))
       \/ \E win \in client[c].unread : OnTmux(Tmux!ReadsClose(c, win))
  \/ \E win \in DOMAIN windows : OnTmux(Tmux!ProgramEnds(win))
  \/ \E q \in NextThread, p \in LocalPanes :
       \/ OnTmux(Tmux!reattach_pane(q, p)) \/ OnTmux(Tmux!close_pane(q, p))
       \/ \E w \in LocalWorkstations :
            \/ OnTmux(Tmux!create(q, p, w)) \/ OnTmux(Tmux!MovesEnded(q, p, w))
            \/ OnTmux(Tmux!move_tab_to_workstation(q, p, w))
  \/ \E q \in Requests :
       \/ OnTmux(Tmux!Fails(q)) \/ OnTmux(Tmux!OpensWindow(q)) \/ OnTmux(Tmux!Resizes(q))
       \/ OnTmux(Tmux!move_window_to_session(q)) \/ OnTmux(Tmux!attach_tmux(q))
       \/ OnTmux(Tmux!ReturnsWindow(q)) \/ OnTmux(Tmux!Commits(q))
       \/ OnTmux(Tmux!GivesUp(q)) \/ OnTmux(Tmux!terminate_and_wait(q))
       \/ OnTmux(Tmux!RemovesPane(q))
  \/ \E w \in LocalWorkstations : OnTmux(Tmux!heal_local_tmux_clients(w))
  \/ OnTmux(Tmux!list_panes) \/ OnTmux(Tmux!mark_missing_panes_exited)
  \/ OnTmux(Tmux!InstallsClient)

MCNext == TabsNext \/ TreeNext \/ OrderNext \/ TmuxNext

MCSpec == MCInit /\ [][MCNext]_allVars

\* A registered pane keeps its session's program, and what is shown is
\* registered (PaneLayout).
SessionsAreShown == Tabs!SessionsAreShown
\* The tabs can be saved, with two exceptions (PaneLayout).
OnlyDepthAndSwapsBlockSaves == Tabs!OnlyDepthAndSwapsBlockSaves
\* A request moves one workstation at most (WorkstationOrder).
OnlyTheDraggedMoves == Order!OnlyTheDraggedMoves
=============================================================================
