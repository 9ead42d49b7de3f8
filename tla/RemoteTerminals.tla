--------------------------- MODULE RemoteTerminals ---------------------------
(***************************************************************************)
(* The terminals of one remote workstation as tmux windows on its host     *)
(* (session-service/src/registry/remote_tmux.rs, recovery.rs, panes.rs,    *)
(* tabs.rs, workspaces.rs, pty.rs).  A window is tagged with its pane, so  *)
(* that the pane finds it again over the next connection, and a new        *)
(* connection first kills the windows of tabs that are gone.               *)
(*                                                                         *)
(* Every tab has one pane.  The host has tmux; connecting can fail or ask  *)
(* for a sign-in at any time, and a connection can be lost between any two *)
(* commands.  A session knows at once that its window closed, and its pane *)
(* and the workstation's status that the session ended: the delays, and    *)
(* what a sink registered twice does, are TmuxClients'.                    *)
(***************************************************************************)
EXTENDS Naturals, FiniteSets

CONSTANTS
  Panes,       \* pane ids; one that nothing refers to any more stands for a new one
  Requests,    \* request and sign-in threads
  MaxWindows,  \* bound: windows anything refers to at one time
  MaxClients,  \* bound: connections anything refers to at one time
  None

VARIABLES
  tabs,      \* panes of the workstation's tabs
  panes,     \* RegistryState::panes: [window, client, cut], or None
  watched,   \* panes whose sign-in watch_sign_in waits for
  client,    \* remote_clients: the registered connection, 0 for none
  up,        \* connections that are alive
  tag,       \* @hh-pane of every window that runs, None when it is not set yet
  request,
  left,      \* history: windows whose tab went while they were out of reach
  shared     \* history: panes that two requests worked on at once

connections == <<client, up>>
registry == <<tabs, panes, watched>>
history == <<left, shared>>
vars == <<registry, connections, tag, request, history>>

live == DOMAIN tag
Listed(W) == [w \in W |-> tag[w]]
Close(W) == tag' = Listed(live \ W)

SignIn == 0   \* in place of a window: the terminal of a sign-in
Idle == [at |-> "idle"]

Session(window, c) == [window |-> window, client |-> c, cut |-> FALSE]

\* PtySession::exit_status, and exit_status of the pane that shows it.
Ended(s) ==
  s.cut \/ (s.window # SignIn /\ (s.client \notin up \/ s.window \notin live))
Waits(p) == IF panes[p] = None THEN TRUE ELSE Ended(panes[p])
Tagged(P) == {w \in live : tag[w] \in P}

Becomes(q, r) == request' = [request EXCEPT ![q] = r]
Goes(q, step) == Becomes(q, [request[q] EXCEPT !.at = step])
At(q, step) == request[q].at = step

NoSessions(P) == [p \in P |-> None]

\* What nothing refers to any more.
Active == {q \in Requests : request[q] # Idle}
InUse(q, p) == q \in Active /\ p \in request[q].panes
New(p) ==
  p \notin tabs /\ panes[p] = None /\ Tagged({p}) = {} /\ \A q \in Requests : ~InUse(q, p)

Sessions ==
  ({panes[p] : p \in Panes}
     \cup UNION {{request[q].made[p] : p \in request[q].panes} : q \in Active}) \ {None}
FreeWindows ==
  (1 .. MaxWindows) \ (live \cup {s.window : s \in Sessions}
                          \cup UNION {DOMAIN request[q].found \cup request[q].due : q \in Active})
FreeClients ==
  (1 .. MaxClients) \ (up \cup {client} \cup {s.client : s \in Sessions}
                          \cup {request[q].client : q \in Active})
Least(ids) == {i \in ids : \A j \in ids : i <= j}

\* A request on the panes that `made` has.
Begins(q, op, made, step) ==
  LET P == DOMAIN made IN
  /\ request[q] = Idle
  /\ Becomes(q, [at |-> step, op |-> op, panes |-> P, todo |-> P, client |-> 0,
                 keep |-> {}, found |-> Listed({}), due |-> {}, window |-> SignIn, made |-> made])
  /\ shared' = IF op \in {"create", "reconnectEmpty"} THEN shared \ P
               ELSE shared \cup {p \in P : \E o \in Requests \ {q} : InUse(o, p)}

(***************************************************************************)
(* Requests that want sessions                                             *)
(***************************************************************************)
create_workspace_tab(q, p) ==
  /\ New(p)
  /\ Begins(q, "create", NoSessions({p}), "connecting")
  /\ UNCHANGED <<registry, connections, tag, left>>

reattach_pane(q, p) ==
  /\ p \in tabs /\ panes[p] # None /\ Waits(p)
  /\ Begins(q, "reattach", NoSessions({p}), "connecting")
  /\ UNCHANGED <<registry, connections, tag, left>>

\* The workstation is offline.  Without tabs it gets one.
reconnect_workspace(q) ==
  /\ \A p \in tabs : Waits(p)
  /\ IF tabs # {} THEN Begins(q, "reconnect", NoSessions({p \in tabs : Waits(p)}), "connecting")
     ELSE \E p \in Panes : New(p) /\ Begins(q, "reconnectEmpty", NoSessions({p}), "connecting")
  /\ UNCHANGED <<registry, connections, tag, left>>

\* The sign-in that a pane shows has ended: finish_sign_in.
finish_sign_in(q, p) ==
  /\ p \in tabs \cap watched /\ panes[p] # None /\ panes[p].window = SignIn
  /\ panes' = [panes EXCEPT ![p].cut = TRUE] /\ watched' = watched \ {p}
  /\ Begins(q, "signedIn", NoSessions({r \in tabs : r = p \/ Waits(r)}),
            "connecting")
  /\ UNCHANGED <<tabs, connections, tag, left>>

(***************************************************************************)
(* remote_client                                                           *)
(***************************************************************************)
\* finish_sign_in asks for a client twice.
WithClient(r) == IF r.op = "signedIn" THEN [r EXCEPT !.op = "install", !.at = "connecting"]
                 ELSE [r EXCEPT !.at = "listing"]

UsesClient(q) ==
  /\ At(q, "connecting") /\ client \in up
  /\ Becomes(q, [WithClient(request[q]) EXCEPT !.client = client])
  /\ UNCHANGED <<registry, connections, tag, history>>

Connects(q) ==
  /\ At(q, "connecting") /\ client \notin up
  /\ \E c \in Least(FreeClients) :
       /\ up' = up \cup {c}
       /\ Becomes(q, [request[q] EXCEPT !.at = "inserting", !.client = c])
  /\ UNCHANGED <<registry, client, tag, history>>

\* The client is registered and the panes are read under one lock.
InsertsClient(q) ==
  /\ At(q, "inserting")
  /\ client' = request[q].client
  /\ Becomes(q, [request[q] EXCEPT !.at = "sweeping", !.keep = tabs, !.due = left])
  /\ UNCHANGED <<registry, up, tag, history>>

\* sweep_closed_tab_windows lists the windows and kills them one by one.
SweepLists(q) ==
  LET r == request[q] IN
  /\ At(q, "sweeping")
  /\ Becomes(q, IF r.client \notin up THEN WithClient(r)
                ELSE [r EXCEPT !.at = "killing", !.found = Listed(live \ Tagged(r.keep))])
  /\ UNCHANGED <<registry, connections, tag, history>>

SweepKills(q, w) ==
  LET r == request[q] IN
  /\ At(q, "killing") /\ r.client \in up /\ w \in DOMAIN r.found
  /\ Close({w})
  /\ Becomes(q, [r EXCEPT !.found = [x \in DOMAIN @ \ {w} |-> @[x]]])
  /\ UNCHANGED <<registry, connections, history>>

SweepEnds(q) ==
  LET r == request[q] IN
  /\ At(q, "killing") /\ (DOMAIN r.found = {} \/ r.client \notin up)
  /\ left' = IF DOMAIN r.found = {} THEN left \ r.due ELSE left
  /\ Becomes(q, [WithClient(r) EXCEPT !.found = Listed({}), !.keep = {}, !.due = {}])
  /\ UNCHANGED <<registry, connections, tag, shared>>

(***************************************************************************)
(* spawn_ssh_sessions                                                      *)
(***************************************************************************)
\* list_panes, once for all of them.
Lists(q) ==
  LET r == request[q] IN
  /\ At(q, "listing") /\ r.client \in up
  /\ Becomes(q, [r EXCEPT !.at = "starting", !.found = Listed(Tagged(r.panes))])
  /\ UNCHANGED <<registry, connections, tag, history>>

\* attach_tmux; the window may have closed since.
Attaches(q, w) ==
  LET r == request[q] IN
  /\ At(q, "starting") /\ r.client \in up /\ w \in DOMAIN r.found /\ r.found[w] \in r.todo
  /\ Becomes(q, [r EXCEPT !.todo = @ \ {r.found[w]},
                          !.made[r.found[w]] = Session(w, r.client)])
  /\ UNCHANGED <<registry, connections, tag, history>>

\* new_window: the window is opened first and tagged then.
OpensAny(q, p) ==
  LET r == request[q] IN
  /\ At(q, "starting") /\ r.client \in up /\ p \in r.todo
  /\ \E w \in Least(FreeWindows) :
       /\ tag' = [x \in live \cup {w} |-> IF x = w THEN None ELSE tag[x]]
       /\ left' = left \ {w}
       /\ Becomes(q, [r EXCEPT !.at = "tagging", !.window = w, !.todo = @ \ {p},
                               !.made[p] = Session(w, r.client)])
  /\ UNCHANGED <<registry, connections, shared>>

OpensWindow(q, p) ==
  OpensAny(q, p) /\ \A w \in DOMAIN request[q].found : request[q].found[w] # p

TagsWindow(q) ==
  LET r == request[q]  w == r.window IN
  /\ At(q, "tagging") /\ r.client \in up /\ w \in live
  /\ tag' = [tag EXCEPT ![w] = CHOOSE p \in r.panes : /\ r.made[p] # None
                                                      /\ r.made[p].window = w]
  /\ Goes(q, "sizing")
  /\ UNCHANGED <<registry, connections, history>>

Resizes(q) ==
  LET r == request[q] IN
  /\ At(q, "sizing") /\ r.client \in up /\ r.window \in live
  /\ Becomes(q, [r EXCEPT !.at = "starting", !.window = SignIn])
  /\ UNCHANGED <<registry, connections, tag, history>>

\* The host cannot be reached, the connection is lost, or the new window has
\* closed.  Sessions made before are detached; their windows run on.
CutShort(r) ==
  \/ r.at = "connecting" /\ client \notin up
  \/ r.at \in {"listing", "tagging", "sizing"} /\ r.client \notin up
  \/ r.at = "starting" /\ r.todo # {} /\ r.client \notin up
  \/ r.at \in {"tagging", "sizing"} /\ r.window \notin live

Fails(q) ==
  LET r == request[q] IN
  /\ CutShort(r)
  /\ left' = left \cup (({r.window} \cap live) \ Tagged(tabs))
  /\ Becomes(q, Idle)
  /\ UNCHANGED <<registry, connections, tag, shared>>

\* The first pane gets the sign-in; finish_sign_in does not open another one.
AsksToSignIn(q) ==
  LET r == request[q] IN
  /\ At(q, "connecting") /\ client \notin up /\ r.op # "signedIn"
  /\ \E p \in r.panes :
       Becomes(q, [r EXCEPT !.at = "installing", !.todo = {},
                            !.made[p] = Session(SignIn, 0)])
  /\ UNCHANGED <<registry, connections, tag, history>>

SessionsAreMade(q) ==
  LET r == request[q] IN
  /\ At(q, "starting") /\ r.todo = {}
  /\ Becomes(q, [r EXCEPT !.at = "installing", !.found = Listed({})])
  /\ UNCHANGED <<registry, connections, tag, history>>

(***************************************************************************)
(* The sessions are installed                                              *)
(***************************************************************************)
Made(r) == {p \in r.panes : r.made[p] # None}
Shows(r, P) == panes' = [p \in Panes |-> IF p \in P THEN r.made[p] ELSE panes[p]]
Watches(r, P) == watched' = watched \cup {p \in P : r.made[p].window = SignIn}

\* What the session of `p` showed is killed with it, unless it has ended.
Killed(s) == IF s = None THEN {} ELSE IF Ended(s) THEN {} ELSE {s.window}

\* create_workspace_tab and a reconnection without tabs add the tab; a pane
\* closed meanwhile gets no session, and its window runs on.
Installs(q) ==
  LET r == request[q]
      adds == IF r.op \in {"create", "reconnectEmpty"} THEN r.panes ELSE {}
      P == IF r.op = "reconnect" THEN Made(r) ELSE Made(r) \cap (tabs \cup adds)
  IN
  /\ At(q, "installing")
  /\ tabs' = tabs \cup adds
  /\ Shows(r, P) /\ Watches(r, P)
  \* reattach_pane terminates the session it replaces.
  /\ Close(IF r.op = "reattach" THEN UNION {Killed(panes[p]) : p \in P} ELSE {})
  /\ Becomes(q, Idle)
  /\ UNCHANGED <<connections, history>>

\* A limit was reached meanwhile: the session is terminated.
RefusesTab(q) ==
  LET r == request[q]  killed == UNION {Killed(r.made[p]) : p \in r.panes} IN
  /\ At(q, "installing") /\ r.op = "create"
  /\ Close(killed)
  /\ left' = left \cup (Tagged(r.panes) \ killed)
  /\ Becomes(q, Idle)
  /\ UNCHANGED <<registry, connections, shared>>

(***************************************************************************)
(* close_tab, close_pane, disconnect_workspace                             *)
(***************************************************************************)
\* The tab goes first and its session is terminated then.
close_tab(q, p) ==
  /\ p \in tabs
  /\ Begins(q, "closeTab", [r \in {p} |-> panes[p]], "terminating")
  /\ tabs' = tabs \ {p} /\ panes' = [panes EXCEPT ![p] = None]
  /\ UNCHANGED <<watched, connections, tag, left>>

\* The session is terminated first.
close_pane(q, p) ==
  /\ p \in tabs
  /\ Begins(q, "closePane", [r \in {p} |-> panes[p]], "terminating")
  /\ UNCHANGED <<registry, connections, tag, left>>

\* terminate_and_wait: a session that has ended already kills nothing, though
\* its window may run on.
LeftBehind(killed, p) == IF killed \subseteq {SignIn} THEN Tagged({p}) ELSE {}

Terminates(q, p) ==
  LET r == request[q]  killed == Killed(r.made[p]) IN
  /\ At(q, "terminating") /\ p \in r.panes
  /\ Close(killed)
  /\ IF r.op = "closeTab"
     THEN Becomes(q, Idle) /\ left' = left \cup LeftBehind(killed, p)
     ELSE /\ \E w \in killed \cup {SignIn} :
               /\ w = SignIn => killed \subseteq {SignIn}
               /\ Becomes(q, [r EXCEPT !.at = "removing", !.window = w])
          /\ UNCHANGED left
  /\ UNCHANGED <<registry, connections, shared>>

RemovesPane(q, p) ==
  LET r == request[q] IN
  /\ At(q, "removing") /\ p \in r.panes
  /\ tabs' = tabs \ {p} /\ panes' = [panes EXCEPT ![p] = None]
  /\ left' = left \cup LeftBehind({r.window}, p)
  /\ Becomes(q, Idle)
  /\ UNCHANGED <<watched, connections, tag, shared>>

\* Every session is detached, and the client is closed then.
disconnect_workspace(q) ==
  /\ Begins(q, "disconnect", NoSessions({}), "closing")
  /\ panes' = [p \in Panes |-> IF p \notin tabs \/ panes[p] = None THEN panes[p]
                               ELSE [panes[p] EXCEPT !.cut = TRUE]]
  /\ UNCHANGED <<tabs, watched, connections, tag, left>>

close_remote_clients(q) ==
  /\ At(q, "closing")
  /\ client' = 0 /\ up' = up \ {client}
  /\ Becomes(q, Idle)
  /\ UNCHANGED <<registry, tag, history>>

(***************************************************************************)
(* The world                                                               *)
(***************************************************************************)
ConnectionLost(c) ==
  /\ c \in up /\ up' = up \ {c}
  /\ UNCHANGED <<registry, client, tag, request, history>>

ProgramEnds(w) ==
  /\ w \in live /\ Close({w})
  /\ UNCHANGED <<registry, connections, request, history>>

\* The tabs are saved, the requests and sessions are gone.
Restarts ==
  /\ panes' = NoSessions(Panes) /\ watched' = {}
  /\ client' = 0 /\ up' = {}
  /\ request' = [q \in Requests |-> Idle]
  /\ left' = live \ Tagged(tabs)
  /\ UNCHANGED <<tabs, tag, shared>>

-----------------------------------------------------------------------------
Init ==
  /\ tabs = {} /\ panes = NoSessions(Panes) /\ watched = {}
  /\ client = 0 /\ up = {}
  /\ tag = [w \in {} |-> None]
  /\ request = [q \in Requests |-> Idle]
  /\ left = {} /\ shared = {}

Next ==
  \/ \E q \in Requests, p \in Panes :
       \/ create_workspace_tab(q, p) \/ reattach_pane(q, p) \/ finish_sign_in(q, p)
       \/ OpensWindow(q, p) \/ close_tab(q, p) \/ close_pane(q, p)
       \/ Terminates(q, p) \/ RemovesPane(q, p)
  \/ \E q \in Requests :
       \/ reconnect_workspace(q) \/ UsesClient(q) \/ Connects(q) \/ InsertsClient(q)
       \/ SweepLists(q) \/ SweepEnds(q) \/ Lists(q) \/ TagsWindow(q) \/ Resizes(q)
       \/ Fails(q) \/ AsksToSignIn(q) \/ SessionsAreMade(q) \/ Installs(q)
       \/ RefusesTab(q) \/ disconnect_workspace(q) \/ close_remote_clients(q)
  \/ \E q \in Requests, w \in 1 .. MaxWindows : SweepKills(q, w) \/ Attaches(q, w)
  \/ \E c \in up : ConnectionLost(c)
  \/ \E w \in live : ProgramEnds(w)
  \/ Restarts

Spec == Init /\ [][Next]_vars

-----------------------------------------------------------------------------
(***************************************************************************)
(* When all is quiet a remote workstation's windows are those of its tabs: *)
(* a window that runs on the host is the one its pane shows, or the only   *)
(* one its pane, which shows nothing that runs, will find when it connects *)
(* again.  Everything else was left behind while it could not be reached,  *)
(* and not before the last sweep of a new connection that ended.  Not so   *)
(* for a pane that two requests worked on at once.                         *)
(***************************************************************************)
RemoteWindowsMatchTabs ==
  (\A q \in Requests : request[q] = Idle) =>
    \A w \in live \ (left \cup Tagged(shared)) :
      /\ tag[w] \in tabs
      /\ IF Waits(tag[w]) \/ panes[tag[w]].window = SignIn
         THEN \A x \in Tagged({tag[w]}) \ left : x = w
         ELSE panes[tag[w]].window = w
=============================================================================
