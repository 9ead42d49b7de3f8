----------------------------- MODULE TmuxClients -----------------------------
(***************************************************************************)
(* The control clients of the local workstations: how lost ones are        *)
(* replaced while terminals are created, moved to another workstation,     *)
(* reattached and closed (crates/session-service/src/registry/recovery.rs, *)
(* registry/mod.rs, registry/tabs.rs, registry/panes.rs, pty.rs,           *)
(* tmux_control.rs).                                                       *)
(*                                                                         *)
(* All clients of a workstation feed one map of sinks, so a client that    *)
(* replaces another finds the panes where they were.  A session is a       *)
(* PtySession with a tmux transport; `ended` is its exited flag.  A window *)
(* is a tmux window with its one tmux pane.  The server lives on; what     *)
(* tells of a window that closed is the %window-close line, and what a     *)
(* client has not read when it is lost stays unread.                       *)
(***************************************************************************)
EXTENDS Naturals, Sequences, FiniteSets

CONSTANTS
  Workstations,
  Panes,
  Requests,     \* request threads
  None,
  MaxWindows,   \* bound: windows opened
  MaxClients,   \* bound: control clients started
  MaxSessions   \* bound: sessions made

VARIABLES
  tmux_clients,  \* RegistryState::tmux_clients
  client,        \* every client started: [of, up, unread]
  tmux_sinks,    \* RegistryState::tmux_sinks: by workstation, window -> session
  session,       \* every session made: [window, client, ended]
  panes,         \* registered panes: [of, session]
  windows,       \* tmux: the workstation each window is in, None once closed
  request,
  healer,        \* the identity worker's heal_local_tmux_clients
  misjudged      \* history: sessions whose end was missed, or seen where there was
                 \* none, and those another move took the window from

vars == <<tmux_clients, client, tmux_sinks, session, panes, windows, request, healer,
          misjudged>>

Idle == [at |-> "idle"]
NoMap == [x \in {} |-> None]
Put(f, x, value) == [y \in DOMAIN f \cup {x} |-> IF y = x THEN value ELSE f[y]]
Without(f, x) == [y \in DOMAIN f \ {x} |-> f[y]]

(***************************************************************************)
(* Clients                                                                 *)
(***************************************************************************)
SessionOf(p) == session[panes[p].session]

\* A client that nobody holds any more is closed.
Held(c) ==
  \/ \E w \in Workstations : tmux_clients[w] = c
  \/ \E p \in DOMAIN panes : SessionOf(p).client = c
  \/ \E q \in Requests : request[q] # Idle /\ request[q].client = c
  \/ healer # Idle /\ healer.client = c

IsUp(c) == client[c].up /\ Held(c)

Spawned(w) == Append(client, [of |-> w, up |-> TRUE, unread |-> {}])

\* ensure_tmux_client
client_for_workspace(w, c) ==
  IF tmux_clients[w] # None /\ client[tmux_clients[w]].up
  THEN c = tmux_clients[w] /\ UNCHANGED <<client, tmux_clients>>
  ELSE /\ Len(client) < MaxClients /\ c = Len(client) + 1
       /\ client' = Spawned(w) /\ tmux_clients' = [tmux_clients EXCEPT ![w] = c]

ClientLost(c) ==
  /\ IsUp(c)
  /\ client' = [client EXCEPT ![c].up = FALSE, ![c].unread = {}]
  /\ UNCHANGED <<tmux_clients, tmux_sinks, session, panes, windows, request, healer,
                 misjudged>>

\* The clients of `w` are told that `win` has left its session.
Told(w, win) ==
  [c \in DOMAIN client |->
     IF client[c].of = w /\ IsUp(c) THEN [client[c] EXCEPT !.unread = @ \cup {win}]
                                    ELSE client[c]]

\* The sessions with a sink for one of `wins`.
Fed(w, wins) == {tmux_sinks[w][x] : x \in DOMAIN tmux_sinks[w] \cap wins}
Alive(sessions) == {s \in sessions : windows[session[s].window] # None}
Ended(sessions) ==
  [s \in DOMAIN session |-> [session[s] EXCEPT !.ended = @ \/ s \in sessions]]

\* The sink for the window of `s` goes from the map of its client, also when
\* it is another session's.
SinkOf(s) == Fed(client[session[s].client].of, {session[s].window})
unregister_sink(s, others) ==
  /\ tmux_sinks' = [tmux_sinks EXCEPT ![client[session[s].client].of] =
                       Without(@, session[s].window)]
  /\ misjudged' = misjudged \cup (SinkOf(s) \ {s}) \cup others

\* mark_window_exited, for a %window-close line.
ReadsClose(c, win) ==
  /\ IsUp(c) /\ win \in client[c].unread
  /\ client' = [client EXCEPT ![c].unread = @ \ {win}]
  /\ session' = Ended(Fed(client[c].of, {win}))
  /\ misjudged' = misjudged \cup Alive(Fed(client[c].of, {win}))
  /\ UNCHANGED <<tmux_clients, tmux_sinks, panes, windows, request, healer>>

ProgramEnds(win) ==
  /\ windows[win] # None
  /\ windows' = [windows EXCEPT ![win] = None]
  /\ client' = Told(windows[win], win)
  /\ UNCHANGED <<tmux_clients, tmux_sinks, session, panes, request, healer, misjudged>>

(***************************************************************************)
(* Requests                                                                *)
(***************************************************************************)
Becomes(q, r) == request' = [request EXCEPT ![q] = r]
InUse(p) == \E q \in Requests : request[q] # Idle /\ request[q].pane = p

create(q, p, w) ==
  /\ request[q] = Idle /\ p \notin DOMAIN panes /\ ~InUse(p)
  /\ \E c \in 1 .. MaxClients :
       /\ client_for_workspace(w, c)
       /\ Becomes(q, [at |-> "opening", op |-> "create", pane |-> p, of |-> w,
                      client |-> c])
  /\ UNCHANGED <<tmux_sinks, session, panes, windows, healer, misjudged>>

\* The first region of move_tab_to_workstation, for a tab of one pane.
move_tab_to_workstation(q, p, to) ==
  /\ request[q] = Idle /\ p \in DOMAIN panes
  /\ panes[p].of # to /\ ~SessionOf(p).ended
  /\ \E c \in 1 .. MaxClients :
       /\ client_for_workspace(to, c)
       /\ Becomes(q, [at |-> "moving", op |-> "move", pane |-> p, of |-> to,
                      client |-> c, window |-> SessionOf(p).window,
                      from |-> panes[p].of])
  /\ UNCHANGED <<tmux_sinks, session, panes, windows, healer, misjudged>>

\* A tab whose program has ended brings no window along.
MovesEnded(q, p, to) ==
  /\ request[q] = Idle /\ p \in DOMAIN panes
  /\ panes[p].of # to /\ SessionOf(p).ended
  /\ panes' = [panes EXCEPT ![p].of = to]
  /\ UNCHANGED <<tmux_clients, client, tmux_sinks, session, windows, request, healer,
                 misjudged>>

\* The first region of reattach_pane and the list that follows.
reattach_pane(q, p) ==
  /\ request[q] = Idle /\ p \in DOMAIN panes /\ SessionOf(p).ended
  /\ LET w == panes[p].of  win == SessionOf(p).window
     IN \E c \in 1 .. MaxClients :
          /\ client_for_workspace(w, c)
          /\ LET r == [at |-> "opening", op |-> "reattach", pane |-> p, of |-> w,
                       client |-> c]
             IN Becomes(q, IF windows[win] # w THEN r
                           ELSE Put([r EXCEPT !.at = "attaching"], "window", win))
  /\ UNCHANGED <<tmux_sinks, session, panes, windows, healer, misjudged>>

close_pane(q, p) ==
  /\ request[q] = Idle /\ p \in DOMAIN panes
  /\ Becomes(q, [at |-> "terminating", op |-> "close", pane |-> p,
                 client |-> SessionOf(p).client, session |-> panes[p].session])
  /\ UNCHANGED <<tmux_clients, client, tmux_sinks, session, panes, windows, healer,
                 misjudged>>

\* The client is lost: a created terminal gets a shell without tmux, the
\* other requests fail.  A move tries to bring the window back first.
Fails(q) ==
  LET r == request[q]
  IN /\ r.at \in {"opening", "moving", "attaching"} /\ ~client[r.client].up
     /\ Becomes(q, IF r.op = "move" THEN [r EXCEPT !.at = "returning"] ELSE Idle)
     /\ UNCHANGED <<tmux_clients, client, tmux_sinks, session, panes, windows, healer,
                    misjudged>>

\* spawn_window: new_window and register_sink.
OpensWindow(q) ==
  LET r == request[q]  win == Len(windows) + 1  s == Len(session) + 1
  IN /\ r.at = "opening" /\ client[r.client].up
     /\ win <= MaxWindows /\ s <= MaxSessions
     /\ windows' = Append(windows, r.of)
     /\ session' = Append(session, [window |-> win, client |-> r.client, ended |-> FALSE])
     /\ tmux_sinks' = [tmux_sinks EXCEPT ![r.of] = Put(@, win, s)]
     /\ Becomes(q, Put([r EXCEPT !.at = "resizing"], "session", s))
     /\ UNCHANGED <<tmux_clients, client, panes, healer, misjudged>>

\* spawn_window sets the size, and gives the window up when it cannot.
Resizes(q) ==
  LET r == request[q]
      s == r.session
  IN /\ r.at = "resizing"
     /\ IF client[r.client].up /\ windows[session[s].window] # None
        THEN Becomes(q, [r EXCEPT !.at = "made"]) /\ UNCHANGED <<tmux_sinks, misjudged>>
        ELSE Becomes(q, Idle) /\ unregister_sink(s, {})
     /\ UNCHANGED <<tmux_clients, client, session, panes, windows, healer>>

\* Sessions of `win` with a client of another workstation than `w`, and the
\* session that a request replaces.
Away(win, w) ==
  {s \in DOMAIN session : session[s].window = win /\ client[session[s].client].of # w}
Own(p) == {panes[x].session : x \in DOMAIN panes \cap {p}}

\* Whether the clients it leaves are told of it is up to tmux.
MoveWindow(win, to) ==
  /\ windows' = [windows EXCEPT ![win] = to]
  /\ client' \in {client, Told(windows[win], win)}

move_window_to_session(q) ==
  LET r == request[q]
  IN /\ r.at = "moving" /\ client[r.client].up
     /\ IF windows[r.window] = None
        THEN Becomes(q, Idle) /\ UNCHANGED <<client, windows, misjudged>>
        ELSE /\ MoveWindow(r.window, r.of) /\ Becomes(q, [r EXCEPT !.at = "attaching"])
             /\ misjudged' = misjudged \cup (Away(r.window, r.of) \ Own(r.pane))
     /\ UNCHANGED <<tmux_clients, tmux_sinks, session, panes, healer>>

\* attach_tmux.  register_sink has replaced the sink by the time it refuses.
\* A window that has closed by now is never reported again.
attach_tmux(q) ==
  LET r == request[q]
      s == Len(session) + 1
      refused == r.window \in DOMAIN tmux_sinks[r.of]
  IN /\ r.at = "attaching" /\ client[r.client].up /\ s <= MaxSessions
     /\ session' = Append(session, [window |-> r.window, client |-> r.client,
                                    ended |-> FALSE])
     /\ tmux_sinks' = [tmux_sinks EXCEPT ![r.of] = Put(@, r.window, s)]
     /\ misjudged' = misjudged
          \cup (IF refused THEN {s, tmux_sinks[r.of][r.window]} ELSE {})
          \cup (IF windows[r.window] # r.of THEN {s} ELSE {})
     /\ Becomes(q, CASE ~refused -> Put([r EXCEPT !.at = "made"], "session", s)
                     [] refused /\ r.op = "move" -> [r EXCEPT !.at = "returning"]
                     [] OTHER -> Idle)
     /\ UNCHANGED <<tmux_clients, client, panes, windows, healer>>

\* A failed move: a window that is not back where its pane is is lost for it.
ReturnsWindow(q) ==
  LET r == request[q]
      moves == client[r.client].up /\ windows[r.window] # None
      there == IF moves THEN r.from ELSE windows[r.window]
  IN /\ r.at = "returning" /\ Becomes(q, Idle)
     /\ IF moves THEN MoveWindow(r.window, r.from) ELSE UNCHANGED <<client, windows>>
     /\ misjudged' = misjudged \cup Away(r.window, there)
     /\ UNCHANGED <<tmux_clients, tmux_sinks, session, panes, healer>>

\* The last region of a request that made a session.  The tab of a move may
\* have been closed or moved, the pane of a reattach closed.
Finds(r) ==
  CASE r.op = "create" -> TRUE
    [] r.op = "reattach" -> r.pane \in DOMAIN panes
    [] OTHER -> r.pane \in DOMAIN panes /\ panes[r.pane].of = r.from

Commits(q) ==
  LET r == request[q]
  IN /\ r.at = "made" /\ Finds(r)
     /\ panes' = IF r.op = "reattach" THEN [panes EXCEPT ![r.pane].session = r.session]
                 ELSE Put(panes, r.pane, [of |-> r.of, session |-> r.session])
     /\ Becomes(q, IF r.op # "reattach" THEN Idle
                   ELSE [r EXCEPT !.at = "terminating", !.session = panes[r.pane].session])
     /\ IF r.op = "move" THEN unregister_sink(panes[r.pane].session, {})
        ELSE /\ UNCHANGED tmux_sinks
             /\ misjudged' = IF panes'[r.pane].of = r.of THEN misjudged
                             ELSE misjudged \cup {r.session}
     /\ UNCHANGED <<tmux_clients, client, session, windows, healer>>

\* A created terminal can also find its place taken, and is terminated.  A
\* session that is only dropped leaves its window running, where it is.
GivesUp(q) ==
  LET r == request[q]
  IN /\ r.at = "made"
     /\ \/ /\ r.op = "create" /\ Becomes(q, [r EXCEPT !.at = "terminating"])
           /\ UNCHANGED <<tmux_sinks, misjudged>>
        \/ /\ ~Finds(r) /\ Becomes(q, Idle)
           /\ unregister_sink(r.session,
                              IF r.op = "move" THEN Away(r.window, windows[r.window]) ELSE {})
     /\ UNCHANGED <<tmux_clients, client, session, panes, windows, healer>>

\* The session's end is known, or its window is killed: when that fails the
\* sink has gone all the same, and a close leaves its pane behind.
terminate_and_wait(q) ==
  LET r == request[q]
      s == r.session
      win == session[s].window
      kills == ~session[s].ended /\ client[session[s].client].up /\ windows[win] # None
      fails == ~session[s].ended /\ ~kills
  IN /\ r.at = "terminating"
     /\ tmux_sinks' = [tmux_sinks EXCEPT ![client[session[s].client].of] = Without(@, win)]
     /\ misjudged' = misjudged \cup (SinkOf(s) \ {s}) \cup (IF fails THEN {s} ELSE {})
     /\ windows' = IF kills THEN [windows EXCEPT ![win] = None] ELSE windows
     /\ client' = IF kills THEN Told(windows[win], win) ELSE client
     /\ session' = IF kills THEN Ended({s}) ELSE session
     /\ Becomes(q, IF r.op = "close" /\ ~fails THEN [r EXCEPT !.at = "removing"] ELSE Idle)
     /\ UNCHANGED <<tmux_clients, panes, healer>>

RemovesPane(q) ==
  LET p == request[q].pane
  IN /\ request[q].at = "removing" /\ Becomes(q, Idle)
     /\ IF p \in DOMAIN panes
        THEN panes' = Without(panes, p) /\ unregister_sink(panes[p].session, {})
        ELSE UNCHANGED <<panes, tmux_sinks, misjudged>>
     /\ UNCHANGED <<tmux_clients, client, session, windows, healer>>

(***************************************************************************)
(* The identity worker                                                     *)
(***************************************************************************)
\* Forgets that a live client can also be the wrong one.
NeedsLiveClient(w) ==
  \E p \in DOMAIN panes : panes[p].of = w /\ ~client[SessionOf(p).client].up

Needs(w) ==
  \E p \in DOMAIN panes :
    /\ panes[p].of = w
    /\ ~client[SessionOf(p).client].up \/ tmux_clients[w] # SessionOf(p).client

\* The sinks of a workstation are there since its first client.
Heals(w) == Needs(w) /\ tmux_clients[w] # None

heal_local_tmux_clients(w) ==
  LET spawns == ~client[tmux_clients[w]].up
  IN /\ healer = Idle /\ Heals(w)
     /\ spawns => Len(client) < MaxClients
     /\ client' = IF spawns THEN Spawned(w) ELSE client
     /\ healer' = [at |-> "listing", of |-> w,
                   client |-> IF spawns THEN Len(client') ELSE tmux_clients[w]]
     /\ UNCHANGED <<tmux_clients, tmux_sinks, session, panes, windows, request, misjudged>>

list_panes ==
  /\ healer.at = "listing"
  /\ healer' = IF ~client[healer.client].up THEN Idle
               ELSE Put([healer EXCEPT !.at = "marking"], "listed",
                        {win \in DOMAIN windows : windows[win] = healer.of})
  /\ UNCHANGED <<tmux_clients, client, tmux_sinks, session, panes, windows, request,
                 misjudged>>

mark_missing_panes_exited ==
  LET missing == Fed(healer.of, DOMAIN windows \ healer.listed)
  IN /\ healer.at = "marking" /\ healer' = [healer EXCEPT !.at = "installing"]
     /\ session' = Ended(missing)
     /\ misjudged' = misjudged \cup Alive(missing)
     /\ UNCHANGED <<tmux_clients, client, tmux_sinks, panes, windows, request>>

\* replace_tmux_client, for every pane of the workstation.
Replaced(w, c) ==
  [s \in DOMAIN session |->
     IF \E p \in DOMAIN panes : panes[p] = [of |-> w, session |-> s]
     THEN [session[s] EXCEPT !.client = c] ELSE session[s]]

InstallsClient ==
  /\ healer.at = "installing" /\ healer' = Idle
  /\ tmux_clients' = [tmux_clients EXCEPT ![healer.of] = healer.client]
  /\ session' = Replaced(healer.of, healer.client)
  /\ UNCHANGED <<client, tmux_sinks, panes, windows, request, misjudged>>

-----------------------------------------------------------------------------
Init ==
  /\ tmux_clients = [w \in Workstations |-> None]
  /\ client = <<>> /\ session = <<>> /\ windows = <<>>
  /\ tmux_sinks = [w \in Workstations |-> NoMap]
  /\ panes = NoMap
  /\ request = [q \in Requests |-> Idle]
  /\ healer = Idle
  /\ misjudged = {}

Next ==
  \/ \E c \in DOMAIN client : ClientLost(c) \/ \E win \in client[c].unread : ReadsClose(c, win)
  \/ \E win \in DOMAIN windows : ProgramEnds(win)
  \/ \E q \in Requests, p \in Panes :
       \/ reattach_pane(q, p) \/ close_pane(q, p)
       \/ \E w \in Workstations :
            create(q, p, w) \/ move_tab_to_workstation(q, p, w) \/ MovesEnded(q, p, w)
  \/ \E q \in Requests :
       \/ Fails(q) \/ OpensWindow(q) \/ Resizes(q)
       \/ move_window_to_session(q) \/ attach_tmux(q) \/ ReturnsWindow(q)
       \/ Commits(q) \/ GivesUp(q) \/ terminate_and_wait(q) \/ RemovesPane(q)
  \/ \E w \in Workstations : heal_local_tmux_clients(w)
  \/ list_panes \/ mark_missing_panes_exited \/ InstallsClient

Spec == Init /\ [][Next]_vars

-----------------------------------------------------------------------------
Quiet ==
  /\ \A q \in Requests : request[q] = Idle
  /\ healer = Idle /\ \A w \in Workstations : ~Heals(w)
  /\ \A c \in DOMAIN client : IsUp(c) => client[c].unread = {}

(***************************************************************************)
(* However clients are lost, replaced by the healer and by requests at     *)
(* once, and terminals created, moved, reattached and closed meanwhile:    *)
(* when all is quiet every pane says that its program ended exactly when   *)
(* its window closed, and a live pane's window is in its workstation's     *)
(* session, has its sink among the workstation's and uses its one          *)
(* registered client.  Not so for a pane that the code misjudges: a window *)
(* opened or attached after the healer's list was taken, one tmux reports  *)
(* closed when it moves, one that closes before it is attached, one that   *)
(* is attached twice, one whose move failed half way or met another move   *)
(* of its tab, and one whose close failed.                                 *)
(***************************************************************************)
PanesAreConnected ==
  Quiet =>
    \A p \in DOMAIN panes :
      LET w == panes[p].of  s == SessionOf(p)
      IN panes[p].session \notin misjudged =>
           /\ s.ended <=> windows[s.window] = None
           /\ ~s.ended => /\ windows[s.window] = w
                          /\ s.window \in DOMAIN tmux_sinks[w]
                          /\ tmux_sinks[w][s.window] = panes[p].session
                          /\ s.client = tmux_clients[w] /\ client[s.client].up
=============================================================================
