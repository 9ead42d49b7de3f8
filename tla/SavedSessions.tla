--------------------------- MODULE SavedSessions ---------------------------
(***************************************************************************)
(* The session service's terminals across requests, crashes and restarts:  *)
(* the tabs it keeps in memory, the tmux windows their programs run in,    *)
(* and the recovery snapshot `sessions.json` that ties one to the other    *)
(* (crates/session-service/src/registry, persistence.rs, pty.rs, main.rs). *)
(*                                                                         *)
(* One workstation with local terminals is modelled; a tab has one pane.   *)
(* The tmux server outlives the service.  A tab's place in the layout is   *)
(* abstracted: `reorder` may put the tabs in any order, and recovery walks *)
(* the panes in layout order, so here it walks them in any order.          *)
(***************************************************************************)
EXTENDS Integers, FiniteSets

CONSTANTS
  Panes,          \* pane ids (UUIDs, never used twice)
  Handlers,       \* connections of the service; each runs one request at a time
  MaxWindows,     \* bound: tmux window ids one tmux server hands out
  MaxTabs,        \* MAX_TABS_PER_WORKSPACE
  Operations,     \* the requests the clients of this instance make
  Nobody,         \* no pane: an untagged window, an unregistered sink
  Discarded,      \* the sink of a session whose registration was refused
  TmuxMayEnd,     \* whether the tmux server may end while the service is down
  WritesMayFail   \* whether writing sessions.json may fail

Windows == 1 .. MaxWindows
NoWindow == 0

ASSUME BoundsAssumption == MaxWindows \in Nat /\ MaxTabs \in Nat \ {0}
ASSUME NamesAssumption ==
  Nobody \notin Panes /\ Discarded \notin Panes /\ Nobody # Discarded
ASSUME SwitchesAssumption ==
  /\ TmuxMayEnd \in BOOLEAN /\ WritesMayFail \in BOOLEAN
  /\ Operations \subseteq {"create", "close", "reorder", "reattach"}

VARIABLES
  phase,       \* the service process: what main() is doing
  tabs,        \* the panes of the snapshot in memory
  session,     \* the PtySession behind each pane
  sink,        \* whose terminal the tmux client feeds a window's output to
  ended,       \* windows whose PtySession has seen its program end
  request,     \* what each handler is in the middle of
  saver,       \* the snapshot the persistence tick is writing
  recovery,    \* what SessionRegistry::persistent has loaded and done so far
  disk,        \* sessions.json
  live,        \* the tmux windows that exist
  tag,         \* the @hh-pane option each window was created with
  nextWindow,  \* the next window id of the tmux server
  used,        \* panes that were ever created (ids are fresh UUIDs)
  finished,    \* history: windows whose program ended by itself
  acked,       \* history: panes whose creation was answered with success
  closed       \* history: panes the user closed

service == <<tabs, session, sink, ended, request, saver, recovery>>
tmux    == <<live, tag, nextWindow, finished>>
history == <<used, acked, closed>>
vars == <<phase, service, disk, tmux, history>>

(***************************************************************************)
(* Sessions and layouts                                                    *)
(***************************************************************************)
Session == [kind : {"tmux", "unattached"}, win : Windows]
             \cup [kind : {"none", "pty", "ptyEnded"}, win : {NoWindow}]

NoSession     == [kind |-> "none", win |-> NoWindow]
Attached(w)   == [kind |-> "tmux", win |-> w]
Unattached(w) == [kind |-> "unattached", win |-> w]
PlainShell    == [kind |-> "pty", win |-> NoWindow]

\* PtySession::exit_status: an unattached session always reports an exit.
HasEnded(s) == \/ s.kind \in {"unattached", "ptyEnded"}
               \/ s.kind = "tmux" /\ s.win \in ended

\* What sessions.json holds: the tabs, and a window id for each tmux pane.
Layout == [tabs : SUBSET Panes, win : [Panes -> Windows \cup {NoWindow}]]

EmptyLayout == [tabs |-> {}, win |-> [p \in Panes |-> NoWindow]]

encode_desired_state(T, S) ==
  [tabs |-> T, win |-> [p \in Panes |-> IF p \in T THEN S[p].win ELSE NoWindow]]

\* The live windows a pane can be reattached to: the one its saved id names,
\* else one tagged with the pane.
find_windowAnyTag(p, saved) == IF saved \in live THEN {saved} ELSE live

find_window(p, saved) ==
  IF saved \in live THEN {saved} ELSE {w \in live : tag[w] = p}

Idle == [step |-> "idle", op |-> "none", pane |-> Nobody,
         new |-> NoSession, old |-> NoSession, bytes |-> EmptyLayout]

Request ==
  [step  : {"idle", "commit", "lookup", "install", "end", "write"},
   op    : {"none", "create", "close", "reorder", "reattach"},
   pane  : Panes \cup {Nobody},
   new   : Session, old : Session, bytes : Layout]

NotSaving == [busy |-> FALSE, bytes |-> EmptyLayout]

NoRecovery == [todo |-> {}, loaded |-> EmptyLayout, alive |-> {},
               keep |-> {}, managed |-> FALSE, connected |-> FALSE]

Recovery ==
  [todo : SUBSET Panes, loaded : Layout, alive : SUBSET Windows,
   keep : SUBSET Windows, managed : BOOLEAN, connected : BOOLEAN]

Init ==
  /\ phase = "down"
  /\ tabs = {} /\ session = [p \in Panes |-> NoSession]
  /\ sink = [w \in Windows |-> Nobody] /\ ended = {}
  /\ request = [h \in Handlers |-> Idle] /\ saver = NotSaving
  /\ recovery = NoRecovery
  /\ disk = EmptyLayout            \* a saved workstation with every tab closed
  /\ live = {} /\ tag = [w \in Windows |-> Nobody] /\ nextWindow = 1
  /\ used = {} /\ finished = {} /\ acked = {} /\ closed = {}

(***************************************************************************)
(* Steps on the tmux server, each one command of the control client        *)
(***************************************************************************)
\* new-window, tag it, register the sink.  `nextWindow` bounds the instance.
NewWindow(p) ==
  /\ nextWindow \in Windows
  /\ live' = live \cup {nextWindow}
  /\ tag' = [tag EXCEPT ![nextWindow] = p]
  /\ nextWindow' = nextWindow + 1
  /\ sink' = [sink EXCEPT ![nextWindow] = p]

\* register_sink inserts first and refuses afterwards, so a refused attach has
\* already taken the sink away from the session it belonged to.
CanAttach(w) == sink[w] = Nobody

RegisterSink(w, p) ==
  sink' = [sink EXCEPT ![w] = IF CanAttach(w) THEN p ELSE Discarded]

\* PtySession::terminate_and_wait.  `killed` is FALSE when the kill fails.
TerminateAnyTransport(s, killed) ==
  /\ sink' = [w \in Windows |-> IF w = s.win THEN Nobody ELSE sink[w]]
  /\ IF s.win \in ended \/ ~killed
     THEN UNCHANGED <<live, ended>>
     ELSE live' = live \ {s.win} /\ ended' = ended \cup {s.win}

Terminate(s, killed) ==
  IF s.kind # "tmux"
  THEN UNCHANGED <<live, sink, ended>>
  ELSE /\ sink' = [sink EXCEPT ![s.win] = Nobody]
       /\ IF s.win \in ended \/ ~killed
          THEN UNCHANGED <<live, ended>>
          ELSE live' = live \ {s.win} /\ ended' = ended \cup {s.win}

\* A pane's program ends and its window with it; the control client's
\* %window-close reaches the session the sink belongs to, later.
ProgramEnds(w) ==
  /\ w \in live
  /\ live' = live \ {w} /\ finished' = finished \cup {w}
  /\ UNCHANGED <<phase, service, disk, tag, nextWindow, history>>

ObserveEnd(w) ==
  /\ sink[w] \in Panes /\ w \notin live /\ w \notin ended
  /\ ended' = ended \cup {w}
  /\ UNCHANGED <<phase, tabs, session, sink, request, saver, recovery,
                 disk, tmux, history>>

\* A plain shell ends by itself.
ShellEnds(p) ==
  /\ session[p].kind = "pty"
  /\ session' = [session EXCEPT ![p].kind = "ptyEnded"]
  /\ UNCHANGED <<phase, tabs, sink, ended, request, saver, recovery,
                 disk, tmux, history>>

(***************************************************************************)
(* Requests.  A handler holds the state lock within a step and lets it go  *)
(* between steps: tmux commands and write_snapshot run outside it.         *)
(***************************************************************************)
Begin(h, op) ==
  /\ phase \in {"serving", "stopping"}
  /\ op \in Operations /\ request[h].step = "idle"

Answer(h) == request' = [request EXCEPT ![h] = Idle]

\* create_workspace_tab up to the spawned session: the limit is read first.
CreateSpawns(h, p) ==
  /\ Begin(h, "create") /\ p \notin used
  /\ Cardinality(tabs) < MaxTabs
  /\ used' = used \cup {p}
  /\ \E s \in {Attached(nextWindow), PlainShell} :
       /\ IF s.kind = "tmux" THEN NewWindow(p)
          ELSE UNCHANGED <<live, tag, nextWindow, sink>>
       /\ request' = [request EXCEPT ![h] =
            [Idle EXCEPT !.step = "commit", !.op = "create",
                         !.pane = p, !.new = s]]
  /\ UNCHANGED <<phase, tabs, session, ended, saver, recovery, disk,
                 finished, acked, closed>>

\* ... and under the lock: the limit is checked again, the tab is pushed.
CreateCommitsUnchecked(h) ==
  LET r == request[h] IN
  /\ r.step = "commit"
  /\ tabs' = tabs \cup {r.pane}
  /\ session' = [session EXCEPT ![r.pane] = r.new]
  /\ request' = [request EXCEPT ![h].step = "write",
                                ![h].bytes = encode_desired_state(tabs', session')]
  /\ UNCHANGED <<phase, sink, ended, saver, recovery, disk, tmux, history>>

CreateCommits(h) ==
  LET r == request[h] IN
  /\ r.step = "commit"
  /\ Cardinality(tabs) < MaxTabs
  /\ tabs' = tabs \cup {r.pane}
  /\ session' = [session EXCEPT ![r.pane] = r.new]
  /\ request' = [request EXCEPT ![h].step = "write",
                                ![h].bytes = encode_desired_state(tabs', session')]
  /\ UNCHANGED <<phase, sink, ended, saver, recovery, disk, tmux, history>>

CreateRefused(h) ==
  LET r == request[h] IN
  /\ r.step = "commit" /\ Cardinality(tabs) >= MaxTabs
  /\ \E killed \in BOOLEAN : Terminate(r.new, killed)
  /\ Answer(h)
  /\ UNCHANGED <<phase, tabs, session, saver, recovery, disk, tag, nextWindow,
                 finished, history>>

\* close_tab under the lock: the tab and its pane are gone, the session not yet.
CloseCommits(h, p) ==
  /\ Begin(h, "close") /\ p \in tabs
  /\ tabs' = tabs \ {p}
  /\ session' = [session EXCEPT ![p] = NoSession]
  /\ closed' = closed \cup {p}
  /\ request' = [request EXCEPT ![h] =
       [Idle EXCEPT !.step = "end", !.op = "close", !.pane = p,
                    !.old = session[p],
                    !.bytes = encode_desired_state(tabs', session')]]
  /\ UNCHANGED <<phase, sink, ended, saver, recovery, disk, tmux, used, acked>>

\* reorder_tab: the layout changes, the panes do not.
ReorderCommits(h) ==
  /\ Begin(h, "reorder") /\ tabs # {}
  /\ request' = [request EXCEPT ![h] =
       [Idle EXCEPT !.step = "write", !.op = "reorder",
                    !.bytes = encode_desired_state(tabs, session)]]
  /\ UNCHANGED <<phase, tabs, session, sink, ended, saver, recovery,
                 disk, tmux, history>>

\* reattach_pane reads the pane under the lock: only an ended one is taken.
ReattachBegins(h, p) ==
  /\ Begin(h, "reattach") /\ p \in tabs /\ HasEnded(session[p])
  /\ request' = [request EXCEPT ![h] =
       [Idle EXCEPT !.step = "lookup", !.op = "reattach", !.pane = p,
                    !.old = session[p]]]
  /\ UNCHANGED <<phase, tabs, session, sink, ended, saver, recovery,
                 disk, tmux, history>>

\* ... then, without the lock, finds its window, opens a new one or a new
\* shell, or fails.
ReattachFinds(h) ==
  LET r == request[h] IN
  /\ r.step = "lookup" /\ r.old.win # NoWindow
  /\ \E w \in find_window(r.pane, r.old.win) :
       /\ RegisterSink(w, r.pane)
       /\ IF CanAttach(w)
          THEN request' = [request EXCEPT ![h].step = "install",
                                          ![h].new = Attached(w)]
          ELSE Answer(h)
  /\ UNCHANGED <<phase, tabs, session, ended, saver, recovery, disk, tmux,
                 history>>

ReattachSpawns(h) ==
  LET r == request[h] IN
  /\ r.step = "lookup"
  /\ IF r.old.win = NoWindow
     THEN UNCHANGED <<live, tag, nextWindow, sink>>
     ELSE find_window(r.pane, r.old.win) = {} /\ NewWindow(r.pane)
  /\ request' = [request EXCEPT ![h].step = "install", ![h].new =
       IF r.old.win = NoWindow THEN PlainShell ELSE Attached(nextWindow)]
  /\ UNCHANGED <<phase, tabs, session, ended, saver, recovery, disk, finished,
                 history>>

ReattachFails(h) ==
  /\ request[h].step = "lookup"
  /\ Answer(h)
  /\ UNCHANGED <<phase, tabs, session, sink, ended, saver, recovery,
                 disk, tmux, history>>

\* install_reattached_session; a pane closed meanwhile drops the new session,
\* which only unregisters its sink.
ReattachInstalls(h) ==
  LET r == request[h] IN
  /\ r.step = "install" /\ r.pane \in tabs
  /\ session' = [session EXCEPT ![r.pane] = r.new]
  /\ request' = [request EXCEPT ![h].step = "end", ![h].old = session[r.pane],
                                ![h].bytes = encode_desired_state(tabs, session')]
  /\ UNCHANGED <<phase, tabs, sink, ended, saver, recovery, disk, tmux, history>>

ReattachDrops(h) ==
  LET r == request[h] IN
  /\ r.step = "install" /\ r.pane \notin tabs
  /\ sink' = [w \in Windows |-> IF w = r.new.win THEN Nobody ELSE sink[w]]
  /\ Answer(h)
  /\ UNCHANGED <<phase, tabs, session, ended, saver, recovery, disk, tmux,
                 history>>

\* close_tab and reattach_pane end the old session before they save.
EndsOldSession(h) ==
  LET r == request[h] IN
  /\ r.step = "end"
  /\ \E killed \in BOOLEAN : Terminate(r.old, killed)
  /\ request' = [request EXCEPT ![h].step = "write"]
  /\ UNCHANGED <<phase, tabs, session, saver, recovery, disk, tag, nextWindow,
                 finished, history>>

\* write_snapshot: whatever was encoded under the lock replaces the file now.
Writes(h) ==
  LET r == request[h] IN
  /\ r.step = "write"
  /\ disk' = r.bytes
  /\ Answer(h)
  /\ acked' = IF r.op = "create" THEN acked \cup {r.pane} ELSE acked
  /\ UNCHANGED <<phase, tabs, session, sink, ended, saver, recovery, tmux,
                 used, closed>>

\* A failed write: create ends its session again, though the tab stays.
WriteFails(h) ==
  LET r == request[h] IN
  /\ WritesMayFail /\ r.step = "write"
  /\ IF r.op = "create"
     THEN \E killed \in BOOLEAN : Terminate(r.new, killed)
     ELSE UNCHANGED <<live, sink, ended>>
  /\ Answer(h)
  /\ UNCHANGED <<phase, tabs, session, saver, recovery, disk, tag, nextWindow,
                 finished, history>>

(***************************************************************************)
(* The process: the 2 s persistence tick, an orderly stop, a crash.        *)
(***************************************************************************)
TickEncodesOnNewTab ==
  /\ phase = "serving" /\ ~saver.busy /\ ~(tabs \subseteq disk.tabs)
  /\ saver' = [busy |-> TRUE, bytes |-> encode_desired_state(tabs, session)]
  /\ UNCHANGED <<phase, tabs, session, sink, ended, request, recovery,
                 disk, tmux, history>>

TickEncodes ==
  /\ phase = "serving" /\ ~saver.busy
  /\ saver' = [busy |-> TRUE, bytes |-> encode_desired_state(tabs, session)]
  /\ UNCHANGED <<phase, tabs, session, sink, ended, request, recovery,
                 disk, tmux, history>>

TickWrites ==
  /\ saver.busy
  /\ disk' = saver.bytes
  /\ saver' = NotSaving
  /\ UNCHANGED <<phase, tabs, session, sink, ended, request, recovery,
                 tmux, history>>

TickFails ==
  /\ WritesMayFail /\ saver.busy
  /\ saver' = NotSaving
  /\ UNCHANGED <<phase, tabs, session, sink, ended, request, recovery,
                 disk, tmux, history>>

\* SIGTERM: persist_before_exit in the select loop, which runs no tick at the
\* same time.  Connections are served until main() returns, and requests that
\* run then are finished before the process ends.
Stops ==
  /\ phase = "serving" /\ ~saver.busy
  /\ phase' = "stopping"
  /\ saver' = [busy |-> TRUE, bytes |-> encode_desired_state(tabs, session)]
  /\ UNCHANGED <<tabs, session, sink, ended, request, recovery,
                 disk, tmux, history>>

\* The process ends, orderly or not: everything it kept in memory is gone.
ProcessGone ==
  /\ phase' = "down"
  /\ tabs' = {} /\ session' = [p \in Panes |-> NoSession]
  /\ sink' = [w \in Windows |-> Nobody] /\ ended' = {}
  /\ request' = [h \in Handlers |-> Idle]
  /\ saver' = NotSaving /\ recovery' = NoRecovery
  /\ UNCHANGED <<disk, tmux, history>>

Exits ==
  /\ phase = "stopping" /\ ~saver.busy
  /\ \A h \in Handlers : request[h] = Idle
  /\ ProcessGone

Crashes == phase # "down" /\ ProcessGone

\* A reboot, or the desktop's Restart Terminals: the tmux server ends, and the
\* next one hands out window ids from the start.
TmuxEnds ==
  /\ TmuxMayEnd /\ phase = "down"
  /\ live' = {} /\ tag' = [w \in Windows |-> Nobody]
  /\ nextWindow' = 1 /\ finished' = {}
  /\ UNCHANGED <<phase, service, disk, history>>

(***************************************************************************)
(* SessionRegistry::persistent: recovery from sessions.json                *)
(***************************************************************************)
LoadsSnapshot ==
  /\ phase = "down"
  /\ phase' = "recovering"
  /\ \E managed \in BOOLEAN :       \* whether a usable tmux was discovered
       recovery' = [todo |-> disk.tabs, loaded |-> disk, alive |-> live,
                    keep |-> {disk.win[p] : p \in disk.tabs} \ {NoWindow},
                    managed |-> managed, connected |-> FALSE]
  /\ tabs' = disk.tabs
  /\ UNCHANGED <<session, sink, ended, request, saver, disk, tmux, history>>

Recovered(p, s, connected) ==
  /\ session' = [session EXCEPT ![p] = s]
  /\ recovery' = [recovery EXCEPT !.todo = @ \ {p},
                                  !.keep = @ \cup ({s.win} \ {NoWindow}),
                                  !.connected = connected]
  /\ UNCHANGED <<phase, tabs, ended, request, saver, disk, finished, history>>

Recovers(p) == phase = "recovering" /\ p \in recovery.todo
Saved(p)    == recovery.loaded.win[p]

\* What is left of a pane no tmux connection could bring back.
Fallback(p) == IF Saved(p) = NoWindow THEN PlainShell ELSE Unattached(Saved(p))

\* LocalPaneRecovery::attach found the pane's window.
RecoversWindow(p) ==
  /\ Recovers(p) /\ recovery.managed
  /\ \E w \in find_window(p, Saved(p)) :
       /\ RegisterSink(w, p)
       /\ Recovered(p, IF CanAttach(w) THEN Attached(w) ELSE Fallback(p), TRUE)
  /\ UNCHANGED <<live, tag, nextWindow>>

\* No window is left: a new one, or a plain shell when that fails.
RecoversFresh(p) ==
  /\ Recovers(p) /\ recovery.managed /\ find_window(p, Saved(p)) = {}
  /\ \/ NewWindow(p) /\ Recovered(p, Attached(nextWindow), TRUE)
     \/ Recovered(p, PlainShell, TRUE) /\ UNCHANGED <<live, tag, nextWindow, sink>>

\* Both attempts failed on the tmux connection.
RecoversUnattached(p) ==
  /\ Recovers(p) /\ recovery.managed
  /\ \E connected \in BOOLEAN : Recovered(p, Fallback(p), connected)
  /\ UNCHANGED <<live, tag, nextWindow, sink>>

RecoversWithoutTmux(p) ==
  /\ Recovers(p) /\ ~recovery.managed
  /\ Recovered(p, PlainShell, FALSE)
  /\ UNCHANGED <<live, tag, nextWindow, sink>>

\* sweep_closed_tab_windows; any of the kills may fail.
SweptUntagged == {w \in live : w \notin recovery.keep}

Swept == {w \in live : w \notin recovery.keep /\ tag[w] \notin tabs}

Sweeps ==
  /\ phase = "recovering" /\ recovery.todo = {}
  /\ phase' = "saving"
  /\ \E dead \in SUBSET (IF recovery.connected THEN Swept ELSE {}) :
       live' = live \ dead
  /\ UNCHANGED <<service, disk, tag, nextWindow, finished, history>>

\* The first persist; only then does the service accept connections.
RecoverySaves ==
  /\ phase = "saving"
  /\ phase' = "serving"
  /\ disk' = encode_desired_state(tabs, session)
  /\ recovery' = NoRecovery
  /\ UNCHANGED <<tabs, session, sink, ended, request, saver, tmux, history>>

HandlerStep(h) ==
  \/ CreateCommits(h) \/ CreateRefused(h)
  \/ ReattachFinds(h) \/ ReattachSpawns(h) \/ ReattachFails(h)
  \/ ReattachInstalls(h) \/ ReattachDrops(h)
  \/ EndsOldSession(h) \/ Writes(h) \/ WriteFails(h)

RecoveryStep ==
  \/ LoadsSnapshot
  \/ \E p \in Panes : \/ RecoversWindow(p) \/ RecoversFresh(p)
                      \/ RecoversUnattached(p) \/ RecoversWithoutTmux(p)
  \/ Sweeps \/ RecoverySaves

Next ==
  \/ \E h \in Handlers, p \in Panes :
       CreateSpawns(h, p) \/ CloseCommits(h, p) \/ ReattachBegins(h, p)
  \/ \E h \in Handlers : ReorderCommits(h) \/ HandlerStep(h)
  \/ \E w \in Windows : ProgramEnds(w) \/ ObserveEnd(w)
  \/ \E p \in Panes : ShellEnds(p)
  \/ TickEncodes \/ TickWrites \/ TickFails
  \/ Stops \/ Exits \/ Crashes \/ TmuxEnds
  \/ RecoveryStep

Spec == Init /\ [][Next]_vars

\* The tick runs every 2 s and its write goes through as long as the process
\* does: main() awaits one before it starts the next.
FairSpec == Spec /\ WF_vars(TickEncodes) /\ WF_vars(TickWrites)

-----------------------------------------------------------------------------
(***************************************************************************)
(* Properties                                                              *)
(***************************************************************************)
TypeOK ==
  /\ phase \in {"down", "recovering", "saving", "serving", "stopping"}
  /\ tabs \subseteq Panes
  /\ session \in [Panes -> Session]
  /\ sink \in [Windows -> Panes \cup {Nobody, Discarded}]
  /\ ended \subseteq Windows
  /\ request \in [Handlers -> Request]
  /\ saver \in [busy : BOOLEAN, bytes : Layout]
  /\ recovery \in Recovery
  /\ disk \in Layout
  /\ live \subseteq Windows
  /\ tag \in [Windows -> Panes \cup {Nobody}]
  /\ nextWindow \in 1 .. MaxWindows + 1
  /\ used \subseteq Panes /\ finished \subseteq Windows
  /\ acked \subseteq Panes /\ closed \subseteq Panes

\* A session never shows the program of another tab: the window a pane is
\* attached to is one that was opened for that pane.  Saved ids are read back
\* from snapshots that may be older than the layout (find_window).
OwnWindow(p) ==
  session[p].kind = "tmux" => tag[session[p].win] = p

EveryPaneOwnsItsWindow == \A p \in Panes : OwnWindow(p)

\* No window is behind two panes, neither in memory nor in the layout that
\* the next recovery will read.
NoSharedWindow ==
  \A p, q \in Panes :
    p # q => /\ session[p].win # NoWindow => session[p].win # session[q].win
             /\ disk.win[p] # NoWindow => disk.win[p] # disk.win[q]

\* The same of every layout that is saved, loaded or about to be written, and
\* of the sessions a request holds outside the lock: whichever of them lands
\* last, it names for a pane only a window that was opened for it.
Owned(w, p) == w # NoWindow => tag[w] = p

LayoutOwned(L) == \A p \in Panes : Owned(L.win[p], p)

RequestOwned(r) ==
  /\ LayoutOwned(r.bytes)
  /\ r.pane \in Panes => Owned(r.new.win, r.pane) /\ Owned(r.old.win, r.pane)
  /\ r.step \in {"commit", "lookup", "install", "end"} \/ r.op = "create"
       => r.pane \in Panes

Ownership ==
  /\ \A w \in Windows : w >= nextWindow => tag[w] = Nobody
  /\ \A p \in Panes : Owned(session[p].win, p)
  /\ LayoutOwned(disk) /\ LayoutOwned(saver.bytes) /\ LayoutOwned(recovery.loaded)
  /\ \A h \in Handlers : RequestOwned(request[h])

\* MAX_TABS_PER_WORKSPACE holds whatever number of creations passed the first
\* check of create_workspace_tab before one of them was committed.
TabLimit == Cardinality(tabs) <= MaxTabs

\* Recovery never kills or covers a saved window (docs/session-recovery.md):
\* once it has swept, a program that was running at startup and that the
\* loaded layout can name, by id or by tag, is still running; and a saved
\* window is still the one behind its pane.
RecoveryKeepsPrograms ==
  phase = "saving" =>
    LET kept(p) == {w \in recovery.alive :
                      w = recovery.loaded.win[p] \/ tag[w] = p} IN
    \A p \in recovery.loaded.tabs :
      /\ kept(p) \subseteq live \cup finished
      /\ recovery.managed /\ recovery.loaded.win[p] \in recovery.alive \ finished
           => session[p].win = recovery.loaded.win[p]

\* Only closing its tab ends a terminal's program (recovery.rs): a window of
\* an acknowledged tab that is gone ended by itself or was closed.
OnlyClosingEndsPrograms ==
  \A w \in Windows :
    tag[w] \in acked /\ w \notin live \cup finished => tag[w] \in closed

\* When the service goes quiet, sessions.json becomes what memory holds and
\* stays it, whatever order the writes before landed in: a stale file does
\* not outlive the next tick.
Quiet == phase = "serving" /\ \A h \in Handlers : request[h] = Idle

SnapshotCatchesUp ==
  <>[]Quiet => <>[](disk = encode_desired_state(tabs, session))
=============================================================================
