----------------------------- MODULE BotThreads -----------------------------
(***************************************************************************)
(* The thread terminals of one bot (session-service/src/registry/bots.rs,  *)
(* bot_threads.rs, panes.rs): every tab of the bot holds one pane, every   *)
(* pane one shell, and the bot's agent is typed into the shell with an     *)
(* exit hook that names its launch.  Opening, closing, restarting and      *)
(* renewing a thread start and end shells outside the state lock.          *)
(*                                                                         *)
(* A step is one stretch under the lock, or one call on a shell.  A launch *)
(* is identified by the shell it was typed into: start_bot_agent is called *)
(* once for a shell.  Conversations, pins and names are left out; what is  *)
(* saved, and shells that end by themselves, are left to SavedSessions,    *)
(* except that saving may fail and take a change back.                     *)
(***************************************************************************)
EXTENDS Integers, FiniteSets, Sequences

CONSTANTS
  Panes,      \* pane ids, never used twice
  Threads,    \* the service's handlers and its background renew threads
  MaxShells,  \* bound: shells ever started
  MaxLive,    \* MAX_LIVE_THREADS
  Nobody

NoShell == 0
Shells == 1 .. MaxShells

VARIABLES
  tabs,      \* the panes of the bot's tabs
  shell,     \* RegistryState::panes: the shell behind each pane
  mark,      \* panes whose runtime says PANE_RESTARTING
  spec,      \* the bot's BotSpec: thread_panes and when each was activated
  running,   \* shells that have not ended
  home,      \* the pane each shell was started for
  agent,     \* shells whose agent runs and will report its exit
  reports,   \* exit hooks on their way
  nextShell,
  job,       \* what each thread is in the middle of
  shared,    \* history: panes that a restart and another job worked on at
             \* once, or whose entry an older BotSpec replaced
  unkilled   \* history: shells a job could not end or replace

shells == <<running, home, agent, reports, nextShell>>
vars == <<tabs, shell, mark, spec, shells, job, shared, unkilled>>

(***************************************************************************)
(* A bot's threads                                                         *)
(***************************************************************************)
\* thread_panes: the launch recorded for a pane, NoShell for none, and -1 for
\* a pane without an entry; `order` lists the entries by activated_ms.
NoEntry == -1
Spec0 == [launch |-> [p \in Panes |-> NoEntry], order |-> << >>]

Without(p, seq) == SelectSeq(seq, LAMBDA q : q # p)

Activated(sp, p) == [sp EXCEPT !.order = Append(Without(p, @), p)]

\* entry(p).or_default(): a new entry counts as activated before all others.
WithEntry(sp, p) ==
  IF sp.launch[p] # NoEntry THEN sp
  ELSE [launch |-> [sp.launch EXCEPT ![p] = NoShell], order |-> <<p>> \o sp.order]

Recorded(sp, p, l) == [WithEntry(sp, p) EXCEPT !.launch[p] = l]

\* forget_bot_launch.
Forgotten(sp, p) ==
  IF sp.launch[p] = NoEntry THEN sp ELSE [sp EXCEPT !.launch[p] = NoShell]

\* prune_bot_threads.
Pruned(sp, T) ==
  [launch |-> [p \in Panes |-> IF p \in T THEN sp.launch[p] ELSE NoEntry],
   order  |-> SelectSeq(sp.order, LAMBDA q : q \in T)]

Rank(sp, p) ==
  IF \E i \in DOMAIN sp.order : sp.order[i] = p
  THEN CHOOSE i \in DOMAIN sp.order : sp.order[i] = p
  ELSE 0

\* bot_target's active pane: the one activated last.
Active(sp, T) == {p \in T : \A q \in T : Rank(sp, q) <= Rank(sp, p)}

\* select_evictions, when the panes of `busy` work or wait for the user.
Evictions(sp, T, active, busy) ==
  LET idle   == T \ ({active} \cup busy)
      excess == Cardinality(T) - MaxLive
      closed == IF excess < Cardinality(idle) THEN excess ELSE Cardinality(idle)
  IN IF excess <= 0 THEN {{}}
     ELSE {E \in SUBSET idle :
             /\ Cardinality(E) = closed
             /\ \A p \in E, q \in idle \ E : Rank(sp, p) <= Rank(sp, q)}

(***************************************************************************)
(* Jobs                                                                    *)
(***************************************************************************)
Idle == [op |-> "none", step |-> "idle", pane |-> Nobody, old |-> NoShell,
         new |-> NoShell, todo |-> {}, spec |-> Spec0]

Goes(t, j) == job' = [job EXCEPT ![t] = j]
Ends(t) == Goes(t, Idle)
Is(t, step) == job[t].step = step
Begins(t) == Is(t, "idle")

Init ==
  /\ tabs = {} /\ shell = [p \in Panes |-> NoShell] /\ mark = {}
  /\ spec = Spec0
  /\ running = {} /\ home = [s \in Shells |-> Nobody]
  /\ agent = {} /\ reports = {} /\ nextShell = 1
  /\ job = [t \in Threads |-> Idle]
  /\ shared = {} /\ unkilled = {}

\* spawn_local_transport.
Spawns(p) ==
  /\ nextShell \in Shells
  /\ running' = running \cup {nextShell}
  /\ home' = [home EXCEPT ![nextShell] = p]
  /\ nextShell' = nextShell + 1
  /\ UNCHANGED <<agent, reports>>

\* PtySession::terminate_and_wait; the agent goes with its shell.
Kills(s) ==
  /\ running' = running \ {s} /\ agent' = agent \ {s}
  /\ UNCHANGED <<home, reports, nextShell, unkilled>>

KillFails(s) ==
  /\ unkilled' = unkilled \cup ({s} \cap running)
  /\ UNCHANGED shells

\* A second job takes a pane while one of the two starts a shell for it.
Starting(u) == job[u].step \in {"mark", "kill", "spawn", "install", "record"}
Closing(u)  == job[u].step \in {"closeKill", "remove"}

Shares(t, p, starts) ==
  shared' = IF \E u \in Threads \ {t} :
                 job[u].pane = p /\ (Starting(u) \/ (starts /\ Closing(u)))
            THEN shared \cup {p} ELSE shared

(***************************************************************************)
(* add_bot_thread_tab                                                      *)
(***************************************************************************)
\* Up to the spawned shell; restart_bot opens a thread when there is none.
OpenSpawns(t, p) ==
  /\ Begins(t) /\ \A s \in Shells : home[s] # p
  /\ Spawns(p)
  /\ Goes(t, [Idle EXCEPT !.op = "open", !.step = "commit", !.pane = p,
                          !.new = nextShell])
  /\ UNCHANGED <<tabs, shell, mark, spec, shared, unkilled>>

OpenCommits(t) ==
  LET j == job[t] IN
  /\ Is(t, "commit")
  /\ tabs' = tabs \cup {j.pane}
  /\ shell' = [shell EXCEPT ![j.pane] = j.new]
  /\ spec' = Activated(Recorded(spec, j.pane, NoShell), j.pane)
  /\ Goes(t, [j EXCEPT !.step = "record"])
  /\ UNCHANGED <<mark, shells, shared, unkilled>>

\* Without an end to the shell that found no place.
OpenRefusedLeaks(t) ==
  /\ Is(t, "commit")
  /\ Ends(t)
  /\ UNCHANGED <<tabs, shell, mark, spec, shells, shared, unkilled>>

\* A limit is reached, or commit_or_restore takes the tab back.
OpenRefused(t) ==
  /\ Is(t, "commit")
  /\ Goes(t, [job[t] EXCEPT !.step = "discard"])
  /\ UNCHANGED <<tabs, shell, mark, spec, shells, shared, unkilled>>

\* The shell that found no place is ended; a failure is ignored.
Discards(t) ==
  /\ Is(t, "discard")
  /\ Kills(job[t].new) \/ KillFails(job[t].new)
  /\ Ends(t)
  /\ UNCHANGED <<tabs, shell, mark, spec, shared>>

\* start_bot_agent: record_bot_launch, and the command is typed, without its
\* hook when the launch could not be recorded or saved.
StartsAgent(t) ==
  LET j == job[t] IN
  /\ Is(t, "record")
  /\ IF j.pane \in tabs
     THEN /\ spec' = Recorded(spec, j.pane, j.new)
          /\ agent' \in {agent, agent \cup ({j.new} \cap running)}
     ELSE UNCHANGED <<spec, agent>>
  /\ IF j.op = "open" THEN Goes(t, [j EXCEPT !.step = "evict"])
     ELSE \/ Goes(t, IF j.todo = {} THEN Idle
                     ELSE [j EXCEPT !.step = "forget", !.new = NoShell, !.old = NoShell,
                                    !.pane = Nobody])
          \/ Ends(t)                \* relaunch_bot's last write failed
  /\ UNCHANGED <<tabs, shell, mark, running, home, reports, nextShell,
                 shared, unkilled>>

\* evictable_bot_panes, read once; the panes are closed one after another.
Evicts(t) ==
  /\ Is(t, "evict")
  /\ \E active \in Active(spec, tabs) \cup {Nobody}, busy \in SUBSET tabs :
       /\ active = Nobody <=> tabs = {}
       /\ \E E \in Evictions(spec, tabs, active, busy) :
            Goes(t, IF E = {} THEN Idle
                    ELSE [Idle EXCEPT !.op = "evict", !.step = "close", !.todo = E])
  /\ UNCHANGED <<tabs, shell, mark, spec, shells, shared, unkilled>>

\* open_bot_thread of a thread that is live: activate_bot_pane.
ActivateBotPane(t, p) ==
  /\ Begins(t) /\ p \in tabs
  /\ spec' = Activated(WithEntry(spec, p), p)
  /\ UNCHANGED <<tabs, shell, mark, shells, job, shared, unkilled>>

(***************************************************************************)
(* close_pane, by itself, for an eviction, a deleted thread or a new agent *)
(***************************************************************************)
\* The next pane of a job that closes several; set_bot_agent goes on.
AfterClosing(j, todo) ==
  IF todo # {} THEN [j EXCEPT !.step = "close", !.todo = todo, !.pane = Nobody,
                              !.old = NoShell]
  ELSE IF j.op = "agent" THEN [Idle EXCEPT !.op = "agent", !.step = "reread"]
  ELSE Idle

\* A pane that cannot be closed ends the job, except an eviction.
ClosingFails(t) ==
  LET j == job[t] IN
  Goes(t, IF j.op = "evict" THEN AfterClosing(j, j.todo \ {j.pane}) ELSE Idle)

\* close_pane, or delete_bot_thread of a conversation that S show.
CloseBegins(t, S) ==
  /\ Begins(t) /\ S # {} /\ S \subseteq tabs
  /\ Goes(t, [Idle EXCEPT !.op = "close", !.step = "close", !.todo = S])
  /\ UNCHANGED <<tabs, shell, mark, spec, shells, shared, unkilled>>

\* Under the lock: forget the launch and remember the shell.
CloseForgets(t, p) ==
  LET j == job[t] IN
  /\ Is(t, "close") /\ p \in j.todo /\ p \in tabs
  /\ spec' = Forgotten(spec, p)
  /\ Goes(t, [j EXCEPT !.step = "closeKill", !.pane = p, !.old = shell[p]])
  /\ Shares(t, p, FALSE)
  /\ UNCHANGED <<tabs, shell, mark, shells, unkilled>>

CloseFindsNone(t, p) ==
  LET j == job[t] IN
  /\ Is(t, "close") /\ p \in j.todo /\ p \notin tabs
  /\ Goes(t, IF j.op = "evict" THEN AfterClosing(j, j.todo \ {p}) ELSE Idle)
  /\ UNCHANGED <<tabs, shell, mark, spec, shells, shared, unkilled>>

CloseKills(t) ==
  /\ Is(t, "closeKill")
  /\ Kills(job[t].old)
  /\ Goes(t, [job[t] EXCEPT !.step = "remove"])
  /\ UNCHANGED <<tabs, shell, mark, spec, shared>>

\* Saving the "terminating" label, or ending the shell, fails.
CloseKillFails(t) ==
  /\ Is(t, "closeKill")
  /\ KillFails(job[t].old)
  /\ ClosingFails(t)
  /\ UNCHANGED <<tabs, shell, mark, spec, shared>>

\* Under the lock again: whatever is behind the pane by now goes with it.
CloseRemoves(t) ==
  LET j == job[t] IN
  /\ Is(t, "remove") /\ j.pane \in tabs
  /\ tabs' = tabs \ {j.pane}
  /\ shell' = [shell EXCEPT ![j.pane] = NoShell]
  /\ mark' = mark \ {j.pane}
  /\ spec' = Pruned(spec, tabs')
  /\ Goes(t, AfterClosing(j, j.todo \ {j.pane}))
  /\ UNCHANGED <<shells, shared, unkilled>>

CloseIsLate(t) ==
  /\ Is(t, "remove") /\ job[t].pane \notin tabs
  /\ ClosingFails(t)
  /\ UNCHANGED <<tabs, shell, mark, spec, shells, shared, unkilled>>

(***************************************************************************)
(* relaunch_bot, for each pane of `todo`                                   *)
(***************************************************************************)
\* restart_bot: the active pane.
RestartBegins(t, p) ==
  /\ Begins(t) /\ p \in Active(spec, tabs)
  /\ Goes(t, [Idle EXCEPT !.op = "restart", !.step = "forget", !.todo = {p}])
  /\ UNCHANGED <<tabs, shell, mark, spec, shells, shared, unkilled>>

RelaunchForgets(t, p) ==
  /\ Is(t, "forget") /\ p \in job[t].todo
  /\ spec' = IF p \in tabs THEN Forgotten(spec, p) ELSE spec
  /\ Goes(t, [job[t] EXCEPT !.step = "mark", !.pane = p, !.todo = @ \ {p}])
  /\ Shares(t, p, TRUE)
  /\ UNCHANGED <<tabs, shell, mark, shells, unkilled>>

RelaunchMarks(t) ==
  LET j == job[t] IN
  /\ Is(t, "mark")
  /\ IF j.pane \in tabs
     THEN /\ mark' = mark \cup {j.pane}
          /\ Goes(t, [j EXCEPT !.step = "kill", !.old = shell[j.pane]])
     ELSE Ends(t) /\ UNCHANGED mark
  /\ UNCHANGED <<tabs, shell, spec, shells, shared, unkilled>>

RelaunchKills(t) ==
  /\ Is(t, "kill")
  /\ Kills(job[t].old)
  /\ Goes(t, [job[t] EXCEPT !.step = "spawn"])
  /\ UNCHANGED <<tabs, shell, mark, spec, shared>>

RelaunchSpawns(t) ==
  /\ Is(t, "spawn")
  /\ Spawns(job[t].pane)
  /\ Goes(t, [job[t] EXCEPT !.step = "install", !.new = nextShell])
  /\ UNCHANGED <<tabs, shell, mark, spec, shared, unkilled>>

\* The old shell cannot be ended, or no new one started: abandon_restart.
ReplaceFails(t) ==
  \/ Is(t, "kill") /\ KillFails(job[t].old)
  \/ Is(t, "spawn") /\ UNCHANGED <<shells, unkilled>>

RelaunchFailsMarked(t) ==
  /\ ReplaceFails(t) /\ Ends(t)
  /\ UNCHANGED <<tabs, shell, mark, spec, shared>>

RelaunchFails(t) ==
  /\ ReplaceFails(t) /\ Ends(t)
  /\ mark' = mark \ {job[t].pane}
  /\ UNCHANGED <<tabs, shell, spec, shared>>

RelaunchInstalls(t) ==
  LET j == job[t] IN
  /\ Is(t, "install") /\ j.pane \in tabs
  /\ shell' = [shell EXCEPT ![j.pane] = j.new]
  /\ mark' = mark \ {j.pane}
  /\ Goes(t, [j EXCEPT !.step = "record"])
  /\ UNCHANGED <<tabs, spec, shells, shared, unkilled>>

\* "bot changed while restarting".
RelaunchRefused(t) ==
  /\ Is(t, "install") /\ job[t].pane \notin tabs
  /\ mark' = mark \ {job[t].pane}
  /\ Goes(t, [job[t] EXCEPT !.step = "discard"])
  /\ UNCHANGED <<tabs, shell, spec, shells, shared, unkilled>>

(***************************************************************************)
(* set_bot_home and set_bot_agent write back a BotSpec they have read      *)
(* before: what changed meanwhile is lost                                  *)
(***************************************************************************)
HomeBegins(t) ==
  /\ Begins(t) /\ tabs # {}
  /\ Goes(t, [Idle EXCEPT !.op = "home", !.step = "respec", !.todo = tabs, !.spec = spec])
  /\ UNCHANGED <<tabs, shell, mark, spec, shells, shared, unkilled>>

\* The bot's other panes are closed first.
AgentBegins(t, p) ==
  /\ Begins(t) /\ p \in Active(spec, tabs)
  /\ Goes(t, AfterClosing([Idle EXCEPT !.op = "agent"], tabs \ {p}))
  /\ UNCHANGED <<tabs, shell, mark, spec, shells, shared, unkilled>>

AgentRereads(t) ==
  /\ Is(t, "reread")
  /\ IF tabs = {}
     THEN Goes(t, [job[t] EXCEPT !.step = "respec"])
     ELSE \E p \in Active(spec, tabs) :
            Goes(t, [job[t] EXCEPT !.step = "respec", !.todo = {p},
                                   !.spec = Activated(Recorded(Spec0, p, NoShell), p)])
  /\ UNCHANGED <<tabs, shell, mark, spec, shells, shared, unkilled>>

\* set_bot_agent misses its pane only after it has replaced the BotSpec.
WritesSpec(t) ==
  LET j == job[t] IN
  /\ Is(t, "respec")
  /\ spec' = j.spec
  /\ shared' = shared \cup {p \in tabs : /\ spec.launch[p] # j.spec.launch[p]
                                        /\ ~(j.op = "agent" /\ p \in j.todo)}
  /\ Goes(t, IF j.todo = {} \/ (j.op = "agent" /\ ~(j.todo \subseteq tabs)) THEN Idle
             ELSE [j EXCEPT !.step = "forget", !.spec = Spec0])
  /\ UNCHANGED <<tabs, shell, mark, shells, unkilled>>

WritesSpecFails(t) ==
  /\ Is(t, "respec")
  /\ Ends(t)
  /\ UNCHANGED <<tabs, shell, mark, spec, shells, shared, unkilled>>

(***************************************************************************)
(* The agent and its exit hook                                             *)
(***************************************************************************)
\* A pane's agent names its conversation: report_bot_session.
ReportBotSession(p) ==
  /\ p \in tabs /\ shell[p] \in agent
  /\ spec' = WithEntry(spec, p)
  /\ UNCHANGED <<tabs, shell, mark, shells, job, shared, unkilled>>

AgentExits(s) ==
  /\ s \in agent
  /\ agent' = agent \ {s} /\ reports' = reports \cup {s}
  /\ UNCHANGED <<tabs, shell, mark, spec, running, home, nextShell, job,
                 shared, unkilled>>

\* bot_agent_exited: the recorded launch is taken; a clean exit after a while
\* starts a renew thread.
BotAgentExited(s) ==
  LET p == home[s] IN
  /\ s \in reports
  /\ reports' = reports \ {s}
  /\ IF p \in tabs /\ spec.launch[p] = s
     THEN /\ spec' = Forgotten(spec, p)
          /\ \/ UNCHANGED job
             \/ \E t \in Threads :
                  Is(t, "idle") /\ Goes(t, [Idle EXCEPT !.op = "renew", !.step = "renew",
                                                        !.todo = {p}])
     ELSE UNCHANGED <<spec, job>>
  /\ UNCHANGED <<tabs, shell, mark, running, home, agent, nextShell,
                 shared, unkilled>>

\* renew_bot_thread: the conversation is dropped, then the pane relaunched.
RenewBegins(t) ==
  LET j == job[t] IN
  /\ Is(t, "renew")
  /\ \/ j.todo \subseteq tabs /\ Goes(t, [j EXCEPT !.step = "forget"])
     \/ Ends(t)
  /\ UNCHANGED <<tabs, shell, mark, spec, shells, shared, unkilled>>

Next ==
  \/ \E t \in Threads, p \in Panes :
       \/ OpenSpawns(t, p) \/ ActivateBotPane(t, p)
       \/ CloseForgets(t, p) \/ CloseFindsNone(t, p)
       \/ RestartBegins(t, p) \/ RelaunchForgets(t, p) \/ AgentBegins(t, p)
  \/ \E t \in Threads, S \in SUBSET Panes : CloseBegins(t, S)
  \/ \E t \in Threads :
       \/ OpenCommits(t) \/ OpenRefused(t) \/ Discards(t) \/ StartsAgent(t) \/ Evicts(t)
       \/ CloseKills(t) \/ CloseKillFails(t) \/ CloseRemoves(t) \/ CloseIsLate(t)
       \/ RelaunchMarks(t) \/ RelaunchKills(t) \/ RelaunchSpawns(t) \/ RelaunchFails(t)
       \/ RelaunchInstalls(t) \/ RelaunchRefused(t)
       \/ HomeBegins(t) \/ AgentRereads(t) \/ WritesSpec(t) \/ WritesSpecFails(t)
       \/ RenewBegins(t)
  \/ \E p \in Panes : ReportBotSession(p)
  \/ \E s \in Shells : AgentExits(s) \/ BotAgentExited(s)

Spec == Init /\ [][Next]_vars

-----------------------------------------------------------------------------
\* A tab has a terminal exactly as long as it is there, and no shell runs
\* that no pane shows and no job is about to show or to end: the exceptions
\* are a pane that a restart and another job worked on at once, and a shell
\* that could not be ended.
HeldBy(t, s) ==
  \/ job[t].new = s /\ job[t].step \in {"commit", "install", "discard"}
  \/ job[t].old = s /\ job[t].step \in {"kill", "closeKill"}

ShellsAreShown ==
  /\ \A p \in Panes : p \in tabs <=> shell[p] # NoShell
  /\ \A s \in running :
       \/ shell[home[s]] = s
       \/ home[s] \in shared
       \/ s \in unkilled
       \/ \E t \in Threads : HeldBy(t, s)

\* A pane knows what is going on in it, unless a restart of it met another
\* job.  It says "restarting" exactly while its old shell is being replaced,
\* so that the refresh neither reports that shell's end as the program's nor
\* keeps quiet about a later one (relaunch_bot, abandon_restart).  And it
\* remembers the launch of the agent it shows and of no other: the old hook
\* cannot fire into the new shell, and the exit of an agent that nobody is
\* about to close or to replace is heard (bot_agent_exited).
MarkMeansRestart(p) ==
  p \in mark <=> \E t \in Threads :
                   job[t].pane = p /\ job[t].step \in {"kill", "spawn", "install"}

LaunchIsShown(p) ==
  /\ spec.launch[p] \in Shells => spec.launch[p] = shell[p]
  /\ shell[p] \in agent \ unkilled =>
       \/ spec.launch[p] = shell[p]
       \/ \E t \in Threads : job[t].pane = p \/ p \in job[t].todo

PanesKnowTheirAgents ==
  \A p \in tabs \ shared : MarkMeansRestart(p) /\ LaunchIsShown(p)
=============================================================================
