-------------------------- MODULE MCSavedSessions --------------------------
(* Instances of SavedSessions for TLC. *)
EXTENDS SavedSessions, TLC

CONSTANTS p1, p2, h1, h2

PaneSymmetry == Permutations(Panes) \cup Permutations(Handlers)

\* Every action that one request at a time can reach while the tmux server
\* lives: no create meets a full workstation when there are as many tabs as
\* panes, and no pane is closed under its own reattach.  Those two and
\* TmuxEnds happen in MCPersistence.
OneRequestNext ==
  \/ \E h \in Handlers, p \in Panes :
       CreateSpawns(h, p) \/ CloseCommits(h, p) \/ ReattachBegins(h, p)
  \/ \E h \in Handlers :
       \/ ReorderCommits(h) \/ CreateCommits(h)
       \/ ReattachFinds(h) \/ ReattachSpawns(h) \/ ReattachFails(h)
       \/ ReattachInstalls(h) \/ EndsOldSession(h) \/ Writes(h) \/ WriteFails(h)
  \/ \E w \in Windows : ProgramEnds(w) \/ ObserveEnd(w)
  \/ \E p \in Panes : ShellEnds(p)
  \/ TickEncodes \/ TickWrites \/ TickFails
  \/ Stops \/ Exits \/ Crashes
  \/ RecoveryStep

OneRequestSpec == Init /\ [][OneRequestNext]_vars
=============================================================================
