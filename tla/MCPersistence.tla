---------------------------- MODULE MCPersistence ---------------------------
(***************************************************************************)
(* The two things the service keeps on disk while requests, the tick and   *)
(* crashes race, side by side in one run: a behaviour follows the          *)
(* notifications (NotificationRing) or the layout of the tabs              *)
(* (SavedSessions).  `kept` says which; the variables of the other one     *)
(* keep their initial values.                                              *)
(***************************************************************************)
EXTENDS NotificationRing

CONSTANTS p1, p2, h1, h2, Nobody, Discarded

ASSUME NobodyAssumption == Nobody \notin {p1, p2} /\ Discarded \notin {p1, p2, Nobody}

VARIABLES
  kept,
  phase, tabs, session, sink, ended, request, saver, recovery, layout, live, tag,
  nextWindow, used, finished, created, closed

\* Two handlers create tabs, one also reattaches and the other closes, with one
\* tab allowed and a tmux server that hands out one window and may end.
Layout == INSTANCE SavedSessionsProofs
  WITH Panes <- {p1, p2}, Handlers <- {h1, h2}, MaxWindows <- 1, MaxTabs <- 1,
       Operations <- {"create", "close", "reattach"}, TmuxMayEnd <- TRUE,
       WritesMayFail <- FALSE, disk <- layout, acked <- created

savedVars == <<phase, tabs, session, sink, ended, request, saver, recovery, layout, live,
               tag, nextWindow, used, finished, created, closed>>
allVars == <<kept, vars, savedVars>>

InRing(A)   == kept = "notifications" /\ A /\ UNCHANGED <<kept, savedVars>>
InLayout(A) == kept = "layout" /\ A /\ UNCHANGED <<kept, vars>>

MCInit ==
  /\ kept \in {"notifications", "layout"} /\ Init /\ Layout!Init
  /\ kept = "layout" => ring = <<>>

\* Bound: the service crashes only while all notifications are of one instant.
MCNext ==
  \/ \E p \in Panes, kind \in Kinds, at \in Instants :
       (at = 1 \/ epoch = 1) /\ InRing(append_notification(p, kind, at))
  \/ (\A n \in ToSet(ring) : n.at = 1) /\ InRing(Crashes)
  \/ InRing(Flush) \/ InRing(Handler) \/ InRing(User)
  \/ InRing(AnswerApplied)
  \/ \E k \in Pollers : InRing(Poll(k))
  \/ \E p \in {p1, p2} :
       \/ InLayout(Layout!CreateSpawns(h1, p)) \/ InLayout(Layout!CreateSpawns(h2, p))
       \/ InLayout(Layout!ReattachBegins(h1, p)) \/ InLayout(Layout!CloseCommits(h2, p))
  \/ \E h \in {h1, h2} :
       \/ InLayout(Layout!CreateCommits(h)) \/ InLayout(Layout!CreateRefused(h))
       \/ InLayout(Layout!ReattachFinds(h)) \/ InLayout(Layout!ReattachSpawns(h))
       \/ InLayout(Layout!ReattachFails(h)) \/ InLayout(Layout!ReattachInstalls(h))
       \/ InLayout(Layout!ReattachDrops(h)) \/ InLayout(Layout!EndsOldSession(h))
       \/ InLayout(Layout!Writes(h))
  \/ InLayout(Layout!ProgramEnds(1)) \/ InLayout(Layout!ObserveEnd(1))
  \/ \E p \in {p1, p2} : InLayout(Layout!ShellEnds(p))
  \/ InLayout(Layout!TickEncodes) \/ InLayout(Layout!TickWrites)
  \/ InLayout(Layout!Stops) \/ InLayout(Layout!Exits) \/ InLayout(Layout!Crashes)
  \/ InLayout(Layout!TmuxEnds) \/ InLayout(Layout!RecoveryStep)

\* The fairness of the two modules.
MCFairSpec ==
  /\ MCInit /\ [][MCNext]_allVars
  /\ WF_allVars(InRing(AnswerApplied)) /\ WF_allVars(InRing(Handler))
  /\ \A k \in Pollers : WF_allVars(InRing(Poll(k)))
  /\ SF_allVars(InRing(FlushTakes("handler")))
  /\ \A f \in Flushers : WF_allVars(InRing(FlushWrites(f) \/ FlushFails(f)))
  /\ WF_allVars(InLayout(Layout!TickEncodes)) /\ WF_allVars(InLayout(Layout!TickWrites))

\* The desktop ends up showing the service's notifications (NotificationRing).
ListCatchesUp == kept = "notifications" => MirrorCatchesUp
\* MAX_TABS_PER_WORKSPACE holds (SavedSessions).
TabLimit == Layout!TabLimit
\* The layout on disk is brought up to date once requests stop (SavedSessions).
SnapshotCatchesUp == Layout!SnapshotCatchesUp
=============================================================================
