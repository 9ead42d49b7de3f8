----------------------------- MODULE PaneStream -----------------------------
(***************************************************************************)
(* How the desktop's copy of each terminal screen follows the service:     *)
(* revisions, GetUpdates polls and targeted GetPaneSnapshot requests       *)
(* (crates/session-service/src/registry/streaming.rs, pty.rs; crates/      *)
(* desktop/src/pipeline.rs, session.rs, reconcile.rs, helpers/polling.rs). *)
(*                                                                         *)
(* What a screen shows is abstracted to which session drew it (`epoch`)    *)
(* and how many changes that session had applied (`content`); neither is   *)
(* visible to the protocol, which compares only `revision`.  Every screen  *)
(* takes one unit of the response's byte budget.  Output, resizing,        *)
(* scrolling, searching and selecting change a terminal the same way.      *)
(***************************************************************************)
EXTENDS Naturals, Sequences, FiniteSets

CONSTANTS
  Panes,         \* pane ids; responses list screens in their order
  TabOf,         \* the tab each pane is in; a tab's panes are shown together
  Budget,        \* RESPONSE_SCREEN_BUDGET_BYTES, in screens
  LaneCapacity,  \* STREAM_PIPELINE_CAPACITY
  MaxChanges,    \* bound: changes applied to all terminals
  MaxReplaced,   \* bound: times sessions are replaced
  Nothing        \* no screen, no focus, no request

ASSUME PanesAssumption == Panes \subseteq Nat /\ Nothing \notin Panes
ASSUME SizesAssumption ==
  /\ Budget \in Nat \ {0} /\ LaneCapacity \in Nat \ {0}
  /\ MaxChanges \in Nat /\ MaxReplaced \in Nat

VARIABLES
  term,        \* the PtySession of each pane
  open,        \* the panes of the service's layout
  session_revision,
  changes,     \* counts AppliesOutput
  replaced,    \* counts Reattaches and ServiceRestarts
  layout,      \* the desktop's snapshot: its revision and its panes
  focused,     \* the pane with the focus
  screens,     \* the desktop's copy of each pane's screen
  recent,      \* panes delivered within SECONDARY_PANE_INTERVAL
  cycle,       \* the poll_once calls: the poll loop's and the control lane's
  lane,        \* GetPaneSnapshot jobs queued for the stream lane
  fetch        \* the job the stream lane is running

service == <<term, open, session_revision, changes, replaced>>
desktop == <<layout, focused, screens, recent>>
vars == <<service, desktop, cycle, lane, fetch>>

Cycles == {"poll", "followup"}

Screen == [epoch : 1 .. MaxReplaced + 1, content : Nat, revision : Nat]
ScreenOf(p) == [epoch |-> term[p].epoch, content |-> term[p].content,
                revision |-> term[p].revision]

Known == [p \in Panes |-> IF screens[p] = Nothing THEN Nothing
                          ELSE screens[p].revision]

Idle == [step |-> "idle"]

Init ==
  /\ term = [p \in Panes |-> [epoch |-> 1, content |-> 0, revision |-> 0,
                              locked |-> FALSE]]
  /\ open \in SUBSET Panes /\ session_revision = 1
  /\ changes \in 0 .. MaxChanges /\ replaced \in 0 .. MaxReplaced
  /\ layout = [revision |-> 0, panes |-> {}] /\ focused = Nothing
  /\ screens = [p \in Panes |-> Nothing] /\ recent = {}
  /\ cycle = [c \in Cycles |-> Idle]
  /\ lane = <<>> /\ fetch = Idle

(***************************************************************************)
(* The service's terminals                                                 *)
(***************************************************************************)
\* The reader thread holds the terminal's lock from the change to the
\* revision; current_revision reads the revision without that lock.
AppliesOutput(p) ==
  /\ p \in open /\ ~term[p].locked /\ changes < MaxChanges
  /\ term' = [term EXCEPT ![p].content = @ + 1, ![p].locked = TRUE]
  /\ changes' = changes + 1
  /\ UNCHANGED <<open, session_revision, replaced, desktop, cycle, lane, fetch>>

\* A change that leaves the revision alone.
UnlocksOnly(p) ==
  /\ term[p].locked
  /\ term' = [term EXCEPT ![p].locked = FALSE]
  /\ UNCHANGED <<open, session_revision, changes, replaced, desktop, cycle, lane, fetch>>

AdvancesRevision(p) ==
  /\ term[p].locked
  /\ term' = [term EXCEPT ![p].revision = @ + 1, ![p].locked = FALSE]
  /\ UNCHANGED <<open, session_revision, changes, replaced, desktop, cycle, lane, fetch>>

\* The desktop's control lane runs one mutation at a time and polls after it;
\* one that finds the lane busy comes from another client.
FollowUp ==
  cycle' = IF cycle["followup"] = Idle
           THEN [cycle EXCEPT !["followup"] = [step |-> "due"]] ELSE cycle

\* A new session counts its revisions from 0, or from 1 when it starts with
\* captured scrollback.
NewSessions(P) ==
  /\ replaced < MaxReplaced /\ replaced' = replaced + 1
  /\ \E captured \in {0, 1} :
       term' = [p \in Panes |->
                  IF p \in P
                  THEN [epoch |-> term[p].epoch + 1, content |-> captured,
                        revision |-> captured, locked |-> FALSE]
                  ELSE term[p]]

Reattaches(p) ==
  /\ p \in open /\ NewSessions({p})
  /\ session_revision' = session_revision + 1 /\ FollowUp
  /\ UNCHANGED <<open, changes, desktop, lane, fetch>>

\* Recovery gives every pane a new session; the layout is the saved one.
ServiceRestarts ==
  /\ open # {} /\ NewSessions(open)
  /\ UNCHANGED <<open, session_revision, changes, desktop, cycle, lane, fetch>>

ClosesPane(p) ==
  /\ p \in open
  /\ open' = open \ {p} /\ session_revision' = session_revision + 1
  /\ FollowUp
  /\ UNCHANGED <<term, changes, replaced, desktop, lane, fetch>>

(***************************************************************************)
(* The service's answers                                                   *)
(***************************************************************************)
\* All the screens or none of them.
allWithinBudget(W) == IF Cardinality(W) <= Budget THEN W ELSE {}

screens_within_budget(W) ==
  {p \in W : Cardinality({q \in W : q < p}) < Budget}

\* pane_updates_for.  A subscribed pane whose revision is not the one the
\* desktop knows is serialized under its terminal's lock.
PollServed(c) ==
  /\ cycle[c].step = "asked"
  /\ LET r == cycle[c]
         changed == {p \in open \cap r.subscribed : r.known[p] # term[p].revision}
         sent == screens_within_budget(changed)
     IN /\ \A p \in changed : ~term[p].locked
        /\ cycle' = [cycle EXCEPT ![c] =
             [step |-> "served", live |-> open, revision |-> session_revision,
              snapshot |-> r.layout # session_revision,
              screens |-> [p \in sent |-> ScreenOf(p)]]]
  /\ UNCHANGED <<service, desktop, lane, fetch>>

\* pane_snapshot
FetchServed ==
  /\ fetch.step = "asked" /\ fetch.pane \in open /\ ~term[fetch.pane].locked
  /\ fetch' = [step |-> "served", pane |-> fetch.pane,
               screen |-> ScreenOf(fetch.pane)]
  /\ UNCHANGED <<service, desktop, cycle, lane>>

(***************************************************************************)
(* The desktop: what is on screen, the two poll cycles, the stream lane    *)
(***************************************************************************)
on_screen_panes ==
  {p \in layout.panes : focused # Nothing /\ TabOf[p] = TabOf[focused]}

\* The focused pane always, another pane once its interval has passed.
paced_subscriptions ==
  {p \in on_screen_panes : p = focused \/ p \notin recent}

PollStarts(c) ==
  /\ cycle[c].step = IF c = "poll" THEN "idle" ELSE "due"
  /\ cycle' = [cycle EXCEPT ![c] =
       [step |-> "asked", known |-> Known, layout |-> layout.revision,
        subscribed |-> paced_subscriptions]]
  /\ UNCHANGED <<service, desktop, lane, fetch>>

PollFails(c) ==
  /\ cycle[c].step = "asked"
  /\ cycle' = [cycle EXCEPT ![c] = Idle]
  /\ UNCHANGED <<service, desktop, lane, fetch>>

\* A full lane refuses the newest request.
dispatch_stream(p) ==
  lane' = IF Len(lane) < LaneCapacity THEN Append(lane, p) ELSE lane

applyAny(p, screen) == TRUE

is_newer(p, screen) ==
  screens[p] = Nothing \/ screen.revision > screens[p].revision

\* Leaves the screens of closed panes in the map.
reconcileKeepsClosed(b) ==
  LET topology_is_current == b.revision >= layout.revision
      taken == {p \in DOMAIN b.screens : is_newer(p, b.screens[p])}
  IN /\ layout' = IF b.snapshot /\ topology_is_current
                  THEN [revision |-> b.revision, panes |-> b.live] ELSE layout
     /\ screens' = [p \in Panes |-> IF p \in taken THEN b.screens[p] ELSE screens[p]]
     /\ recent' = recent \cup taken

\* reconcile_updates: an older snapshot is ignored, newer screens always
\* apply, and only a current layout drops the screens of closed panes.
reconcile_updates(b) ==
  LET topology_is_current == b.revision >= layout.revision
      taken == {p \in DOMAIN b.screens : is_newer(p, b.screens[p])}
      kept  == IF topology_is_current THEN b.live ELSE Panes
  IN /\ layout' = IF b.snapshot /\ topology_is_current
                  THEN [revision |-> b.revision, panes |-> b.live] ELSE layout
     /\ screens' = [p \in Panes |->
          IF p \notin kept THEN Nothing
          ELSE IF p \in taken THEN b.screens[p] ELSE screens[p]]
     /\ recent' = (recent \cup taken) \cap kept

\* A focused pane that is gone gives its focus to the first pane.
PollApplied(c) ==
  /\ cycle[c].step = "served"
  /\ reconcile_updates(cycle[c])
  /\ IF layout' = layout \/ focused \in layout'.panes
     THEN UNCHANGED <<focused, lane>>
     ELSE IF layout'.panes = {}
     THEN focused' = Nothing /\ UNCHANGED lane
     ELSE \E p \in layout'.panes : focused' = p /\ dispatch_stream(p)
  /\ cycle' = [cycle EXCEPT ![c] = Idle]
  /\ UNCHANGED <<service, fetch>>

\* focus_pane_with_snapshot
FocusesPane(p) ==
  /\ p \in layout.panes /\ p # focused
  /\ focused' = p /\ dispatch_stream(p)
  /\ UNCHANGED <<service, layout, screens, recent, cycle, fetch>>

FetchStarts ==
  /\ fetch.step = "idle" /\ lane # <<>>
  /\ fetch' = [step |-> "asked", pane |-> Head(lane)] /\ lane' = Tail(lane)
  /\ UNCHANGED <<service, desktop, cycle>>

\* The pane was closed, or there was no answer.
FetchFails ==
  /\ fetch.step = "asked"
  /\ fetch' = Idle
  /\ UNCHANGED <<service, desktop, cycle, lane>>

\* A targeted screen replaces whatever the desktop has.
FetchApplied ==
  /\ fetch.step = "served"
  /\ screens' = [screens EXCEPT ![fetch.pane] = fetch.screen]
  /\ recent' = recent \cup {fetch.pane}
  /\ fetch' = Idle
  /\ UNCHANGED <<service, layout, focused, cycle, lane>>

IntervalPasses(p) ==
  /\ p \in recent /\ recent' = recent \ {p}
  /\ UNCHANGED <<service, layout, focused, screens, cycle, lane, fetch>>

PollStep(c) == PollStarts(c) \/ PollServed(c) \/ PollApplied(c)
FetchStep   == FetchStarts \/ FetchServed \/ FetchApplied

Next ==
  \/ \E p \in Panes : \/ AppliesOutput(p) \/ AdvancesRevision(p)
                      \/ Reattaches(p) \/ ClosesPane(p)
                      \/ FocusesPane(p) \/ IntervalPasses(p)
  \/ ServiceRestarts
  \/ \E c \in Cycles : PollStep(c) \/ PollFails(c)
  \/ FetchStep \/ FetchFails

Spec == Init /\ [][Next]_vars

\* The poll loop never stops and its calls are not all lost, what is served is
\* applied, reader threads finish a change, and time passes.
Fairness ==
  /\ \A c \in Cycles : WF_vars(PollApplied(c))
  /\ WF_vars(PollStarts("poll")) /\ SF_vars(PollServed("poll"))
  /\ \A p \in Panes : WF_vars(AdvancesRevision(p)) /\ WF_vars(IntervalPasses(p))

FairSpec == Spec /\ Fairness

(***************************************************************************)
(* Properties                                                              *)
(***************************************************************************)
TypeOK ==
  /\ term \in [Panes -> [epoch : 1 .. MaxReplaced + 1, content : Nat,
                         revision : Nat, locked : BOOLEAN]]
  /\ open \subseteq Panes /\ session_revision \in Nat
  /\ changes \in 0 .. MaxChanges /\ replaced \in 0 .. MaxReplaced
  /\ layout \in [revision : Nat, panes : SUBSET Panes]
  /\ focused \in Panes \cup {Nothing}
  /\ \A p \in Panes : screens[p] \in Screen \cup {Nothing}
  /\ DOMAIN screens = Panes /\ recent \subseteq Panes
  /\ \A c \in Cycles :
       cycle[c].step \in {"idle", "due", "asked", "served"}
  /\ lane \in Seq(Panes) /\ Len(lane) <= LaneCapacity
  /\ fetch.step \in {"idle", "asked", "served"}

\* Unchanged never hides a change: while the desktop's revision of a pane is
\* the one of the session that drew its screen, so that the pane is left out
\* of every response, the screen shows what the terminal holds.
Shows(p) == screens[p] # Nothing /\ screens[p].epoch = term[p].epoch
            /\ screens[p].content = term[p].content

UnchangedHidesNothing ==
  \A p \in open :
    /\ screens[p] # Nothing /\ ~term[p].locked
    /\ screens[p].epoch = term[p].epoch /\ screens[p].revision = term[p].revision
    => Shows(p)

\* A response that overtakes another never takes a pane or the layout back:
\* two poll cycles and the stream lane answer in any order (reconcile.rs).
UpdatesNeverGoBack ==
  [][\A p \in Panes :
       (\E c \in Cycles : PollApplied(c)) /\ screens[p] # Nothing
       /\ screens'[p] # Nothing /\ screens'[p].epoch = screens[p].epoch
       => screens'[p].content >= screens[p].content
     ]_vars

\* What is displayed in the end is current: once a pane stays on screen, its
\* screen becomes and stays what its terminal holds, although the budget
\* withholds screens and requests are refused or lost, if no request is lost for ever.
CatchesUp(p) ==
  <>[](p \in on_screen_panes) => <>[]Shows(p)

\* The desktop still compares with revisions of an earlier session of the pane.
Shadowed(p) ==
  /\ screens[p] # Nothing /\ screens[p].epoch < term[p].epoch
  /\ screens[p].revision >= term[p].revision

ScreenCatchesUp ==
  \A p \in Panes :
    <>[](p \in on_screen_panes /\ \A q \in Panes : ~Shadowed(q)) => <>[]Shows(p)

\* docs/pane-streaming.md: "A revision gap, stale cursor, or reconnect
\* therefore resynchronizes from current bounded state".
StaleCursorResyncs == \A p \in Panes : CatchesUp(p)

\* The screens of closed panes do not stay, though one that was requested
\* before may still arrive after the layout is known.
ClosedPanesAreForgotten ==
  \A p \in Panes : <>[](p \notin open) => <>[](screens[p] = Nothing)
=============================================================================
