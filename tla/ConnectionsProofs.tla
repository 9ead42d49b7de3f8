-------------------------- MODULE ConnectionsProofs --------------------------
(***************************************************************************)
(* Proofs about the connections whose answers come back out of step: the   *)
(* desktop's screens (PaneStream), for every set of panes, budget and      *)
(* bound, and the control client of MCConnections (TmuxControl), for any   *)
(* number of calls and chunks.                                             *)
(*                                                                         *)
(* The argument for the screens: a terminal's revision counts its changes  *)
(* except while its lock is held (RevisionsCount), every screen is taken   *)
(* under that lock, so in every screen, wherever it is on its way, content *)
(* and revision are the same number (Held), and comparing revisions is     *)
(* comparing contents.                                                     *)
(***************************************************************************)
EXTENDS MCConnections, FiltersProofs, SequenceTheorems, TLAPS

Terminal == [epoch : 1 .. MaxReplaced + 1, content : Nat, revision : Nat, locked : BOOLEAN]

\* A screen that was taken while nobody was changing its terminal.
Held(screen) == screen \in Screen /\ screen.content = screen.revision

RevisionsCount ==
  \A p \in Panes :
    term[p].content = IF term[p].locked THEN term[p].revision + 1 ELSE term[p].revision

EpochsCount == \A p \in Panes : term[p].epoch <= replaced + 1

ServiceInv ==
  /\ term \in [Panes -> Terminal]
  /\ open \subseteq Panes /\ session_revision \in Nat
  /\ changes \in 0 .. MaxChanges /\ replaced \in 0 .. MaxReplaced
  /\ RevisionsCount /\ EpochsCount

ScreensAreHeld == \A p \in Panes : screens[p] = Nothing \/ Held(screens[p])

DesktopInv ==
  /\ layout \in [revision : Nat, panes : SUBSET Panes]
  /\ focused \in Panes \cup {Nothing} /\ recent \subseteq Panes
  /\ screens = [p \in Panes |-> screens[p]] /\ ScreensAreHeld

\* What pane_updates_for answered.
IsAnswer(b) ==
  /\ b.live \subseteq Panes /\ b.revision \in Nat
  /\ \A p \in DOMAIN b.screens : p \in Panes /\ Held(b.screens[p])

CyclesInv ==
  /\ cycle = [c \in Cycles |-> cycle[c]]
  /\ \A c \in Cycles : /\ cycle[c].step \in {"idle", "due", "asked", "served"}
                       /\ cycle[c].step = "served" => IsAnswer(cycle[c])

LaneInv ==
  /\ lane \in Seq(Panes) /\ Len(lane) <= LaneCapacity
  /\ fetch.step \in {"idle", "asked", "served"}
  /\ fetch.step # "idle" => fetch.pane \in Panes
  /\ fetch.step = "served" => Held(fetch.screen)

IInv == ServiceInv /\ DesktopInv /\ CyclesInv /\ LaneInv

-----------------------------------------------------------------------------
(* The service's side. *)

LEMMA IdleStep == Idle.step = "idle"
BY DEF Idle

LEMMA ServiceStays == ServiceInv /\ UNCHANGED service => ServiceInv'
BY DEF service, ServiceInv, RevisionsCount, EpochsCount

LEMMA DesktopStays == DesktopInv /\ UNCHANGED desktop => DesktopInv'
BY DEF desktop, DesktopInv, ScreensAreHeld

LEMMA CyclesStay == CyclesInv /\ UNCHANGED cycle => CyclesInv'
BY DEF CyclesInv

LEMMA LaneStays == LaneInv /\ UNCHANGED <<lane, fetch>> => LaneInv'
BY DEF LaneInv

\* Whoever takes a screen under its terminal's lock takes one that counts.
LEMMA ScreenOfIsHeld ==
  ASSUME ServiceInv, NEW p \in Panes, ~term[p].locked
  PROVE  Held(ScreenOf(p))
<1>1. term[p] \in Terminal /\ term[p].content = term[p].revision
  BY DEF ServiceInv, RevisionsCount
<1> QED BY <1>1 DEF Held, Screen, ScreenOf, Terminal

\* One terminal changes.
LEMMA TerminalKeeps ==
  ASSUME ServiceInv, NEW p \in Panes, NEW t \in Terminal,
         t.content = IF t.locked THEN t.revision + 1 ELSE t.revision,
         t.epoch <= replaced' + 1, replaced' \in 0 .. MaxReplaced, replaced <= replaced',
         term' = [term EXCEPT ![p] = t],
         open' \subseteq Panes, session_revision' \in Nat, changes' \in 0 .. MaxChanges
  PROVE  ServiceInv'
<1>1. /\ term' \in [Panes -> Terminal] /\ term'[p] = t
      /\ \A q \in Panes : q # p => term'[q] = term[q]
  BY DEF ServiceInv
<1>2. RevisionsCount'
  BY <1>1 DEF ServiceInv, RevisionsCount
<1>3. EpochsCount'
  <2> SUFFICES ASSUME NEW q \in Panes PROVE term'[q].epoch <= replaced' + 1
    BY DEF EpochsCount
  <2>1. CASE q = p
    BY <1>1, <2>1
  <2>2. CASE q # p
    <3>1. term[q].epoch <= replaced + 1 /\ term[q].epoch \in Nat /\ replaced \in Nat
      BY SizesAssumption DEF ServiceInv, EpochsCount, Terminal
    <3> QED BY <1>1, <2>2, <3>1
  <2> QED BY <2>1, <2>2
<1> QED BY <1>1, <1>2, <1>3 DEF ServiceInv

LEMMA AppliesOutputKeeps ==
  ASSUME IInv, NEW p \in Panes, AppliesOutput(p)
  PROVE  IInv'
<1>1. /\ ~term[p].locked /\ changes < MaxChanges /\ changes' = changes + 1
      /\ term' = [term EXCEPT ![p] = [term[p] EXCEPT !.content = term[p].content + 1,
                                                     !.locked = TRUE]]
      /\ UNCHANGED <<open, session_revision, replaced, desktop, cycle, lane, fetch>>
  BY DEF AppliesOutput
<1> DEFINE t == [term[p] EXCEPT !.content = term[p].content + 1, !.locked = TRUE]
<1>2. term[p] \in Terminal /\ term[p].content = term[p].revision /\ term[p].epoch <= replaced + 1
  BY <1>1 DEF IInv, ServiceInv, RevisionsCount, EpochsCount
<1>3. /\ t \in Terminal /\ t.locked = TRUE /\ t.content = t.revision + 1
      /\ t.epoch = term[p].epoch
  <2>1. /\ term[p].epoch \in 1 .. MaxReplaced + 1 /\ term[p].content \in Nat
        /\ term[p].revision \in Nat
    BY <1>2 DEF Terminal
  <2>2. t \in Terminal
    <3> DEFINE u == [term[p] EXCEPT !.content = term[p].content + 1]
    <3>1. u \in Terminal
      BY <1>2, <2>1 DEF Terminal
    <3>2. t = [u EXCEPT !.locked = TRUE]
      OBVIOUS
    <3> HIDE DEF u, t
    <3> QED BY <3>1, <3>2 DEF Terminal
  <2>3. t.locked = TRUE
    BY <1>2 DEF Terminal
  <2>4. t.epoch = term[p].epoch /\ t.revision = term[p].revision
    BY <1>2 DEF Terminal
  <2>5. t.content = term[p].content + 1
    BY <1>2 DEF Terminal
  <2> QED BY <1>2, <2>2, <2>3, <2>4, <2>5
<1>4. changes' \in 0 .. MaxChanges
  BY <1>1, SizesAssumption DEF IInv, ServiceInv
<1> HIDE DEF t
<1>5. ServiceInv'
  <2>1. /\ term' = [term EXCEPT ![p] = t] /\ replaced' \in 0 .. MaxReplaced
        /\ replaced <= replaced' /\ open' \subseteq Panes /\ session_revision' \in Nat
    BY <1>1 DEF IInv, ServiceInv, t
  <2> QED BY <1>1, <1>2, <1>3, <1>4, <2>1, TerminalKeeps DEF IInv
<1> QED BY <1>1, <1>5, DesktopStays, CyclesStay, LaneStays DEF IInv

LEMMA AdvancesRevisionKeeps ==
  ASSUME IInv, NEW p \in Panes, AdvancesRevision(p)
  PROVE  IInv'
<1>1. /\ term[p].locked
      /\ term' = [term EXCEPT ![p] = [term[p] EXCEPT !.revision = term[p].revision + 1,
                                                     !.locked = FALSE]]
      /\ UNCHANGED <<open, session_revision, changes, replaced, desktop, cycle, lane, fetch>>
  BY DEF AdvancesRevision
<1> DEFINE t == [term[p] EXCEPT !.revision = term[p].revision + 1, !.locked = FALSE]
<1>2. /\ term[p] \in Terminal /\ term[p].content = term[p].revision + 1
      /\ term[p].epoch <= replaced + 1
  BY <1>1 DEF IInv, ServiceInv, RevisionsCount, EpochsCount
<1>3. t \in Terminal /\ t.locked = FALSE /\ t.content = t.revision /\ t.epoch = term[p].epoch
  BY <1>2 DEF Terminal
<1> HIDE DEF t
<1>4. ServiceInv'
  <2>1. /\ term' = [term EXCEPT ![p] = t] /\ replaced' \in 0 .. MaxReplaced
        /\ replaced <= replaced' /\ open' \subseteq Panes /\ session_revision' \in Nat
        /\ changes' \in 0 .. MaxChanges
    BY <1>1 DEF IInv, ServiceInv, t
  <2> QED BY <1>1, <1>2, <1>3, <2>1, TerminalKeeps DEF IInv
<1> QED BY <1>1, <1>4, DesktopStays, CyclesStay, LaneStays DEF IInv

\* A session that starts over counts from what it starts with.
LEMMA NewSessionsKeep ==
  ASSUME ServiceInv, NEW P \in SUBSET Panes, NewSessions(P),
         UNCHANGED <<open, changes>>, session_revision' \in Nat
  PROVE  ServiceInv'
<1>1. replaced < MaxReplaced /\ replaced' = replaced + 1 /\ replaced \in Nat
      /\ replaced' \in 0 .. MaxReplaced
  BY SizesAssumption DEF NewSessions, ServiceInv
<1>2. PICK captured \in {0, 1} :
        term' = [p \in Panes |->
                  IF p \in P
                  THEN [epoch |-> term[p].epoch + 1, content |-> captured,
                        revision |-> captured, locked |-> FALSE]
                  ELSE term[p]]
  BY DEF NewSessions
<1>3. ASSUME NEW p \in Panes
      PROVE  /\ term'[p] \in Terminal /\ term'[p].epoch <= replaced' + 1
             /\ term'[p].content
                  = IF term'[p].locked THEN term'[p].revision + 1 ELSE term'[p].revision
  <2>1. /\ term[p] \in Terminal /\ term[p].epoch \in Nat /\ term[p].epoch >= 1
        /\ term[p].epoch <= replaced + 1
        /\ term[p].content
             = IF term[p].locked THEN term[p].revision + 1 ELSE term[p].revision
    BY SizesAssumption DEF ServiceInv, RevisionsCount, EpochsCount, Terminal
  <2>2. CASE p \in P
    <3>1. term'[p] = [epoch |-> term[p].epoch + 1, content |-> captured,
                      revision |-> captured, locked |-> FALSE]
      BY <1>2, <2>2
    <3>2. term[p].epoch + 1 \in 1 .. MaxReplaced + 1
      BY <1>1, <2>1, SizesAssumption
    <3> QED BY <1>1, <2>1, <3>1, <3>2 DEF Terminal
  <2>3. CASE p \notin P
    <3>1. term'[p] = term[p]
      BY <1>2, <2>3
    <3> QED BY <1>1, <2>1, <3>1
  <2> QED BY <2>2, <2>3
<1>4. term' \in [Panes -> Terminal]
  BY <1>2, <1>3
<1> QED BY <1>1, <1>3, <1>4 DEF ServiceInv, RevisionsCount, EpochsCount

LEMMA FollowUpKeeps == CyclesInv /\ FollowUp => CyclesInv'
BY DEF CyclesInv, FollowUp, Cycles

LEMMA ReattachesKeeps ==
  ASSUME IInv, NEW p \in Panes, Reattaches(p)
  PROVE  IInv'
<1>1. /\ NewSessions({p}) /\ session_revision' = session_revision + 1 /\ FollowUp
      /\ UNCHANGED <<open, changes, desktop, lane, fetch>>
  BY DEF Reattaches
<1>2. session_revision' \in Nat
  BY <1>1 DEF IInv, ServiceInv
<1>3. ServiceInv'
  BY <1>1, <1>2, NewSessionsKeep DEF IInv
<1> QED BY <1>1, <1>3, FollowUpKeeps, DesktopStays, LaneStays DEF IInv

LEMMA ServiceRestartsKeeps == IInv /\ ServiceRestarts => IInv'
<1> SUFFICES ASSUME IInv, ServiceRestarts PROVE IInv'
  OBVIOUS
<1>1. /\ NewSessions(open)
      /\ UNCHANGED <<open, session_revision, changes, desktop, cycle, lane, fetch>>
  BY DEF ServiceRestarts
<1>2. open \in SUBSET Panes /\ session_revision' \in Nat
  BY <1>1 DEF IInv, ServiceInv
<1>3. ServiceInv'
  BY <1>1, <1>2, NewSessionsKeep DEF IInv
<1> QED BY <1>1, <1>3, DesktopStays, CyclesStay, LaneStays DEF IInv

LEMMA ClosesPaneKeeps ==
  ASSUME IInv, NEW p \in Panes, ClosesPane(p)
  PROVE  IInv'
<1>1. /\ open' = open \ {p} /\ session_revision' = session_revision + 1 /\ FollowUp
      /\ UNCHANGED <<term, changes, replaced, desktop, lane, fetch>>
  BY DEF ClosesPane
<1>2. ServiceInv'
  BY <1>1 DEF IInv, ServiceInv, RevisionsCount, EpochsCount
<1> QED BY <1>1, <1>2, FollowUpKeeps, DesktopStays, LaneStays DEF IInv

-----------------------------------------------------------------------------
(* The cycles of polls and the stream lane. *)

CycleTakes(c, step) == cycle' = [cycle EXCEPT ![c] = step]

LEMMA CycleBecomes ==
  ASSUME CyclesInv, NEW c \in Cycles, NEW step,
         step.step \in {"idle", "due", "asked", "served"},
         step.step = "served" => IsAnswer(step),
         CycleTakes(c, step)
  PROVE  CyclesInv'
<1>1. /\ cycle' = [d \in Cycles |-> cycle'[d]] /\ cycle'[c] = step
      /\ \A d \in Cycles : d # c => cycle'[d] = cycle[d]
  BY DEF CyclesInv, CycleTakes
<1> QED BY <1>1 DEF CyclesInv, IsAnswer

LEMMA PollStartsKeeps ==
  ASSUME IInv, NEW c \in Cycles, PollStarts(c)
  PROVE  IInv'
<1>1. /\ cycle' = [cycle EXCEPT ![c] = [step |-> "asked", known |-> Known,
                                         layout |-> layout.revision,
                                         subscribed |-> paced_subscriptions]]
      /\ UNCHANGED <<service, desktop, lane, fetch>>
  BY DEF PollStarts
<1>2. CyclesInv'
  <2>1. PICK step : step = [step |-> "asked", known |-> Known, layout |-> layout.revision,
                            subscribed |-> paced_subscriptions]
    OBVIOUS
  <2>2. step.step = "asked"
    BY <2>1
  <2>3. step.step \in {"idle", "due", "asked", "served"} /\ step.step # "served"
    BY <2>2
  <2>4. CycleTakes(c, step)
    BY <1>1, <2>1 DEF CycleTakes
  <2> QED BY <2>3, <2>4, CycleBecomes DEF IInv
<1> QED BY <1>1, <1>2, ServiceStays, DesktopStays, LaneStays DEF IInv

LEMMA PollFailsKeeps ==
  ASSUME IInv, NEW c \in Cycles, PollFails(c)
  PROVE  IInv'
<1>1. cycle' = [cycle EXCEPT ![c] = Idle] /\ UNCHANGED <<service, desktop, lane, fetch>>
  BY DEF PollFails
<1>2. Idle.step \in {"idle", "due", "asked", "served"} /\ Idle.step # "served"
      /\ CycleTakes(c, Idle)
  BY <1>1, IdleStep DEF CycleTakes
<1>3. CyclesInv'
  BY <1>2, CycleBecomes DEF IInv
<1> QED BY <1>1, <1>3, ServiceStays, DesktopStays, LaneStays DEF IInv

LEMMA PollServedKeeps ==
  ASSUME IInv, NEW c \in Cycles, PollServed(c)
  PROVE  IInv'
<1> DEFINE r == cycle[c]
           changed == {p \in open \cap r.subscribed : r.known[p] # term[p].revision}
           sent == screens_within_budget(changed)
           answer == [step |-> "served", live |-> open, revision |-> session_revision,
                      snapshot |-> r.layout # session_revision,
                      screens |-> [p \in sent |-> ScreenOf(p)]]
<1>1. /\ \A p \in changed : ~term[p].locked
      /\ cycle' = [cycle EXCEPT ![c] = answer]
      /\ UNCHANGED <<service, desktop, lane, fetch>>
  BY DEF PollServed
<1>2. sent \subseteq changed /\ changed \subseteq Panes
  BY DEF screens_within_budget, IInv, ServiceInv
<1>3. \A p \in sent : p \in Panes /\ Held(ScreenOf(p))
  BY <1>1, <1>2, ScreenOfIsHeld DEF IInv
<1> HIDE DEF sent, changed, r
<1>4. /\ answer.live = open /\ answer.revision = session_revision /\ answer.step = "served"
      /\ answer.screens = [p \in sent |-> ScreenOf(p)]
  OBVIOUS
<1> HIDE DEF answer
<1>5. IsAnswer(answer)
  BY <1>3, <1>4 DEF IsAnswer, IInv, ServiceInv
<1>6. CyclesInv'
  <2>1. PICK step : step = answer
    OBVIOUS
  <2>2. step.step \in {"idle", "due", "asked", "served"} /\ IsAnswer(step)
    BY <1>4, <1>5, <2>1
  <2>3. CycleTakes(c, step)
    BY <1>1, <2>1 DEF CycleTakes
  <2> QED BY <2>2, <2>3, CycleBecomes DEF IInv
<1> QED BY <1>1, <1>6, ServiceStays, DesktopStays, LaneStays DEF IInv

LEMMA DispatchKeeps ==
  ASSUME LaneInv, NEW p \in Panes, dispatch_stream(p), UNCHANGED fetch
  PROVE  LaneInv'
<1>1. lane' \in Seq(Panes) /\ Len(lane') <= LaneCapacity
  <2>1. CASE Len(lane) < LaneCapacity
    <3>1. lane' = Append(lane, p) /\ lane \in Seq(Panes)
      BY <2>1 DEF dispatch_stream, LaneInv
    <3>2. lane' \in Seq(Panes) /\ Len(lane') = Len(lane) + 1
      BY <3>1
    <3> QED BY <2>1, <3>1, <3>2, SizesAssumption
  <2>2. CASE ~ (Len(lane) < LaneCapacity)
    BY <2>2 DEF dispatch_stream, LaneInv
  <2> QED BY <2>1, <2>2
<1> QED BY <1>1 DEF LaneInv

\* What a pane's screen is after an answer: none, the one it was, or a newer one.
LEMMA reconcile_updatesIs ==
  ASSUME DesktopInv, NEW b, IsAnswer(b), reconcile_updates(b)
  PROVE  /\ layout' = layout \/ layout' = [revision |-> b.revision, panes |-> b.live]
         /\ screens' = [p \in Panes |-> screens'[p]] /\ recent' \subseteq Panes
         /\ \A p \in Panes : \/ screens'[p] = Nothing
                             \/ screens'[p] = screens[p]
                             \/ /\ p \in DOMAIN b.screens /\ is_newer(p, b.screens[p])
                                /\ screens'[p] = b.screens[p]
<1> DEFINE topology_is_current == b.revision >= layout.revision
           taken == {p \in DOMAIN b.screens : is_newer(p, b.screens[p])}
           kept == IF topology_is_current THEN b.live ELSE Panes
<1>1. /\ layout' = layout \/ layout' = [revision |-> b.revision, panes |-> b.live]
      /\ screens' = [p \in Panes |->
                      IF p \notin kept THEN Nothing
                      ELSE IF p \in taken THEN b.screens[p] ELSE screens[p]]
      /\ recent' = (recent \cup taken) \cap kept
  BY DEF reconcile_updates
<1>2. kept \subseteq Panes
  BY DEF IsAnswer
<1>3. \A p \in taken : p \in DOMAIN b.screens /\ is_newer(p, b.screens[p])
  OBVIOUS
<1> HIDE DEF kept, taken
<1> QED BY <1>1, <1>2, <1>3

LEMMA PollAppliedKeeps ==
  ASSUME IInv, NEW c \in Cycles, PollApplied(c)
  PROVE  IInv'
<1> DEFINE b == cycle[c]
<1>1. /\ b.step = "served" /\ reconcile_updates(b)
      /\ cycle' = [cycle EXCEPT ![c] = Idle] /\ UNCHANGED <<service, fetch>>
  BY DEF PollApplied
<1>2. IsAnswer(b)
  BY <1>1 DEF IInv, CyclesInv
<1> HIDE DEF b
<1>3. /\ layout' = layout \/ layout' = [revision |-> b.revision, panes |-> b.live]
      /\ screens' = [p \in Panes |-> screens'[p]] /\ recent' \subseteq Panes
      /\ \A p \in Panes : \/ screens'[p] = Nothing
                          \/ screens'[p] = screens[p]
                          \/ p \in DOMAIN b.screens /\ screens'[p] = b.screens[p]
  BY <1>1, <1>2, reconcile_updatesIs DEF IInv
<1>4. layout' \in [revision : Nat, panes : SUBSET Panes]
  BY <1>2, <1>3 DEF IInv, DesktopInv, IsAnswer
<1>5. /\ focused' \in Panes \cup {Nothing}
      /\ UNCHANGED lane \/ \E p \in Panes : dispatch_stream(p)
  <2>1. layout'.panes \subseteq Panes
    BY <1>4
  <2>2. \/ UNCHANGED <<focused, lane>>
        \/ focused' = Nothing /\ UNCHANGED lane
        \/ \E p \in layout'.panes : focused' = p /\ dispatch_stream(p)
    BY DEF PollApplied
  <2> QED BY <2>1, <2>2 DEF IInv, DesktopInv
<1>6. ScreensAreHeld'
  <2> SUFFICES ASSUME NEW p \in Panes PROVE screens'[p] = Nothing \/ Held(screens'[p])
    BY DEF ScreensAreHeld, Held
  <2> QED BY <1>2, <1>3 DEF IsAnswer, IInv, DesktopInv, ScreensAreHeld
<1>7. DesktopInv'
  BY <1>3, <1>4, <1>5, <1>6 DEF DesktopInv
<1>8. CyclesInv'
  <2>1. Idle.step \in {"idle", "due", "asked", "served"} /\ Idle.step # "served"
        /\ CycleTakes(c, Idle)
    BY <1>1, IdleStep DEF CycleTakes
  <2> QED BY <2>1, CycleBecomes DEF IInv
<1>9. LaneInv'
  BY <1>1, <1>5, DispatchKeeps, LaneStays DEF IInv
<1> QED BY <1>1, <1>7, <1>8, <1>9, ServiceStays DEF IInv

LEMMA FocusesPaneKeeps ==
  ASSUME IInv, NEW p \in Panes, FocusesPane(p)
  PROVE  IInv'
<1>1. focused' = p /\ dispatch_stream(p) /\ UNCHANGED <<service, layout, screens, recent, cycle, fetch>>
  BY DEF FocusesPane
<1>2. DesktopInv'
  BY <1>1 DEF IInv, DesktopInv, ScreensAreHeld
<1>3. LaneInv'
  BY <1>1, DispatchKeeps DEF IInv
<1> QED BY <1>1, <1>2, <1>3, ServiceStays, CyclesStay DEF IInv

LEMMA IntervalPassesKeeps ==
  ASSUME IInv, NEW p \in Panes, IntervalPasses(p)
  PROVE  IInv'
<1>1. recent' = recent \ {p} /\ UNCHANGED <<service, layout, focused, screens, cycle, lane, fetch>>
  BY DEF IntervalPasses
<1>2. DesktopInv'
  BY <1>1 DEF IInv, DesktopInv, ScreensAreHeld
<1> QED BY <1>1, <1>2, ServiceStays, CyclesStay, LaneStays DEF IInv

LEMMA FetchStartsKeeps == IInv /\ FetchStarts => IInv'
<1> SUFFICES ASSUME IInv, FetchStarts PROVE IInv'
  OBVIOUS
<1>1. /\ lane # <<>> /\ fetch' = [step |-> "asked", pane |-> Head(lane)]
      /\ lane' = Tail(lane) /\ UNCHANGED <<service, desktop, cycle>>
  BY DEF FetchStarts
<1>2. lane \in Seq(Panes) /\ Len(lane) <= LaneCapacity
  BY DEF IInv, LaneInv
<1>3. /\ lane' \in Seq(Panes) /\ Len(lane') = Len(lane) - 1 /\ Head(lane) \in Panes
      /\ Len(lane) \in Nat
  BY <1>1, <1>2
<1>4. LaneInv'
  BY <1>1, <1>2, <1>3, SizesAssumption DEF LaneInv
<1> QED BY <1>1, <1>4, ServiceStays, DesktopStays, CyclesStay DEF IInv

LEMMA FetchServedKeeps == IInv /\ FetchServed => IInv'
<1> SUFFICES ASSUME IInv, FetchServed PROVE IInv'
  OBVIOUS
<1>1. /\ fetch.step = "asked" /\ ~term[fetch.pane].locked
      /\ fetch' = [step |-> "served", pane |-> fetch.pane, screen |-> ScreenOf(fetch.pane)]
      /\ UNCHANGED <<service, desktop, cycle, lane>>
  BY DEF FetchServed
<1>2. fetch.pane \in Panes
  BY <1>1 DEF IInv, LaneInv
<1>3. PICK screen : screen = ScreenOf(fetch.pane) /\ Held(screen)
  BY <1>1, <1>2, ScreenOfIsHeld DEF IInv
<1>4. /\ fetch'.step = "served" /\ fetch'.pane \in Panes /\ fetch'.screen = screen
  BY <1>1, <1>2, <1>3
<1>5. LaneInv'
  BY <1>1, <1>3, <1>4 DEF IInv, LaneInv, Held
<1> QED BY <1>1, <1>5, ServiceStays, DesktopStays, CyclesStay DEF IInv

LEMMA FetchEndsKeeps ==
  ASSUME IInv, fetch' = Idle, UNCHANGED <<service, cycle, lane>>, DesktopInv'
  PROVE  IInv'
<1>1. LaneInv'
  BY IdleStep DEF IInv, LaneInv
<1> QED BY <1>1, ServiceStays, CyclesStay DEF IInv

LEMMA FetchAppliedKeeps == IInv /\ FetchApplied => IInv'
<1> SUFFICES ASSUME IInv, FetchApplied PROVE IInv'
  OBVIOUS
<1>1. /\ fetch.step = "served" /\ screens' = [screens EXCEPT ![fetch.pane] = fetch.screen]
      /\ recent' = recent \cup {fetch.pane} /\ fetch' = Idle
      /\ UNCHANGED <<service, layout, focused, cycle, lane>>
  BY DEF FetchApplied
<1>2. fetch.pane \in Panes /\ Held(fetch.screen)
  BY <1>1 DEF IInv, LaneInv
<1>3. DesktopInv
  BY DEF IInv
<1>4. screens' = [p \in Panes |-> IF p = fetch.pane THEN fetch.screen ELSE screens[p]]
  BY <1>1, <1>2, <1>3 DEF DesktopInv
<1>5. \A p \in Panes : screens'[p] = Nothing \/ Held(screens'[p])
  BY <1>2, <1>3, <1>4 DEF DesktopInv, ScreensAreHeld
<1>6. screens' = [p \in Panes |-> screens'[p]]
  BY <1>4
<1>7. DesktopInv'
  BY <1>1, <1>2, <1>3, <1>5, <1>6 DEF DesktopInv, ScreensAreHeld, Held
<1> QED BY <1>1, <1>7, FetchEndsKeeps

LEMMA FetchFailsKeeps == IInv /\ FetchFails => IInv'
BY FetchEndsKeeps, DesktopStays DEF FetchFails, IInv

-----------------------------------------------------------------------------
LEMMA InitInv == Init => IInv
<1> SUFFICES ASSUME Init PROVE IInv
  OBVIOUS
<1>1. ServiceInv
  <2> DEFINE t == [epoch |-> 1, content |-> 0, revision |-> 0, locked |-> FALSE]
  <2>1. t \in Terminal
    BY SizesAssumption DEF Terminal
  <2>2. term \in [Panes -> Terminal] /\ \A p \in Panes : term[p] = t
    BY <2>1 DEF Init
  <2>3. replaced \in Nat
    BY SizesAssumption DEF Init
  <2> QED BY <2>2, <2>3 DEF Init, ServiceInv, RevisionsCount, EpochsCount
<1>2. DesktopInv
  BY DEF Init, DesktopInv, ScreensAreHeld
<1>3. CyclesInv
  BY IdleStep DEF Init, CyclesInv
<1>4. LaneInv
  <2>1. lane \in Seq(Panes) /\ Len(lane) = 0
    BY DEF Init
  <2> QED BY <2>1, IdleStep, SizesAssumption DEF Init, LaneInv
<1> QED BY <1>1, <1>2, <1>3, <1>4 DEF IInv

LEMMA StepInv == IInv /\ [Next]_vars => IInv'
<1> SUFFICES ASSUME IInv, [Next]_vars PROVE IInv'
  OBVIOUS
<1>1. CASE \E p \in Panes : \/ AppliesOutput(p) \/ AdvancesRevision(p)
                            \/ Reattaches(p) \/ ClosesPane(p)
                            \/ FocusesPane(p) \/ IntervalPasses(p)
  BY <1>1, AppliesOutputKeeps, AdvancesRevisionKeeps, ReattachesKeeps, ClosesPaneKeeps,
     FocusesPaneKeeps, IntervalPassesKeeps
<1>2. CASE \E c \in Cycles : PollStep(c) \/ PollFails(c)
  BY <1>2, PollStartsKeeps, PollServedKeeps, PollAppliedKeeps, PollFailsKeeps DEF PollStep
<1>3. CASE FetchStep \/ FetchFails
  BY <1>3, FetchStartsKeeps, FetchServedKeeps, FetchAppliedKeeps, FetchFailsKeeps DEF FetchStep
<1>4. CASE UNCHANGED vars
  BY <1>4, ServiceStays, DesktopStays, CyclesStay, LaneStays DEF vars, IInv
<1> QED BY <1>1, <1>2, <1>3, <1>4, ServiceRestartsKeeps DEF Next

LEMMA Invariance == Spec => []IInv
BY InitInv, StepInv, PTL DEF Spec

\* The service's terminals, the desktop's mirror and the requests between them
\* have their types.
THEOREM TypeCorrect == Spec => []TypeOK
<1>1. IInv => TypeOK
  <2> SUFFICES ASSUME IInv PROVE TypeOK
    OBVIOUS
  <2>1. \A p \in Panes : screens[p] \in Screen \cup {Nothing}
    BY DEF IInv, DesktopInv, ScreensAreHeld, Held
  <2>2. DOMAIN screens = Panes
    BY DEF IInv, DesktopInv
  <2> QED BY <2>1, <2>2 DEF IInv, ServiceInv, DesktopInv, CyclesInv, LaneInv, TypeOK, Terminal
<1> QED BY <1>1, Invariance, PTL

\* pane_updates_for leaves a pane out of every answer while the desktop has its
\* revision: the screen the desktop has then shows what the terminal holds.
THEOREM UnchangedHidesNothingHolds == Spec => []UnchangedHidesNothing
<1>1. IInv => UnchangedHidesNothing
  <2> SUFFICES ASSUME IInv, NEW p \in open,
                      screens[p] # Nothing, ~term[p].locked,
                      screens[p].epoch = term[p].epoch, screens[p].revision = term[p].revision
               PROVE  Shows(p)
    BY DEF UnchangedHidesNothing
  <2>1. p \in Panes
    BY DEF IInv, ServiceInv
  <2>2. screens[p].content = screens[p].revision /\ term[p].content = term[p].revision
    BY <2>1 DEF IInv, ServiceInv, DesktopInv, RevisionsCount, ScreensAreHeld, Held
  <2> QED BY <2>2 DEF Shows
<1> QED BY <1>1, Invariance, PTL

Forward ==
  \A p \in Panes :
    (\E c \in Cycles : PollApplied(c)) /\ screens[p] # Nothing
    /\ screens'[p] # Nothing /\ screens'[p].epoch = screens[p].epoch
    => screens'[p].content >= screens[p].content

\* reconcile_updates: an answer that was overtaken never takes a screen back to
\* an earlier content of the same session.
THEOREM UpdatesNeverGoBackHolds == Spec => UpdatesNeverGoBack
<1>1. IInv /\ [Next]_vars => [Forward]_vars
  <2> SUFFICES ASSUME IInv, NEW p \in Panes, NEW c \in Cycles, PollApplied(c),
                      screens[p] # Nothing, screens'[p] # Nothing
               PROVE  screens'[p].content >= screens[p].content
    BY DEF Forward
  <2> DEFINE b == cycle[c]
  <2>1. b.step = "served" /\ reconcile_updates(b)
    BY DEF PollApplied
  <2>2. IsAnswer(b)
    BY <2>1 DEF IInv, CyclesInv
  <2> HIDE DEF b
  <2>3. \/ screens'[p] = screens[p]
        \/ /\ p \in DOMAIN b.screens /\ is_newer(p, b.screens[p])
           /\ screens'[p] = b.screens[p]
    BY <2>1, <2>2, reconcile_updatesIs DEF IInv
  <2>4. Held(screens[p])
    BY DEF IInv, DesktopInv, ScreensAreHeld
  <2>5. screens[p].content \in Nat /\ screens[p].content = screens[p].revision
    BY <2>4 DEF Held, Screen
  <2>6. CASE screens'[p] = screens[p]
    BY <2>5, <2>6
  <2>7. CASE p \in DOMAIN b.screens /\ is_newer(p, b.screens[p]) /\ screens'[p] = b.screens[p]
    <3>1. Held(b.screens[p])
      BY <2>2, <2>7 DEF IsAnswer
    <3>2. b.screens[p].content \in Nat /\ b.screens[p].content = b.screens[p].revision
      BY <3>1 DEF Held, Screen
    <3>3. b.screens[p].revision > screens[p].revision
      BY <2>7 DEF is_newer
    <3> QED BY <2>5, <2>7, <3>2, <3>3
  <2> QED BY <2>3, <2>6, <2>7
<1>2. Spec => [][Forward]_vars
  BY <1>1, Invariance, PTL DEF Spec
<1> QED BY <1>2 DEF UpdatesNeverGoBack, Forward

-----------------------------------------------------------------------------
(* The control client, which MCConnections instantiates as Control.  Its   *)
(* reader thread knows nothing but the order of the waiters, so the        *)
(* invariant is about that order: while the client lives the waiters are   *)
(* the read-to-be replies and then the pipe (RepliesFindTheirWaiters), and *)
(* after it died the replies that are left still match the first waiters,  *)
(* or nobody waits (FirstWaitersNext).  Who waits is waiting with its      *)
(* current chunk and no reply yet (WaitersWait), once (OneWaiterEach).     *)

Replies == [to : Control!Commands, is : {"ok", "error"}]

\* The waiters w are those of the replies r, then those of the commands p.
InOrder(w, r, p) ==
  /\ Len(w) = Len(r) + Len(p)
  /\ \A i \in 1 .. Len(r) : w[i] = r[i].to
  /\ \A i \in 1 .. Len(p) : w[Len(r) + i] = p[i]

WaitersWait ==
  \A i \in 1 .. Len(pending) :
    /\ caller[pending[i].call] = "waiting" /\ slot[pending[i].call] = "empty"
    /\ pending[i].chunk = chunk[pending[i].call]

OneWaiterEach ==
  \A i, j \in 1 .. Len(pending) : pending[i].call = pending[j].call => i = j

AnsweredWait == \A c \in Calls : slot[c] # "empty" => caller[c] = "waiting"

NobodyGivesUp == ~slow => \A c \in Calls : caller[c] # "timedOut"

AliveWhileUp == process = "up" => alive

WaitInv ==
  /\ WaitersWait /\ OneWaiterEach /\ AnsweredWait /\ NobodyGivesUp /\ AliveWhileUp

FirstWaitersNext ==
  ~slow =>
    \/ process = "gone" /\ pending = <<>>
    \/ /\ Len(replies) <= Len(pending)
       /\ \A i \in 1 .. Len(replies) : pending[i] = replies[i].to

OrderInv == Control!RepliesFindTheirWaiters /\ FirstWaitersNext

IsTyped(r) == Control!Typed(r.call, r.chunk)

RepliesAreTyped ==
  \A i \in 1 .. Len(replies) : replies[i].is = "ok" => IsTyped(replies[i].to)

SlotsAreTyped == ~slow => \A c \in Calls : slot[c] = "ok" => Control!Typed(c, chunk[c])

ChunksAreTyped ==
  \A c \in Calls :
    /\ chunk[c] <= size[c]
    /\ ~slow => \A k \in 1 .. chunk[c] - 1 : Control!Typed(c, k)

TypedInv == RepliesAreTyped /\ SlotsAreTyped /\ ChunksAreTyped /\ Control!AcknowledgedIsTyped

ControlInv == Control!TypeOK /\ WaitInv /\ OrderInv /\ TypedInv

-----------------------------------------------------------------------------
(* The order of waiters, replies and commands. *)

LEMMA InOrderIs ==
  ASSUME NEW w \in Seq(Control!Commands), NEW r \in Seq(Replies), NEW p \in Seq(Control!Commands)
  PROVE  InOrder(w, r, p) <=> w = [i \in DOMAIN r |-> r[i].to] \o p
<1> DEFINE named == [i \in DOMAIN r |-> r[i].to]
           all == named \o p
<1>1. DOMAIN r = 1 .. Len(r) /\ Len(r) \in Nat /\ Len(p) \in Nat /\ Len(w) \in Nat
      /\ \A i \in 1 .. Len(r) : r[i] \in Replies
  OBVIOUS
<1>2. \A i \in 1 .. Len(r) : r[i].to \in Control!Commands
  BY <1>1 DEF Replies
<1>3. named = [i \in 1 .. Len(r) |-> r[i].to]
  BY <1>1
<1>4. named \in Seq(Control!Commands) /\ Len(named) = Len(r)
      /\ \A i \in 1 .. Len(r) : named[i] = r[i].to
  <2>1. named \in [1 .. Len(r) -> Control!Commands] /\ \A i \in 1 .. Len(r) : named[i] = r[i].to
    BY <1>2, <1>3
  <2> HIDE DEF named
  <2> QED BY <2>1, <1>1
<1> HIDE DEF named
<1>5. /\ all \in Seq(Control!Commands) /\ Len(all) = Len(r) + Len(p)
      /\ \A i \in 1 .. Len(r) + Len(p) :
           all[i] = IF i <= Len(r) THEN named[i] ELSE p[i - Len(r)]
  <2>1. /\ all \in Seq(Control!Commands) /\ Len(all) = Len(named) + Len(p)
        /\ \A i \in 1 .. Len(named) + Len(p) :
             all[i] = IF i <= Len(named) THEN named[i] ELSE p[i - Len(named)]
    BY <1>4, ConcatProperties
  <2> HIDE DEF all
  <2> QED BY <2>1, <1>4
<1>6. \A i \in 1 .. Len(r) : i \in 1 .. Len(r) + Len(p) /\ i <= Len(r)
  BY <1>1
<1>7. \A i \in 1 .. Len(p) : /\ Len(r) + i \in 1 .. Len(r) + Len(p)
                             /\ ~ (Len(r) + i <= Len(r)) /\ (Len(r) + i) - Len(r) = i
  BY <1>1
<1> HIDE DEF all
<1>8. /\ \A i \in 1 .. Len(r) : all[i] = r[i].to
      /\ \A i \in 1 .. Len(p) : all[Len(r) + i] = p[i]
  BY <1>4, <1>5, <1>6, <1>7
<1>9. ASSUME w = all PROVE InOrder(w, r, p)
  BY <1>5, <1>8, <1>9 DEF InOrder
<1>10. ASSUME InOrder(w, r, p) PROVE w = all
  <2>1. Len(w) = Len(r) + Len(p)
    BY <1>10 DEF InOrder
  <2>2. ASSUME NEW i \in 1 .. Len(w) PROVE w[i] = all[i]
    <3>1. CASE i <= Len(r)
      <4>1. i \in 1 .. Len(r)
        BY <1>1, <3>1
      <4> QED BY <4>1, <1>8, <1>10 DEF InOrder
    <3>2. CASE ~ (i <= Len(r))
      <4>1. i - Len(r) \in 1 .. Len(p) /\ Len(r) + (i - Len(r)) = i
        BY <1>1, <2>1, <3>2
      <4>2. w[Len(r) + (i - Len(r))] = p[i - Len(r)]
        BY <4>1, <1>10 DEF InOrder
      <4>3. all[Len(r) + (i - Len(r))] = p[i - Len(r)]
        BY <4>1, <1>8
      <4> QED BY <4>1, <4>2, <4>3
    <3> QED BY <3>1, <3>2
  <2> QED BY <2>1, <2>2, <1>5, SeqEqual
<1> QED BY <1>9, <1>10 DEF all, named

\* A command that is queued and written is the last in both.
LEMMA InOrderWrite ==
  ASSUME NEW w \in Seq(Control!Commands), NEW r \in Seq(Replies), NEW p \in Seq(Control!Commands),
         NEW x \in Control!Commands, InOrder(w, r, p)
  PROVE  InOrder(Append(w, x), r, Append(p, x))
<1> DEFINE v == Append(w, x)
           q == Append(p, x)
<1>1. /\ Len(v) = Len(w) + 1 /\ v[Len(w) + 1] = x /\ \A i \in 1 .. Len(w) : v[i] = w[i]
      /\ Len(q) = Len(p) + 1 /\ q[Len(p) + 1] = x /\ \A i \in 1 .. Len(p) : q[i] = p[i]
      /\ Len(w) \in Nat /\ Len(r) \in Nat /\ Len(p) \in Nat
  OBVIOUS
<1> HIDE DEF v, q
<1>2. Len(v) = Len(r) + Len(q)
  BY <1>1 DEF InOrder
<1>3. \A i \in 1 .. Len(r) : v[i] = r[i].to
  <2>1. \A i \in 1 .. Len(r) : i \in 1 .. Len(w)
    BY <1>1 DEF InOrder
  <2> QED BY <2>1, <1>1 DEF InOrder
<1>4. ASSUME NEW i \in 1 .. Len(q) PROVE v[Len(r) + i] = q[i]
  <2>1. CASE i \in 1 .. Len(p)
    <3>1. Len(r) + i \in 1 .. Len(w)
      BY <1>1, <2>1 DEF InOrder
    <3> QED BY <3>1, <2>1, <1>1 DEF InOrder
  <2>2. CASE i = Len(p) + 1
    <3>1. Len(r) + i = Len(w) + 1
      BY <1>1, <2>2 DEF InOrder
    <3> QED BY <3>1, <2>2, <1>1
  <2>3. i \in 1 .. Len(p) \/ i = Len(p) + 1
    BY <1>1
  <2> QED BY <2>1, <2>2, <2>3
<1>5. InOrder(v, r, q)
  BY <1>2, <1>3, <1>4 DEF InOrder
<1> QED BY <1>5 DEF v, q

\* tmux answers the first command of the pipe.
LEMMA InOrderExecute ==
  ASSUME NEW w \in Seq(Control!Commands), NEW r \in Seq(Replies), NEW p \in Seq(Control!Commands),
         NEW x \in Replies, p # <<>>, x.to = Head(p), InOrder(w, r, p)
  PROVE  InOrder(w, Append(r, x), Tail(p))
<1> DEFINE s == Append(r, x)
           q == Tail(p)
<1>1. /\ Len(s) = Len(r) + 1 /\ s[Len(r) + 1] = x /\ \A i \in 1 .. Len(r) : s[i] = r[i]
      /\ Len(q) = Len(p) - 1 /\ \A i \in 1 .. Len(q) : q[i] = p[i + 1]
      /\ Len(w) \in Nat /\ Len(r) \in Nat /\ Len(p) \in Nat \ {0} /\ Head(p) = p[1]
  OBVIOUS
<1> HIDE DEF s, q
<1>2. Len(w) = Len(s) + Len(q)
  BY <1>1 DEF InOrder
<1>3. ASSUME NEW i \in 1 .. Len(s) PROVE w[i] = s[i].to
  <2>1. CASE i \in 1 .. Len(r)
    BY <2>1, <1>1 DEF InOrder
  <2>2. CASE i = Len(r) + 1
    <3>1. 1 \in 1 .. Len(p)
      BY <1>1
    <3> QED BY <3>1, <2>2, <1>1 DEF InOrder
  <2>3. i \in 1 .. Len(r) \/ i = Len(r) + 1
    BY <1>1
  <2> QED BY <2>1, <2>2, <2>3
<1>4. ASSUME NEW i \in 1 .. Len(q) PROVE w[Len(s) + i] = q[i]
  <2>1. i + 1 \in 1 .. Len(p) /\ Len(r) + (i + 1) = Len(s) + i
    BY <1>1
  <2>2. w[Len(r) + (i + 1)] = p[i + 1]
    BY <2>1 DEF InOrder
  <2> QED BY <2>1, <2>2, <1>1
<1>5. InOrder(w, s, q)
  BY <1>2, <1>3, <1>4 DEF InOrder
<1> QED BY <1>5 DEF s, q

\* The reader takes the first reply, and the first waiter is the one it is for.
LEMMA InOrderRead ==
  ASSUME NEW w \in Seq(Control!Commands), NEW r \in Seq(Replies), NEW p \in Seq(Control!Commands),
         r # <<>>, InOrder(w, r, p)
  PROVE  w # <<>> /\ Head(w) = Head(r).to /\ InOrder(Tail(w), Tail(r), p)
<1>1. Len(w) \in Nat /\ Len(p) \in Nat /\ Len(r) \in Nat \ {0} /\ 1 \in 1 .. Len(r)
  OBVIOUS
<1>2. w # <<>> /\ Len(w) \in Nat \ {0}
  BY <1>1 DEF InOrder
<1> DEFINE v == Tail(w)
           s == Tail(r)
<1>3. /\ Len(v) = Len(w) - 1 /\ \A i \in 1 .. Len(v) : v[i] = w[i + 1]
      /\ Len(s) = Len(r) - 1 /\ \A i \in 1 .. Len(s) : s[i] = r[i + 1]
      /\ Head(w) = w[1] /\ Head(r) = r[1]
  BY <1>1, <1>2
<1> HIDE DEF v, s
<1>4. Head(w) = Head(r).to
  BY <1>1, <1>3 DEF InOrder
<1>5. Len(v) = Len(s) + Len(p)
  BY <1>1, <1>3 DEF InOrder
<1>6. ASSUME NEW i \in 1 .. Len(s) PROVE v[i] = s[i].to
  <2>1. i + 1 \in 1 .. Len(r) /\ i \in 1 .. Len(v)
    BY <1>1, <1>3, <1>5
  <2> QED BY <2>1, <1>3 DEF InOrder
<1>7. ASSUME NEW i \in 1 .. Len(p) PROVE v[Len(s) + i] = p[i]
  <2>1. Len(s) + i \in 1 .. Len(v) /\ (Len(s) + i) + 1 = Len(r) + i
    BY <1>1, <1>3, <1>5
  <2>2. v[Len(s) + i] = w[Len(r) + i]
    BY <2>1, <1>3
  <2> QED BY <2>2 DEF InOrder
<1>8. InOrder(v, s, p)
  BY <1>5, <1>6, <1>7 DEF InOrder
<1> QED BY <1>2, <1>4, <1>8 DEF v, s

-----------------------------------------------------------------------------
(* What the pieces of the actions leave as it was. *)

LEMMA QueueTypes ==
  ASSUME Control!TypeOK
  PROVE  /\ pending \in Seq(Control!Commands) /\ pipe \in Seq(Control!Commands)
         /\ typed \in Seq(Control!Commands)
         /\ replies \in Seq(Replies) /\ Len(pending) \in Nat /\ Len(replies) \in Nat
         /\ DOMAIN pending = 1 .. Len(pending)
         /\ \A i \in 1 .. Len(pending) : pending[i] \in Control!Commands /\ pending[i].call \in Calls
         /\ \A c \in Calls : chunk[c] \in 1 .. Chunks /\ size[c] \in 1 .. Chunks
<1>1. /\ pending \in Seq(Control!Commands) /\ pipe \in Seq(Control!Commands)
      /\ typed \in Seq(Control!Commands)
      /\ replies \in Seq(Replies)
  BY DEF Control!TypeOK, Replies
<1>2. \A i \in 1 .. Len(pending) : pending[i] \in Control!Commands
  BY <1>1
<1>3. \A i \in 1 .. Len(pending) : pending[i].call \in Calls
  BY <1>2 DEF Control!Commands
<1>4. \A c \in Calls : chunk[c] \in 1 .. Chunks /\ size[c] \in 1 .. Chunks
  BY DEF Control!TypeOK
<1> QED BY <1>1, <1>2, <1>3, <1>4

\* What a terminal received it keeps.
LEMMA TypedStays ==
  ASSUME Control!TypeOK, NEW new \in Seq(Control!Commands), typed' = typed \o new
  PROVE  typed' \in Seq(Control!Commands) /\ \A c, k : Control!Typed(c, k) => Control!Typed(c, k)'
<1>1. typed \in Seq(Control!Commands)
  BY DEF Control!TypeOK
<1>2. /\ typed' \in Seq(Control!Commands) /\ DOMAIN typed = 1 .. Len(typed)
      /\ DOMAIN typed' = 1 .. Len(typed) + Len(new)
      /\ Len(typed) \in Nat /\ Len(new) \in Nat
      /\ \A i \in 1 .. Len(typed) : typed'[i] = typed[i]
  BY <1>1, ConcatProperties
<1>3. 1 .. Len(typed) \subseteq 1 .. Len(typed) + Len(new)
  BY <1>2
<1> QED BY <1>2, <1>3 DEF Control!Typed

TypedGoesOn == \A c, k : Control!Typed(c, k) => Control!Typed(c, k)'

LEMMA TypedUnchanged == UNCHANGED typed => TypedGoesOn
BY DEF TypedGoesOn, Control!Typed

LEMMA DiesIs ==
  ASSUME Control!TypeOK, Control!ProcessDies
  PROVE  /\ process' = "gone" /\ pipe' = <<>> /\ typed' \in Seq(Control!Commands) /\ TypedGoesOn
<1>1. PICK n \in 0 .. Len(pipe) : typed' = typed \o SubSeq(pipe, 1, n)
  BY DEF Control!ProcessDies
<1>2. SubSeq(pipe, 1, n) \in Seq(Control!Commands)
  <2>1. pipe \in Seq(Control!Commands)
    BY DEF Control!TypeOK
  <2> QED BY <2>1
<1> QED BY <1>1, <1>2, TypedStays DEF Control!ProcessDies, TypedGoesOn

LEMMA FailIs ==
  ASSUME Control!TypeOK, Control!fail_pending
  PROVE  /\ pending' = <<>>
         /\ slot' \in [Calls -> {"empty", "ok", "error", "failed"}]
         /\ \A c \in Calls :
              \/ slot'[c] = slot[c]
              \/ slot'[c] = "failed" /\ \E i \in 1 .. Len(pending) : pending[i].call = c
BY QueueTypes DEF Control!TypeOK, Control!fail_pending

LEMMA InvalidateIs ==
  ASSUME Control!TypeOK, AliveWhileUp, Control!invalidate
  PROVE  /\ process' = "gone" /\ alive' = FALSE /\ Control!fail_pending
         /\ pipe' \in Seq(Control!Commands) /\ typed' \in Seq(Control!Commands) /\ TypedGoesOn
<1>1. CASE alive /\ process # "gone"
  BY <1>1, DiesIs DEF Control!invalidate
<1>2. CASE ~ (alive /\ process # "gone")
  <2>1. process = "gone"
    BY <1>2 DEF Control!TypeOK, AliveWhileUp
  <2> QED BY <1>2, <2>1, TypedUnchanged DEF Control!invalidate, Control!TypeOK
<1> QED BY <1>1, <1>2 DEF Control!invalidate

\* What was typed stays typed, and nobody learns anything new.
LEMMA TypedKeeps ==
  ASSUME TypedInv, TypedGoesOn, UNCHANGED <<slow, size, chunk>>, RepliesAreTyped',
         \A c \in Calls : slot'[c] = "ok" => slot[c] = "ok",
         \A c \in Calls : caller'[c] = "delivered" => caller[c] = "delivered"
  PROVE  TypedInv'
<1>1. SlotsAreTyped'
  <2>1. ~slow => \A c \in Calls : slot'[c] = "ok" => Control!Typed(c, chunk[c])
    BY DEF TypedInv, SlotsAreTyped
  <2>2. ASSUME ~slow, NEW c \in Calls, slot'[c] = "ok" PROVE Control!Typed(c, chunk[c])'
    <3>1. PICK k : k = chunk[c]
      OBVIOUS
    <3>2. Control!Typed(c, k)'
      BY <2>1, <2>2, <3>1 DEF TypedGoesOn
    <3> QED BY <3>1, <3>2 DEF Control!Typed
  <2> QED BY <2>2 DEF SlotsAreTyped
<1>2. ChunksAreTyped'
  <2>1. \A c \in Calls : ~slow => \A k \in 1 .. chunk[c] - 1 : Control!Typed(c, k)'
    BY DEF TypedInv, ChunksAreTyped, TypedGoesOn
  <2> QED BY <2>1 DEF TypedInv, ChunksAreTyped
<1>3. Control!AcknowledgedIsTyped'
  <2>1. ~slow => \A c \in Calls :
                   caller[c] = "delivered" => \A k \in 1 .. size[c] : Control!Typed(c, k)'
    BY DEF TypedInv, Control!AcknowledgedIsTyped, TypedGoesOn
  <2> QED BY <2>1 DEF Control!AcknowledgedIsTyped
<1> QED BY <1>1, <1>2, <1>3 DEF TypedInv

\* The replies that are left are as they were.
LEMMA RepliesStay ==
  ASSUME TypedInv, TypedGoesOn, UNCHANGED replies
  PROVE  RepliesAreTyped'
<1> SUFFICES ASSUME NEW i \in 1 .. Len(replies), replies[i].is = "ok"
             PROVE  IsTyped(replies[i].to)'
  BY DEF RepliesAreTyped
<1>1. PICK c, k : c = replies[i].to.call /\ k = replies[i].to.chunk
  OBVIOUS
<1>2. Control!Typed(c, k)
  BY <1>1 DEF TypedInv, RepliesAreTyped, IsTyped
<1>3. Control!Typed(c, k)'
  BY <1>2 DEF TypedGoesOn
<1> QED BY <1>1, <1>3 DEF IsTyped, Control!Typed

\* A gone client owes nobody the order.
LEMMA GoneOrder ==
  ASSUME process' = "gone", pending' = <<>>
  PROVE  OrderInv'
BY DEF OrderInv, Control!RepliesFindTheirWaiters, FirstWaitersNext

-----------------------------------------------------------------------------
(* The actions of a call. *)

LEMMA CheckAliveKeeps ==
  ASSUME ControlInv, NEW c \in Calls, Control!CheckAlive(c)
  PROVE  ControlInv'
<1>0. Control!TypeOK
  BY DEF ControlInv
<1>1. /\ caller[c] = "run"
      /\ caller' = [caller EXCEPT ![c] = IF alive THEN "write" ELSE "unsent"]
      /\ UNCHANGED <<slow, size, chunk, slot, pending, pipe, replies, process, reader, alive, typed>>
  BY DEF Control!CheckAlive, Control!Becomes, Control!Classify
<1>2. Control!TypeOK'
  BY <1>0, <1>1 DEF Control!TypeOK, Control!Results, Control!Commands
<1>3. caller'[c] \in {"write", "unsent"} /\ \A d \in Calls : d # c => caller'[d] = caller[d]
  BY <1>0, <1>1 DEF Control!TypeOK
<1>4. \A d \in Calls : /\ caller[d] = "waiting" => caller'[d] = "waiting"
                       /\ caller'[d] = "timedOut" => caller[d] = "timedOut"
                       /\ caller[d] = "timedOut" => caller'[d] = "timedOut"
                       /\ caller'[d] = "delivered" => caller[d] = "delivered"
  BY <1>1, <1>3
<1>5. WaitInv'
  <2>1. \A i \in 1 .. Len(pending) : pending[i].call \in Calls
    BY <1>0, QueueTypes
  <2> QED
    BY <2>1, <1>1, <1>4
       DEF ControlInv, WaitInv, WaitersWait, OneWaiterEach, AnsweredWait, NobodyGivesUp, AliveWhileUp
<1>6. OrderInv'
  BY <1>1, <1>4 DEF ControlInv, OrderInv, Control!RepliesFindTheirWaiters, FirstWaitersNext
<1>7. TypedInv'
  <2>1. RepliesAreTyped' /\ TypedGoesOn
    BY <1>1, TypedUnchanged, RepliesStay DEF ControlInv
  <2> QED BY <2>1, <1>1, <1>4, TypedKeeps DEF ControlInv
<1> QED BY <1>2, <1>5, <1>6, <1>7 DEF ControlInv

\* The waiter and the line enter their queues together.
LEMMA QueueAndWriteKeeps ==
  ASSUME ControlInv, NEW c \in Calls, Control!QueueAndWrite(c)
  PROVE  ControlInv'
<1>0. Control!TypeOK
  BY DEF ControlInv
<1>1. /\ caller[c] = "write" /\ process # "gone"
      /\ pending' = Append(pending, Control!Current(c)) /\ pipe' = Append(pipe, Control!Current(c))
      /\ caller' = [caller EXCEPT ![c] = "waiting"]
      /\ UNCHANGED <<slow, size, chunk, slot, replies, process, reader, alive, typed>>
  BY DEF Control!QueueAndWrite, Control!Becomes
<1>2. /\ Control!Current(c) \in Control!Commands /\ Control!Current(c).call = c
      /\ Control!Current(c).chunk = chunk[c]
      /\ process = "up"
  BY <1>0, <1>1 DEF Control!TypeOK, Control!Current, Control!Commands
<1> DEFINE l == Len(pending)
<1>3. /\ pending' \in Seq(Control!Commands) /\ pipe' \in Seq(Control!Commands)
      /\ Len(pending') = l + 1 /\ pending'[l + 1] = Control!Current(c)
      /\ \A i \in 1 .. l : pending'[i] = pending[i]
      /\ l \in Nat /\ pending \in Seq(Control!Commands) /\ pipe \in Seq(Control!Commands)
      /\ replies \in Seq(Replies)
  BY <1>0, <1>1, <1>2, QueueTypes, AppendProperties
<1>4. Control!TypeOK'
  BY <1>0, <1>1, <1>3 DEF Control!TypeOK, Control!Results, Control!Commands
<1>5. \A i \in 1 .. Len(pending') : i \in 1 .. l \/ i = l + 1
  BY <1>3
<1>6. caller'[c] = "waiting" /\ \A d \in Calls : d # c => caller'[d] = caller[d]
  BY <1>0, <1>1 DEF Control!TypeOK
<1>7. slot[c] = "empty"
  BY <1>1 DEF ControlInv, WaitInv, AnsweredWait
<1>8. \A i \in 1 .. l : pending[i].call \in Calls /\ pending[i].call # c
  BY <1>0, <1>1, QueueTypes DEF ControlInv, WaitInv, WaitersWait
<1> HIDE DEF l
<1>9. WaitInv'
  <2>1. WaitersWait'
    <3>1. ASSUME NEW i \in 1 .. l
          PROVE  /\ caller'[pending'[i].call] = "waiting" /\ slot'[pending'[i].call] = "empty"
                 /\ pending'[i].chunk = chunk'[pending'[i].call]
      BY SMTT(30), <1>1, <1>3, <1>6, <1>8 DEF ControlInv, WaitInv, WaitersWait, l
    <3>2. /\ caller'[pending'[l + 1].call] = "waiting" /\ slot'[pending'[l + 1].call] = "empty"
          /\ pending'[l + 1].chunk = chunk'[pending'[l + 1].call]
      BY <1>1, <1>2, <1>3, <1>6, <1>7
    <3> QED BY <1>5, <3>1, <3>2 DEF WaitersWait
  <2>2. OneWaiterEach'
    <3>1. \A i, j \in 1 .. l : pending'[i].call = pending'[j].call => i = j
      BY <1>3 DEF ControlInv, WaitInv, OneWaiterEach, l
    <3>2. pending'[l + 1].call = c /\ \A i \in 1 .. l : pending'[i].call # c
      BY <1>2, <1>3, <1>8
    <3> QED BY <1>5, <3>1, <3>2 DEF OneWaiterEach
  <2>3. AnsweredWait' /\ NobodyGivesUp' /\ AliveWhileUp'
    BY <1>1, <1>6 DEF ControlInv, WaitInv, AnsweredWait, NobodyGivesUp, AliveWhileUp
  <2> QED BY <2>1, <2>2, <2>3 DEF WaitInv
<1>10. Control!RepliesFindTheirWaiters'
  <2>1. \A d \in Calls : caller'[d] # "timedOut" => caller[d] # "timedOut"
    BY <1>1, <1>6
  <2>2. ASSUME alive, \A d \in Calls : caller[d] # "timedOut"
        PROVE  pending' = [i \in DOMAIN replies |-> replies[i].to] \o pipe'
    <3>1. InOrder(pending, replies, pipe)
      BY <1>2, <1>3, <2>2, InOrderIs DEF ControlInv, OrderInv, Control!RepliesFindTheirWaiters
    <3>2. InOrder(pending', replies, pipe')
      BY <1>1, <1>2, <1>3, <3>1, InOrderWrite
    <3>3. PICK w, r, p : w = pending' /\ r = replies /\ p = pipe'
      OBVIOUS
    <3>4. /\ w \in Seq(Control!Commands) /\ r \in Seq(Replies) /\ p \in Seq(Control!Commands)
          /\ InOrder(w, r, p)
      BY <1>3, <3>2, <3>3
    <3>5. w = [i \in DOMAIN r |-> r[i].to] \o p
      BY <3>4, InOrderIs
    <3> QED BY <3>3, <3>5
  <2> QED BY <1>1, <2>1, <2>2 DEF Control!RepliesFindTheirWaiters
<1>11. FirstWaitersNext'
  <2> SUFFICES ASSUME ~slow PROVE FirstWaitersNext'
    BY <1>1 DEF FirstWaitersNext
  <2>1. Len(replies) <= l /\ \A i \in 1 .. Len(replies) : pending[i] = replies[i].to
    BY <1>2 DEF ControlInv, OrderInv, FirstWaitersNext, l
  <2>2. Len(replies) \in Nat /\ \A i \in 1 .. Len(replies) : i \in 1 .. l
    BY <1>3, <2>1
  <2> QED BY <1>1, <1>3, <2>1, <2>2 DEF FirstWaitersNext
<1>12. TypedInv'
  <2>1. RepliesAreTyped' /\ TypedGoesOn
    BY <1>1, TypedUnchanged, RepliesStay DEF ControlInv
  <2>2. \A d \in Calls : caller'[d] = "delivered" => caller[d] = "delivered"
    BY <1>6
  <2> QED BY <2>1, <2>2, <1>1, TypedKeeps DEF ControlInv
<1> QED BY <1>4, <1>9, <1>10, <1>11, <1>12 DEF ControlInv, OrderInv

\* A call that gives the client up takes its result and leaves nobody waiting.
LEMMA GivingUpKeeps ==
  ASSUME ControlInv, NEW c \in Calls, caller[c] \in {"write", "timedOut"}, Control!invalidate,
         NEW result \in Control!Results \ {"delivered"}, Control!Becomes(c, result),
         UNCHANGED <<slow, size, chunk, replies, reader>>
  PROVE  ControlInv'
<1>0. Control!TypeOK /\ AliveWhileUp
  BY DEF ControlInv, WaitInv
<1>1. /\ process' = "gone" /\ alive' = FALSE /\ pending' = <<>>
      /\ pipe' \in Seq(Control!Commands) /\ typed' \in Seq(Control!Commands) /\ TypedGoesOn
      /\ slot' \in [Calls -> {"empty", "ok", "error", "failed"}]
      /\ \A d \in Calls :
           \/ slot'[d] = slot[d]
           \/ slot'[d] = "failed" /\ \E i \in 1 .. Len(pending) : pending[i].call = d
  BY <1>0, InvalidateIs, FailIs
<1>2. /\ caller' \in [Calls -> {"run", "write", "waiting", "timedOut"} \cup Control!Results]
      /\ caller'[c] = result /\ \A d \in Calls : d # c => caller'[d] = caller[d]
  BY <1>0 DEF Control!TypeOK, Control!Becomes
<1>3. result \notin {"delivered", "timedOut", "waiting"}
  BY DEF Control!Results
<1>4. Control!TypeOK'
  <2>1. pending' \in Seq(Control!Commands)
    BY <1>1
  <2> QED BY <1>0, <1>1, <1>2, <2>1 DEF Control!TypeOK
<1>5. Len(pending') = 0
  BY <1>1
<1>6. AnsweredWait'
  <2> SUFFICES ASSUME NEW d \in Calls, slot'[d] # "empty" PROVE caller'[d] = "waiting"
    BY DEF AnsweredWait
  <2>1. caller[d] = "waiting"
    BY <1>1 DEF ControlInv, WaitInv, AnsweredWait, WaitersWait
  <2> QED BY <2>1, <1>2
<1>7. WaitInv'
  BY <1>1, <1>2, <1>3, <1>5, <1>6
     DEF ControlInv, WaitInv, WaitersWait, OneWaiterEach, NobodyGivesUp, AliveWhileUp
<1>8. TypedInv'
  <2>1. RepliesAreTyped'
    BY <1>1, RepliesStay DEF ControlInv
  <2>2. \A d \in Calls : /\ slot'[d] = "ok" => slot[d] = "ok"
                         /\ caller'[d] = "delivered" => caller[d] = "delivered"
    BY <1>1, <1>2, <1>3
  <2> QED BY <1>1, <2>1, <2>2, TypedKeeps DEF ControlInv
<1> QED BY <1>1, <1>4, <1>7, <1>8, GoneOrder DEF ControlInv

LEMMA ReceiveKeeps ==
  ASSUME ControlInv, NEW c \in Calls, Control!Receive(c)
  PROVE  ControlInv'
<1>0. Control!TypeOK
  BY DEF ControlInv
<1>1. /\ caller[c] = "waiting" /\ slot[c] # "empty"
      /\ slot' = [slot EXCEPT ![c] = "empty"]
      /\ UNCHANGED <<slow, size, pending, pipe, replies, process, reader, alive, typed>>
  BY DEF Control!Receive
<1>2. /\ slot'[c] = "empty" /\ \A d \in Calls : d # c => slot'[d] = slot[d]
      /\ slot' \in [Calls -> {"empty", "ok", "error", "failed"}]
      /\ slot[c] \in {"ok", "error", "failed"}
      /\ chunk[c] \in Nat /\ size[c] \in Nat /\ chunk[c] <= size[c]
      /\ chunk[c] >= 1 /\ size[c] <= Chunks
  BY <1>0, <1>1, ChunksAssumption DEF Control!TypeOK, ControlInv, TypedInv, ChunksAreTyped
<1>3. \/ /\ slot[c] = "ok" /\ chunk[c] < size[c]
         /\ caller' = [caller EXCEPT ![c] = "run"]
         /\ chunk' = [chunk EXCEPT ![c] = chunk[c] + 1]
      \/ /\ slot[c] = "ok" /\ chunk[c] = size[c]
         /\ caller' = [caller EXCEPT ![c] = "delivered"] /\ chunk' = chunk
      \/ /\ slot[c] # "ok"
         /\ \E result \in {"indeterminate", "unsent"} : caller' = [caller EXCEPT ![c] = result]
         /\ chunk' = chunk
  <2>1. CASE slot[c] = "ok" /\ chunk[c] < size[c]
    <3>1. ~ (chunk[c] = size[c]) /\ ~ (slot[c] \in {"error", "failed"})
      BY <1>2, <2>1
    <3> QED BY <2>1, <3>1 DEF Control!Receive, Control!Becomes
  <2>2. CASE slot[c] = "ok" /\ chunk[c] = size[c]
    <3>1. ~ (chunk[c] < size[c]) /\ ~ (slot[c] \in {"error", "failed"})
      BY <1>2, <2>2
    <3> QED BY <2>2, <3>1 DEF Control!Receive, Control!Becomes
  <2>3. CASE slot[c] \in {"error", "failed"}
    <3>1. slot[c] # "ok"
      BY <2>3
    <3> QED BY <2>3, <3>1 DEF Control!Receive, Control!Becomes, Control!Classify
  <2> QED BY <1>2, <2>1, <2>2, <2>3
<1>4. /\ caller' \in [Calls -> {"run", "write", "waiting", "timedOut"} \cup Control!Results]
      /\ caller'[c] \in {"run"} \cup Control!Results
      /\ \A d \in Calls : d # c => caller'[d] = caller[d]
  BY <1>0, <1>3 DEF Control!TypeOK, Control!Results
<1>5. /\ chunk' \in [Calls -> 1 .. Chunks]
      /\ \/ chunk'[c] = chunk[c]
         \/ chunk'[c] = chunk[c] + 1 /\ chunk[c] < size[c] /\ slot[c] = "ok"
      /\ \A d \in Calls : d # c => chunk'[d] = chunk[d]
  <2>1. CASE chunk' = chunk
    BY <1>0, <2>1 DEF Control!TypeOK
  <2>2. CASE chunk[c] < size[c] /\ slot[c] = "ok" /\ chunk' = [chunk EXCEPT ![c] = chunk[c] + 1]
    <3>1. chunk[c] + 1 \in 1 .. Chunks
      BY <1>2, <2>2, ChunksAssumption
    <3> QED BY <1>0, <2>2, <3>1 DEF Control!TypeOK
  <2> QED BY <1>3, <2>1, <2>2
<1>6. Control!TypeOK'
  BY <1>0, <1>1, <1>2, <1>4, <1>5 DEF Control!TypeOK
<1>7. \A i \in 1 .. Len(pending) : pending[i].call \in Calls /\ pending[i].call # c
  BY <1>0, <1>1, QueueTypes DEF ControlInv, WaitInv, WaitersWait
<1>8. WaitInv'
  <2>1. WaitersWait' /\ OneWaiterEach'
    BY <1>1, <1>2, <1>4, <1>5, <1>7 DEF ControlInv, WaitInv, WaitersWait, OneWaiterEach
  <2>2. AnsweredWait'
    BY <1>1, <1>2, <1>4 DEF ControlInv, WaitInv, AnsweredWait
  <2>3. NobodyGivesUp' /\ AliveWhileUp'
    BY <1>1, <1>4 DEF ControlInv, WaitInv, NobodyGivesUp, AliveWhileUp, Control!Results
  <2> QED BY <2>1, <2>2, <2>3 DEF WaitInv
<1>9. OrderInv'
  <2>1. \A d \in Calls : caller'[d] # "timedOut" => caller[d] # "timedOut"
    BY <1>1, <1>4
  <2> QED BY <1>1, <2>1
       DEF ControlInv, OrderInv, Control!RepliesFindTheirWaiters, FirstWaitersNext
<1>10. TypedGoesOn /\ RepliesAreTyped'
  BY <1>1, TypedUnchanged, RepliesStay DEF ControlInv
<1>11. \A d, k : Control!Typed(d, k) => Control!Typed(d, k)'
  BY <1>10 DEF TypedGoesOn
<1>12. SlotsAreTyped'
  <2> SUFFICES ASSUME ~slow, NEW d \in Calls, slot'[d] = "ok" PROVE Control!Typed(d, chunk[d])'
    BY <1>1 DEF SlotsAreTyped
  <2>1. d # c /\ slot[d] = "ok"
    BY <1>2
  <2>2. PICK k : k = chunk[d] /\ k = chunk'[d]
    BY <1>5, <2>1
  <2>3. Control!Typed(d, k)
    BY <2>1, <2>2 DEF ControlInv, TypedInv, SlotsAreTyped
  <2> QED BY <1>11, <2>2, <2>3 DEF Control!Typed
<1>13. ASSUME ~slow, slot[c] = "ok" PROVE \A k \in 1 .. chunk[c] : Control!Typed(c, k)'
  <2>1. \A k \in 1 .. chunk[c] : k \in 1 .. chunk[c] - 1 \/ k = chunk[c]
    BY <1>2
  <2>2. \A k \in 1 .. chunk[c] : Control!Typed(c, k)
    BY <1>13, <2>1 DEF ControlInv, TypedInv, SlotsAreTyped, ChunksAreTyped
  <2> QED BY <1>11, <2>2
<1>14. ChunksAreTyped'
  <2> SUFFICES ASSUME NEW d \in Calls
               PROVE  /\ chunk'[d] <= size[d]
                      /\ ~slow => \A k \in 1 .. chunk'[d] - 1 : Control!Typed(d, k)'
    BY <1>1 DEF ChunksAreTyped
  <2>1. CASE chunk'[d] = chunk[d]
    BY <1>11, <2>1 DEF ControlInv, TypedInv, ChunksAreTyped
  <2>2. CASE d = c /\ chunk'[c] = chunk[c] + 1 /\ chunk[c] < size[c] /\ slot[c] = "ok"
    <3>1. chunk'[c] <= size[c] /\ chunk'[c] - 1 = chunk[c]
      BY <1>2, <2>2
    <3> QED BY <1>13, <2>2, <3>1
  <2> QED BY <1>5, <2>1, <2>2
<1>15. Control!AcknowledgedIsTyped'
  <2> SUFFICES ASSUME ~slow, NEW d \in Calls, caller'[d] = "delivered"
               PROVE  \A k \in 1 .. size[d] : Control!Typed(d, k)'
    BY <1>1 DEF Control!AcknowledgedIsTyped
  <2>1. CASE d # c
    BY <1>4, <1>11, <2>1 DEF ControlInv, TypedInv, Control!AcknowledgedIsTyped
  <2>2. CASE d = c
    <3>1. slot[c] = "ok" /\ chunk[c] = size[c]
      BY <1>0, <1>3, <2>2 DEF Control!TypeOK
    <3> QED BY <1>13, <2>2, <3>1
  <2> QED BY <2>1, <2>2
<1> QED BY <1>6, <1>8, <1>9, <1>10, <1>12, <1>14, <1>15 DEF ControlInv, TypedInv

\* The waiter leaves: from now on nothing is said of the order until the client
\* is given up.
LEMMA TimeOutKeeps ==
  ASSUME ControlInv, NEW c \in Calls, Control!TimeOut(c)
  PROVE  ControlInv'
<1>0. Control!TypeOK
  BY DEF ControlInv
<1> DEFINE T == {r \in Control!Commands : r.call # c}
<1>1. /\ slow /\ caller[c] = "waiting" /\ slot[c] = "empty"
      /\ pending' = Control!retain(pending, T)
      /\ caller' = [caller EXCEPT ![c] = "timedOut"]
      /\ UNCHANGED <<slow, size, chunk, slot, pipe, replies, process, reader, alive, typed>>
  BY DEF Control!TimeOut, Control!Becomes
<1>2. PICK f \in [1 .. Len(pending') -> 1 .. Len(pending)] :
        /\ pending' \in Seq(Control!Commands)
        /\ \A i \in 1 .. Len(pending') : pending'[i] = pending[f[i]] /\ pending[f[i]] \in T
        /\ \A i, j \in 1 .. Len(pending') : i < j => f[i] < f[j]
  <2>1. pending \in Seq(Control!Commands)
    BY <1>0, QueueTypes
  <2>2. Control!retain(pending, T) = retain(pending, T)
    BY DEF Control!retain, retain
  <2> HIDE DEF T
  <2> QED BY <1>1, <2>1, <2>2, RetainIs
<1>3. caller'[c] = "timedOut" /\ \A d \in Calls : d # c => caller'[d] = caller[d]
  BY <1>0, <1>1 DEF Control!TypeOK
<1>4. Control!TypeOK'
  BY <1>0, <1>1, <1>2 DEF Control!TypeOK
<1>5. \A i \in 1 .. Len(pending') : pending'[i].call \in Calls /\ pending'[i].call # c
  BY <1>2 DEF Control!Commands
<1>6. WaitersWait'
  <2> HIDE DEF T
  <2>1. \A i \in 1 .. Len(pending') : f[i] \in 1 .. Len(pending) /\ pending'[i] = pending[f[i]]
    BY <1>2
  <2> QED BY <1>1, <1>3, <1>5, <2>1 DEF ControlInv, WaitInv, WaitersWait
<1>7. OneWaiterEach'
  <2> SUFFICES ASSUME NEW i \in 1 .. Len(pending'), NEW j \in 1 .. Len(pending'),
                      pending'[i].call = pending'[j].call, i # j
               PROVE  FALSE
    BY DEF OneWaiterEach
  <2> HIDE DEF T
  <2>1. f[i] = f[j]
    BY <1>2 DEF ControlInv, WaitInv, OneWaiterEach
  <2>2. i < j \/ j < i
    OBVIOUS
  <2>3. f[i] \in Int /\ f[j] \in Int
    BY <1>2
  <2> QED BY <1>2, <2>1, <2>2, <2>3
<1>8. WaitInv'
  <2>1. AnsweredWait' /\ NobodyGivesUp' /\ AliveWhileUp'
    BY <1>1, <1>3 DEF ControlInv, WaitInv, AnsweredWait, NobodyGivesUp, AliveWhileUp
  <2> QED BY <1>6, <1>7, <2>1 DEF WaitInv
<1>9. OrderInv'
  BY <1>1, <1>3 DEF OrderInv, Control!RepliesFindTheirWaiters, FirstWaitersNext
<1>10. TypedInv'
  <2>1. RepliesAreTyped' /\ TypedGoesOn
    BY <1>1, TypedUnchanged, RepliesStay DEF ControlInv
  <2>2. \A d \in Calls : caller'[d] = "delivered" => caller[d] = "delivered"
    BY <1>3
  <2> QED BY <2>1, <2>2, <1>1, TypedKeeps DEF ControlInv
<1> QED BY <1>4, <1>8, <1>9, <1>10 DEF ControlInv

-----------------------------------------------------------------------------
(* tmux, the reader thread and the end of the client. *)

LEMMA TmuxExecutesKeeps == ControlInv /\ Control!TmuxExecutes => ControlInv'
<1> SUFFICES ASSUME ControlInv, Control!TmuxExecutes PROVE ControlInv'
  OBVIOUS
<1>0. Control!TypeOK
  BY DEF ControlInv
<1>1. /\ process = "up" /\ pipe # <<>> /\ pipe' = Tail(pipe)
      /\ UNCHANGED <<slow, size, caller, chunk, slot, pending, process, reader, alive>>
  BY DEF Control!TmuxExecutes
<1>2. PICK h \in Control!Commands : h = Head(pipe)
  BY <1>0, <1>1, QueueTypes
<1>3. PICK x \in Replies :
        /\ x.to = h /\ replies' = Append(replies, x)
        /\ \/ x.is = "ok" /\ typed' = Append(typed, h)
           \/ x.is = "error" /\ typed' = typed
  BY <1>2 DEF Control!TmuxExecutes, Replies
<1> DEFINE l == Len(replies)
<1>4. /\ replies' \in Seq(Replies) /\ Len(replies') = l + 1 /\ replies'[l + 1] = x
      /\ \A i \in 1 .. l : replies'[i] = replies[i]
      /\ l \in Nat /\ replies \in Seq(Replies) /\ pending \in Seq(Control!Commands)
      /\ pipe \in Seq(Control!Commands) /\ pipe' \in Seq(Control!Commands)
  BY <1>0, <1>1, <1>3, QueueTypes, AppendProperties, HeadTailProperties
<1>5. typed' \in Seq(Control!Commands) /\ TypedGoesOn /\ (x.is = "ok" => Control!Typed(h.call, h.chunk)')
  <2>1. CASE x.is = "ok"
    <3>1. typed \in Seq(Control!Commands) /\ <<h>> \in Seq(Control!Commands)
      BY <1>0, QueueTypes
    <3>2. typed' = typed \o <<h>>
      BY <1>3, <2>1, <3>1, AppendIsConcat
    <3>3. typed' \in Seq(Control!Commands) /\ TypedGoesOn
      BY <1>0, <3>1, <3>2, TypedStays DEF TypedGoesOn
    <3>4. Len(typed) + 1 \in DOMAIN typed' /\ typed'[Len(typed) + 1] = h
      BY <1>3, <2>1, <3>1
    <3>5. h = [call |-> h.call, chunk |-> h.chunk]
      BY DEF Control!Commands
    <3> QED BY <3>3, <3>4, <3>5 DEF Control!Typed
  <2>2. CASE x.is # "ok"
    BY <1>0, <1>3, <2>2, QueueTypes, TypedUnchanged
  <2> QED BY <2>1, <2>2
<1>6. Control!TypeOK'
  BY <1>0, <1>1, <1>4, <1>5 DEF Control!TypeOK, Replies
<1>7. WaitInv'
  BY <1>1
       DEF ControlInv, WaitInv, WaitersWait, OneWaiterEach, AnsweredWait, NobodyGivesUp, AliveWhileUp
<1>8. ASSUME alive, \A d \in Calls : caller[d] # "timedOut"
      PROVE  InOrder(pending, replies', pipe')
  <2>1. InOrder(pending, replies, pipe)
    BY <1>1, <1>4, <1>8, InOrderIs DEF ControlInv, OrderInv, Control!RepliesFindTheirWaiters
  <2> QED BY <1>1, <1>2, <1>3, <1>4, <2>1, InOrderExecute
<1>9. Control!RepliesFindTheirWaiters'
  <2>1. ASSUME alive, \A d \in Calls : caller[d] # "timedOut"
        PROVE  pending = [i \in DOMAIN replies' |-> replies'[i].to] \o pipe'
    <3>1. PICK w, r, p : w = pending /\ r = replies' /\ p = pipe'
      OBVIOUS
    <3>2. /\ w \in Seq(Control!Commands) /\ r \in Seq(Replies) /\ p \in Seq(Control!Commands)
          /\ InOrder(w, r, p)
      BY <1>4, <1>8, <2>1, <3>1
    <3>3. w = [i \in DOMAIN r |-> r[i].to] \o p
      BY <3>2, InOrderIs
    <3> QED BY <3>1, <3>3
  <2> QED BY <1>1, <2>1 DEF Control!RepliesFindTheirWaiters
<1>10. FirstWaitersNext'
  <2> SUFFICES ASSUME ~slow PROVE FirstWaitersNext'
    BY <1>1 DEF FirstWaitersNext
  <2>1. InOrder(pending, replies', pipe')
    BY <1>1, <1>8 DEF ControlInv, WaitInv, AliveWhileUp, NobodyGivesUp
  <2>2. Len(replies') <= Len(pending) /\ \A i \in 1 .. Len(replies') : pending[i] = replies'[i].to
    <3>1. Len(replies') \in Nat /\ Len(pipe') \in Nat
      BY <1>4
    <3> QED BY <2>1, <3>1 DEF InOrder
  <2> QED BY <1>1, <2>2 DEF FirstWaitersNext
<1>11. RepliesAreTyped'
  <2>1. ASSUME NEW i \in 1 .. l, replies[i].is = "ok" PROVE IsTyped(replies[i].to)'
    <3>1. PICK c, k : c = replies[i].to.call /\ k = replies[i].to.chunk
                      /\ c = replies'[i].to.call /\ k = replies'[i].to.chunk
      BY <1>4
    <3>2. Control!Typed(c, k)
      BY <2>1, <3>1 DEF ControlInv, TypedInv, RepliesAreTyped, IsTyped
    <3>3. Control!Typed(c, k)'
      BY <1>5, <3>2 DEF TypedGoesOn
    <3> QED BY <3>1, <3>3 DEF IsTyped, Control!Typed
  <2>2. \A i \in 1 .. Len(replies') : i \in 1 .. l \/ i = l + 1
    BY <1>4
  <2> HIDE DEF l
  <2> SUFFICES ASSUME NEW i \in 1 .. Len(replies'), replies'[i].is = "ok"
               PROVE  (\E j \in DOMAIN typed : typed[j] = [call |-> replies[i].to.call,
                                                           chunk |-> replies[i].to.chunk])'
    BY DEF RepliesAreTyped, IsTyped, Control!Typed
  <2>3. CASE i \in 1 .. l
    BY <1>4, <2>1, <2>3 DEF IsTyped, Control!Typed
  <2>4. CASE i = l + 1
    BY <1>3, <1>4, <1>5, <2>4 DEF Control!Typed
  <2> QED BY <2>2, <2>3, <2>4
<1>12. TypedInv'
  BY <1>1, <1>5, <1>11, TypedKeeps DEF ControlInv
<1> QED BY <1>6, <1>7, <1>9, <1>10, <1>12 DEF ControlInv, OrderInv

LEMMA ReaderDeliversKeeps == ControlInv /\ Control!ReaderDelivers => ControlInv'
<1> SUFFICES ASSUME ControlInv, Control!ReaderDelivers PROVE ControlInv'
  OBVIOUS
<1>0. Control!TypeOK
  BY DEF ControlInv
<1>1. /\ replies # <<>> /\ replies' = Tail(replies)
      /\ UNCHANGED <<slow, size, caller, chunk, pipe, process, reader, alive, typed>>
  BY DEF Control!ReaderDelivers
<1>2. PICK x \in Replies : x = Head(replies) /\ x = replies[1]
  BY <1>0, <1>1, QueueTypes
<1>3. /\ replies' \in Seq(Replies) /\ Len(replies') = Len(replies) - 1
      /\ \A i \in 1 .. Len(replies') : replies'[i] = replies[i + 1]
      /\ Len(replies) \in Nat \ {0} /\ replies \in Seq(Replies)
      /\ pending \in Seq(Control!Commands) /\ pipe \in Seq(Control!Commands) /\ Len(pending) \in Nat
  BY <1>0, <1>1, QueueTypes, HeadTailProperties
<1>4. \A i \in 1 .. Len(replies') : i + 1 \in 1 .. Len(replies)
  BY <1>3
<1>5. 1 \in 1 .. Len(replies)
  BY <1>3
<1>6. RepliesAreTyped'
  <2> SUFFICES ASSUME NEW i \in 1 .. Len(replies'), replies'[i].is = "ok"
               PROVE  (\E j \in DOMAIN typed : typed[j] = [call |-> replies[i].to.call,
                                                           chunk |-> replies[i].to.chunk])'
    BY DEF RepliesAreTyped, IsTyped, Control!Typed
  <2>1. replies'[i] = replies[i + 1] /\ i + 1 \in 1 .. Len(replies)
    BY <1>3, <1>4
  <2>2. IsTyped(replies[i + 1].to)
    BY <2>1 DEF ControlInv, TypedInv, RepliesAreTyped
  <2> QED BY <1>1, <2>1, <2>2 DEF IsTyped, Control!Typed
<1>7. CASE pending = <<>>
  <2>1. UNCHANGED <<pending, slot>>
    BY <1>7 DEF Control!ReaderDelivers
  <2>2. Control!TypeOK'
    BY <1>0, <1>1, <1>3, <2>1 DEF Control!TypeOK, Replies
  <2>3. WaitInv'
    BY <1>1, <2>1
       DEF ControlInv, WaitInv, WaitersWait, OneWaiterEach, AnsweredWait, NobodyGivesUp, AliveWhileUp
  <2>4. Len(pending) = 0
    BY <1>7
  <2>5. ~ (process = "up" /\ alive /\ \A c \in Calls : caller[c] # "timedOut")
    <3> SUFFICES ASSUME process = "up" /\ alive /\ \A c \in Calls : caller[c] # "timedOut"
                 PROVE  FALSE
      OBVIOUS
    <3>1. InOrder(pending, replies, pipe)
      BY <1>3, InOrderIs DEF ControlInv, OrderInv, Control!RepliesFindTheirWaiters
    <3> QED BY <1>1, <1>3, <1>7, <3>1, InOrderRead
  <2>6. ~slow => process = "gone"
    BY <1>3, <2>4 DEF ControlInv, OrderInv, FirstWaitersNext
  <2>7. OrderInv'
    BY <1>1, <1>7, <2>1, <2>5, <2>6
         DEF OrderInv, Control!RepliesFindTheirWaiters, FirstWaitersNext
  <2>8. TypedInv'
    BY <1>1, <1>6, <2>1, TypedUnchanged, TypedKeeps DEF ControlInv
  <2> QED BY <2>2, <2>3, <2>7, <2>8 DEF ControlInv
<1>8. CASE pending # <<>>
  <2>1. PICK h \in Control!Commands : h = Head(pending) /\ h = pending[1]
    BY <1>0, <1>8, QueueTypes
  <2>2. /\ pending' = Tail(pending) /\ slot' = [slot EXCEPT ![h.call] = x.is]
        /\ h.call \in Calls /\ x.is \in {"ok", "error"}
    BY <1>2, <1>8, <2>1 DEF Control!ReaderDelivers, Control!Commands, Replies
  <2>3. /\ pending' \in Seq(Control!Commands) /\ Len(pending') = Len(pending) - 1
        /\ \A i \in 1 .. Len(pending') : pending'[i] = pending[i + 1]
        /\ Len(pending) \in Nat \ {0}
    BY <1>3, <1>8, <2>2, HeadTailProperties
  <2>4. 1 \in 1 .. Len(pending) /\ \A i \in 1 .. Len(pending') : i + 1 \in 1 .. Len(pending)
    BY <2>3
  <2>5. slot'[h.call] = x.is /\ \A c \in Calls : c # h.call => slot'[c] = slot[c]
    BY <1>0, <2>2 DEF Control!TypeOK
  <2>6. Control!TypeOK'
    BY <1>0, <1>1, <1>3, <2>2, <2>3 DEF Control!TypeOK, Replies
  <2>7. caller[h.call] = "waiting" /\ h.chunk = chunk[h.call]
    BY <2>1, <2>4 DEF ControlInv, WaitInv, WaitersWait
  <2>8. \A i \in 1 .. Len(pending') :
          pending'[i].call # h.call /\ pending'[i].call \in Calls
    <3>1. \A i \in 1 .. Len(pending') : i + 1 # 1 /\ pending[i + 1].call \in Calls
      BY <1>0, <2>4, QueueTypes
    <3> QED BY <2>1, <2>3, <2>4, <3>1 DEF ControlInv, WaitInv, OneWaiterEach
  <2>9. WaitInv'
    <3>1. WaitersWait'
      <4> SUFFICES ASSUME NEW i \in 1 .. Len(pending')
                   PROVE  /\ caller[pending'[i].call] = "waiting"
                          /\ slot'[pending'[i].call] = "empty"
                          /\ pending'[i].chunk = chunk[pending'[i].call]
        BY <1>1 DEF WaitersWait
      <4>1. pending'[i] = pending[i + 1] /\ i + 1 \in 1 .. Len(pending)
        BY <2>3, <2>4
      <4>2. /\ caller[pending[i + 1].call] = "waiting" /\ slot[pending[i + 1].call] = "empty"
            /\ pending[i + 1].chunk = chunk[pending[i + 1].call]
        BY <4>1 DEF ControlInv, WaitInv, WaitersWait
      <4> QED BY <4>1, <4>2, <2>5, <2>8
    <3>2. OneWaiterEach'
      <4> SUFFICES ASSUME NEW i \in 1 .. Len(pending'), NEW j \in 1 .. Len(pending'),
                          pending'[i].call = pending'[j].call
                   PROVE  i = j
        BY DEF OneWaiterEach
      <4>1. i + 1 = j + 1
        BY <2>3, <2>4 DEF ControlInv, WaitInv, OneWaiterEach
      <4> QED BY <4>1
    <3>3. AnsweredWait' /\ NobodyGivesUp' /\ AliveWhileUp'
      BY <1>1, <2>5, <2>7 DEF ControlInv, WaitInv, AnsweredWait, NobodyGivesUp, AliveWhileUp
    <3> QED BY <3>1, <3>2, <3>3 DEF WaitInv
  <2>10. Control!RepliesFindTheirWaiters'
    <3>1. ASSUME process = "up", alive, \A c \in Calls : caller[c] # "timedOut"
          PROVE  pending' = [i \in DOMAIN replies' |-> replies'[i].to] \o pipe
      <4>1. InOrder(pending, replies, pipe)
        BY <1>3, <3>1, InOrderIs DEF ControlInv, OrderInv, Control!RepliesFindTheirWaiters
      <4>2. InOrder(pending', replies', pipe)
        BY <1>1, <1>3, <2>2, <4>1, InOrderRead
      <4>3. PICK w, r, p : w = pending' /\ r = replies' /\ p = pipe
        OBVIOUS
      <4>4. /\ w \in Seq(Control!Commands) /\ r \in Seq(Replies) /\ p \in Seq(Control!Commands)
            /\ InOrder(w, r, p)
        BY <1>3, <2>3, <4>2, <4>3
      <4>5. w = [i \in DOMAIN r |-> r[i].to] \o p
        BY <4>4, InOrderIs
      <4> QED BY <4>3, <4>5
    <3> QED BY <1>1, <3>1 DEF Control!RepliesFindTheirWaiters
  <2>11. ASSUME ~slow
         PROVE  Len(replies) <= Len(pending)
                /\ \A i \in 1 .. Len(replies) : pending[i] = replies[i].to
    BY <1>8, <2>11 DEF ControlInv, OrderInv, FirstWaitersNext
  <2>12. FirstWaitersNext'
    <3> SUFFICES ASSUME ~slow PROVE FirstWaitersNext'
      BY <1>1 DEF FirstWaitersNext
    <3>1. Len(replies') <= Len(pending')
      BY <1>3, <2>3, <2>11
    <3>2. \A i \in 1 .. Len(replies') : i \in 1 .. Len(pending')
      BY <1>3, <2>3, <3>1
    <3>3. \A i \in 1 .. Len(replies') : pending'[i] = replies'[i].to
      BY <1>3, <1>4, <2>3, <2>11, <3>2
    <3> QED BY <3>1, <3>3 DEF FirstWaitersNext
  <2>13. SlotsAreTyped'
    <3> SUFFICES ASSUME ~slow, NEW c \in Calls, slot'[c] = "ok" PROVE Control!Typed(c, chunk[c])'
      BY <1>1 DEF SlotsAreTyped
    <3>1. Control!Typed(c, chunk[c])
      <4>1. CASE c # h.call
        BY <2>5, <4>1 DEF ControlInv, TypedInv, SlotsAreTyped
      <4>2. CASE c = h.call
        <5>1. x.is = "ok" /\ x.to = h
          BY <1>2, <1>5, <2>1, <2>5, <2>11, <4>2
        <5>2. IsTyped(h)
          BY <1>2, <1>5, <5>1 DEF ControlInv, TypedInv, RepliesAreTyped
        <5> QED BY <2>7, <4>2, <5>2 DEF IsTyped
      <4> QED BY <4>1, <4>2
    <3> QED BY <1>1, <3>1 DEF Control!Typed
  <2>14. ChunksAreTyped' /\ Control!AcknowledgedIsTyped'
    BY <1>1 DEF ControlInv, TypedInv, ChunksAreTyped, Control!AcknowledgedIsTyped, Control!Typed
  <2> QED
    BY <1>6, <2>6, <2>9, <2>10, <2>12, <2>13, <2>14 DEF ControlInv, OrderInv, TypedInv
<1> QED BY <1>7, <1>8

LEMMA ProcessEndsKeeps == ControlInv /\ Control!ProcessEnds => ControlInv'
<1> SUFFICES ASSUME ControlInv, Control!ProcessEnds PROVE ControlInv'
  OBVIOUS
<1>0. Control!TypeOK
  BY DEF ControlInv
<1>1. /\ process = "up" /\ process' = "gone" /\ pipe' = <<>>
      /\ typed' \in Seq(Control!Commands) /\ TypedGoesOn
      /\ UNCHANGED <<slow, size, caller, chunk, slot, pending, replies, reader, alive>>
  BY <1>0, DiesIs DEF Control!ProcessEnds
<1>2. Control!TypeOK'
  <2>1. pipe' \in Seq(Control!Commands)
    BY <1>1
  <2> QED BY <1>0, <1>1, <2>1 DEF Control!TypeOK
<1>3. WaitInv'
  BY <1>1
       DEF ControlInv, WaitInv, WaitersWait, OneWaiterEach, AnsweredWait, NobodyGivesUp, AliveWhileUp
<1>4. OrderInv'
  BY <1>1 DEF ControlInv, OrderInv, Control!RepliesFindTheirWaiters, FirstWaitersNext
<1>5. TypedInv'
  BY <1>1, RepliesStay, TypedKeeps DEF ControlInv
<1> QED BY <1>2, <1>3, <1>4, <1>5 DEF ControlInv

LEMMA ReaderEndsKeeps == ControlInv /\ Control!ReaderEnds => ControlInv'
<1> SUFFICES ASSUME ControlInv, Control!ReaderEnds PROVE ControlInv'
  OBVIOUS
<1>0. Control!TypeOK
  BY DEF ControlInv
<1>1. /\ process = "gone" /\ reader' = "ended" /\ alive' = FALSE
      /\ pending' = <<>> /\ slot' \in [Calls -> {"empty", "ok", "error", "failed"}]
      /\ \A d \in Calls :
           \/ slot'[d] = slot[d]
           \/ slot'[d] = "failed" /\ \E i \in 1 .. Len(pending) : pending[i].call = d
      /\ UNCHANGED <<slow, size, caller, chunk, pipe, replies, process, typed>>
  BY <1>0, FailIs DEF Control!ReaderEnds
<1>2. Control!TypeOK'
  <2>1. pending' \in Seq(Control!Commands)
    BY <1>1
  <2> QED BY <1>0, <1>1, <2>1 DEF Control!TypeOK
<1>3. WaitInv'
  <2>1. Len(pending') = 0
    BY <1>1
  <2>2. AnsweredWait'
    BY <1>1 DEF ControlInv, WaitInv, AnsweredWait, WaitersWait
  <2> QED
    BY <1>1, <2>1, <2>2
         DEF ControlInv, WaitInv, WaitersWait, OneWaiterEach, NobodyGivesUp, AliveWhileUp
<1>4. OrderInv'
  BY <1>1, GoneOrder
<1>5. TypedInv'
  <2>1. TypedGoesOn /\ RepliesAreTyped'
    BY <1>1, TypedUnchanged, RepliesStay DEF ControlInv
  <2>2. \A d \in Calls : slot'[d] = "ok" => slot[d] = "ok"
    BY <1>1
  <2> QED BY <1>1, <2>1, <2>2, TypedKeeps DEF ControlInv
<1> QED BY <1>2, <1>3, <1>4, <1>5 DEF ControlInv

-----------------------------------------------------------------------------
LEMMA ControlInit == Control!Init => ControlInv
<1> SUFFICES ASSUME Control!Init PROVE ControlInv
  OBVIOUS
<1>1. Len(pending) = 0 /\ Len(replies) = 0
  BY DEF Control!Init
<1>2. \A c \in Calls : /\ caller[c] = "run" /\ chunk[c] = 1 /\ slot[c] = "empty"
                       /\ size[c] \in 1 .. Chunks
  BY DEF Control!Init
<1>3. \A c \in Calls : 1 \in 1 .. Chunks /\ 1 <= size[c]
  <2> SUFFICES ASSUME NEW c \in Calls PROVE 1 \in 1 .. Chunks /\ 1 <= size[c]
    OBVIOUS
  <2>1. PICK n : n = size[c] /\ n \in 1 .. Chunks
    BY <1>2
  <2> QED BY <2>1, ChunksAssumption
<1>4. Control!TypeOK
  <2>1. /\ pending \in Seq(Control!Commands) /\ pipe \in Seq(Control!Commands)
        /\ typed \in Seq(Control!Commands)
        /\ replies \in Seq([to : Control!Commands, is : {"ok", "error"}])
    BY DEF Control!Init
  <2>2. chunk \in [Calls -> 1 .. Chunks] /\ slot \in [Calls -> {"empty", "ok", "error", "failed"}]
    BY <1>3 DEF Control!Init
  <2> QED BY <2>1, <2>2 DEF Control!Init, Control!TypeOK
<1>5. WaitInv
  BY <1>1, <1>2
     DEF Control!Init, WaitInv, WaitersWait, OneWaiterEach, AnsweredWait, NobodyGivesUp, AliveWhileUp
<1>6. OrderInv
  <2>1. /\ pending \in Seq(Control!Commands) /\ replies \in Seq(Replies)
        /\ pipe \in Seq(Control!Commands)
        /\ Len(pipe) = 0
    BY DEF Control!Init
  <2>2. InOrder(pending, replies, pipe)
    BY <1>1, <2>1 DEF InOrder
  <2>3. pending = [i \in DOMAIN replies |-> replies[i].to] \o pipe
    BY <2>1, <2>2, InOrderIs
  <2> QED BY <1>1, <2>3 DEF OrderInv, Control!RepliesFindTheirWaiters, FirstWaitersNext
<1>7. TypedInv
  <2>1. RepliesAreTyped /\ SlotsAreTyped /\ Control!AcknowledgedIsTyped
    BY <1>1, <1>2 DEF RepliesAreTyped, SlotsAreTyped, Control!AcknowledgedIsTyped
  <2>2. ChunksAreTyped
    <3>1. 1 .. 1 - 1 = {}
      OBVIOUS
    <3>2. \A c \in Calls : chunk[c] = 1
      BY <1>2
    <3> QED BY <1>3, <3>1, <3>2, Zenon DEF ChunksAreTyped
  <2> QED BY <2>1, <2>2 DEF TypedInv
<1> QED BY <1>4, <1>5, <1>6, <1>7 DEF ControlInv

LEMMA ControlStep == ControlInv /\ [Control!Next]_(Control!vars) => ControlInv'
<1> SUFFICES ASSUME ControlInv, [Control!Next]_(Control!vars) PROVE ControlInv'
  OBVIOUS
<1>1. ASSUME NEW c \in Calls, Control!WriteFails(c) PROVE ControlInv'
  <2>1. "unsent" \in Control!Results \ {"delivered"}
    BY DEF Control!Results
  <2> QED BY <1>1, <2>1, GivingUpKeeps DEF Control!WriteFails, Control!Classify
<1>2. ASSUME NEW c \in Calls, Control!InvalidateAfterTimeOut(c) PROVE ControlInv'
  <2>1. "indeterminate" \in Control!Results \ {"delivered"}
    BY DEF Control!Results
  <2> QED BY <1>2, <2>1, GivingUpKeeps DEF Control!InvalidateAfterTimeOut
<1>3. CASE \E c \in Calls : Control!Call(c)
  BY <1>1, <1>2, <1>3, CheckAliveKeeps, QueueAndWriteKeeps, ReceiveKeeps, TimeOutKeeps
       DEF Control!Call
<1>4. CASE UNCHANGED Control!vars
  <2>1. /\ UNCHANGED <<slow, size, caller, chunk, slot, pending, pipe, replies, process>>
        /\ UNCHANGED <<reader, alive, typed>>
    BY <1>4 DEF Control!vars
  <2>2. Control!TypeOK' /\ WaitInv'
    BY <2>1
         DEF ControlInv, Control!TypeOK, WaitInv, WaitersWait, OneWaiterEach, AnsweredWait, NobodyGivesUp,
                AliveWhileUp
  <2>3. OrderInv'
    BY <2>1 DEF ControlInv, OrderInv, Control!RepliesFindTheirWaiters, FirstWaitersNext
  <2>4. TypedInv'
    BY <2>1, TypedUnchanged, RepliesStay, TypedKeeps DEF ControlInv
  <2> QED BY <2>2, <2>3, <2>4 DEF ControlInv
<1> QED
  BY <1>3, <1>4, TmuxExecutesKeeps, ReaderDeliversKeeps, ProcessEndsKeeps, ReaderEndsKeeps
       DEF Control!Next

LEMMA ControlInvariance == Control!Spec => []ControlInv
BY ControlInit, ControlStep, PTL DEF Control!Spec

\* The state of one control client and of the calls that go through it has its types.
THEOREM ControlTypeCorrect == Control!Spec => []Control!TypeOK
<1>1. ControlInv => Control!TypeOK
  BY DEF ControlInv
<1> QED BY <1>1, ControlInvariance, PTL

\* read_control_output: as long as the client lives and no timed-out waiter is
\* about to give it up, the waiters are, in order, the commands whose replies
\* are read or still to come, so each reply goes to the handler that asked.
THEOREM ControlFindsWaiters == Control!Spec => []Control!RepliesFindTheirWaiters
<1>1. ControlInv => Control!RepliesFindTheirWaiters
  BY DEF ControlInv, OrderInv
<1> QED BY <1>1, ControlInvariance, PTL

\* write_input: as long as no reply is late, input that was acknowledged
\* reached the terminal, every chunk of it, also when the client is lost halfway.
THEOREM ControlTypesAcknowledged == Control!Spec => []Control!AcknowledgedIsTyped
<1>1. ControlInv => Control!AcknowledgedIsTyped
  BY DEF ControlInv, TypedInv
<1> QED BY <1>1, ControlInvariance, PTL

-----------------------------------------------------------------------------
(* The control client beside the screens: what MCConnections checks of it. *)

\* A behaviour that follows one of the two leaves the other one alone.
LEMMA FollowsControl == MCFairSpec => Control!Spec
<1>1. MCConnectionsInit => Control!Init
  BY DEF MCConnectionsInit
<1>2. [MCNext]_allVars => [Control!Next]_(Control!vars)
  BY
       DEF MCNext, allVars, controlVars, InStream, InControl, Control!Next, Control!Call, Control!vars
<1> QED BY <1>1, <1>2, PTL DEF MCFairSpec, Control!Spec

\* read_control_output, in the checked composition: each reply goes to the
\* handler that asked.
THEOREM RepliesFindTheirWaitersHolds == MCFairSpec => []RepliesFindTheirWaiters
<1>1. MCFairSpec => []Control!RepliesFindTheirWaiters
  BY FollowsControl, ControlFindsWaiters, PTL
<1> QED BY <1>1, PTL DEF RepliesFindTheirWaiters

\* write_input, in the checked composition: acknowledged input was typed.
THEOREM AcknowledgedIsTypedHolds == MCFairSpec => []AcknowledgedIsTyped
<1>1. MCFairSpec => []Control!AcknowledgedIsTyped
  BY FollowsControl, ControlTypesAcknowledged, PTL
<1> QED BY <1>1, PTL DEF AcknowledgedIsTyped
=============================================================================
