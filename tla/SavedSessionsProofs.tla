------------------------ MODULE SavedSessionsProofs ------------------------
(***************************************************************************)
(* Proofs about SavedSessions for every number of panes, handlers and      *)
(* windows: type correctness, and, as long as the tmux server outlives the *)
(* service, that no pane is ever attached to a window opened for another.  *)
(***************************************************************************)
EXTENDS SavedSessions, FiniteSetTheorems, TLAPS

\* A request past its first step names the pane it works on.
RequestsNamePanes ==
  \A h \in Handlers :
    request[h].step \in {"commit", "lookup", "install", "end"} \/ request[h].op = "create"
      => request[h].pane \in Panes

TypeInv == TypeOK /\ RequestsNamePanes

-----------------------------------------------------------------------------
(* The operators the actions are built from. *)

\* NoWindow is outside Windows, and the first window id is inside or just past.
LEMMA WindowFacts ==
  /\ NoWindow \notin Windows
  /\ Windows \subseteq Nat
  /\ \A n \in Windows : n + 1 \in 1 .. MaxWindows + 1
BY BoundsAssumption DEF NoWindow, Windows

LEMMA SessionFacts ==
  /\ NoSession \in Session /\ PlainShell \in Session
  /\ \A w \in Windows : Attached(w) \in Session /\ Unattached(w) \in Session
  /\ \A s \in Session : s.win \in Windows \cup {NoWindow}
  /\ \A s \in Session : s.kind = "tmux" => s.win \in Windows
BY DEF Session, NoSession, PlainShell, Attached, Unattached

\* encode_desired_state of a typed state is a layout.
LEMMA EncodeType ==
  ASSUME NEW T \in SUBSET Panes, NEW S \in [Panes -> Session]
  PROVE  encode_desired_state(T, S) \in Layout
<1>1. \A p \in Panes : S[p].win \in Windows \cup {NoWindow}
  BY SessionFacts
<1> QED
  BY <1>1 DEF encode_desired_state, Layout

LEMMA EmptyLayoutType == EmptyLayout \in Layout
BY DEF EmptyLayout, Layout

LEMMA IdleType == Idle \in Request
BY SessionFacts, EmptyLayoutType DEF Idle, Request

LEMMA RestType == NotSaving \in [busy : BOOLEAN, bytes : Layout] /\ NoRecovery \in Recovery
BY EmptyLayoutType DEF NotSaving, NoRecovery, Recovery

\* terminate_and_wait touches the windows, the sinks and the ended flags only.
LEMMA TerminateType ==
  ASSUME TypeOK, NEW s \in Session, NEW k \in BOOLEAN, Terminate(s, k)
  PROVE  /\ live' \subseteq Windows /\ ended' \subseteq Windows
         /\ sink' \in [Windows -> Panes \cup {Nobody, Discarded}]
BY SessionFacts DEF Terminate, TypeOK

\* new_window hands out a window of the instance and tags it.
LEMMA NewWindowType ==
  ASSUME TypeOK, NEW p \in Panes, NewWindow(p)
  PROVE  /\ nextWindow \in Windows
         /\ live' \subseteq Windows /\ nextWindow' \in 1 .. MaxWindows + 1
         /\ tag' \in [Windows -> Panes \cup {Nobody}]
         /\ sink' \in [Windows -> Panes \cup {Nobody, Discarded}]
         /\ Attached(nextWindow) \in Session
BY WindowFacts, SessionFacts DEF NewWindow, TypeOK

LEMMA FindWindowType ==
  ASSUME TypeOK, NEW p \in Panes, NEW saved
  PROVE  find_window(p, saved) \subseteq live
BY DEF find_window

LEMMA RegisterSinkType ==
  ASSUME TypeOK, NEW w \in Windows, NEW p \in Panes, RegisterSink(w, p)
  PROVE  sink' \in [Windows -> Panes \cup {Nobody, Discarded}]
BY DEF RegisterSink, TypeOK

-----------------------------------------------------------------------------
(* Type correctness. *)

LEMMA TypeInit == Init => TypeInv
<1> SUFFICES ASSUME Init PROVE TypeInv
  OBVIOUS
<1>1. 1 \in 1 .. MaxWindows + 1
  BY BoundsAssumption
<1>2. TypeOK
  BY <1>1, SessionFacts, EmptyLayoutType, IdleType, RestType DEF Init, TypeOK
<1>3. RequestsNamePanes
  BY DEF Init, RequestsNamePanes, Idle
<1> QED
  BY <1>2, <1>3 DEF TypeInv

\* The steps of the requests: each of them keeps the types and leaves in
\* `request` a record that names its pane.
LEMMA TypeCreateSpawns ==
  ASSUME TypeInv, NEW h \in Handlers, NEW p \in Panes, CreateSpawns(h, p)
  PROVE  TypeInv'
<1>1. PICK s \in {Attached(nextWindow), PlainShell} :
        /\ IF s.kind = "tmux" THEN NewWindow(p)
           ELSE UNCHANGED <<live, tag, nextWindow, sink>>
        /\ request' = [request EXCEPT ![h] =
             [Idle EXCEPT !.step = "commit", !.op = "create", !.pane = p, !.new = s]]
  BY DEF CreateSpawns
<1>2. TypeOK
  BY DEF TypeInv
<1>3. /\ s \in Session
      /\ live' \subseteq Windows /\ nextWindow' \in 1 .. MaxWindows + 1
      /\ tag' \in [Windows -> Panes \cup {Nobody}]
      /\ sink' \in [Windows -> Panes \cup {Nobody, Discarded}]
  <2>1. CASE s.kind = "tmux"
    <3>1. NewWindow(p)
      BY <1>1, <2>1
    <3> QED
      BY <1>1, <1>2, <3>1, NewWindowType, SessionFacts
  <2>2. CASE s.kind # "tmux"
    BY <1>1, <1>2, <2>2, SessionFacts DEF TypeOK, Attached
  <2> QED
    BY <2>1, <2>2
<1>4. [Idle EXCEPT !.step = "commit", !.op = "create", !.pane = p, !.new = s] \in Request
  BY <1>3, SessionFacts, EmptyLayoutType DEF Idle, Request
<1>5. TypeOK'
  BY <1>1, <1>2, <1>3, <1>4 DEF TypeOK, CreateSpawns
<1>6. RequestsNamePanes'
  BY <1>1, <1>2 DEF TypeInv, TypeOK, RequestsNamePanes, Idle
<1> QED
  BY <1>5, <1>6 DEF TypeInv

LEMMA TypeCreateCommits ==
  ASSUME TypeInv, NEW h \in Handlers, CreateCommits(h)
  PROVE  TypeInv'
<1>1. request[h].pane \in Panes /\ request[h] \in Request /\ request[h].new \in Session
  BY DEF TypeInv, TypeOK, RequestsNamePanes, CreateCommits, Request
<1>2. tabs' \in SUBSET Panes /\ session' \in [Panes -> Session]
  BY <1>1 DEF TypeInv, TypeOK, CreateCommits
<1>3. encode_desired_state(tabs', session') \in Layout
  BY <1>2, EncodeType
<1>4. TypeOK'
  BY <1>1, <1>2, <1>3 DEF TypeInv, TypeOK, CreateCommits, Request, tmux, history
<1>5. RequestsNamePanes'
  BY <1>1 DEF TypeInv, TypeOK, RequestsNamePanes, CreateCommits
<1> QED
  BY <1>4, <1>5 DEF TypeInv

LEMMA TypeCreateRefused ==
  ASSUME TypeInv, NEW h \in Handlers, CreateRefused(h)
  PROVE  TypeInv'
<1>1. PICK killed \in BOOLEAN : Terminate(request[h].new, killed)
  BY DEF CreateRefused
<1>2. request[h].new \in Session /\ TypeOK
  BY DEF TypeInv, TypeOK, Request
<1>3. /\ live' \subseteq Windows /\ ended' \subseteq Windows
      /\ sink' \in [Windows -> Panes \cup {Nobody, Discarded}]
  BY <1>1, <1>2, TerminateType
<1>4. TypeOK'
  BY <1>2, <1>3, IdleType DEF TypeOK, CreateRefused, Answer, history
<1>5. RequestsNamePanes'
  BY <1>2 DEF TypeInv, TypeOK, RequestsNamePanes, CreateRefused, Answer, Idle
<1> QED
  BY <1>4, <1>5 DEF TypeInv

LEMMA TypeCloseCommits ==
  ASSUME TypeInv, NEW h \in Handlers, NEW p \in Panes, CloseCommits(h, p)
  PROVE  TypeInv'
<1>1. tabs' \in SUBSET Panes /\ session' \in [Panes -> Session]
  BY SessionFacts DEF TypeInv, TypeOK, CloseCommits
<1>2. encode_desired_state(tabs', session') \in Layout
  BY <1>1, EncodeType
<1>3. [Idle EXCEPT !.step = "end", !.op = "close", !.pane = p, !.old = session[p],
                   !.bytes = encode_desired_state(tabs', session')] \in Request
  BY <1>2, SessionFacts DEF TypeInv, TypeOK, Idle, Request
<1>4. TypeOK'
  BY <1>1, <1>3 DEF TypeInv, TypeOK, CloseCommits, tmux
<1>5. RequestsNamePanes'
  BY DEF TypeInv, TypeOK, RequestsNamePanes, CloseCommits, Idle
<1> QED
  BY <1>4, <1>5 DEF TypeInv

LEMMA TypeReorderCommits ==
  ASSUME TypeInv, NEW h \in Handlers, ReorderCommits(h)
  PROVE  TypeInv'
<1>1. encode_desired_state(tabs, session) \in Layout
  BY EncodeType DEF TypeInv, TypeOK
<1>2. [Idle EXCEPT !.step = "write", !.op = "reorder",
                   !.bytes = encode_desired_state(tabs, session)] \in Request
  BY <1>1, SessionFacts DEF Idle, Request
<1>3. TypeOK'
  BY <1>2 DEF TypeInv, TypeOK, ReorderCommits, tmux, history
<1>4. RequestsNamePanes'
  BY DEF TypeInv, TypeOK, RequestsNamePanes, ReorderCommits, Idle
<1> QED
  BY <1>3, <1>4 DEF TypeInv

LEMMA TypeReattachBegins ==
  ASSUME TypeInv, NEW h \in Handlers, NEW p \in Panes, ReattachBegins(h, p)
  PROVE  TypeInv'
<1>1. [Idle EXCEPT !.step = "lookup", !.op = "reattach", !.pane = p,
                   !.old = session[p]] \in Request
  BY SessionFacts, EmptyLayoutType DEF TypeInv, TypeOK, Idle, Request
<1>2. TypeOK'
  BY <1>1 DEF TypeInv, TypeOK, ReattachBegins, tmux, history
<1>3. RequestsNamePanes'
  BY DEF TypeInv, TypeOK, RequestsNamePanes, ReattachBegins, Idle
<1> QED
  BY <1>2, <1>3 DEF TypeInv

LEMMA TypeReattachFinds ==
  ASSUME TypeInv, NEW h \in Handlers, ReattachFinds(h)
  PROVE  TypeInv'
<1>1. TypeOK /\ request[h].pane \in Panes /\ request[h] \in Request
  BY DEF TypeInv, TypeOK, RequestsNamePanes, ReattachFinds
<1>2. PICK w \in find_window(request[h].pane, request[h].old.win) :
        /\ RegisterSink(w, request[h].pane)
        /\ IF CanAttach(w)
           THEN request' = [request EXCEPT ![h].step = "install", ![h].new = Attached(w)]
           ELSE Answer(h)
  BY DEF ReattachFinds
<1>3. w \in Windows
  BY <1>1, <1>2, FindWindowType DEF TypeOK
<1>4. sink' \in [Windows -> Panes \cup {Nobody, Discarded}]
  BY <1>1, <1>2, <1>3, RegisterSinkType
<1>5. request' \in [Handlers -> Request] /\ RequestsNamePanes'
  <2>1. CASE CanAttach(w)
    <3>1. request' = [request EXCEPT ![h].step = "install", ![h].new = Attached(w)]
      BY <1>2, <2>1
    <3>2. Attached(w) \in Session
      BY <1>3, SessionFacts
    <3>3. request' \in [Handlers -> Request]
      BY <1>1, <3>1, <3>2 DEF TypeOK, Request
    <3>4. RequestsNamePanes'
      BY <1>1, <3>1 DEF TypeInv, TypeOK, RequestsNamePanes
    <3> QED
      BY <3>3, <3>4
  <2>2. CASE ~CanAttach(w)
    <3>1. request' = [request EXCEPT ![h] = Idle]
      BY <1>2, <2>2 DEF Answer
    <3>2. Idle.step = "idle" /\ Idle.op = "none"
      BY DEF Idle
    <3> QED
      BY <1>1, <3>1, <3>2, IdleType DEF TypeInv, TypeOK, RequestsNamePanes
  <2> QED
    BY <2>1, <2>2
<1>6. TypeOK'
  BY <1>1, <1>4, <1>5 DEF TypeOK, ReattachFinds, tmux, history
<1> QED
  BY <1>5, <1>6 DEF TypeInv

LEMMA TypeReattachSpawns ==
  ASSUME TypeInv, NEW h \in Handlers, ReattachSpawns(h)
  PROVE  TypeInv'
<1>1. TypeOK /\ request[h].pane \in Panes /\ request[h] \in Request
  BY DEF TypeInv, TypeOK, RequestsNamePanes, ReattachSpawns
<1>2. /\ live' \subseteq Windows /\ nextWindow' \in 1 .. MaxWindows + 1
      /\ tag' \in [Windows -> Panes \cup {Nobody}]
      /\ sink' \in [Windows -> Panes \cup {Nobody, Discarded}]
      /\ (IF request[h].old.win = NoWindow THEN PlainShell ELSE Attached(nextWindow)) \in Session
  <2>1. CASE request[h].old.win = NoWindow
    BY <1>1, <2>1, SessionFacts DEF TypeOK, ReattachSpawns
  <2>2. CASE request[h].old.win # NoWindow
    BY <1>1, <2>2, NewWindowType DEF ReattachSpawns
  <2> QED
    BY <2>1, <2>2
<1>3. TypeOK'
  BY <1>1, <1>2 DEF TypeOK, ReattachSpawns, Request, history
<1>4. RequestsNamePanes'
  BY <1>1 DEF TypeInv, TypeOK, RequestsNamePanes, ReattachSpawns
<1> QED
  BY <1>3, <1>4 DEF TypeInv

LEMMA TypeReattachFails ==
  ASSUME TypeInv, NEW h \in Handlers, ReattachFails(h)
  PROVE  TypeInv'
<1>1. TypeOK'
  BY IdleType DEF TypeInv, TypeOK, ReattachFails, Answer, tmux, history
<1>2. RequestsNamePanes'
  BY DEF TypeInv, TypeOK, RequestsNamePanes, ReattachFails, Answer, Idle
<1> QED
  BY <1>1, <1>2 DEF TypeInv

LEMMA TypeReattachInstalls ==
  ASSUME TypeInv, NEW h \in Handlers, ReattachInstalls(h)
  PROVE  TypeInv'
<1>1. request[h].pane \in Panes /\ request[h] \in Request /\ request[h].new \in Session
  BY DEF TypeInv, TypeOK, RequestsNamePanes, ReattachInstalls, Request
<1>2. tabs \in SUBSET Panes /\ session' \in [Panes -> Session]
  BY <1>1 DEF TypeInv, TypeOK, ReattachInstalls
<1>3. encode_desired_state(tabs, session') \in Layout
  BY <1>2, EncodeType
<1>4. session[request[h].pane] \in Session
  BY <1>1 DEF TypeInv, TypeOK
<1>5. TypeOK'
  BY <1>1, <1>2, <1>3, <1>4 DEF TypeInv, TypeOK, ReattachInstalls, Request, tmux, history
<1>6. RequestsNamePanes'
  BY <1>1 DEF TypeInv, TypeOK, RequestsNamePanes, ReattachInstalls
<1> QED
  BY <1>5, <1>6 DEF TypeInv

LEMMA TypeReattachDrops ==
  ASSUME TypeInv, NEW h \in Handlers, ReattachDrops(h)
  PROVE  TypeInv'
<1>1. TypeOK'
  BY IdleType DEF TypeInv, TypeOK, ReattachDrops, Answer, tmux, history
<1>2. RequestsNamePanes'
  BY DEF TypeInv, TypeOK, RequestsNamePanes, ReattachDrops, Answer, Idle
<1> QED
  BY <1>1, <1>2 DEF TypeInv

LEMMA TypeEndsOldSession ==
  ASSUME TypeInv, NEW h \in Handlers, EndsOldSession(h)
  PROVE  TypeInv'
<1>1. PICK killed \in BOOLEAN : Terminate(request[h].old, killed)
  BY DEF EndsOldSession
<1>2. request[h] \in Request /\ request[h].old \in Session /\ TypeOK
  BY DEF TypeInv, TypeOK, Request
<1>3. /\ live' \subseteq Windows /\ ended' \subseteq Windows
      /\ sink' \in [Windows -> Panes \cup {Nobody, Discarded}]
  BY <1>1, <1>2, TerminateType
<1>4. TypeOK'
  BY <1>2, <1>3 DEF TypeOK, EndsOldSession, Request, history
<1>5. RequestsNamePanes'
  BY <1>2 DEF TypeInv, TypeOK, RequestsNamePanes, EndsOldSession
<1> QED
  BY <1>4, <1>5 DEF TypeInv

LEMMA TypeWrites ==
  ASSUME TypeInv, NEW h \in Handlers, Writes(h)
  PROVE  TypeInv'
<1>1. request[h] \in Request /\ request[h].bytes \in Layout
  BY DEF TypeInv, TypeOK, Request
<1>2. acked' \subseteq Panes
  BY DEF TypeInv, TypeOK, RequestsNamePanes, Writes
<1>3. TypeOK'
  BY <1>1, <1>2, IdleType DEF TypeInv, TypeOK, Writes, Answer, tmux
<1>4. RequestsNamePanes'
  BY DEF TypeInv, TypeOK, RequestsNamePanes, Writes, Answer, Idle
<1> QED
  BY <1>3, <1>4 DEF TypeInv

LEMMA TypeWriteFails ==
  ASSUME TypeInv, NEW h \in Handlers, WriteFails(h)
  PROVE  TypeInv'
<1>1. request[h].new \in Session /\ TypeOK
  BY DEF TypeInv, TypeOK, Request
<1>2. /\ live' \subseteq Windows /\ ended' \subseteq Windows
      /\ sink' \in [Windows -> Panes \cup {Nobody, Discarded}]
  <2>1. CASE request[h].op = "create"
    BY <1>1, <2>1, TerminateType DEF WriteFails
  <2>2. CASE request[h].op # "create"
    BY <1>1, <2>2 DEF WriteFails, TypeOK
  <2> QED
    BY <2>1, <2>2
<1>3. TypeOK'
  BY <1>1, <1>2, IdleType DEF TypeOK, WriteFails, Answer, history
<1>4. RequestsNamePanes'
  BY <1>1 DEF TypeInv, TypeOK, RequestsNamePanes, WriteFails, Answer, Idle
<1> QED
  BY <1>3, <1>4 DEF TypeInv

\* The steps of the programs, the persistence tick and the process.

LEMMA TypeProgramEnds ==
  ASSUME TypeInv, NEW w \in Windows, ProgramEnds(w)
  PROVE  TypeInv'
<1>1. TypeOK'
  BY DEF TypeInv, TypeOK, ProgramEnds, service, history
<1>2. RequestsNamePanes'
  BY DEF TypeInv, RequestsNamePanes, ProgramEnds, service, history
<1> QED
  BY <1>1, <1>2 DEF TypeInv

LEMMA TypeObserveEnd ==
  ASSUME TypeInv, NEW w \in Windows, ObserveEnd(w)
  PROVE  TypeInv'
<1>1. TypeOK'
  BY DEF TypeInv, TypeOK, ObserveEnd, tmux, history
<1>2. RequestsNamePanes'
  BY DEF TypeInv, RequestsNamePanes, ObserveEnd, tmux, history
<1> QED
  BY <1>1, <1>2 DEF TypeInv

LEMMA TypeShellEnds ==
  ASSUME TypeInv, NEW p \in Panes, ShellEnds(p)
  PROVE  TypeInv'
<1>1. [session[p] EXCEPT !.kind = "ptyEnded"] \in Session
  BY DEF TypeInv, TypeOK, ShellEnds, Session
<1>2. TypeOK'
  BY <1>1 DEF TypeInv, TypeOK, ShellEnds, tmux, history
<1>3. RequestsNamePanes'
  BY DEF TypeInv, RequestsNamePanes, ShellEnds
<1> QED
  BY <1>2, <1>3 DEF TypeInv

LEMMA TypeTickEncodes ==
  ASSUME TypeInv, TickEncodes \/ Stops
  PROVE  TypeInv'
<1>1. encode_desired_state(tabs, session) \in Layout
  BY EncodeType DEF TypeInv, TypeOK
<1>2. saver' \in [busy : BOOLEAN, bytes : Layout]
  <2>1. saver' = [busy |-> TRUE, bytes |-> encode_desired_state(tabs, session)]
    BY DEF TickEncodes, Stops
  <2> QED
    BY <1>1, <2>1
<1>3. TypeOK'
  BY <1>2 DEF TypeInv, TypeOK, TickEncodes, Stops, tmux, history
<1>4. RequestsNamePanes'
  BY DEF TypeInv, RequestsNamePanes, TickEncodes, Stops
<1> QED
  BY <1>3, <1>4 DEF TypeInv

LEMMA TypeTickWrites ==
  ASSUME TypeInv, TickWrites \/ TickFails
  PROVE  TypeInv'
<1>1. TypeOK'
  BY RestType DEF TypeInv, TypeOK, TickWrites, TickFails, tmux, history
<1>2. RequestsNamePanes'
  BY DEF TypeInv, RequestsNamePanes, TickWrites, TickFails, tmux, history
<1> QED
  BY <1>1, <1>2 DEF TypeInv

LEMMA TypeProcessGone ==
  ASSUME TypeInv, ProcessGone
  PROVE  TypeInv'
<1>1. phase' \in {"down", "recovering", "saving", "serving", "stopping"}
      /\ session' \in [Panes -> Session] /\ request' \in [Handlers -> Request]
      /\ sink' \in [Windows -> Panes \cup {Nobody, Discarded}]
  BY SessionFacts, IdleType DEF ProcessGone
<1>2. TypeOK'
  BY <1>1, RestType DEF TypeInv, TypeOK, ProcessGone, tmux, history
<1>3. RequestsNamePanes'
  BY DEF RequestsNamePanes, ProcessGone, Idle
<1> QED
  BY <1>2, <1>3 DEF TypeInv

LEMMA TypeTmuxEnds ==
  ASSUME TypeInv, TmuxEnds
  PROVE  TypeInv'
<1>1. 1 \in 1 .. MaxWindows + 1
  BY BoundsAssumption
<1>2. TypeOK'
  BY <1>1 DEF TypeInv, TypeOK, TmuxEnds, service, history
<1>3. RequestsNamePanes'
  BY DEF TypeInv, RequestsNamePanes, TmuxEnds, service
<1> QED
  BY <1>2, <1>3 DEF TypeInv

\* The steps of recovery.

LEMMA TypeLoadsSnapshot ==
  ASSUME TypeInv, LoadsSnapshot
  PROVE  TypeInv'
<1>1. recovery' \in Recovery
  BY DEF TypeInv, TypeOK, LoadsSnapshot, Recovery, Layout
<1>2. disk.tabs \subseteq Panes
  BY DEF TypeInv, TypeOK, Layout
<1>3. TypeOK'
  BY <1>1, <1>2 DEF TypeInv, TypeOK, LoadsSnapshot, tmux, history
<1>4. RequestsNamePanes'
  BY DEF TypeInv, RequestsNamePanes, LoadsSnapshot
<1> QED
  BY <1>3, <1>4 DEF TypeInv

\* Recovered installs the session of one pane; what it does not change is
\* left to the step that uses it.
LEMMA TypeRecovered ==
  ASSUME TypeInv, NEW p \in Panes, NEW s \in Session, NEW c \in BOOLEAN,
         Recovered(p, s, c),
         live' \subseteq Windows, nextWindow' \in 1 .. MaxWindows + 1,
         tag' \in [Windows -> Panes \cup {Nobody}],
         sink' \in [Windows -> Panes \cup {Nobody, Discarded}]
  PROVE  TypeInv'
<1>1. s.win \in Windows \cup {NoWindow}
  BY SessionFacts
<1>2. recovery' \in Recovery
  BY <1>1, WindowFacts DEF TypeInv, TypeOK, Recovered, Recovery
<1>3. TypeOK'
  BY <1>2 DEF TypeInv, TypeOK, Recovered, history
<1>4. RequestsNamePanes'
  BY DEF TypeInv, RequestsNamePanes, Recovered
<1> QED
  BY <1>3, <1>4 DEF TypeInv

LEMMA FallbackType ==
  ASSUME TypeInv, NEW p \in Panes
  PROVE  Fallback(p) \in Session
BY SessionFacts DEF TypeInv, TypeOK, Recovery, Layout, Fallback, Saved

LEMMA TypeRecoversWindow ==
  ASSUME TypeInv, NEW p \in Panes, RecoversWindow(p)
  PROVE  TypeInv'
<1>1. TypeOK
  BY DEF TypeInv
<1>2. PICK w \in find_window(p, Saved(p)) :
        /\ RegisterSink(w, p)
        /\ Recovered(p, IF CanAttach(w) THEN Attached(w) ELSE Fallback(p), TRUE)
  BY DEF RecoversWindow
<1>3. w \in Windows
  BY <1>1, <1>2, FindWindowType DEF TypeOK
<1>4. (IF CanAttach(w) THEN Attached(w) ELSE Fallback(p)) \in Session
  BY <1>3, SessionFacts, FallbackType
<1>5. sink' \in [Windows -> Panes \cup {Nobody, Discarded}]
  BY <1>1, <1>2, <1>3, RegisterSinkType
<1> QED
  BY <1>1, <1>2, <1>4, <1>5, TypeRecovered DEF TypeOK, RecoversWindow

LEMMA TypeRecoversFresh ==
  ASSUME TypeInv, NEW p \in Panes, RecoversFresh(p)
  PROVE  TypeInv'
<1>1. TypeOK
  BY DEF TypeInv
<1>2. CASE NewWindow(p) /\ Recovered(p, Attached(nextWindow), TRUE)
  BY <1>1, <1>2, NewWindowType, TypeRecovered
<1>3. CASE Recovered(p, PlainShell, TRUE) /\ UNCHANGED <<live, tag, nextWindow, sink>>
  BY <1>1, <1>3, SessionFacts, TypeRecovered DEF TypeOK
<1> QED
  BY <1>2, <1>3 DEF RecoversFresh

LEMMA TypeRecoversUnattached ==
  ASSUME TypeInv, NEW p \in Panes, RecoversUnattached(p) \/ RecoversWithoutTmux(p)
  PROVE  TypeInv'
<1>1. PICK s \in {Fallback(p), PlainShell}, c \in BOOLEAN : Recovered(p, s, c)
  BY DEF RecoversUnattached, RecoversWithoutTmux
<1>2. s \in Session
  BY FallbackType, SessionFacts
<1>3. UNCHANGED <<live, tag, nextWindow, sink>>
  BY DEF RecoversUnattached, RecoversWithoutTmux
<1> QED
  BY <1>1, <1>2, <1>3, TypeRecovered DEF TypeInv, TypeOK

LEMMA TypeSweeps ==
  ASSUME TypeInv, Sweeps
  PROVE  TypeInv'
<1>1. TypeOK'
  BY DEF TypeInv, TypeOK, Sweeps, service, history
<1>2. RequestsNamePanes'
  BY DEF TypeInv, RequestsNamePanes, Sweeps, service, history
<1> QED
  BY <1>1, <1>2 DEF TypeInv

LEMMA TypeRecoverySaves ==
  ASSUME TypeInv, RecoverySaves
  PROVE  TypeInv'
<1>1. encode_desired_state(tabs, session) \in Layout
  BY EncodeType DEF TypeInv, TypeOK
<1>2. TypeOK'
  BY <1>1, RestType DEF TypeInv, TypeOK, RecoverySaves, tmux, history
<1>3. RequestsNamePanes'
  BY DEF TypeInv, RequestsNamePanes, RecoverySaves
<1> QED
  BY <1>2, <1>3 DEF TypeInv

LEMMA TypeStep ==
  ASSUME TypeInv, [Next]_vars
  PROVE  TypeInv'
<1>1. CASE UNCHANGED vars
  BY <1>1 DEF TypeInv, TypeOK, RequestsNamePanes, vars, service, tmux, history
<1>2. ASSUME NEW h \in Handlers, HandlerStep(h) PROVE TypeInv'
  BY <1>2, TypeCreateCommits, TypeCreateRefused, TypeReattachFinds,
     TypeReattachSpawns, TypeReattachFails, TypeReattachInstalls,
     TypeReattachDrops, TypeEndsOldSession, TypeWrites, TypeWriteFails
  DEF HandlerStep
<1>3. ASSUME NEW h \in Handlers, NEW p \in Panes,
             CreateSpawns(h, p) \/ CloseCommits(h, p) \/ ReattachBegins(h, p)
      PROVE  TypeInv'
  BY <1>3, TypeCreateSpawns, TypeCloseCommits, TypeReattachBegins
<1>4. CASE RecoveryStep
  BY <1>4, TypeLoadsSnapshot, TypeRecoversWindow, TypeRecoversFresh,
     TypeRecoversUnattached, TypeSweeps, TypeRecoverySaves
  DEF RecoveryStep
<1>5. CASE Exits \/ Crashes
  BY <1>5, TypeProcessGone DEF Exits, Crashes
<1> QED
  BY <1>1, <1>2, <1>3, <1>4, <1>5, TypeReorderCommits, TypeProgramEnds,
     TypeObserveEnd, TypeShellEnds, TypeTickEncodes, TypeTickWrites, TypeTmuxEnds
  DEF Next

\* Type correctness: whatever requests, crashes and recoveries interleave,
\* every variable keeps its type; a request always knows its pane.
THEOREM TypeCorrect == Spec => []TypeOK
<1>1. Init => TypeInv
  BY TypeInit
<1>2. TypeInv /\ [Next]_vars => TypeInv'
  BY TypeStep
<1>3. TypeInv => TypeOK
  BY DEF TypeInv
<1> QED
  BY <1>1, <1>2, <1>3, PTL DEF Spec

-----------------------------------------------------------------------------
(* Ownership: what is saved, loaded, held and attached for a pane is a     *)
(* window that was opened for it.  Tags only ever change on a window that  *)
(* nobody names yet, as long as the tmux server does not end.              *)

\* encode_desired_state saves only what memory holds.
LEMMA EncodeOwned ==
  ASSUME NEW T \in SUBSET Panes, NEW S \in [Panes -> Session],
         \A p \in Panes : Owned(S[p].win, p)
  PROVE  LayoutOwned(encode_desired_state(T, S))
BY DEF encode_desired_state, LayoutOwned, Owned

\* Whatever find_window answers was opened for the pane, because the saved
\* id it trusts was.
LEMMA FindWindowOwned ==
  ASSUME TypeOK, NEW p \in Panes, NEW saved, Owned(saved, p),
         NEW w \in find_window(p, saved)
  PROVE  w \in Windows /\ tag[w] = p
BY WindowFacts DEF find_window, Owned, TypeOK

\* A request record without a window and with an owned layout is owned.
LEMMA IdleOwned == RequestOwned(Idle)
BY NamesAssumption DEF RequestOwned, LayoutOwned, Owned, Idle, EmptyLayout, NoSession

\* Opening a window leaves everything owned that was owned before, because
\* the new window was untagged and is named nowhere.
LEMMA NewWindowOwned ==
  ASSUME TypeInv, Ownership, NEW p \in Panes, NewWindow(p)
  PROVE  /\ \A w \in Windows : w >= nextWindow' => tag'[w] = Nobody
         /\ tag'[nextWindow] = p
         /\ \A q \in Panes, w \in Windows \cup {NoWindow} :
              Owned(w, q) => (w # NoWindow => tag'[w] = q)
<1>1. nextWindow \in Windows /\ tag[nextWindow] = Nobody
  BY WindowFacts DEF TypeInv, TypeOK, Ownership, NewWindow
<1>2. tag' = [tag EXCEPT ![nextWindow] = p] /\ tag \in [Windows -> Panes \cup {Nobody}]
  BY DEF NewWindow, TypeInv, TypeOK
<1>3. \A w \in Windows : w >= nextWindow' => tag'[w] = Nobody
  BY <1>1, <1>2, WindowFacts DEF Ownership, NewWindow
<1>4. \A q \in Panes, w \in Windows \cup {NoWindow} :
        Owned(w, q) => (w # NoWindow => tag'[w] = q)
  BY <1>1, <1>2, NamesAssumption DEF Owned
<1> QED
  BY <1>1, <1>2, <1>3, <1>4

\* The same for whole layouts, sessions and requests.
LEMMA NewWindowKeeps ==
  ASSUME TypeInv, Ownership, NEW p \in Panes, NewWindow(p)
  PROVE  /\ \A L \in Layout : LayoutOwned(L) => \A q \in Panes :
               L.win[q] # NoWindow => tag'[L.win[q]] = q
         /\ \A q \in Panes : session[q].win # NoWindow => tag'[session[q].win] = q
         /\ \A h \in Handlers : request[h].pane \in Panes =>
              /\ request[h].new.win # NoWindow => tag'[request[h].new.win] = request[h].pane
              /\ request[h].old.win # NoWindow => tag'[request[h].old.win] = request[h].pane
<1>1. \A q \in Panes, w \in Windows \cup {NoWindow} :
        Owned(w, q) => (w # NoWindow => tag'[w] = q)
  BY NewWindowOwned
<1>2. \A L \in Layout, q \in Panes : L.win[q] \in Windows \cup {NoWindow}
  BY DEF Layout
<1>3. \A q \in Panes : session[q].win \in Windows \cup {NoWindow}
  BY SessionFacts DEF TypeInv, TypeOK
<1>4. \A h \in Handlers : /\ request[h].new.win \in Windows \cup {NoWindow}
                          /\ request[h].old.win \in Windows \cup {NoWindow}
  BY SessionFacts DEF TypeInv, TypeOK, Request
<1>5. \A L \in Layout : LayoutOwned(L) => \A q \in Panes :
        L.win[q] # NoWindow => tag'[L.win[q]] = q
  BY <1>1, <1>2 DEF LayoutOwned
<1>6. \A q \in Panes : session[q].win # NoWindow => tag'[session[q].win] = q
  BY <1>1, <1>3 DEF Ownership
<1>7. \A h \in Handlers : request[h].pane \in Panes =>
        /\ request[h].new.win # NoWindow => tag'[request[h].new.win] = request[h].pane
        /\ request[h].old.win # NoWindow => tag'[request[h].old.win] = request[h].pane
  BY <1>1, <1>4 DEF Ownership, RequestOwned
<1> QED
  BY <1>5, <1>6, <1>7

\* An action that opens no window keeps ownership if what it changes is owned.
Untagged == UNCHANGED <<tag, nextWindow>>

LEMMA OwnershipFrame ==
  ASSUME Ownership, Untagged,
         \A p \in Panes : Owned(session'[p].win, p),
         LayoutOwned(disk'), LayoutOwned(saver'.bytes), LayoutOwned(recovery'.loaded),
         \A h \in Handlers : RequestOwned(request'[h])
  PROVE  Ownership'
BY DEF Ownership, Untagged, RequestOwned, LayoutOwned, Owned

LEMMA OwnershipQuiet ==
  ASSUME TypeInv, Ownership, UNCHANGED <<tag, nextWindow, session, disk, saver, recovery, request>>
  PROVE  Ownership'
BY OwnershipFrame DEF Ownership, Untagged

LEMMA OwnershipAnswers ==
  ASSUME TypeInv, Ownership, NEW h \in Handlers, Answer(h),
         UNCHANGED <<tag, nextWindow, session, saver, recovery>>,
         disk' = disk \/ disk' = request[h].bytes
  PROVE  Ownership'
<1>1. \A i \in Handlers : RequestOwned(request'[i])
  BY IdleOwned DEF TypeInv, TypeOK, Ownership, Answer
<1>2. LayoutOwned(disk')
  BY DEF Ownership, RequestOwned
<1> QED
  BY <1>1, <1>2, OwnershipFrame DEF Ownership, Untagged

LEMMA OwnershipCreateCommits ==
  ASSUME TypeInv, Ownership, NEW h \in Handlers, CreateCommits(h)
  PROVE  Ownership'
<1>1. /\ request[h].pane \in Panes
      /\ Owned(request[h].new.win, request[h].pane) /\ Owned(request[h].old.win, request[h].pane)
  BY DEF Ownership, RequestOwned, CreateCommits
<1>2. tabs' \in SUBSET Panes /\ session' \in [Panes -> Session]
  BY TypeCreateCommits DEF TypeInv, TypeOK
<1>3. \A p \in Panes : Owned(session'[p].win, p)
  BY <1>1 DEF Ownership, CreateCommits, TypeInv, TypeOK
<1>4. LayoutOwned(encode_desired_state(tabs', session'))
  BY <1>2, <1>3, EncodeOwned
<1>5. \A i \in Handlers : RequestOwned(request'[i])
  BY <1>1, <1>4 DEF Ownership, RequestOwned, CreateCommits, TypeInv, TypeOK, Request
<1> QED
  BY <1>3, <1>5, OwnershipFrame DEF Ownership, Untagged, CreateCommits, tmux

LEMMA OwnershipCloseCommits ==
  ASSUME TypeInv, Ownership, NEW h \in Handlers, NEW p \in Panes, CloseCommits(h, p)
  PROVE  Ownership'
<1>1. \A q \in Panes : Owned(session'[q].win, q)
  BY DEF Ownership, CloseCommits, TypeInv, TypeOK, Owned, NoSession
<1>2. tabs' \in SUBSET Panes /\ session' \in [Panes -> Session]
  BY TypeCloseCommits DEF TypeInv, TypeOK
<1>3. LayoutOwned(encode_desired_state(tabs', session'))
  BY <1>1, <1>2, EncodeOwned
<1>4. RequestOwned([Idle EXCEPT !.step = "end", !.op = "close", !.pane = p, !.old = session[p],
                              !.bytes = encode_desired_state(tabs', session')])
  BY <1>3 DEF RequestOwned, Idle, Ownership, Owned, NoSession
<1>5. \A i \in Handlers : RequestOwned(request'[i])
  BY <1>4 DEF Ownership, CloseCommits, TypeInv, TypeOK
<1> QED
  BY <1>1, <1>5, OwnershipFrame DEF Ownership, Untagged, CloseCommits, tmux

LEMMA OwnershipReorderCommits ==
  ASSUME TypeInv, Ownership, NEW h \in Handlers, ReorderCommits(h)
  PROVE  Ownership'
<1>1. LayoutOwned(encode_desired_state(tabs, session))
  BY EncodeOwned DEF Ownership, TypeInv, TypeOK
<1>2. RequestOwned([Idle EXCEPT !.step = "write", !.op = "reorder",
                              !.bytes = encode_desired_state(tabs, session)])
  BY <1>1, NamesAssumption DEF RequestOwned, Idle
<1>3. \A i \in Handlers : RequestOwned(request'[i])
  BY <1>2 DEF Ownership, ReorderCommits, TypeInv, TypeOK
<1> QED
  BY <1>3, OwnershipFrame DEF Ownership, Untagged, ReorderCommits, tmux

LEMMA OwnershipReattachBegins ==
  ASSUME TypeInv, Ownership, NEW h \in Handlers, NEW p \in Panes, ReattachBegins(h, p)
  PROVE  Ownership'
<1>1. RequestOwned([Idle EXCEPT !.step = "lookup", !.op = "reattach", !.pane = p,
                              !.old = session[p]])
  BY IdleOwned DEF RequestOwned, LayoutOwned, Idle, Ownership, Owned, NoSession
<1>2. \A i \in Handlers : RequestOwned(request'[i])
  BY <1>1 DEF Ownership, ReattachBegins, TypeInv, TypeOK
<1> QED
  BY <1>2, OwnershipFrame DEF Ownership, Untagged, ReattachBegins, tmux

LEMMA OwnershipReattachFinds ==
  ASSUME TypeInv, Ownership, NEW h \in Handlers, ReattachFinds(h)
  PROVE  Ownership'
<1>1. /\ TypeOK /\ request[h].pane \in Panes
      /\ Owned(request[h].old.win, request[h].pane)
  BY DEF TypeInv, Ownership, RequestOwned, ReattachFinds
<1>2. PICK w \in find_window(request[h].pane, request[h].old.win) :
        IF CanAttach(w)
        THEN request' = [request EXCEPT ![h].step = "install", ![h].new = Attached(w)]
        ELSE Answer(h)
  BY DEF ReattachFinds
<1>3. UNCHANGED <<tag, nextWindow, session, saver, recovery, disk>>
  BY DEF ReattachFinds, tmux
<1>4. CASE CanAttach(w)
  <2>1. w \in Windows /\ tag[w] = request[h].pane
    BY <1>1, <1>2, FindWindowOwned
  <2>2. Owned(Attached(w).win, request[h].pane)
    BY <2>1 DEF Owned, Attached
  <2>3. request' = [request EXCEPT ![h].step = "install", ![h].new = Attached(w)]
    BY <1>2, <1>4
  <2>4. \A i \in Handlers : RequestOwned(request'[i])
    BY <1>1, <2>2, <2>3 DEF Ownership, RequestOwned, TypeOK, Request
  <2> QED
    BY <1>3, <2>4, OwnershipFrame DEF Ownership, Untagged
<1>5. CASE ~CanAttach(w)
  BY <1>2, <1>3, <1>5, OwnershipAnswers
<1> QED
  BY <1>4, <1>5

LEMMA OwnershipReattachInstalls ==
  ASSUME TypeInv, Ownership, NEW h \in Handlers, ReattachInstalls(h)
  PROVE  Ownership'
<1>1. /\ request[h].pane \in Panes
      /\ Owned(request[h].new.win, request[h].pane)
  BY DEF Ownership, RequestOwned, ReattachInstalls
<1>2. tabs \in SUBSET Panes /\ session' \in [Panes -> Session]
  BY TypeReattachInstalls DEF TypeInv, TypeOK
<1>3. \A p \in Panes : Owned(session'[p].win, p)
  BY <1>1 DEF Ownership, ReattachInstalls, TypeInv, TypeOK
<1>4. LayoutOwned(encode_desired_state(tabs, session'))
  BY <1>2, <1>3, EncodeOwned
<1>5. Owned(session[request[h].pane].win, request[h].pane)
  BY <1>1 DEF Ownership
<1>6. \A i \in Handlers : RequestOwned(request'[i])
  BY <1>1, <1>4, <1>5 DEF Ownership, RequestOwned, ReattachInstalls, TypeInv, TypeOK, Request
<1> QED
  BY <1>3, <1>6, OwnershipFrame DEF Ownership, Untagged, ReattachInstalls, tmux

LEMMA OwnershipEndsOldSession ==
  ASSUME TypeInv, Ownership, NEW h \in Handlers, EndsOldSession(h)
  PROVE  Ownership'
<1>1. \A i \in Handlers : RequestOwned(request'[i])
  BY DEF Ownership, RequestOwned, EndsOldSession, TypeInv, TypeOK, Request
<1> QED
  BY <1>1, OwnershipFrame DEF Ownership, Untagged, EndsOldSession

LEMMA OwnershipShellEnds ==
  ASSUME TypeInv, Ownership, NEW p \in Panes, ShellEnds(p)
  PROVE  Ownership'
<1>1. \A q \in Panes : Owned(session'[q].win, q)
  BY DEF Ownership, ShellEnds, TypeInv, TypeOK, Owned
<1> QED
  BY <1>1, OwnershipFrame DEF Ownership, Untagged, ShellEnds, tmux

LEMMA OwnershipEncodes ==
  ASSUME TypeInv, Ownership, TickEncodes \/ Stops \/ RecoverySaves
  PROVE  Ownership'
<1>1. LayoutOwned(encode_desired_state(tabs, session))
  BY EncodeOwned DEF Ownership, TypeInv, TypeOK
<1>2. LayoutOwned(NoRecovery.loaded)
  BY DEF NoRecovery, EmptyLayout, LayoutOwned, Owned
<1>3. CASE TickEncodes \/ Stops
  <2>1. saver' = [busy |-> TRUE, bytes |-> encode_desired_state(tabs, session)]
    BY <1>3 DEF TickEncodes, Stops
  <2>2. UNCHANGED <<tag, nextWindow, session, disk, recovery, request>>
    BY <1>3 DEF TickEncodes, Stops, tmux
  <2> QED
    BY <1>1, <2>1, <2>2, OwnershipFrame DEF Ownership, Untagged
<1>4. CASE RecoverySaves
  BY <1>1, <1>2, <1>4, OwnershipFrame DEF Ownership, Untagged, RecoverySaves, tmux
<1> QED
  BY <1>3, <1>4

LEMMA OwnershipTickWrites ==
  ASSUME TypeInv, Ownership, TickWrites \/ TickFails
  PROVE  Ownership'
<1>1. LayoutOwned(disk') /\ LayoutOwned(saver'.bytes)
  BY DEF Ownership, TickWrites, TickFails, NotSaving, EmptyLayout, LayoutOwned, Owned
<1> QED
  BY <1>1, OwnershipFrame DEF Ownership, Untagged, TickWrites, TickFails, tmux

LEMMA OwnershipProcessGone ==
  ASSUME TypeInv, Ownership, ProcessGone
  PROVE  Ownership'
<1>1. \A p \in Panes : Owned(session'[p].win, p)
  BY DEF ProcessGone, NoSession, Owned
<1>2. LayoutOwned(saver'.bytes) /\ LayoutOwned(recovery'.loaded)
  BY DEF ProcessGone, NotSaving, NoRecovery, EmptyLayout, LayoutOwned, Owned
<1>3. \A i \in Handlers : RequestOwned(request'[i])
  BY IdleOwned DEF ProcessGone
<1> QED
  BY <1>1, <1>2, <1>3, OwnershipFrame DEF Ownership, Untagged, ProcessGone, tmux

LEMMA OwnershipLoadsSnapshot ==
  ASSUME TypeInv, Ownership, LoadsSnapshot
  PROVE  Ownership'
<1>1. LayoutOwned(recovery'.loaded)
  BY DEF Ownership, LoadsSnapshot
<1> QED
  BY <1>1, OwnershipFrame DEF Ownership, Untagged, LoadsSnapshot, tmux

\* Recovery installs, for one pane, a session whose window is owned; `tag`
\* stays unless the step opens a window.
LEMMA OwnershipRecovered ==
  ASSUME TypeInv, Ownership, NEW p \in Panes, NEW s \in Session, NEW c,
         Recovered(p, s, c), Owned(s.win, p), UNCHANGED <<tag, nextWindow>>
  PROVE  Ownership'
<1>1. \A q \in Panes : Owned(session'[q].win, q)
  BY DEF Recovered, Ownership, TypeInv, TypeOK
<1>2. LayoutOwned(recovery'.loaded)
  BY DEF Recovered, Ownership, TypeInv, TypeOK, Recovery
<1> QED
  BY <1>1, <1>2, OwnershipFrame DEF Ownership, Untagged, Recovered

LEMMA FallbackOwned ==
  ASSUME TypeInv, Ownership, NEW p \in Panes
  PROVE  Owned(Fallback(p).win, p) /\ Owned(Saved(p), p) /\ Owned(PlainShell.win, p)
BY DEF Ownership, LayoutOwned, Owned, Fallback, Saved, Unattached, PlainShell

LEMMA OwnershipRecovers ==
  ASSUME TypeInv, Ownership, NEW p \in Panes,
         RecoversWindow(p) \/ RecoversUnattached(p) \/ RecoversWithoutTmux(p)
  PROVE  Ownership'
<1>1. CASE RecoversWindow(p)
  <2>1. PICK w \in find_window(p, Saved(p)) :
          Recovered(p, IF CanAttach(w) THEN Attached(w) ELSE Fallback(p), TRUE)
    BY <1>1 DEF RecoversWindow
  <2>2. w \in Windows /\ tag[w] = p
    BY <2>1, FallbackOwned, FindWindowOwned DEF TypeInv
  <2>3. Owned(Attached(w).win, p) /\ Attached(w) \in Session
    BY <2>2, SessionFacts DEF Owned, Attached
  <2>4. UNCHANGED <<tag, nextWindow>>
    BY <1>1 DEF RecoversWindow
  <2> QED
    BY <2>1, <2>3, <2>4, FallbackOwned, FallbackType, OwnershipRecovered
<1>2. CASE RecoversUnattached(p) \/ RecoversWithoutTmux(p)
  <2>1. PICK s \in {Fallback(p), PlainShell}, c \in BOOLEAN : Recovered(p, s, c)
    BY <1>2 DEF RecoversUnattached, RecoversWithoutTmux
  <2>2. UNCHANGED <<tag, nextWindow>>
    BY <1>2 DEF RecoversUnattached, RecoversWithoutTmux
  <2> QED
    BY <2>1, <2>2, FallbackOwned, FallbackType, SessionFacts, OwnershipRecovered
<1> QED
  BY <1>1, <1>2

\* A step that opens a window for `q` keeps ownership if it changes nothing
\* but the sessions and one request, to owned ones.
LEMMA OwnershipNewWindow ==
  ASSUME TypeInv, Ownership, NEW q \in Panes, NewWindow(q),
         UNCHANGED <<disk, saver>>, recovery'.loaded = recovery.loaded,
         \A p \in Panes : session'[p] = session[p] \/ (p = q /\ session'[p].win = nextWindow),
         \A h \in Handlers :
           \/ request'[h] = request[h]
           \/ /\ request'[h].bytes \in {request[h].bytes, EmptyLayout}
              /\ request'[h].pane = q
              /\ request'[h].new.win = nextWindow
              /\ \/ request'[h].old.win = NoWindow
                 \/ request'[h].old = request[h].old /\ request[h].pane = q
  PROVE  Ownership'
<1>1. /\ \A w \in Windows : w >= nextWindow' => tag'[w] = Nobody
      /\ tag'[nextWindow] = q
  BY NewWindowOwned
<1>2. \A p \in Panes : Owned(session[p].win, p)'
  BY <1>1, NewWindowKeeps DEF Owned
<1>3. \A L \in Layout : LayoutOwned(L) => \A p \in Panes :
        L.win[p] # NoWindow => tag'[L.win[p]] = p
  BY NewWindowKeeps
<1>4. LayoutOwned(disk)' /\ LayoutOwned(saver.bytes)'
  BY <1>3 DEF LayoutOwned, Owned, Ownership, TypeInv, TypeOK
<1>5. LayoutOwned(recovery.loaded)'
  BY <1>3 DEF LayoutOwned, Owned, Ownership, TypeInv, TypeOK, Recovery
<1>6. ASSUME NEW h \in Handlers PROVE RequestOwned(request[h])'
  <2>1. request[h].bytes \in Layout /\ LayoutOwned(request[h].bytes)
    BY DEF TypeInv, TypeOK, Request, Ownership, RequestOwned
  <2>2. EmptyLayout \in Layout /\ LayoutOwned(EmptyLayout)
    BY EmptyLayoutType DEF EmptyLayout, LayoutOwned, Owned
  <2>3. request'[h].bytes \in {request[h].bytes, EmptyLayout}
    OBVIOUS
  <2>4. LayoutOwned(request[h].bytes)'
    BY <1>3, <2>1, <2>2, <2>3 DEF LayoutOwned, Owned
  <2>5. request[h].pane \in Panes =>
          /\ request[h].new.win # NoWindow => tag'[request[h].new.win] = request[h].pane
          /\ request[h].old.win # NoWindow => tag'[request[h].old.win] = request[h].pane
    BY NewWindowKeeps
  <2>6. CASE request'[h] = request[h]
    BY <2>4, <2>5, <2>6 DEF Ownership, RequestOwned, Owned
  <2>7. CASE request'[h] # request[h]
    BY <1>1, <2>4, <2>5, <2>7 DEF RequestOwned, Owned
  <2> QED
    BY <2>6, <2>7
<1> QED
  BY <1>1, <1>2, <1>4, <1>5, <1>6 DEF Ownership

LEMMA OwnershipCreateSpawns ==
  ASSUME TypeInv, Ownership, NEW h \in Handlers, NEW p \in Panes, CreateSpawns(h, p)
  PROVE  Ownership'
<1>1. PICK s \in {Attached(nextWindow), PlainShell} :
        /\ IF s.kind = "tmux" THEN NewWindow(p)
           ELSE UNCHANGED <<live, tag, nextWindow, sink>>
        /\ request' = [request EXCEPT ![h] =
             [Idle EXCEPT !.step = "commit", !.op = "create", !.pane = p, !.new = s]]
  BY DEF CreateSpawns
<1>2. UNCHANGED <<disk, saver, session, recovery>>
  BY DEF CreateSpawns
<1>3. CASE s.kind = "tmux"
  <2>1. s.win = nextWindow /\ NewWindow(p)
    BY <1>1, <1>3 DEF Attached, PlainShell
  <2>2. \A i \in Handlers :
          \/ request'[i] = request[i]
          \/ /\ request'[i].bytes = EmptyLayout /\ request'[i].pane = p
             /\ request'[i].new.win = nextWindow /\ request'[i].old.win = NoWindow
    BY <1>1, <2>1 DEF TypeInv, TypeOK, Idle, NoSession
  <2> QED
    BY <1>2, <2>1, <2>2, OwnershipNewWindow
<1>4. CASE s.kind # "tmux"
  <2>1. s.win = NoWindow
    BY <1>1, <1>4 DEF Attached, PlainShell
  <2>2. RequestOwned([Idle EXCEPT !.step = "commit", !.op = "create", !.pane = p, !.new = s])
    BY <2>1, IdleOwned DEF RequestOwned, LayoutOwned, Idle, NoSession, Owned
  <2>3. \A i \in Handlers : RequestOwned(request'[i])
    BY <1>1, <2>2 DEF Ownership, TypeInv, TypeOK
  <2> QED
    BY <1>1, <1>2, <1>4, <2>3, OwnershipFrame DEF Ownership, Untagged
<1> QED
  BY <1>3, <1>4

LEMMA OwnershipReattachSpawns ==
  ASSUME TypeInv, Ownership, NEW h \in Handlers, ReattachSpawns(h)
  PROVE  Ownership'
<1>1. /\ request[h].pane \in Panes /\ request[h] \in Request
      /\ Owned(request[h].old.win, request[h].pane)
  BY DEF TypeInv, TypeOK, Ownership, RequestOwned, ReattachSpawns
<1>2. UNCHANGED <<disk, saver, session, recovery>>
  BY DEF ReattachSpawns
<1>3. CASE request[h].old.win = NoWindow
  <2>1. request' = [request EXCEPT ![h].step = "install", ![h].new = PlainShell]
        /\ UNCHANGED <<tag, nextWindow>>
    BY <1>3 DEF ReattachSpawns
  <2>2. \A i \in Handlers : RequestOwned(request'[i])
    BY <1>1, <2>1, FallbackOwned DEF Ownership, RequestOwned, TypeInv, TypeOK, Request, Owned, PlainShell
  <2> QED
    BY <1>2, <2>1, <2>2, OwnershipFrame DEF Ownership, Untagged
<1>4. CASE request[h].old.win # NoWindow
  <2>1. request' = [request EXCEPT ![h].step = "install", ![h].new = Attached(nextWindow)]
        /\ NewWindow(request[h].pane)
    BY <1>4 DEF ReattachSpawns
  <2>2. \A i \in Handlers :
          \/ request'[i] = request[i]
          \/ /\ request'[i].bytes = request[i].bytes
             /\ request'[i].pane = request[h].pane
             /\ request'[i].new.win = nextWindow
             /\ request'[i].old = request[i].old /\ request[i].pane = request[h].pane
    BY <1>1, <2>1 DEF TypeInv, TypeOK, Request, Attached
  <2> QED
    BY <1>1, <1>2, <2>1, <2>2, OwnershipNewWindow
<1> QED
  BY <1>3, <1>4

LEMMA OwnershipRecoversFresh ==
  ASSUME TypeInv, Ownership, NEW p \in Panes, RecoversFresh(p)
  PROVE  Ownership'
<1>1. CASE NewWindow(p) /\ Recovered(p, Attached(nextWindow), TRUE)
  <2>1. \A q \in Panes : session'[q] = session[q] \/ (q = p /\ session'[q].win = nextWindow)
    BY <1>1 DEF Recovered, Attached, TypeInv, TypeOK
  <2>2. recovery'.loaded = recovery.loaded /\ UNCHANGED <<disk, saver, request>>
    BY <1>1 DEF Recovered, TypeInv, TypeOK, Recovery
  <2> QED
    BY <1>1, <2>1, <2>2, OwnershipNewWindow
<1>2. CASE Recovered(p, PlainShell, TRUE) /\ UNCHANGED <<live, tag, nextWindow, sink>>
  BY <1>2, FallbackOwned, SessionFacts, OwnershipRecovered
<1> QED
  BY <1>1, <1>2 DEF RecoversFresh

LEMMA OwnershipStep ==
  ASSUME TmuxMayEnd = FALSE, TypeInv, Ownership, [Next]_vars
  PROVE  Ownership'
<1>1. CASE UNCHANGED vars
  BY <1>1, OwnershipQuiet DEF vars, service, tmux
<1>2. ASSUME NEW h \in Handlers, HandlerStep(h) PROVE Ownership'
  <2>1. ASSUME CreateRefused(h) \/ ReattachFails(h) \/ ReattachDrops(h)
                 \/ Writes(h) \/ WriteFails(h)
        PROVE  Ownership'
    <3>1. Answer(h) /\ UNCHANGED <<tag, nextWindow, session, saver, recovery>>
      BY <2>1 DEF CreateRefused, ReattachFails, ReattachDrops, Writes, WriteFails, tmux
    <3>2. disk' = disk \/ disk' = request[h].bytes
      BY <2>1 DEF CreateRefused, ReattachFails, ReattachDrops, Writes, WriteFails
    <3> QED
      BY <3>1, <3>2, OwnershipAnswers
  <2> QED
    BY <1>2, <2>1, OwnershipCreateCommits, OwnershipReattachFinds,
       OwnershipReattachSpawns, OwnershipReattachInstalls, OwnershipEndsOldSession
    DEF HandlerStep
<1>3. ASSUME NEW h \in Handlers, NEW p \in Panes,
             CreateSpawns(h, p) \/ CloseCommits(h, p) \/ ReattachBegins(h, p)
      PROVE  Ownership'
  BY <1>3, OwnershipCreateSpawns, OwnershipCloseCommits, OwnershipReattachBegins
<1>4. CASE RecoveryStep
  <2>1. CASE Sweeps
    BY <2>1, OwnershipQuiet DEF Sweeps, service
  <2> QED
    BY <1>4, <2>1, OwnershipLoadsSnapshot, OwnershipRecovers,
       OwnershipRecoversFresh, OwnershipEncodes
    DEF RecoveryStep
<1>5. ASSUME NEW w \in Windows, ProgramEnds(w) \/ ObserveEnd(w) PROVE Ownership'
  BY <1>5, OwnershipQuiet DEF ProgramEnds, ObserveEnd, service, tmux
<1>6. CASE Exits \/ Crashes
  BY <1>6, OwnershipProcessGone DEF Exits, Crashes
<1>7. ~TmuxEnds
  BY DEF TmuxEnds
<1> QED
  BY <1>1, <1>2, <1>3, <1>4, <1>5, <1>6, <1>7, OwnershipReorderCommits,
     OwnershipShellEnds, OwnershipEncodes, OwnershipTickWrites
  DEF Next

LEMMA OwnershipInit == Init => Ownership
<1> SUFFICES ASSUME Init PROVE Ownership
  OBVIOUS
<1>1. LayoutOwned(EmptyLayout) /\ NoSession.win = NoWindow
  BY DEF EmptyLayout, LayoutOwned, Owned, NoSession
<1> QED
  BY <1>1, IdleOwned DEF Init, Ownership, Owned, NotSaving, NoRecovery

\* While the tmux server outlives the service, everything that is saved, about
\* to be saved, loaded or held for a pane names a window opened for that pane.
THEOREM OwnershipHolds ==
  ASSUME TmuxMayEnd = FALSE
  PROVE  Spec => []Ownership
<1>1. Init => TypeInv /\ Ownership
  BY TypeInit, OwnershipInit
<1>2. TypeInv /\ Ownership /\ [Next]_vars => TypeInv' /\ Ownership'
  BY TypeStep, OwnershipStep
<1> QED
  BY <1>1, <1>2, PTL DEF Spec

\* ... so no terminal ever shows the program of another tab, after any mix of
\* concurrent requests, stale snapshot writes, crashes and recoveries.
THEOREM PanesOwnTheirWindows ==
  ASSUME TmuxMayEnd = FALSE
  PROVE  Spec => []EveryPaneOwnsItsWindow
<1>1. TypeOK /\ Ownership => EveryPaneOwnsItsWindow
  BY WindowFacts, SessionFacts DEF TypeOK, Ownership, Owned, EveryPaneOwnsItsWindow, OwnWindow
<1> QED
  BY <1>1, TypeCorrect, OwnershipHolds, PTL

\* ... and no window is behind two panes, in memory or in sessions.json.
THEOREM WindowsAreNotShared ==
  ASSUME TmuxMayEnd = FALSE
  PROVE  Spec => []NoSharedWindow
<1>1. Ownership => NoSharedWindow
  BY DEF Ownership, LayoutOwned, Owned, NoSharedWindow
<1> QED
  BY <1>1, OwnershipHolds, PTL

-----------------------------------------------------------------------------
(* MAX_TABS_PER_WORKSPACE.  Recovery loads whatever sessions.json says, so *)
(* the limit has to hold of every layout that can end up in the file.      *)

Limited(T) == IsFiniteSet(T) /\ Cardinality(T) <= MaxTabs

LimitInv ==
  /\ Limited(tabs) /\ Limited(disk.tabs) /\ Limited(saver.bytes.tabs)
  /\ \A h \in Handlers : Limited(request[h].bytes.tabs)

LEMMA NoTabsLimited == Limited({})
BY BoundsAssumption, FS_EmptySet DEF Limited

LEMMA EncodeLimited ==
  ASSUME NEW T, Limited(T), NEW S
  PROVE  Limited(encode_desired_state(T, S).tabs)
BY DEF encode_desired_state

\* Under the lock there is still room, so one more tab fits; one less always does.
LEMMA OneTabLimited ==
  ASSUME NEW T, Limited(T), NEW p
  PROVE  /\ Limited(T \ {p})
         /\ Cardinality(T) < MaxTabs => Limited(T \cup {p})
<1>1. IsFiniteSet(T) /\ Cardinality(T) \in Nat /\ MaxTabs \in Nat
  BY FS_CardinalityType, BoundsAssumption DEF Limited
<1>2. /\ IsFiniteSet(T \cup {p})
      /\ Cardinality(T \cup {p}) = IF p \in T THEN Cardinality(T) ELSE Cardinality(T) + 1
  BY <1>1, FS_AddElement
<1>3. /\ IsFiniteSet(T \ {p})
      /\ Cardinality(T \ {p}) = IF p \in T THEN Cardinality(T) - 1 ELSE Cardinality(T)
  BY <1>1, FS_RemoveElement
<1> QED
  BY <1>1, <1>2, <1>3 DEF Limited

\* A step that gives one request a layout that fits.
LEMMA RequestLimited ==
  ASSUME TypeInv, LimitInv, NEW h \in Handlers, NEW r, Limited(r.bytes.tabs),
         request' = [request EXCEPT ![h] = r]
  PROVE  \A i \in Handlers : Limited(request'[i].bytes.tabs)
<1>1. \A i \in Handlers : request'[i] = IF i = h THEN r ELSE request[i]
  BY DEF TypeInv, TypeOK
<1> QED
  BY <1>1 DEF LimitInv

LEMMA LimitInit == Init => LimitInv
<1>1. EmptyLayout.tabs = {} /\ Idle.bytes = EmptyLayout /\ NotSaving.bytes = EmptyLayout
  BY DEF EmptyLayout, Idle, NotSaving
<1> QED
  BY <1>1, NoTabsLimited DEF Init, LimitInv

LEMMA LimitRequests ==
  ASSUME TypeInv, LimitInv, NEW h \in Handlers, NEW p \in Panes,
         CreateSpawns(h, p) \/ CloseCommits(h, p) \/ ReattachBegins(h, p)
  PROVE  LimitInv'
<1>1. Idle.bytes.tabs = {}
  BY DEF Idle, EmptyLayout
<1>2. CASE CreateSpawns(h, p)
  <2>1. PICK s \in {Attached(nextWindow), PlainShell} :
          request' = [request EXCEPT ![h] =
             [Idle EXCEPT !.step = "commit", !.op = "create", !.pane = p, !.new = s]]
    BY <1>2 DEF CreateSpawns
  <2> DEFINE r == [Idle EXCEPT !.step = "commit", !.op = "create", !.pane = p, !.new = s]
  <2>2. r.bytes.tabs = {}
    BY <1>1 DEF Idle
  <2>3. UNCHANGED <<tabs, disk, saver>>
    BY <1>2 DEF CreateSpawns
  <2> HIDE DEF r
  <2>4. \A i \in Handlers : Limited(request'[i].bytes.tabs)
    BY <2>1, <2>2, NoTabsLimited, RequestLimited DEF r
  <2> QED
    BY <2>3, <2>4 DEF LimitInv
<1>3. CASE CloseCommits(h, p)
  <2> DEFINE L == encode_desired_state(tabs', session')
             r == [Idle EXCEPT !.step = "end", !.op = "close", !.pane = p,
                               !.old = session[p], !.bytes = L]
  <2>1. /\ tabs' = tabs \ {p} /\ UNCHANGED <<disk, saver>>
        /\ request' = [request EXCEPT ![h] = r]
    BY <1>3 DEF CloseCommits
  <2>2. Limited(tabs')
    BY <2>1, OneTabLimited DEF LimitInv
  <2>3. r.bytes = L
    BY DEF Idle
  <2>4. Limited(L.tabs)
    BY <2>2, EncodeLimited
  <2> HIDE DEF r, L
  <2>5. \A i \in Handlers : Limited(request'[i].bytes.tabs)
    BY <2>1, <2>3, <2>4, RequestLimited
  <2> QED
    BY <2>1, <2>2, <2>5 DEF LimitInv
<1>4. CASE ReattachBegins(h, p)
  <2> DEFINE r == [Idle EXCEPT !.step = "lookup", !.op = "reattach", !.pane = p,
                               !.old = session[p]]
  <2>1. /\ UNCHANGED <<tabs, disk, saver>>
        /\ request' = [request EXCEPT ![h] = r]
    BY <1>4 DEF ReattachBegins
  <2>2. r.bytes.tabs = {}
    BY <1>1 DEF Idle
  <2> HIDE DEF r
  <2>3. \A i \in Handlers : Limited(request'[i].bytes.tabs)
    BY <2>1, <2>2, NoTabsLimited, RequestLimited
  <2> QED
    BY <2>1, <2>3 DEF LimitInv
<1> QED
  BY <1>2, <1>3, <1>4

\* The commits under the lock: the layout that is saved is the new one.
LEMMA LimitCommits ==
  ASSUME TypeInv, LimitInv, NEW h \in Handlers,
         CreateCommits(h) \/ ReattachInstalls(h) \/ ReorderCommits(h)
  PROVE  LimitInv'
<1>1. Limited(tabs') /\ UNCHANGED <<disk, saver>>
  <2>1. CASE CreateCommits(h)
    <3>1. /\ Cardinality(tabs) < MaxTabs /\ tabs' = tabs \cup {request[h].pane}
          /\ UNCHANGED <<disk, saver>>
      BY <2>1 DEF CreateCommits
    <3> QED
      BY <3>1, OneTabLimited DEF LimitInv
  <2>2. CASE ReattachInstalls(h) \/ ReorderCommits(h)
    BY <2>2 DEF LimitInv, ReattachInstalls, ReorderCommits
  <2> QED
    BY <2>1, <2>2
<1>2. Limited(encode_desired_state(tabs', session').tabs)
  BY <1>1, EncodeLimited
<1>3. request[h] \in Request
  BY DEF TypeInv, TypeOK
<1>4. \A i \in Handlers :
        \/ request'[i].bytes = request[i].bytes
        \/ request'[i].bytes = encode_desired_state(tabs', session')
  <2>1. CASE CreateCommits(h)
    BY <1>3, <2>1 DEF CreateCommits, TypeInv, TypeOK, Request
  <2>2. CASE ReattachInstalls(h)
    BY <1>3, <2>2 DEF ReattachInstalls, TypeInv, TypeOK, Request
  <2>3. CASE ReorderCommits(h)
    <3>1. tabs' = tabs /\ session' = session
      BY <2>3 DEF ReorderCommits
    <3> QED
      BY <2>3, <3>1 DEF ReorderCommits, TypeInv, TypeOK, Idle
  <2> QED
    BY <2>1, <2>2, <2>3
<1> QED
  BY <1>1, <1>2, <1>4 DEF LimitInv

\* The other steps of a handler change no layout, save one or drop it.
LEMMA LimitHandlerStep ==
  ASSUME TypeInv, LimitInv, NEW h \in Handlers, HandlerStep(h)
  PROVE  LimitInv'
<1>1. Idle.bytes.tabs = {} /\ request[h] \in Request
  BY DEF Idle, EmptyLayout, TypeInv, TypeOK
<1>2. CASE CreateRefused(h) \/ ReattachFails(h) \/ ReattachDrops(h)
             \/ Writes(h) \/ WriteFails(h)
  <2>1. UNCHANGED <<tabs, saver>> /\ request' = [request EXCEPT ![h] = Idle]
    BY <1>2 DEF CreateRefused, ReattachFails, ReattachDrops, Writes, WriteFails, Answer
  <2>2. disk' = disk \/ disk' = request[h].bytes
    BY <1>2 DEF CreateRefused, ReattachFails, ReattachDrops, Writes, WriteFails
  <2>3. \A i \in Handlers : Limited(request'[i].bytes.tabs)
    BY <1>1, <2>1, NoTabsLimited, RequestLimited
  <2> QED
    BY <2>1, <2>2, <2>3 DEF LimitInv
<1>3. CASE ReattachFinds(h) \/ ReattachSpawns(h) \/ EndsOldSession(h)
  <2>1. UNCHANGED <<tabs, saver, disk>>
    BY <1>3 DEF ReattachFinds, ReattachSpawns, EndsOldSession
  <2>2. \A i \in Handlers :
          request'[i].bytes = request[i].bytes \/ request'[i].bytes.tabs = {}
    <3>1. CASE ReattachFinds(h)
      BY <1>1, <3>1 DEF ReattachFinds, Answer, TypeInv, TypeOK, Request
    <3>2. CASE ReattachSpawns(h)
      BY <1>1, <3>2 DEF ReattachSpawns, TypeInv, TypeOK, Request
    <3>3. CASE EndsOldSession(h)
      BY <1>1, <3>3 DEF EndsOldSession, TypeInv, TypeOK, Request
    <3> QED
      BY <1>3, <3>1, <3>2, <3>3
  <2> QED
    BY <2>1, <2>2, NoTabsLimited DEF LimitInv
<1> QED
  BY <1>2, <1>3, LimitCommits DEF HandlerStep

LEMMA LimitTick ==
  ASSUME LimitInv,
         TickEncodes \/ Stops \/ TickWrites \/ TickFails \/ RecoverySaves
  PROVE  LimitInv'
<1>1. Limited(encode_desired_state(tabs, session).tabs) /\ NotSaving.bytes.tabs = {}
  BY EncodeLimited DEF LimitInv, NotSaving, EmptyLayout
<1>2. UNCHANGED <<tabs, request>>
  BY DEF TickEncodes, Stops, TickWrites, TickFails, RecoverySaves
<1>3. Limited(disk'.tabs) /\ Limited(saver'.bytes.tabs)
  <2>1. CASE TickEncodes \/ Stops
    <3>1. disk' = disk /\ saver'.bytes = encode_desired_state(tabs, session)
      BY <2>1 DEF TickEncodes, Stops
    <3> QED
      BY <1>1, <3>1 DEF LimitInv
  <2>2. CASE TickWrites \/ TickFails
    <3>1. (disk' = disk \/ disk' = saver.bytes) /\ saver' = NotSaving
      BY <2>2 DEF TickWrites, TickFails
    <3> QED
      BY <1>1, <3>1, NoTabsLimited DEF LimitInv
  <2>3. CASE RecoverySaves
    <3>1. disk' = encode_desired_state(tabs, session) /\ saver' = saver
      BY <2>3 DEF RecoverySaves
    <3> QED
      BY <1>1, <3>1 DEF LimitInv
  <2> QED
    BY <2>1, <2>2, <2>3
<1> QED
  BY <1>2, <1>3 DEF LimitInv

LEMMA LimitProcessGone ==
  ASSUME LimitInv, ProcessGone
  PROVE  LimitInv'
<1>1. Idle.bytes.tabs = {} /\ NotSaving.bytes.tabs = {}
  BY DEF Idle, NotSaving, EmptyLayout
<1> QED
  BY <1>1, NoTabsLimited DEF ProcessGone, LimitInv

LEMMA LimitStep ==
  ASSUME TypeInv, LimitInv, [Next]_vars
  PROVE  LimitInv'
<1>1. ASSUME UNCHANGED <<tabs, disk, saver, request>> PROVE LimitInv'
  BY <1>1 DEF LimitInv
<1>2. CASE UNCHANGED vars
  BY <1>1, <1>2 DEF vars, service
<1>3. CASE RecoveryStep
  <2>1. CASE LoadsSnapshot
    BY <2>1 DEF LoadsSnapshot, LimitInv
  <2>2. ASSUME NEW p \in Panes, RecoversWindow(p) \/ RecoversFresh(p)
                 \/ RecoversUnattached(p) \/ RecoversWithoutTmux(p)
        PROVE  LimitInv'
    BY <1>1, <2>2 DEF RecoversWindow, RecoversFresh, RecoversUnattached, RecoversWithoutTmux,
                      Recovered
  <2>3. CASE Sweeps
    BY <1>1, <2>3 DEF Sweeps, service
  <2> QED
    BY <1>3, <2>1, <2>2, <2>3, LimitTick DEF RecoveryStep
<1>4. ASSUME NEW w \in Windows, ProgramEnds(w) \/ ObserveEnd(w) PROVE LimitInv'
  BY <1>1, <1>4 DEF ProgramEnds, ObserveEnd, service
<1>5. ASSUME NEW p \in Panes, ShellEnds(p) PROVE LimitInv'
  BY <1>1, <1>5 DEF ShellEnds
<1>6. CASE Exits \/ Crashes
  BY <1>6, LimitProcessGone DEF Exits, Crashes
<1>7. CASE TmuxEnds
  BY <1>1, <1>7 DEF TmuxEnds, service
<1> QED
  BY <1>2, <1>3, <1>4, <1>5, <1>6, <1>7, LimitRequests, LimitCommits, LimitHandlerStep, LimitTick
  DEF Next

\* create_workspace_tab: no workstation has more than MAX_TABS_PER_WORKSPACE tabs,
\* however many creations passed the first check, and whichever snapshot is loaded.
THEOREM TabLimitHolds == Spec => []TabLimit
<1>1. Init => TypeInv /\ LimitInv
  BY TypeInit, LimitInit
<1>2. TypeInv /\ LimitInv /\ [Next]_vars => TypeInv' /\ LimitInv'
  BY TypeStep, LimitStep
<1>3. LimitInv => TabLimit
  BY DEF LimitInv, Limited, TabLimit
<1> QED
  BY <1>1, <1>2, <1>3, PTL DEF Spec

-----------------------------------------------------------------------------
(* Recovery keeps what was running.  The windows of the loaded layout are  *)
(* in recovery.keep from the start, a window tagged with a pane of the     *)
(* layout is never swept, and nothing but the sweep kills a window before  *)
(* the service accepts connections.                                        *)

Starting == phase \in {"recovering", "saving"}

\* A recovered pane has the window that was saved for it, if it was there.
SavedWindowsStay ==
  \A p \in recovery.loaded.tabs \ recovery.todo :
    recovery.managed /\ recovery.loaded.win[p] \in recovery.alive \ finished
      => session[p].win = recovery.loaded.win[p]

\* The programs the loaded layout can name.
Kept(p) == {w \in recovery.alive : w = recovery.loaded.win[p] \/ tag[w] = p}

ProgramsRun == \A p \in recovery.loaded.tabs : Kept(p) \subseteq live \cup finished

RecoveryInv ==
  /\ phase = "down" \/ Starting => \A h \in Handlers : request[h] = Idle
  /\ Starting =>
       /\ tabs = recovery.loaded.tabs
       /\ \A p \in tabs : recovery.loaded.win[p] \in recovery.keep \cup {NoWindow}
       /\ SavedWindowsStay
  /\ phase = "recovering" => recovery.alive \subseteq live \cup finished
  /\ phase = "saving" => recovery.todo = {} /\ ProgramsRun

LEMMA RecoveryInit == Init => RecoveryInv
BY DEF Init, RecoveryInv, Starting

\* While the service serves, nothing is promised; it is not serving before
\* recovery is over, so the steps of requests and of the tick are all of this kind.
LEMMA RecoveryServing ==
  ASSUME phase' \in {"serving", "stopping"}
  PROVE  RecoveryInv'
BY DEF RecoveryInv, Starting

LEMMA RecoveryProcessGone ==
  ASSUME ProcessGone
  PROVE  RecoveryInv'
<1>1. phase' = "down" /\ request' = [h \in Handlers |-> Idle]
  BY DEF ProcessGone
<1> QED
  BY <1>1 DEF RecoveryInv, Starting

\* A request is only under way while the service serves.
LEMMA RecoveryRequests ==
  ASSUME TypeInv, RecoveryInv, NEW h \in Handlers, request[h].step # "idle"
  PROVE  phase \in {"serving", "stopping"}
<1>1. Idle.step = "idle"
  BY DEF Idle
<1> QED
  BY <1>1 DEF TypeInv, TypeOK, RecoveryInv, Starting

\* Programs that end and sessions that see it take nothing back.
LEMMA RecoveryWindows ==
  ASSUME TypeInv, RecoveryInv,
         \/ \E w \in Windows : ProgramEnds(w) \/ ObserveEnd(w)
         \/ \E p \in Panes : ShellEnds(p)
  PROVE  RecoveryInv'
<1>1. /\ UNCHANGED <<phase, tabs, request, recovery, tag>>
      /\ live \cup finished \subseteq live' \cup finished' /\ finished \subseteq finished'
  BY DEF ProgramEnds, ObserveEnd, ShellEnds, service, tmux
<1>2. \A p \in Panes : session'[p].win = session[p].win
  <2>1. CASE session' = session
    BY <2>1
  <2>2. ASSUME NEW q \in Panes, ShellEnds(q)
        PROVE  \A p \in Panes : session'[p].win = session[p].win
    BY <2>2 DEF ShellEnds, TypeInv, TypeOK, Session
  <2> QED
    BY <2>1, <2>2 DEF ProgramEnds, ObserveEnd, service
<1>3. recovery.loaded.tabs \subseteq Panes
  BY DEF TypeInv, TypeOK, Recovery, Layout
<1>4. Starting => SavedWindowsStay'
  BY <1>1, <1>2, <1>3 DEF RecoveryInv, SavedWindowsStay
<1>5. phase = "saving" => ProgramsRun'
  BY <1>1 DEF RecoveryInv, ProgramsRun, Kept
<1> QED
  BY <1>1, <1>4, <1>5 DEF RecoveryInv, Starting

LEMMA RecoveryLoadsSnapshot ==
  ASSUME TypeInv, RecoveryInv, LoadsSnapshot
  PROVE  RecoveryInv'
<1>1. /\ phase = "down" /\ phase' = "recovering" /\ tabs' = disk.tabs
      /\ recovery'.todo = disk.tabs /\ recovery'.loaded = disk /\ recovery'.alive = live
      /\ recovery'.keep = {disk.win[p] : p \in disk.tabs} \ {NoWindow}
      /\ UNCHANGED <<request, live>>
  BY DEF LoadsSnapshot, tmux
<1>2. SavedWindowsStay'
  BY <1>1 DEF SavedWindowsStay
<1> QED
  BY <1>1, <1>2 DEF RecoveryInv, Starting

\* One pane is recovered: with its saved window, if that is still there.
LEMMA RecoveryRecovered ==
  ASSUME TypeInv, RecoveryInv, NEW p \in Panes, NEW s \in Session, NEW c, Recovers(p),
         Recovered(p, s, c),
         live \subseteq live',
         recovery.managed /\ Saved(p) \in live => s.win = Saved(p)
  PROVE  RecoveryInv'
<1>1. /\ UNCHANGED <<phase, tabs, request, finished>> /\ phase = "recovering"
      /\ session' = [session EXCEPT ![p] = s]
      /\ recovery' = [recovery EXCEPT !.todo = @ \ {p},
                                      !.keep = @ \cup ({s.win} \ {NoWindow}),
                                      !.connected = c]
  BY DEF Recovered, Recovers
<1>2. /\ recovery'.todo = recovery.todo \ {p} /\ recovery.keep \subseteq recovery'.keep
      /\ recovery'.loaded = recovery.loaded /\ recovery'.alive = recovery.alive
      /\ recovery'.managed = recovery.managed
  BY <1>1 DEF TypeInv, TypeOK, Recovery
<1>3. \A q \in Panes : session'[q] = IF q = p THEN s ELSE session[q]
  BY <1>1 DEF TypeInv, TypeOK
<1>4. recovery.loaded.tabs \subseteq Panes
  BY DEF TypeInv, TypeOK, Recovery, Layout
<1>5. SavedWindowsStay'
  <2> SUFFICES ASSUME NEW q \in recovery.loaded.tabs \ (recovery.todo \ {p}),
                      recovery.managed, recovery.loaded.win[q] \in recovery.alive \ finished
               PROVE  session'[q].win = recovery.loaded.win[q]
    BY <1>1, <1>2 DEF SavedWindowsStay
  <2>1. CASE q = p
    <3>1. Saved(p) \in live
      BY <1>1, <2>1 DEF RecoveryInv, Saved
    <3> QED
      BY <1>3, <1>4, <2>1, <3>1 DEF Saved
  <2>2. CASE q # p
    BY <1>1, <1>3, <1>4, <2>2 DEF RecoveryInv, Starting, SavedWindowsStay
  <2> QED
    BY <2>1, <2>2
<1>6. recovery'.alive \subseteq live' \cup finished'
  BY <1>1, <1>2 DEF RecoveryInv
<1> QED
  BY <1>1, <1>2, <1>5, <1>6 DEF RecoveryInv, Starting

LEMMA RecoverySteps ==
  ASSUME TypeInv, RecoveryInv, NEW p \in Panes,
         RecoversWindow(p) \/ RecoversFresh(p) \/ RecoversUnattached(p) \/ RecoversWithoutTmux(p)
  PROVE  RecoveryInv'
<1>1. TypeOK /\ Saved(p) \in Windows \cup {NoWindow} /\ live \subseteq Windows
  BY DEF TypeInv, TypeOK, Saved, Recovery, Layout
<1>2. Fallback(p) \in Session /\ Fallback(p).win = Saved(p)
  BY <1>1, FallbackType DEF Fallback, PlainShell, Unattached
<1>3. CASE RecoversWindow(p)
  <2>1. PICK w \in find_window(p, Saved(p)) :
          Recovered(p, IF CanAttach(w) THEN Attached(w) ELSE Fallback(p), TRUE)
    BY <1>3 DEF RecoversWindow
  <2> DEFINE s == IF CanAttach(w) THEN Attached(w) ELSE Fallback(p)
  <2>2. w \in live
    BY <1>1, <2>1, FindWindowType
  <2>3. s \in Session
    BY <1>1, <1>2, <2>2, SessionFacts
  <2>4. Saved(p) \in live => s.win = Saved(p)
    BY <1>2, <2>1 DEF find_window, Attached
  <2>5. Recovers(p) /\ live' = live
    BY <1>3 DEF RecoversWindow
  <2> HIDE DEF s
  <2> QED
    BY <2>1, <2>3, <2>4, <2>5, RecoveryRecovered DEF s
<1>4. CASE RecoversFresh(p)
  <2>1. Recovers(p) /\ Saved(p) \notin live
    BY <1>4 DEF RecoversFresh, find_window
  <2>2. CASE NewWindow(p) /\ Recovered(p, Attached(nextWindow), TRUE)
    <3>1. Attached(nextWindow) \in Session /\ live \subseteq live'
      BY <1>1, <2>2, NewWindowType DEF NewWindow
    <3> QED
      BY <2>1, <2>2, <3>1, RecoveryRecovered
  <2>3. CASE Recovered(p, PlainShell, TRUE) /\ live' = live
    BY <2>1, <2>3, SessionFacts, RecoveryRecovered
  <2> QED
    BY <1>4, <2>2, <2>3 DEF RecoversFresh
<1>5. CASE RecoversUnattached(p)
  <2>1. PICK c \in BOOLEAN : Recovered(p, Fallback(p), c)
    BY <1>5 DEF RecoversUnattached
  <2>2. Recovers(p) /\ live' = live
    BY <1>5 DEF RecoversUnattached
  <2> QED
    BY <1>2, <2>1, <2>2, RecoveryRecovered
<1>6. CASE RecoversWithoutTmux(p)
  <2>1. Recovers(p) /\ live' = live /\ Recovered(p, PlainShell, FALSE) /\ ~recovery.managed
    BY <1>6 DEF RecoversWithoutTmux
  <2> QED
    BY <2>1, SessionFacts, RecoveryRecovered
<1> QED
  BY <1>3, <1>4, <1>5, <1>6

\* The sweep spares what the layout names: by id, through recovery.keep, or by tag.
LEMMA RecoverySweeps ==
  ASSUME TypeInv, RecoveryInv, Sweeps
  PROVE  RecoveryInv'
<1>1. /\ phase = "recovering" /\ phase' = "saving" /\ recovery.todo = {}
      /\ UNCHANGED <<tabs, session, request, recovery, tag, finished>>
  BY DEF Sweeps, service
<1>2. live \subseteq live' \cup Swept
  BY DEF Sweeps
<1>3. ASSUME NEW p \in recovery.loaded.tabs, NEW w \in Kept(p) PROVE w \in live' \cup finished
  <2>1. w \in recovery.alive /\ w \in live \cup finished /\ w # NoWindow
    BY <1>1, <1>3, WindowFacts DEF RecoveryInv, Kept, TypeInv, TypeOK, Recovery
  <2>2. CASE w = recovery.loaded.win[p]
    BY <1>1, <1>2, <2>1, <2>2 DEF RecoveryInv, Starting, Swept
  <2>3. CASE tag[w] = p
    BY <1>1, <1>2, <2>1, <2>3 DEF RecoveryInv, Starting, Swept
  <2> QED
    BY <2>2, <2>3 DEF Kept
<1>4. ProgramsRun'
  BY <1>1, <1>3 DEF ProgramsRun, Kept
<1>5. SavedWindowsStay'
  BY <1>1 DEF RecoveryInv, Starting, SavedWindowsStay
<1> QED
  BY <1>1, <1>4, <1>5 DEF RecoveryInv, Starting

LEMMA RecoveryKeepsStep ==
  ASSUME TypeInv, RecoveryInv, [Next]_vars
  PROVE  RecoveryInv'
<1>1. CASE UNCHANGED vars
  BY <1>1 DEF vars, service, tmux, RecoveryInv, Starting, SavedWindowsStay, ProgramsRun, Kept
<1>2. ASSUME NEW h \in Handlers, HandlerStep(h) PROVE RecoveryInv'
  <2>1. request[h].step # "idle" /\ phase' = phase
    BY <1>2 DEF HandlerStep, CreateCommits, CreateRefused, ReattachFinds, ReattachSpawns,
                ReattachFails, ReattachInstalls, ReattachDrops, EndsOldSession, Writes, WriteFails
  <2> QED
    BY <2>1, RecoveryRequests, RecoveryServing
<1>3. ASSUME NEW h \in Handlers, NEW p \in Panes,
             CreateSpawns(h, p) \/ CloseCommits(h, p) \/ ReattachBegins(h, p)
      PROVE  RecoveryInv'
  BY <1>3, RecoveryServing DEF CreateSpawns, CloseCommits, ReattachBegins, Begin
<1>4. ASSUME NEW h \in Handlers, ReorderCommits(h) PROVE RecoveryInv'
  BY <1>4, RecoveryServing DEF ReorderCommits, Begin
<1>5. CASE RecoveryStep
  BY <1>5, RecoveryLoadsSnapshot, RecoverySteps, RecoverySweeps, RecoveryServing
  DEF RecoveryStep, RecoverySaves
<1>6. CASE Exits \/ Crashes
  BY <1>6, RecoveryProcessGone DEF Exits, Crashes
<1>7. CASE TickEncodes \/ Stops
  BY <1>7, RecoveryServing DEF TickEncodes, Stops
<1>8. CASE TickWrites \/ TickFails
  BY <1>8 DEF TickWrites, TickFails, tmux, RecoveryInv, Starting, SavedWindowsStay, ProgramsRun, Kept
<1>9. CASE TmuxEnds
  <2>1. phase = "down" /\ phase' = "down" /\ request' = request
    BY <1>9 DEF TmuxEnds, service
  <2> QED
    BY <2>1 DEF RecoveryInv, Starting
<1> QED
  BY <1>1, <1>2, <1>3, <1>4, <1>5, <1>6, <1>7, <1>8, <1>9, RecoveryWindows DEF Next

\* SessionRegistry::persistent: once recovery has swept, whichever panes were
\* attached, opened anew or left without a terminal, every program that was running
\* and that the loaded layout can name still runs unless it ended by itself, and a
\* saved window that is still there is the one behind its pane.
THEOREM RecoveryKeepsProgramsHolds == Spec => []RecoveryKeepsPrograms
<1>1. Init => TypeInv /\ RecoveryInv
  BY TypeInit, RecoveryInit
<1>2. TypeInv /\ RecoveryInv /\ [Next]_vars => TypeInv' /\ RecoveryInv'
  BY TypeStep, RecoveryKeepsStep
<1>3. RecoveryInv => RecoveryKeepsPrograms
  BY DEF RecoveryInv, Starting, SavedWindowsStay, ProgramsRun, Kept, RecoveryKeepsPrograms
<1> QED
  BY <1>1, <1>2, <1>3, PTL DEF Spec
=============================================================================
