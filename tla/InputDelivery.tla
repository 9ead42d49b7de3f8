--------------------------- MODULE InputDelivery ----------------------------
(***************************************************************************)
(* Terminal input from the desktop to a terminal: the desktop's byte-      *)
(* bounded buffer and its one lane (crates/desktop/src/pipeline.rs), the   *)
(* client connection the lane uses (crates/session-client/src/lib.rs,      *)
(* desktop session.rs) and the service's handlers (session-service rpc.rs).*)
(*                                                                         *)
(* A handler's write keeps the promise that module InputOutcome states:    *)
(* "unsent" only if nothing of it is ever typed.                           *)
(* A plain PTY types a frame whole, in the order frames arrive; a tmux     *)
(* terminal types it chunk by chunk, here key by key.  A PTY write is over *)
(* after 5 s, before the client's 10 s read timeout; the chunks of a tmux  *)
(* write wait up to 5 s each, so only such a write can outlast the client. *)
(***************************************************************************)
EXTENDS TerminalFrames, SequencesExt, Filters

VARIABLES
  emitted,     \* keys the UI has emitted and the buffer accepted
  queued, in_flight, recoverable, buffered,  \* TerminalInputBuffer
  wake,        \* a wake-up is in the lane's channel
  lane,        \* the lane's task
  call,        \* session_call_with_delivery, on a background thread
  conn,        \* the shared client connection
  service,     \* whether the service process runs
  crashes,     \* counts ServiceEnds
  retries,     \* counts replay_recoverable
  serving,     \* WriteInput requests in the service, in order of arrival
  typed,       \* the keys each terminal's program received
  acked,       \* history: keys whose delivery was confirmed
  reported,    \* history: keys whose delivery the user was told is uncertain
  retried      \* history: keys the user asked to send again

buffer == <<queued, in_flight, recoverable, buffered>>
ui     == <<emitted, buffer, wake, acked, reported, retries, retried>>
vars   == <<ui, lane, call, conn, service, crashes, serving, typed>>

Outcomes == {"delivered", "unsent", "indeterminate"}
KeysOf(frames) == UNION {ToSet(frames[i].keys) : i \in DOMAIN frames}

Init ==
  /\ emitted = 0
  /\ queued = <<>> /\ in_flight = NoFrame /\ recoverable = <<>> /\ buffered = 0
  /\ wake = FALSE /\ lane = "asleep" /\ call = "none" /\ conn = "none"
  /\ service = "up" /\ crashes = 0 /\ serving = <<>>
  /\ typed = [p \in Panes |-> <<>>]
  /\ acked = {} /\ reported = {} /\ retried = {} /\ retries = 0

(***************************************************************************)
(* The UI: TerminalInputSender                                             *)
(***************************************************************************)
Coalesces(p, n) == /\ queued # <<>> /\ Last(queued).pane = p
                   /\ Len(Last(queued).keys) + n <= FrameKeys

\* Puts new keys in front of the ones they coalesce with.
PrependInput(p, keys) ==
  IF Coalesces(p, Len(keys))
  THEN [queued EXCEPT ![Len(queued)].keys = keys \o @]
  ELSE Append(queued, [pane |-> p, keys |-> keys])

AppendInput(p, keys) ==
  IF Coalesces(p, Len(keys))
  THEN [queued EXCEPT ![Len(queued)].keys = @ \o keys]
  ELSE Append(queued, [pane |-> p, keys |-> keys])

\* Input that does not fit is refused whole and changes nothing.
try_send(p, n) ==
  /\ n <= FrameKeys /\ buffered + n <= Capacity
  /\ emitted + n <= MaxKeys
  /\ emitted' = emitted + n
  /\ queued' = AppendInput(p, [i \in 1 .. n |-> emitted + i])
  /\ buffered' = buffered + n
  /\ wake' = TRUE
  /\ UNCHANGED <<in_flight, recoverable, acked, reported, retries, retried, lane,
                 call, conn, service, crashes, serving, typed>>

Replay(newQueue, rest) ==
  /\ recoverable # <<>> /\ retries < MaxRetries
  /\ queued' = newQueue /\ recoverable' = rest
  /\ wake' = TRUE
  /\ retries' = retries + 1 /\ retried' = retried \cup KeysOf(recoverable)
  /\ UNCHANGED <<emitted, in_flight, buffered, acked, reported, lane, call, conn,
                 service, crashes, serving, typed>>

replayOverwrites == Replay(recoverable, <<>>)

replayKeepsCopy == Replay(recoverable \o queued, recoverable)

replay_recoverable == Replay(recoverable \o queued, <<>>)

(***************************************************************************)
(* The lane: spawn_terminal_input_lane                                     *)
(***************************************************************************)
LaneWakes ==
  /\ lane = "asleep" /\ wake
  /\ lane' = "running" /\ wake' = FALSE
  /\ UNCHANGED <<emitted, buffer, acked, reported, retries, retried, call, conn,
                 service, crashes, serving, typed>>

begin_terminal_input ==
  /\ lane = "running" /\ queued # <<>>
  /\ in_flight' = Head(queued) /\ queued' = Tail(queued)
  /\ lane' = "calling" /\ call' = "send"
  /\ UNCHANGED <<emitted, recoverable, buffered, wake, acked, reported, retries,
                 retried, conn, service, crashes, serving, typed>>

LaneSleepsAfterEach ==
  /\ lane = "running" /\ lane' = "asleep"
  /\ UNCHANGED <<ui, call, conn, service, crashes, serving, typed>>

LaneSleeps ==
  /\ lane = "running" /\ queued = <<>>
  /\ lane' = "asleep"
  /\ UNCHANGED <<ui, call, conn, service, crashes, serving, typed>>

\* What becomes of the frame in flight; held input keeps its bytes' space.
Settle(held, outcome) ==
  /\ in_flight' = NoFrame
  /\ recoverable' = IF held THEN Append(recoverable, in_flight) ELSE recoverable
  /\ buffered' = IF held THEN buffered ELSE buffered - Len(in_flight.keys)
  /\ acked' = IF outcome # "delivered" THEN acked
              ELSE acked \cup ToSet(in_flight.keys)
  /\ reported' = IF held \/ outcome # "indeterminate" THEN reported
                 ELSE reported \cup ToSet(in_flight.keys)
  /\ lane' = "running" /\ call' = "none"
  /\ UNCHANGED <<emitted, queued, wake, retries, retried>>

finishHoldsAnyError(outcome) == Settle(outcome # "delivered", outcome)

finish_terminal_input(outcome) == Settle(outcome = "unsent", outcome)

(***************************************************************************)
(* The client: session_call_with_delivery, call_with_delivery              *)
(***************************************************************************)
\* Some of the request's keys are still to be typed, now or after an
\* indeterminate answer.
Unfinished(r) == r.answer # "unsent" /\ r.done < Len(r.keys)

\* A handler is done once its answer is written or nobody reads it; a PTY's
\* writer may still hold input that was answered "indeterminate".
Remaining(requests) ==
  retain(requests, {r \in ToSet(requests) :
                      \/ r.awaited \/ r.answer = "none"
                      \/ r.pane \in PtyPanes /\ Unfinished(r)})

Arrives == serving' = Append(serving,
  [pane |-> in_flight.pane, keys |-> in_flight.keys, done |-> 0,
   answer |-> "none", awaited |-> TRUE])

Connect ==
  /\ call = "send" /\ conn = "none"
  /\ IF service = "up"
     THEN conn' = "open" /\ UNCHANGED <<ui, lane, call>>
     ELSE finish_terminal_input("unsent") /\ UNCHANGED conn
  /\ UNCHANGED <<service, crashes, serving, typed>>

WriteRequest ==
  /\ call \in {"send", "resend"} /\ conn = "open"
  /\ Arrives /\ call' = "read"
  /\ UNCHANGED <<ui, lane, conn, service, crashes, typed>>

\* The service ended since: the kernel may still take the bytes.
WriteIsLost ==
  /\ call \in {"send", "resend"} /\ conn = "dead"
  /\ call' = "read"
  /\ UNCHANGED <<ui, lane, conn, service, crashes, serving, typed>>

\* A write to a dead connection, or one that timed out, never sent a whole
\* frame, so the client reconnects and tries once more.
WriteFails ==
  /\ call = "send" /\ conn # "none"
  /\ IF service = "up"
     THEN conn' = "open" /\ call' = "resend" /\ UNCHANGED <<ui, lane>>
     ELSE finish_terminal_input("unsent") /\ conn' = "none"
  /\ UNCHANGED <<service, crashes, serving, typed>>

WriteFailsAgain ==
  /\ call = "resend" /\ conn # "none"
  /\ finish_terminal_input("unsent") /\ conn' = "none"
  /\ UNCHANGED <<service, crashes, serving, typed>>

\* Every error drops the connection, a DeliveryError response too.
ReadAnswer ==
  /\ call = "read"
  /\ \E i \in DOMAIN serving :
       /\ serving[i].awaited /\ serving[i].answer # "none"
       /\ finish_terminal_input(serving[i].answer)
       /\ conn' = IF serving[i].answer = "delivered" THEN "open" ELSE "none"
       /\ serving' = Remaining([serving EXCEPT ![i].awaited = FALSE])
  /\ UNCHANGED <<service, crashes, typed>>

ReadFails ==
  /\ call = "read" /\ conn = "dead"
  /\ finish_terminal_input("indeterminate") /\ conn' = "none"
  /\ UNCHANGED <<service, crashes, serving, typed>>

\* The handler of an abandoned connection runs on.
ReadTimesOut ==
  /\ call = "read" /\ in_flight.pane \in TmuxPanes
  /\ \E i \in DOMAIN serving :
       /\ serving[i].awaited /\ serving[i].answer = "none"
       /\ serving' = Remaining([serving EXCEPT ![i].awaited = FALSE])
  /\ finish_terminal_input("indeterminate") /\ conn' = "none"
  /\ UNCHANGED <<service, crashes, typed>>

(***************************************************************************)
(* The service: serve, WriteInput, and what InputOutcome allows            *)
(***************************************************************************)
MayType(i) ==
  /\ Unfinished(serving[i])
  /\ serving[i].pane \in TmuxPanes => serving[i].answer = "none"
  /\ serving[i].pane \in PtyPanes =>
       \A j \in 1 .. i - 1 :
         serving[j].pane = serving[i].pane => ~Unfinished(serving[j])

TypeKeys(i) ==
  /\ service = "up" /\ MayType(i)
  /\ LET r == serving[i]
         last == IF r.pane \in PtyPanes THEN Len(r.keys) ELSE r.done + 1
     IN /\ typed' = [typed EXCEPT ![r.pane] = @ \o SubSeq(r.keys, r.done + 1, last)]
        /\ serving' = Remaining([serving EXCEPT ![i].done = last])
  /\ UNCHANGED <<ui, lane, call, conn, service, crashes>>

MayAnswer(r, outcome) ==
  /\ outcome = "unsent" => r.done = 0
  /\ outcome = "delivered" => r.done = Len(r.keys)

Answer(i) ==
  /\ service = "up" /\ serving[i].answer = "none"
  /\ \E outcome \in Outcomes :
       /\ MayAnswer(serving[i], outcome)
       /\ serving' = Remaining([serving EXCEPT ![i].answer = outcome])
  /\ UNCHANGED <<ui, lane, call, conn, service, crashes, typed>>

ServiceEnds ==
  /\ service = "up" /\ crashes < MaxCrashes
  /\ service' = "down" /\ crashes' = crashes + 1
  /\ serving' = <<>>
  /\ conn' = IF conn = "open" THEN "dead" ELSE conn
  /\ UNCHANGED <<ui, lane, call, typed>>

ServiceStarts ==
  /\ service = "down" /\ service' = "up"
  /\ UNCHANGED <<ui, lane, call, conn, crashes, serving, typed>>

Lane == LaneWakes \/ begin_terminal_input \/ LaneSleeps

Client == Connect \/ WriteRequest \/ WriteIsLost \/ WriteFails \/ WriteFailsAgain
          \/ ReadAnswer \/ ReadFails \/ ReadTimesOut

Next ==
  \/ \E p \in Panes, n \in 1 .. FrameKeys : try_send(p, n)
  \/ replay_recoverable \/ Lane \/ Client
  \/ \E i \in DOMAIN serving : TypeKeys(i) \/ Answer(i)
  \/ ServiceEnds \/ ServiceStarts

Spec == Init /\ [][Next]_vars

\* The UI executor polls the lane, the background thread runs the call, and a
\* handler answers within its completion bound.
FairSpec ==
  /\ Spec /\ WF_vars(Lane) /\ WF_vars(Client)
  /\ WF_vars(\E i \in DOMAIN serving : Answer(i))

(***************************************************************************)
(* Properties                                                              *)
(***************************************************************************)
InFlightKeys == IF in_flight = NoFrame THEN {} ELSE ToSet(in_flight.keys)

\* The keys a list of frames carries, counted frame by frame.
SizeOf(frames) ==
  LET size[n \in 0 .. Len(frames)] ==
        IF n = 0 THEN 0 ELSE size[n - 1] + Len(frames[n].keys)
  IN size[Len(frames)]

TypeOK ==
  /\ emitted \in 0 .. MaxKeys /\ buffered \in 0 .. Capacity
  /\ queued \in Seq(Frame) /\ recoverable \in Seq(Frame)
  /\ in_flight \in Frame \cup {NoFrame}
  /\ wake \in BOOLEAN /\ lane \in {"asleep", "running", "calling"}
  /\ call \in {"none", "send", "resend", "read"}
  /\ conn \in {"none", "open", "dead"} /\ service \in {"up", "down"}
  /\ crashes \in 0 .. MaxCrashes /\ retries \in 0 .. MaxRetries
  /\ serving \in Seq([pane : Panes, keys : Seq(Keys), done : 0 .. FrameKeys,
                      answer : Outcomes \cup {"none"}, awaited : BOOLEAN])
  /\ typed \in [Panes -> Seq(Keys)]
  /\ acked \subseteq Keys /\ reported \subseteq Keys /\ retried \subseteq Keys

\* buffered_bytes is exactly what the three queues hold, so the buffer neither
\* shuts for good nor outgrows its capacity.
BufferedIsHeld ==
  buffered = SizeOf(queued) + SizeOf(recoverable)
             + (IF in_flight = NoFrame THEN 0 ELSE Len(in_flight.keys))

\* No key the buffer accepted disappears: it is held, or confirmed, or the
\* user was told that its delivery is uncertain.
NoKeyIsLost ==
  1 .. emitted = KeysOf(queued) \cup InFlightKeys \cup KeysOf(recoverable)
                 \cup acked \cup reported

\* Retries, reconnections and restarts type no key twice.
NoKeyTwice ==
  \A p, q \in Panes : \A i \in DOMAIN typed[p], j \in DOMAIN typed[q] :
    typed[p][i] = typed[q][j] => p = q /\ i = j

\* Each terminal receives its keys in the order the UI emitted them.
EmissionOrder ==
  \A p \in Panes : \A i, j \in DOMAIN typed[p] : i < j => typed[p][i] < typed[p][j]

\* The order that does hold, across crashes, reconnections and the lane's
\* coalescing: between keys the user did not ask to send again, always for a
\* plain PTY, and for a tmux terminal unless the user was told that the
\* delivery of one of them is uncertain or its call still runs.
CertainKeysKeepOrder ==
  \A p \in Panes :
    LET certain == IF p \in PtyPanes THEN Keys \ retried ELSE acked \ retried
    IN \A i, j \in DOMAIN typed[p] :
         i < j /\ {typed[p][i], typed[p][j]} \subseteq certain => typed[p][i] < typed[p][j]

\* Accepted input never just waits: the lane wakes for it, and its call ends.
InputIsSettled ==
  \A k \in Keys :
    k \in KeysOf(queued) ~> k \in acked \cup reported \cup KeysOf(recoverable)
=============================================================================
