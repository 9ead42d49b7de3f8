---------------------------- MODULE TmuxControl -----------------------------
(***************************************************************************)
(* One tmux control client (crates/session-service/src/tmux_control.rs)    *)
(* and the terminal input that goes through it (pty.rs, write_input).      *)
(*                                                                         *)
(* Handlers of many connections share the client.  Each writes one command *)
(* line and waits for its reply; tmux answers in the order it was asked    *)
(* and its replies carry no name, so the reader thread gives each one to   *)
(* the oldest waiter.  Input is cut into chunks, one send-keys each.       *)
(* A lost client is not revived here: the registry connects a new one.     *)
(***************************************************************************)
EXTENDS TmuxCommands, Sequences, SequencesExt, Filters

VARIABLES
  slow,     \* whether tmux may take longer to answer than command_timeout
  size,     \* the chunks of each call's input
  caller,   \* how far each call is, then its result
  chunk,    \* the chunk each call is sending
  slot,     \* the reply channel of each call's current command
  pending,  \* the commands that wait for a reply, oldest first
  pipe,     \* command lines tmux has not executed
  replies,  \* replies the reader thread has not read, each with its command
  process,  \* the control client's child process
  reader,   \* the reader thread
  alive,    \* the flag is_alive() reads
  typed     \* history: the chunks the terminals received, in order

vars == <<slow, size, caller, chunk, slot, pending, pipe, replies, process, reader, alive,
          typed>>

Results == {"delivered", "unsent", "indeterminate"}

Init ==
  /\ slow \in BOOLEAN /\ size \in [Calls -> 1 .. Chunks]
  /\ caller = [c \in Calls |-> "run"] /\ chunk = [c \in Calls |-> 1]
  /\ slot = [c \in Calls |-> "empty"]
  /\ pending = <<>> /\ pipe = <<>> /\ replies = <<>>
  /\ process = "up" /\ reader = "reading" /\ alive = TRUE
  /\ typed = <<>>

Current(c) == [call |-> c, chunk |-> chunk[c]]
Becomes(c, step) == caller' = [caller EXCEPT ![c] = step]

\* What write_input makes of an error other than "tmux did not answer".
Classify(isAlive) == IF isAlive THEN "indeterminate" ELSE "unsent"

\* Every waiter gets an error.
fail_pending ==
  /\ slot' = [c \in Calls |->
       IF \E i \in DOMAIN pending : pending[i].call = c THEN "failed" ELSE slot[c]]
  /\ pending' = <<>>

\* A dying client has passed on some of the lines it had read, or none.
ProcessDies ==
  /\ process' = "gone" /\ pipe' = <<>>
  /\ \E n \in 0 .. Len(pipe) : typed' = typed \o SubSeq(pipe, 1, n)

invalidate ==
  /\ alive' = FALSE
  /\ fail_pending
  /\ IF alive /\ process # "gone"
     THEN ProcessDies
     ELSE UNCHANGED <<process, pipe, typed>>

(***************************************************************************)
(* TmuxControlClient::run, for one chunk                                   *)
(***************************************************************************)
CheckAlive(c) ==
  /\ caller[c] = "run"
  /\ Becomes(c, IF alive THEN "write" ELSE Classify(FALSE))
  /\ UNCHANGED <<slow, size, chunk, slot, pending, pipe, replies, process, reader, alive, typed>>

\* Under the stdin lock: queue the waiter, then write the line.
QueueAndWrite(c) ==
  /\ caller[c] = "write" /\ process # "gone"
  /\ pending' = Append(pending, Current(c))
  /\ pipe' = Append(pipe, Current(c))
  /\ Becomes(c, "waiting")
  /\ UNCHANGED <<slow, size, chunk, slot, replies, process, reader, alive, typed>>

\* The write fails, which invalidates the client and drops the waiter.
WriteFails(c) ==
  /\ caller[c] = "write" /\ process = "gone"
  /\ invalidate
  /\ Becomes(c, Classify(FALSE))
  /\ UNCHANGED <<slow, size, chunk, replies, reader>>

Receive(c) ==
  /\ caller[c] = "waiting" /\ slot[c] # "empty"
  /\ slot' = [slot EXCEPT ![c] = "empty"]
  /\ CASE slot[c] = "ok" /\ chunk[c] < size[c] ->
            Becomes(c, "run") /\ chunk' = [chunk EXCEPT ![c] = @ + 1]
       [] slot[c] = "ok" /\ chunk[c] = size[c] ->
            Becomes(c, "delivered") /\ UNCHANGED chunk
       [] slot[c] \in {"error", "failed"} ->
            Becomes(c, Classify(alive)) /\ UNCHANGED chunk
  /\ UNCHANGED <<slow, size, pending, pipe, replies, process, reader, alive, typed>>

\* No reply within command_timeout: the waiter leaves first, and only then is
\* the client given up.
TimeOut(c) ==
  /\ slow
  /\ caller[c] = "waiting" /\ slot[c] = "empty"
  /\ pending' = retain(pending, {r \in Commands : r.call # c})
  /\ Becomes(c, "timedOut")
  /\ UNCHANGED <<slow, size, chunk, slot, pipe, replies, process, reader, alive, typed>>

KeepClientAfterTimeOut(c) ==
  /\ caller[c] = "timedOut"
  /\ Becomes(c, "indeterminate")
  /\ UNCHANGED <<slow, size, chunk, slot, pending, pipe, replies, process, reader, alive, typed>>

InvalidateAfterTimeOut(c) ==
  /\ caller[c] = "timedOut"
  /\ invalidate
  /\ Becomes(c, "indeterminate")
  /\ UNCHANGED <<slow, size, chunk, replies, reader>>

(***************************************************************************)
(* tmux and the reader thread                                              *)
(***************************************************************************)
TmuxExecutes ==
  /\ process = "up" /\ pipe # <<>>
  /\ pipe' = Tail(pipe)
  /\ \/ /\ typed' = Append(typed, Head(pipe))
        /\ replies' = Append(replies, [to |-> Head(pipe), is |-> "ok"])
     \/ /\ replies' = Append(replies, [to |-> Head(pipe), is |-> "error"])
        /\ UNCHANGED typed
  /\ UNCHANGED <<slow, size, caller, chunk, slot, pending, process, reader, alive>>

\* %end or %error: the oldest waiter gets the reply, whoever asked.
ReplyToNewest ==
  /\ reader = "reading" /\ replies # <<>>
  /\ replies' = Tail(replies)
  /\ IF pending = <<>>
     THEN UNCHANGED <<pending, slot>>
     ELSE /\ pending' = Front(pending)
          /\ slot' = [slot EXCEPT ![Last(pending).call] = Head(replies).is]
  /\ UNCHANGED <<slow, size, caller, chunk, pipe, process, reader, alive, typed>>

ReaderDelivers ==
  /\ reader = "reading" /\ replies # <<>>
  /\ replies' = Tail(replies)
  /\ IF pending = <<>>
     THEN UNCHANGED <<pending, slot>>
     ELSE /\ pending' = Tail(pending)
          /\ slot' = [slot EXCEPT ![Head(pending).call] = Head(replies).is]
  /\ UNCHANGED <<slow, size, caller, chunk, pipe, process, reader, alive, typed>>

\* The tmux server ended or the connection was lost.
ProcessEnds ==
  /\ process = "up"
  /\ ProcessDies
  /\ UNCHANGED <<slow, size, caller, chunk, slot, pending, replies, reader, alive>>

ReaderEndsQuietly ==
  /\ reader = "reading" /\ process = "gone" /\ replies = <<>>
  /\ reader' = "ended" /\ alive' = FALSE
  /\ UNCHANGED <<slow, size, caller, chunk, slot, pending, pipe, replies, process, typed>>

ReaderEnds ==
  /\ reader = "reading" /\ process = "gone" /\ replies = <<>>
  /\ reader' = "ended" /\ alive' = FALSE
  /\ fail_pending
  /\ UNCHANGED <<slow, size, caller, chunk, pipe, replies, process, typed>>

Call(c) == \/ CheckAlive(c) \/ QueueAndWrite(c) \/ WriteFails(c) \/ Receive(c)
           \/ TimeOut(c) \/ InvalidateAfterTimeOut(c)

Next == \/ \E c \in Calls : Call(c)
        \/ TmuxExecutes \/ ReaderDelivers \/ ProcessEnds \/ ReaderEnds

Spec == Init /\ [][Next]_vars

\* Handlers run, and the reader thread reads what there is until the end.
FairSpec == /\ Spec
            /\ \A c \in Calls : WF_vars(Call(c))
            /\ WF_vars(ReaderDelivers) /\ WF_vars(ReaderEnds)

(***************************************************************************)
(* Properties                                                              *)
(***************************************************************************)
TypeOK ==
  /\ caller \in [Calls -> {"run", "write", "waiting", "timedOut"} \cup Results]
  /\ chunk \in [Calls -> 1 .. Chunks]
  /\ slot \in [Calls -> {"empty", "ok", "error", "failed"}]
  /\ pending \in Seq(Commands) /\ pipe \in Seq(Commands)
  /\ replies \in Seq([to : Commands, is : {"ok", "error"}])
  /\ process \in {"up", "gone"} /\ reader \in {"reading", "ended"}
  /\ slow \in BOOLEAN /\ size \in [Calls -> 1 .. Chunks]
  /\ alive \in BOOLEAN /\ typed \in Seq(Commands)

Typed(c, k) == \E i \in DOMAIN typed : typed[i] = [call |-> c, chunk |-> k]

\* Every reply goes to the handler that asked: the waiters are, in order, the
\* commands whose replies are read or still to come.  A waiter that timed out
\* breaks this until it has given the client up; no later waiter may live with
\* a client whose replies are off by one.
RepliesFindTheirWaiters ==
  process = "up" /\ alive /\ (\A c \in Calls : caller[c] # "timedOut") =>
    pending = [i \in DOMAIN replies |-> replies[i].to] \o pipe

\* Input that was acknowledged reached the terminal, every chunk of it, as long
\* as no reply is late: between a timed-out call leaving the waiters and giving
\* the client up, the reader hands its late reply to the next waiter.
AcknowledgedIsTyped ==
  ~slow => \A c \in Calls : caller[c] = "delivered" => \A k \in 1 .. size[c] : Typed(c, k)

\* Input that is offered for another try never reached the terminal.
UnsentIsNeverTyped ==
  \A c \in Calls : caller[c] = "unsent" => \A k \in 1 .. size[c] : ~Typed(c, k)

\* A client that is gone leaves nobody waiting, without any timer.
LostClientFreesEveryCall ==
  ~slow /\ process = "gone" ~> \A c \in Calls : caller[c] \in Results
=============================================================================
