------------------------------ MODULE PtyInput ------------------------------
(***************************************************************************)
(* Input to a plain PTY terminal (crates/session-service/src/pty.rs).      *)
(*                                                                         *)
(* `write_pty` hands its bytes to a writer thread through a bounded queue  *)
(* and waits for the result until a deadline.  The caller, the writer and  *)
(* the deadline race for the input's state word: a caller that gives up    *)
(* may say "definitely unsent" only if it took the input back before the   *)
(* writer began, because the desktop offers such input for another try.    *)
(*                                                                         *)
(* One terminal is modelled; a call is one execution of write_pty by any   *)
(* connection's handler, and its bytes are the call itself.                *)
(***************************************************************************)
EXTENDS Naturals, Sequences

CONSTANTS
  Calls,          \* executions of write_pty, each made once
  QueueCapacity,  \* the input queue holds this many entries (64)
  Nothing         \* no call: the writer has no input

ASSUME CapacityAssumption == QueueCapacity \in Nat \ {0}
ASSUME NothingAssumption == Nothing \notin Calls

VARIABLES
  caller,      \* how far each call of write_pty is, then its result
  state,       \* the state word of each PtyInput
  completion,  \* the one-slot completion channel of each PtyInput
  queue,       \* the channel to the writer thread
  writer,      \* the writer thread and the input it holds
  child,       \* whether the terminal's program runs
  accepting,   \* input_tx has not been taken by a shutdown
  written,     \* history: the inputs written whole, in order
  torn         \* history: inputs a failed write may have written in part

vars == <<caller, state, completion, queue, writer, child, accepting,
          written, torn>>

Results == {"delivered", "unsent", "indeterminate"}
CallerSteps == {"idle", "sending", "waiting", "timedOut", "notQueued",
                "collecting"}

Init ==
  /\ caller = [c \in Calls |-> "idle"]
  /\ state = [c \in Calls |-> "new"]
  /\ completion = [c \in Calls |-> "empty"]
  /\ queue = <<>>
  /\ writer = [at |-> "receiving", input |-> Nothing]
  /\ child = "running" /\ accepting = TRUE
  /\ written = <<>> /\ torn = {}

Becomes(c, step) == caller' = [caller EXCEPT ![c] = step]

(***************************************************************************)
(* A caller of write_pty                                                   *)
(***************************************************************************)
\* The program has exited, or the session is being shut down.
RefuseInput(c) ==
  /\ caller[c] = "idle"
  /\ child = "exited" \/ ~accepting
  /\ Becomes(c, "unsent")
  /\ UNCHANGED <<state, completion, queue, writer, child, accepting, written, torn>>

\* The caller holds a sender of its own from here on.
StartSending(c) ==
  /\ caller[c] = "idle" /\ child = "running" /\ accepting
  /\ Becomes(c, "sending")
  /\ state' = [state EXCEPT ![c] = "QUEUED"]
  /\ UNCHANGED <<completion, queue, writer, child, accepting, written, torn>>

TrySend(c) ==
  /\ caller[c] = "sending"
  /\ writer.at # "stopped" /\ Len(queue) < QueueCapacity
  /\ queue' = Append(queue, c)
  /\ Becomes(c, "waiting")
  /\ UNCHANGED <<state, completion, writer, child, accepting, written, torn>>

\* The writer has stopped, or the queue stayed full until the deadline.
GiveUpIfStopped(c) ==
  /\ caller[c] = "sending" /\ writer.at = "stopped"
  /\ Becomes(c, "unsent")
  /\ UNCHANGED <<state, completion, queue, writer, child, accepting, written, torn>>

GiveUpSending(c) ==
  /\ caller[c] = "sending"
  /\ writer.at = "stopped" \/ Len(queue) = QueueCapacity
  /\ Becomes(c, "unsent")
  /\ UNCHANGED <<state, completion, queue, writer, child, accepting, written, torn>>

ResultIsMessage(message) == message

ResultOf(message) == IF message = "ok" THEN "delivered" ELSE "indeterminate"

ReceiveCompletion(c) ==
  /\ caller[c] = "waiting" /\ completion[c] # "empty"
  /\ Becomes(c, ResultOf(completion[c]))
  /\ completion' = [completion EXCEPT ![c] = "empty"]
  /\ UNCHANGED <<state, queue, writer, child, accepting, written, torn>>

TimeOut(c) ==
  /\ caller[c] = "waiting" /\ completion[c] = "empty"
  /\ Becomes(c, "timedOut")
  /\ UNCHANGED <<state, completion, queue, writer, child, accepting, written, torn>>

\* Takes the input back unless the writer has begun.
cancel_always(c) ==
  /\ caller[c] = "timedOut"
  /\ state' = [state EXCEPT ![c] = "CANCELLED"]
  /\ completion' = [completion EXCEPT ![c] = "err"]
  /\ Becomes(c, "unsent")
  /\ UNCHANGED <<queue, writer, child, accepting, written, torn>>

cancel_if_queued(c) ==
  /\ caller[c] = "timedOut"
  /\ IF state[c] = "QUEUED"
     THEN /\ state' = [state EXCEPT ![c] = "CANCELLED"]
          /\ completion' = [completion EXCEPT ![c] = "err"]
          /\ Becomes(c, "unsent")
     ELSE /\ Becomes(c, "notQueued")
          /\ UNCHANGED <<state, completion>>
  /\ UNCHANGED <<queue, writer, child, accepting, written, torn>>

delivery_is_ambiguous(c) ==
  /\ caller[c] = "notQueued"
  /\ Becomes(c, IF state[c] = "WRITING" THEN "indeterminate" ELSE "collecting")
  /\ UNCHANGED <<state, completion, queue, writer, child, accepting, written, torn>>

\* try_recv: the writer stores COMPLETED before it sends the result, so the
\* slot may still be empty here and a finished write reads as indeterminate.
CollectLateResult(c) ==
  /\ caller[c] = "collecting"
  /\ Becomes(c, ResultOf(completion[c]))
  /\ completion' = [completion EXCEPT ![c] = "empty"]
  /\ UNCHANGED <<state, queue, writer, child, accepting, written, torn>>

(***************************************************************************)
(* The writer thread, run_input_writer                                     *)
(***************************************************************************)
begin_writeUnchecked ==
  /\ writer.at = "receiving" /\ queue # <<>>
  /\ queue' = Tail(queue)
  /\ state' = [state EXCEPT ![Head(queue)] = "WRITING"]
  /\ writer' = [at |-> "writing", input |-> Head(queue)]
  /\ UNCHANGED <<caller, completion, child, accepting, written, torn>>

begin_write ==
  /\ writer.at = "receiving" /\ queue # <<>>
  /\ queue' = Tail(queue)
  /\ IF state[Head(queue)] = "QUEUED"
     THEN /\ state' = [state EXCEPT ![Head(queue)] = "WRITING"]
          /\ writer' = [at |-> "writing", input |-> Head(queue)]
     ELSE UNCHANGED <<state, writer>>
  /\ UNCHANGED <<caller, completion, child, accepting, written, torn>>

WriteAll ==
  /\ writer.at = "writing"
  /\ written' = Append(written, writer.input)
  /\ writer' = [writer EXCEPT !.at = "finishing"]
  /\ UNCHANGED <<caller, state, completion, queue, child, accepting, torn>>

WriteFails ==
  /\ writer.at = "writing"
  /\ torn' = torn \cup {writer.input}
  /\ writer' = [writer EXCEPT !.at = "failing"]
  /\ UNCHANGED <<caller, state, completion, queue, child, accepting, written>>

\* finish: the state word first, the result second.
StoreCompleted ==
  /\ writer.at \in {"finishing", "failing"}
  /\ state' = [state EXCEPT ![writer.input] = "COMPLETED"]
  /\ writer' = [writer EXCEPT !.at = IF @ = "finishing" THEN "sendOk" ELSE "sendErr"]
  /\ UNCHANGED <<caller, completion, queue, child, accepting, written, torn>>

\* After a failed write the thread ends, and the queue with it.
SendResult ==
  /\ writer.at \in {"sendOk", "sendErr"} /\ completion[writer.input] = "empty"
  /\ completion' =
       [completion EXCEPT ![writer.input] = IF writer.at = "sendOk" THEN "ok" ELSE "err"]
  /\ IF writer.at = "sendOk"
     THEN /\ writer' = [at |-> "receiving", input |-> Nothing]
          /\ UNCHANGED queue
     ELSE /\ writer' = [at |-> "stopped", input |-> Nothing]
          /\ queue' = <<>>
  /\ UNCHANGED <<caller, state, child, accepting, written, torn>>

\* Every sender is gone and the queue is drained.
WriterEnds ==
  /\ writer.at = "receiving" /\ queue = <<>>
  /\ ~accepting /\ \A c \in Calls : caller[c] \notin CallerSteps \ {"idle"}
  /\ writer' = [at |-> "stopped", input |-> Nothing]
  /\ UNCHANGED <<caller, state, completion, queue, child, accepting, written, torn>>

ChildExits ==
  /\ child = "running" /\ child' = "exited"
  /\ UNCHANGED <<caller, state, completion, queue, writer, accepting, written, torn>>

\* terminate_and_wait: the child ends, then shutdown_threads_bounded.
Shutdown ==
  /\ child = "exited" /\ accepting /\ accepting' = FALSE
  /\ UNCHANGED <<caller, state, completion, queue, writer, child, written, torn>>

Caller(c) ==
  \/ RefuseInput(c) \/ StartSending(c) \/ TrySend(c) \/ GiveUpSending(c)
  \/ ReceiveCompletion(c) \/ TimeOut(c) \/ cancel_if_queued(c)
  \/ delivery_is_ambiguous(c) \/ CollectLateResult(c)

Writer == begin_write \/ WriteAll \/ WriteFails \/ StoreCompleted \/ SendResult
          \/ WriterEnds

Next == \/ \E c \in Calls : Caller(c)
        \/ Writer \/ ChildExits \/ Shutdown

Spec == Init /\ [][Next]_vars

\* A caller's own steps and its timers always go on; nothing is assumed of the
\* writer, which a stopped program with a full PTY buffer can block for ever.
FairSpec == Spec /\ \A c \in Calls :
  WF_vars(Caller(c) /\ caller[c] # "idle")

(***************************************************************************)
(* Properties                                                              *)
(***************************************************************************)
Range(s) == {s[i] : i \in DOMAIN s}

\* Every variable keeps its type.
TypeOK ==
  /\ caller \in [Calls -> CallerSteps \cup Results]
  /\ state \in [Calls -> {"new", "QUEUED", "WRITING", "COMPLETED", "CANCELLED"}]
  /\ completion \in [Calls -> {"empty", "ok", "err"}]
  /\ queue \in Seq(Calls)
  /\ writer \in [at : {"receiving", "writing", "finishing", "failing",
                       "sendOk", "sendErr", "stopped"},
                 input : Calls \cup {Nothing}]
  /\ child \in {"running", "exited"} /\ accepting \in BOOLEAN
  /\ written \in Seq(Calls) /\ torn \subseteq Calls

\* Input the desktop may offer to type again was not written, is not being
\* written, and never will be, not even in part.
UnsentIsNeverWritten ==
  \A c \in Calls : caller[c] = "unsent" =>
    c \notin Range(written) \cup torn /\ writer.input # c

\* An acknowledged input was written whole.
DeliveredIsWritten ==
  \A c \in Calls : caller[c] = "delivered" => c \in Range(written)

\* The completion channel has one slot; neither a cancel nor the writer may
\* find it taken, or the writer thread would block for good.
CompletionHasRoom ==
  /\ writer.at \in {"sendOk", "sendErr"} => completion[writer.input] = "empty"
  /\ \A c \in Calls :
       caller[c] = "timedOut" /\ state[c] = "QUEUED" => completion[c] = "empty"

\* Whatever the writer does, write_pty comes back to its handler.
EveryCallReturns ==
  \A c \in Calls : caller[c] = "sending" ~> caller[c] \in Results

\* Every call keeps the promise the desktop relies on.
Promise == INSTANCE InputOutcome WITH
  answer <- [c \in Calls |-> IF caller[c] \in Results THEN caller[c] ELSE "none"],
  effect <- [c \in Calls |-> IF c \in Range(written) THEN "whole"
                             ELSE IF c \in torn THEN "part" ELSE "none"]

KeepsPromise == Promise!Spec
=============================================================================
