------------------------ MODULE TerminalInputProofs -------------------------
(***************************************************************************)
(* Proofs about the two stretches of MCTerminalInput.  For PtyInput, with  *)
(* any number of calls and any queue capacity: the state word of an input  *)
(* is the ownership of its bytes, and the inductive invariant says which   *)
(* answers and which writer steps each word allows.  For InputDelivery,    *)
(* the theorems of InputDeliveryProofs carry over to the composition.      *)
(***************************************************************************)
EXTENDS MCTerminalInput, TLAPS

Begun == {"WRITING", "COMPLETED"}

\* The writer's place and the word of the input it holds.
WriterHolds ==
  /\ writer.at \in {"receiving", "stopped"} <=> writer.input = Nothing
  /\ writer.at \in {"writing", "finishing", "failing"} => state[writer.input] = "WRITING"
  /\ writer.at \in {"sendOk", "sendErr"} => state[writer.input] = "COMPLETED"
  /\ writer.at = "writing" => writer.input \notin Range(written) \cup torn
  /\ writer.at \in {"finishing", "sendOk"} => writer.input \in Range(written)

\* An input whose writing has begun has a caller that waits or has an answer
\* other than "unsent"; one that is not begun left no trace.
WordOwnsBytes ==
  \A c \in Calls :
    /\ state[c] \in Begun => caller[c] \notin {"idle", "sending", "unsent"}
    /\ state[c] \notin Begun => c \notin Range(written) \cup torn
    /\ state[c] = "CANCELLED" => caller[c] = "unsent"

\* Only a cancelled input may be unsent and still in the queue.
QueuedIsClaimable ==
  \A c \in Range(queue) :
    /\ caller[c] \notin {"idle", "sending"}
    /\ caller[c] = "unsent" => state[c] = "CANCELLED"

ResultIsTrue ==
  \A c \in Calls :
    /\ completion[c] = "ok" => c \in Range(written)
    /\ completion[c] # "empty" => state[c] \in {"CANCELLED", "COMPLETED"}
    /\ caller[c] = "delivered" => c \in Range(written)

SlotIsFree == writer.at \in {"sendOk", "sendErr"} => completion[writer.input] = "empty"

IInv == /\ TypeOK /\ WriterHolds /\ WordOwnsBytes /\ QueuedIsClaimable
        /\ ResultIsTrue /\ SlotIsFree

LEMMA RangeAppend ==
  ASSUME NEW S, NEW s \in Seq(S), NEW x \in S
  PROVE  Range(Append(s, x)) = Range(s) \cup {x}
<1> DEFINE t == Append(s, x)
<1>1. /\ DOMAIN t = 1 .. Len(s) + 1 /\ DOMAIN s = 1 .. Len(s)
      /\ \A i \in 1 .. Len(s) : t[i] = s[i]
      /\ t[Len(s) + 1] = x /\ Len(s) \in Nat
  OBVIOUS
<1>2. Range(t) \subseteq Range(s) \cup {x}  BY <1>1 DEF Range
<1>3. ASSUME NEW y \in Range(s) PROVE y \in Range(t)
  <2>1. PICK i \in 1 .. Len(s) : y = s[i]  BY <1>1 DEF Range
  <2>2. i \in DOMAIN t /\ t[i] = y  BY <1>1, <2>1
  <2>3. QED  BY <2>2 DEF Range
<1>4. x \in Range(t)
  <2>1. Len(s) + 1 \in DOMAIN t  BY <1>1
  <2>2. QED  BY <1>1, <2>1 DEF Range
<1>5. QED  BY <1>2, <1>3, <1>4

LEMMA RangeTail ==
  ASSUME NEW S, NEW s \in Seq(S), s # <<>>
  PROVE  /\ Head(s) \in Range(s) /\ Head(s) \in S
         /\ Tail(s) \in Seq(S) /\ Range(Tail(s)) \subseteq Range(s)
<1>1. Head(s) \in Range(s) /\ Head(s) \in S /\ Tail(s) \in Seq(S)  BY DEF Range
<1>2. Range(Tail(s)) \subseteq Range(s)
  <2>1. SUFFICES ASSUME NEW i \in DOMAIN Tail(s) PROVE Tail(s)[i] \in Range(s)
    BY DEF Range
  <2>2. Tail(s)[i] = s[i + 1] /\ i + 1 \in DOMAIN s  OBVIOUS
  <2>3. QED  BY <2>2 DEF Range
<1>3. QED  BY <1>1, <1>2

LEMMA RangeEmpty == Range(<<>>) = {}
  BY DEF Range

LEMMA RangeIn == ASSUME NEW S, NEW s \in Seq(S) PROVE Range(s) \subseteq S
  BY DEF Range

LEMMA InitHolds == Init => IInv
  BY NothingAssumption, RangeEmpty
  DEF Init, IInv, TypeOK, WriterHolds, WordOwnsBytes, QueuedIsClaimable,
      ResultIsTrue, SlotIsFree, CallerSteps, Results, Begun

LEMMA CancelKeepsTypes ==
  ASSUME TypeOK, NEW c \in Calls, cancel_if_queued(c), state[c] = "QUEUED"
  PROVE  TypeOK'
<1>1. /\ caller' = [caller EXCEPT ![c] = "unsent"]
      /\ state' = [state EXCEPT ![c] = "CANCELLED"]
      /\ completion' = [completion EXCEPT ![c] = "err"]
      /\ UNCHANGED <<queue, writer, child, accepting, written, torn>>
  BY DEF cancel_if_queued, Becomes
<1>2. "unsent" \in Results  BY DEF Results
<1>3. caller' \in [Calls -> CallerSteps \cup Results]  BY <1>1, <1>2 DEF TypeOK
<1>4. state' \in [Calls -> {"new", "QUEUED", "WRITING", "COMPLETED", "CANCELLED"}]
  BY <1>1 DEF TypeOK
<1>5. completion' \in [Calls -> {"empty", "ok", "err"}]  BY <1>1 DEF TypeOK
<1>6. QED  BY <1>1, <1>3, <1>4, <1>5 DEF TypeOK

\* One step of a caller keeps the invariant.
LEMMA CallerStep == ASSUME IInv, NEW c \in Calls, Caller(c) PROVE IInv'
<1> USE NothingAssumption
    DEF IInv, TypeOK, WriterHolds, WordOwnsBytes, QueuedIsClaimable,
        ResultIsTrue, SlotIsFree, CallerSteps, Results, Begun, Becomes, ResultOf
<1>0. Range(queue) \subseteq Calls  BY RangeIn
<1>1. CASE RefuseInput(c)  BY <1>1 DEF RefuseInput
<1>2. CASE StartSending(c)
  <2>1. c \notin Range(queue) /\ writer.input # c /\ completion[c] = "empty"
    BY <1>2 DEF StartSending
  <2>2. QED  BY <1>2, <2>1 DEF StartSending
<1>3. CASE TrySend(c)
  <2>1. queue' \in Seq(Calls) /\ Range(queue') = Range(queue) \cup {c}
    BY <1>3, RangeAppend DEF TrySend
  <2>2. QED  BY <1>3, <2>1 DEF TrySend
<1>4. CASE GiveUpSending(c)  BY <1>4 DEF GiveUpSending
<1>5. CASE ReceiveCompletion(c)  BY <1>5 DEF ReceiveCompletion
<1>6. CASE TimeOut(c)  BY <1>6 DEF TimeOut
<1>7. CASE cancel_if_queued(c)
  <2>1. CASE state[c] = "QUEUED"
    <3>1. writer.input # c  BY <2>1
    <3>2. TypeOK'
      <4>1. TypeOK  OBVIOUS
      <4>2. QED  BY ONLY <4>1, <1>7, <2>1, CancelKeepsTypes
    <3>3. WriterHolds' /\ SlotIsFree'  BY <1>7, <2>1, <3>1 DEF cancel_if_queued
    <3>4. WordOwnsBytes' /\ QueuedIsClaimable'
      <4>1. /\ caller' = [caller EXCEPT ![c] = "unsent"]
            /\ state' = [state EXCEPT ![c] = "CANCELLED"]
            /\ UNCHANGED <<queue, written, torn>>
        BY <1>7, <2>1 DEF cancel_if_queued
      <4>2. WordOwnsBytes'  BY <2>1, <4>1
      <4>3. QueuedIsClaimable'  BY <1>0, <4>1
      <4>4. QED  BY <4>2, <4>3
    <3>5. ResultIsTrue'  BY <1>7, <2>1 DEF cancel_if_queued
    <3>6. QED  BY <3>2, <3>3, <3>4, <3>5
  <2>2. CASE state[c] # "QUEUED"
    <3>1. /\ caller' = [caller EXCEPT ![c] = "notQueued"] /\ caller[c] = "timedOut"
          /\ UNCHANGED <<state, completion, queue, writer, child, accepting,
                         written, torn>>
      BY <1>7, <2>2 DEF cancel_if_queued
    <3>2. \A d \in Calls : caller'[d] = caller[d] \/ (d = c /\ caller'[d] = "notQueued")
      BY <3>1
    <3>3. QED  BY <1>0, <3>1, <3>2
  <2>3. QED  BY <2>1, <2>2
<1>8. CASE delivery_is_ambiguous(c)  BY <1>8 DEF delivery_is_ambiguous
<1>9. CASE CollectLateResult(c)  BY <1>9 DEF CollectLateResult
<1>10. QED  BY <1>1, <1>2, <1>3, <1>4, <1>5, <1>6, <1>7, <1>8, <1>9 DEF Caller

\* One step of the writer thread, of the program or of a shutdown keeps it.
LEMMA WriterStep == ASSUME IInv, Writer \/ ChildExits \/ Shutdown PROVE IInv'
<1> USE NothingAssumption
    DEF IInv, TypeOK, WriterHolds, WordOwnsBytes, QueuedIsClaimable,
        ResultIsTrue, SlotIsFree, CallerSteps, Results, Begun
<1>0. Range(queue) \subseteq Calls  BY RangeIn
<1>1. CASE begin_write
  <2>1. /\ Head(queue) \in Range(queue) /\ Head(queue) \in Calls
        /\ queue' \in Seq(Calls) /\ Range(queue') \subseteq Range(queue)
    BY <1>1, RangeTail DEF begin_write
  <2>2. CASE state[Head(queue)] = "QUEUED"
    <3>1. Head(queue) \notin Range(written) \cup torn
          /\ caller[Head(queue)] \notin {"idle", "sending", "unsent"}
      BY <2>1, <2>2
    <3>2. TypeOK'
      <4>1. /\ state' = [state EXCEPT ![Head(queue)] = "WRITING"]
            /\ writer' = [at |-> "writing", input |-> Head(queue)]
            /\ UNCHANGED <<caller, completion, child, accepting, written, torn>>
        BY <1>1, <2>2 DEF begin_write
      <4>2. QED  BY <2>1, <4>1
    <3>3. WriterHolds' /\ SlotIsFree'  BY <1>1, <2>1, <2>2, <3>1 DEF begin_write
    <3>4. WordOwnsBytes' /\ QueuedIsClaimable'
      BY <1>0, <1>1, <2>1, <2>2, <3>1 DEF begin_write
    <3>5. ResultIsTrue'  BY <1>1, <2>1, <2>2 DEF begin_write
    <3>6. QED  BY <3>2, <3>3, <3>4, <3>5
  <2>3. CASE state[Head(queue)] # "QUEUED"  BY <1>1, <2>1, <2>3 DEF begin_write
  <2>4. QED  BY <2>2, <2>3
<1>2. CASE WriteAll
  <2>1. writer.input \in Calls  BY <1>2 DEF WriteAll
  <2>2. written' \in Seq(Calls) /\ Range(written') = Range(written) \cup {writer.input}
    BY <1>2, <2>1, RangeAppend DEF WriteAll
  <2>3. QED  BY <1>2, <2>1, <2>2 DEF WriteAll
<1>3. CASE WriteFails  BY <1>3 DEF WriteFails
<1>4. CASE StoreCompleted  BY SMTT(30), <1>4 DEF StoreCompleted
<1>5. CASE SendResult
  <2>1. writer.input \in Calls  BY <1>5 DEF SendResult
  <2>2. queue' \in Seq(Calls) /\ Range(queue') \subseteq Range(queue)
    <3>1. queue' = queue \/ queue' = <<>>  BY <1>5 DEF SendResult
    <3>2. <<>> \in Seq(Calls) /\ Range(<<>>) \subseteq Range(queue)  BY RangeEmpty
    <3>3. CASE queue' = queue  BY <3>3
    <3>4. CASE queue' = <<>>  BY <3>2, <3>4
    <3>5. QED  BY <3>1, <3>3, <3>4
  <2>3. QED  BY <1>5, <2>1, <2>2 DEF SendResult
<1>6. CASE WriterEnds  BY <1>6 DEF WriterEnds
<1>7. CASE ChildExits  BY <1>7 DEF ChildExits
<1>8. CASE Shutdown  BY <1>8 DEF Shutdown
<1>9. QED  BY <1>1, <1>2, <1>3, <1>4, <1>5, <1>6, <1>7, <1>8 DEF Writer

LEMMA StutterStep == ASSUME IInv, UNCHANGED vars PROVE IInv'
  BY DEF vars, IInv, TypeOK, WriterHolds, WordOwnsBytes, QueuedIsClaimable,
         ResultIsTrue, SlotIsFree, Range

LEMMA Invariance == Spec => []IInv
<1>1. IInv /\ [Next]_vars => IInv'
  BY CallerStep, WriterStep, StutterStep DEF Next
<1>2. QED  BY InitHolds, <1>1, PTL DEF Spec

(***************************************************************************)
(* Every variable keeps its type, however many handlers call write_pty.    *)
(***************************************************************************)
THEOREM TypeCorrect == Spec => []TypeOK
<1>1. IInv => TypeOK  BY DEF IInv
<1>2. QED  BY Invariance, <1>1, PTL

(***************************************************************************)
(* Input answered "definitely unsent" (a cancel, a full queue, an exited   *)
(* program) never reaches the terminal: the compare-and-swap on the state  *)
(* word decides between cancel_if_queued and begin_write.                  *)
(***************************************************************************)
THEOREM UnsentNeverReachesTheTerminal == Spec => []UnsentIsNeverWritten
<1>1. IInv => UnsentIsNeverWritten
  BY NothingAssumption
  DEF IInv, TypeOK, WriterHolds, WordOwnsBytes, UnsentIsNeverWritten, Begun
<1>2. QED  BY Invariance, <1>1, PTL

(***************************************************************************)
(* Input that write_pty acknowledged was written whole.                    *)
(***************************************************************************)
THEOREM DeliveredReachedTheTerminal == Spec => []DeliveredIsWritten
<1>1. IInv => DeliveredIsWritten  BY DEF IInv, ResultIsTrue, DeliveredIsWritten
<1>2. QED  BY Invariance, <1>1, PTL

(***************************************************************************)
(* Neither a cancel nor the writer ever finds the completion slot taken,   *)
(* so run_input_writer cannot block on sending a result.                   *)
(***************************************************************************)
THEOREM CompletionNeverBlocks == Spec => []CompletionHasRoom
<1>1. IInv => CompletionHasRoom
  BY DEF IInv, SlotIsFree, ResultIsTrue, CompletionHasRoom
<1>2. QED  BY Invariance, <1>1, PTL

(***************************************************************************)
(* The promise of InputOutcome                                             *)
(***************************************************************************)
TheAnswer == [c \in Calls |-> IF caller[c] \in Results THEN caller[c] ELSE "none"]
TheEffect == [c \in Calls |-> IF c \in Range(written) THEN "whole"
                              ELSE IF c \in torn THEN "part" ELSE "none"]

LEMMA AnswerIsPromised ==
  ASSUME IInv, NEW c \in Calls, NEW step \in CallerSteps \cup Results,
         Becomes(c, step), caller[c] \notin Results,
         UNCHANGED <<written, torn>>,
         step = "delivered" => c \in Range(written),
         step = "unsent" => c \notin Range(written) \cup torn
  PROVE  [Promise!Next]_<<TheAnswer, TheEffect>>
<1> USE DEF IInv, TypeOK, Becomes
<1>1. TheEffect' = TheEffect
  <2>1. Range(written') = Range(written)  OBVIOUS
  <2>2. QED  BY <2>1 DEF TheEffect
<1>2. CASE step \notin Results
  <2>1. TheAnswer' = TheAnswer
    <3>1. \A d \in Calls : caller'[d] = IF d = c THEN step ELSE caller[d]  OBVIOUS
    <3>2. QED  BY <1>2, <3>1 DEF TheAnswer
  <2>2. QED  BY <1>1, <2>1
<1>3. CASE step \in Results
  <2>1. TheAnswer[c] = "none" /\ TheAnswer' = [TheAnswer EXCEPT ![c] = step]
    <3>1. \A d \in Calls : caller'[d] = IF d = c THEN step ELSE caller[d]  OBVIOUS
    <3>2. QED  BY <1>3, <3>1 DEF TheAnswer
  <2>2. /\ step = "delivered" => TheEffect[c] = "whole"
        /\ step = "unsent" => TheEffect[c] = "none"
    BY DEF TheEffect
  <2>3. Promise!Answer(c, step)
    BY <1>1, <2>1, <2>2 DEF Promise!Answer, TheAnswer, TheEffect
  <2>4. QED  BY <1>3, <2>3 DEF Promise!Next, TheAnswer, TheEffect, Results
<1>4. QED  BY <1>2, <1>3

LEMMA CallerStepIsPromised ==
  ASSUME IInv, NEW c \in Calls, Caller(c)
  PROVE  [Promise!Next]_<<TheAnswer, TheEffect>>
<1> USE DEF CallerSteps, Results, Begun
<1>0. /\ state[c] \notin Begun => c \notin Range(written) \cup torn
      /\ state[c] \in Begun => caller[c] \notin {"idle", "sending", "unsent"}
      /\ completion[c] = "ok" => c \in Range(written)
      /\ completion[c] \in {"empty", "ok", "err"}
  BY DEF IInv, TypeOK, WordOwnsBytes, ResultIsTrue
<1>1. CASE RefuseInput(c)
  BY <1>0, <1>1, AnswerIsPromised DEF RefuseInput
<1>2. CASE StartSending(c)
  BY <1>2, AnswerIsPromised DEF StartSending
<1>3. CASE TrySend(c)
  BY <1>3, AnswerIsPromised DEF TrySend
<1>4. CASE GiveUpSending(c)
  BY <1>0, <1>4, AnswerIsPromised DEF GiveUpSending
<1>5. CASE ReceiveCompletion(c)
  BY <1>0, <1>5, AnswerIsPromised DEF ReceiveCompletion, ResultOf
<1>6. CASE TimeOut(c)
  BY <1>6, AnswerIsPromised DEF TimeOut
<1>7. CASE cancel_if_queued(c)
  <2>1. CASE state[c] = "QUEUED"
    BY <1>0, <1>7, <2>1, AnswerIsPromised DEF cancel_if_queued
  <2>2. CASE state[c] # "QUEUED"
    BY <1>7, <2>2, AnswerIsPromised DEF cancel_if_queued
  <2>3. QED  BY <2>1, <2>2
<1>8. CASE delivery_is_ambiguous(c)
  BY <1>8, AnswerIsPromised DEF delivery_is_ambiguous
<1>9. CASE CollectLateResult(c)
  BY <1>0, <1>9, AnswerIsPromised DEF CollectLateResult, ResultOf
<1>10. QED
  BY <1>1, <1>2, <1>3, <1>4, <1>5, <1>6, <1>7, <1>8, <1>9 DEF Caller

\* What a write that has begun does to its input is allowed by the promise.
LEMMA EffectIsPromised ==
  ASSUME IInv, writer.at = "writing", UNCHANGED caller,
         NEW how \in {"whole", "part"},
         TheEffect' = [TheEffect EXCEPT ![writer.input] = how]
  PROVE  Promise!Next
<1> DEFINE c == writer.input
<1>1. c \in Calls /\ c \notin Range(written) \cup torn /\ state[c] = "WRITING"
  BY DEF IInv, TypeOK, WriterHolds
<1>2. caller[c] \notin {"unsent", "delivered"}
  BY <1>1 DEF IInv, WordOwnsBytes, ResultIsTrue, Begun
<1>3. TheEffect[c] = "none" /\ TheAnswer[c] \in {"none", "indeterminate"}
  BY <1>1, <1>2 DEF TheEffect, TheAnswer, Results
<1>4. TheAnswer' = TheAnswer  BY DEF TheAnswer
<1>5. Promise!Reach(c, how)
  BY <1>3, <1>4 DEF Promise!Reach, TheAnswer, TheEffect
<1>6. QED  BY <1>1, <1>5 DEF Promise!Next, TheAnswer, TheEffect

LEMMA OtherStepIsPromised ==
  ASSUME IInv, Writer \/ ChildExits \/ Shutdown \/ UNCHANGED vars
  PROVE  [Promise!Next]_<<TheAnswer, TheEffect>>
<1>1. CASE WriteAll
  <2>1. writer.input \in Calls /\ writer.at = "writing" /\ UNCHANGED <<caller, torn>>
    BY <1>1 DEF WriteAll, IInv, TypeOK, WriterHolds
  <2>2. Range(written') = Range(written) \cup {writer.input}
    BY <1>1, <2>1, RangeAppend DEF WriteAll, IInv, TypeOK
  <2>3. TheEffect' = [TheEffect EXCEPT ![writer.input] = "whole"]
    BY <2>1, <2>2 DEF TheEffect
  <2>4. QED  BY <2>1, <2>3, EffectIsPromised
<1>2. CASE WriteFails
  <2>1. /\ writer.input \in Calls /\ writer.at = "writing" /\ UNCHANGED <<caller, written>>
        /\ torn' = torn \cup {writer.input} /\ writer.input \notin Range(written)
    BY <1>2 DEF WriteFails, IInv, TypeOK, WriterHolds
  <2>2. TheEffect' = [TheEffect EXCEPT ![writer.input] = "part"]
    BY <2>1 DEF TheEffect
  <2>3. QED  BY <2>1, <2>2, EffectIsPromised
<1>3. ASSUME UNCHANGED <<caller, written, torn>>
      PROVE  UNCHANGED <<TheAnswer, TheEffect>>
  <2>1. Range(written') = Range(written)  BY <1>3
  <2>2. QED  BY <1>3, <2>1 DEF TheAnswer, TheEffect
<1>4. CASE begin_write  BY <1>3, <1>4 DEF begin_write
<1>5. CASE StoreCompleted  BY <1>3, <1>5 DEF StoreCompleted
<1>6. CASE SendResult  BY <1>3, <1>6 DEF SendResult
<1>7. CASE WriterEnds  BY <1>3, <1>7 DEF WriterEnds
<1>8. CASE ChildExits \/ Shutdown \/ UNCHANGED vars
  BY <1>3, <1>8 DEF ChildExits, Shutdown, vars
<1>9. QED  BY <1>1, <1>2, <1>4, <1>5, <1>6, <1>7, <1>8 DEF Writer

(***************************************************************************)
(* write_pty, its writer thread and its deadline together implement the    *)
(* promise the desktop's recoverable queue is built on.                    *)
(***************************************************************************)
THEOREM ImplementsPromise == Spec => KeepsPromise
<1>1. Init => Promise!Init
  <2>1. Init => TheAnswer = [c \in Calls |-> "none"]
    BY DEF Init, TheAnswer, Results
  <2>2. Init => TheEffect = [c \in Calls |-> "none"]
    BY RangeEmpty DEF Init, TheEffect
  <2>3. QED  BY <2>1, <2>2 DEF Promise!Init, TheAnswer, TheEffect
<1>2. IInv /\ [Next]_vars => [Promise!Next]_<<TheAnswer, TheEffect>>
  BY CallerStepIsPromised, OtherStepIsPromised DEF Next
<1>3. QED
  BY <1>1, <1>2, Invariance, PTL
  DEF Spec, KeepsPromise, Promise!Spec, TheAnswer, TheEffect

-----------------------------------------------------------------------------
(* The desktop's lane beside the PTY: what MCTerminalInput checks of it. *)

\* A behaviour that follows one of the two leaves the other one alone.
LEMMA FollowsLane == MCFairSpec => Lane!Spec
<1>1. MCInit => Lane!Init
  BY DEF MCInit
<1>2. [MCNext]_allVars => [Lane!Next]_(Lane!vars)
  BY DEF MCNext, allVars, laneVars, InPty, InLane, Panes, Lane!Panes, Lane!Next,
         Lane!Lane, Lane!Client, Lane!vars, Lane!ui, Lane!buffer
<1> QED BY <1>1, <1>2, PTL DEF MCFairSpec, Lane!Spec

LEMMA LaneAssumption == NoFrame \notin Lane!Frame
BY FrameAssumption DEF Frame, Panes, Keys, Lane!Frame, Lane!Panes, Lane!Keys

\* TerminalInputBuffer, in the checked composition: its count is what it holds.
THEOREM BufferedIsHeldHolds == MCFairSpec => []BufferedIsHeld
<1>1. MCFairSpec => []Lane!BufferedIsHeld
  BY FollowsLane, Lane!BufferedIsHeldHolds, LaneAssumption, CapacitiesAssumption, PTL
<1> QED BY <1>1, PTL DEF BufferedIsHeld

\* finish_terminal_input, in the checked composition: no key is lost silently.
THEOREM NoKeyIsLostHolds == MCFairSpec => []NoKeyIsLost
<1>1. MCFairSpec => []Lane!NoKeyIsLost
  BY FollowsLane, Lane!NoKeyIsLostHolds, LaneAssumption, CapacitiesAssumption, PTL
<1> QED BY <1>1, PTL DEF NoKeyIsLost

\* call_with_delivery, in the checked composition: no key is typed twice.
THEOREM NoKeyTwiceHolds == MCFairSpec => []NoKeyTwice
<1>1. MCFairSpec => []Lane!NoKeyTwice
  BY FollowsLane, Lane!NoKeyTwiceHolds, LaneAssumption, CapacitiesAssumption, PTL
<1> QED BY <1>1, PTL DEF NoKeyTwice

\* TypeKeys behind the lane, in the checked composition: certain keys arrive in
\* the order the UI emitted them.
THEOREM CertainKeysKeepOrderHolds == MCFairSpec => []CertainKeysKeepOrder
<1>1. MCFairSpec => []Lane!CertainKeysKeepOrder
  BY FollowsLane, Lane!CertainKeysKeepOrderHolds, LaneAssumption, CapacitiesAssumption, PTL
<1> QED BY <1>1, PTL DEF CertainKeysKeepOrder
=============================================================================
