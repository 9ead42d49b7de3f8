-------------------------- MODULE MCTerminalInput ---------------------------
(***************************************************************************)
(* Two stretches of the way a key takes, side by side in one run: a        *)
(* behaviour follows the service's PTY writer (PtyInput) or the desktop's  *)
(* lane (InputDelivery).  `stretch` says which; the variables of the other *)
(* one keep their initial values.                                          *)
(***************************************************************************)
EXTENDS PtyInput, TerminalFrames

VARIABLES
  stretch,
  emitted, queued, in_flight, recoverable, buffered, wake, lane, call, conn,
  service, crashes, retries, serving, typed, acked, reported, retried

Lane == INSTANCE InputDeliveryProofs  \* InputDelivery with its theorems

laneVars == <<emitted, queued, in_flight, recoverable, buffered, wake, lane, call,
              conn, service, crashes, retries, serving, typed, acked, reported,
              retried>>
allVars  == <<stretch, vars, laneVars>>

InPty(A)  == stretch = "pty" /\ A /\ UNCHANGED <<stretch, laneVars>>
InLane(A) == stretch = "lane" /\ A /\ UNCHANGED <<stretch, vars>>

MCInit ==
  /\ stretch \in {"pty", "lane"}
  /\ Init /\ Lane!Init

MCNext ==
  \/ \E c \in Calls : \/ InPty(RefuseInput(c)) \/ InPty(StartSending(c))
                      \/ InPty(TrySend(c)) \/ InPty(GiveUpSending(c))
                      \/ InPty(ReceiveCompletion(c)) \/ InPty(TimeOut(c))
                      \/ InPty(cancel_if_queued(c))
                      \/ InPty(delivery_is_ambiguous(c))
                      \/ InPty(CollectLateResult(c))
  \/ InPty(begin_write) \/ InPty(WriteAll) \/ InPty(WriteFails)
  \/ InPty(StoreCompleted) \/ InPty(SendResult) \/ InPty(WriterEnds)
  \/ InPty(ChildExits) \/ InPty(Shutdown)
  \/ \E p \in Panes, n \in 1 .. FrameKeys : InLane(Lane!try_send(p, n))
  \/ InLane(Lane!replay_recoverable) \/ InLane(Lane!LaneWakes)
  \/ InLane(Lane!begin_terminal_input) \/ InLane(Lane!LaneSleeps)
  \/ InLane(Lane!Connect) \/ InLane(Lane!WriteRequest) \/ InLane(Lane!WriteIsLost)
  \/ InLane(Lane!WriteFails) \/ InLane(Lane!WriteFailsAgain)
  \/ InLane(Lane!ReadAnswer) \/ InLane(Lane!ReadFails) \/ InLane(Lane!ReadTimesOut)
  \/ \E i \in DOMAIN serving : InLane(Lane!TypeKeys(i)) \/ InLane(Lane!Answer(i))
  \/ InLane(Lane!ServiceEnds) \/ InLane(Lane!ServiceStarts)

\* The fairness of the two modules.
MCFairSpec ==
  /\ MCInit /\ [][MCNext]_allVars
  /\ \A c \in Calls : WF_allVars(InPty(Caller(c) /\ caller[c] # "idle"))
  /\ WF_allVars(InLane(Lane!Lane)) /\ WF_allVars(InLane(Lane!Client))
  /\ WF_allVars(InLane(\E i \in DOMAIN serving : Lane!Answer(i)))

\* The buffer counts exactly what it holds (InputDelivery).
BufferedIsHeld == Lane!BufferedIsHeld
\* No accepted key disappears silently (InputDelivery).
NoKeyIsLost == Lane!NoKeyIsLost
\* No key is typed twice (InputDelivery).
NoKeyTwice == Lane!NoKeyTwice
\* Keys whose delivery is certain keep their order (InputDelivery).
CertainKeysKeepOrder == Lane!CertainKeysKeepOrder
\* Every accepted key leaves the queue (InputDelivery).
InputIsSettled == stretch = "lane" => Lane!InputIsSettled
=============================================================================
