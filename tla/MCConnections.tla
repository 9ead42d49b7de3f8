--------------------------- MODULE MCConnections ----------------------------
(***************************************************************************)
(* The two connections whose answers come back out of step, side by side   *)
(* in one run: a behaviour follows the desktop's polls for screens         *)
(* (PaneStream) or one tmux control client (TmuxControl).  `connection`    *)
(* says which; the variables of the other one keep their initial values.   *)
(***************************************************************************)
EXTENDS MCPaneStream, TmuxCommands

VARIABLES
  connection,
  slow, size, caller, chunk, slot, pending, pipe, replies, process, reader, alive, typed

Control == INSTANCE TmuxControl

controlVars == <<slow, size, caller, chunk, slot, pending, pipe, replies, process,
                 reader, alive, typed>>
allVars == <<connection, vars, controlVars>>

InStream(A)  == connection = "stream" /\ A /\ UNCHANGED <<connection, controlVars>>
InControl(A) == connection = "control" /\ A /\ UNCHANGED <<connection, vars>>

\* With late replies two inputs of one chunk and a longer one, without them
\* three long ones.  The part a behaviour does not follow starts in one way.
Sizes == IF slow THEN LET c == CHOOSE c \in Calls : TRUE
                      IN [d \in Calls |-> IF d = c THEN Chunks ELSE 1]
                 ELSE [c \in Calls |-> Chunks]

MCConnectionsInit ==
  /\ Init /\ Control!Init /\ size = Sizes
  /\ \/ connection = "stream" /\ Scenarios /\ ~slow
     \/ connection = "control" /\ open = {} /\ changes = 0 /\ replaced = 0

MCNext ==
  \/ \E p \in Panes :
       \/ InStream(AppliesOutput(p)) \/ InStream(AdvancesRevision(p))
       \/ InStream(Reattaches(p)) \/ InStream(ClosesPane(p))
       \/ InStream(FocusesPane(p)) \/ InStream(IntervalPasses(p))
  \/ InStream(ServiceRestarts)
  \/ \E c \in Cycles : \/ InStream(PollStarts(c)) \/ InStream(PollServed(c))
                       \/ InStream(PollApplied(c)) \/ InStream(PollFails(c))
  \/ InStream(FetchStarts) \/ InStream(FetchServed) \/ InStream(FetchApplied)
  \/ InStream(FetchFails)
  \/ \E c \in Calls :
       \/ InControl(Control!CheckAlive(c)) \/ InControl(Control!QueueAndWrite(c))
       \/ InControl(Control!WriteFails(c)) \/ InControl(Control!Receive(c))
       \/ InControl(Control!TimeOut(c))
       \/ InControl(Control!InvalidateAfterTimeOut(c))
  \/ InControl(Control!TmuxExecutes) \/ InControl(Control!ReaderDelivers)
  \/ InControl(Control!ProcessEnds) \/ InControl(Control!ReaderEnds)

\* The fairness of the two modules.
MCFairSpec ==
  /\ MCConnectionsInit /\ [][MCNext]_allVars
  /\ \A c \in Cycles : WF_allVars(InStream(PollApplied(c)))
  /\ WF_allVars(InStream(PollStarts("poll")))
  /\ SF_allVars(InStream(PollServed("poll")))
  /\ \A p \in Panes : /\ WF_allVars(InStream(AdvancesRevision(p)))
                      /\ WF_allVars(InStream(IntervalPasses(p)))
  /\ \A c \in Calls : WF_allVars(InControl(Control!Call(c)))
  /\ WF_allVars(InControl(Control!ReaderDelivers))
  /\ WF_allVars(InControl(Control!ReaderEnds))

\* Every reply goes to the handler that asked (TmuxControl).
RepliesFindTheirWaiters == Control!RepliesFindTheirWaiters
\* Acknowledged input reached the terminal, every chunk of it (TmuxControl).
AcknowledgedIsTyped == Control!AcknowledgedIsTyped
\* A client that is gone leaves nobody waiting (TmuxControl).
LostClientFreesEveryCall == Control!LostClientFreesEveryCall
=============================================================================
