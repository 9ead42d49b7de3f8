--------------------------- MODULE BrowserCommands ---------------------------
(***************************************************************************)
(* Commands for one browser pane (crates/session-service/src/registry/     *)
(* mod.rs, registry/streaming.rs; crates/desktop/src/browser.rs).          *)
(*                                                                         *)
(* A caller puts a command into the service's queue and waits for its      *)
(* outcome.  The desktop takes the queue with its polls, runs each command *)
(* on the page or defers it until the page is there, and posts outcomes    *)
(* by the number the service gave the command.  A response, an outcome or  *)
(* the service itself may be lost.  `by` names the call a command comes    *)
(* from, which the code does not keep.                                     *)
(***************************************************************************)
EXTENDS Naturals, Sequences, FiniteSets, Functions, Filters

CONSTANTS
  Callers,     \* calls of browser_command
  Polls,       \* GetUpdates calls that ask for browser commands
  None,
  MaxRestarts  \* bound: times the service restarts

Kinds == {"navigate", "history", "devtools"}  \* history: back, forward, reload

VARIABLES
  queue,     \* BrowserCommandQueue: [next_id, pending, waiters]
  caller,    \* how far each call is, then what it was told
  slot,      \* the one-place channel each call waits on
  response,  \* commands in a response on its way to the desktop
  view,      \* the pane's page: "none", "starting" or "created"
  deferred,  \* BrowserState::deferred_commands
  cdp,       \* cdp_pending, and the DevTools results that have arrived
  posted,    \* BrowserCommandResult requests on their way to the service
  restarts,
  ran,       \* history: the commands the page acted on
  skipped,   \* history: calls whose command found a page that was not there yet
  withdrawn  \* history: calls that took their command out of the queue

history == <<ran, skipped, withdrawn>>
vars == <<queue, caller, slot, response, view, deferred, cdp, posted, restarts, history>>

\* The calls whose commands are in a list.
CallsOf(list) == {list[i].by : i \in DOMAIN list}

EmptyQueue == [next_id |-> 1, pending |-> <<>>, waiters |-> {}]

(***************************************************************************)
(* The service                                                             *)
(***************************************************************************)
\* The pane exists and is a browser.
browser_command(c, kind) ==
  LET id == queue.next_id
  IN /\ caller[c] = "new"
     /\ queue' = [next_id |-> id + 1,
                  pending |-> Append(queue.pending, [id |-> id, kind |-> kind, by |-> c]),
                  waiters |-> queue.waiters \cup {[id |-> id, to |-> c]}]
     /\ caller' = [caller EXCEPT ![c] = "waiting"]
     /\ UNCHANGED <<slot, response, view, deferred, cdp, posted, restarts, history>>

Receives(c) ==
  /\ caller[c] = "waiting" /\ slot[c] # None
  /\ caller' = [caller EXCEPT ![c] = slot[c]]
  /\ UNCHANGED <<queue, slot, response, view, deferred, cdp, posted, restarts, history>>

\* recv_timeout gives up; the queue's lock is taken afterwards.
TimesOut(c) ==
  /\ caller[c] = "waiting" /\ slot[c] = None
  /\ caller' = [caller EXCEPT ![c] = "giving up"]
  /\ UNCHANGED <<queue, slot, response, view, deferred, cdp, posted, restarts, history>>

\* Leaves the command in the queue.
WithdrawsWaiter(c) ==
  /\ caller[c] = "giving up"
  /\ queue' = [queue EXCEPT !.waiters = {w \in @ : w.to # c}]
  /\ withdrawn' = withdrawn \cup ({c} \cap CallsOf(queue.pending))
  /\ caller' = [caller EXCEPT ![c] = "no answer"]
  /\ UNCHANGED <<slot, response, view, deferred, cdp, posted, restarts, ran, skipped>>

Withdraws(c) ==
  /\ caller[c] = "giving up"
  /\ queue' = [queue EXCEPT !.waiters = {w \in @ : w.to # c},
                            !.pending = retain(@, {r \in Range(@) : r.by # c})]
  /\ withdrawn' = withdrawn \cup ({c} \cap CallsOf(queue.pending))
  /\ caller' = [caller EXCEPT ![c] = "no answer"]
  /\ UNCHANGED <<slot, response, view, deferred, cdp, posted, restarts, ran, skipped>>

take_browser_commands(p) ==
  /\ response[p] = <<>> /\ queue.pending # <<>>
  /\ response' = [response EXCEPT ![p] = queue.pending]
  /\ queue' = [queue EXCEPT !.pending = <<>>]
  /\ UNCHANGED <<caller, slot, view, deferred, cdp, posted, restarts, history>>

ResponseLost(p) ==
  /\ response[p] # <<>> /\ response' = [response EXCEPT ![p] = <<>>]
  /\ UNCHANGED <<queue, caller, slot, view, deferred, cdp, posted, restarts, history>>

\* The waiter of that number gets the outcome, whose command it ever was.
resolve_browser_command(r) ==
  /\ r \in posted /\ posted' = posted \ {r}
  /\ LET found == {w \in queue.waiters : w.id = r.id}
     IN /\ queue' = [queue EXCEPT !.waiters = @ \ found]
        /\ slot' = [c \in Callers |-> IF \E w \in found : w.to = c THEN r.outcome
                                                                   ELSE slot[c]]
  /\ UNCHANGED <<caller, response, view, deferred, cdp, restarts, history>>

\* The control lane was full, or the call failed.
ResultLost(r) ==
  /\ r \in posted /\ posted' = posted \ {r}
  /\ UNCHANGED <<queue, caller, slot, response, view, deferred, cdp, restarts, history>>

\* A new process counts from 1; calls that wait lose their connection.
ServiceRestarts ==
  /\ restarts < MaxRestarts /\ restarts' = restarts + 1
  /\ queue' = EmptyQueue
  /\ caller' = [c \in Callers |-> IF caller[c] \in {"waiting", "giving up"} THEN "lost"
                                                                    ELSE caller[c]]
  /\ UNCHANGED <<slot, response, view, deferred, cdp, posted, history>>

(***************************************************************************)
(* The desktop                                                             *)
(***************************************************************************)
Result(r, outcome) == [id |-> r.id, outcome |-> outcome]

\* Whether execute_browser_command can go on to the action itself.
IsReady(r) == view # "none" /\ (r.kind = "devtools" => view = "created")

\* A page that is not there yet keeps an address for later, and nothing else.
ActedOn(r) == r.kind # "history" \/ view = "created"

\* `list` goes through execute_browser_command: some fail at once, because
\* their deadline has passed or DevTools refuses them, and what is not ready is
\* deferred behind `kept`.  The DevTools calls `done` are posted along with it.
Executes(list, fails, kept, done) ==
  LET left == Range(list) \ fails
      now  == {r \in left : IsReady(r)}
      asks == {r \in now : r.kind = "devtools"}
  IN /\ deferred' = kept \o retain(list, left \ now)
     /\ ran' = ran \o retain(list, {r \in now : ActedOn(r)})
     /\ skipped' = skipped \cup {r.by : r \in {s \in now : ~ActedOn(s)}}
     /\ cdp' = (cdp \ done) \cup {[command |-> r, result |-> None] : r \in asks}
     /\ posted' = posted \cup {Result(r, "ok") : r \in now \ asks}
                         \cup {Result(r, "error") : r \in fails}
                         \cup {Result(d.command, d.result) : d \in done}

\* The deadline of a new command is 10 s away.
run_browser_commands(p) ==
  /\ response[p] # <<>> /\ response' = [response EXCEPT ![p] = <<>>]
  /\ \E fails \in SUBSET {r \in Range(response[p]) : IsReady(r) /\ r.kind = "devtools"} :
       Executes(response[p], fails, deferred, {})
  /\ UNCHANGED <<queue, caller, slot, view, restarts, withdrawn>>

poll_browser_commands ==
  /\ \E fails \in SUBSET {r \in Range(deferred) : IsReady(r) => r.kind = "devtools"} :
       Executes(deferred, fails, <<>>, {d \in cdp : d.result # None})
  /\ UNCHANGED <<queue, caller, slot, response, view, restarts, withdrawn>>

PageAnswers(d) ==
  /\ d \in cdp /\ d.result = None
  /\ \E outcome \in {"ok", "error"} : cdp' = (cdp \ {d}) \cup {[d EXCEPT !.result = outcome]}
  /\ UNCHANGED <<queue, caller, slot, response, view, deferred, posted, restarts, history>>

\* ensure_browser_view and the renderer's first callback; a page that closes
\* takes its unanswered DevTools calls with it.
PageOpens ==
  /\ view # "created" /\ view' = IF view = "none" THEN "starting" ELSE "created"
  /\ UNCHANGED <<queue, caller, slot, response, deferred, cdp, posted, restarts, history>>

PageCloses ==
  /\ view # "none" /\ view' = "none" /\ cdp' = {}
  /\ UNCHANGED <<queue, caller, slot, response, deferred, posted, restarts, history>>

(***************************************************************************)
(* Behaviours                                                              *)
(***************************************************************************)
Init ==
  /\ queue = EmptyQueue
  /\ caller = [c \in Callers |-> "new"] /\ slot = [c \in Callers |-> None]
  /\ response = [p \in Polls |-> <<>>]
  /\ view = "none" /\ deferred = <<>> /\ cdp = {} /\ posted = {}
  /\ restarts = 0 /\ ran = <<>> /\ skipped = {} /\ withdrawn = {}

Next ==
  \/ \E c \in Callers : \/ \E kind \in Kinds : browser_command(c, kind)
                        \/ Receives(c) \/ TimesOut(c) \/ Withdraws(c)
  \/ \E p \in Polls : \/ take_browser_commands(p) \/ ResponseLost(p)
                      \/ run_browser_commands(p)
  \/ \E r \in posted : resolve_browser_command(r) \/ ResultLost(r)
  \/ \E d \in cdp : PageAnswers(d)
  \/ poll_browser_commands \/ PageOpens \/ PageCloses \/ ServiceRestarts

Spec == Init /\ [][Next]_vars

(***************************************************************************)
(* Properties                                                              *)
(***************************************************************************)
TimesRun(c) == Cardinality({i \in DOMAIN ran : ran[i].by = c})

\* A command runs at most once, and not after its caller was told that no
\* desktop answered while it was still in the queue; a caller that was told it
\* succeeded had it run.  Polls, deadlines, lost answers and the caller's own
\* timeout race for each command (browser_command_with_timeout).  Two
\* exceptions: back, forward and reload do nothing on a page that is not there
\* yet and succeed, and a service that restarts gives old numbers to new
\* commands, whose callers then get old outcomes.
AnswersAreTrue ==
  \A c \in Callers :
    /\ TimesRun(c) <= 1
    /\ c \in withdrawn => TimesRun(c) = 0
    /\ caller[c] = "ok" => TimesRun(c) = 1 \/ c \in skipped \/ restarts > 0
=============================================================================
