--------------------------- MODULE NotificationRing ---------------------------
(***************************************************************************)
(* The notifications of the session service and the desktop's mirror of    *)
(* them.  The service keeps a ring in memory, flushed to                   *)
(* notifications.json when it is dirty, and starts a new epoch with every  *)
(* process.  The desktop asks for deltas with every poll and for the whole *)
(* ring when it finds a gap or another epoch; its requests go through the  *)
(* bounded control lane, one at a time, each followed by a poll.           *)
(***************************************************************************)
EXTENDS Naturals, Sequences, SequencesExt, Filters

CONSTANTS
  Panes,        \* panes that notify
  Kinds,        \* kinds of notification
  Instants,     \* at_ms; instants within the dedupe window are equal
  Capacity,     \* MAX_NOTIFICATIONS and NOTIFICATION_RING_CAPACITY
  LaneCapacity, \* CONTROL_PIPELINE_CAPACITY
  MaxStored,    \* bound: notifications stored
  MaxCrashes,   \* bound: crashes of the service
  MaxMarks,     \* bound: requests of the user
  MayClear      \* whether the user clears the list

ASSUME RingAssumption ==
  /\ Capacity \in Nat \ {0} /\ LaneCapacity \in Nat \ {0}
  /\ MaxStored \in Nat /\ MaxCrashes \in Nat /\ MaxMarks \in Nat /\ MayClear \in BOOLEAN

VARIABLES
  ring, nextId, dirty, epoch, \* the service: RegistryState
  flushing,                   \* who holds notification_flush, and what it copied
  disk,                       \* notifications.json
  mirror, latest, known, reloading, \* the desktop: SessionState
  lane,                       \* control requests that wait
  call,                       \* the control request under way
  polls,                      \* GetUpdates of the poll loop and of the lane
  stored, marks, acked, spoiled       \* histories

counts == <<stored, marks>>
service == <<ring, nextId, dirty, epoch>>
desktop == <<mirror, latest, known, reloading>>
vars == <<service, flushing, disk, desktop, lane, call, polls, counts, acked, spoiled>>

Flushers == {"tick", "handler"}
Pollers == {"loop", "lane"}
NoCopy == [items |-> <<>>, next |-> 0]
NoRequest == [op |-> "none", ids |-> {}]
NoAnswer == [epoch |-> 0, items |-> <<>>]
Free == [at |-> "free", req |-> NoRequest, answer |-> NoAnswer]
Quiet == [served |-> FALSE, answer |-> NoAnswer]
Requests == [op : {"reload", "read", "clear"}, ids : SUBSET Nat]

Ids(items) == {items[i].id : i \in 1..Len(items)}
MarkedRead(items, ids) ==
  [i \in 1..Len(items) |-> [items[i] EXCEPT !.read = @ \/ items[i].id \in ids]]

\* replaced_by: an unread completion or attention of the same pane within the window.
replaced_by(old, new) ==
  /\ new.kind # "Message" /\ ~old.read
  /\ old.pane = new.pane /\ old.kind = new.kind /\ old.at = new.at

Keeps(items, new) == retain(items, {old \in ToSet(items) : ~replaced_by(old, new)})

\* VecDeque::pop_front, for a ring that is full.
pop_front(items) == IF Len(items) = Capacity THEN Tail(items) ELSE items

\* What a previous process may have left in the file.
Saved ==
  {<<>>} \cup {<<[id |-> 1, pane |-> p, kind |-> kind, at |-> at, read |-> FALSE]>> :
               p \in Panes, kind \in Kinds, at \in {t \in Instants : \A later \in Instants : t <= later}}

Init ==
  /\ ring \in Saved /\ nextId = Len(ring) + 1 /\ dirty = FALSE /\ epoch = 1
  /\ flushing = [f \in Flushers |-> NoCopy]
  /\ disk = [items |-> ring, next |-> nextId]
  /\ mirror = <<>> /\ latest = 0 /\ known = 0 /\ reloading = FALSE
  /\ lane = <<[op |-> "reload", ids |-> {}]>> /\ call = Free
  /\ polls = [k \in Pollers |-> Quiet]
  /\ stored = 0 /\ marks = 0 /\ acked = {} /\ spoiled = {}

(***************************************************************************)
(* The service                                                             *)
(***************************************************************************)
append_notification(p, kind, at) ==
  /\ stored < MaxStored /\ stored' = stored + 1 /\ \A n \in ToSet(ring) : n.at <= at
  /\ LET new == [id |-> nextId, pane |-> p, kind |-> kind, at |-> at, read |-> FALSE]
     IN ring' = Append(pop_front(Keeps(ring, new)), new)
  /\ nextId' = nextId + 1 /\ dirty' = TRUE
  /\ UNCHANGED <<epoch, flushing, disk, desktop, lane, call, polls, marks, acked, spoiled>>

\* A handler that has changed the ring answers after flush_notifications.
Flushed(f, ok) ==
  IF f = "handler"
  THEN /\ call' = [call EXCEPT !.at = "answered"]
       /\ acked' = IF ok /\ call.req.op = "read"
                   THEN acked \cup call.req.ids ELSE acked
  ELSE UNCHANGED <<call, acked>>

flush_unlocked(f) == flushing[f] = NoCopy
flush_lock(f) == \A g \in Flushers : flushing[g] = NoCopy

FlushTakes(f) ==
  /\ flush_lock(f)
  /\ f = "handler" => call.at = "flushing"
  /\ IF dirty
     THEN /\ dirty' = FALSE
          /\ flushing' = [flushing EXCEPT ![f] = [items |-> ring, next |-> nextId]]
          /\ UNCHANGED <<call, acked>>
     ELSE f = "handler" /\ Flushed(f, TRUE) /\ UNCHANGED <<dirty, flushing>>
  /\ UNCHANGED <<ring, nextId, epoch, disk, desktop, lane, polls, counts, spoiled>>

FlushWrites(f) ==
  /\ flushing[f] # NoCopy
  /\ disk' = flushing[f]
  /\ flushing' = [flushing EXCEPT ![f] = NoCopy]
  /\ Flushed(f, TRUE)
  /\ UNCHANGED <<service, desktop, lane, polls, counts, spoiled>>

FlushForgets(f) ==
  /\ flushing[f] # NoCopy
  /\ flushing' = [flushing EXCEPT ![f] = NoCopy]
  /\ Flushed(f, FALSE)
  /\ UNCHANGED <<service, disk, desktop, lane, polls, counts, spoiled>>

FlushFails(f) ==
  /\ flushing[f] # NoCopy
  /\ dirty' = TRUE
  /\ flushing' = [flushing EXCEPT ![f] = NoCopy]
  /\ Flushed(f, FALSE)
  /\ UNCHANGED <<ring, nextId, epoch, disk, desktop, lane, polls, counts, spoiled>>

\* The lane takes its next request when nothing is under way, and the handler
\* answers it; what the answer finds on the desktop is AnswerApplied.
Serves(op) == call.at = "free" /\ lane # <<>> /\ Head(lane).op = op /\ lane' = Tail(lane)

GetNotificationsServed ==
  /\ Serves("reload")
  /\ call' = [at |-> "answered", req |-> Head(lane), answer |-> [epoch |-> epoch, items |-> ring]]
  /\ UNCHANGED <<service, flushing, disk, desktop, polls, counts, acked, spoiled>>

\* Keeps of the ids those it found: a history for what the answer acknowledges.
mark_notifications_read ==
  /\ Serves("read")
  /\ ring' = MarkedRead(ring, Head(lane).ids)
  /\ dirty' = (dirty \/ ring' # ring)
  /\ call' = [at |-> "flushing", answer |-> NoAnswer,
              req |-> [op |-> "read", ids |-> Head(lane).ids \cap Ids(ring)]]
  /\ UNCHANGED <<nextId, epoch, flushing, disk, desktop, polls, counts, acked, spoiled>>

clear_notifications ==
  /\ Serves("clear")
  /\ ring' = <<>>
  /\ dirty' = (dirty \/ ring # <<>>)
  /\ call' = [at |-> "flushing", req |-> Head(lane), answer |-> NoAnswer]
  /\ UNCHANGED <<nextId, epoch, flushing, disk, desktop, polls, counts, acked, spoiled>>

\* A poll asks for what is newer than `latest`.  The cursor is the one when it
\* is served: what an older one yields besides, sync_notifications leaves out.
PollServed(k) ==
  /\ polls[k] = Quiet
  /\ k = "lane" => call.at = "polling"
  /\ LET deltas == retain(ring, {n \in ToSet(ring) : n.id > latest})
     IN polls' = [polls EXCEPT ![k] = [served |-> TRUE,
                                       answer |-> [epoch |-> epoch, items |-> deltas]]]
  /\ UNCHANGED <<service, flushing, disk, desktop, lane, call, counts, acked, spoiled>>

\* The process dies and another loads the file.  What it had not answered fails.
Crashes ==
  /\ epoch <= MaxCrashes
  /\ epoch' = epoch + 1
  /\ ring' = disk.items /\ nextId' = disk.next /\ dirty' = FALSE
  /\ flushing' = [f \in Flushers |-> NoCopy]
  /\ \/ /\ call' = CASE call.at = "flushing" -> [call EXCEPT !.at = "failed"]
                     [] call.at = "polling" /\ polls["lane"] = Quiet -> Free
                     [] OTHER -> call
        /\ UNCHANGED lane
     \/ /\ call.at = "free" /\ lane # <<>> /\ lane' = Tail(lane)
        /\ call' = [at |-> "failed", req |-> Head(lane), answer |-> NoAnswer]
  /\ UNCHANGED <<disk, desktop, polls, counts, acked, spoiled>>

(***************************************************************************)
(* The desktop                                                             *)
(***************************************************************************)
\* dispatch_with: a full lane refuses the request, and the caller goes on.
dispatch_with(req) ==
  IF Len(lane) < LaneCapacity
  THEN lane' = Append(lane, req) /\ UNCHANGED spoiled
  ELSE spoiled' = spoiled \cup {"refused"} /\ UNCHANGED lane

Reload == [op |-> "reload", ids |-> {}]

\* mark_pane_seen, mark_notifications_read: shown as read before it is sent.
MarksRead(ids) ==
  /\ marks < MaxMarks /\ marks' = marks + 1
  /\ ids # {} /\ \E n \in ToSet(mirror) : n.id \in ids /\ ~n.read
  /\ mirror' = MarkedRead(mirror, ids)
  /\ dispatch_with([op |-> "read", ids |-> ids])
  /\ UNCHANGED <<service, flushing, disk, latest, known, reloading, call, polls, stored, acked>>

ClearsList ==
  /\ MayClear /\ marks < MaxMarks /\ marks' = marks + 1
  /\ dispatch_with([op |-> "clear", ids |-> {}])
  /\ UNCHANGED <<service, flushing, disk, desktop, call, polls, stored, acked>>

replace_notifications(answer) ==
  /\ mirror' = answer.items
  /\ latest' = IF answer.items = <<>> THEN 0 ELSE Last(answer.items).id
  /\ known' = answer.epoch /\ reloading' = FALSE

\* The continuation of the request, then the follow-up poll of the lane.
AnswerApplied ==
  /\ call.at \in {"answered", "failed"}
  /\ call' = [Free EXCEPT !.at = "polling"]
  /\ CASE call.at = "failed" /\ call.req.op = "reload" ->
            reloading' = FALSE /\ UNCHANGED <<mirror, latest, known, lane, spoiled>>
       [] call.at = "failed" /\ call.req.op # "reload" ->
            UNCHANGED <<desktop, lane, spoiled>>
       [] call.at = "answered" /\ call.req.op = "reload" ->
            replace_notifications(call.answer) /\ UNCHANGED <<lane, spoiled>>
       [] call.at = "answered" /\ call.req.op = "read" ->
            dispatch_with(Reload) /\ UNCHANGED desktop
       [] call.at = "answered" /\ call.req.op = "clear" ->
            /\ mirror' = <<>> /\ spoiled' = spoiled \cup {"cleared"}
            /\ UNCHANGED <<latest, known, reloading, lane>>
  /\ UNCHANGED <<service, flushing, disk, polls, counts, acked>>

\* Applies each delta in order by the service's own rule.
Merge(items, fresh) ==
  FoldLeft(LAMBDA shown, new : Append(Keeps(shown, new), new), items, fresh)
Newest(items) ==
  IF Len(items) > Capacity THEN SubSeq(items, Len(items) - Capacity + 1, Len(items)) ELSE items

Fresh(deltas) == retain(deltas, {n \in ToSet(deltas) : n.id > latest})

NeverReloads(needed) == UNCHANGED <<reloading, lane, spoiled>>

\* The reload asked for once, while none is under way.
asks_for_reload(needed) ==
  IF needed /\ ~reloading
  THEN reloading' = TRUE /\ dispatch_with(Reload)
  ELSE UNCHANGED <<reloading, lane, spoiled>>

sync_notifications(answer) ==
  IF known # answer.epoch
  THEN asks_for_reload(TRUE) /\ UNCHANGED <<mirror, latest, known>>
  ELSE LET fresh == Fresh(answer.items) IN
       IF fresh = <<>> THEN UNCHANGED <<desktop, lane, spoiled>>
       ELSE /\ mirror' = Newest(Merge(mirror, fresh))
            /\ latest' = Last(fresh).id
            /\ asks_for_reload(\E i \in 1..Len(fresh) : fresh[i].id # latest + i)
            /\ UNCHANGED known

PollApplied(k) ==
  /\ polls[k].served
  /\ polls' = [polls EXCEPT ![k] = Quiet]
  /\ call' = IF k = "lane" THEN Free ELSE call
  /\ sync_notifications(polls[k].answer)
  /\ UNCHANGED <<service, flushing, disk, counts, acked>>

(***************************************************************************)
(* Specification                                                           *)
(***************************************************************************)
Flush == \E f \in Flushers : FlushTakes(f) \/ FlushWrites(f) \/ FlushFails(f)
Handler == GetNotificationsServed \/ mark_notifications_read \/ clear_notifications
Poll(k) == PollServed(k) \/ PollApplied(k)
User == (\E ids \in {Ids(mirror)} \cup {{id} : id \in Ids(mirror)} : MarksRead(ids)) \/ ClearsList

Next ==
  \/ \E p \in Panes, kind \in Kinds, at \in Instants : append_notification(p, kind, at)
  \/ Flush \/ Handler \/ Crashes \/ User \/ AnswerApplied
  \/ \E k \in Pollers : Poll(k)

Spec == Init /\ [][Next]_vars

\* The poll loop and the lane go on, handlers answer, a flush ends, and the
\* tick, every 2 s, does not keep a handler from the flush lock for ever.
Fairness ==
  /\ WF_vars(AnswerApplied) /\ WF_vars(Handler)
  /\ \A k \in Pollers : WF_vars(Poll(k))
  /\ SF_vars(FlushTakes("handler"))
  /\ \A f \in Flushers : WF_vars(FlushWrites(f) \/ FlushFails(f))

FairSpec == Spec /\ Fairness

(***************************************************************************)
(* Properties                                                              *)
(***************************************************************************)
Notifications == [id : Nat \ {0}, pane : Panes, kind : Kinds, at : Instants, read : BOOLEAN]
Answers == [epoch : Nat, items : Seq(Notifications)]

TypeOK ==
  /\ ring \in Seq(Notifications) /\ nextId \in Nat \ {0} /\ dirty \in BOOLEAN /\ epoch \in Nat
  /\ flushing \in [Flushers -> [items : Seq(Notifications), next : Nat]]
  /\ disk \in [items : Seq(Notifications), next : Nat]
  /\ mirror \in Seq(Notifications) /\ latest \in Nat /\ known \in Nat /\ reloading \in BOOLEAN
  /\ lane \in Seq(Requests) /\ Len(lane) <= LaneCapacity
  /\ call.at \in {"free", "flushing", "answered", "failed", "polling"}
  /\ call.req \in Requests \cup {NoRequest} /\ call.answer \in Answers
  /\ polls \in [Pollers -> [served : BOOLEAN, answer : Answers]]
  /\ stored \in 0..MaxStored /\ marks \in 0..MaxMarks /\ acked \subseteq Nat /\ spoiled \subseteq {"refused", "cleared"}

\* flush_notifications: a ring that is not dirty is the ring on disk, whichever
\* of the tick and the handlers flushes, whatever changes between the copy and
\* the write, and whichever write fails.
CleanIsOnDisk ==
  ~dirty /\ (\A f \in Flushers : flushing[f] = NoCopy)
    => disk = [items |-> ring, next |-> nextId]

\* mark_notifications_read: a notification whose reading was saved and
\* acknowledged is never unread again, in memory or in the file, however flushes
\* and crashes interleave: an older copy is never written over a newer one.
AckedReadsSurvive ==
  \A n \in ToSet(ring) \cup ToSet(disk.items) : n.id \in acked => n.read

Agrees == mirror = ring /\ known = epoch

\* sync_notifications and the reload: unless the list was cleared (the Ack wipes
\* what arrived meanwhile) or the lane refused a request (`reloading` stays set),
\* the desktop ends up showing the service's ring, read flags included, through
\* gaps, overlapping answers and new epochs.
MirrorCatchesUp == <>[](spoiled = {} => Agrees)
=============================================================================
