-------------------------- MODULE PersistenceProofs --------------------------
(***************************************************************************)
(* Proofs about what the service keeps on disk: the notifications          *)
(* (NotificationRing) for every set of panes, every capacity and any       *)
(* number of flushes and crashes, and the tabs of MCPersistence, whose     *)
(* theorems are those of SavedSessionsProofs.                              *)
(*                                                                         *)
(* Of the notifications: a ring that is not dirty is the one on disk, and  *)
(* a reading that was saved and acknowledged is kept.                      *)
(* Both rest on one inductive invariant.  A flush copies the ring, clears  *)
(* `dirty` and writes later; while the copy is out, `dirty` tells whether  *)
(* it is still the ring (CopyIsCurrent), and nobody else holds one         *)
(* (OneFlush).  A reading is acknowledged when the handler that made it    *)
(* has flushed, so until then it is in the ring and in whatever is going   *)
(* to be on disk (PromiseIsKept); new ids are above every id in any of     *)
(* them (IdsAreHandedOut), so a promise never binds what comes later.      *)
(***************************************************************************)
EXTENDS MCPersistence, FiltersProofs

Copies == [items : Seq(Notifications), next : Nat \ {0}]

Typed ==
  /\ ring \in Seq(Notifications) /\ nextId \in Nat \ {0} /\ dirty \in BOOLEAN
  /\ flushing \in [Flushers -> Copies \cup {NoCopy}]
  /\ disk \in Copies
  /\ call = [at |-> call.at, req |-> call.req, answer |-> call.answer]
  /\ polls = [k \in Pollers |-> polls[k]]

OneFlush == \A f, g \in Flushers : flushing[f] # NoCopy /\ flushing[g] # NoCopy => f = g

\* A copy the ring has not changed since is what the ring is.
CopyIsCurrent ==
  \A f \in Flushers :
    ~dirty /\ flushing[f] # NoCopy => flushing[f] = [items |-> ring, next |-> nextId]

IdsBelow(items, next) == \A i \in 1 .. Len(items) : items[i].id < next

IdsAreHandedOut ==
  /\ IdsBelow(ring, nextId) /\ IdsBelow(disk.items, disk.next)
  /\ \A f \in Flushers : IdsBelow(flushing[f].items, flushing[f].next)

\* The list shows all of `ids` that it has as read, and will never give out one of them.
Remembers(items, next, ids) ==
  /\ \A i \in 1 .. Len(items) : items[i].id \in ids => items[i].read
  /\ \A id \in ids : id \in Nat /\ id < next

AckedIsKept ==
  /\ Remembers(ring, nextId, acked) /\ Remembers(disk.items, disk.next, acked)
  /\ \A f \in Flushers :
       flushing[f] # NoCopy => Remembers(flushing[f].items, flushing[f].next, acked)

\* What a handler is about to acknowledge.
PromiseIsKept ==
  call.at = "flushing" /\ call.req.op = "read" =>
    /\ Remembers(ring, nextId, call.req.ids)
    /\ flushing["handler"] # NoCopy =>
         Remembers(flushing["handler"].items, flushing["handler"].next, call.req.ids)

\* Only the handler of the call under way flushes, and only its lane polls.
CallFits ==
  /\ flushing["handler"] # NoCopy => call.at = "flushing"
  /\ polls["lane"].served => call.at = "polling"

IInv ==
  /\ Typed /\ OneFlush /\ CopyIsCurrent /\ CleanIsOnDisk /\ IdsAreHandedOut
  /\ AckedIsKept /\ PromiseIsKept /\ CallFits

-----------------------------------------------------------------------------
(* What the operations make of a list. *)

LEMMA NoCopyIsNone == NoCopy \notin Copies
BY DEF NoCopy, Copies

\* The ring after a notification: the new one, last, and some of the old ones.
LEMMA AppendIs ==
  ASSUME NEW items \in Seq(Notifications), NEW new \in Notifications
  PROVE  LET after == Append(pop_front(Keeps(items, new)), new) IN
         /\ after \in Seq(Notifications)
         /\ \A i \in 1 .. Len(after) :
              after[i] = new \/ \E j \in 1 .. Len(items) : after[i] = items[j]
<1> DEFINE T == {old \in ToSet(items) : ~replaced_by(old, new)}
           remaining == retain(items, T)
<1>1. PICK f \in [1 .. Len(remaining) -> 1 .. Len(items)] :
        /\ remaining \in Seq(Notifications)
        /\ \A i \in 1 .. Len(remaining) : remaining[i] = items[f[i]]
  <2> HIDE DEF T
  <2> QED BY RetainIs
<1>2. Keeps(items, new) = remaining
  BY DEF Keeps
<1> HIDE DEF remaining
<1> DEFINE rest == pop_front(remaining)
<1>3. /\ rest \in Seq(Notifications)
      /\ \A i \in 1 .. Len(rest) : \E j \in 1 .. Len(remaining) : rest[i] = remaining[j]
  <2>1. CASE Len(remaining) = Capacity /\ remaining # <<>>
    <3>1. rest = Tail(remaining)
      BY <2>1 DEF pop_front
    <3>2. /\ Tail(remaining) \in Seq(Notifications) /\ Len(Tail(remaining)) = Len(remaining) - 1
          /\ \A i \in 1 .. Len(Tail(remaining)) : Tail(remaining)[i] = remaining[i + 1]
      BY <1>1, <2>1
    <3>3. \A i \in 1 .. Len(rest) : i + 1 \in 1 .. Len(remaining)
      BY <1>1, <3>1, <3>2
    <3> HIDE DEF rest
    <3> QED BY <3>1, <3>2, <3>3
  <2>2. CASE Len(remaining) # Capacity
    BY <2>2, <1>1 DEF pop_front
  <2>3. CASE remaining = <<>>
    <3>1. Len(remaining) = 0
      BY <2>3
    <3>2. Len(remaining) # Capacity
      BY <3>1, RingAssumption
    <3> QED BY <3>2, <1>1 DEF pop_front
  <2> QED BY <2>1, <2>2, <2>3
<1>4. \A i \in 1 .. Len(rest) : \E j \in 1 .. Len(items) : rest[i] = items[j]
  <2> HIDE DEF rest
  <2> QED BY SMTT(30), <1>1, <1>3
<1> DEFINE after == Append(rest, new)
<1>5. /\ after \in Seq(Notifications) /\ Len(after) = Len(rest) + 1
      /\ after[Len(rest) + 1] = new /\ \A i \in 1 .. Len(rest) : after[i] = rest[i]
  <2> HIDE DEF rest
  <2> QED BY <1>3
<1>6. \A i \in 1 .. Len(after) : i \in 1 .. Len(rest) \/ i = Len(rest) + 1
  <2> HIDE DEF rest, after
  <2> QED BY <1>3, <1>5
<1> HIDE DEF after
<1>7. /\ after \in Seq(Notifications)
      /\ \A i \in 1 .. Len(after) :
              after[i] = new \/ \E j \in 1 .. Len(items) : after[i] = items[j]
  BY <1>4, <1>5, <1>6
<1> QED BY <1>7, <1>2 DEF after

LEMMA MarkedReadIs ==
  ASSUME NEW items \in Seq(Notifications), NEW ids
  PROVE  /\ MarkedRead(items, ids) \in Seq(Notifications)
         /\ Len(MarkedRead(items, ids)) = Len(items)
         /\ \A i \in 1 .. Len(items) :
              /\ MarkedRead(items, ids)[i].id = items[i].id
              /\ items[i].read \/ items[i].id \in ids => MarkedRead(items, ids)[i].read
<1> DEFINE marked == MarkedRead(items, ids)
<1>1. Len(items) \in Nat /\ \A i \in 1 .. Len(items) : items[i] \in Notifications
  OBVIOUS
<1>2. marked = [i \in 1 .. Len(items) |->
                  [items[i] EXCEPT !.read = items[i].read \/ items[i].id \in ids]]
  BY DEF MarkedRead
<1>3. \A i \in 1 .. Len(items) :
        /\ marked[i] \in Notifications
        /\ marked[i].id = items[i].id
        /\ marked[i].read = (items[i].read \/ items[i].id \in ids)
  <2> HIDE DEF marked
  <2> SUFFICES ASSUME NEW i \in 1 .. Len(items)
               PROVE  /\ marked[i] \in Notifications
                      /\ marked[i].id = items[i].id
                      /\ marked[i].read = (items[i].read \/ items[i].id \in ids)
    OBVIOUS
  <2>1. items[i] \in Notifications
    BY <1>1
  <2>2. marked[i] = [items[i] EXCEPT !.read = items[i].read \/ items[i].id \in ids]
    BY <1>2
  <2>3. (items[i].read \/ items[i].id \in ids) \in BOOLEAN
    BY <2>1 DEF Notifications
  <2> QED BY <2>1, <2>2, <2>3 DEF Notifications
<1>4. marked \in Seq(Notifications) /\ Len(marked) = Len(items)
  <2>1. marked \in [1 .. Len(items) -> Notifications]
    BY <1>2, <1>3
  <2> HIDE DEF marked
  <2> QED BY <2>1, <1>1
<1> QED BY <1>3, <1>4

-----------------------------------------------------------------------------
(* Every action keeps the invariant. *)

\* An action that leaves the service and its files alone, and no handler's
\* call in the middle of a flush.
Elsewhere ==
  /\ UNCHANGED <<ring, nextId, dirty, flushing, disk, acked>>
  /\ call' = [at |-> call'.at, req |-> call'.req, answer |-> call'.answer]
  /\ polls' = [k \in Pollers |-> polls'[k]]
  /\ call' # call => call'.at # "flushing"
  /\ flushing["handler"] # NoCopy => call' = call
  /\ polls'["lane"].served => call'.at = "polling"

LEMMA ElsewhereKeeps == IInv /\ Elsewhere => IInv'
BY DEF Elsewhere, IInv, Typed, OneFlush, CopyIsCurrent, CleanIsOnDisk, IdsAreHandedOut,
       IdsBelow, AckedIsKept, Remembers, PromiseIsKept, CallFits

LEMMA InitInv == Init => IInv
<1> SUFFICES ASSUME Init PROVE IInv
  OBVIOUS
<1>1. ring \in Seq(Notifications)
      /\ \A i \in 1 .. Len(ring) : ring[i].id = i
  <2>1. CASE ring = <<>>
    BY <2>1
  <2>2. CASE ring # <<>>
    <3>1. PICK p \in Panes, kind \in Kinds, at \in Instants :
            ring = <<[id |-> 1, pane |-> p, kind |-> kind, at |-> at, read |-> FALSE]>>
      BY <2>2 DEF Init, Saved
    <3>2. [id |-> 1, pane |-> p, kind |-> kind, at |-> at, read |-> FALSE] \in Notifications
      BY DEF Notifications
    <3> QED BY <3>1, <3>2
  <2> QED BY <2>1, <2>2
<1>2. Len(ring) \in Nat /\ nextId = Len(ring) + 1
  BY <1>1 DEF Init
<1>3. /\ disk = [items |-> ring, next |-> nextId] /\ dirty = FALSE /\ acked = {}
      /\ flushing = [f \in Flushers |-> NoCopy] /\ call = Free
      /\ polls = [k \in Pollers |-> Quiet]
  BY DEF Init
<1>4. \A f \in Flushers : flushing[f] = NoCopy
  BY <1>3
<1>5. Typed
  <2>1. disk \in Copies /\ nextId \in Nat \ {0}
    BY <1>1, <1>2, <1>3 DEF Copies
  <2>2. flushing \in [Flushers -> Copies \cup {NoCopy}]
    BY <1>3
  <2>3. call = [at |-> call.at, req |-> call.req, answer |-> call.answer]
    BY <1>3 DEF Free
  <2>4. polls = [k \in Pollers |-> polls[k]]
    BY <1>3
  <2> QED BY <1>1, <1>3, <2>1, <2>2, <2>3, <2>4 DEF Typed
<1>6. IdsAreHandedOut
  BY <1>1, <1>2, <1>3, <1>4 DEF IdsAreHandedOut, IdsBelow, NoCopy
<1>7. AckedIsKept
  BY <1>3, <1>4 DEF AckedIsKept, Remembers
<1>8. PromiseIsKept /\ CallFits
  <2>1. call.at = "free" /\ ~polls["lane"].served
    BY <1>3 DEF Free, Quiet, Pollers
  <2> QED BY <2>1, <1>4 DEF PromiseIsKept, CallFits, Flushers
<1> QED
  BY <1>3, <1>4, <1>5, <1>6, <1>7, <1>8 DEF IInv, OneFlush, CopyIsCurrent, CleanIsOnDisk

LEMMA AppendKeeps ==
  ASSUME IInv, NEW p \in Panes, NEW kind \in Kinds, NEW at \in Instants,
         append_notification(p, kind, at)
  PROVE  IInv'
<1> DEFINE new == [id |-> nextId, pane |-> p, kind |-> kind, at |-> at, read |-> FALSE]
<1>1. /\ ring' = Append(pop_front(Keeps(ring, new)), new)
      /\ nextId' = nextId + 1 /\ dirty' = TRUE
      /\ UNCHANGED <<flushing, disk, call, polls, acked>>
  BY DEF append_notification, desktop, vars
<1>2. Typed
  BY DEF IInv
<1>3. new \in Notifications /\ new.id = nextId
  BY <1>2 DEF Notifications, Typed
<1>4. /\ ring' \in Seq(Notifications)
      /\ \A i \in 1 .. Len(ring') :
           ring'[i] = new \/ \E j \in 1 .. Len(ring) : ring'[i] = ring[j]
  BY <1>1, <1>2, <1>3, AppendIs DEF Typed
<1> HIDE DEF new
<1>5. Typed'
  BY <1>1, <1>2, <1>4 DEF Typed
<1>6. IdsBelow(ring', nextId')
  <2>1. \A j \in 1 .. Len(ring) : ring[j] \in Notifications /\ ring[j].id < nextId
    BY <1>2 DEF Typed, IInv, IdsAreHandedOut, IdsBelow
  <2>2. \A j \in 1 .. Len(ring) : ring[j].id \in Nat
    BY <2>1 DEF Notifications
  <2>3. nextId \in Nat /\ nextId' = nextId + 1
    BY <1>1, <1>2 DEF Typed
  <2>4. ASSUME NEW i \in 1 .. Len(ring') PROVE ring'[i].id < nextId'
    <3>1. CASE ring'[i] = new
      BY <3>1, <2>3, <1>3
    <3>2. CASE \E j \in 1 .. Len(ring) : ring'[i] = ring[j]
      <4>1. PICK j \in 1 .. Len(ring) : ring'[i] = ring[j]
        BY <3>2
      <4>2. ring[j].id \in Nat /\ ring[j].id < nextId
        BY <2>1, <2>2
      <4> QED BY <4>1, <4>2, <2>3
    <3> QED BY <3>1, <3>2, <1>4
  <2> QED BY <2>4 DEF IdsBelow
<1>7. ASSUME NEW ids, Remembers(ring, nextId, ids) PROVE Remembers(ring', nextId', ids)
  <2>1. nextId \notin ids
    BY <1>2, <1>7 DEF Remembers, Typed
  <2>2. \A i \in 1 .. Len(ring') : ring'[i].id \in ids => ring'[i].read
    BY <1>3, <1>4, <1>7, <2>1 DEF Remembers
  <2>3. \A id \in ids : id \in Nat /\ id < nextId'
    BY <1>1, <1>2, <1>7 DEF Remembers, Typed
  <2> QED BY <2>2, <2>3 DEF Remembers
<1>8. AckedIsKept'
  <2>1. Remembers(ring, nextId, acked)
    BY DEF IInv, AckedIsKept
  <2>2. Remembers(ring', nextId', acked)
    BY <2>1, <1>7
  <2> QED BY <1>1, <2>2 DEF IInv, AckedIsKept
<1>9. PromiseIsKept'
  BY <1>1, <1>7 DEF IInv, PromiseIsKept
<1> QED
  BY <1>1, <1>5, <1>6, <1>8, <1>9
     DEF IInv, OneFlush, CopyIsCurrent, CleanIsOnDisk, IdsAreHandedOut, CallFits

\* Whoever flushes takes a copy, or finds nothing to write.
LEMMA FlushTakesKeeps ==
  ASSUME IInv, NEW f \in Flushers, FlushTakes(f)
  PROVE  IInv'
<1>1. /\ \A g \in Flushers : flushing[g] = NoCopy
      /\ f = "handler" => call.at = "flushing"
      /\ UNCHANGED <<ring, nextId, disk, polls>>
  BY DEF FlushTakes, flush_lock
<1>2. CASE dirty
  <2>1. /\ dirty' = FALSE /\ UNCHANGED <<call, acked>>
        /\ flushing' = [flushing EXCEPT ![f] = [items |-> ring, next |-> nextId]]
    BY <1>2 DEF FlushTakes
  <2>2. /\ flushing'[f] = [items |-> ring, next |-> nextId]
        /\ \A g \in Flushers : g # f => flushing'[g] = NoCopy
        /\ flushing' \in [Flushers -> Copies \cup {NoCopy}]
        /\ flushing'[f] \in Copies
    BY <1>1, <2>1 DEF IInv, Typed, Copies
  <2>3. Typed' /\ OneFlush' /\ CopyIsCurrent' /\ CleanIsOnDisk'
    BY <1>1, <2>1, <2>2, NoCopyIsNone
       DEF IInv, Typed, OneFlush, CopyIsCurrent, CleanIsOnDisk
  <2>4. IdsAreHandedOut' /\ AckedIsKept'
    BY <1>1, <2>1, <2>2 DEF IInv, IdsAreHandedOut, IdsBelow, AckedIsKept, Remembers, NoCopy
  <2>5. PromiseIsKept' /\ CallFits'
    BY <1>1, <2>1, <2>2 DEF IInv, PromiseIsKept, Remembers, CallFits, Flushers
  <2> QED BY <2>3, <2>4, <2>5 DEF IInv
<1>3. CASE ~dirty
  <2>1. /\ f = "handler" /\ call' = [call EXCEPT !.at = "answered"]
        /\ acked' = IF call.req.op = "read" THEN acked \cup call.req.ids ELSE acked
        /\ UNCHANGED <<dirty, flushing>>
    BY <1>3 DEF FlushTakes, Flushed
  <2>2. disk = [items |-> ring, next |-> nextId]
    BY <1>1, <1>3 DEF IInv, CleanIsOnDisk
  <2>3. call'.at = "answered" /\ call' = [at |-> call'.at, req |-> call'.req, answer |-> call'.answer]
    BY <2>1 DEF IInv, Typed
  <2>4. Remembers(ring, nextId, acked')
    BY <1>1, <2>1 DEF IInv, AckedIsKept, PromiseIsKept, Remembers
  <2>5. AckedIsKept'
    BY <1>1, <2>1, <2>2, <2>4 DEF AckedIsKept
  <2>6. PromiseIsKept' /\ CallFits'
    BY <1>1, <2>1, <2>3 DEF IInv, PromiseIsKept, CallFits, Flushers
  <2> QED
    BY <1>1, <2>1, <2>3, <2>5, <2>6
       DEF IInv, Typed, OneFlush, CopyIsCurrent, CleanIsOnDisk, IdsAreHandedOut
<1> QED BY <1>2, <1>3 DEF IInv, Typed

LEMMA FlushWritesKeeps ==
  ASSUME IInv, NEW f \in Flushers, FlushWrites(f)
  PROVE  IInv'
<1>1. /\ flushing[f] # NoCopy /\ disk' = flushing[f]
      /\ flushing' = [flushing EXCEPT ![f] = NoCopy]
      /\ UNCHANGED <<ring, nextId, dirty, polls>>
  BY DEF FlushWrites, service
<1>2. \A g \in Flushers : flushing'[g] = NoCopy
  BY <1>1 DEF IInv, Typed, OneFlush
<1>3. flushing[f] \in Copies
  BY <1>1 DEF IInv, Typed
<1>4. IF f = "handler"
      THEN /\ call.at = "flushing" /\ call' = [call EXCEPT !.at = "answered"]
           /\ acked' = IF call.req.op = "read" THEN acked \cup call.req.ids ELSE acked
      ELSE UNCHANGED <<call, acked>>
  BY <1>1 DEF FlushWrites, Flushed, IInv, CallFits
<1>5. call' = [at |-> call'.at, req |-> call'.req, answer |-> call'.answer]
      /\ (call' # call => call'.at = "answered" /\ call.at = "flushing")
  BY <1>4 DEF IInv, Typed
<1>6. Typed' /\ OneFlush' /\ CopyIsCurrent'
  BY <1>1, <1>2, <1>3, <1>5 DEF IInv, Typed, OneFlush, CopyIsCurrent
<1>7. CleanIsOnDisk'
  BY <1>1 DEF IInv, CopyIsCurrent, CleanIsOnDisk
<1>8. IdsAreHandedOut'
  BY <1>1, <1>2 DEF IInv, IdsAreHandedOut, IdsBelow, NoCopy
<1>9. AckedIsKept'
  <2>1. Remembers(ring, nextId, acked') /\ Remembers(disk'.items, disk'.next, acked')
    BY <1>1, <1>4 DEF IInv, AckedIsKept, PromiseIsKept, Remembers
  <2> QED BY <1>1, <1>2, <2>1 DEF AckedIsKept
<1>10. PromiseIsKept' /\ CallFits'
  BY <1>1, <1>2, <1>5 DEF IInv, PromiseIsKept, Remembers, CallFits, Flushers
<1> QED BY <1>6, <1>7, <1>8, <1>9, <1>10 DEF IInv

\* A flush that failed leaves a dirty ring, and its handler acknowledges nothing.
LEMMA FlushFailsKeeps ==
  ASSUME IInv, NEW f \in Flushers, FlushFails(f)
  PROVE  IInv'
<1>1. /\ flushing[f] # NoCopy /\ dirty' = TRUE
      /\ flushing' = [flushing EXCEPT ![f] = NoCopy]
      /\ UNCHANGED <<ring, nextId, disk, polls, acked>>
  BY DEF FlushFails, Flushed
<1>2. \A g \in Flushers : flushing'[g] = NoCopy
  BY <1>1 DEF IInv, Typed, OneFlush
<1>3. IF f = "handler"
      THEN call.at = "flushing" /\ call' = [call EXCEPT !.at = "answered"]
      ELSE UNCHANGED call
  BY <1>1 DEF FlushFails, Flushed, IInv, CallFits
<1>4. call' = [at |-> call'.at, req |-> call'.req, answer |-> call'.answer]
      /\ (call' # call => call'.at = "answered" /\ call.at = "flushing")
  BY <1>3 DEF IInv, Typed
<1>5. Typed' /\ OneFlush' /\ CopyIsCurrent' /\ CleanIsOnDisk'
  BY <1>1, <1>2, <1>4 DEF IInv, Typed, OneFlush, CopyIsCurrent, CleanIsOnDisk
<1>6. IdsAreHandedOut' /\ AckedIsKept'
  BY <1>1, <1>2 DEF IInv, IdsAreHandedOut, IdsBelow, NoCopy, AckedIsKept
<1>7. PromiseIsKept' /\ CallFits'
  BY <1>1, <1>2, <1>4 DEF IInv, PromiseIsKept, Remembers, CallFits, Flushers
<1> QED BY <1>5, <1>6, <1>7 DEF IInv

\* The handler that marks promises what the ring then shows.
LEMMA MarkKeeps == IInv /\ mark_notifications_read => IInv'
<1> SUFFICES ASSUME IInv, mark_notifications_read PROVE IInv'
  OBVIOUS
<1> DEFINE asked == Head(lane).ids
           ids == asked \cap Ids(ring)
<1>1. /\ call.at = "free" /\ ring' = MarkedRead(ring, asked)
      /\ dirty' = (dirty \/ ring' # ring)
      /\ call' = [at |-> "flushing", answer |-> NoAnswer, req |-> [op |-> "read", ids |-> ids]]
      /\ UNCHANGED <<nextId, flushing, disk, polls, acked>>
  BY DEF mark_notifications_read, Serves
<1>2. Typed
  BY DEF IInv
<1>3. /\ ring' \in Seq(Notifications) /\ Len(ring') = Len(ring)
      /\ \A i \in 1 .. Len(ring) :
           /\ ring'[i].id = ring[i].id
           /\ ring[i].read \/ ring[i].id \in asked => ring'[i].read
  BY <1>1, <1>2, MarkedReadIs DEF Typed
<1>4. Ids(ring) = {ring[i].id : i \in 1 .. Len(ring)}
  BY DEF Ids
<1>5. ids \subseteq asked /\ \A id \in ids : id \in Nat /\ id < nextId
  <2>1. \A i \in 1 .. Len(ring) : ring[i] \in Notifications /\ ring[i].id < nextId
    BY <1>2 DEF Typed, IInv, IdsAreHandedOut, IdsBelow
  <2>2. \A i \in 1 .. Len(ring) : ring[i].id \in Nat
    BY <2>1 DEF Notifications
  <2> QED BY <1>4, <2>1, <2>2
<1>6. /\ call' = [at |-> call'.at, req |-> call'.req, answer |-> call'.answer]
      /\ call'.at = "flushing" /\ call'.req.ids = ids
  BY <1>1
<1> HIDE DEF ids, asked
<1>7. Typed' /\ OneFlush'
  BY <1>1, <1>2, <1>3, <1>6 DEF IInv, Typed, OneFlush
<1>8. CopyIsCurrent' /\ CleanIsOnDisk'
  BY <1>1, <1>2 DEF IInv, CopyIsCurrent, CleanIsOnDisk, Typed
<1>9. IdsAreHandedOut'
  BY <1>1, <1>3 DEF IInv, IdsAreHandedOut, IdsBelow
<1>10. AckedIsKept'
  BY <1>1, <1>3 DEF IInv, AckedIsKept, Remembers
<1>11. PromiseIsKept'
  <2>1. Remembers(ring', nextId', call'.req.ids)
    BY <1>1, <1>3, <1>5, <1>6 DEF Remembers
  <2>2. flushing'["handler"] = NoCopy
    BY <1>1 DEF IInv, CallFits
  <2> QED BY <2>1, <2>2 DEF PromiseIsKept
<1>12. CallFits'
  BY <1>1, <1>6 DEF IInv, CallFits
<1> QED BY <1>7, <1>8, <1>9, <1>10, <1>11, <1>12 DEF IInv

LEMMA ClearKeeps == IInv /\ clear_notifications => IInv'
<1> SUFFICES ASSUME IInv, clear_notifications PROVE IInv'
  OBVIOUS
<1>1. /\ call.at = "free" /\ Head(lane).op = "clear" /\ ring' = <<>>
      /\ dirty' = (dirty \/ ring # <<>>)
      /\ call' = [at |-> "flushing", req |-> Head(lane), answer |-> NoAnswer]
      /\ UNCHANGED <<nextId, flushing, disk, polls, acked>>
  BY DEF clear_notifications, Serves
<1>2. /\ call'.at = "flushing" /\ call'.req.op = "clear"
      /\ call' = [at |-> call'.at, req |-> call'.req, answer |-> call'.answer]
  BY <1>1
<1>3. ring' \in Seq(Notifications) /\ Len(ring') = 0
  BY <1>1
<1>4. Typed' /\ OneFlush' /\ CopyIsCurrent' /\ CleanIsOnDisk'
  BY <1>1, <1>2, <1>3 DEF IInv, Typed, OneFlush, CopyIsCurrent, CleanIsOnDisk
<1>5. IdsAreHandedOut' /\ AckedIsKept'
  BY <1>1, <1>3 DEF IInv, IdsAreHandedOut, IdsBelow, AckedIsKept, Remembers
<1>6. PromiseIsKept' /\ CallFits'
  BY <1>1, <1>2 DEF IInv, PromiseIsKept, CallFits
<1> QED BY <1>4, <1>5, <1>6 DEF IInv

\* The next process starts from the file, and no call is in the middle of a flush.
LEMMA CrashKeeps == IInv /\ Crashes => IInv'
<1> SUFFICES ASSUME IInv, Crashes PROVE IInv'
  OBVIOUS
<1>1. /\ ring' = disk.items /\ nextId' = disk.next /\ dirty' = FALSE
      /\ \A f \in Flushers : flushing'[f] = NoCopy
      /\ flushing' = [f \in Flushers |-> NoCopy]
      /\ UNCHANGED <<disk, polls, acked>>
  BY DEF Crashes
<1>2. /\ call' = [at |-> call'.at, req |-> call'.req, answer |-> call'.answer]
      /\ call'.at # "flushing" /\ (polls["lane"].served => call'.at = "polling")
  <2>1. call.at = "polling" => call.at # "flushing" /\ call.at # "free"
    OBVIOUS
  <2>2. ~Quiet.served
    BY DEF Quiet
  <2>3. CASE /\ call.at = "free"
             /\ call' = [at |-> "failed", req |-> Head(lane), answer |-> NoAnswer]
    BY <2>3 DEF IInv, CallFits
  <2>4. CASE call.at = "flushing" /\ call' = [call EXCEPT !.at = "failed"]
    BY <2>4 DEF IInv, Typed, CallFits
  <2>5. CASE call.at # "flushing" /\ call.at = "polling" /\ polls["lane"] = Quiet /\ call' = Free
    BY <2>2, <2>5 DEF Free
  <2>6. CASE call.at # "flushing" /\ call' = call
    BY <2>6 DEF IInv, Typed, CallFits
  <2> QED BY <2>3, <2>4, <2>5, <2>6 DEF Crashes
<1>3. disk = [items |-> disk.items, next |-> disk.next] /\ disk.items \in Seq(Notifications)
      /\ disk.next \in Nat \ {0}
  BY DEF IInv, Typed, Copies
<1>4. Typed' /\ OneFlush' /\ CopyIsCurrent' /\ CleanIsOnDisk'
  BY <1>1, <1>2, <1>3 DEF IInv, Typed, OneFlush, CopyIsCurrent, CleanIsOnDisk
<1>5. IdsAreHandedOut' /\ AckedIsKept'
  BY <1>1 DEF IInv, IdsAreHandedOut, IdsBelow, AckedIsKept, Remembers, NoCopy
<1>6. PromiseIsKept' /\ CallFits'
  BY <1>1, <1>2 DEF PromiseIsKept, CallFits, Flushers
<1> QED BY <1>4, <1>5, <1>6 DEF IInv

-----------------------------------------------------------------------------
LEMMA StepInv == IInv /\ [Next]_vars => IInv'
<1> SUFFICES ASSUME IInv, [Next]_vars PROVE IInv'
  OBVIOUS
<1>1. Typed /\ CallFits
  BY DEF IInv
<1>2. ASSUME GetNotificationsServed PROVE Elsewhere
  BY <1>1, <1>2 DEF GetNotificationsServed, Serves, service, Elsewhere, Typed, CallFits
<1>3. ASSUME NEW ids, MarksRead(ids) PROVE Elsewhere
  BY <1>1, <1>3 DEF MarksRead, service, Elsewhere, Typed, CallFits
<1>4. ASSUME ClearsList PROVE Elsewhere
  BY <1>1, <1>4 DEF ClearsList, service, Elsewhere, Typed, CallFits
<1>5. ASSUME AnswerApplied PROVE Elsewhere
  <2>1. call' = [Free EXCEPT !.at = "polling"] /\ UNCHANGED <<service, flushing, disk, polls, acked>>
    BY <1>5 DEF AnswerApplied
  <2>2. call.at # "flushing"
    BY <1>5 DEF AnswerApplied
  <2> QED BY <1>1, <2>1, <2>2 DEF service, Elsewhere, Typed, CallFits, Free
<1>6. ASSUME NEW k \in Pollers, PollServed(k) PROVE Elsewhere
  BY <1>1, <1>6 DEF PollServed, service, Elsewhere, Typed, CallFits, Pollers
<1>7. ASSUME NEW k \in Pollers, PollApplied(k) PROVE Elsewhere
  <2>1. /\ polls[k].served /\ polls' = [polls EXCEPT ![k] = Quiet]
        /\ call' = IF k = "lane" THEN Free ELSE call
        /\ UNCHANGED <<service, flushing, disk, acked>>
    BY <1>7 DEF PollApplied
  <2>2. ~Quiet.served
    BY DEF Quiet
  <2> QED BY <1>1, <2>1, <2>2 DEF service, Elsewhere, Typed, CallFits, Free, Pollers
<1>8. ASSUME UNCHANGED vars PROVE Elsewhere
  BY <1>1, <1>8 DEF vars, service, Elsewhere, Typed, CallFits
<1>9. CASE Flush
  BY <1>9, FlushTakesKeeps, FlushWritesKeeps, FlushFailsKeeps DEF Flush
<1>10. CASE \E p \in Panes, kind \in Kinds, at \in Instants : append_notification(p, kind, at)
  BY <1>10, AppendKeeps
<1>11. CASE Handler
  BY <1>2, <1>11, MarkKeeps, ClearKeeps, ElsewhereKeeps DEF Handler
<1>12. CASE User
  BY <1>3, <1>4, <1>12, ElsewhereKeeps DEF User
<1>13. CASE \E k \in Pollers : Poll(k)
  BY <1>6, <1>7, <1>13, ElsewhereKeeps DEF Poll
<1> QED
  BY <1>5, <1>8, <1>9, <1>10, <1>11, <1>12, <1>13, CrashKeeps, ElsewhereKeeps DEF Next

LEMMA Invariance == Spec => []IInv
BY InitInv, StepInv, PTL DEF Spec

\* flush_notifications: a ring that is not dirty, while nobody flushes, is the
\* ring on disk, for any interleaving of the tick, the handlers, failed writes
\* and crashes.
THEOREM CleanRingIsOnDisk == Spec => []CleanIsOnDisk
<1>1. IInv => CleanIsOnDisk
  BY DEF IInv
<1> QED BY <1>1, Invariance, PTL

\* mark_notifications_read: a reading that was saved and acknowledged is kept,
\* in memory and in the file, whatever is flushed, fails or crashes later.
THEOREM AckedReadingsSurvive == Spec => []AckedReadsSurvive
<1>1. IInv => AckedReadsSurvive
  <2> SUFFICES ASSUME IInv,
                      NEW n \in ToSet(ring) \cup ToSet(disk.items), n.id \in acked
               PROVE  n.read
    BY DEF AckedReadsSurvive
  <2>1. ring \in Seq(Notifications) /\ disk.items \in Seq(Notifications)
    BY DEF IInv, Typed, Copies
  <2>2. CASE n \in ToSet(ring)
    BY <2>1, <2>2 DEF ToSet, IInv, AckedIsKept, Remembers
  <2>3. CASE n \in ToSet(disk.items)
    BY <2>1, <2>3 DEF ToSet, IInv, AckedIsKept, Remembers
  <2> QED BY <2>2, <2>3
<1> QED BY <1>1, Invariance, PTL

-----------------------------------------------------------------------------
(* The two side by side, as MCPersistence checks them: a behaviour follows *)
(* one of them and leaves the other one alone.                             *)

LEMMA FollowsRing == MCFairSpec => Spec
<1>1. MCInit => Init
  BY DEF MCInit
<1>2. MCNext => [Next]_vars
  BY DEF MCNext, InRing, InLayout, Next
<1>3. UNCHANGED allVars => UNCHANGED vars
  BY DEF allVars
<1> QED BY <1>1, <1>2, <1>3, PTL DEF MCFairSpec, Spec

LEMMA FollowsLayout == MCFairSpec => Layout!Spec
<1>1. MCInit => Layout!Init
  BY DEF MCInit
<1>2. UNCHANGED savedVars => UNCHANGED Layout!vars
  BY DEF savedVars, Layout!vars, Layout!service, Layout!tmux, Layout!history
<1>3. ASSUME MCNext PROVE Layout!Next \/ UNCHANGED savedVars
  <2> DEFINE InRings ==
        \/ \E p \in Panes, kind \in Kinds, at \in Instants : InRing(append_notification(p, kind, at))
        \/ InRing(Crashes) \/ InRing(Flush) \/ InRing(Handler) \/ InRing(User)
        \/ InRing(AnswerApplied) \/ \E k \in Pollers : InRing(Poll(k))
  <2>1. CASE InRings
    BY <2>1 DEF InRing
  <2>2. CASE ~InRings
    <3>1. Layout!RecoveryStep => Layout!Next
      BY DEF Layout!Next
    <3>2. 1 \in Layout!Windows
      BY DEF Layout!Windows
    <3> HIDE DEF InRings
    <3> QED BY <1>3, <2>2, <3>1, <3>2 DEF InRings, MCNext, InLayout, Layout!Next, Layout!HandlerStep
  <2> QED BY <2>1, <2>2
<1>4. UNCHANGED allVars => UNCHANGED savedVars
  BY DEF allVars
<1> QED BY <1>1, <1>2, <1>3, <1>4, PTL DEF MCFairSpec, Layout!Spec

LEMMA LayoutAssumptions ==
  /\ Layout!BoundsAssumption /\ Layout!NamesAssumption /\ Layout!SwitchesAssumption
BY NobodyAssumption DEF Layout!BoundsAssumption, Layout!NamesAssumption, Layout!SwitchesAssumption

\* flush_notifications, in the checked composition.
THEOREM CleanRingIsOnDiskBeside == MCFairSpec => []CleanIsOnDisk
BY FollowsRing, CleanRingIsOnDisk, PTL

\* mark_notifications_read, in the checked composition.
THEOREM AckedReadingsSurviveBeside == MCFairSpec => []AckedReadsSurvive
BY FollowsRing, AckedReadingsSurvive, PTL

\* create_workspace_tab, in the checked composition: MAX_TABS_PER_WORKSPACE holds.
THEOREM TabLimitHolds == MCFairSpec => []TabLimit
<1>1. MCFairSpec => []Layout!TabLimit
  BY FollowsLayout, Layout!TabLimitHolds, LayoutAssumptions, PTL
<1> QED BY <1>1, PTL DEF TabLimit
=============================================================================
