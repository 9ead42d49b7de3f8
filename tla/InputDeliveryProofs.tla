------------------------- MODULE InputDeliveryProofs -------------------------
(***************************************************************************)
(* Proofs about InputDelivery for any number of terminals, keys, crashes   *)
(* and retries: the buffer counts exactly what it holds, no accepted key   *)
(* disappears, no key is typed twice, and certain keys keep their order.   *)
(*                                                                         *)
(* The argument follows a key.  It is held by the desktop in one place     *)
(* (HeldOnce); while it is queued, kept for a retry, or in flight and not  *)
(* yet written to the connection, neither a request nor a terminal has it  *)
(* (HeldIsUnsent, UnsentLeftNoTrace); once it is in a request it is in one *)
(* place of one (ServedOnce), and what that request has still to type no   *)
(* terminal has (RestIsUntyped).  A frame goes back to the user only when  *)
(* nothing of it was typed: an answer "unsent" finds its request untouched *)
(* (AwaitedIsInFlight).                                                    *)
(*                                                                         *)
(* The order (OrderInv) is a second invariant, on top of this one.         *)
(***************************************************************************)
EXTENDS InputDelivery, FiltersProofs, SequenceTheorems

Request == [pane : Panes, keys : Seq(Keys), done : 0 .. FrameKeys,
            answer : Outcomes \cup {"none"}, awaited : BOOLEAN]

\* No key is in two places of s.
Distinct(s) == \A m, n \in 1 .. Len(s) : s[m] = s[n] => m = n

\* No key is in two places of the frames.
Once(frames) ==
  /\ \A i \in 1 .. Len(frames) : Distinct(frames[i].keys)
  /\ \A i, j \in 1 .. Len(frames) :
       i # j => ToSet(frames[i].keys) \cap ToSet(frames[j].keys) = {}

Fits(frames) == \A i \in 1 .. Len(frames) : Len(frames[i].keys) <= FrameKeys

TypedKeys == UNION {ToSet(typed[p]) : p \in Panes}
ServedKeys == KeysOf(serving)
HeldKeys == KeysOf(queued) \cup KeysOf(recoverable)

LaneCalls ==
  /\ lane = "calling" <=> call # "none"
  /\ call # "none" <=> in_flight # NoFrame

FramesFit ==
  /\ Fits(queued) /\ Fits(recoverable)
  /\ in_flight # NoFrame => Len(in_flight.keys) <= FrameKeys

HeldOnce ==
  /\ Once(queued) /\ Once(recoverable) /\ KeysOf(queued) \cap KeysOf(recoverable) = {}
  /\ in_flight # NoFrame => Distinct(in_flight.keys)
  /\ InFlightKeys \cap HeldKeys = {}

\* The desktop's side.
HeldSide == LaneCalls /\ FramesFit /\ BufferedIsHeld /\ NoKeyIsLost /\ HeldOnce

ServedOnce == Fits(serving) /\ Once(serving)

\* The call whose keys and connection a request awaits.
Reading == call = "read" /\ conn = "open"

AwaitsOf(r, reading, keys, inFlight) ==
  IF r.awaited THEN reading /\ r.keys = keys ELSE ToSet(r.keys) \cap inFlight = {}

AwaitedIsInFlight ==
  /\ \A i \in 1 .. Len(serving) :
       AwaitsOf(serving[i], Reading, in_flight.keys, InFlightKeys)
  /\ \A i, j \in 1 .. Len(serving) : serving[i].awaited /\ serving[j].awaited => i = j

RestOf(r, T) ==
  /\ r.done <= Len(r.keys)
  /\ r.answer = "unsent" => r.done = 0
  /\ \A m \in 1 .. Len(r.keys) : m > r.done => r.keys[m] \notin T

RestIsUntyped == \A i \in 1 .. Len(serving) : RestOf(serving[i], TypedKeys)

TypedOnce ==
  /\ \A p \in Panes : Distinct(typed[p])
  /\ \A p, q \in Panes : p # q => ToSet(typed[p]) \cap ToSet(typed[q]) = {}

\* The service's side.
ServedSide == ServedOnce /\ AwaitedIsInFlight /\ RestIsUntyped /\ TypedOnce

HeldIsUnsent == HeldKeys \cap (ServedKeys \cup TypedKeys) = {}

UnsentLeftNoTrace ==
  call \in {"send", "resend"} => InFlightKeys \cap (ServedKeys \cup TypedKeys) = {}

SentWasEmitted == ServedKeys \cup TypedKeys \subseteq 1 .. emitted

Between == HeldIsUnsent /\ UnsentLeftNoTrace /\ SentWasEmitted

IInv == TypeOK /\ HeldSide /\ ServedSide /\ Between

-----------------------------------------------------------------------------
(* Lists and what they hold. *)

LEMMA Joined ==
  ASSUME NEW S, NEW a \in Seq(S), NEW b \in Seq(S)
  PROVE  /\ a \o b \in Seq(S) /\ Len(a \o b) = Len(a) + Len(b)
         /\ Len(a) \in Nat /\ Len(b) \in Nat
         /\ \A i \in 1 .. Len(a) : i \in 1 .. Len(a \o b) /\ (a \o b)[i] = a[i]
         /\ \A i \in 1 .. Len(b) : Len(a) + i \in 1 .. Len(a \o b)
                                  /\ (a \o b)[Len(a) + i] = b[i]
         /\ \A k \in 1 .. Len(a \o b) :
              k \in 1 .. Len(a) \/ \E i \in 1 .. Len(b) : k = Len(a) + i
<1>1. \A k \in 1 .. Len(a \o b) :
        k \in 1 .. Len(a) \/ (k - Len(a) \in 1 .. Len(b) /\ k = Len(a) + (k - Len(a)))
  OBVIOUS
<1> QED BY SMTT(30), <1>1

LEMMA JoinedPart ==
  ASSUME NEW S, NEW a \in Seq(S), NEW b \in Seq(S), NEW k \in 1 .. Len(a \o b)
  PROVE  \/ k \in 1 .. Len(a) /\ (a \o b)[k] = a[k]
         \/ \E i \in 1 .. Len(b) : k = Len(a) + i /\ (a \o b)[k] = b[i]
<1>1. CASE k \in 1 .. Len(a)
  BY <1>1, Joined
<1>2. CASE \E i \in 1 .. Len(b) : k = Len(a) + i
  <2>1. PICK i \in 1 .. Len(b) : k = Len(a) + i
    BY <1>2
  <2>2. (a \o b)[k] = b[i]
    BY <2>1, Joined
  <2> QED BY <2>1, <2>2
<1> QED BY <1>1, <1>2, Joined

LEMMA OneElement ==
  ASSUME NEW S, NEW x \in S
  PROVE  <<x>> \in Seq(S) /\ Len(<<x>>) = 1 /\ <<x>>[1] = x
OBVIOUS

LEMMA AppendIsJoin ==
  ASSUME NEW S, NEW s \in Seq(S), NEW x \in S
  PROVE  Append(s, x) = s \o <<x>>
OBVIOUS

LEMMA HeadAndTail ==
  ASSUME NEW S, NEW s \in Seq(S), s # <<>>
  PROVE  Head(s) \in S /\ Tail(s) \in Seq(S) /\ s = <<Head(s)>> \o Tail(s)
OBVIOUS

\* A list that is not empty, and the list with its last element replaced.
Ending(s, x) == [s EXCEPT ![Len(s)] = x]

Rest(s) == [i \in 1 .. Len(s) - 1 |-> s[i]]

LEMMA RestIs ==
  ASSUME NEW S, NEW s \in Seq(S), s # <<>>
  PROVE  /\ Rest(s) \in Seq(S) /\ Len(Rest(s)) = Len(s) - 1
         /\ \A i \in 1 .. Len(s) - 1 : Rest(s)[i] = s[i]
BY DEF Rest

LEMMA LastReplaced ==
  ASSUME NEW S, NEW s \in Seq(S), s # <<>>, NEW x \in S
  PROVE  /\ s[Len(s)] \in S /\ Rest(s) \in Seq(S)
         /\ s = Append(Rest(s), s[Len(s)]) /\ Ending(s, x) = Append(Rest(s), x)
<1> DEFINE n == Len(s)  r == Rest(s)
<1>1. n \in Nat /\ n > 0 /\ s[n] \in S
  OBVIOUS
<1>2. r \in Seq(S) /\ Len(r) = n - 1 /\ \A i \in 1 .. n - 1 : r[i] = s[i]
  BY RestIs
<1> HIDE DEF r
<1>3. ASSUME NEW y \in S, NEW u \in Seq(S), Len(u) = n, u[n] = y,
             \A i \in 1 .. n - 1 : u[i] = s[i]
      PROVE  u = Append(r, y)
  <2>1. /\ Append(r, y) \in Seq(S) /\ Len(Append(r, y)) = n
        /\ Append(r, y)[n] = y /\ \A i \in 1 .. n - 1 : Append(r, y)[i] = s[i]
    BY <1>1, <1>2
  <2>2. \A i \in 1 .. n : u[i] = Append(r, y)[i]
    BY <1>1, <1>3, <2>1
  <2> QED BY <1>3, <2>1, <2>2, SeqEqual
<1>4. s = Append(r, s[n])
  BY <1>1, <1>3
<1>5. PICK t : t = Ending(s, x)
  OBVIOUS
<1>6. /\ t \in Seq(S) /\ Len(t) = n /\ t[n] = x /\ \A i \in 1 .. n - 1 : t[i] = s[i]
  BY <1>1, <1>5 DEF Ending
<1>7. t = Append(r, x)
  BY <1>3, <1>6
<1>8. Ending(s, x) = Append(r, x)
  BY <1>5, <1>7
<1> QED BY <1>1, <1>2, <1>4, <1>8 DEF r

LEMMA ToSetIs ==
  ASSUME NEW S, NEW s \in Seq(S)
  PROVE  /\ ToSet(s) \subseteq S
         /\ \A k : k \in ToSet(s) <=> \E m \in 1 .. Len(s) : s[m] = k
BY DEF ToSet

LEMMA ToSetJoin ==
  ASSUME NEW S, NEW a \in Seq(S), NEW b \in Seq(S)
  PROVE  ToSet(a \o b) = ToSet(a) \cup ToSet(b)
<1>1. a \o b \in Seq(S)
  BY Joined
<1>2. /\ \A k : k \in ToSet(a) <=> \E m \in 1 .. Len(a) : a[m] = k
      /\ \A k : k \in ToSet(b) <=> \E m \in 1 .. Len(b) : b[m] = k
      /\ \A k : k \in ToSet(a \o b) <=> \E m \in 1 .. Len(a \o b) : (a \o b)[m] = k
  BY <1>1, ToSetIs
<1>3. ASSUME NEW k, k \in ToSet(a \o b) PROVE k \in ToSet(a) \cup ToSet(b)
  <2>1. PICK m \in 1 .. Len(a \o b) : (a \o b)[m] = k
    BY <1>2, <1>3
  <2>2. m \in 1 .. Len(a) \/ \E i \in 1 .. Len(b) : m = Len(a) + i
    BY Joined
  <2> QED BY <2>1, <2>2, <1>2, Joined
<1>4. ASSUME NEW k, k \in ToSet(a) \cup ToSet(b) PROVE k \in ToSet(a \o b)
  <2>1. CASE k \in ToSet(a)
    <3>1. PICK m \in 1 .. Len(a) : a[m] = k
      BY <1>2, <2>1
    <3>2. m \in 1 .. Len(a \o b) /\ (a \o b)[m] = k
      BY <3>1, Joined
    <3> QED BY <3>2, <1>2
  <2>2. CASE k \in ToSet(b)
    <3>1. PICK m \in 1 .. Len(b) : b[m] = k
      BY <1>2, <2>2
    <3>2. Len(a) + m \in 1 .. Len(a \o b) /\ (a \o b)[Len(a) + m] = k
      BY <3>1, Joined
    <3> QED BY <3>2, <1>2
  <2> QED BY <1>4, <2>1, <2>2
<1> QED BY <1>3, <1>4

LEMMA DistinctJoin ==
  ASSUME NEW S, NEW a \in Seq(S), NEW b \in Seq(S),
         Distinct(a), Distinct(b), ToSet(a) \cap ToSet(b) = {}
  PROVE  Distinct(a \o b)
<1> SUFFICES ASSUME NEW m \in 1 .. Len(a \o b), NEW n \in 1 .. Len(a \o b),
                    (a \o b)[m] = (a \o b)[n]
             PROVE  m = n
  BY DEF Distinct
<1>1. \A i \in 1 .. Len(a), j \in 1 .. Len(b) : a[i] # b[j]
  BY ToSetIs
<1>2. m \in 1 .. Len(a) \/ \E i \in 1 .. Len(b) : m = Len(a) + i
  BY Joined
<1>3. n \in 1 .. Len(a) \/ \E i \in 1 .. Len(b) : n = Len(a) + i
  BY Joined
<1>4. CASE m \in 1 .. Len(a) /\ n \in 1 .. Len(a)
  BY <1>4, Joined DEF Distinct
<1>5. CASE m \in 1 .. Len(a) /\ \E i \in 1 .. Len(b) : n = Len(a) + i
  BY <1>5, <1>1, Joined
<1>6. CASE n \in 1 .. Len(a) /\ \E i \in 1 .. Len(b) : m = Len(a) + i
  BY <1>6, <1>1, Joined
<1>7. ASSUME NEW i \in 1 .. Len(b), NEW j \in 1 .. Len(b), m = Len(a) + i, n = Len(a) + j
      PROVE  m = n
  BY <1>7, Joined DEF Distinct
<1> QED BY <1>2, <1>3, <1>4, <1>5, <1>6, <1>7

-----------------------------------------------------------------------------
(* Lists of frames: the keys they carry, and how many. *)

Carries(F) == \A f \in F : f.keys \in Seq(Keys)

LEMMA FramesCarry == Carries(Frame) /\ Carries(Request)
BY DEF Carries, Frame, Request

LEMMA KeysOfIs ==
  ASSUME NEW F, NEW s \in Seq(F), Carries(F)
  PROVE  /\ KeysOf(s) \subseteq Keys
         /\ \A k : k \in KeysOf(s) <=> \E i \in 1 .. Len(s) : k \in ToSet(s[i].keys)
<1>1. DOMAIN s = 1 .. Len(s) /\ \A i \in 1 .. Len(s) : s[i].keys \in Seq(Keys)
  BY DEF Carries
<1>2. \A i \in 1 .. Len(s) : ToSet(s[i].keys) \subseteq Keys
  BY <1>1, ToSetIs
<1> QED BY <1>1, <1>2 DEF KeysOf

LEMMA KeysOfNothing == KeysOf(<<>>) = {}
BY DEF KeysOf

LEMMA KeysOfOne ==
  ASSUME NEW F, NEW f \in F, Carries(F)
  PROVE  KeysOf(<<f>>) = ToSet(f.keys)
<1>1. <<f>> \in Seq(F) /\ Len(<<f>>) = 1 /\ <<f>>[1] = f /\ 1 .. 1 = {1}
  OBVIOUS
<1>2. \A k : k \in KeysOf(<<f>>) <=> k \in ToSet(f.keys)
  BY <1>1, KeysOfIs
<1> QED BY <1>2

LEMMA KeysOfJoin ==
  ASSUME NEW F, NEW a \in Seq(F), NEW b \in Seq(F), Carries(F)
  PROVE  KeysOf(a \o b) = KeysOf(a) \cup KeysOf(b)
<1>1. a \o b \in Seq(F)
  BY Joined
<1>2. /\ \A k : k \in KeysOf(a) <=> \E i \in 1 .. Len(a) : k \in ToSet(a[i].keys)
      /\ \A k : k \in KeysOf(b) <=> \E i \in 1 .. Len(b) : k \in ToSet(b[i].keys)
      /\ \A k : k \in KeysOf(a \o b) <=>
                  \E i \in 1 .. Len(a \o b) : k \in ToSet((a \o b)[i].keys)
  BY <1>1, KeysOfIs
<1>3. ASSUME NEW k, k \in KeysOf(a \o b) PROVE k \in KeysOf(a) \cup KeysOf(b)
  <2>1. PICK i \in 1 .. Len(a \o b) : k \in ToSet((a \o b)[i].keys)
    BY <1>2, <1>3
  <2>2. CASE i \in 1 .. Len(a) /\ (a \o b)[i] = a[i]
    BY <2>1, <2>2, <1>2
  <2>3. CASE \E j \in 1 .. Len(b) : i = Len(a) + j /\ (a \o b)[i] = b[j]
    BY <2>1, <2>3, <1>2
  <2> QED BY <2>2, <2>3, JoinedPart
<1>4. ASSUME NEW k, k \in KeysOf(a) PROVE k \in KeysOf(a \o b)
  <2>1. PICK i \in 1 .. Len(a) : k \in ToSet(a[i].keys)
    BY <1>2, <1>4
  <2>2. i \in 1 .. Len(a \o b) /\ (a \o b)[i] = a[i]
    BY Joined
  <2> QED BY <2>1, <2>2, <1>2
<1>5. ASSUME NEW k, k \in KeysOf(b) PROVE k \in KeysOf(a \o b)
  <2>1. PICK i \in 1 .. Len(b) : k \in ToSet(b[i].keys)
    BY <1>2, <1>5
  <2>2. Len(a) + i \in 1 .. Len(a \o b) /\ (a \o b)[Len(a) + i] = b[i]
    BY Joined
  <2> QED BY <2>1, <2>2, <1>2
<1> QED BY <1>3, <1>4, <1>5

LEMMA FitsJoin ==
  ASSUME NEW F, NEW a \in Seq(F), NEW b \in Seq(F)
  PROVE  Fits(a \o b) <=> Fits(a) /\ Fits(b)
<1>1. ASSUME Fits(a \o b) PROVE Fits(a) /\ Fits(b)
  <2>1. \A i \in 1 .. Len(a) : Len(a[i].keys) <= FrameKeys
    BY <1>1, Joined DEF Fits
  <2>2. ASSUME NEW i \in 1 .. Len(b) PROVE Len(b[i].keys) <= FrameKeys
    <3>1. Len(a) + i \in 1 .. Len(a \o b) /\ (a \o b)[Len(a) + i] = b[i]
      BY Joined
    <3> QED BY <3>1, <1>1 DEF Fits
  <2> QED BY <2>1, <2>2 DEF Fits
<1>2. ASSUME Fits(a), Fits(b) PROVE Fits(a \o b)
  <2> SUFFICES ASSUME NEW k \in 1 .. Len(a \o b)
               PROVE  Len((a \o b)[k].keys) <= FrameKeys
    BY DEF Fits
  <2>1. k \in 1 .. Len(a) \/ \E i \in 1 .. Len(b) : k = Len(a) + i
    BY Joined
  <2> QED BY <2>1, <1>2, Joined DEF Fits
<1> QED BY <1>1, <1>2

LEMMA FitsOne ==
  ASSUME NEW F, NEW f \in F
  PROVE  Fits(<<f>>) <=> Len(f.keys) <= FrameKeys
<1>1. Len(<<f>>) = 1 /\ <<f>>[1] = f /\ 1 .. 1 = {1}
  OBVIOUS
<1> QED BY <1>1 DEF Fits

LEMMA OnceOne ==
  ASSUME NEW F, NEW f \in F
  PROVE  Once(<<f>>) <=> Distinct(f.keys)
<1>1. Len(<<f>>) = 1 /\ <<f>>[1] = f /\ 1 .. 1 = {1}
  OBVIOUS
<1> QED BY <1>1 DEF Once

LEMMA OnceJoin ==
  ASSUME NEW F, NEW a \in Seq(F), NEW b \in Seq(F), Carries(F)
  PROVE  Once(a \o b) <=> Once(a) /\ Once(b) /\ KeysOf(a) \cap KeysOf(b) = {}
<1>1. /\ \A k : k \in KeysOf(a) <=> \E i \in 1 .. Len(a) : k \in ToSet(a[i].keys)
      /\ \A k : k \in KeysOf(b) <=> \E i \in 1 .. Len(b) : k \in ToSet(b[i].keys)
  BY KeysOfIs
<1>2. ASSUME Once(a \o b) PROVE Once(a)
  <2>1. \A i \in 1 .. Len(a) : i \in 1 .. Len(a \o b) /\ (a \o b)[i] = a[i]
    BY Joined
  <2> QED BY <2>1, <1>2 DEF Once
<1>3. ASSUME Once(a \o b) PROVE Once(b)
  <2>1. \A i \in 1 .. Len(b) : Len(a) + i \in 1 .. Len(a \o b) /\ (a \o b)[Len(a) + i] = b[i]
    BY Joined
  <2>2. \A i, j \in 1 .. Len(b) : i # j => Len(a) + i # Len(a) + j
    BY Joined
  <2> QED BY <2>1, <2>2, <1>3 DEF Once
<1>4. ASSUME Once(a \o b), NEW k, k \in KeysOf(a), k \in KeysOf(b) PROVE FALSE
  <2>1. PICK i \in 1 .. Len(a) : k \in ToSet(a[i].keys)
    BY <1>1, <1>4
  <2>2. PICK j \in 1 .. Len(b) : k \in ToSet(b[j].keys)
    BY <1>1, <1>4
  <2>3. /\ i \in 1 .. Len(a \o b) /\ (a \o b)[i] = a[i]
        /\ Len(a) + j \in 1 .. Len(a \o b) /\ (a \o b)[Len(a) + j] = b[j]
    BY Joined
  <2>4. i # Len(a) + j
    BY Joined
  <2> QED BY <2>1, <2>2, <2>3, <2>4, <1>4 DEF Once
<1>5. ASSUME Once(a), Once(b), KeysOf(a) \cap KeysOf(b) = {} PROVE Once(a \o b)
  <2>1. \A i \in 1 .. Len(a), j \in 1 .. Len(b) : ToSet(a[i].keys) \cap ToSet(b[j].keys) = {}
    BY <1>1, <1>5
  <2>2. ASSUME NEW k \in 1 .. Len(a \o b) PROVE Distinct((a \o b)[k].keys)
    <3>1. k \in 1 .. Len(a) \/ \E i \in 1 .. Len(b) : k = Len(a) + i
      BY Joined
    <3> QED BY SMTT(30), <3>1, <1>5, Joined DEF Once
  <2>3. ASSUME NEW k \in 1 .. Len(a \o b), NEW l \in 1 .. Len(a \o b), k # l
        PROVE  ToSet((a \o b)[k].keys) \cap ToSet((a \o b)[l].keys) = {}
    <3> DEFINE x == (a \o b)[k]  y == (a \o b)[l]
    <3>0. /\ \A i, j \in 1 .. Len(a) : i # j => ToSet(a[i].keys) \cap ToSet(a[j].keys) = {}
          /\ \A i, j \in 1 .. Len(b) : i # j => ToSet(b[i].keys) \cap ToSet(b[j].keys) = {}
      BY <1>5 DEF Once
    <3>1. \/ k \in 1 .. Len(a) /\ x = a[k]
          \/ \E i \in 1 .. Len(b) : k = Len(a) + i /\ x = b[i]
      BY JoinedPart
    <3>2. \/ l \in 1 .. Len(a) /\ y = a[l]
          \/ \E i \in 1 .. Len(b) : l = Len(a) + i /\ y = b[i]
      BY JoinedPart
    <3> SUFFICES ToSet(x.keys) \cap ToSet(y.keys) = {}
      OBVIOUS
    <3> HIDE DEF x, y
    <3>3. CASE k \in 1 .. Len(a) /\ x = a[k] /\ l \in 1 .. Len(a) /\ y = a[l]
      BY <3>0, <3>3, <2>3
    <3>4. CASE k \in 1 .. Len(a) /\ x = a[k]
      BY <3>0, <3>2, <3>3, <3>4, <2>1
    <3>5. CASE l \in 1 .. Len(a) /\ y = a[l]
      BY <3>0, <3>1, <3>3, <3>5, <2>1
    <3>6. ASSUME NEW i \in 1 .. Len(b), NEW j \in 1 .. Len(b),
                 k = Len(a) + i, x = b[i], l = Len(a) + j, y = b[j]
          PROVE  ToSet(x.keys) \cap ToSet(y.keys) = {}
      <4>1. i # j
        BY <3>6, <2>3
      <4>2. ToSet(b[i].keys) \cap ToSet(b[j].keys) = {}
        BY <4>1, <3>0
      <4> QED BY <4>2, <3>6
    <3> QED BY <3>1, <3>2, <3>4, <3>5, <3>6
  <2> QED BY <2>2, <2>3 DEF Once
<1>6. ASSUME Once(a \o b) PROVE KeysOf(a) \cap KeysOf(b) = {}
  BY <1>4, <1>6
<1> QED BY <1>2, <1>3, <1>5, <1>6

\* The recursive function of `SizeOf` exists.
Sizing(frames, size) ==
  size = [n \in 0 .. Len(frames) |->
            IF n = 0 THEN 0 ELSE size[n - 1] + Len(frames[n].keys)]

LEMMA SizingExists ==
  ASSUME NEW F, NEW s \in Seq(F), Carries(F)
  PROVE  \E size : Sizing(s, size)
<1> DEFINE Upto(m, g) ==
      g = [n \in 0 .. m |-> IF n = 0 THEN 0 ELSE g[n - 1] + Len(s[n].keys)]
    Good == {m \in Nat : \E g : Upto(m, g)}
<1>1. 0 \in Good
  <2> DEFINE g == [n \in 0 .. 0 |-> 0]
  <2>1. Upto(0, g)
    OBVIOUS
  <2> QED BY <2>1
<1>2. ASSUME NEW m \in Nat, m \in Good PROVE m + 1 \in Good
  <2>1. PICK g : Upto(m, g)
    BY <1>2
  <2> DEFINE h == [n \in 0 .. m + 1 |->
                     IF n = m + 1 THEN g[n - 1] + Len(s[n].keys) ELSE g[n]]
  <2>2. \A n \in 0 .. m : h[n] = g[n]
    OBVIOUS
  <2>3. h[m + 1] = h[m] + Len(s[m + 1].keys)
    <3>1. m + 1 \in 0 .. m + 1 /\ m \in 0 .. m /\ (m + 1) - 1 = m
      OBVIOUS
    <3> QED BY <3>1, <2>2
  <2>4. h = [n \in 0 .. m + 1 |-> h[n]]
    OBVIOUS
  <2>5. \A n \in 0 .. m : g[n] = IF n = 0 THEN 0 ELSE g[n - 1] + Len(s[n].keys)
    <3> HIDE DEF h
    <3> QED BY <2>1
  <2> HIDE DEF h, Upto
  <2>6. \A n \in 0 .. m + 1 : h[n] = IF n = 0 THEN 0 ELSE h[n - 1] + Len(s[n].keys)
    <3>1. ASSUME NEW n \in 0 .. m
          PROVE  h[n] = IF n = 0 THEN 0 ELSE h[n - 1] + Len(s[n].keys)
      <4>1. CASE n = 0
        BY <4>1, <2>2, <2>5
      <4>2. CASE n # 0
        <5>1. n - 1 \in 0 .. m
          BY <4>2
        <5> QED BY <4>2, <5>1, <2>2, <2>5
      <4> QED BY <4>1, <4>2
    <3>2. (m + 1) # 0 /\ (m + 1) - 1 = m
      OBVIOUS
    <3>3. \A n \in 0 .. m + 1 : n \in 0 .. m \/ n = m + 1
      OBVIOUS
    <3> QED BY <3>1, <3>2, <3>3, <2>3
  <2>7. Upto(m + 1, h)
    BY <2>4, <2>6 DEF Upto
  <2> QED BY <2>7
<1>3. Len(s) \in Good
  <2>1. Len(s) \in Nat
    OBVIOUS
  <2> HIDE DEF Good
  <2> QED BY <1>1, <1>2, <2>1, SetInduction
<1>4. PICK g : Upto(Len(s), g)
  BY <1>3
<1> QED BY <1>4 DEF Sizing

LEMMA SizeIs ==
  ASSUME NEW F, NEW s \in Seq(F), Carries(F)
  PROVE  \E size :
           /\ SizeOf(s) = size[Len(s)] /\ size[0] = 0
           /\ \A n \in 1 .. Len(s) : size[n] = size[n - 1] + Len(s[n].keys)
           /\ \A n \in 0 .. Len(s) : size[n] \in Nat
<1> DEFINE size == CHOOSE g : Sizing(s, g)
<1>1. Sizing(s, size)
  BY SizingExists
<1>2. SizeOf(s) = size[Len(s)]
  BY DEF SizeOf, Sizing
<1> HIDE DEF size
<1>3. size[0] = 0 /\ \A n \in 1 .. Len(s) : size[n] = size[n - 1] + Len(s[n].keys)
  BY <1>1 DEF Sizing
<1> DEFINE Good == {n \in Nat : n <= Len(s) => size[n] \in Nat}
<1>4. 0 \in Good
  BY <1>3
<1>5. ASSUME NEW n \in Nat, n \in Good PROVE n + 1 \in Good
  <2>1. CASE n + 1 <= Len(s)
    <3>1. n + 1 \in 1 .. Len(s) /\ (n + 1) - 1 = n /\ size[n] \in Nat
      BY <2>1, <1>5
    <3>2. Len(s[n + 1].keys) \in Nat
      BY <3>1 DEF Carries
    <3> QED BY <3>1, <3>2, <1>3
  <2> QED BY <2>1
<1>6. Nat \subseteq Good
  <2> HIDE DEF Good
  <2> QED BY <1>4, <1>5, SetInduction
<1>7. \A n \in 0 .. Len(s) : size[n] \in Nat
  BY <1>6
<1> QED BY <1>2, <1>3, <1>7

LEMMA SizeOfNothing == SizeOf(<<>>) = 0
<1>1. Carries({}) /\ <<>> \in Seq({}) /\ Len(<<>>) = 0
  BY DEF Carries
<1> QED BY <1>1, SizeIs

LEMMA SizeOfOne ==
  ASSUME NEW F, NEW f \in F, Carries(F)
  PROVE  SizeOf(<<f>>) = Len(f.keys)
<1>1. <<f>> \in Seq(F) /\ Len(<<f>>) = 1 /\ <<f>>[1] = f /\ 1 \in 1 .. 1 /\ 1 - 1 = 0
  OBVIOUS
<1>2. PICK size : SizeOf(<<f>>) = size[1] /\ size[0] = 0 /\ size[1] = size[0] + Len(f.keys)
  BY <1>1, SizeIs
<1>3. Len(f.keys) \in Nat
  BY DEF Carries
<1> QED BY <1>2, <1>3

LEMMA SizeOfJoin ==
  ASSUME NEW F, NEW a \in Seq(F), NEW b \in Seq(F), Carries(F)
  PROVE  /\ SizeOf(a) \in Nat /\ SizeOf(b) \in Nat
         /\ SizeOf(a \o b) = SizeOf(a) + SizeOf(b)
<1> DEFINE c == a \o b  m == Len(a)
<1>0. /\ c \in Seq(F) /\ Len(c) = m + Len(b) /\ m \in Nat /\ Len(b) \in Nat
      /\ \A i \in 1 .. m : c[i] = a[i]
      /\ \A i \in 1 .. Len(b) : c[m + i] = b[i]
  <2>1. c \in Seq(F) /\ Len(c) = m + Len(b) /\ m \in Nat /\ Len(b) \in Nat
    BY Joined
  <2>2. \A i \in 1 .. m : c[i] = a[i]
    BY Joined
  <2>3. \A i \in 1 .. Len(b) : c[m + i] = b[i]
    BY Joined
  <2> QED BY <2>1, <2>2, <2>3
<1> HIDE DEF c, m
<1>1. PICK x : /\ SizeOf(a) = x[m] /\ x[0] = 0
               /\ \A n \in 1 .. m : x[n] = x[n - 1] + Len(a[n].keys)
               /\ \A n \in 0 .. m : x[n] \in Nat
  BY SizeIs DEF m
<1>2. PICK y : /\ SizeOf(b) = y[Len(b)] /\ y[0] = 0
               /\ \A n \in 1 .. Len(b) : y[n] = y[n - 1] + Len(b[n].keys)
               /\ \A n \in 0 .. Len(b) : y[n] \in Nat
  BY SizeIs
<1>3. PICK z : /\ SizeOf(c) = z[Len(c)] /\ z[0] = 0
               /\ \A n \in 1 .. Len(c) : z[n] = z[n - 1] + Len(c[n].keys)
  BY ZenonT(60), <1>0, SizeIs
<1> DEFINE First == {n \in Nat : n <= m => z[n] = x[n]}
           Second == {n \in Nat : n <= Len(b) => z[m + n] = x[m] + y[n]}
<1>4. 0 \in First
  BY <1>1, <1>3
<1>5. ASSUME NEW n \in Nat, n \in First PROVE n + 1 \in First
  <2>1. CASE n + 1 <= m
    <3>1. n + 1 \in 1 .. m /\ n + 1 \in 1 .. Len(c) /\ (n + 1) - 1 = n /\ z[n] = x[n]
      BY <2>1, <1>0, <1>5
    <3>2. /\ z[n + 1] = z[n] + Len(c[n + 1].keys)
          /\ x[n + 1] = x[n] + Len(a[n + 1].keys) /\ c[n + 1] = a[n + 1]
      BY <3>1, <1>0, <1>1, <1>3
    <3> QED BY <3>1, <3>2
  <2> QED BY <2>1
<1>6. Nat \subseteq First
  <2> HIDE DEF First
  <2> QED BY <1>4, <1>5, SetInduction
<1>7. z[m] = x[m]
  BY <1>6, <1>0
<1>8. 0 \in Second
  BY <1>7, <1>0, <1>1, <1>2
<1>9. ASSUME NEW n \in Nat, n \in Second PROVE n + 1 \in Second
  <2>1. CASE n + 1 <= Len(b)
    <3>1. /\ n + 1 \in 1 .. Len(b) /\ m + n + 1 \in 1 .. Len(c) /\ (n + 1) - 1 = n
          /\ (m + n + 1) - 1 = m + n /\ m + (n + 1) = m + n + 1
          /\ z[m + n] = x[m] + y[n] /\ n \in 0 .. Len(b)
      BY <2>1, <1>0, <1>9
    <3>2. /\ z[m + n + 1] = z[m + n] + Len(c[m + n + 1].keys)
          /\ y[n + 1] = y[n] + Len(b[n + 1].keys) /\ c[m + n + 1] = b[n + 1]
      BY SMTT(30), <3>1, <1>0, <1>2, <1>3
    <3>3. x[m] \in Nat /\ y[n] \in Nat /\ Len(b[n + 1].keys) \in Nat
      <4>1. x[m] \in Nat /\ y[n] \in Nat
        BY SMTT(30), <3>1, <1>0, <1>1, <1>2
      <4>2. b[n + 1] \in F
        BY <3>1
      <4> QED BY <4>1, <4>2 DEF Carries
    <3>4. z[m + (n + 1)] = x[m] + y[n + 1]
      BY <3>1, <3>2, <3>3
    <3> QED BY <3>4
  <2> QED BY <2>1
<1>10. Nat \subseteq Second
  <2> HIDE DEF Second
  <2> QED BY <1>8, <1>9, SetInduction
<1>11. z[Len(c)] = x[m] + y[Len(b)]
  BY <1>10, <1>0
<1>12. x[m] \in Nat /\ y[Len(b)] \in Nat
  BY <1>0, <1>1, <1>2
<1> QED BY <1>1, <1>2, <1>3, <1>11, <1>12 DEF c

\* A list of frames with one more.
LEMMA OneMore ==
  ASSUME NEW F, NEW s \in Seq(F), NEW f \in F, Carries(F), NEW t, t = Append(s, f)
  PROVE  /\ t \in Seq(F)
         /\ KeysOf(t) = KeysOf(s) \cup ToSet(f.keys)
         /\ SizeOf(s) \in Nat /\ SizeOf(t) = SizeOf(s) + Len(f.keys)
         /\ Fits(t) <=> Fits(s) /\ Len(f.keys) <= FrameKeys
         /\ Once(t) <=>
              Once(s) /\ Distinct(f.keys) /\ KeysOf(s) \cap ToSet(f.keys) = {}
<1>1. <<f>> \in Seq(F) /\ Append(s, f) = s \o <<f>> /\ s \o <<f>> \in Seq(F)
  BY AppendIsJoin, Joined
<1>2. KeysOf(<<f>>) = ToSet(f.keys) /\ SizeOf(<<f>>) = Len(f.keys)
  BY KeysOfOne, SizeOfOne
<1>3. KeysOf(s \o <<f>>) = KeysOf(s) \cup ToSet(f.keys)
  <2>1. KeysOf(s \o <<f>>) = KeysOf(s) \cup KeysOf(<<f>>)
    BY <1>1, KeysOfJoin
  <2> QED BY <2>1, <1>2
<1>4. SizeOf(s) \in Nat /\ SizeOf(s \o <<f>>) = SizeOf(s) + Len(f.keys)
  BY <1>1, <1>2, SizeOfJoin
<1>5. Fits(s \o <<f>>) <=> Fits(s) /\ Len(f.keys) <= FrameKeys
  BY <1>1, FitsJoin, FitsOne
<1>6. Once(s \o <<f>>) <=> Once(s) /\ Distinct(f.keys) /\ KeysOf(s) \cap ToSet(f.keys) = {}
  BY <1>1, <1>2, OnceJoin, OnceOne
<1> QED BY <1>1, <1>3, <1>4, <1>5, <1>6

Extended(s, keys) == [s EXCEPT ![Len(s)].keys = @ \o keys]

LEMMA LastExtended ==
  ASSUME NEW s \in Seq(Frame), s # <<>>, NEW keys \in Seq(Keys),
         Fits(s), Once(s), Distinct(keys), ToSet(keys) \cap KeysOf(s) = {},
         Len(s[Len(s)].keys) + Len(keys) <= FrameKeys,
         NEW t, t = Extended(s, keys)
  PROVE  /\ t \in Seq(Frame) /\ Fits(t) /\ Once(t)
         /\ KeysOf(t) = KeysOf(s) \cup ToSet(keys)
         /\ SizeOf(t) = SizeOf(s) + Len(keys)
<1>1. PICK r : r = Rest(s)
  OBVIOUS
<1>2. PICK g : g = s[Len(s)]
  OBVIOUS
<1>3. PICK h : h = [g EXCEPT !.keys = g.keys \o keys]
  OBVIOUS
<1>4. g \in Frame /\ r \in Seq(Frame)
  BY <1>1, <1>2, RestIs
<1>5. g.keys \in Seq(Keys) /\ h \in Frame /\ h.keys = g.keys \o keys
  <2>1. g.keys \in Seq(Keys)
    BY <1>4 DEF Frame
  <2>2. g.keys \o keys \in Seq(Keys)
    BY <2>1
  <2> QED BY <2>1, <2>2, <1>3, <1>4 DEF Frame
<1>6. t = Ending(s, h)
  BY <1>2, <1>3 DEF Extended, Ending
<1>7. t = Append(r, h) /\ s = Append(r, g)
  BY <1>1, <1>2, <1>5, <1>6, LastReplaced
<1>8. Carries(Frame)
  BY FramesCarry
<1>9. /\ KeysOf(s) = KeysOf(r) \cup ToSet(g.keys)
      /\ SizeOf(r) \in Nat /\ SizeOf(s) = SizeOf(r) + Len(g.keys)
      /\ Fits(r)
      /\ Once(r) /\ Distinct(g.keys) /\ KeysOf(r) \cap ToSet(g.keys) = {}
  BY ZenonT(60), <1>4, <1>5, <1>7, <1>8, OneMore
<1>10. ToSet(h.keys) = ToSet(g.keys) \cup ToSet(keys)
  BY <1>5, ToSetJoin
<1>11. Distinct(h.keys)
  <2>1. ToSet(g.keys) \cap ToSet(keys) = {}
    BY <1>9
  <2> QED BY <2>1, <1>5, <1>9, DistinctJoin
<1>12. Len(h.keys) = Len(g.keys) + Len(keys) /\ Len(g.keys) \in Nat /\ Len(keys) \in Nat
  BY <1>5
<1>13. KeysOf(r) \cap ToSet(h.keys) = {} /\ Len(h.keys) <= FrameKeys
  BY <1>2, <1>9, <1>10, <1>12
<1>14. /\ t \in Seq(Frame)
       /\ KeysOf(t) = KeysOf(r) \cup ToSet(h.keys)
       /\ SizeOf(t) = SizeOf(r) + Len(h.keys)
       /\ Fits(t) <=> Fits(r) /\ Len(h.keys) <= FrameKeys
       /\ Once(t) <=> Once(r) /\ Distinct(h.keys) /\ KeysOf(r) \cap ToSet(h.keys) = {}
  BY <1>4, <1>5, <1>7, <1>8, OneMore
<1>15. SizeOf(t) = SizeOf(s) + Len(keys)
  BY <1>9, <1>12, <1>14
<1> QED BY <1>9, <1>10, <1>11, <1>13, <1>14, <1>15

\* The buffer's queue once new keys are appended, coalesced or not.
LEMMA AppendInputIs ==
  ASSUME NEW p \in Panes, NEW keys \in Seq(Keys), NEW t, t = AppendInput(p, keys),
         NEW s \in Seq(Frame), s = queued,
         Fits(s), Once(s), Distinct(keys), Len(keys) <= FrameKeys,
         ToSet(keys) \cap KeysOf(s) = {}
  PROVE  /\ t \in Seq(Frame) /\ Fits(t) /\ Once(t)
         /\ KeysOf(t) = KeysOf(s) \cup ToSet(keys)
         /\ SizeOf(t) = SizeOf(s) + Len(keys)
<1>1. CASE ~ Coalesces(p, Len(keys))
  <2>1. PICK f : f = [pane |-> p, keys |-> keys]
    OBVIOUS
  <2>2. f \in Frame /\ f.keys = keys
    BY <2>1 DEF Frame
  <2>3. t = Append(s, f)
    BY <1>1, <2>1 DEF AppendInput
  <2>4. /\ t \in Seq(Frame) /\ KeysOf(t) = KeysOf(s) \cup ToSet(f.keys)
        /\ SizeOf(t) = SizeOf(s) + Len(f.keys)
        /\ Fits(t) <=> Fits(s) /\ Len(f.keys) <= FrameKeys
        /\ Once(t) <=> Once(s) /\ Distinct(f.keys) /\ KeysOf(s) \cap ToSet(f.keys) = {}
    <3>1. Carries(Frame)
      BY FramesCarry
    <3> QED BY ZenonT(60), <3>1, <2>2, <2>3, OneMore
  <2> QED BY <2>2, <2>4
<1>2. CASE Coalesces(p, Len(keys))
  <2>1. s # <<>> /\ Len(s[Len(s)].keys) + Len(keys) <= FrameKeys
    BY <1>2 DEF Coalesces, Last
  <2>2. t = Extended(s, keys)
    BY <1>2 DEF AppendInput, Extended
  <2> QED BY <2>1, <2>2, LastExtended
<1> QED BY <1>1, <1>2

-----------------------------------------------------------------------------
(* The requests left once the handlers that are done have gone. *)

Kept(r) == r.awaited \/ r.answer = "none" \/ (r.pane \in PtyPanes /\ Unfinished(r))

LEMMA RemainingIs ==
  ASSUME NEW s \in Seq(Request)
  PROVE  \E f \in [1 .. Len(Remaining(s)) -> 1 .. Len(s)] :
           /\ Remaining(s) \in Seq(Request) /\ Len(Remaining(s)) \in Nat
           /\ \A k \in 1 .. Len(Remaining(s)) : Remaining(s)[k] = s[f[k]] /\ Kept(s[f[k]])
           /\ \A k, l \in 1 .. Len(Remaining(s)) : f[k] = f[l] => k = l
           /\ \A k, l \in 1 .. Len(Remaining(s)) : k < l => f[k] < f[l]
<1> DEFINE T == {r \in ToSet(s) : Kept(r)}  t == retain(s, T)
<1>1. Remaining(s) = t
  BY DEF Remaining, Kept
<1> HIDE DEF T
<1>2. PICK f \in [1 .. Len(t) -> 1 .. Len(s)] :
        /\ t \in Seq(Request)
        /\ \A i \in 1 .. Len(t) : t[i] = s[f[i]] /\ s[f[i]] \in T
        /\ \A i, j \in 1 .. Len(t) : i < j => f[i] < f[j]
  BY RetainIs
<1> HIDE DEF t
<1>3. \A k \in 1 .. Len(t) : Kept(s[f[k]])
  BY <1>2 DEF T
<1>4. ASSUME NEW k \in 1 .. Len(t), NEW l \in 1 .. Len(t), f[k] = f[l] PROVE k = l
  <2>1. Len(t) \in Nat /\ Len(s) \in Nat
    BY <1>2
  <2>2. f[k] \in Nat /\ f[l] \in Nat
    BY SMTT(30), <1>2, <2>1
  <2>3. ~ (k < l) /\ ~ (l < k)
    BY <1>2, <1>4, <2>2
  <2> QED BY <2>1, <2>3
<1>5. Len(t) \in Nat
  BY <1>2
<1> QED BY <1>1, <1>2, <1>3, <1>4, <1>5

Replaced(s, i, r) == Remaining([s EXCEPT ![i] = r])

\* f maps the requests in t to those they were in s, before the i-th became r.
Origins(s, i, r, t, f) ==
  /\ f \in [1 .. Len(t) -> 1 .. Len(s)] /\ t \in Seq(Request)
  /\ \A k \in 1 .. Len(t) : /\ t[k] = IF f[k] = i THEN r ELSE s[f[k]]
                            /\ f[k] = i => Kept(r)
  /\ \A k, l \in 1 .. Len(t) : f[k] = f[l] => k = l
  /\ \A k, l \in 1 .. Len(t) : k < l => f[k] < f[l]

LEMMA ReplacedIs ==
  ASSUME NEW s \in Seq(Request), NEW i \in 1 .. Len(s), NEW r \in Request,
         NEW t, t = Replaced(s, i, r)
  PROVE  \E f : Origins(s, i, r, t, f)
<1> DEFINE u == [s EXCEPT ![i] = r]
<1>1. /\ u \in Seq(Request) /\ Len(u) = Len(s)
      /\ \A k \in 1 .. Len(s) : u[k] = IF k = i THEN r ELSE s[k]
  OBVIOUS
<1>2. Replaced(s, i, r) = Remaining(u)
  BY DEF Replaced
<1> HIDE DEF u
<1>3. PICK f \in [1 .. Len(Remaining(u)) -> 1 .. Len(u)] :
        /\ Remaining(u) \in Seq(Request)
        /\ \A k \in 1 .. Len(Remaining(u)) : Remaining(u)[k] = u[f[k]] /\ Kept(u[f[k]])
        /\ \A k, l \in 1 .. Len(Remaining(u)) : f[k] = f[l] => k = l
        /\ \A k, l \in 1 .. Len(Remaining(u)) : k < l => f[k] < f[l]
  BY <1>1, RemainingIs
<1>4. t = Remaining(u)
  BY <1>2
<1>5. /\ f \in [1 .. Len(t) -> 1 .. Len(s)] /\ t \in Seq(Request)
      /\ \A k, l \in 1 .. Len(t) : f[k] = f[l] => k = l
      /\ \A k, l \in 1 .. Len(t) : k < l => f[k] < f[l]
  BY <1>1, <1>3, <1>4
<1>6. \A k \in 1 .. Len(t) :
        /\ t[k] = IF f[k] = i THEN r ELSE s[f[k]]
        /\ f[k] = i => Kept(r)
  <2>1. \A k \in 1 .. Len(t) : t[k] = u[f[k]] /\ Kept(u[f[k]])
    BY <1>3, <1>4
  <2>2. \A k \in 1 .. Len(t) : f[k] \in 1 .. Len(s)
    BY <1>5
  <2> QED BY <1>1, <2>1, <2>2
<1> QED BY <1>5, <1>6 DEF Origins

\* The keys of the requests after one changed: as before, or fewer.
LEMMA ReplacedKeys ==
  ASSUME NEW s \in Seq(Request), NEW i \in 1 .. Len(s), NEW r \in Request,
         r.keys = s[i].keys, Fits(s), Once(s), NEW t, t = Replaced(s, i, r)
  PROVE  /\ t \in Seq(Request) /\ Fits(t) /\ Once(t) /\ KeysOf(t) \subseteq KeysOf(s)
         /\ ~ Kept(r) => KeysOf(t) \cap ToSet(r.keys) = {}
<1>0. PICK f : Origins(s, i, r, t, f)
  BY ReplacedIs
<1>1. /\ f \in [1 .. Len(t) -> 1 .. Len(s)] /\ t \in Seq(Request)
      /\ \A k \in 1 .. Len(t) : /\ t[k] = IF f[k] = i THEN r ELSE s[f[k]]
                                /\ f[k] = i => Kept(r)
      /\ \A k, l \in 1 .. Len(t) : f[k] = f[l] => k = l
  BY <1>0 DEF Origins
<1>2. Carries(Request)
  BY FramesCarry
<1>3. \A k \in 1 .. Len(t) : f[k] \in 1 .. Len(s) /\ t[k].keys = s[f[k]].keys
  BY <1>1
<1>4. Fits(t)
  BY <1>3 DEF Fits
<1>5. Once(t)
  <2>1. \A k \in 1 .. Len(t) : Distinct(t[k].keys)
    BY <1>3 DEF Once
  <2>2. ASSUME NEW k \in 1 .. Len(t), NEW l \in 1 .. Len(t), k # l
        PROVE  ToSet(t[k].keys) \cap ToSet(t[l].keys) = {}
    <3>1. f[k] \in 1 .. Len(s) /\ f[l] \in 1 .. Len(s) /\ f[k] # f[l]
      BY <1>1, <2>2
    <3>2. ToSet(s[f[k]].keys) \cap ToSet(s[f[l]].keys) = {}
      BY <3>1 DEF Once
    <3> QED BY <1>3, <3>2
  <2> QED BY <2>1, <2>2 DEF Once
<1>6. /\ \A k : k \in KeysOf(t) <=> \E j \in 1 .. Len(t) : k \in ToSet(t[j].keys)
      /\ \A k : k \in KeysOf(s) <=> \E j \in 1 .. Len(s) : k \in ToSet(s[j].keys)
  BY <1>1, <1>2, KeysOfIs
<1>7. KeysOf(t) \subseteq KeysOf(s)
  BY <1>3, <1>6
<1>8. ASSUME ~ Kept(r), NEW k, k \in KeysOf(t), k \in ToSet(r.keys) PROVE FALSE
  <2>1. PICK j \in 1 .. Len(t) : k \in ToSet(t[j].keys)
    BY <1>6, <1>8
  <2>2. f[j] \in 1 .. Len(s) /\ f[j] # i
    BY <1>1, <1>8
  <2>3. k \in ToSet(s[f[j]].keys) /\ k \in ToSet(s[i].keys)
    BY <1>3, <1>8, <2>1
  <2> QED BY <2>2, <2>3 DEF Once
<1> QED BY <1>1, <1>4, <1>5, <1>7, <1>8

LEMMA ReplacedRests ==
  ASSUME NEW s \in Seq(Request), NEW i \in 1 .. Len(s), NEW r \in Request,
         NEW t, t = Replaced(s, i, r), NEW T, RestOf(r, T),
         \A k \in 1 .. Len(s) : k # i => RestOf(s[k], T)
  PROVE  \A k \in 1 .. Len(t) : RestOf(t[k], T)
<1>0. PICK f : Origins(s, i, r, t, f)
  BY ReplacedIs
<1>1. /\ f \in [1 .. Len(t) -> 1 .. Len(s)] /\ t \in Seq(Request)
      /\ \A k \in 1 .. Len(t) : /\ t[k] = IF f[k] = i THEN r ELSE s[f[k]]
                                /\ f[k] = i => Kept(r)
      /\ \A k, l \in 1 .. Len(t) : f[k] = f[l] => k = l
  BY <1>0 DEF Origins
<1>2. \A k \in 1 .. Len(t) : f[k] \in 1 .. Len(s)
  BY <1>1
<1> QED BY <1>1, <1>2

LEMMA ReplacedAwaits ==
  ASSUME NEW s \in Seq(Request), NEW i \in 1 .. Len(s), NEW r \in Request,
         NEW t, t = Replaced(s, i, r), NEW reading, NEW keys, NEW inFlight,
         AwaitsOf(r, reading, keys, inFlight), r.awaited => s[i].awaited,
         \A k \in 1 .. Len(s) : k # i => AwaitsOf(s[k], reading, keys, inFlight),
         \A k, l \in 1 .. Len(s) : s[k].awaited /\ s[l].awaited => k = l
  PROVE  /\ \A k \in 1 .. Len(t) : AwaitsOf(t[k], reading, keys, inFlight)
         /\ \A k, l \in 1 .. Len(t) : t[k].awaited /\ t[l].awaited => k = l
<1>0. PICK f : Origins(s, i, r, t, f)
  BY ReplacedIs
<1>1. /\ f \in [1 .. Len(t) -> 1 .. Len(s)] /\ t \in Seq(Request)
      /\ \A k \in 1 .. Len(t) : /\ t[k] = IF f[k] = i THEN r ELSE s[f[k]]
                                /\ f[k] = i => Kept(r)
      /\ \A k, l \in 1 .. Len(t) : f[k] = f[l] => k = l
  BY <1>0 DEF Origins
<1>2. \A k \in 1 .. Len(t) : f[k] \in 1 .. Len(s)
  BY <1>1
<1>3. \A k \in 1 .. Len(t) : t[k].awaited => s[f[k]].awaited
  BY <1>1, <1>2
<1>4. \A k \in 1 .. Len(t) : AwaitsOf(t[k], reading, keys, inFlight)
  BY <1>1, <1>2
<1>5. \A k, l \in 1 .. Len(t) : t[k].awaited /\ t[l].awaited => k = l
  BY <1>1, <1>2, <1>3
<1> QED BY <1>4, <1>5

-----------------------------------------------------------------------------
(* The invariant in parts that the actions leave alone or disturb together. *)

UiTypes ==
  /\ emitted \in 0 .. MaxKeys /\ buffered \in 0 .. Capacity
  /\ queued \in Seq(Frame) /\ recoverable \in Seq(Frame)
  /\ in_flight \in Frame \cup {NoFrame}
  /\ wake \in BOOLEAN /\ lane \in {"asleep", "running", "calling"}
  /\ call \in {"none", "send", "resend", "read"}
  /\ retries \in 0 .. MaxRetries
  /\ acked \subseteq Keys /\ reported \subseteq Keys /\ retried \subseteq Keys

ServiceTypes ==
  /\ conn \in {"none", "open", "dead"} /\ service \in {"up", "down"}
  /\ crashes \in 0 .. MaxCrashes
  /\ serving \in Seq(Request) /\ typed \in [Panes -> Seq(Keys)]

LEMMA Types == TypeOK <=> UiTypes /\ ServiceTypes
BY DEF TypeOK, UiTypes, ServiceTypes, Request

\* The keys are exactly what the variables hold.
LEMMA SizesAreNumbers ==
  ASSUME TypeOK
  PROVE  /\ SizeOf(queued) \in Nat /\ SizeOf(recoverable) \in Nat
         /\ in_flight # NoFrame => /\ in_flight \in Frame /\ in_flight.keys \in Seq(Keys)
                                   /\ Len(in_flight.keys) \in Nat
                                   /\ ToSet(in_flight.keys) \subseteq Keys
<1>1. PICK q \in Seq(Frame) : q = queued
  BY DEF TypeOK
<1>2. PICK r \in Seq(Frame) : r = recoverable
  BY DEF TypeOK
<1>3. Carries(Frame)
  BY FramesCarry
<1>4. SizeOf(q) \in Nat /\ SizeOf(r) \in Nat
  BY <1>3, SizeOfJoin
<1>5. ASSUME in_flight # NoFrame
      PROVE  /\ in_flight \in Frame /\ in_flight.keys \in Seq(Keys)
             /\ Len(in_flight.keys) \in Nat /\ ToSet(in_flight.keys) \subseteq Keys
  <2>1. PICK g \in Frame : g = in_flight
    BY <1>5 DEF TypeOK
  <2>2. g.keys \in Seq(Keys)
    BY <1>3 DEF Carries
  <2>3. Len(g.keys) \in Nat /\ ToSet(g.keys) \subseteq Keys
    BY <2>2, ToSetIs
  <2> QED BY <2>1, <2>2, <2>3
<1> QED BY <1>1, <1>2, <1>4, <1>5

LEMMA RequestsAreServed ==
  ASSUME TypeOK
  PROVE  \A i \in 1 .. Len(serving) :
           /\ serving[i] \in Request /\ serving[i].keys \in Seq(Keys)
           /\ ToSet(serving[i].keys) \subseteq ServedKeys
<1>1. PICK s \in Seq(Request) : s = serving
  BY DEF TypeOK, Request
<1>2. \A k : k \in KeysOf(s) <=> \E j \in 1 .. Len(s) : k \in ToSet(s[j].keys)
  BY FramesCarry, KeysOfIs
<1>3. \A i \in 1 .. Len(s) : s[i] \in Request /\ s[i].keys \in Seq(Keys)
  BY FramesCarry DEF Carries
<1> QED BY <1>1, <1>2, <1>3 DEF ServedKeys

\* The buffer once the frame in flight is settled: what was not delivered is
\* kept only when nothing of it was typed.
LEMMA SettleHolds ==
  ASSUME TypeOK, HeldSide, call # "none", NEW outcome \in Outcomes,
         finish_terminal_input(outcome)
  PROVE  /\ UiTypes' /\ HeldSide' /\ InFlightKeys' = {} /\ call' = "none"
         /\ emitted' = emitted
         /\ HeldKeys' = HeldKeys \cup (IF outcome = "unsent" THEN InFlightKeys ELSE {})
<1>1. PICK q \in Seq(Frame) : q = queued
  BY DEF TypeOK
<1>2. PICK r \in Seq(Frame) : r = recoverable
  BY DEF TypeOK
<1>3. in_flight # NoFrame
  BY DEF HeldSide, LaneCalls
<1>4. PICK g \in Frame : g = in_flight
  BY <1>3 DEF TypeOK
<1>5. /\ SizeOf(q) \in Nat /\ SizeOf(r) \in Nat /\ Len(g.keys) \in Nat
      /\ ToSet(g.keys) \subseteq Keys
  BY <1>1, <1>2, <1>3, <1>4, SizesAreNumbers
<1>6. /\ Fits(q) /\ Fits(r) /\ Len(g.keys) <= FrameKeys
      /\ buffered = SizeOf(q) + SizeOf(r) + Len(g.keys)
      /\ 1 .. emitted = KeysOf(q) \cup ToSet(g.keys) \cup KeysOf(r) \cup acked \cup reported
      /\ Once(q) /\ Once(r) /\ Distinct(g.keys)
      /\ KeysOf(q) \cap KeysOf(r) = {} /\ ToSet(g.keys) \cap (KeysOf(q) \cup KeysOf(r)) = {}
  BY <1>1, <1>2, <1>3, <1>4
  DEF HeldSide, FramesFit, BufferedIsHeld, NoKeyIsLost, HeldOnce, InFlightKeys, HeldKeys
<1>7. /\ in_flight' = NoFrame /\ queued' = q /\ lane' = "running" /\ call' = "none"
      /\ emitted' = emitted /\ wake' = wake /\ retries' = retries /\ retried' = retried
  BY <1>1 DEF finish_terminal_input, Settle
<1>8. CASE outcome = "unsent"
  <2>1. PICK t : t = Append(r, g)
    OBVIOUS
  <2>2. /\ t \in Seq(Frame) /\ KeysOf(t) = KeysOf(r) \cup ToSet(g.keys)
        /\ SizeOf(t) = SizeOf(r) + Len(g.keys)
        /\ Fits(t) <=> Fits(r) /\ Len(g.keys) <= FrameKeys
        /\ Once(t) <=> Once(r) /\ Distinct(g.keys) /\ KeysOf(r) \cap ToSet(g.keys) = {}
    <3>1. Carries(Frame)
      BY FramesCarry
    <3> QED BY <2>1, <3>1, OneMore
  <2>3. /\ recoverable' = t /\ buffered' = buffered /\ acked' = acked
        /\ reported' = reported
    BY <1>2, <1>4, <1>8, <2>1 DEF finish_terminal_input, Settle
  <2>4. UiTypes'
    BY <1>1, <1>7, <2>2, <2>3 DEF UiTypes, TypeOK
  <2>5. LaneCalls' /\ FramesFit'
    BY <1>6, <1>7, <2>2, <2>3 DEF LaneCalls, FramesFit
  <2>6. BufferedIsHeld'
    BY <1>5, <1>6, <1>7, <2>2, <2>3 DEF BufferedIsHeld
  <2>7. InFlightKeys' = {} /\ NoKeyIsLost'
    BY <1>6, <1>7, <2>2, <2>3 DEF InFlightKeys, NoKeyIsLost
  <2>8. HeldOnce'
    BY <1>6, <1>7, <2>2, <2>3 DEF HeldOnce, InFlightKeys
  <2>9. HeldKeys' = HeldKeys \cup InFlightKeys
    BY <1>1, <1>2, <1>3, <1>4, <1>7, <2>2, <2>3 DEF HeldKeys, InFlightKeys
  <2> QED BY <1>7, <1>8, <2>4, <2>5, <2>6, <2>7, <2>8, <2>9 DEF HeldSide
<1>9. CASE outcome # "unsent"
  <2>1. /\ recoverable' = r /\ buffered' = buffered - Len(g.keys)
        /\ acked' \subseteq acked \cup ToSet(g.keys)
        /\ reported' \subseteq reported \cup ToSet(g.keys)
        /\ acked' \cup reported' = acked \cup reported \cup ToSet(g.keys)
    BY <1>2, <1>4, <1>9 DEF finish_terminal_input, Settle, Outcomes
  <2>2. buffered' = SizeOf(q) + SizeOf(r)
    BY <1>5, <1>6, <2>1
  <2>3. buffered' \in 0 .. Capacity
    <3>1. Capacity \in Nat /\ buffered <= Capacity
      BY CapacitiesAssumption DEF TypeOK
    <3> QED BY <1>5, <1>6, <2>2, <3>1
  <2>4. UiTypes'
    BY <1>1, <1>2, <1>5, <1>7, <2>1, <2>3 DEF UiTypes, TypeOK
  <2>5. LaneCalls' /\ FramesFit'
    BY <1>6, <1>7, <2>1 DEF LaneCalls, FramesFit
  <2>6. BufferedIsHeld'
    BY <1>5, <1>7, <2>1, <2>2 DEF BufferedIsHeld
  <2>7. InFlightKeys' = {} /\ NoKeyIsLost'
    BY <1>6, <1>7, <2>1 DEF InFlightKeys, NoKeyIsLost
  <2>8. HeldOnce'
    BY <1>6, <1>7, <2>1 DEF HeldOnce, InFlightKeys
  <2>9. HeldKeys' = HeldKeys
    BY <1>1, <1>2, <1>7, <2>1 DEF HeldKeys
  <2> QED BY <1>7, <1>9, <2>4, <2>5, <2>6, <2>7, <2>8, <2>9 DEF HeldSide
<1> QED BY <1>8, <1>9

-----------------------------------------------------------------------------
(* Steps that leave the service's side alone. *)

LEMMA ServiceTypesStay ==
  ASSUME ServiceTypes, UNCHANGED <<conn, service, crashes, serving, typed>>
  PROVE  ServiceTypes'
BY DEF ServiceTypes

LEMMA ServedSideStays ==
  ASSUME ServedSide, UNCHANGED <<serving, typed, call, conn, in_flight>>
  PROVE  ServedSide' /\ ServedKeys' = ServedKeys /\ TypedKeys' = TypedKeys
BY DEF ServedSide, ServedOnce, AwaitedIsInFlight, RestIsUntyped, TypedOnce,
       Reading, InFlightKeys, ServedKeys, TypedKeys

LEMMA NewKeys ==
  ASSUME NEW e \in Nat, NEW n \in Nat, e + n <= MaxKeys,
         NEW ks, ks = [i \in 1 .. n |-> e + i]
  PROVE  /\ ks \in Seq(Keys) /\ Len(ks) = n /\ Distinct(ks)
         /\ ToSet(ks) = e + 1 .. e + n
<1>1. MaxKeys \in Nat
  BY CapacitiesAssumption
<1>2. ks \in Seq(Keys) /\ Len(ks) = n /\ \A i \in 1 .. n : ks[i] = e + i
  BY <1>1 DEF Keys
<1>3. Distinct(ks)
  BY <1>2 DEF Distinct
<1>4. \A k \in e + 1 .. e + n : k - e \in 1 .. n /\ e + (k - e) = k
  OBVIOUS
<1>5. \A k \in e + 1 .. e + n : \E m \in 1 .. n : ks[m] = k
  BY <1>2, <1>4
<1>6. \A m \in 1 .. n : ks[m] \in e + 1 .. e + n
  BY <1>2
<1>7. \A k : k \in ToSet(ks) <=> \E m \in 1 .. n : ks[m] = k
  <2>1. DOMAIN ks = 1 .. n
    OBVIOUS
  <2> QED BY <2>1 DEF ToSet
<1> QED BY <1>2, <1>3, <1>5, <1>6, <1>7

LEMMA TrySendHolds ==
  ASSUME IInv, NEW p \in Panes, NEW n \in 1 .. FrameKeys, try_send(p, n)
  PROVE  IInv'
<1>0. TypeOK /\ HeldSide /\ ServedSide /\ Between
  BY DEF IInv
<1>1. PICK q \in Seq(Frame) : q = queued
  BY <1>0 DEF TypeOK
<1>2. /\ emitted \in Nat /\ n \in Nat /\ FrameKeys \in Nat /\ MaxKeys \in Nat
      /\ Capacity \in Nat /\ buffered \in Nat /\ n <= FrameKeys
  BY <1>0, CapacitiesAssumption DEF TypeOK
<1>3. PICK e \in Nat : e = emitted
  BY <1>2
<1>4. PICK ks : ks = [i \in 1 .. n |-> e + i]
  OBVIOUS
<1>5. PICK t : t = AppendInput(p, ks)
  OBVIOUS
<1>6. /\ e + n <= MaxKeys /\ buffered + n <= Capacity
      /\ emitted' = e + n /\ queued' = t /\ buffered' = buffered + n /\ wake' = TRUE
      /\ UNCHANGED <<in_flight, recoverable, acked, reported, retries, retried, lane,
                     call, conn, service, crashes, serving, typed>>
  BY <1>3, <1>4, <1>5 DEF try_send
<1>7. /\ ks \in Seq(Keys) /\ Len(ks) = n /\ Distinct(ks)
      /\ ToSet(ks) = e + 1 .. e + n
  BY <1>2, <1>4, <1>6, NewKeys
<1>8. /\ KeysOf(q) \cup InFlightKeys \cup KeysOf(recoverable) \subseteq 1 .. e
      /\ ServedKeys \cup TypedKeys \subseteq 1 .. e
      /\ Fits(q) /\ Once(q)
  BY <1>0, <1>1, <1>3
  DEF HeldSide, NoKeyIsLost, Between, SentWasEmitted, FramesFit, HeldOnce
<1>9. (e + 1 .. e + n) \cap (1 .. e) = {} /\ 1 .. e + n = (1 .. e) \cup (e + 1 .. e + n)
  BY <1>2
<1>10. /\ t \in Seq(Frame) /\ Fits(t) /\ Once(t)
       /\ KeysOf(t) = KeysOf(q) \cup ToSet(ks)
       /\ SizeOf(t) = SizeOf(q) + n
  <2>1. ToSet(ks) \cap KeysOf(q) = {}
    BY <1>7, <1>8, <1>9
  <2> QED BY <2>1, <1>1, <1>2, <1>5, <1>7, <1>8, AppendInputIs
<1>11. ServiceTypes' /\ ServedSide' /\ ServedKeys' = ServedKeys /\ TypedKeys' = TypedKeys
  BY <1>0, <1>6, Types, ServiceTypesStay, ServedSideStays
<1>12. UiTypes'
  <2>1. emitted' \in 0 .. MaxKeys /\ buffered' \in 0 .. Capacity
    BY <1>2, <1>6
  <2> QED BY <2>1, <1>0, <1>6, <1>10 DEF UiTypes, TypeOK
<1>13. InFlightKeys' = InFlightKeys /\ LaneCalls' /\ FramesFit'
  BY <1>0, <1>6, <1>10 DEF InFlightKeys, HeldSide, LaneCalls, FramesFit
<1>14. BufferedIsHeld'
  <2>1. /\ SizeOf(q) \in Nat /\ SizeOf(recoverable) \in Nat
        /\ in_flight # NoFrame => Len(in_flight.keys) \in Nat
    BY <1>0, <1>1, SizesAreNumbers
  <2> QED BY <2>1, <1>0, <1>1, <1>2, <1>6, <1>10 DEF HeldSide, BufferedIsHeld
<1>15. NoKeyIsLost'
  BY <1>0, <1>1, <1>3, <1>6, <1>7, <1>9, <1>10, <1>13 DEF HeldSide, NoKeyIsLost
<1>16. HeldOnce' /\ HeldKeys' = HeldKeys \cup ToSet(ks)
  <2>1. HeldKeys' = HeldKeys \cup ToSet(ks)
    BY <1>1, <1>6, <1>10 DEF HeldKeys
  <2>2. KeysOf(t) \cap KeysOf(recoverable) = {} /\ InFlightKeys \cap HeldKeys' = {}
    BY <2>1, <1>0, <1>1, <1>7, <1>8, <1>9, <1>10 DEF HeldSide, HeldOnce
  <2> QED BY <2>1, <2>2, <1>0, <1>6, <1>10, <1>13 DEF HeldSide, HeldOnce
<1>17. Between'
  <2>1. HeldIsUnsent'
    BY <1>0, <1>7, <1>8, <1>9, <1>11, <1>16 DEF Between, HeldIsUnsent
  <2>2. UnsentLeftNoTrace'
    BY <1>0, <1>6, <1>11, <1>13 DEF Between, UnsentLeftNoTrace
  <2>3. SentWasEmitted'
    BY <1>6, <1>8, <1>9, <1>11 DEF SentWasEmitted
  <2> QED BY <2>1, <2>2, <2>3 DEF Between
<1>18. TypeOK'
  BY <1>11, <1>12, Types DEF UiTypes, ServiceTypes, TypeOK, Request
<1> QED BY <1>11, <1>13, <1>14, <1>15, <1>16, <1>17, <1>18 DEF IInv, HeldSide

\* What is kept goes back in front of what waits.
LEMMA ReplayHolds ==
  ASSUME IInv, replay_recoverable
  PROVE  IInv'
<1>0. TypeOK /\ HeldSide /\ ServedSide /\ Between
  BY DEF IInv
<1>1. PICK q \in Seq(Frame) : q = queued
  BY <1>0 DEF TypeOK
<1>2. PICK r \in Seq(Frame) : r = recoverable
  BY <1>0 DEF TypeOK
<1>3. PICK t : t = r \o q
  OBVIOUS
<1>4. /\ queued' = t /\ recoverable' = <<>> /\ wake' = TRUE
      /\ retries < MaxRetries /\ retries' = retries + 1
      /\ retried' = retried \cup KeysOf(r)
      /\ UNCHANGED <<emitted, in_flight, buffered, acked, reported, lane, call, conn,
                     service, crashes, serving, typed>>
  BY <1>1, <1>2, <1>3 DEF replay_recoverable, Replay
<1>5. Carries(Frame)
  BY FramesCarry
<1>6. t \in Seq(Frame) /\ KeysOf(t) = KeysOf(r) \cup KeysOf(q)
  BY <1>3, <1>5, Joined, KeysOfJoin
<1>7. Fits(t) <=> Fits(r) /\ Fits(q)
  BY <1>3, FitsJoin
<1>8. Once(t) <=> Once(r) /\ Once(q) /\ KeysOf(r) \cap KeysOf(q) = {}
  BY <1>3, <1>5, OnceJoin
<1>9. SizeOf(r) \in Nat /\ SizeOf(q) \in Nat /\ SizeOf(t) = SizeOf(r) + SizeOf(q)
  BY <1>3, <1>5, SizeOfJoin
<1>10. KeysOf(r) \subseteq Keys
  BY <1>5, KeysOfIs
<1>11. /\ <<>> \in Seq(Frame) /\ KeysOf(<<>>) = {} /\ SizeOf(<<>>) = 0
       /\ Fits(<<>>) /\ Once(<<>>)
  BY KeysOfNothing, SizeOfNothing DEF Fits, Once
<1>12. ServiceTypes' /\ ServedSide' /\ ServedKeys' = ServedKeys /\ TypedKeys' = TypedKeys
  BY <1>0, <1>4, Types, ServiceTypesStay, ServedSideStays
<1>13. UiTypes'
  <2>1. retries' \in 0 .. MaxRetries
    BY <1>0, <1>4, CapacitiesAssumption DEF TypeOK
  <2> QED BY <2>1, <1>0, <1>4, <1>6, <1>10, <1>11 DEF UiTypes, TypeOK
<1>14. InFlightKeys' = InFlightKeys /\ LaneCalls'
  BY <1>0, <1>4 DEF InFlightKeys, HeldSide, LaneCalls
<1>15. FramesFit'
  BY <1>0, <1>1, <1>2, <1>4, <1>7, <1>11 DEF HeldSide, FramesFit
<1>16. BufferedIsHeld'
  <2>1. in_flight # NoFrame => Len(in_flight.keys) \in Nat
    BY <1>0, SizesAreNumbers
  <2> QED BY <2>1, <1>0, <1>1, <1>2, <1>4, <1>9, <1>11 DEF HeldSide, BufferedIsHeld
<1>17. NoKeyIsLost'
  BY <1>0, <1>1, <1>2, <1>4, <1>6, <1>11, <1>14 DEF HeldSide, NoKeyIsLost
<1>18. HeldKeys' = HeldKeys
  BY <1>1, <1>2, <1>4, <1>6, <1>11 DEF HeldKeys
<1>19. HeldOnce'
  BY <1>0, <1>1, <1>2, <1>4, <1>8, <1>11, <1>14, <1>18 DEF HeldSide, HeldOnce
<1>20. Between'
  BY <1>0, <1>4, <1>12, <1>14, <1>18 DEF Between, HeldIsUnsent, UnsentLeftNoTrace, SentWasEmitted
<1>21. TypeOK'
  BY <1>12, <1>13 DEF UiTypes, ServiceTypes, TypeOK, Request
<1> QED BY <1>12, <1>14, <1>15, <1>16, <1>17, <1>19, <1>20, <1>21 DEF IInv, HeldSide

\* The lane wakes or goes to sleep.
LEMMA LaneMovesHolds ==
  ASSUME IInv, LaneWakes \/ LaneSleeps
  PROVE  IInv'
<1>0. TypeOK /\ HeldSide /\ ServedSide /\ Between
  BY DEF IInv
<1>1. /\ lane \in {"asleep", "running"} /\ lane' \in {"asleep", "running"}
      /\ wake' \in BOOLEAN
      /\ UNCHANGED <<emitted, queued, in_flight, recoverable, buffered, acked, reported,
                     retries, retried, call, conn, service, crashes, serving, typed>>
  BY <1>0 DEF LaneWakes, LaneSleeps, ui, buffer, TypeOK
<1>2. ServiceTypes' /\ ServedSide' /\ ServedKeys' = ServedKeys /\ TypedKeys' = TypedKeys
  BY <1>0, <1>1, Types, ServiceTypesStay, ServedSideStays
<1>3. TypeOK'
  BY <1>0, <1>1 DEF TypeOK
<1>4. HeldSide' /\ HeldKeys' = HeldKeys /\ InFlightKeys' = InFlightKeys
  BY <1>0, <1>1
  DEF HeldSide, LaneCalls, FramesFit, BufferedIsHeld, NoKeyIsLost, HeldOnce,
      HeldKeys, InFlightKeys
<1>5. Between'
  BY <1>0, <1>1, <1>2, <1>4 DEF Between, HeldIsUnsent, UnsentLeftNoTrace, SentWasEmitted
<1> QED BY <1>2, <1>3, <1>4, <1>5 DEF IInv

\* The first frame that waits is taken: no request and no terminal has its keys.
LEMMA BeginHolds ==
  ASSUME IInv, begin_terminal_input
  PROVE  IInv'
<1>0. TypeOK /\ HeldSide /\ ServedSide /\ Between
  BY DEF IInv
<1>1. PICK q \in Seq(Frame) : q = queued
  BY <1>0 DEF TypeOK
<1>2. PICK g : g = Head(q)
  OBVIOUS
<1>3. PICK t : t = Tail(q)
  OBVIOUS
<1>4. /\ lane = "running" /\ q # <<>> /\ in_flight' = g /\ queued' = t
      /\ lane' = "calling" /\ call' = "send"
      /\ UNCHANGED <<emitted, recoverable, buffered, wake, acked, reported, retries,
                     retried, conn, service, crashes, serving, typed>>
  BY <1>1, <1>2, <1>3 DEF begin_terminal_input
<1>5. call = "none" /\ in_flight = NoFrame
  BY <1>0, <1>4 DEF HeldSide, LaneCalls
<1>6. g \in Frame /\ t \in Seq(Frame) /\ q = <<g>> \o t /\ <<g>> \in Seq(Frame)
  BY <1>2, <1>3, <1>4, HeadAndTail
<1>7. g # NoFrame
  BY <1>6, FrameAssumption
<1>8. Carries(Frame)
  BY FramesCarry
<1>9. KeysOf(<<g>>) = ToSet(g.keys) /\ SizeOf(<<g>>) = Len(g.keys)
  BY <1>6, <1>8, KeysOfOne, SizeOfOne
<1>10. KeysOf(q) = ToSet(g.keys) \cup KeysOf(t)
  <2>1. KeysOf(q) = KeysOf(<<g>>) \cup KeysOf(t)
    BY <1>6, <1>8, KeysOfJoin
  <2> QED BY <2>1, <1>9
<1>11. SizeOf(t) \in Nat /\ Len(g.keys) \in Nat /\ SizeOf(q) = Len(g.keys) + SizeOf(t)
  <2>1. /\ SizeOf(<<g>>) \in Nat /\ SizeOf(t) \in Nat
        /\ SizeOf(q) = SizeOf(<<g>>) + SizeOf(t)
    BY <1>6, <1>8, SizeOfJoin
  <2> QED BY <2>1, <1>9
<1>12. Fits(t) /\ Len(g.keys) <= FrameKeys
  <2>1. Fits(<<g>>) /\ Fits(t)
    BY <1>0, <1>1, <1>6, FitsJoin DEF HeldSide, FramesFit
  <2> QED BY <2>1, <1>6, FitsOne
<1>13. Once(t) /\ Distinct(g.keys) /\ ToSet(g.keys) \cap KeysOf(t) = {}
  <2>0. Once(<<g>> \o t)
    BY <1>0, <1>1, <1>6 DEF HeldSide, HeldOnce
  <2>1. Once(<<g>>) /\ Once(t) /\ KeysOf(<<g>>) \cap KeysOf(t) = {}
    BY <2>0, <1>6, <1>8, OnceJoin
  <2> QED BY <2>1, <1>6, <1>9, OnceOne
<1>14. InFlightKeys = {} /\ InFlightKeys' = ToSet(g.keys)
  BY <1>4, <1>5, <1>7 DEF InFlightKeys
<1>15. HeldKeys' \cup ToSet(g.keys) = HeldKeys
  BY <1>1, <1>4, <1>10 DEF HeldKeys
<1>16. TypeOK'
  BY <1>0, <1>4, <1>6 DEF TypeOK
<1>17. LaneCalls' /\ FramesFit'
  BY <1>0, <1>4, <1>7, <1>12 DEF HeldSide, LaneCalls, FramesFit
<1>18. BufferedIsHeld'
  <2>1. SizeOf(recoverable) \in Nat
    BY <1>0, SizesAreNumbers
  <2> QED BY <2>1, <1>0, <1>1, <1>4, <1>5, <1>7, <1>11 DEF HeldSide, BufferedIsHeld
<1>19. NoKeyIsLost'
  BY <1>0, <1>1, <1>4, <1>10, <1>14 DEF HeldSide, NoKeyIsLost
<1>20. HeldOnce'
  <2>1. ToSet(g.keys) \cap KeysOf(recoverable) = {} /\ KeysOf(t) \cap KeysOf(recoverable) = {}
    BY <1>0, <1>1, <1>10 DEF HeldSide, HeldOnce
  <2>2. InFlightKeys' \cap HeldKeys' = {}
    BY <2>1, <1>4, <1>13, <1>14 DEF HeldKeys
  <2> QED BY <2>1, <2>2, <1>0, <1>4, <1>13 DEF HeldSide, HeldOnce
<1>21. ServedKeys' = ServedKeys /\ TypedKeys' = TypedKeys
  BY <1>4 DEF ServedKeys, TypedKeys
<1>22. Between'
  BY <1>0, <1>4, <1>14, <1>15, <1>21
  DEF Between, HeldIsUnsent, UnsentLeftNoTrace, SentWasEmitted
<1>23. AwaitedIsInFlight'
  <2>1. Reading = FALSE
    BY <1>5 DEF Reading
  <2>2. ASSUME NEW i \in 1 .. Len(serving)
        PROVE  ~ serving[i].awaited /\ ToSet(serving[i].keys) \cap InFlightKeys' = {}
    <3>1. ~ serving[i].awaited
      BY <2>1, <1>0 DEF ServedSide, AwaitedIsInFlight, AwaitsOf
    <3>2. ToSet(serving[i].keys) \subseteq ServedKeys
      BY <1>0, RequestsAreServed
    <3>3. ToSet(g.keys) \cap ServedKeys = {}
      BY <1>0, <1>15 DEF Between, HeldIsUnsent
    <3> QED BY <3>1, <3>2, <3>3, <1>14
  <2> QED BY <2>2, <1>4 DEF AwaitedIsInFlight, AwaitsOf
<1>24. ServedSide'
  BY <1>0, <1>4, <1>21, <1>23 DEF ServedSide, ServedOnce, RestIsUntyped, TypedOnce
<1> QED BY <1>16, <1>17, <1>18, <1>19, <1>20, <1>22, <1>24 DEF IInv, HeldSide

-----------------------------------------------------------------------------
(* Steps of the client and of the service. *)

LEMMA UiTypesStay ==
  ASSUME UiTypes, UNCHANGED <<ui, lane, call>>
  PROVE  UiTypes'
BY DEF UiTypes, ui, buffer

LEMMA HeldSideStays ==
  ASSUME HeldSide, UNCHANGED <<ui, lane>>, call' = "none" <=> call = "none"
  PROVE  HeldSide' /\ HeldKeys' = HeldKeys /\ InFlightKeys' = InFlightKeys
BY DEF HeldSide, LaneCalls, FramesFit, BufferedIsHeld, NoKeyIsLost, HeldOnce,
       HeldKeys, InFlightKeys, ui, buffer

\* Between calls and before a call's frame is written, no request is awaited.
LEMMA NotReading ==
  ASSUME TypeOK, AwaitedIsInFlight, ~ Reading
  PROVE  /\ \A i \in 1 .. Len(serving) : ~ serving[i].awaited
         /\ ServedKeys \cap InFlightKeys = {}
<1>1. \A i \in 1 .. Len(serving) :
        ~ serving[i].awaited /\ ToSet(serving[i].keys) \cap InFlightKeys = {}
  BY DEF AwaitedIsInFlight, AwaitsOf
<1>2. PICK s \in Seq(Request) : s = serving
  BY DEF TypeOK, Request
<1>3. \A k : k \in KeysOf(s) <=> \E j \in 1 .. Len(s) : k \in ToSet(s[j].keys)
  BY FramesCarry, KeysOfIs
<1> QED BY <1>1, <1>2, <1>3 DEF ServedKeys

\* With no request awaited, the call may move to any connection.
LEMMA AwaitedNothing ==
  ASSUME \A i \in 1 .. Len(serving) : ~ serving[i].awaited,
         \A i \in 1 .. Len(serving) : ToSet(serving[i].keys) \cap InFlightKeys' = {},
         UNCHANGED serving
  PROVE  AwaitedIsInFlight'
BY DEF AwaitedIsInFlight, AwaitsOf

\* A call ends without an answer while nothing is awaited: "unsent" before its
\* frame was written, "indeterminate" once it may have arrived.
LEMMA EndsUnanswered ==
  ASSUME IInv, ~ Reading, call # "none", NEW outcome \in {"unsent", "indeterminate"},
         outcome = "unsent" => call \in {"send", "resend"},
         finish_terminal_input(outcome), conn' \in {"none", "open", "dead"},
         UNCHANGED <<service, crashes, serving, typed>>
  PROVE  IInv'
<1>0. TypeOK /\ HeldSide /\ ServedSide /\ Between
  BY DEF IInv
<1>1. /\ UiTypes' /\ HeldSide' /\ InFlightKeys' = {} /\ call' = "none"
      /\ emitted' = emitted
      /\ HeldKeys' = HeldKeys \cup (IF outcome = "unsent" THEN InFlightKeys ELSE {})
  BY <1>0, SettleHolds DEF Outcomes
<1>2. ServiceTypes'
  BY <1>0, Types DEF ServiceTypes
<1>3. AwaitedIsInFlight'
  BY <1>0, <1>1, NotReading, AwaitedNothing DEF ServedSide
<1>4. ServedKeys' = ServedKeys /\ TypedKeys' = TypedKeys
  BY DEF ServedKeys, TypedKeys
<1>5. ServedSide'
  BY <1>0, <1>3, <1>4 DEF ServedSide, ServedOnce, RestIsUntyped, TypedOnce
<1>6. Between'
  BY <1>0, <1>1, <1>4 DEF Between, HeldIsUnsent, UnsentLeftNoTrace, SentWasEmitted
<1>7. TypeOK'
  BY <1>1, <1>2 DEF UiTypes, ServiceTypes, TypeOK, Request
<1> QED BY <1>1, <1>5, <1>6, <1>7 DEF IInv

\* The call goes on while nothing is awaited.
LEMMA CallGoesOn ==
  ASSUME IInv, ~ Reading, call # "none", call' \in {"send", "resend", "read"},
         call' \in {"send", "resend"} => call \in {"send", "resend"},
         conn' \in {"none", "open", "dead"},
         UNCHANGED <<ui, lane, service, crashes, serving, typed>>
  PROVE  IInv'
<1>0. TypeOK /\ HeldSide /\ ServedSide /\ Between
  BY DEF IInv
<1>1. HeldSide' /\ HeldKeys' = HeldKeys /\ InFlightKeys' = InFlightKeys
  BY <1>0, HeldSideStays
<1>2. TypeOK' /\ emitted' = emitted
  BY <1>0 DEF TypeOK, ui, buffer
<1>3. \A i \in 1 .. Len(serving) : ToSet(serving[i].keys) \cap InFlightKeys = {}
  BY <1>0, NotReading, RequestsAreServed DEF ServedSide
<1>4. AwaitedIsInFlight'
  BY <1>0, <1>1, <1>3, NotReading, AwaitedNothing DEF ServedSide
<1>5. ServedKeys' = ServedKeys /\ TypedKeys' = TypedKeys
  BY DEF ServedKeys, TypedKeys
<1>6. ServedSide'
  BY <1>0, <1>4, <1>5 DEF ServedSide, ServedOnce, RestIsUntyped, TypedOnce
<1>7. Between'
  BY <1>0, <1>1, <1>2, <1>5 DEF Between, HeldIsUnsent, UnsentLeftNoTrace, SentWasEmitted
<1> QED BY <1>1, <1>2, <1>6, <1>7 DEF IInv

LEMMA ConnectionHolds ==
  ASSUME IInv, Connect \/ WriteIsLost \/ WriteFails \/ WriteFailsAgain \/ ReadFails
  PROVE  IInv'
<1>1. CASE Connect
  <2>1. call = "send" /\ ~ Reading
    BY <1>1 DEF Connect, Reading
  <2>2. CASE service = "up"
    <3>1. /\ conn' = "open" /\ UNCHANGED <<ui, lane, call, service, crashes, serving, typed>>
      BY <1>1, <2>2 DEF Connect
    <3> QED BY <2>1, <3>1, CallGoesOn
  <2>3. CASE service # "up"
    <3>1. /\ finish_terminal_input("unsent") /\ conn' = "none"
          /\ UNCHANGED <<service, crashes, serving, typed>>
      BY <1>1, <2>3 DEF Connect
    <3> QED BY <2>1, <3>1, EndsUnanswered
  <2> QED BY <2>2, <2>3
<1>2. CASE WriteIsLost
  <2>1. /\ call \in {"send", "resend"} /\ ~ Reading /\ call' = "read" /\ conn' = "dead"
        /\ UNCHANGED <<ui, lane, service, crashes, serving, typed>>
    BY <1>2 DEF WriteIsLost, Reading
  <2> QED BY <2>1, CallGoesOn
<1>3. CASE WriteFails
  <2>1. call = "send" /\ ~ Reading
    BY <1>3 DEF WriteFails, Reading
  <2>2. CASE service = "up"
    <3>1. /\ conn' = "open" /\ call' = "resend"
          /\ UNCHANGED <<ui, lane, service, crashes, serving, typed>>
      BY <1>3, <2>2 DEF WriteFails
    <3> QED BY <2>1, <3>1, CallGoesOn
  <2>3. CASE service # "up"
    <3>1. /\ finish_terminal_input("unsent") /\ conn' = "none"
          /\ UNCHANGED <<service, crashes, serving, typed>>
      BY <1>3, <2>3 DEF WriteFails
    <3> QED BY <2>1, <3>1, EndsUnanswered
  <2> QED BY <2>2, <2>3
<1>4. CASE WriteFailsAgain
  <2>1. /\ call = "resend" /\ ~ Reading /\ finish_terminal_input("unsent")
        /\ conn' = "none" /\ UNCHANGED <<service, crashes, serving, typed>>
    BY <1>4 DEF WriteFailsAgain, Reading
  <2> QED BY <2>1, EndsUnanswered
<1>5. CASE ReadFails
  <2>1. /\ call = "read" /\ ~ Reading /\ finish_terminal_input("indeterminate")
        /\ conn' = "none" /\ UNCHANGED <<service, crashes, serving, typed>>
    BY <1>5 DEF ReadFails, Reading
  <2> QED BY <2>1, EndsUnanswered
<1> QED BY <1>1, <1>2, <1>3, <1>4, <1>5

\* The frame in flight arrives: neither a request nor a terminal has its keys.
LEMMA WriteRequestHolds ==
  ASSUME IInv, WriteRequest
  PROVE  IInv'
<1>0. TypeOK /\ HeldSide /\ ServedSide /\ Between
  BY DEF IInv
<1>1. PICK s \in Seq(Request) : s = serving
  BY <1>0 DEF TypeOK, Request
<1>2. /\ call \in {"send", "resend"} /\ conn = "open" /\ call' = "read" /\ ~ Reading
      /\ UNCHANGED <<ui, lane, conn, service, crashes, typed>>
  BY DEF WriteRequest, Reading
<1>3. in_flight # NoFrame
  BY <1>0, <1>2 DEF HeldSide, LaneCalls
<1>4. PICK g \in Frame : g = in_flight
  BY <1>0, <1>3 DEF TypeOK
<1>5. PICK r : r = [pane |-> g.pane, keys |-> g.keys, done |-> 0,
                    answer |-> "none", awaited |-> TRUE]
  OBVIOUS
<1>6. PICK t : t = Append(s, r)
  OBVIOUS
<1>7. serving' = t
  BY <1>1, <1>4, <1>5, <1>6 DEF WriteRequest, Arrives
<1>8. /\ r \in Request /\ r.keys = g.keys /\ r.done = 0 /\ r.answer = "none" /\ r.awaited
      /\ g.keys \in Seq(Keys)
  <2>1. 0 \in 0 .. FrameKeys
    BY CapacitiesAssumption
  <2> QED BY <2>1, <1>5 DEF Request, Frame
<1>9. InFlightKeys = ToSet(g.keys) /\ InFlightKeys' = InFlightKeys /\ in_flight' = g
  BY <1>2, <1>3, <1>4 DEF InFlightKeys, ui, buffer
<1>10. ToSet(g.keys) \cap (KeysOf(s) \cup TypedKeys) = {}
  BY <1>0, <1>1, <1>2, <1>9 DEF Between, UnsentLeftNoTrace, ServedKeys
<1>11. Distinct(g.keys) /\ Len(g.keys) <= FrameKeys
  BY <1>0, <1>3, <1>4 DEF HeldSide, HeldOnce, FramesFit
<1>12. /\ t \in Seq(Request) /\ KeysOf(t) = KeysOf(s) \cup ToSet(g.keys)
       /\ Fits(t) /\ Once(t)
  <2>1. Carries(Request)
    BY FramesCarry
  <2>2. Fits(s) /\ Once(s)
    BY <1>0, <1>1 DEF ServedSide, ServedOnce
  <2>3. /\ t \in Seq(Request) /\ KeysOf(t) = KeysOf(s) \cup ToSet(r.keys)
        /\ Fits(t) <=> Fits(s) /\ Len(r.keys) <= FrameKeys
        /\ Once(t) <=> Once(s) /\ Distinct(r.keys) /\ KeysOf(s) \cap ToSet(r.keys) = {}
    BY ZenonT(60), <2>1, <1>6, <1>8, OneMore
  <2>4. KeysOf(s) \cap ToSet(r.keys) = {}
    BY <1>8, <1>10
  <2> QED BY <2>2, <2>3, <2>4, <1>8, <1>11
<1>13. /\ Len(s) \in Nat /\ Len(t) = Len(s) + 1 /\ t[Len(s) + 1] = r
       /\ \A i \in 1 .. Len(s) : t[i] = s[i]
  BY <1>6, <1>8
<1>14. \A i \in 1 .. Len(t) : i \in 1 .. Len(s) \/ i = Len(s) + 1
  BY <1>13
<1>15. HeldSide' /\ HeldKeys' = HeldKeys
  BY <1>0, <1>2, HeldSideStays
<1>16. TypeOK' /\ emitted' = emitted
  <2>1. UiTypes'
    BY <1>0, <1>2, Types DEF UiTypes, ui, buffer
  <2>2. ServiceTypes'
    BY <1>0, <1>2, <1>7, <1>12, Types DEF ServiceTypes
  <2> QED BY <2>1, <2>2, <1>2 DEF UiTypes, ServiceTypes, TypeOK, Request, ui
<1>17. ServedKeys' = ServedKeys \cup ToSet(g.keys) /\ TypedKeys' = TypedKeys
  BY <1>1, <1>2, <1>7, <1>12 DEF ServedKeys, TypedKeys
<1>18. AwaitedIsInFlight'
  <2>1. Reading'
    BY <1>2 DEF Reading
  <2>2. \A i \in 1 .. Len(s) : ~ s[i].awaited
    BY <1>0, <1>1, <1>2, NotReading DEF ServedSide
  <2>3. \A i \in 1 .. Len(s) : ToSet(s[i].keys) \cap ToSet(g.keys) = {}
    BY <1>0, <1>1, <1>10, RequestsAreServed DEF ServedKeys
  <2>4. \A i \in 1 .. Len(t) : AwaitsOf(t[i], TRUE, g.keys, ToSet(g.keys))
    BY <2>2, <2>3, <1>8, <1>13, <1>14 DEF AwaitsOf
  <2>5. \A i, j \in 1 .. Len(t) : t[i].awaited /\ t[j].awaited => i = j
    BY <2>2, <1>13, <1>14
  <2> QED BY <2>1, <2>4, <2>5, <1>7, <1>9 DEF AwaitedIsInFlight, AwaitsOf
<1>19. RestIsUntyped'
  <2>1. \A i \in 1 .. Len(s) : RestOf(s[i], TypedKeys)
    BY <1>0, <1>1 DEF ServedSide, RestIsUntyped
  <2>2. RestOf(r, TypedKeys)
    <3>1. \A m \in 1 .. Len(g.keys) : g.keys[m] \in ToSet(g.keys)
      BY <1>8, ToSetIs
    <3>2. 0 <= Len(g.keys)
      BY <1>8
    <3> QED BY <3>1, <3>2, <1>8, <1>10 DEF RestOf
  <2> QED BY <2>1, <2>2, <1>7, <1>13, <1>14, <1>17 DEF RestIsUntyped
<1>20. ServedSide'
  BY <1>0, <1>2, <1>7, <1>12, <1>18, <1>19 DEF ServedSide, ServedOnce, TypedOnce
<1>21. Between'
  <2>1. InFlightKeys \cap HeldKeys = {} /\ InFlightKeys \subseteq 1 .. emitted
    BY <1>0 DEF HeldSide, HeldOnce, NoKeyIsLost
  <2>2. HeldIsUnsent'
    BY <2>1, <1>0, <1>9, <1>15, <1>17 DEF Between, HeldIsUnsent
  <2>3. UnsentLeftNoTrace'
    BY <1>2 DEF UnsentLeftNoTrace
  <2>4. SentWasEmitted'
    BY <2>1, <1>0, <1>9, <1>16, <1>17 DEF Between, SentWasEmitted
  <2> QED BY <2>2, <2>3, <2>4 DEF Between
<1> QED BY <1>15, <1>16, <1>20, <1>21 DEF IInv

\* The call whose request is awaited ends.  An answer "unsent" finds a request
\* of which nothing was typed, and which is over, so its keys can be kept.
LEMMA CallEndsHolds ==
  ASSUME IInv, NEW i \in 1 .. Len(serving), serving[i].awaited,
         NEW outcome \in Outcomes, outcome = "unsent" => serving[i].answer = "unsent",
         finish_terminal_input(outcome), conn' \in {"none", "open", "dead"},
         serving' = Remaining([serving EXCEPT ![i].awaited = FALSE]),
         UNCHANGED <<service, crashes, typed>>
  PROVE  IInv'
<1>0. TypeOK /\ HeldSide /\ ServedSide /\ Between
  BY DEF IInv
<1>1. PICK s \in Seq(Request) : s = serving
  BY <1>0 DEF TypeOK, Request
<1>2. PICK p \in Request : p = s[i]
  BY <1>1
<1>3. PICK r : r = [p EXCEPT !.awaited = FALSE]
  OBVIOUS
<1>4. /\ r \in Request /\ ~ r.awaited /\ r.keys = p.keys /\ r.done = p.done
      /\ r.answer = p.answer
  BY <1>2, <1>3 DEF Request
<1>5. PICK t : t = Replaced(s, i, r)
  OBVIOUS
<1>6. serving' = t
  BY <1>1, <1>2, <1>3, <1>5 DEF Replaced
<1>7. /\ call = "read" /\ p.awaited /\ p.keys = in_flight.keys
      /\ \A k, l \in 1 .. Len(s) : s[k].awaited /\ s[l].awaited => k = l
  BY <1>0, <1>1, <1>2 DEF ServedSide, AwaitedIsInFlight, AwaitsOf, Reading
<1>8. in_flight # NoFrame /\ InFlightKeys = ToSet(p.keys)
  BY <1>0, <1>7 DEF HeldSide, LaneCalls, InFlightKeys
<1>9. /\ UiTypes' /\ HeldSide' /\ InFlightKeys' = {} /\ call' = "none"
      /\ emitted' = emitted
      /\ HeldKeys' = HeldKeys \cup (IF outcome = "unsent" THEN InFlightKeys ELSE {})
  BY <1>0, <1>7, SettleHolds
<1>10. Fits(s) /\ Once(s) /\ \A k \in 1 .. Len(s) : RestOf(s[k], TypedKeys)
  BY <1>0, <1>1 DEF ServedSide, ServedOnce, RestIsUntyped
<1>11. /\ t \in Seq(Request) /\ Fits(t) /\ Once(t) /\ KeysOf(t) \subseteq KeysOf(s)
       /\ ~ Kept(r) => KeysOf(t) \cap ToSet(r.keys) = {}
  BY <1>1, <1>2, <1>4, <1>5, <1>10, ReplacedKeys
<1>12. ServedKeys' = KeysOf(t) /\ ServedKeys = KeysOf(s) /\ TypedKeys' = TypedKeys
  BY <1>1, <1>6 DEF ServedKeys, TypedKeys
<1>13. RestIsUntyped'
  <2>1. RestOf(p, TypedKeys) /\ RestOf(r, TypedKeys)
    BY <1>1, <1>2, <1>4, <1>10 DEF RestOf
  <2>2. \A k \in 1 .. Len(t) : RestOf(t[k], TypedKeys)
    BY <2>1, <1>1, <1>4, <1>5, <1>10, ReplacedRests
  <2> QED BY <2>2, <1>6, <1>12 DEF RestIsUntyped
<1>14. AwaitedIsInFlight'
  <2>1. PICK reading : reading = Reading'
    OBVIOUS
  <2>2. PICK keys : keys = in_flight'.keys
    OBVIOUS
  <2>3. \A k \in 1 .. Len(s) : k # i => AwaitsOf(s[k], reading, keys, {})
    BY <1>1, <1>2, <1>7 DEF AwaitsOf
  <2>4. AwaitsOf(r, reading, keys, {})
    BY <1>4 DEF AwaitsOf
  <2>5. /\ \A k \in 1 .. Len(t) : AwaitsOf(t[k], reading, keys, {})
        /\ \A k, l \in 1 .. Len(t) : t[k].awaited /\ t[l].awaited => k = l
    BY <2>3, <2>4, <1>1, <1>4, <1>5, <1>7, ReplacedAwaits
  <2> QED BY <2>1, <2>2, <2>5, <1>6, <1>9 DEF AwaitedIsInFlight
<1>15. ServedSide'
  BY <1>0, <1>6, <1>11, <1>13, <1>14 DEF ServedSide, ServedOnce, TypedOnce
<1>16. TypeOK'
  <2>1. ServiceTypes'
    BY <1>0, <1>6, <1>11, Types DEF ServiceTypes
  <2> QED BY <2>1, <1>9 DEF UiTypes, ServiceTypes, TypeOK, Request
<1>17. HeldIsUnsent'
  <2>1. CASE outcome # "unsent"
    BY <2>1, <1>0, <1>9, <1>11, <1>12 DEF Between, HeldIsUnsent
  <2>2. CASE outcome = "unsent"
    <3>1. r.answer = "unsent" /\ p.done = 0
      BY <2>2, <1>1, <1>2, <1>4, <1>10 DEF RestOf
    <3>2. KeysOf(t) \cap ToSet(p.keys) = {}
      BY <3>1, <1>4, <1>11 DEF Kept, Unfinished
    <3>3. ToSet(p.keys) \cap TypedKeys = {}
      <4>1. p.keys \in Seq(Keys)
        BY <1>2 DEF Request
      <4>2. \A m \in 1 .. Len(p.keys) : p.keys[m] \notin TypedKeys
        BY <3>1, <1>1, <1>2, <1>10, <4>1 DEF RestOf
      <4> QED BY <4>1, <4>2, ToSetIs
    <3> QED BY <2>2, <3>2, <3>3, <1>0, <1>8, <1>9, <1>11, <1>12 DEF Between, HeldIsUnsent
  <2> QED BY <2>1, <2>2
<1>18. Between'
  <2>1. UnsentLeftNoTrace'
    BY <1>9 DEF UnsentLeftNoTrace
  <2>2. SentWasEmitted'
    BY <1>0, <1>9, <1>11, <1>12 DEF Between, SentWasEmitted
  <2> QED BY <2>1, <2>2, <1>17 DEF Between
<1> QED BY <1>9, <1>15, <1>16, <1>18 DEF IInv

LEMMA AnswersHold ==
  ASSUME IInv, ReadAnswer \/ ReadTimesOut
  PROVE  IInv'
<1>0. \A i \in DOMAIN serving : i \in 1 .. Len(serving) /\ serving[i] \in Request
  <2>1. PICK s \in Seq(Request) : s = serving
    BY DEF IInv, TypeOK, Request
  <2>2. \A i \in DOMAIN s : i \in 1 .. Len(s) /\ s[i] \in Request
    OBVIOUS
  <2> QED BY <2>1, <2>2
<1>1. CASE ReadAnswer
  <2>1. PICK i \in DOMAIN serving :
          /\ serving[i].awaited /\ serving[i].answer # "none"
          /\ finish_terminal_input(serving[i].answer)
          /\ conn' = IF serving[i].answer = "delivered" THEN "open" ELSE "none"
          /\ serving' = Remaining([serving EXCEPT ![i].awaited = FALSE])
    BY <1>1 DEF ReadAnswer
  <2>2. PICK outcome : outcome = serving[i].answer
    OBVIOUS
  <2>3. outcome \in Outcomes /\ finish_terminal_input(outcome)
    BY <2>1, <2>2, <1>0 DEF Request
  <2>4. conn' \in {"none", "open", "dead"} /\ UNCHANGED <<service, crashes, typed>>
    BY <2>1, <1>1 DEF ReadAnswer
  <2> QED BY <2>1, <2>2, <2>3, <2>4, <1>0, CallEndsHolds
<1>2. CASE ReadTimesOut
  <2>1. PICK i \in DOMAIN serving :
          /\ serving[i].awaited
          /\ serving' = Remaining([serving EXCEPT ![i].awaited = FALSE])
    BY <1>2 DEF ReadTimesOut
  <2>2. /\ finish_terminal_input("indeterminate") /\ conn' = "none"
        /\ UNCHANGED <<service, crashes, typed>>
    BY <1>2 DEF ReadTimesOut
  <2>3. "indeterminate" \in Outcomes
    BY DEF Outcomes
  <2> QED BY <2>1, <2>2, <2>3, <1>0, CallEndsHolds
<1> QED BY <1>1, <1>2

LEMMA SubSeqIs ==
  ASSUME NEW S, NEW ks \in Seq(S), NEW a \in Nat, NEW b \in Nat, a <= b, b <= Len(ks)
  PROVE  /\ SubSeq(ks, a + 1, b) \in Seq(S) /\ Len(SubSeq(ks, a + 1, b)) = b - a
         /\ \A m \in 1 .. b - a : SubSeq(ks, a + 1, b)[m] = ks[a + m]
<1>1. CASE a = b
  BY <1>1
<1>2. CASE a < b
  <2>1. a + 1 \in 1 .. Len(ks) /\ b \in 1 .. Len(ks) /\ Len(ks) \in Nat
    BY <1>2
  <2>2. \A m \in a + 1 .. b : ks[m] \in S
    BY <2>1
  <2> QED BY <1>2, <2>1, <2>2
<1> QED BY <1>1, <1>2

\* sub is what ks has after its first a elements, up to the b-th.
Part(sub, ks, a, b) == /\ Len(sub) = b - a
                       /\ \A m \in 1 .. b - a : sub[m] = ks[a + m]

LEMMA KeysAfter ==
  ASSUME NEW ks \in Seq(Keys), Distinct(ks), NEW a \in Nat, NEW b \in Nat,
         a <= b, b <= Len(ks), NEW sub \in Seq(Keys), Part(sub, ks, a, b)
  PROVE  /\ Distinct(sub) /\ ToSet(sub) \subseteq ToSet(ks)
         /\ \A m \in 1 .. Len(ks) : m > b => ks[m] \notin ToSet(sub)
         /\ \A k \in ToSet(sub) : \E m \in 1 .. Len(ks) : m > a /\ ks[m] = k
<1>1. sub \in Seq(Keys) /\ Len(sub) = b - a /\ \A m \in 1 .. b - a : sub[m] = ks[a + m]
  BY DEF Part
<1>2. \A m \in 1 .. b - a : a + m \in 1 .. Len(ks) /\ a + m > a /\ a + m <= b
  OBVIOUS
<1>3. /\ \A k : k \in ToSet(sub) <=> \E m \in 1 .. b - a : sub[m] = k
      /\ \A k : k \in ToSet(ks) <=> \E m \in 1 .. Len(ks) : ks[m] = k
  <2>1. \A k : k \in ToSet(sub) <=> \E m \in 1 .. Len(sub) : sub[m] = k
    BY <1>1, ToSetIs
  <2>2. \A k : k \in ToSet(ks) <=> \E m \in 1 .. Len(ks) : ks[m] = k
    BY ToSetIs
  <2> QED BY <2>1, <2>2, <1>1
<1>4. \A k \in ToSet(sub) : \E m \in 1 .. Len(ks) : m > a /\ m <= b /\ ks[m] = k
  BY <1>1, <1>2, <1>3
<1>5. Distinct(sub)
  <2> SUFFICES ASSUME NEW m \in 1 .. b - a, NEW n \in 1 .. b - a, sub[m] = sub[n]
               PROVE  m = n
    BY <1>1 DEF Distinct
  <2>1. a + m = a + n
    BY <1>1, <1>2 DEF Distinct
  <2> QED BY <2>1
<1>6. ASSUME NEW m \in 1 .. Len(ks), m > b, ks[m] \in ToSet(sub) PROVE FALSE
  <2>1. PICK n \in 1 .. Len(ks) : n <= b /\ ks[n] = ks[m]
    BY <1>4, <1>6
  <2>2. n = m
    BY <2>1 DEF Distinct
  <2> QED BY <2>1, <2>2, <1>6
<1> QED BY <1>1, <1>3, <1>4, <1>5, <1>6

\* The keys that a request has still to type are typed, all or the next one.
LEMMA TypeKeysHolds ==
  ASSUME IInv, NEW i \in 1 .. Len(serving), TypeKeys(i)
  PROVE  IInv'
<1>0. TypeOK /\ HeldSide /\ ServedSide /\ Between
  BY DEF IInv
<1>1. PICK s \in Seq(Request) : s = serving
  BY <1>0 DEF TypeOK, Request
<1>2. PICK p \in Request : p = s[i]
  BY <1>1
<1>3. PICK last : last = IF p.pane \in PtyPanes THEN Len(p.keys) ELSE p.done + 1
  OBVIOUS
<1>4. PICK sub : sub = SubSeq(p.keys, p.done + 1, last)
  OBVIOUS
<1>5. PICK r : r = [p EXCEPT !.done = last]
  OBVIOUS
<1>6. PICK t : t = Replaced(s, i, r)
  OBVIOUS
<1>7. /\ typed' = [typed EXCEPT ![p.pane] = @ \o sub]
      /\ UNCHANGED <<ui, lane, call, conn, service, crashes>>
  BY <1>1, <1>2, <1>3, <1>4 DEF TypeKeys
<1>8. serving' = t
  BY <1>1, <1>2, <1>3, <1>5, <1>6 DEF TypeKeys, Replaced
<1>9. Fits(s) /\ Once(s) /\ \A k \in 1 .. Len(s) : RestOf(s[k], TypedKeys)
  BY <1>0, <1>1 DEF ServedSide, ServedOnce, RestIsUntyped
<1>10. /\ p.keys \in Seq(Keys) /\ Len(p.keys) \in Nat /\ p.done \in Nat /\ p.pane \in Panes
       /\ p.answer # "unsent" /\ p.done < Len(p.keys) /\ Len(p.keys) <= FrameKeys
       /\ FrameKeys \in Nat
  <2>1. p.keys \in Seq(Keys) /\ p.done \in 0 .. FrameKeys /\ p.pane \in Panes
    BY <1>2 DEF Request
  <2>2. p.answer # "unsent" /\ p.done < Len(p.keys)
    BY <1>1, <1>2 DEF TypeKeys, MayType, Unfinished
  <2>3. Len(p.keys) <= FrameKeys
    BY <1>1, <1>2, <1>9 DEF Fits
  <2> QED BY <2>1, <2>2, <2>3, CapacitiesAssumption
<1>11. last \in Nat /\ last <= Len(p.keys) /\ p.done <= last /\ last \in 0 .. FrameKeys
  BY <1>3, <1>10
<1>12. /\ r \in Request /\ r.keys = p.keys /\ r.done = last /\ r.answer = p.answer
       /\ r.awaited = p.awaited /\ r.pane = p.pane
  BY <1>2, <1>5, <1>11 DEF Request
<1>13. /\ sub \in Seq(Keys) /\ Distinct(sub) /\ ToSet(sub) \subseteq ToSet(p.keys)
       /\ \A m \in 1 .. Len(p.keys) : m > last => p.keys[m] \notin ToSet(sub)
       /\ \A k \in ToSet(sub) : \E m \in 1 .. Len(p.keys) : m > p.done /\ p.keys[m] = k
  <2>1. Distinct(p.keys)
    BY <1>1, <1>2, <1>9 DEF Once
  <2>2. PICK ks : ks = p.keys
    OBVIOUS
  <2>3. PICK done : done = p.done
    OBVIOUS
  <2>4. /\ ks \in Seq(Keys) /\ Distinct(ks) /\ done \in Nat /\ last \in Nat
        /\ done <= last /\ last <= Len(ks)
    BY <2>1, <2>2, <2>3, <1>10, <1>11
  <2>5. sub = SubSeq(ks, done + 1, last)
    BY <2>2, <2>3, <1>4
  <2>6. sub \in Seq(Keys) /\ Part(sub, ks, done, last)
    BY <2>4, <2>5, SubSeqIs DEF Part
  <2>7. /\ Distinct(sub) /\ ToSet(sub) \subseteq ToSet(ks)
        /\ \A m \in 1 .. Len(ks) : m > last => ks[m] \notin ToSet(sub)
        /\ \A k \in ToSet(sub) : \E m \in 1 .. Len(ks) : m > done /\ ks[m] = k
    BY <2>4, <2>6, KeysAfter
  <2> QED BY <2>2, <2>3, <2>6, <2>7
<1>14. ToSet(sub) \cap TypedKeys = {}
  <2>1. RestOf(p, TypedKeys)
    BY <1>1, <1>2, <1>9
  <2>2. \A m \in 1 .. Len(p.keys) : m > p.done => p.keys[m] \notin TypedKeys
    BY <2>1 DEF RestOf
  <2> QED BY <2>2, <1>13
<1>15. ToSet(p.keys) \subseteq ServedKeys
  BY <1>0, <1>1, <1>2, RequestsAreServed
<1>16. typed \in [Panes -> Seq(Keys)] /\ \A q \in Panes : ToSet(typed[q]) \subseteq TypedKeys
  BY <1>0 DEF TypeOK, TypedKeys
<1>17. PICK w \in Seq(Keys) : w = typed[p.pane]
  BY <1>10, <1>16
<1>18. PICK v : v = w \o sub
  OBVIOUS
<1>19. v \in Seq(Keys) /\ ToSet(v) = ToSet(w) \cup ToSet(sub)
  BY <1>13, <1>18, Joined, ToSetJoin
<1>20. /\ typed' \in [Panes -> Seq(Keys)]
       /\ \A q \in Panes : typed'[q] = IF q = p.pane THEN v ELSE typed[q]
  BY <1>7, <1>10, <1>16, <1>17, <1>18, <1>19
<1>21. TypedKeys' = TypedKeys \cup ToSet(sub)
  <2>1. TypedKeys' = UNION {ToSet(typed'[q]) : q \in Panes}
    BY DEF TypedKeys
  <2>2. \A k : k \in TypedKeys' <=> \E q \in Panes : k \in ToSet(typed'[q])
    BY <2>1
  <2>3. \A k : k \in TypedKeys <=> \E q \in Panes : k \in ToSet(typed[q])
    BY DEF TypedKeys
  <2> QED BY <2>2, <2>3, <1>10, <1>17, <1>19, <1>20
<1>22. TypedOnce'
  <2>1. /\ \A q \in Panes : Distinct(typed[q])
        /\ \A q, o \in Panes : q # o => ToSet(typed[q]) \cap ToSet(typed[o]) = {}
    BY <1>0 DEF ServedSide, TypedOnce
  <2>2. Distinct(v)
    <3>1. ToSet(w) \cap ToSet(sub) = {} /\ Distinct(w)
      BY <2>1, <1>10, <1>14, <1>16, <1>17
    <3> QED BY <3>1, <1>13, <1>18, DistinctJoin
  <2>3. \A q \in Panes : q # p.pane => ToSet(typed[q]) \cap ToSet(v) = {}
    BY <2>1, <1>10, <1>14, <1>16, <1>17, <1>19
  <2>4. \A q \in Panes : Distinct(typed'[q])
    BY <2>1, <2>2, <1>20
  <2>5. \A q, o \in Panes : q # o => ToSet(typed'[q]) \cap ToSet(typed'[o]) = {}
    BY <2>1, <2>3, <1>20
  <2> QED BY <2>4, <2>5 DEF TypedOnce
<1>23. /\ t \in Seq(Request) /\ Fits(t) /\ Once(t) /\ KeysOf(t) \subseteq KeysOf(s)
  BY <1>1, <1>2, <1>6, <1>9, <1>12, ReplacedKeys
<1>24. RestIsUntyped'
  <2>1. PICK T : T = TypedKeys \cup ToSet(sub)
    OBVIOUS
  <2>2. RestOf(r, T)
    <3>1. RestOf(p, TypedKeys)
      BY <1>1, <1>2, <1>9
    <3>2. \A m \in 1 .. Len(p.keys) : m > last => p.keys[m] \notin TypedKeys
      BY <3>1, <1>10, <1>11 DEF RestOf
    <3> QED BY <3>2, <2>1, <1>10, <1>11, <1>12, <1>13 DEF RestOf
  <2>3. ASSUME NEW k \in 1 .. Len(s), k # i PROVE RestOf(s[k], T)
    <3>1. ToSet(s[k].keys) \cap ToSet(p.keys) = {}
      BY <2>3, <1>1, <1>2, <1>9 DEF Once
    <3>2. \A m \in 1 .. Len(s[k].keys) : s[k].keys[m] \in ToSet(s[k].keys)
      <4>1. s[k].keys \in Seq(Keys)
        BY <1>0, <1>1, RequestsAreServed
      <4> QED BY <4>1, ToSetIs
    <3>3. RestOf(s[k], TypedKeys)
      BY <1>9
    <3> QED BY <3>1, <3>2, <3>3, <2>1, <1>13 DEF RestOf
  <2>4. \A k \in 1 .. Len(t) : RestOf(t[k], T)
    BY <2>2, <2>3, <1>1, <1>6, <1>12, ReplacedRests
  <2> QED BY <2>1, <2>4, <1>8, <1>21 DEF RestIsUntyped
<1>25. HeldSide' /\ HeldKeys' = HeldKeys /\ InFlightKeys' = InFlightKeys
  BY <1>0, <1>7, HeldSideStays
<1>26. AwaitedIsInFlight'
  <2>1. PICK reading : reading = Reading
    OBVIOUS
  <2>2. PICK keys : keys = in_flight.keys
    OBVIOUS
  <2>3. PICK inFlight : inFlight = InFlightKeys
    OBVIOUS
  <2>4. /\ \A k \in 1 .. Len(s) : AwaitsOf(s[k], reading, keys, inFlight)
        /\ \A k, l \in 1 .. Len(s) : s[k].awaited /\ s[l].awaited => k = l
    BY <2>1, <2>2, <2>3, <1>0, <1>1 DEF ServedSide, AwaitedIsInFlight
  <2>5. AwaitsOf(r, reading, keys, inFlight)
    BY <2>4, <1>1, <1>2, <1>12 DEF AwaitsOf
  <2>6. /\ \A k \in 1 .. Len(t) : AwaitsOf(t[k], reading, keys, inFlight)
        /\ \A k, l \in 1 .. Len(t) : t[k].awaited /\ t[l].awaited => k = l
    BY <2>4, <2>5, <1>1, <1>2, <1>6, <1>12, ReplacedAwaits
  <2>7. Reading' = Reading /\ in_flight' = in_flight
    BY <1>7 DEF Reading, ui, buffer
  <2> QED BY <2>1, <2>2, <2>3, <2>6, <2>7, <1>8, <1>25 DEF AwaitedIsInFlight
<1>27. ServedSide'
  BY <1>8, <1>22, <1>23, <1>24, <1>26 DEF ServedSide, ServedOnce
<1>28. TypeOK' /\ emitted' = emitted
  <2>1. UiTypes'
    BY <1>0, <1>7, Types, UiTypesStay
  <2>2. ServiceTypes'
    BY <1>0, <1>7, <1>8, <1>20, <1>23, Types DEF ServiceTypes
  <2> QED BY <2>1, <2>2, <1>7 DEF UiTypes, ServiceTypes, TypeOK, Request, ui
<1>29. /\ ServedKeys' \subseteq ServedKeys
       /\ ServedKeys' \cup TypedKeys' \subseteq ServedKeys \cup TypedKeys
  BY <1>1, <1>8, <1>13, <1>15, <1>21, <1>23 DEF ServedKeys
<1>30. Between'
  BY <1>0, <1>7, <1>25, <1>28, <1>29
  DEF Between, HeldIsUnsent, UnsentLeftNoTrace, SentWasEmitted
<1> QED BY <1>25, <1>27, <1>28, <1>30 DEF IInv

\* A handler answers; "unsent" only if nothing was typed.
LEMMA AnswerHolds ==
  ASSUME IInv, NEW i \in 1 .. Len(serving), Answer(i)
  PROVE  IInv'
<1>0. TypeOK /\ HeldSide /\ ServedSide /\ Between
  BY DEF IInv
<1>1. PICK s \in Seq(Request) : s = serving
  BY <1>0 DEF TypeOK, Request
<1>2. PICK p \in Request : p = s[i]
  BY <1>1
<1>3. PICK outcome \in Outcomes :
        /\ MayAnswer(p, outcome)
        /\ serving' = Remaining([s EXCEPT ![i].answer = outcome])
  BY <1>1, <1>2 DEF Answer
<1>4. PICK r : r = [p EXCEPT !.answer = outcome]
  OBVIOUS
<1>5. PICK t : t = Replaced(s, i, r)
  OBVIOUS
<1>6. serving' = t /\ UNCHANGED <<ui, lane, call, conn, service, crashes, typed>>
  BY <1>1, <1>2, <1>3, <1>4, <1>5 DEF Answer, Replaced
<1>7. /\ r \in Request /\ r.keys = p.keys /\ r.done = p.done /\ r.answer = outcome
      /\ r.awaited = p.awaited
  BY <1>2, <1>4 DEF Request
<1>8. Fits(s) /\ Once(s) /\ \A k \in 1 .. Len(s) : RestOf(s[k], TypedKeys)
  BY <1>0, <1>1 DEF ServedSide, ServedOnce, RestIsUntyped
<1>9. /\ t \in Seq(Request) /\ Fits(t) /\ Once(t) /\ KeysOf(t) \subseteq KeysOf(s)
  BY <1>1, <1>2, <1>5, <1>7, <1>8, ReplacedKeys
<1>10. ServedKeys' \subseteq ServedKeys /\ TypedKeys' = TypedKeys
  BY <1>1, <1>6, <1>9 DEF ServedKeys, TypedKeys
<1>11. RestIsUntyped'
  <2>1. RestOf(p, TypedKeys)
    BY <1>1, <1>2, <1>8
  <2>2. RestOf(r, TypedKeys)
    BY <2>1, <1>3, <1>7 DEF RestOf, MayAnswer
  <2>3. \A k \in 1 .. Len(t) : RestOf(t[k], TypedKeys)
    BY <2>2, <1>1, <1>5, <1>7, <1>8, ReplacedRests
  <2> QED BY <2>3, <1>6, <1>10 DEF RestIsUntyped
<1>12. HeldSide' /\ HeldKeys' = HeldKeys /\ InFlightKeys' = InFlightKeys
  BY <1>0, <1>6, HeldSideStays
<1>13. AwaitedIsInFlight'
  <2>1. PICK reading : reading = Reading
    OBVIOUS
  <2>2. PICK keys : keys = in_flight.keys
    OBVIOUS
  <2>3. PICK inFlight : inFlight = InFlightKeys
    OBVIOUS
  <2>4. /\ \A k \in 1 .. Len(s) : AwaitsOf(s[k], reading, keys, inFlight)
        /\ \A k, l \in 1 .. Len(s) : s[k].awaited /\ s[l].awaited => k = l
    BY <2>1, <2>2, <2>3, <1>0, <1>1 DEF ServedSide, AwaitedIsInFlight
  <2>5. AwaitsOf(r, reading, keys, inFlight)
    BY <2>4, <1>1, <1>2, <1>7 DEF AwaitsOf
  <2>6. /\ \A k \in 1 .. Len(t) : AwaitsOf(t[k], reading, keys, inFlight)
        /\ \A k, l \in 1 .. Len(t) : t[k].awaited /\ t[l].awaited => k = l
    BY <2>4, <2>5, <1>1, <1>2, <1>5, <1>7, ReplacedAwaits
  <2>7. Reading' = Reading /\ in_flight' = in_flight
    BY <1>6 DEF Reading, ui, buffer
  <2> QED BY <2>1, <2>2, <2>3, <2>6, <2>7, <1>6, <1>12 DEF AwaitedIsInFlight
<1>14. ServedSide'
  BY <1>0, <1>6, <1>9, <1>11, <1>13 DEF ServedSide, ServedOnce, TypedOnce
<1>15. TypeOK' /\ emitted' = emitted
  <2>1. UiTypes'
    BY <1>0, <1>6, Types, UiTypesStay
  <2>2. ServiceTypes'
    BY <1>0, <1>6, <1>9, Types DEF ServiceTypes
  <2> QED BY <2>1, <2>2, <1>6 DEF UiTypes, ServiceTypes, TypeOK, Request, ui
<1>16. Between'
  BY <1>0, <1>6, <1>10, <1>12, <1>15
  DEF Between, HeldIsUnsent, UnsentLeftNoTrace, SentWasEmitted
<1> QED BY <1>12, <1>14, <1>15, <1>16 DEF IInv

\* The service ends, with every request it had, or starts again.
LEMMA ServiceHolds ==
  ASSUME IInv, ServiceEnds \/ ServiceStarts
  PROVE  IInv'
<1>0. TypeOK /\ HeldSide /\ ServedSide /\ Between
  BY DEF IInv
<1>1. UNCHANGED <<ui, lane, call, typed>>
  BY DEF ServiceEnds, ServiceStarts
<1>2. HeldSide' /\ HeldKeys' = HeldKeys /\ InFlightKeys' = InFlightKeys
  BY <1>0, <1>1, HeldSideStays
<1>3. TypedKeys' = TypedKeys /\ emitted' = emitted /\ in_flight' = in_flight
  BY <1>1 DEF TypedKeys, ui, buffer
<1>4. CASE ServiceEnds
  <2>1. /\ serving' = <<>> /\ service' = "down" /\ crashes < MaxCrashes
        /\ crashes' = crashes + 1 /\ conn' \in {"none", "open", "dead"}
    BY <1>0, <1>4 DEF ServiceEnds, TypeOK
  <2>2. KeysOf(<<>>) = {} /\ Fits(<<>>) /\ Once(<<>>) /\ Len(<<>>) = 0
    BY KeysOfNothing DEF Fits, Once
  <2>3. ServiceTypes'
    <3>1. crashes' \in 0 .. MaxCrashes
      BY <2>1, <1>0, CapacitiesAssumption DEF TypeOK
    <3> QED BY <3>1, <2>1, <1>0, <1>1, Types DEF ServiceTypes
  <2>4. ServedSide'
    BY <2>1, <2>2, <1>0, <1>1
    DEF ServedSide, ServedOnce, AwaitedIsInFlight, RestIsUntyped, TypedOnce
  <2>5. ServedKeys' = {}
    BY <2>1, <2>2 DEF ServedKeys
  <2>6. Between'
    BY <2>5, <1>0, <1>1, <1>2, <1>3
    DEF Between, HeldIsUnsent, UnsentLeftNoTrace, SentWasEmitted
  <2>7. TypeOK'
    BY <2>3, <1>0, <1>1, Types, UiTypesStay DEF UiTypes, ServiceTypes, TypeOK, Request
  <2> QED BY <2>4, <2>6, <2>7, <1>2 DEF IInv
<1>5. CASE ServiceStarts
  <2>1. service' = "up" /\ UNCHANGED <<conn, crashes, serving>>
    BY <1>5 DEF ServiceStarts
  <2>2. ServedSide' /\ ServedKeys' = ServedKeys
    BY <2>1, <1>0, <1>1, <1>3, ServedSideStays
  <2>3. Between'
    BY <2>2, <1>0, <1>1, <1>2, <1>3
    DEF Between, HeldIsUnsent, UnsentLeftNoTrace, SentWasEmitted
  <2>4. ServiceTypes'
    BY <2>1, <1>0, <1>1, Types DEF ServiceTypes
  <2>5. TypeOK'
    BY <2>4, <1>0, <1>1, Types, UiTypesStay DEF UiTypes, ServiceTypes, TypeOK, Request
  <2> QED BY <2>2, <2>3, <2>5, <1>2 DEF IInv
<1> QED BY <1>4, <1>5

-----------------------------------------------------------------------------
(* The invariant holds. *)

LEMMA InitHolds == Init => IInv
<1> SUFFICES ASSUME Init PROVE IInv
  OBVIOUS
<1>1. /\ KeysOf(<<>>) = {} /\ SizeOf(<<>>) = 0 /\ Fits(<<>>) /\ Once(<<>>)
      /\ Len(<<>>) = 0 /\ Distinct(<<>>) /\ ToSet(<<>>) = {}
  BY KeysOfNothing, SizeOfNothing DEF Fits, Once, Distinct, ToSet
<1>2. TypeOK
  <2>1. /\ 0 \in 0 .. MaxKeys /\ 0 \in 0 .. Capacity /\ 0 \in 0 .. MaxCrashes
        /\ 0 \in 0 .. MaxRetries
    BY CapacitiesAssumption
  <2>2. <<>> \in Seq(Frame) /\ <<>> \in Seq(Request) /\ <<>> \in Seq(Keys)
    OBVIOUS
  <2>3. UiTypes
    BY <2>1, <2>2 DEF Init, UiTypes
  <2>4. ServiceTypes
    BY <2>1, <2>2 DEF Init, ServiceTypes
  <2> QED BY <2>3, <2>4, Types
<1>3. InFlightKeys = {} /\ HeldKeys = {} /\ ServedKeys = {}
  BY <1>1 DEF Init, InFlightKeys, HeldKeys, ServedKeys
<1>4. TypedKeys = {}
  BY <1>1 DEF Init, TypedKeys
<1>5. HeldSide
  <2>1. 1 .. 0 = {}
    OBVIOUS
  <2> QED BY <2>1, <1>1, <1>3
      DEF Init, HeldSide, LaneCalls, FramesFit, BufferedIsHeld, NoKeyIsLost, HeldOnce
<1>6. ServedSide
  BY <1>1 DEF Init, ServedSide, ServedOnce, AwaitedIsInFlight, RestIsUntyped, TypedOnce
<1>7. Between
  BY <1>3, <1>4 DEF Between, HeldIsUnsent, UnsentLeftNoTrace, SentWasEmitted
<1> QED BY <1>2, <1>5, <1>6, <1>7 DEF IInv

LEMMA StutterHolds ==
  ASSUME IInv, UNCHANGED vars
  PROVE  IInv'
<1>0. TypeOK /\ HeldSide /\ ServedSide /\ Between
  BY DEF IInv
<1>1. /\ UNCHANGED <<ui, lane>> /\ UNCHANGED <<serving, typed, call, conn, in_flight>>
      /\ UNCHANGED <<emitted, service, crashes>>
  BY DEF vars, ui, buffer
<1>2. HeldSide' /\ HeldKeys' = HeldKeys /\ InFlightKeys' = InFlightKeys
  BY <1>0, <1>1, HeldSideStays
<1>3. ServedSide' /\ ServedKeys' = ServedKeys /\ TypedKeys' = TypedKeys
  BY <1>0, <1>1, ServedSideStays
<1>4. Between'
  BY <1>0, <1>1, <1>2, <1>3 DEF Between, HeldIsUnsent, UnsentLeftNoTrace, SentWasEmitted
<1>5. TypeOK'
  BY <1>0, <1>1 DEF TypeOK, vars, ui, buffer
<1> QED BY <1>2, <1>3, <1>4, <1>5 DEF IInv

LEMMA StepHolds == IInv /\ [Next]_vars => IInv'
<1> SUFFICES ASSUME IInv, [Next]_vars PROVE IInv'
  OBVIOUS
<1>1. DOMAIN serving = 1 .. Len(serving)
  <2>1. PICK s \in Seq(Request) : s = serving
    BY DEF IInv, TypeOK, Request
  <2>2. DOMAIN s = 1 .. Len(s)
    OBVIOUS
  <2> QED BY <2>1, <2>2
<1>2. CASE \E p \in Panes, n \in 1 .. FrameKeys : try_send(p, n)
  BY <1>2, TrySendHolds
<1>3. CASE replay_recoverable
  BY <1>3, ReplayHolds
<1>4. CASE Lane
  BY <1>4, LaneMovesHolds, BeginHolds DEF Lane
<1>5. CASE Client
  BY <1>5, ConnectionHolds, WriteRequestHolds, AnswersHold DEF Client
<1>6. CASE \E i \in DOMAIN serving : TypeKeys(i) \/ Answer(i)
  BY <1>1, <1>6, TypeKeysHolds, AnswerHolds
<1>7. CASE ServiceEnds \/ ServiceStarts
  BY <1>7, ServiceHolds
<1>8. CASE UNCHANGED vars
  BY <1>8, StutterHolds
<1> QED BY <1>2, <1>3, <1>4, <1>5, <1>6, <1>7, <1>8 DEF Next

\* Every reachable state satisfies the invariant.
THEOREM Invariance == Spec => []IInv
BY InitHolds, StepHolds, PTL DEF Spec

\* The types of the variables, for any number of terminals and keys.
THEOREM TypeCorrect == Spec => []TypeOK
<1>1. IInv => TypeOK
  BY DEF IInv
<1> QED BY <1>1, Invariance, PTL

\* TerminalInputBuffer's buffered_bytes is what its three queues hold: space
\* taken by try_send comes back when, and only when, the input leaves them.
THEOREM BufferedIsHeldHolds == Spec => []BufferedIsHeld
<1>1. IInv => BufferedIsHeld
  BY DEF IInv, HeldSide
<1> QED BY <1>1, Invariance, PTL

\* No key that try_send accepted disappears silently, whatever becomes of the
\* connection and of the service.
THEOREM NoKeyIsLostHolds == Spec => []NoKeyIsLost
<1>1. IInv => NoKeyIsLost
  BY DEF IInv, HeldSide
<1> QED BY <1>1, Invariance, PTL

\* No key is typed twice: call_with_delivery's second attempt, the user's
\* retry and a service that starts again send only what nobody typed.
THEOREM NoKeyTwiceHolds == Spec => []NoKeyTwice
<1>1. ASSUME IInv PROVE NoKeyTwice
  <2>1. TypedOnce /\ typed \in [Panes -> Seq(Keys)]
    BY <1>1 DEF IInv, ServedSide, TypeOK
  <2> SUFFICES ASSUME NEW p \in Panes, NEW q \in Panes, NEW i \in DOMAIN typed[p],
                      NEW j \in DOMAIN typed[q], typed[p][i] = typed[q][j]
               PROVE  p = q /\ i = j
    BY DEF NoKeyTwice
  <2>2. PICK a \in Seq(Keys) : a = typed[p]
    BY <2>1
  <2>3. PICK b \in Seq(Keys) : b = typed[q]
    BY <2>1
  <2>4. i \in 1 .. Len(a) /\ j \in 1 .. Len(b) /\ a[i] = b[j]
    BY <2>2, <2>3
  <2>5. a[i] \in ToSet(a) /\ b[j] \in ToSet(b)
    BY <2>4, ToSetIs
  <2>6. p = q
    BY <2>1, <2>2, <2>3, <2>4, <2>5 DEF TypedOnce
  <2>7. Distinct(a)
    BY <2>1, <2>2 DEF TypedOnce
  <2> QED BY <2>2, <2>3, <2>4, <2>6, <2>7 DEF Distinct
<1> QED BY <1>1, Invariance, PTL

-----------------------------------------------------------------------------
(* The order of the keys.  Each terminal's certain keys rise, and so do the *)
(* keys that wait for it: in a request, then in flight, then in the queue.  *)

\* Of the keys that were not sent again, those of S are all before those of T.
Precede(S, T, R) == \A k \in S \ R, l \in T \ R : k < l

Rising(s, R) ==
  \A m, n \in 1 .. Len(s) : m < n /\ s[m] \notin R /\ s[n] \notin R => s[m] < s[n]

InOrder(frames, R) ==
  /\ \A i \in 1 .. Len(frames) : Rising(frames[i].keys, R)
  /\ \A i, j \in 1 .. Len(frames) :
       i < j /\ frames[i].pane = frames[j].pane =>
         Precede(ToSet(frames[i].keys), ToSet(frames[j].keys), R)

\* A plain PTY still types what an unfinished request brought it.
Waits(r) == r.pane \in PtyPanes /\ Unfinished(r)

\* The keys K come after those that p's terminal, which typed w, surely types
\* before them, some of them in the requests s.
Follows(p, K, w, s, A, R) ==
  /\ Precede(IF p \in PtyPanes THEN ToSet(w) ELSE ToSet(w) \cap A, K, R)
  /\ \A i \in 1 .. Len(s) :
       Waits(s[i]) /\ s[i].pane = p => Precede(ToSet(s[i].keys), K, R)

Uncertain(p) == IF p \in PtyPanes THEN retried ELSE retried \cup (Keys \ acked)

TypedRises == \A p \in Panes : Rising(typed[p], Uncertain(p))

QueueFollows ==
  /\ InOrder(queued, retried)
  /\ \A i \in 1 .. Len(queued) : 
       Follows(queued[i].pane, ToSet(queued[i].keys), typed[queued[i].pane], serving, acked,
               retried)

FlightFollows == in_flight # NoFrame =>
  /\ Rising(in_flight.keys, retried)
  /\ \A i \in 1 .. Len(queued) :
       queued[i].pane = in_flight.pane =>
         Precede(ToSet(in_flight.keys), ToSet(queued[i].keys), retried)
  /\ call # "read" \/ in_flight.pane \notin PtyPanes =>
       Follows(in_flight.pane, ToSet(in_flight.keys), typed[in_flight.pane], serving, acked,
               retried)
  /\ \A i \in 1 .. Len(serving) : serving[i].awaited => serving[i].pane = in_flight.pane

\* A plain PTY has typed nothing of a request that waits, and all it types
\* comes before.
WaitingFollows ==
  /\ \A i \in 1 .. Len(serving) : Waits(serving[i]) =>
       /\ serving[i].done = 0
       /\ Precede(ToSet(typed[serving[i].pane]), ToSet(serving[i].keys), retried)
  /\ \A i, j \in 1 .. Len(serving) :
       i < j /\ Waits(serving[i]) /\ Waits(serving[j]) /\ serving[i].pane = serving[j].pane =>
         Precede(ToSet(serving[i].keys), ToSet(serving[j].keys), retried)

\* What a tmux terminal has typed of the keys K: after all it was known to
\* have typed before, and in order.
TypedAfter(s, K, A, R) ==
  \A m, n \in 1 .. Len(s) : s[n] \in K =>
    /\ s[m] \in A => m < n
    /\ m < n /\ s[m] \in K \ R /\ s[n] \notin R => s[m] < s[n]

AwaitedIsTyped ==
  \A i \in 1 .. Len(serving) : serving[i].awaited =>
    /\ \A q \in Panes : q # serving[i].pane => ToSet(typed[q]) \cap ToSet(serving[i].keys) = {}
    /\ serving[i].pane \notin PtyPanes =>
         TypedAfter(typed[serving[i].pane], ToSet(serving[i].keys), acked, retried)

DeliveredWhole(r) == r.answer = "delivered" => r.done = Len(r.keys)

ServedRises ==
  \A i \in 1 .. Len(serving) :
    Rising(serving[i].keys, retried) /\ DeliveredWhole(serving[i])

AckedIsGone == acked \cap (HeldKeys \cup InFlightKeys \cup ServedKeys) = {}

OrderInv == TypedRises /\ QueueFollows /\ FlightFollows /\ WaitingFollows
            /\ AwaitedIsTyped /\ ServedRises /\ AckedIsGone

LEMMA PrecedeLess ==
  ASSUME NEW S, NEW T, NEW R, Precede(S, T, R),
         NEW S1, NEW T1, NEW R1, S1 \subseteq S, T1 \subseteq T, R \subseteq R1
  PROVE  Precede(S1, T1, R1)
BY DEF Precede

LEMMA PrecedeJoin ==
  ASSUME NEW R, NEW S, NEW S1, NEW T, NEW T1
  PROVE  /\ Precede(S \cup S1, T, R) <=> Precede(S, T, R) /\ Precede(S1, T, R)
         /\ Precede(S, T \cup T1, R) <=> Precede(S, T, R) /\ Precede(S, T1, R)
BY DEF Precede

\* Keys that were sent again, and keys that a bound separates.
LEMMA PrecedeNoted ==
  ASSUME NEW S, NEW T, NEW R
  PROVE  S \subseteq R \/ T \subseteq R => Precede(S, T, R)
BY DEF Precede

LEMMA PrecedeNew ==
  ASSUME NEW e \in Nat, NEW n \in Nat, NEW S, NEW T, NEW R,
         S \subseteq 1 .. e, T \subseteq e + 1 .. e + n
  PROVE  Precede(S, T, R)
<1>1. \A k \in S, l \in T : k \in Nat /\ l \in Nat /\ k <= e /\ e + 1 <= l
  OBVIOUS
<1> QED BY <1>1 DEF Precede

LEMMA RisingLess ==
  ASSUME NEW s, NEW R, NEW R1, Rising(s, R), R \subseteq R1
  PROVE  Rising(s, R1)
BY DEF Rising

LEMMA RisingNoted ==
  ASSUME NEW s \in Seq(Keys), NEW R, ToSet(s) \subseteq R
  PROVE  Rising(s, R)
<1>1. \A m \in 1 .. Len(s) : s[m] \in ToSet(s)
  BY ToSetIs
<1> QED BY <1>1 DEF Rising

LEMMA RisingJoin ==
  ASSUME NEW a \in Seq(Keys), NEW b \in Seq(Keys), NEW R,
         Rising(a, R), Rising(b, R), Precede(ToSet(a), ToSet(b), R)
  PROVE  Rising(a \o b, R)
<1> SUFFICES ASSUME NEW m \in 1 .. Len(a \o b), NEW n \in 1 .. Len(a \o b), m < n,
                    (a \o b)[m] \notin R, (a \o b)[n] \notin R
             PROVE  (a \o b)[m] < (a \o b)[n]
  BY DEF Rising
<1>0. Len(a) \in Nat /\ Len(b) \in Nat
  OBVIOUS
<1>1. \A i \in 1 .. Len(a) : a[i] \in ToSet(a)
  BY ToSetIs
<1>2. \A i \in 1 .. Len(b) : b[i] \in ToSet(b)
  BY ToSetIs
<1>3. \/ m \in 1 .. Len(a) /\ (a \o b)[m] = a[m]
      \/ \E i \in 1 .. Len(b) : m = Len(a) + i /\ (a \o b)[m] = b[i]
  BY JoinedPart
<1>4. \/ n \in 1 .. Len(a) /\ (a \o b)[n] = a[n]
      \/ \E i \in 1 .. Len(b) : n = Len(a) + i /\ (a \o b)[n] = b[i]
  BY JoinedPart
<1> DEFINE x == (a \o b)[m]  y == (a \o b)[n]
<1> HIDE DEF x, y
<1> SUFFICES x < y
  BY DEF x, y
<1>5. x \notin R /\ y \notin R
  BY DEF x, y
<1>6. CASE m \in 1 .. Len(a) /\ x = a[m] /\ n \in 1 .. Len(a) /\ y = a[n]
  BY <1>5, <1>6 DEF Rising
<1>7. ASSUME NEW j \in 1 .. Len(b), m \in 1 .. Len(a), x = a[m], y = b[j] PROVE x < y
  BY <1>1, <1>2, <1>5, <1>7 DEF Precede
<1>8. ASSUME NEW i \in 1 .. Len(b), m = Len(a) + i, n \in 1 .. Len(a) PROVE FALSE
  BY <1>0, <1>8
<1>9. ASSUME NEW i \in 1 .. Len(b), NEW j \in 1 .. Len(b), m = Len(a) + i, x = b[i],
             n = Len(a) + j, y = b[j]
      PROVE  x < y
  <2>1. i < j
    BY <1>0, <1>9
  <2> QED BY <2>1, <1>5, <1>9 DEF Rising
<1> QED BY <1>3, <1>4, <1>6, <1>7, <1>8, <1>9 DEF x, y

LEMMA NewKeysRise ==
  ASSUME NEW e \in Nat, NEW n \in Nat, NEW R, NEW ks, ks = [i \in 1 .. n |-> e + i]
  PROVE  Rising(ks, R)
<1>1. Len(ks) = n /\ \A i \in 1 .. n : ks[i] = e + i
  OBVIOUS
<1> QED BY <1>1 DEF Rising

\* The queue with new keys: in its last frame or in one of their own.
Grown(s, t, ks) ==
  /\ Len(t) \in {Len(s), Len(s) + 1} /\ Len(t) \in Nat \ {0} /\ t \in Seq(Frame)
  /\ \A i \in 1 .. Len(t) : i < Len(t) => i \in 1 .. Len(s) /\ t[i] = s[i]
  /\ IF Len(t) = Len(s)
     THEN /\ t[Len(t)].pane = s[Len(s)].pane
          /\ t[Len(t)].keys = s[Len(s)].keys \o ks
     ELSE t[Len(t)].keys = ks

LEMMA AppendInputGrows ==
  ASSUME NEW p \in Panes, NEW keys \in Seq(Keys), NEW t, t = AppendInput(p, keys),
         NEW s \in Seq(Frame), s = queued
  PROVE  Grown(s, t, keys)
<1>1. CASE ~ Coalesces(p, Len(keys))
  <2>1. PICK f : f = [pane |-> p, keys |-> keys]
    OBVIOUS
  <2>2. f \in Frame /\ f.keys = keys
    BY <2>1 DEF Frame
  <2>3. t = Append(s, f)
    BY <1>1, <2>1 DEF AppendInput
  <2>4. /\ t \in Seq(Frame) /\ Len(t) = Len(s) + 1 /\ Len(s) \in Nat /\ t[Len(s) + 1] = f
        /\ \A i \in 1 .. Len(s) : t[i] = s[i]
    BY <2>2, <2>3
  <2> QED BY <2>2, <2>4 DEF Grown
<1>2. CASE Coalesces(p, Len(keys))
  <2>1. s # <<>>
    BY <1>2 DEF Coalesces
  <2>2. PICK g : g = s[Len(s)]
    OBVIOUS
  <2>3. PICK h : h = [g EXCEPT !.keys = g.keys \o keys]
    OBVIOUS
  <2>4. Len(s) \in Nat \ {0} /\ g \in Frame
    BY <2>1, <2>2
  <2>5. h \in Frame /\ h.keys = g.keys \o keys /\ h.pane = g.pane
    <3>1. g.keys \in Seq(Keys)
      BY <2>4 DEF Frame
    <3>2. g.keys \o keys \in Seq(Keys)
      BY <3>1
    <3> QED BY <3>2, <2>3, <2>4 DEF Frame
  <2>6. t = [s EXCEPT ![Len(s)] = h]
    BY <1>2, <2>2, <2>3 DEF AppendInput
  <2>7. /\ t \in Seq(Frame) /\ Len(t) = Len(s) /\ t[Len(s)] = h
        /\ \A i \in 1 .. Len(s) : i < Len(s) => t[i] = s[i]
    BY <2>4, <2>5, <2>6
  <2> QED BY <2>2, <2>4, <2>5, <2>7 DEF Grown
<1> QED BY <1>1, <1>2

LEMMA FollowsLess ==
  ASSUME NEW p, NEW K, NEW w, NEW s, NEW A, NEW R, Follows(p, K, w, s, A, R),
         NEW K1, NEW R1, K1 \subseteq K, R \subseteq R1
  PROVE  Follows(p, K1, w, s, A, R1)
BY PrecedeLess DEF Follows

LEMMA FollowsJoin ==
  ASSUME NEW p, NEW K, NEW K1, NEW w, NEW s, NEW A, NEW R,
         Follows(p, K, w, s, A, R), Follows(p, K1, w, s, A, R)
  PROVE  Follows(p, K \cup K1, w, s, A, R)
BY PrecedeJoin DEF Follows

LEMMA FollowsNoted ==
  ASSUME NEW p, NEW K, NEW w, NEW s, NEW A, NEW R, K \subseteq R
  PROVE  Follows(p, K, w, s, A, R)
BY PrecedeNoted DEF Follows

LEMMA FollowsNew ==
  ASSUME NEW p, NEW K, NEW w, NEW s, NEW A, NEW R, NEW e \in Nat, NEW n \in Nat,
         ToSet(w) \subseteq 1 .. e, \A i \in 1 .. Len(s) : ToSet(s[i].keys) \subseteq 1 .. e,
         K \subseteq e + 1 .. e + n
  PROVE  Follows(p, K, w, s, A, R)
<1>1. PICK S : S = IF p \in PtyPanes THEN ToSet(w) ELSE ToSet(w) \cap A
  OBVIOUS
<1>2. S \subseteq 1 .. e
  BY <1>1
<1>3. Precede(S, K, R)
  BY <1>2, PrecedeNew
<1>4. \A i \in 1 .. Len(s) : Precede(ToSet(s[i].keys), K, R)
  BY PrecedeNew
<1> QED BY <1>1, <1>3, <1>4 DEF Follows

\* The parts of the invariant about what was sent.
SentInOrder == TypedRises /\ WaitingFollows /\ AwaitedIsTyped /\ ServedRises

LEMMA SentInOrderStays ==
  ASSUME SentInOrder, UNCHANGED <<typed, serving, acked, retried>>
  PROVE  SentInOrder'
BY DEF SentInOrder, TypedRises, Uncertain, WaitingFollows, AwaitedIsTyped, ServedRises

\* The queue stays in order when new keys are appended to it.
LEMMA GrownInOrder ==
  ASSUME NEW s \in Seq(Frame), NEW t, NEW ks \in Seq(Keys), Grown(s, t, ks), NEW R,
         InOrder(s, R), Rising(ks, R), NEW e \in Nat, NEW n \in Nat,
         ToSet(ks) = e + 1 .. e + n, KeysOf(s) \subseteq 1 .. e
  PROVE  InOrder(t, R)
<1>0. /\ Len(t) \in Nat \ {0} /\ Len(s) \in Nat /\ t \in Seq(Frame)
      /\ \A i \in 1 .. Len(t) : i < Len(t) => i \in 1 .. Len(s) /\ t[i] = s[i]
  BY DEF Grown
<1>1. \A i \in 1 .. Len(s) : ToSet(s[i].keys) \subseteq 1 .. e /\ s[i].keys \in Seq(Keys)
  <2>1. \A k : k \in KeysOf(s) <=> \E i \in 1 .. Len(s) : k \in ToSet(s[i].keys)
    BY FramesCarry, KeysOfIs
  <2> QED BY <2>1, FramesCarry DEF Carries
<1>2. CASE Len(t) = Len(s)
  <2>1. PICK a : a = s[Len(s)].keys
    OBVIOUS
  <2>2. PICK z : z = t[Len(t)].keys
    OBVIOUS
  <2>3. a \in Seq(Keys) /\ z = a \o ks /\ t[Len(t)].pane = s[Len(s)].pane
    BY <1>0, <1>1, <1>2, <2>1, <2>2 DEF Grown
  <2>4. ToSet(a) \subseteq 1 .. e /\ Rising(a, R)
    BY <1>0, <1>1, <1>2, <2>1 DEF InOrder
  <2>5. Precede(ToSet(a), ToSet(ks), R)
    BY <2>4, PrecedeNew
  <2>6. Rising(z, R) /\ ToSet(z) = ToSet(a) \cup ToSet(ks)
    BY <2>3, <2>4, <2>5, RisingJoin, ToSetJoin
  <2>7. ASSUME NEW i \in 1 .. Len(t), NEW j \in 1 .. Len(t), i < j, t[i].pane = t[j].pane
        PROVE  Precede(ToSet(t[i].keys), ToSet(t[j].keys), R)
    <3>1. i \in 1 .. Len(s) /\ t[i] = s[i] /\ j \in 1 .. Len(s) /\ t[j].pane = s[j].pane
      <4>1. j < Len(t) \/ j = Len(t)
        BY <1>0
      <4>2. j \in 1 .. Len(s) /\ t[j].pane = s[j].pane
        BY <4>1, <1>0, <1>2, <2>3
      <4> QED BY <4>2, <1>0, <2>7
    <3>2. Precede(ToSet(s[i].keys), ToSet(s[j].keys), R)
      BY <3>1, <2>7 DEF InOrder
    <3>3. CASE j < Len(t)
      BY <1>0, <3>1, <3>2, <3>3
    <3>4. CASE j = Len(t)
      <4>1. Precede(ToSet(s[i].keys), ToSet(ks), R)
        BY <3>1, <1>1, PrecedeNew
      <4>2. Precede(ToSet(s[i].keys), ToSet(a) \cup ToSet(ks), R)
        BY <4>1, <3>2, <3>4, <1>2, <2>1, PrecedeJoin
      <4> QED BY <4>2, <3>1, <3>4, <2>2, <2>6
    <3> QED BY <1>0, <3>3, <3>4
  <2>8. ASSUME NEW i \in 1 .. Len(t) PROVE Rising(t[i].keys, R)
    <3>1. CASE i < Len(t)
      BY <1>0, <3>1 DEF InOrder
    <3>2. CASE i = Len(t)
      BY <3>2, <2>2, <2>6
    <3> QED BY <1>0, <3>1, <3>2
  <2> QED BY <2>7, <2>8 DEF InOrder
<1>3. CASE Len(t) # Len(s)
  <2>1. Len(t) = Len(s) + 1 /\ t[Len(t)].keys = ks
    BY <1>3 DEF Grown
  <2>2. ASSUME NEW i \in 1 .. Len(t), NEW j \in 1 .. Len(t), i < j, t[i].pane = t[j].pane
        PROVE  Precede(ToSet(t[i].keys), ToSet(t[j].keys), R)
    <3>1. i \in 1 .. Len(s) /\ t[i] = s[i]
      BY <1>0, <2>2
    <3>2. CASE j < Len(t)
      <4>1. j \in 1 .. Len(s) /\ t[j] = s[j]
        BY <1>0, <3>2
      <4> QED BY <4>1, <3>1, <2>2 DEF InOrder
    <3>3. CASE j = Len(t)
      BY <3>1, <3>3, <2>1, <1>1, PrecedeNew
    <3> QED BY <1>0, <3>2, <3>3
  <2>3. ASSUME NEW i \in 1 .. Len(t) PROVE Rising(t[i].keys, R)
    <3>1. CASE i < Len(t)
      BY <1>0, <3>1 DEF InOrder
    <3>2. CASE i = Len(t)
      BY <3>2, <2>1
    <3> QED BY <1>0, <3>1, <3>2
  <2> QED BY <2>2, <2>3 DEF InOrder
<1> QED BY <1>2, <1>3

\* The i-th frame of t is the i-th of s, with the new keys or without, or new.
GrownFrame(s, t, ks, i) ==
  \/ /\ i \in 1 .. Len(s) /\ t[i].pane = s[i].pane
     /\ ToSet(t[i].keys) \subseteq ToSet(s[i].keys) \cup ToSet(ks)
  \/ ToSet(t[i].keys) = ToSet(ks)

LEMMA GrownPart ==
  ASSUME NEW s \in Seq(Frame), NEW t, NEW ks \in Seq(Keys), Grown(s, t, ks),
         NEW i \in 1 .. Len(t)
  PROVE  GrownFrame(s, t, ks, i)
<1> USE DEF GrownFrame
<1>0. /\ Len(t) \in Nat \ {0} /\ Len(s) \in Nat /\ t \in Seq(Frame)
      /\ \A j \in 1 .. Len(t) : j < Len(t) => j \in 1 .. Len(s) /\ t[j] = s[j]
  BY DEF Grown
<1>1. CASE i < Len(t)
  BY <1>0, <1>1
<1>2. CASE i = Len(t) /\ Len(t) = Len(s)
  <2>1. PICK a : a = s[i].keys
    OBVIOUS
  <2>2. a \in Seq(Keys) /\ t[i].keys = a \o ks /\ t[i].pane = s[i].pane /\ i \in 1 .. Len(s)
    BY <2>1, <1>0, <1>2, FramesCarry DEF Grown, Carries
  <2> QED BY <2>1, <2>2, ToSetJoin
<1>3. CASE i = Len(t) /\ Len(t) # Len(s)
  BY <1>3 DEF Grown
<1> QED BY <1>0, <1>1, <1>2, <1>3

\* New keys come after all others, in the frame they coalesce with too.
LEMMA TrySendOrder ==
  ASSUME IInv, OrderInv, NEW p \in Panes, NEW n \in 1 .. FrameKeys, try_send(p, n)
  PROVE  OrderInv'
<1>0. TypeOK /\ HeldSide /\ ServedSide /\ Between
  BY DEF IInv
<1>1. PICK q \in Seq(Frame) : q = queued
  BY <1>0 DEF TypeOK
<1>2. /\ emitted \in Nat /\ n \in Nat /\ FrameKeys \in Nat
  BY <1>0, CapacitiesAssumption DEF TypeOK
<1>3. PICK e \in Nat : e = emitted
  BY <1>2
<1>4. PICK ks : ks = [i \in 1 .. n |-> e + i]
  OBVIOUS
<1>5. PICK t : t = AppendInput(p, ks)
  OBVIOUS
<1>6. /\ e + n <= MaxKeys /\ queued' = t
      /\ UNCHANGED <<in_flight, recoverable, acked, retried, call, serving, typed>>
  BY <1>3, <1>4, <1>5 DEF try_send
<1>7. /\ ks \in Seq(Keys) /\ ToSet(ks) = e + 1 .. e + n /\ Rising(ks, retried)
  BY <1>2, <1>4, <1>6, NewKeys, NewKeysRise
<1>8. /\ KeysOf(q) \cup InFlightKeys \cup KeysOf(recoverable) \cup acked \subseteq 1 .. e
      /\ ServedKeys \cup TypedKeys \subseteq 1 .. e
  BY <1>0, <1>1, <1>3 DEF HeldSide, NoKeyIsLost, Between, SentWasEmitted
<1>9. Grown(q, t, ks)
  BY <1>1, <1>5, <1>7, AppendInputGrows
<1>10. SentInOrder'
  <2>1. SentInOrder
    BY DEF OrderInv, SentInOrder
  <2> QED BY <2>1, <1>6, SentInOrderStays
<1>11. InOrder(t, retried)
  BY <1>1, <1>2, <1>7, <1>8, <1>9, GrownInOrder DEF OrderInv, QueueFollows
<1>12. \A i \in 1 .. Len(serving) : ToSet(serving[i].keys) \subseteq 1 .. e
  BY <1>0, <1>8, RequestsAreServed
<1>13. \A o \in Panes : Follows(o, ToSet(ks), typed[o], serving, acked, retried)
  <2>1. \A o \in Panes : ToSet(typed[o]) \subseteq 1 .. e
    BY <1>8 DEF TypedKeys
  <2> QED BY <2>1, <1>2, <1>7, <1>12, FollowsNew
<1>14. \A i \in 1 .. Len(t) : t[i].pane \in Panes
  <2>1. t \in Seq(Frame)
    BY <1>9 DEF Grown
  <2>2. \A i \in 1 .. Len(t) : t[i] \in Frame
    BY <2>1
  <2> QED BY <2>2 DEF Frame
<1>19. ASSUME NEW i \in 1 .. Len(t)
       PROVE  GrownFrame(q, t, ks, i)
  BY <1>1, <1>7, <1>9, GrownPart
<1>15. ASSUME NEW i \in 1 .. Len(t)
       PROVE  Follows(t[i].pane, ToSet(t[i].keys), typed[t[i].pane], serving, acked, retried)
  <2>1. CASE ToSet(t[i].keys) = ToSet(ks)
    BY <2>1, <1>13, <1>14
  <2>2. CASE /\ i \in 1 .. Len(q) /\ t[i].pane = q[i].pane
             /\ ToSet(t[i].keys) \subseteq ToSet(q[i].keys) \cup ToSet(ks)
    <3>1. Follows(t[i].pane, ToSet(q[i].keys), typed[t[i].pane], serving, acked, retried)
      BY <2>2, <1>1 DEF OrderInv, QueueFollows
    <3>2. Follows(t[i].pane, ToSet(q[i].keys) \cup ToSet(ks), typed[t[i].pane], serving,
                  acked, retried)
      BY <3>1, <1>13, <1>14, FollowsJoin
    <3> QED BY <3>2, <2>2, FollowsLess
  <2> QED BY <2>1, <2>2, <1>19 DEF GrownFrame
<1>16. QueueFollows'
  BY <1>6, <1>11, <1>15 DEF QueueFollows
<1>17. FlightFollows'
  <2> SUFFICES ASSUME in_flight # NoFrame PROVE FlightFollows'
    BY <1>6 DEF FlightFollows
  <2>1. ToSet(in_flight.keys) \subseteq 1 .. e
    BY <1>8 DEF InFlightKeys
  <2>2. ASSUME NEW i \in 1 .. Len(t), t[i].pane = in_flight.pane
        PROVE  Precede(ToSet(in_flight.keys), ToSet(t[i].keys), retried)
    <3>1. Precede(ToSet(in_flight.keys), ToSet(ks), retried)
      BY <2>1, <1>2, <1>7, PrecedeNew
    <3>2. CASE /\ i \in 1 .. Len(q) /\ t[i].pane = q[i].pane
               /\ ToSet(t[i].keys) \subseteq ToSet(q[i].keys) \cup ToSet(ks)
      <4>1. Precede(ToSet(in_flight.keys), ToSet(q[i].keys), retried)
        BY <3>2, <2>2, <1>1 DEF OrderInv, FlightFollows
      <4>2. Precede(ToSet(in_flight.keys), ToSet(q[i].keys) \cup ToSet(ks), retried)
        BY <4>1, <3>1, PrecedeJoin
      <4> QED BY <4>2, <3>2, PrecedeLess
    <3>3. CASE ToSet(t[i].keys) = ToSet(ks)
      BY <3>1, <3>3
    <3> QED BY <3>2, <3>3, <1>19 DEF GrownFrame
  <2> QED BY <2>2, <1>6 DEF OrderInv, FlightFollows
<1>18. AckedIsGone'
  <2>1. KeysOf(t) = KeysOf(q) \cup ToSet(ks)
    <3>2. Fits(q) /\ Once(q)
      BY <1>0, <1>1 DEF HeldSide, FramesFit, HeldOnce
    <3>3. Distinct(ks) /\ Len(ks) = n /\ n <= FrameKeys
      BY <1>2, <1>4, <1>6, NewKeys
    <3>4. ToSet(ks) \cap KeysOf(q) = {}
      BY <1>2, <1>7, <1>8
    <3> QED BY <3>2, <3>3, <3>4, <1>1, <1>5, <1>7, AppendInputIs
  <2>2. HeldKeys' = HeldKeys \cup ToSet(ks)
    BY <2>1, <1>1, <1>6 DEF HeldKeys
  <2>3. InFlightKeys' = InFlightKeys /\ ServedKeys' = ServedKeys /\ acked' = acked
    BY <1>6 DEF InFlightKeys, ServedKeys
  <2>4. acked \cap ToSet(ks) = {}
    BY <1>2, <1>7, <1>8
  <2> QED BY <2>2, <2>3, <2>4 DEF OrderInv, AckedIsGone
<1> QED BY <1>10, <1>16, <1>17, <1>18 DEF OrderInv, SentInOrder

\* Keys that are sent again are exempt.
LEMMA SentInOrderExempts ==
  ASSUME SentInOrder, UNCHANGED <<typed, serving, acked>>, retried \subseteq retried'
  PROVE  SentInOrder'
<1>1. TypedRises'
  BY RisingLess DEF SentInOrder, TypedRises, Uncertain
<1>2. WaitingFollows'
  <2>1. ASSUME NEW i \in 1 .. Len(serving), Waits(serving[i])
        PROVE  /\ serving[i].done = 0
               /\ Precede(ToSet(typed[serving[i].pane]), ToSet(serving[i].keys), retried')
    BY <2>1, PrecedeLess DEF SentInOrder, WaitingFollows
  <2>2. ASSUME NEW i \in 1 .. Len(serving), NEW j \in 1 .. Len(serving), i < j,
               Waits(serving[i]), Waits(serving[j]), serving[i].pane = serving[j].pane
        PROVE  Precede(ToSet(serving[i].keys), ToSet(serving[j].keys), retried')
    BY <2>2, PrecedeLess DEF SentInOrder, WaitingFollows
  <2> QED BY <2>1, <2>2 DEF WaitingFollows
<1>3. AwaitedIsTyped'
  <2>1. ASSUME NEW s, NEW K, TypedAfter(s, K, acked, retried)
        PROVE  TypedAfter(s, K, acked, retried')
    BY <2>1 DEF TypedAfter
  <2>2. ASSUME NEW i \in 1 .. Len(serving), serving[i].awaited
        PROVE  /\ \A q \in Panes :
                    q # serving[i].pane => ToSet(typed[q]) \cap ToSet(serving[i].keys) = {}
               /\ serving[i].pane \notin PtyPanes =>
                    TypedAfter(typed[serving[i].pane], ToSet(serving[i].keys), acked, retried')
    BY <2>1, <2>2 DEF SentInOrder, AwaitedIsTyped
  <2> QED BY <2>2 DEF AwaitedIsTyped
<1>4. ServedRises'
  BY RisingLess DEF SentInOrder, ServedRises
<1> QED BY <1>1, <1>2, <1>3, <1>4 DEF SentInOrder

\* What goes back in front of the queue is noted as sent again.
LEMMA ReplayOrder ==
  ASSUME IInv, OrderInv, replay_recoverable
  PROVE  OrderInv'
<1>0. TypeOK
  BY DEF IInv
<1>1. PICK q \in Seq(Frame) : q = queued
  BY <1>0 DEF TypeOK
<1>2. PICK r \in Seq(Frame) : r = recoverable
  BY <1>0 DEF TypeOK
<1>3. PICK t : t = r \o q
  OBVIOUS
<1>4. PICK R : R = retried \cup KeysOf(r)
  OBVIOUS
<1>5. /\ queued' = t /\ recoverable' = <<>> /\ retried' = R
      /\ UNCHANGED <<in_flight, acked, call, serving, typed>>
  BY <1>1, <1>2, <1>3, <1>4 DEF replay_recoverable, Replay
<1>6. SentInOrder'
  <2>1. SentInOrder
    BY DEF OrderInv, SentInOrder
  <2> QED BY <2>1, <1>4, <1>5, SentInOrderExempts
<1>7. \A i \in 1 .. Len(r) : ToSet(r[i].keys) \subseteq R /\ r[i].keys \in Seq(Keys)
  <2>1. \A k : k \in KeysOf(r) <=> \E i \in 1 .. Len(r) : k \in ToSet(r[i].keys)
    BY FramesCarry, KeysOfIs
  <2>2. \A i \in 1 .. Len(r) : r[i].keys \in Seq(Keys)
    BY FramesCarry DEF Carries
  <2> QED BY <2>1, <2>2, <1>4
<1>8. \A k \in 1 .. Len(t) :
        \/ k \in 1 .. Len(r) /\ t[k] = r[k]
        \/ \E i \in 1 .. Len(q) : k = Len(r) + i /\ t[k] = q[i]
  BY <1>3, JoinedPart
<1>9. InOrder(q, retried) /\ retried \subseteq R
  BY <1>1, <1>4 DEF OrderInv, QueueFollows
<1>10. InOrder(t, R)
  <2>1. ASSUME NEW k \in 1 .. Len(t) PROVE Rising(t[k].keys, R)
    <3>1. CASE k \in 1 .. Len(r) /\ t[k] = r[k]
      BY <3>1, <1>7, RisingNoted
    <3>2. ASSUME NEW i \in 1 .. Len(q), t[k] = q[i] PROVE Rising(t[k].keys, R)
      BY <3>2, <1>9, RisingLess DEF InOrder
    <3> QED BY <3>1, <3>2, <1>8
  <2>2. ASSUME NEW k \in 1 .. Len(t), NEW l \in 1 .. Len(t), k < l, t[k].pane = t[l].pane
        PROVE  Precede(ToSet(t[k].keys), ToSet(t[l].keys), R)
    <3>1. CASE k \in 1 .. Len(r) /\ t[k] = r[k]
      BY <3>1, <1>7, PrecedeNoted
    <3>2. CASE l \in 1 .. Len(r) /\ t[l] = r[l]
      BY <3>2, <1>7, PrecedeNoted
    <3>3. ASSUME NEW i \in 1 .. Len(q), NEW j \in 1 .. Len(q), k = Len(r) + i, t[k] = q[i],
                 l = Len(r) + j, t[l] = q[j]
          PROVE  Precede(ToSet(t[k].keys), ToSet(t[l].keys), R)
      <4>1. i < j
        BY <3>3, <2>2
      <4>2. Precede(ToSet(q[i].keys), ToSet(q[j].keys), retried)
        BY <4>1, <3>3, <2>2, <1>9 DEF InOrder
      <4> QED BY <4>2, <3>3, <1>9, PrecedeLess
    <3> QED BY <3>1, <3>2, <3>3, <1>8
  <2> QED BY <2>1, <2>2 DEF InOrder
<1>11. ASSUME NEW k \in 1 .. Len(t)
       PROVE  Follows(t[k].pane, ToSet(t[k].keys), typed[t[k].pane], serving, acked, R)
  <2>1. CASE k \in 1 .. Len(r) /\ t[k] = r[k]
    BY <2>1, <1>7, FollowsNoted
  <2>2. ASSUME NEW i \in 1 .. Len(q), t[k] = q[i]
        PROVE  Follows(t[k].pane, ToSet(t[k].keys), typed[t[k].pane], serving, acked, R)
    <3>1. Follows(q[i].pane, ToSet(q[i].keys), typed[q[i].pane], serving, acked, retried)
      BY <1>1 DEF OrderInv, QueueFollows
    <3> QED BY <3>1, <2>2, <1>9, FollowsLess
  <2> QED BY <2>1, <2>2, <1>8
<1>12. QueueFollows'
  BY <1>5, <1>10, <1>11 DEF QueueFollows
<1>13. FlightFollows'
  <2> SUFFICES ASSUME in_flight # NoFrame PROVE FlightFollows'
    BY <1>5 DEF FlightFollows
  <2>1. Rising(in_flight.keys, R)
    BY <1>9, RisingLess DEF OrderInv, FlightFollows
  <2>2. ASSUME NEW k \in 1 .. Len(t), t[k].pane = in_flight.pane
        PROVE  Precede(ToSet(in_flight.keys), ToSet(t[k].keys), R)
    <3>1. CASE k \in 1 .. Len(r) /\ t[k] = r[k]
      BY <3>1, <1>7, PrecedeNoted
    <3>2. ASSUME NEW i \in 1 .. Len(q), t[k] = q[i]
          PROVE  Precede(ToSet(in_flight.keys), ToSet(t[k].keys), R)
      <4>1. Precede(ToSet(in_flight.keys), ToSet(q[i].keys), retried)
        BY <3>2, <2>2, <1>1 DEF OrderInv, FlightFollows
      <4> QED BY <4>1, <3>2, <1>9, PrecedeLess
    <3> QED BY <3>1, <3>2, <1>8
  <2>3. call # "read" \/ in_flight.pane \notin PtyPanes =>
          Follows(in_flight.pane, ToSet(in_flight.keys), typed[in_flight.pane], serving,
                  acked, R)
    BY <1>9, FollowsLess DEF OrderInv, FlightFollows
  <2>4. \A i \in 1 .. Len(serving) : serving[i].awaited => serving[i].pane = in_flight.pane
    BY DEF OrderInv, FlightFollows
  <2> QED BY <2>1, <2>2, <2>3, <2>4, <1>5 DEF FlightFollows
<1>14. AckedIsGone'
  <2>1. KeysOf(t) = KeysOf(r) \cup KeysOf(q) /\ KeysOf(<<>>) = {}
    BY <1>3, FramesCarry, KeysOfJoin, KeysOfNothing
  <2>2. HeldKeys' = HeldKeys
    BY <2>1, <1>1, <1>2, <1>5 DEF HeldKeys
  <2>3. InFlightKeys' = InFlightKeys /\ ServedKeys' = ServedKeys /\ acked' = acked
    BY <1>5 DEF InFlightKeys, ServedKeys
  <2> QED BY <2>2, <2>3 DEF OrderInv, AckedIsGone
<1> QED BY <1>6, <1>12, <1>13, <1>14 DEF OrderInv, SentInOrder

\* The first frame that waits comes before the others of its terminal.
LEMMA BeginOrder ==
  ASSUME IInv, OrderInv, begin_terminal_input
  PROVE  OrderInv'
<1>0. TypeOK /\ HeldSide /\ ServedSide
  BY DEF IInv
<1>1. PICK q \in Seq(Frame) : q = queued
  BY <1>0 DEF TypeOK
<1>2. PICK g : g = Head(q)
  OBVIOUS
<1>3. PICK t : t = Tail(q)
  OBVIOUS
<1>4. /\ lane = "running" /\ q # <<>> /\ in_flight' = g /\ queued' = t /\ call' = "send"
      /\ UNCHANGED <<recoverable, acked, retried, serving, typed>>
  BY <1>1, <1>2, <1>3 DEF begin_terminal_input
<1>5. /\ g = q[1] /\ 1 \in 1 .. Len(q) /\ Len(t) = Len(q) - 1 /\ Len(q) \in Nat
      /\ \A i \in 1 .. Len(t) : i + 1 \in 1 .. Len(q) /\ t[i] = q[i + 1]
  BY <1>2, <1>3, <1>4
<1>6. /\ InOrder(q, retried)
      /\ \A i \in 1 .. Len(q) :
           Follows(q[i].pane, ToSet(q[i].keys), typed[q[i].pane], serving, acked, retried)
  BY <1>1 DEF OrderInv, QueueFollows
<1>7. SentInOrder'
  <2>1. SentInOrder
    BY DEF OrderInv, SentInOrder
  <2> QED BY <2>1, <1>4, SentInOrderStays
<1>8. InOrder(t, retried)
  <2>1. \A i \in 1 .. Len(t) : Rising(t[i].keys, retried)
    BY <1>5, <1>6 DEF InOrder
  <2>2. ASSUME NEW i \in 1 .. Len(t), NEW j \in 1 .. Len(t), i < j, t[i].pane = t[j].pane
        PROVE  Precede(ToSet(t[i].keys), ToSet(t[j].keys), retried)
    <3>1. i + 1 \in 1 .. Len(q) /\ j + 1 \in 1 .. Len(q) /\ i + 1 < j + 1
      BY <2>2, <1>5
    <3>2. t[i] = q[i + 1] /\ t[j] = q[j + 1]
      BY <1>5
    <3> QED BY <3>1, <3>2, <2>2, <1>6 DEF InOrder
  <2> QED BY <2>1, <2>2 DEF InOrder
<1>9. QueueFollows'
  <2>1. \A i \in 1 .. Len(t) :
          Follows(t[i].pane, ToSet(t[i].keys), typed[t[i].pane], serving, acked, retried)
    BY <1>5, <1>6
  <2> QED BY <2>1, <1>4, <1>8 DEF QueueFollows
<1>10. FlightFollows'
  <2>1. Rising(g.keys, retried)
    BY <1>5, <1>6 DEF InOrder
  <2>2. Follows(g.pane, ToSet(g.keys), typed[g.pane], serving, acked, retried)
    BY <1>5, <1>6
  <2>3. ASSUME NEW i \in 1 .. Len(t), t[i].pane = g.pane
        PROVE  Precede(ToSet(g.keys), ToSet(t[i].keys), retried)
    <3>1. i + 1 \in 1 .. Len(q) /\ 1 < i + 1 /\ t[i] = q[i + 1]
      BY <1>5
    <3> QED BY <3>1, <2>3, <1>5, <1>6 DEF InOrder
  <2>4. \A i \in 1 .. Len(serving) : ~ serving[i].awaited
    <3>1. ~ Reading
      BY <1>0, <1>4 DEF HeldSide, LaneCalls, Reading
    <3> QED BY <3>1, <1>0, NotReading DEF ServedSide
  <2> QED BY <2>1, <2>2, <2>3, <2>4, <1>4 DEF FlightFollows
<1>11. AckedIsGone'
  <2>1. \A i \in 1 .. Len(q) : ToSet(q[i].keys) \subseteq KeysOf(q)
    BY FramesCarry, KeysOfIs
  <2>2. KeysOf(t) \subseteq KeysOf(q)
    <3>1. t \in Seq(Frame)
      BY <1>3, <1>4
    <3>2. \A k : k \in KeysOf(t) <=> \E i \in 1 .. Len(t) : k \in ToSet(t[i].keys)
      BY <3>1, FramesCarry, KeysOfIs
    <3> QED BY <3>2, <2>1, <1>5
  <2>3. HeldKeys' \subseteq HeldKeys /\ ServedKeys' = ServedKeys
    BY <2>2, <1>1, <1>4 DEF HeldKeys, ServedKeys
  <2>4. InFlightKeys' \subseteq HeldKeys
    BY <2>1, <1>1, <1>4, <1>5 DEF HeldKeys, InFlightKeys
  <2> QED BY <2>3, <2>4, <1>4 DEF OrderInv, AckedIsGone
<1> QED BY <1>7, <1>9, <1>10, <1>11 DEF OrderInv, SentInOrder

\* Steps that leave all that the order depends on alone.
LEMMA OrderStays ==
  ASSUME OrderInv, call' # "read" => call # "read",
         UNCHANGED <<queued, in_flight, recoverable, acked, retried, serving, typed>>
  PROVE  OrderInv'
<1>1. SentInOrder'
  BY SentInOrderStays DEF OrderInv, SentInOrder
<1>2. QueueFollows'
  BY DEF OrderInv, QueueFollows
<1>3. FlightFollows'
  BY DEF OrderInv, FlightFollows
<1>4. AckedIsGone'
  BY DEF OrderInv, AckedIsGone, HeldKeys, InFlightKeys, ServedKeys
<1> QED BY <1>1, <1>2, <1>3, <1>4 DEF OrderInv, SentInOrder

\* A call that ends with nothing delivered and no request changed.
LEMMA CallOverOrder ==
  ASSUME TypeOK, HeldSide, OrderInv, call # "none",
         NEW outcome \in {"unsent", "indeterminate"}, finish_terminal_input(outcome),
         UNCHANGED <<serving, typed>>
  PROVE  OrderInv'
<1>1. /\ InFlightKeys' = {}
      /\ HeldKeys' = HeldKeys \cup (IF outcome = "unsent" THEN InFlightKeys ELSE {})
  BY SettleHolds DEF Outcomes
<1>2. /\ in_flight' = NoFrame /\ queued' = queued /\ retried' = retried /\ acked' = acked
  BY DEF finish_terminal_input, Settle
<1>3. SentInOrder'
  BY <1>2, SentInOrderStays DEF OrderInv, SentInOrder
<1>4. QueueFollows' /\ FlightFollows'
  BY <1>2 DEF OrderInv, QueueFollows, FlightFollows
<1>5. AckedIsGone'
  <2>1. ServedKeys' = ServedKeys
    BY DEF ServedKeys
  <2> QED BY <2>1, <1>1, <1>2 DEF OrderInv, AckedIsGone
<1> QED BY <1>3, <1>4, <1>5 DEF OrderInv, SentInOrder

LEMMA ConnectionOrder ==
  ASSUME IInv, OrderInv,
         \/ Connect \/ WriteIsLost \/ WriteFails \/ WriteFailsAgain \/ ReadFails
         \/ LaneWakes \/ LaneSleeps \/ ServiceStarts \/ UNCHANGED vars
  PROVE  OrderInv'
<1>0. TypeOK /\ HeldSide
  BY DEF IInv
<1>1. \/ /\ call' # "read" => call # "read"
         /\ UNCHANGED <<queued, in_flight, recoverable, acked, retried, serving, typed>>
      \/ /\ call # "none" /\ UNCHANGED <<serving, typed>>
         /\ finish_terminal_input("unsent") \/ finish_terminal_input("indeterminate")
  BY DEF Connect, WriteIsLost, WriteFails, WriteFailsAgain, ReadFails, LaneWakes, LaneSleeps,
         ServiceStarts, vars, ui, buffer
<1> QED BY <1>0, <1>1, OrderStays, CallOverOrder

-----------------------------------------------------------------------------
(* Requests that change or go. *)

\* f maps the requests in t to those in s that they were: the same keys for the
\* same terminal, in the same order, and no more of them waiting or awaited.
Thins(s, t, f) ==
  /\ f \in [1 .. Len(t) -> 1 .. Len(s)]
  /\ \A k, l \in 1 .. Len(t) : k < l => f[k] < f[l]
  /\ \A k \in 1 .. Len(t) :
       /\ t[k].pane = s[f[k]].pane /\ t[k].keys = s[f[k]].keys
       /\ t[k].awaited => s[f[k]].awaited
       /\ Waits(t[k]) => Waits(s[f[k]]) /\ t[k].done = s[f[k]].done
       /\ DeliveredWhole(s[f[k]]) => DeliveredWhole(t[k])

LEMMA ReplacedThins ==
  ASSUME NEW s \in Seq(Request), NEW i \in 1 .. Len(s), NEW r \in Request,
         NEW t, t = Replaced(s, i, r), r.pane = s[i].pane, r.keys = s[i].keys,
         r.awaited => s[i].awaited, Waits(r) => Waits(s[i]) /\ r.done = s[i].done,
         DeliveredWhole(s[i]) => DeliveredWhole(r)
  PROVE  \E f : Thins(s, t, f) /\ Origins(s, i, r, t, f)
<1>0. PICK f : Origins(s, i, r, t, f)
  BY ReplacedIs
<1>1. /\ f \in [1 .. Len(t) -> 1 .. Len(s)]
      /\ \A k \in 1 .. Len(t) : t[k] = IF f[k] = i THEN r ELSE s[f[k]]
      /\ \A k, l \in 1 .. Len(t) : k < l => f[k] < f[l]
  BY <1>0 DEF Origins
<1>2. ASSUME NEW k \in 1 .. Len(t)
      PROVE  /\ t[k].pane = s[f[k]].pane /\ t[k].keys = s[f[k]].keys
             /\ t[k].awaited => s[f[k]].awaited
             /\ Waits(t[k]) => Waits(s[f[k]]) /\ t[k].done = s[f[k]].done
             /\ DeliveredWhole(s[f[k]]) => DeliveredWhole(t[k])
  <2>1. CASE f[k] = i
    BY <2>1, <1>1
  <2>2. CASE f[k] # i
    BY <2>2, <1>1
  <2> QED BY <2>1, <2>2
<1>3. Thins(s, t, f)
  BY <1>1, <1>2 DEF Thins
<1> QED BY <1>0, <1>3

LEMMA ThinsFollows ==
  ASSUME NEW s, NEW t, NEW f, Thins(s, t, f), NEW p, NEW K, NEW w, NEW A, NEW R,
         Follows(p, K, w, s, A, R)
  PROVE  Follows(p, K, w, t, A, R)
<1>1. ASSUME NEW k \in 1 .. Len(t), Waits(t[k]), t[k].pane = p
      PROVE  Precede(ToSet(t[k].keys), K, R)
  <2>1. f[k] \in 1 .. Len(s) /\ Waits(s[f[k]]) /\ s[f[k]].pane = p /\ t[k].keys = s[f[k]].keys
    BY <1>1 DEF Thins
  <2> QED BY <2>1 DEF Follows
<1> QED BY <1>1 DEF Follows

\* No new order is asked of what is left.
LEMMA ThinsServed ==
  ASSUME WaitingFollows, ServedRises, NEW f, Thins(serving, serving', f),
         UNCHANGED retried
  PROVE  /\ ServedRises'
         /\ \A i, j \in 1 .. Len(serving') :
              i < j /\ Waits(serving'[i]) /\ Waits(serving'[j])
                    /\ serving'[i].pane = serving'[j].pane =>
                Precede(ToSet(serving'[i].keys), ToSet(serving'[j].keys), retried)
<1>1. PICK s : s = serving
  OBVIOUS
<1>2. PICK t : t = serving'
  OBVIOUS
<1>3. /\ f \in [1 .. Len(t) -> 1 .. Len(s)]
      /\ \A k, l \in 1 .. Len(t) : k < l => f[k] < f[l]
      /\ \A k \in 1 .. Len(t) :
           /\ t[k].pane = s[f[k]].pane /\ t[k].keys = s[f[k]].keys
           /\ Waits(t[k]) => Waits(s[f[k]]) /\ t[k].done = s[f[k]].done
           /\ DeliveredWhole(s[f[k]]) => DeliveredWhole(t[k])
  BY <1>1, <1>2 DEF Thins
<1>4. \A k \in 1 .. Len(t) : f[k] \in 1 .. Len(s)
  BY <1>3
<1>5. ASSUME NEW k \in 1 .. Len(t), NEW l \in 1 .. Len(t), k < l, Waits(t[k]), Waits(t[l]),
             t[k].pane = t[l].pane
      PROVE  Precede(ToSet(t[k].keys), ToSet(t[l].keys), retried)
  <2>1. /\ f[k] \in 1 .. Len(s) /\ f[l] \in 1 .. Len(s) /\ f[k] < f[l]
        /\ Waits(s[f[k]]) /\ Waits(s[f[l]]) /\ s[f[k]].pane = s[f[l]].pane
    BY <1>3, <1>4, <1>5
  <2>2. Precede(ToSet(s[f[k]].keys), ToSet(s[f[l]].keys), retried)
    BY <2>1, <1>1 DEF WaitingFollows
  <2> QED BY <2>2, <1>3
<1>6. \A k \in 1 .. Len(t) : Rising(t[k].keys, retried) /\ DeliveredWhole(t[k])
  BY <1>1, <1>3, <1>4 DEF ServedRises
<1> QED BY <1>2, <1>5, <1>6 DEF ServedRises

LEMMA ThinsWaits ==
  ASSUME WaitingFollows, ServedRises, NEW f, Thins(serving, serving', f),
         UNCHANGED <<typed, retried>>
  PROVE  WaitingFollows' /\ ServedRises'
<1>1. ASSUME NEW k \in 1 .. Len(serving'), Waits(serving'[k])
      PROVE  /\ serving'[k].done = 0
             /\ Precede(ToSet(typed[serving'[k].pane]), ToSet(serving'[k].keys), retried)
  <2>1. /\ f[k] \in 1 .. Len(serving) /\ Waits(serving[f[k]])
        /\ serving'[k].done = serving[f[k]].done /\ serving'[k].pane = serving[f[k]].pane
        /\ serving'[k].keys = serving[f[k]].keys
    BY <1>1 DEF Thins
  <2> QED BY <2>1 DEF WaitingFollows
<1> QED BY <1>1, ThinsServed DEF WaitingFollows

\* A handler answers, or the service ends with all its requests.
LEMMA ThinsOrder ==
  ASSUME OrderInv, NEW f, Thins(serving, serving', f), ServedKeys' \subseteq ServedKeys,
         UNCHANGED <<queued, in_flight, recoverable, acked, retried, call, typed>>
  PROVE  OrderInv'
<1>1. PICK s : s = serving
  OBVIOUS
<1>2. PICK t : t = serving'
  OBVIOUS
<1>3. /\ f \in [1 .. Len(t) -> 1 .. Len(s)]
      /\ \A k \in 1 .. Len(t) :
           /\ t[k].pane = s[f[k]].pane /\ t[k].keys = s[f[k]].keys
           /\ t[k].awaited => s[f[k]].awaited
  BY <1>1, <1>2 DEF Thins
<1>4. \A k \in 1 .. Len(t) : f[k] \in 1 .. Len(s)
  BY <1>3
<1>5. \A p, K, w : Follows(p, K, w, s, acked, retried) => Follows(p, K, w, t, acked, retried)
  BY <1>1, <1>2, ThinsFollows
<1>6. TypedRises'
  BY DEF OrderInv, TypedRises, Uncertain
<1>7. WaitingFollows' /\ ServedRises'
  BY ThinsWaits DEF OrderInv
<1>8. AwaitedIsTyped'
  <2>1. ASSUME NEW k \in 1 .. Len(t), t[k].awaited
        PROVE  /\ \A q \in Panes : q # t[k].pane => ToSet(typed[q]) \cap ToSet(t[k].keys) = {}
               /\ t[k].pane \notin PtyPanes =>
                    TypedAfter(typed[t[k].pane], ToSet(t[k].keys), acked, retried)
    <3>1. /\ f[k] \in 1 .. Len(s) /\ s[f[k]].awaited
          /\ t[k].pane = s[f[k]].pane /\ t[k].keys = s[f[k]].keys
      BY <1>3, <1>4, <2>1
    <3> QED BY <3>1, <1>1 DEF OrderInv, AwaitedIsTyped
  <2> QED BY <2>1, <1>2 DEF AwaitedIsTyped
<1>9. QueueFollows'
  <2>1. \A i \in 1 .. Len(queued) :
          Follows(queued[i].pane, ToSet(queued[i].keys), typed[queued[i].pane], t, acked, retried)
    BY <1>1, <1>5 DEF OrderInv, QueueFollows
  <2> QED BY <2>1, <1>2 DEF OrderInv, QueueFollows
<1>10. FlightFollows'
  <2>1. \A k \in 1 .. Len(t) : t[k].awaited => \E i \in 1 .. Len(s) :
          s[i].awaited /\ t[k].pane = s[i].pane
    BY <1>3, <1>4
  <2> QED BY <2>1, <1>1, <1>2, <1>5 DEF OrderInv, FlightFollows
<1>11. AckedIsGone'
  BY DEF OrderInv, AckedIsGone, HeldKeys, InFlightKeys
<1> QED BY <1>6, <1>7, <1>8, <1>9, <1>10, <1>11 DEF OrderInv

LEMMA AnswerOrder ==
  ASSUME IInv, OrderInv, NEW i \in 1 .. Len(serving), Answer(i)
  PROVE  OrderInv'
<1>0. TypeOK /\ ServedSide
  BY DEF IInv
<1>1. PICK s \in Seq(Request) : s = serving
  BY <1>0 DEF TypeOK, Request
<1>2. PICK p \in Request : p = s[i]
  BY <1>1
<1>3. PICK outcome \in Outcomes :
        /\ p.answer = "none" /\ MayAnswer(p, outcome)
        /\ serving' = Remaining([s EXCEPT ![i].answer = outcome])
  BY <1>1, <1>2 DEF Answer
<1>4. PICK r : r = [p EXCEPT !.answer = outcome]
  OBVIOUS
<1>5. PICK t : t = Replaced(s, i, r)
  OBVIOUS
<1>6. serving' = t /\ UNCHANGED <<ui, lane, call, typed>>
  BY <1>1, <1>2, <1>3, <1>4, <1>5 DEF Answer, Replaced
<1>7. /\ r \in Request /\ r.keys = p.keys /\ r.done = p.done /\ r.answer = outcome
      /\ r.awaited = p.awaited /\ r.pane = p.pane
  BY <1>2, <1>4 DEF Request
<1>8. (Waits(r) => Waits(p)) /\ DeliveredWhole(r)
  BY <1>3, <1>7 DEF Waits, Unfinished, DeliveredWhole, MayAnswer
<1>9. PICK f : Thins(s, t, f)
  BY <1>1, <1>2, <1>5, <1>7, <1>8, ReplacedThins
<1>10. ServedKeys' \subseteq ServedKeys
  <2>1. Fits(s) /\ Once(s)
    BY <1>0, <1>1 DEF ServedSide, ServedOnce
  <2>2. KeysOf(t) \subseteq KeysOf(s)
    BY <2>1, <1>1, <1>2, <1>5, <1>7, ReplacedKeys
  <2> QED BY <2>2, <1>1, <1>6 DEF ServedKeys
<1>11. UNCHANGED <<queued, in_flight, recoverable, acked, retried, call, typed>>
  BY <1>6 DEF ui, buffer
<1> QED BY <1>1, <1>6, <1>9, <1>10, <1>11, ThinsOrder

LEMMA ServiceEndsOrder ==
  ASSUME OrderInv, ServiceEnds
  PROVE  OrderInv'
<1>1. /\ serving' = <<>>
      /\ UNCHANGED <<queued, in_flight, recoverable, acked, retried, call, typed>>
  BY DEF ServiceEnds, ui, buffer
<1>2. Thins(serving, <<>>, <<>>)
  BY DEF Thins
<1>3. ServedKeys' = {}
  BY <1>1, KeysOfNothing DEF ServedKeys
<1> QED BY <1>1, <1>2, <1>3, ThinsOrder

\* The frame in flight arrives, behind what its terminal has and waits for.
LEMMA WriteRequestOrder ==
  ASSUME IInv, OrderInv, WriteRequest
  PROVE  OrderInv'
<1>0. TypeOK /\ HeldSide /\ ServedSide /\ Between
  BY DEF IInv
<1>1. PICK s \in Seq(Request) : s = serving
  BY <1>0 DEF TypeOK, Request
<1>2. /\ call \in {"send", "resend"} /\ call' = "read" /\ ~ Reading
      /\ UNCHANGED <<queued, in_flight, recoverable, acked, retried, typed>>
  BY DEF WriteRequest, Reading, ui, buffer
<1>3. in_flight # NoFrame
  BY <1>0, <1>2 DEF HeldSide, LaneCalls
<1>4. PICK g \in Frame : g = in_flight
  BY <1>0, <1>3 DEF TypeOK
<1>5. PICK r : r = [pane |-> g.pane, keys |-> g.keys, done |-> 0,
                    answer |-> "none", awaited |-> TRUE]
  OBVIOUS
<1>6. PICK t : t = Append(s, r)
  OBVIOUS
<1>7. serving' = t
  BY <1>1, <1>4, <1>5, <1>6 DEF WriteRequest, Arrives
<1>8. /\ r \in Request /\ r.keys = g.keys /\ r.done = 0 /\ r.answer = "none" /\ r.awaited
      /\ r.pane = g.pane /\ g.pane \in Panes
  <2>1. 0 \in 0 .. FrameKeys
    BY CapacitiesAssumption
  <2>2. g.pane \in Panes /\ g.keys \in Seq(Keys)
    BY DEF Frame
  <2> QED BY <2>1, <2>2, <1>5 DEF Request
<1>9. /\ Len(s) \in Nat /\ Len(t) = Len(s) + 1 /\ t[Len(s) + 1] = r
      /\ \A i \in 1 .. Len(s) : t[i] = s[i]
  BY <1>6, <1>8
<1>10. \A i \in 1 .. Len(t) : i \in 1 .. Len(s) \/ i = Len(s) + 1
  BY <1>9
<1>11. /\ Rising(g.keys, retried)
       /\ Follows(g.pane, ToSet(g.keys), typed[g.pane], s, acked, retried)
       /\ \A i \in 1 .. Len(queued) :
            queued[i].pane = g.pane => Precede(ToSet(g.keys), ToSet(queued[i].keys), retried)
  BY <1>1, <1>2, <1>3, <1>4 DEF OrderInv, FlightFollows
<1>12. \A i \in 1 .. Len(s) : ~ s[i].awaited
  BY <1>0, <1>1, <1>2, NotReading DEF ServedSide
<1>13. ASSUME NEW p, NEW K, NEW w, Follows(p, K, w, s, acked, retried),
              p = g.pane => Precede(ToSet(g.keys), K, retried) \/ p \notin PtyPanes
       PROVE  Follows(p, K, w, t, acked, retried)
  BY <1>8, <1>9, <1>10, <1>13 DEF Follows, Waits
<1>14. TypedRises'
  BY <1>2 DEF OrderInv, TypedRises, Uncertain
<1>15. QueueFollows'
  <2>1. \A i \in 1 .. Len(queued) :
          Follows(queued[i].pane, ToSet(queued[i].keys), typed[queued[i].pane], t, acked, retried)
    BY <1>1, <1>11, <1>13 DEF OrderInv, QueueFollows
  <2> QED BY <2>1, <1>2, <1>7 DEF OrderInv, QueueFollows
<1>16. FlightFollows'
  <2>1. g.pane \notin PtyPanes =>
          Follows(g.pane, ToSet(g.keys), typed[g.pane], t, acked, retried)
    BY <1>11, <1>13
  <2>2. \A i \in 1 .. Len(t) : t[i].awaited => t[i].pane = g.pane
    BY <1>8, <1>9, <1>10, <1>12
  <2> QED BY <2>1, <2>2, <1>2, <1>4, <1>7, <1>11 DEF FlightFollows
<1>17. WaitingFollows'
  <2>1. ASSUME NEW i \in 1 .. Len(t), Waits(t[i])
        PROVE  t[i].done = 0 /\ Precede(ToSet(typed[t[i].pane]), ToSet(t[i].keys), retried)
    <3>1. CASE i \in 1 .. Len(s)
      BY <3>1, <2>1, <1>1, <1>9 DEF OrderInv, WaitingFollows
    <3>2. CASE i = Len(s) + 1
      <4>1. t[i] = r /\ g.pane \in PtyPanes
        BY <3>2, <2>1, <1>8, <1>9 DEF Waits
      <4> QED BY <4>1, <1>8, <1>11 DEF Follows
    <3> QED BY <3>1, <3>2, <1>10
  <2>2. ASSUME NEW i \in 1 .. Len(t), NEW j \in 1 .. Len(t), i < j, Waits(t[i]), Waits(t[j]),
               t[i].pane = t[j].pane
        PROVE  Precede(ToSet(t[i].keys), ToSet(t[j].keys), retried)
    <3>1. i \in 1 .. Len(s) /\ t[i] = s[i]
      BY <2>2, <1>9, <1>10
    <3>2. CASE j \in 1 .. Len(s)
      BY <3>1, <3>2, <2>2, <1>1, <1>9 DEF OrderInv, WaitingFollows
    <3>3. CASE j = Len(s) + 1
      <4>1. t[j] = r /\ Waits(s[i]) /\ s[i].pane = g.pane
        BY <3>1, <3>3, <2>2, <1>8, <1>9
      <4> QED BY <4>1, <3>1, <1>8, <1>11 DEF Follows
    <3> QED BY <3>2, <3>3, <1>10
  <2> QED BY <2>1, <2>2, <1>2, <1>7 DEF WaitingFollows
<1>18. AwaitedIsTyped'
  <2>1. ToSet(g.keys) \cap TypedKeys = {}
    BY <1>0, <1>2, <1>3, <1>4 DEF Between, UnsentLeftNoTrace, InFlightKeys
  <2>2. \A q \in Panes : ToSet(typed[q]) \cap ToSet(g.keys) = {}
    BY <2>1 DEF TypedKeys
  <2>3. TypedAfter(typed[g.pane], ToSet(g.keys), acked, retried)
    <3>1. PICK w \in Seq(Keys) : w = typed[g.pane]
      BY <1>0, <1>8 DEF TypeOK
    <3>2. \A m \in 1 .. Len(w) : w[m] \in ToSet(w)
      BY ToSetIs
    <3> QED BY <3>1, <3>2, <2>2, <1>8 DEF TypedAfter
  <2> QED BY <2>2, <2>3, <1>2, <1>7, <1>8, <1>9, <1>10, <1>12 DEF AwaitedIsTyped
<1>19. ServedRises'
  <2>1. DeliveredWhole(r) /\ Rising(r.keys, retried)
    BY <1>8, <1>11 DEF DeliveredWhole
  <2>2. \A i \in 1 .. Len(s) : Rising(s[i].keys, retried) /\ DeliveredWhole(s[i])
    BY <1>1 DEF OrderInv, ServedRises
  <2> QED BY <2>1, <2>2, <1>2, <1>7, <1>9, <1>10 DEF ServedRises
<1>20. AckedIsGone'
  <2>1. KeysOf(t) = KeysOf(s) \cup ToSet(r.keys)
    <3>1. Carries(Request)
      BY FramesCarry
    <3> QED BY ZenonT(60), <3>1, <1>6, <1>8, OneMore
  <2>2. ServedKeys' = ServedKeys \cup InFlightKeys
    BY <2>1, <1>1, <1>3, <1>4, <1>7, <1>8 DEF ServedKeys, InFlightKeys
  <2>3. HeldKeys' = HeldKeys /\ InFlightKeys' = InFlightKeys
    BY <1>2 DEF HeldKeys, InFlightKeys
  <2> QED BY <2>2, <2>3, <1>2 DEF OrderInv, AckedIsGone
<1> QED BY <1>14, <1>15, <1>16, <1>17, <1>18, <1>19, <1>20 DEF OrderInv

\* What a tmux terminal has typed of the keys K joins what it surely typed.
LEMMA AckedRises ==
  ASSUME NEW w \in Seq(Keys), NEW A, NEW K, NEW R, Rising(w, R \cup (Keys \ A)),
         TypedAfter(w, K, A, R), Precede(ToSet(w) \cap A, K, R)
  PROVE  Rising(w, R \cup (Keys \ (A \cup K)))
<1> SUFFICES ASSUME NEW m \in 1 .. Len(w), NEW n \in 1 .. Len(w), m < n,
                    w[m] \notin R \cup (Keys \ (A \cup K)),
                    w[n] \notin R \cup (Keys \ (A \cup K))
             PROVE  w[m] < w[n]
  BY DEF Rising
<1>1. /\ w[m] \in Keys /\ w[n] \in Keys /\ w[m] \notin R /\ w[n] \notin R
      /\ w[m] \in A \cup K /\ w[n] \in A \cup K
      /\ w[m] \in ToSet(w) /\ w[n] \in ToSet(w)
  BY ToSetIs
<1>2. CASE w[m] \in A /\ w[n] \in A
  BY <1>1, <1>2 DEF Rising
<1>3. CASE w[m] \in A /\ w[n] \in K
  BY <1>1, <1>3 DEF Precede
<1>4. CASE w[m] \in K /\ w[n] \in K
  BY <1>1, <1>4 DEF TypedAfter
<1>5. CASE w[m] \in K /\ w[n] \in A
  <2>1. n < m
    BY <1>5 DEF TypedAfter
  <2>2. m \in Nat /\ n \in Nat
    OBVIOUS
  <2> QED BY <2>1, <2>2
<1> QED BY <1>1, <1>2, <1>3, <1>4, <1>5

LEMMA OthersStayUncertain ==
  ASSUME NEW w \in Seq(Keys), NEW A, NEW K, NEW R, Rising(w, R \cup (Keys \ A)),
         ToSet(w) \cap K = {}
  PROVE  Rising(w, R \cup (Keys \ (A \cup K)))
<1>1. \A m \in 1 .. Len(w) : w[m] \in Keys /\ w[m] \notin K
  BY ToSetIs
<1> QED BY <1>1 DEF Rising

\* The call whose request is awaited ends: keys it knows are typed come after
\* the ones known before, and before all that wait.
LEMMA CallEndsOrder ==
  ASSUME IInv, OrderInv, NEW i \in 1 .. Len(serving), serving[i].awaited,
         NEW outcome \in Outcomes,
         outcome \in {"delivered", "unsent"} => serving[i].answer = outcome,
         finish_terminal_input(outcome), conn' \in {"none", "open", "dead"},
         serving' = Remaining([serving EXCEPT ![i].awaited = FALSE]),
         UNCHANGED <<service, crashes, typed>>
  PROVE  OrderInv'
<1>0. TypeOK /\ HeldSide /\ ServedSide
  BY DEF IInv
<1>1. PICK s \in Seq(Request) : s = serving
  BY <1>0 DEF TypeOK, Request
<1>2. PICK p \in Request : p = s[i]
  BY <1>1
<1>3. PICK r : r = [p EXCEPT !.awaited = FALSE]
  OBVIOUS
<1>4. /\ r \in Request /\ ~ r.awaited /\ r.keys = p.keys /\ r.done = p.done
      /\ r.answer = p.answer /\ r.pane = p.pane
  BY <1>2, <1>3 DEF Request
<1>5. PICK t : t = Replaced(s, i, r)
  OBVIOUS
<1>6. serving' = t
  BY <1>1, <1>2, <1>3, <1>5 DEF Replaced
<1>7. call = "read" /\ p.awaited /\ p.keys = in_flight.keys
  BY <1>0, <1>1, <1>2 DEF ServedSide, AwaitedIsInFlight, AwaitsOf, Reading
<1>8. in_flight # NoFrame /\ InFlightKeys = ToSet(p.keys) /\ p.pane = in_flight.pane
  BY <1>0, <1>1, <1>2, <1>7 DEF HeldSide, LaneCalls, InFlightKeys, OrderInv, FlightFollows
<1>9. /\ InFlightKeys' = {} /\ call' = "none"
      /\ HeldKeys' = HeldKeys \cup (IF outcome = "unsent" THEN InFlightKeys ELSE {})
  BY <1>0, <1>7, SettleHolds
<1>10. PICK K : K = ToSet(p.keys)
  OBVIOUS
<1>11. PICK A : A = acked
  OBVIOUS
<1>12. /\ in_flight' = NoFrame /\ queued' = queued /\ retried' = retried /\ typed' = typed
       /\ acked' = IF outcome = "delivered" THEN A \cup K ELSE A
  BY <1>7, <1>10, <1>11 DEF finish_terminal_input, Settle
<1>13. p.pane \in Panes /\ p.keys \in Seq(Keys) /\ \A q \in Panes : typed[q] \in Seq(Keys)
  BY <1>0, <1>2 DEF Request, TypeOK
<1>14. PICK f : Thins(s, t, f)
  <2>1. DeliveredWhole(s[i]) => DeliveredWhole(r)
    BY <1>2, <1>4 DEF DeliveredWhole
  <2>2. Waits(r) => Waits(s[i]) /\ r.done = s[i].done
    BY <1>2, <1>4 DEF Waits, Unfinished
  <2> QED BY <2>1, <2>2, <1>1, <1>2, <1>4, <1>5, ReplacedThins
<1>15. WaitingFollows' /\ ServedRises'
  BY <1>1, <1>6, <1>12, <1>14, ThinsWaits DEF OrderInv
<1>16. /\ \A q \in Panes : q # p.pane => ToSet(typed[q]) \cap K = {}
       /\ p.pane \notin PtyPanes => TypedAfter(typed[p.pane], K, A, retried)
       /\ p.pane \notin PtyPanes =>
            Precede(ToSet(typed[p.pane]) \cap A, K, retried)
       /\ \A k \in 1 .. Len(queued) :
            queued[k].pane = p.pane => Precede(K, ToSet(queued[k].keys), retried)
  <2>1. /\ \A q \in Panes : q # p.pane => ToSet(typed[q]) \cap K = {}
        /\ p.pane \notin PtyPanes => TypedAfter(typed[p.pane], K, A, retried)
    BY <1>1, <1>2, <1>7, <1>10, <1>11 DEF OrderInv, AwaitedIsTyped
  <2>2. p.pane \notin PtyPanes => Precede(ToSet(typed[p.pane]) \cap A, K, retried)
    BY <1>7, <1>8, <1>10, <1>11 DEF OrderInv, FlightFollows, Follows
  <2>3. \A k \in 1 .. Len(queued) :
          queued[k].pane = p.pane => Precede(K, ToSet(queued[k].keys), retried)
    BY <1>7, <1>8, <1>10 DEF OrderInv, FlightFollows
  <2> QED BY <2>1, <2>2, <2>3
<1>17. TypedRises'
  <2>1. ASSUME NEW q \in Panes
        PROVE  Rising(typed[q], IF q \in PtyPanes THEN retried
                                ELSE retried \cup (Keys \ acked'))
    <3>1. Rising(typed[q], IF q \in PtyPanes THEN retried ELSE retried \cup (Keys \ A))
      BY <1>11 DEF OrderInv, TypedRises, Uncertain
    <3>2. CASE q \in PtyPanes \/ outcome # "delivered"
      BY <3>1, <3>2, <1>12
    <3>3. CASE q \notin PtyPanes /\ outcome = "delivered" /\ q = p.pane
      BY <3>1, <3>3, <1>12, <1>13, <1>16, AckedRises
    <3>4. CASE q \notin PtyPanes /\ outcome = "delivered" /\ q # p.pane
      BY <3>1, <3>4, <1>12, <1>13, <1>16, OthersStayUncertain
    <3> QED BY <3>2, <3>3, <3>4
  <2> QED BY <2>1, <1>12 DEF TypedRises, Uncertain
<1>18. QueueFollows'
  <2>1. ASSUME NEW k \in 1 .. Len(queued)
        PROVE  Follows(queued[k].pane, ToSet(queued[k].keys), typed[queued[k].pane], t,
                       acked', retried)
    <3>1. PICK o : o = queued[k].pane
      OBVIOUS
    <3>2. PICK L : L = ToSet(queued[k].keys)
      OBVIOUS
    <3>3. Follows(o, L, typed[o], s, A, retried)
      BY <3>1, <3>2, <1>1, <1>11 DEF OrderInv, QueueFollows
    <3>4. Follows(o, L, typed[o], t, A, retried)
      BY <3>3, <1>14, ThinsFollows
    <3>5. o \in Panes
      <4>1. PICK q \in Seq(Frame) : q = queued
        BY <1>0 DEF TypeOK
      <4>2. q[k] \in Frame
        BY <4>1
      <4> QED BY <4>1, <4>2, <3>1 DEF Frame
    <3>6. CASE outcome # "delivered" \/ o \in PtyPanes
      BY <3>4, <3>6, <1>12, <3>1, <3>2 DEF Follows
    <3>7. CASE outcome = "delivered" /\ o \notin PtyPanes
      <4>1. Precede(ToSet(typed[o]) \cap A, L, retried)
        BY <3>4, <3>7 DEF Follows
      <4>2. Precede(ToSet(typed[o]) \cap (A \cup K), L, retried)
        <5>1. CASE o = p.pane
          <6>1. Precede(K, L, retried)
            BY <5>1, <3>1, <3>2, <1>16
          <6>2. Precede((ToSet(typed[o]) \cap A) \cup K, L, retried)
            BY <6>1, <4>1, PrecedeJoin
          <6> QED BY <6>2, PrecedeLess
        <5>2. CASE o # p.pane
          <6>1. ToSet(typed[o]) \cap (A \cup K) = ToSet(typed[o]) \cap A
            BY <5>2, <3>5, <1>16
          <6> QED BY <6>1, <4>1
        <5> QED BY <5>1, <5>2
      <4> QED BY <4>2, <3>1, <3>2, <3>4, <3>7, <1>12 DEF Follows
    <3> QED BY <3>6, <3>7
  <2>2. InOrder(queued, retried)
    BY DEF OrderInv, QueueFollows
  <2> QED BY <2>1, <2>2, <1>6, <1>12 DEF QueueFollows
<1>19. FlightFollows'
  BY <1>12 DEF FlightFollows
<1>20. AwaitedIsTyped'
  <2>1. IInv'
    BY CallEndsHolds
  <2>2. \A k \in 1 .. Len(serving') : ~ serving'[k].awaited
    BY <2>1, <1>9 DEF IInv, ServedSide, AwaitedIsInFlight, AwaitsOf, Reading
  <2> QED BY <2>2 DEF AwaitedIsTyped
<1>21. AckedIsGone'
  <2>1. Fits(s) /\ Once(s)
    BY <1>0, <1>1 DEF ServedSide, ServedOnce
  <2>2. KeysOf(t) \subseteq KeysOf(s) /\ (~ Kept(r) => KeysOf(t) \cap ToSet(r.keys) = {})
    BY <2>1, <1>1, <1>2, <1>4, <1>5, ReplacedKeys
  <2>3. ServedKeys' = KeysOf(t) /\ ServedKeys = KeysOf(s)
    BY <1>1, <1>6 DEF ServedKeys
  <2>4. A \cap (HeldKeys \cup K \cup KeysOf(s)) = {} /\ K \cap HeldKeys = {}
    BY <2>3, <1>0, <1>8, <1>10, <1>11 DEF OrderInv, AckedIsGone, HeldSide, HeldOnce
  <2>5. CASE outcome = "delivered"
    <3>1. p.answer = "delivered" /\ p.done = Len(p.keys)
      BY <2>5, <1>1, <1>2 DEF OrderInv, ServedRises, DeliveredWhole
    <3>2. ~ (p.done < Len(p.keys))
      BY <3>1, <1>13
    <3>3. KeysOf(t) \cap K = {}
      BY <3>1, <3>2, <2>2, <1>4, <1>10 DEF Kept, Unfinished
    <3> QED BY <3>3, <2>2, <2>3, <2>4, <2>5, <1>9, <1>12 DEF AckedIsGone
  <2>6. CASE outcome # "delivered"
    BY <2>2, <2>3, <2>4, <2>6, <1>8, <1>9, <1>10, <1>12 DEF AckedIsGone
  <2> QED BY <2>5, <2>6
<1> QED BY <1>15, <1>17, <1>18, <1>19, <1>20, <1>21 DEF OrderInv

LEMMA TypedAfterNext ==
  ASSUME NEW w \in Seq(Keys), NEW K, NEW A, NEW R, TypedAfter(w, K, A, R),
         NEW key \in Keys, key \notin A,
         key \in K /\ key \notin R => \A x \in ToSet(w) : x \in K \ R => x < key
  PROVE  TypedAfter(w \o <<key>>, K, A, R)
<1>1. PICK v : v = w \o <<key>>
  OBVIOUS
<1>2. /\ Len(v) = Len(w) + 1 /\ Len(w) \in Nat /\ v[Len(w) + 1] = key
      /\ \A m \in 1 .. Len(w) : v[m] = w[m]
  BY <1>1
<1>3. \A m \in 1 .. Len(w) : w[m] \in ToSet(w)
  BY ToSetIs
<1>4. ASSUME NEW m \in 1 .. Len(v), NEW n \in 1 .. Len(v), v[n] \in K
      PROVE  /\ v[m] \in A => m < n
             /\ m < n /\ v[m] \in K \ R /\ v[n] \notin R => v[m] < v[n]
  <2>1. CASE m \in 1 .. Len(w) /\ n \in 1 .. Len(w)
    BY <2>1, <1>2, <1>4 DEF TypedAfter
  <2>2. CASE m \in 1 .. Len(w) /\ n = Len(w) + 1
    BY <2>2, <1>2, <1>3, <1>4
  <2>3. CASE m = Len(w) + 1
    <3>1. v[m] = key /\ ~ (m < n)
      BY <2>3, <1>2
    <3> QED BY <3>1
  <2>4. /\ m \in 1 .. Len(w) \/ m = Len(w) + 1
        /\ n \in 1 .. Len(w) \/ n = Len(w) + 1
    BY <1>2
  <2> QED BY <2>1, <2>2, <2>3, <2>4
<1> QED BY <1>1, <1>4 DEF TypedAfter

\* What one step types: of a plain PTY's request all, of a tmux one the next key.
LEMMA SubSeqOfKeys ==
  ASSUME NEW ks \in Seq(Keys), NEW done \in Nat, done < Len(ks)
  PROVE  /\ done = 0 => SubSeq(ks, done + 1, Len(ks)) = ks
         /\ SubSeq(ks, done + 1, done + 1) = <<ks[done + 1]>>
         /\ ks[done + 1] \in Keys /\ ks[done + 1] \in ToSet(ks)
<1>0. Len(ks) \in Nat
  OBVIOUS
<1>1. ASSUME done = 0 PROVE SubSeq(ks, done + 1, Len(ks)) = ks
  <2>1. PICK sub : sub = SubSeq(ks, done + 1, Len(ks))
    OBVIOUS
  <2>2. sub \in Seq(Keys) /\ Len(sub) = Len(ks) /\ \A m \in 1 .. Len(ks) : sub[m] = ks[m]
    BY <1>0, <1>1, <2>1
  <2> QED BY <2>1, <2>2, SeqEqual
<1>2. SubSeq(ks, done + 1, done + 1) = <<ks[done + 1]>>
  <2>1. done + 1 \in 1 .. Len(ks)
    BY <1>0
  <2>2. PICK sub : sub = SubSeq(ks, done + 1, done + 1)
    OBVIOUS
  <2>3. sub \in Seq(Keys) /\ Len(sub) = 1 /\ sub[1] = ks[done + 1]
    BY <2>1, <2>2
  <2>4. sub = <<ks[done + 1]>>
    BY <2>3
  <2> QED BY <2>2, <2>4
<1>3. done + 1 \in 1 .. Len(ks) /\ ks[done + 1] \in Keys
  BY <1>0
<1>4. ks[done + 1] \in ToSet(ks)
  BY <1>3, ToSetIs
<1> QED BY <1>1, <1>2, <1>3, <1>4

\* What a terminal types comes after what it typed before and before all that
\* its queue and its lane still hold for it.
LEMMA TypeKeysOrder ==
  ASSUME IInv, OrderInv, NEW i \in 1 .. Len(serving), TypeKeys(i)
  PROVE  OrderInv'
<1>0. TypeOK /\ ServedSide
  BY DEF IInv
<1>1. PICK s \in Seq(Request) : s = serving
  BY <1>0 DEF TypeOK, Request
<1>2. PICK p \in Request : p = s[i]
  BY <1>1
<1>3. PICK last : last = IF p.pane \in PtyPanes THEN Len(p.keys) ELSE p.done + 1
  OBVIOUS
<1>4. PICK sub : sub = SubSeq(p.keys, p.done + 1, last)
  OBVIOUS
<1>5. PICK r : r = [p EXCEPT !.done = last]
  OBVIOUS
<1>6. PICK t : t = Replaced(s, i, r)
  OBVIOUS
<1>7. /\ typed' = [typed EXCEPT ![p.pane] = @ \o sub]
      /\ UNCHANGED <<queued, in_flight, recoverable, acked, retried, call>>
  BY <1>1, <1>2, <1>3, <1>4 DEF TypeKeys, ui, buffer
<1>8. serving' = t
  BY <1>1, <1>2, <1>3, <1>5, <1>6 DEF TypeKeys, Replaced
<1>9. Fits(s) /\ Once(s) /\ RestOf(p, TypedKeys)
  BY <1>0, <1>1, <1>2 DEF ServedSide, ServedOnce, RestIsUntyped
<1>10. /\ p.keys \in Seq(Keys) /\ Len(p.keys) \in Nat /\ p.done \in Nat /\ p.pane \in Panes
       /\ Unfinished(p) /\ p.done < Len(p.keys) /\ Len(p.keys) \in 0 .. FrameKeys
       /\ p.done + 1 \in 0 .. FrameKeys
  <2>1. p.keys \in Seq(Keys) /\ p.done \in 0 .. FrameKeys /\ p.pane \in Panes
    BY <1>2 DEF Request
  <2>2. Unfinished(p) /\ p.done < Len(p.keys)
    BY <1>1, <1>2 DEF TypeKeys, MayType, Unfinished
  <2>3. Len(p.keys) <= FrameKeys
    BY <1>1, <1>2, <1>9 DEF Fits
  <2> QED BY <2>1, <2>2, <2>3, CapacitiesAssumption
<1>11. /\ r \in Request /\ r.keys = p.keys /\ r.done = last /\ r.answer = p.answer
       /\ r.awaited = p.awaited /\ r.pane = p.pane
  <2>1. last \in 0 .. FrameKeys
    BY <1>3, <1>10
  <2> QED BY <2>1, <1>2, <1>5 DEF Request
<1>12. ~ Waits(r)
  <2>1. CASE p.pane \in PtyPanes
    BY <2>1, <1>3, <1>10, <1>11 DEF Waits, Unfinished
  <2>2. CASE p.pane \notin PtyPanes
    BY <2>2, <1>11 DEF Waits
  <2> QED BY <2>1, <2>2
<1>13. DeliveredWhole(r)
  <2>1. CASE p.pane \in PtyPanes
    BY <2>1, <1>3, <1>11 DEF DeliveredWhole
  <2>2. CASE p.pane \notin PtyPanes
    <3>1. p.answer = "none"
      BY <2>2, <1>1, <1>2, <1>10 DEF TypeKeys, MayType, Panes
    <3> QED BY <3>1, <1>11 DEF DeliveredWhole
  <2> QED BY <2>1, <2>2
<1>14. PICK f : Thins(s, t, f) /\ Origins(s, i, r, t, f)
  BY <1>1, <1>2, <1>6, <1>11, <1>12, <1>13, ReplacedThins
<1>15. /\ f \in [1 .. Len(t) -> 1 .. Len(s)]
       /\ \A k \in 1 .. Len(t) : f[k] \in 1 .. Len(s)
       /\ \A k \in 1 .. Len(t) : t[k] = IF f[k] = i THEN r ELSE s[f[k]]
       /\ \A k \in 1 .. Len(t) :
            /\ t[k].pane = s[f[k]].pane /\ t[k].keys = s[f[k]].keys
            /\ t[k].awaited => s[f[k]].awaited
            /\ Waits(t[k]) => Waits(s[f[k]]) /\ t[k].done = s[f[k]].done
  <2>1. f \in [1 .. Len(t) -> 1 .. Len(s)]
    BY <1>14 DEF Thins
  <2>2. \A k \in 1 .. Len(t) : f[k] \in 1 .. Len(s)
    BY <2>1
  <2>3. \A k \in 1 .. Len(t) : t[k] = IF f[k] = i THEN r ELSE s[f[k]]
    BY <1>14 DEF Origins
  <2>4. \A k \in 1 .. Len(t) :
          /\ t[k].pane = s[f[k]].pane /\ t[k].keys = s[f[k]].keys
          /\ t[k].awaited => s[f[k]].awaited
          /\ Waits(t[k]) => Waits(s[f[k]]) /\ t[k].done = s[f[k]].done
    BY <1>14 DEF Thins
  <2> QED BY <2>1, <2>2, <2>3, <2>4
<1>16. PICK K : K = ToSet(p.keys)
  OBVIOUS
<1>17. PICK w \in Seq(Keys) : w = typed[p.pane]
  BY <1>0, <1>10 DEF TypeOK
<1>18. PICK v : v = w \o sub
  OBVIOUS
<1>19. /\ p.pane \in PtyPanes => p.done = 0 /\ sub = p.keys /\ Waits(p)
       /\ p.pane \notin PtyPanes => sub = <<p.keys[p.done + 1]>>
       /\ sub \in Seq(Keys) /\ ToSet(sub) \subseteq K
       /\ p.keys[p.done + 1] \in Keys /\ p.keys[p.done + 1] \in K
  <2>1. PICK ks \in Seq(Keys) : ks = p.keys
    BY <1>10
  <2>2. PICK done \in Nat : done = p.done
    BY <1>10
  <2>3. /\ done = 0 => SubSeq(ks, done + 1, Len(ks)) = ks
        /\ SubSeq(ks, done + 1, done + 1) = <<ks[done + 1]>>
        /\ ks[done + 1] \in Keys /\ ks[done + 1] \in ToSet(ks)
    BY <2>1, <2>2, <1>10, SubSeqOfKeys
  <2>4. CASE p.pane \in PtyPanes
    <3>1. Waits(p)
      BY <2>4, <1>10 DEF Waits
    <3>2. p.done = 0
      BY <3>1, <1>1, <1>2 DEF OrderInv, WaitingFollows
    <3>3. sub = ks
      BY <2>1, <2>2, <2>3, <2>4, <3>2, <1>3, <1>4
    <3> QED BY <2>1, <2>2, <2>3, <2>4, <3>1, <3>2, <3>3, <1>16
  <2>5. CASE p.pane \notin PtyPanes
    <3>1. sub = <<ks[done + 1]>>
      BY <2>1, <2>2, <2>3, <2>5, <1>3, <1>4
    <3>2. sub \in Seq(Keys) /\ ToSet(sub) \subseteq ToSet(ks)
      <4>1. PICK x : x = ks[done + 1]
        OBVIOUS
      <4>2. <<x>> \in Seq(Keys) /\ Len(<<x>>) = 1 /\ <<x>>[1] = x
        BY <4>1, <2>3, OneElement
      <4>3. \A k \in ToSet(<<x>>) : \E m \in 1 .. 1 : <<x>>[m] = k
        BY <4>2, ToSetIs
      <4> QED BY <4>1, <4>2, <4>3, <3>1, <2>3
    <3> QED BY <2>1, <2>2, <2>3, <2>5, <3>1, <3>2, <1>16
  <2> QED BY <2>4, <2>5
<1>20. v \in Seq(Keys) /\ ToSet(v) = ToSet(w) \cup ToSet(sub)
  BY <1>18, <1>19, Joined, ToSetJoin
<1>21. \A q \in Panes : typed'[q] = IF q = p.pane THEN v ELSE typed[q]
  BY <1>0, <1>7, <1>10, <1>17, <1>18 DEF TypeOK
<1>22. K \cap acked = {}
  <2>1. K \subseteq ServedKeys
    BY <1>0, <1>1, <1>2, <1>16, RequestsAreServed
  <2> QED BY <2>1 DEF OrderInv, AckedIsGone
<1>23. /\ Rising(p.keys, retried)
       /\ \A q \in Panes : Rising(typed[q], Uncertain(q))
       /\ p.pane \in PtyPanes => Precede(ToSet(w), K, retried)
  BY <1>1, <1>2, <1>10, <1>16, <1>17, <1>19
  DEF OrderInv, ServedRises, TypedRises, WaitingFollows
<1>24. TypedRises'
  <2>1. Rising(v, Uncertain(p.pane))
    <3>1. CASE p.pane \in PtyPanes
      <4>1. Uncertain(p.pane) = retried /\ Rising(w, retried)
        BY <3>1, <1>10, <1>17, <1>23 DEF Uncertain
      <4>2. Rising(sub, retried) /\ Precede(ToSet(w), ToSet(sub), retried)
        BY <3>1, <1>16, <1>19, <1>23
      <4> QED BY <4>1, <4>2, <1>18, <1>19, RisingJoin
    <3>2. CASE p.pane \notin PtyPanes
      <4>1. PICK R : R = Uncertain(p.pane)
        OBVIOUS
      <4>2. K \subseteq Keys /\ R = retried \cup (Keys \ acked) /\ Rising(w, R)
        BY <3>2, <4>1, <1>10, <1>16, <1>17, <1>23, ToSetIs DEF Uncertain
      <4>3. ToSet(sub) \subseteq R
        BY <4>2, <1>19, <1>22
      <4>4. Rising(sub, R) /\ Precede(ToSet(w), ToSet(sub), R)
        BY <4>3, <1>19, RisingNoted, PrecedeNoted
      <4> QED BY <4>1, <4>2, <4>4, <1>18, <1>19, RisingJoin
    <3> QED BY <3>1, <3>2
  <2>2. \A q \in Panes : Rising(typed'[q], Uncertain(q))
    BY <2>1, <1>21, <1>23
  <2> QED BY <2>2, <1>7 DEF TypedRises, Uncertain
<1>25. ASSUME NEW o \in Panes, NEW L, Follows(o, L, typed[o], s, acked, retried)
       PROVE  Follows(o, L, typed'[o], t, acked, retried)
  <2>1. Follows(o, L, typed[o], t, acked, retried)
    BY <1>14, <1>25, ThinsFollows
  <2>2. CASE o # p.pane
    BY <2>1, <2>2, <1>21
  <2>3. CASE o = p.pane /\ o \in PtyPanes
    <3>1. Precede(K, L, retried) /\ Precede(ToSet(w), L, retried)
      BY <2>3, <1>1, <1>2, <1>16, <1>17, <1>19, <1>25 DEF Follows
    <3>2. Precede(ToSet(w) \cup ToSet(sub), L, retried)
      <4>1. Precede(ToSet(sub), L, retried)
        BY <3>1, <1>19, PrecedeLess
      <4> QED BY <3>1, <4>1, PrecedeJoin
    <3> QED BY <2>1, <2>3, <3>2, <1>20, <1>21 DEF Follows
  <2>4. CASE o = p.pane /\ o \notin PtyPanes
    <3>1. ToSet(v) \cap acked = ToSet(typed[o]) \cap acked
      BY <2>4, <1>17, <1>19, <1>20, <1>22
    <3> QED BY <2>1, <2>4, <3>1, <1>21 DEF Follows
  <2> QED BY <2>2, <2>3, <2>4
<1>26. QueueFollows'
  <2>1. ASSUME NEW k \in 1 .. Len(queued)
        PROVE  Follows(queued[k].pane, ToSet(queued[k].keys), typed'[queued[k].pane], t, acked,
                       retried)
    <3>1. PICK o : o = queued[k].pane
      OBVIOUS
    <3>2. PICK L : L = ToSet(queued[k].keys)
      OBVIOUS
    <3>3. Follows(o, L, typed[o], s, acked, retried)
      BY <3>1, <3>2, <1>1 DEF OrderInv, QueueFollows
    <3>4. o \in Panes
      <4>1. PICK q \in Seq(Frame) : q = queued
        BY <1>0 DEF TypeOK
      <4>2. q[k] \in Frame
        BY <4>1
      <4> QED BY <4>1, <4>2, <3>1 DEF Frame
    <3> QED BY <3>1, <3>2, <3>3, <3>4, <1>25
  <2>2. InOrder(queued, retried)
    BY DEF OrderInv, QueueFollows
  <2> QED BY <2>1, <2>2, <1>7, <1>8 DEF QueueFollows
<1>27. FlightFollows'
  <2>1. CASE in_flight = NoFrame
    BY <2>1, <1>7 DEF FlightFollows
  <2>2. CASE in_flight # NoFrame
    <3>1. PICK g \in Frame : g = in_flight
      BY <2>2, <1>0 DEF TypeOK
    <3>2. g.pane \in Panes
      BY DEF Frame
    <3>3. call # "read" \/ g.pane \notin PtyPanes =>
            Follows(g.pane, ToSet(g.keys), typed[g.pane], s, acked, retried)
      BY <2>2, <3>1, <1>1 DEF OrderInv, FlightFollows
    <3>4. call # "read" \/ g.pane \notin PtyPanes =>
            Follows(g.pane, ToSet(g.keys), typed'[g.pane], t, acked, retried)
      BY <3>2, <3>3, <1>25
    <3>5. \A k \in 1 .. Len(t) : t[k].awaited => t[k].pane = g.pane
      BY <2>2, <3>1, <1>1, <1>15 DEF OrderInv, FlightFollows
    <3>6. /\ Rising(g.keys, retried)
          /\ \A k \in 1 .. Len(queued) :
               queued[k].pane = g.pane => Precede(ToSet(g.keys), ToSet(queued[k].keys), retried)
      BY <2>2, <3>1 DEF OrderInv, FlightFollows
    <3> QED BY <3>1, <3>4, <3>5, <3>6, <1>7, <1>8 DEF FlightFollows
  <2> QED BY <2>1, <2>2
<1>28. /\ ServedRises'
       /\ \A k, l \in 1 .. Len(t) :
            k < l /\ Waits(t[k]) /\ Waits(t[l]) /\ t[k].pane = t[l].pane =>
              Precede(ToSet(t[k].keys), ToSet(t[l].keys), retried)
  BY <1>1, <1>7, <1>8, <1>14, ThinsServed DEF OrderInv
<1>29. WaitingFollows'
  <2>1. ASSUME NEW k \in 1 .. Len(t), Waits(t[k])
        PROVE  t[k].done = 0 /\ Precede(ToSet(typed'[t[k].pane]), ToSet(t[k].keys), retried)
    <3>1. PICK j : j = f[k]
      OBVIOUS
    <3>2. /\ j \in 1 .. Len(s) /\ j # i /\ Waits(s[j]) /\ t[k].done = s[j].done
          /\ t[k].pane = s[j].pane /\ t[k].keys = s[j].keys
      BY <2>1, <3>1, <1>12, <1>15
    <3>3. s[j].done = 0 /\ Precede(ToSet(typed[s[j].pane]), ToSet(s[j].keys), retried)
      BY <3>2, <1>1 DEF OrderInv, WaitingFollows
    <3>4. s[j].pane \in Panes
      <4>1. s[j] \in Request
        BY <3>2
      <4> QED BY <4>1 DEF Request
    <3>5. CASE s[j].pane # p.pane
      BY <3>2, <3>3, <3>4, <3>5, <1>21
    <3>6. CASE s[j].pane = p.pane
      <4>1. p.pane \in PtyPanes
        BY <3>2, <3>6 DEF Waits
      <4>2. ~ (j < i)
        BY <4>1, <3>2, <3>6, <1>1, <1>2 DEF TypeKeys, MayType, Waits
      <4>3. i < j
        BY <4>2, <3>2, <1>1
      <4>4. Precede(K, ToSet(s[j].keys), retried)
        BY <4>1, <4>3, <3>2, <3>6, <1>1, <1>2, <1>16, <1>19 DEF OrderInv, WaitingFollows
      <4>5. Precede(ToSet(w) \cup ToSet(sub), ToSet(s[j].keys), retried)
        <5>1. Precede(ToSet(sub), ToSet(s[j].keys), retried)
          BY <4>4, <1>19, PrecedeLess
        <5> QED BY <5>1, <3>3, <3>6, <1>17, PrecedeJoin
      <4> QED BY <4>5, <3>2, <3>3, <3>4, <3>6, <1>20, <1>21
    <3> QED BY <3>5, <3>6
  <2> QED BY <2>1, <1>7, <1>8, <1>28 DEF WaitingFollows
<1>30. AwaitedIsTyped'
  <2>1. ASSUME NEW k \in 1 .. Len(t), t[k].awaited
        PROVE  /\ \A q \in Panes : q # t[k].pane => ToSet(typed'[q]) \cap ToSet(t[k].keys) = {}
               /\ t[k].pane \notin PtyPanes =>
                    TypedAfter(typed'[t[k].pane], ToSet(t[k].keys), acked, retried)
    <3>1. PICK j : j = f[k]
      OBVIOUS
    <3>2. /\ j \in 1 .. Len(s) /\ s[j].awaited /\ t[k].pane = s[j].pane
          /\ t[k].keys = s[j].keys
      BY <2>1, <3>1, <1>15
    <3>3. PICK o : o = s[j].pane
      OBVIOUS
    <3>4. PICK L : L = ToSet(s[j].keys)
      OBVIOUS
    <3>5. o \in Panes
      <4>1. s[j] \in Request
        BY <3>2
      <4> QED BY <4>1, <3>3 DEF Request
    <3>6. /\ \A q \in Panes : q # o => ToSet(typed[q]) \cap L = {}
          /\ o \notin PtyPanes => TypedAfter(typed[o], L, acked, retried)
      BY <3>2, <3>3, <3>4, <1>1 DEF OrderInv, AwaitedIsTyped
    <3>7. j # i => K \cap L = {}
      BY <3>2, <3>4, <1>1, <1>2, <1>9, <1>16 DEF Once
    <3>8. ASSUME NEW q \in Panes, q # o PROVE ToSet(typed'[q]) \cap L = {}
      <4>1. CASE q # p.pane
        BY <4>1, <3>6, <3>8, <1>21
      <4>2. CASE q = p.pane
        <5>1. K \cap L = {}
          BY <4>2, <3>3, <3>7, <3>8, <1>2
        <5> QED BY <5>1, <4>2, <3>6, <3>8, <1>17, <1>19, <1>20, <1>21
      <4> QED BY <4>1, <4>2
    <3>9. ASSUME o \notin PtyPanes PROVE TypedAfter(typed'[o], L, acked, retried)
      <4>1. CASE o # p.pane
        BY <4>1, <3>5, <3>6, <3>9, <1>21
      <4>2. CASE o = p.pane
        <5>1. PICK key : key = p.keys[p.done + 1]
          OBVIOUS
        <5>2. key \in Keys /\ key \in K /\ key \notin acked /\ v = w \o <<key>>
          BY <5>1, <4>2, <3>9, <1>18, <1>19, <1>22
        <5>3. ASSUME key \in L, key \notin retried, NEW x \in ToSet(w), x \in L \ retried
              PROVE  x < key
          <6>1. L = K
            BY <5>2, <5>3, <3>4, <3>7, <1>2, <1>16
          <6>2. PICK m \in 1 .. Len(p.keys) : p.keys[m] = x
            <7>1. PICK ks \in Seq(Keys) : ks = p.keys
              BY <1>10
            <7>2. \E m \in 1 .. Len(ks) : ks[m] = x
              BY <7>1, <5>3, <6>1, <1>16, ToSetIs
            <7> QED BY <7>1, <7>2
          <6>3. x \in TypedKeys
            BY <5>3, <1>10, <1>17 DEF TypedKeys
          <6>4. ~ (m > p.done)
            BY <6>2, <6>3, <1>9 DEF RestOf
          <6>5. m < p.done + 1 /\ p.done + 1 \in 1 .. Len(p.keys)
            BY <6>4, <1>10
          <6> QED BY <5>1, <5>3, <6>2, <6>5, <1>23 DEF Rising
        <5>4. TypedAfter(w, L, acked, retried)
          BY <4>2, <3>6, <3>9, <1>17
        <5>5. TypedAfter(v, L, acked, retried)
          BY <5>2, <5>3, <5>4, TypedAfterNext
        <5> QED BY <5>5, <4>2, <3>5, <1>21
      <4> QED BY <4>1, <4>2
    <3> QED BY <3>2, <3>3, <3>4, <3>8, <3>9
  <2> QED BY <2>1, <1>7, <1>8 DEF AwaitedIsTyped
<1>31. AckedIsGone'
  <2>1. KeysOf(t) \subseteq KeysOf(s)
    BY <1>1, <1>2, <1>6, <1>9, <1>11, ReplacedKeys
  <2>2. ServedKeys' \subseteq ServedKeys
    BY <2>1, <1>1, <1>8 DEF ServedKeys
  <2>3. HeldKeys' = HeldKeys /\ InFlightKeys' = InFlightKeys
    BY <1>7 DEF HeldKeys, InFlightKeys
  <2> QED BY <2>2, <2>3, <1>7 DEF OrderInv, AckedIsGone
<1> QED BY <1>24, <1>26, <1>27, <1>28, <1>29, <1>30, <1>31 DEF OrderInv

LEMMA AnswersOrder ==
  ASSUME IInv, OrderInv, ReadAnswer \/ ReadTimesOut
  PROVE  OrderInv'
<1>0. \A i \in DOMAIN serving : i \in 1 .. Len(serving) /\ serving[i] \in Request
  <2>1. PICK s \in Seq(Request) : s = serving
    BY DEF IInv, TypeOK, Request
  <2>2. \A i \in DOMAIN s : i \in 1 .. Len(s) /\ s[i] \in Request
    OBVIOUS
  <2> QED BY <2>1, <2>2
<1>1. CASE ReadAnswer
  <2>1. PICK i \in DOMAIN serving :
          /\ serving[i].awaited /\ serving[i].answer # "none"
          /\ finish_terminal_input(serving[i].answer)
          /\ conn' = IF serving[i].answer = "delivered" THEN "open" ELSE "none"
          /\ serving' = Remaining([serving EXCEPT ![i].awaited = FALSE])
    BY <1>1 DEF ReadAnswer
  <2>2. PICK outcome : outcome = serving[i].answer
    OBVIOUS
  <2>3. outcome \in Outcomes /\ finish_terminal_input(outcome)
    BY <2>1, <2>2, <1>0 DEF Request
  <2>4. conn' \in {"none", "open", "dead"} /\ UNCHANGED <<service, crashes, typed>>
    BY <2>1, <1>1 DEF ReadAnswer
  <2> QED BY <2>1, <2>2, <2>3, <2>4, <1>0, CallEndsOrder
<1>2. CASE ReadTimesOut
  <2>1. PICK i \in DOMAIN serving :
          /\ serving[i].awaited
          /\ serving' = Remaining([serving EXCEPT ![i].awaited = FALSE])
    BY <1>2 DEF ReadTimesOut
  <2>2. /\ finish_terminal_input("indeterminate") /\ conn' = "none"
        /\ UNCHANGED <<service, crashes, typed>>
    BY <1>2 DEF ReadTimesOut
  <2>3. PICK outcome \in Outcomes : outcome = "indeterminate"
    BY DEF Outcomes
  <2> QED BY <2>1, <2>2, <2>3, <1>0, CallEndsOrder
<1> QED BY <1>1, <1>2

LEMMA InitOrder == Init => OrderInv
<1> SUFFICES ASSUME Init PROVE OrderInv
  OBVIOUS
<1>1. /\ queued = <<>> /\ in_flight = NoFrame /\ serving = <<>> /\ acked = {}
      /\ \A p \in Panes : typed[p] = <<>>
  BY DEF Init
<1>2. \A R : Rising(<<>>, R)
  BY DEF Rising
<1>3. TypedRises
  BY <1>1, <1>2 DEF TypedRises
<1>4. QueueFollows
  BY <1>1 DEF QueueFollows, InOrder
<1>5. FlightFollows
  BY <1>1 DEF FlightFollows
<1>6. WaitingFollows
  BY <1>1 DEF WaitingFollows
<1>7. AwaitedIsTyped /\ ServedRises /\ AckedIsGone
  BY <1>1 DEF AwaitedIsTyped, ServedRises, AckedIsGone
<1> QED BY <1>3, <1>4, <1>5, <1>6, <1>7 DEF OrderInv

LEMMA StepOrder == IInv /\ OrderInv /\ [Next]_vars => OrderInv'
<1> SUFFICES ASSUME IInv, OrderInv, [Next]_vars PROVE OrderInv'
  OBVIOUS
<1>1. DOMAIN serving = 1 .. Len(serving)
  <2>1. PICK s \in Seq(Request) : s = serving
    BY DEF IInv, TypeOK, Request
  <2>2. DOMAIN s = 1 .. Len(s)
    OBVIOUS
  <2> QED BY <2>1, <2>2
<1>2. CASE \E p \in Panes, n \in 1 .. FrameKeys : try_send(p, n)
  BY <1>2, TrySendOrder
<1>3. CASE replay_recoverable
  BY <1>3, ReplayOrder
<1>4. CASE Lane
  BY <1>4, ConnectionOrder, BeginOrder DEF Lane
<1>5. CASE Client
  BY <1>5, ConnectionOrder, WriteRequestOrder, AnswersOrder DEF Client
<1>6. CASE \E i \in DOMAIN serving : TypeKeys(i) \/ Answer(i)
  BY <1>1, <1>6, TypeKeysOrder, AnswerOrder
<1>7. CASE ServiceEnds \/ ServiceStarts
  BY <1>7, ServiceEndsOrder, ConnectionOrder
<1>8. CASE UNCHANGED vars
  BY <1>8, ConnectionOrder
<1> QED BY <1>2, <1>3, <1>4, <1>5, <1>6, <1>7, <1>8 DEF Next

\* Each terminal gets its certain keys in the order the UI emitted them: the
\* lane sends one frame at a time, a plain PTY types requests as they arrived,
\* and a tmux terminal's key that is late belongs to a call that did not end
\* well, or to one the user sent again.
THEOREM CertainKeysKeepOrderHolds == Spec => []CertainKeysKeepOrder
<1>1. Spec => [](IInv /\ OrderInv)
  BY InitHolds, StepHolds, InitOrder, StepOrder, PTL DEF Spec
<1>2. ASSUME IInv, OrderInv PROVE CertainKeysKeepOrder
  <2>1. typed \in [Panes -> Seq(Keys)] /\ TypedRises
    BY <1>2 DEF IInv, TypeOK, OrderInv
  <2>2. ASSUME NEW p \in Panes, NEW i \in DOMAIN typed[p], NEW j \in DOMAIN typed[p], i < j,
               {typed[p][i], typed[p][j]} \subseteq
                 IF p \in PtyPanes THEN Keys \ retried ELSE acked \ retried
        PROVE  typed[p][i] < typed[p][j]
    <3>1. PICK s \in Seq(Keys) : s = typed[p]
      BY <2>1
    <3>2. i \in 1 .. Len(s) /\ j \in 1 .. Len(s)
      BY <3>1
    <3>3. Rising(s, Uncertain(p))
      BY <2>1, <3>1 DEF TypedRises
    <3>4. s[i] \notin Uncertain(p) /\ s[j] \notin Uncertain(p)
      BY <2>2, <3>1 DEF Uncertain
    <3> QED BY <2>2, <3>1, <3>2, <3>3, <3>4 DEF Rising
  <2> QED BY <2>2 DEF CertainKeysKeepOrder
<1> QED BY <1>1, <1>2, PTL
=============================================================================
