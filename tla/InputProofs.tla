---------------------------- MODULE InputProofs ----------------------------
(***************************************************************************)
(* EventsKept for every size of the event queue and any number of events:  *)
(* the assertion of pop_pending_event never fails, no buffer is missing,   *)
(* and events arrive once and in order.  Every descriptor is in the queue  *)
(* between calls, so that the one that was popped is the only one add can  *)
(* take.                                                                   *)
(***************************************************************************)
EXTENDS Input, DriverQueueProofs

Bufs == Descs(EvSize)

\* Types; all buffers are lent.
EvShape ==
  /\ OneDesc(evq, EvSize) /\ InQueue(evq) = Bufs
  /\ event_buf \in [Bufs -> Nat]
  /\ evIn \in Nat /\ evGot \in Seq(Nat)
  /\ evPanic = FALSE

\* The client was given the first events, the used ring holds the following ones.
EvNumbered ==
  /\ evIn = Len(evGot) + Len(evq.used)
  /\ \A i \in 1 .. Len(evGot) : evGot[i] = i
  /\ \A i \in 1 .. Len(evq.used) : event_buf[evq.used[i]] = Len(evGot) + i

\* The inductive invariant.
EvInv == EvShape /\ EvNumbered

\* After VirtIOInput::new every buffer is lent and no event has arrived.
LEMMA EvInitInv ==
  ASSUME EvInit
  PROVE  EvInv
<1>. DEFINE a == [i \in 1 .. EvSize |-> i - 1]
            c == [t \in Bufs |-> <<t>>]
<1>1. EvSize \in Nat /\ EvSize >= 1 /\ Bufs = 0 .. (EvSize - 1)
  BY EvAssumption DEF Bufs, Descs
<1>2. /\ a \in Seq(Bufs) /\ Len(a) = EvSize /\ <<>> \in Seq(Bufs) /\ NoRepeat(a)
      /\ \A i \in 1 .. Len(a) : a[i] \in Bufs
  BY <1>1 DEF NoRepeat
<1>3. evq \in [size : {EvSize}, free : {<<>>}, chain : {c}, avail : {a}, used : {<<>>}]
  BY <1>1 DEF EvInit, NewQueue
<1>. HIDE DEF a
<1>4. evq.free = <<>> /\ evq.chain = c /\ evq.avail = a /\ evq.used = <<>>
  BY <1>3
<1>5. InQueue(evq) = Bufs
  BY <1>4 DEF InQueue
<1>6. evq \in [size : {EvSize}, free : Seq(Bufs), chain : {c}, avail : Seq(Bufs), used : Seq(Bufs)]
  BY <1>2, <1>3
<1>7. OneDescShape(evq, EvSize)
  BY <1>5, <1>6 DEF OneDescShape, Bufs
<1>8. FreeExact(evq, EvSize) /\ RingsApart(evq)
  BY <1>2, <1>4, <1>5 DEF FreeExact, RingsApart, NoRepeat, InSeq, Bufs
<1>9. event_buf \in [Bufs -> Nat] /\ evIn = 0 /\ evGot = <<>> /\ evPanic = FALSE
  BY <1>1 DEF EvInit
<1>10. EvNumbered
  BY <1>4, <1>9 DEF EvNumbered
<1>. QED
  BY <1>5, <1>7, <1>8, <1>9, <1>10 DEF EvInv, EvShape, OneDesc

\* The device writes to a buffer that is not in the used ring.
LEMMA DeliverEventKeeps ==
  ASSUME EvInv, EvDeliver
  PROVE  EvInv'
<1>. DEFINE u == evq.used
            t == Head(evq.avail)
<1>1. /\ OneDesc(evq, EvSize) /\ InQueue(evq) = Bufs /\ u \in Seq(Bufs) /\ evq.avail # <<>>
      /\ event_buf \in [Bufs -> Nat] /\ evIn \in Nat /\ evGot \in Seq(Nat) /\ evPanic = FALSE
  BY ShapeFacts DEF EvInv, EvShape, EvDeliver, OneDesc, Bufs
<1>2. /\ event_buf' = [event_buf EXCEPT ![t] = evIn + 1] /\ evIn' = evIn + 1
      /\ evGot' = evGot /\ evPanic' = evPanic /\ evq' = UseNext(evq)
  BY DEF EvDeliver
<1>3. /\ OneDesc(evq', EvSize) /\ InQueue(evq') = Bufs /\ evq'.used = Append(u, t)
      /\ t \in Bufs /\ ~InSeq(t, u)
  BY <1>1, <1>2, UseNextOneDesc
<1>. HIDE DEF t
<1>4. EvShape'
  <2>1. event_buf' \in [Bufs -> Nat] /\ evIn' \in Nat
    BY <1>1, <1>2, <1>3
  <2>. QED
    BY <1>1, <1>2, <1>3, <2>1 DEF EvShape
<1>5. /\ Len(u) \in Nat /\ Len(Append(u, t)) = Len(u) + 1
      /\ \A i \in 1 .. Len(u) : Append(u, t)[i] = u[i]
      /\ Append(u, t)[Len(u) + 1] = t
  BY <1>1, <1>3, AppendFacts
<1>6. /\ evIn = Len(evGot) + Len(u) /\ Len(evGot) \in Nat
      /\ \A i \in 1 .. Len(evGot) : evGot[i] = i
      /\ \A i \in 1 .. Len(u) : event_buf[u[i]] = Len(evGot) + i
  BY <1>1 DEF EvInv, EvNumbered
<1>7. \A i \in 1 .. Len(u) + 1 : event_buf'[Append(u, t)[i]] = Len(evGot) + i
  <2>1. \A i \in 1 .. Len(u) : u[i] # t /\ u[i] \in Bufs
    BY <1>1, <1>3 DEF InSeq
  <2>2. /\ \A i \in 1 .. Len(u) : event_buf'[u[i]] = event_buf[u[i]]
        /\ event_buf'[t] = evIn + 1
    BY <1>1, <1>2, <1>3, <2>1
  <2>. SUFFICES ASSUME NEW i \in 1 .. Len(u) + 1
                PROVE  event_buf'[Append(u, t)[i]] = Len(evGot) + i
    OBVIOUS
  <2>3. CASE i \in 1 .. Len(u)
    BY <1>5, <1>6, <2>2, <2>3
  <2>4. CASE i = Len(u) + 1
    BY <1>1, <1>5, <1>6, <2>2, <2>4
  <2>. QED
    BY <1>5, <2>3, <2>4
<1>8. EvNumbered'
  <2>1. evIn' = Len(evGot) + (Len(u) + 1)
    BY <1>2, <1>5, <1>6
  <2>. QED
    BY <1>2, <1>3, <1>5, <1>6, <1>7, <2>1 DEF EvNumbered
<1>. QED
  BY <1>4, <1>8 DEF EvInv

\* pop_pending_event: only the popped descriptor is free, so add returns it again.
LEMMA SameToken ==
  ASSUME OneDesc(evq, EvSize), InQueue(evq) = Bufs, CanPopFrom(evq)
  PROVE  LET t == PeekUsed(evq)
             popped == PopFrom(evq, t)
         IN  /\ t \in Bufs /\ NextToken(popped) = t
             /\ OneDesc(Requeue(popped), EvSize) /\ InQueue(Requeue(popped)) = Bufs
             /\ Requeue(popped).used = Tail(evq.used)
<1>. DEFINE t == PeekUsed(evq)
            popped == PopFrom(evq, t)
<1>1. /\ t \in Bufs /\ OneDesc(popped, EvSize) /\ InQueue(popped) = Bufs \ {t}
      /\ popped.used = Tail(evq.used)
  BY PopOneDesc
<1>. HIDE DEF popped, t
<1>2. CanAddTo(popped, 1, FALSE)
  BY <1>1, EvAssumption, CanAddIff DEF Bufs
<1>3. /\ NextToken(popped) \in Bufs /\ NextToken(popped) \notin InQueue(popped)
      /\ OneDesc(AddTo(popped, 1, FALSE), EvSize)
      /\ InQueue(AddTo(popped, 1, FALSE)) = InQueue(popped) \cup {NextToken(popped)}
      /\ AddTo(popped, 1, FALSE).used = popped.used
  BY <1>1, <1>2, EvAssumption, AddOneDesc DEF Bufs
<1>4. NextToken(popped) = t /\ InQueue(AddTo(popped, 1, FALSE)) = Bufs
  BY <1>1, <1>3
<1>. QED
  BY <1>1, <1>2, <1>3, <1>4 DEF Requeue, popped, t

\* pop_pending_event gives the client the oldest event and lends the buffer again.
LEMMA PopEventKeeps ==
  ASSUME EvInv, PopPendingEvent
  PROVE  EvInv'
<1>. DEFINE u == evq.used
            t == PeekUsed(evq)
            g == Len(evGot)
            n == Len(u)
<1>1. /\ OneDesc(evq, EvSize) /\ InQueue(evq) = Bufs /\ u \in Seq(Bufs) /\ u # <<>> /\ CanPopFrom(evq)
      /\ event_buf \in [Bufs -> Nat] /\ evIn \in Nat /\ evGot \in Seq(Nat) /\ evPanic = FALSE
  BY ShapeFacts DEF EvInv, EvShape, PopPendingEvent, CanPopFrom, OneDesc, Bufs
<1>2. /\ evq' = Requeue(PopFrom(evq, t)) /\ evGot' = Append(evGot, event_buf[t])
      /\ event_buf' = event_buf /\ evIn' = evIn
  BY DEF PopPendingEvent, EventSlot
<1>3. /\ t \in Bufs /\ NextToken(PopFrom(evq, t)) = t
      /\ OneDesc(evq', EvSize) /\ InQueue(evq') = Bufs /\ evq'.used = Tail(u)
  BY <1>1, <1>2, SameToken
<1>4. evPanic' = FALSE
  BY <1>1, <1>3 DEF PopPendingEvent
<1>5. /\ n \in Nat /\ n >= 1 /\ Len(Tail(u)) = n - 1 /\ t = u[1]
      /\ \A i \in 1 .. n - 1 : Tail(u)[i] = u[i + 1]
  BY <1>1, TailFacts DEF PeekUsed
<1>6. /\ evIn = g + n /\ g \in Nat /\ \A i \in 1 .. g : evGot[i] = i
      /\ \A i \in 1 .. n : event_buf[u[i]] = g + i
  BY <1>1 DEF EvInv, EvNumbered
<1>7. event_buf[t] = g + 1 /\ event_buf[t] \in Nat
  BY <1>1, <1>3, <1>5, <1>6
<1>8. /\ evGot' \in Seq(Nat) /\ Len(evGot') = g + 1 /\ evGot'[g + 1] = g + 1
      /\ \A i \in 1 .. g : evGot'[i] = evGot[i]
  BY <1>1, <1>2, <1>7, AppendFacts
<1>9. EvShape'
  BY <1>1, <1>2, <1>3, <1>4, <1>8 DEF EvShape
<1>. HIDE DEF g, n, t
<1>10. \A i \in 1 .. Len(evGot') : evGot'[i] = i
  BY <1>6, <1>8
<1>11. \A i \in 1 .. n - 1 : event_buf[Tail(u)[i]] = (g + 1) + i
  <2>. SUFFICES ASSUME NEW i \in 1 .. n - 1 PROVE event_buf[Tail(u)[i]] = (g + 1) + i
    OBVIOUS
  <2>1. i + 1 \in 1 .. n /\ g + (i + 1) = (g + 1) + i
    BY <1>5, <1>6
  <2>. QED
    BY <1>5, <1>6, <2>1
<1>12. evIn' = (g + 1) + (n - 1)
  BY <1>2, <1>5, <1>6
<1>13. Len(evq'.used) = n - 1
  BY <1>3, <1>5
<1>14. \A i \in 1 .. Len(evq'.used) : event_buf'[evq'.used[i]] = Len(evGot') + i
  <2>1. evq'.used = Tail(u) /\ event_buf' = event_buf /\ Len(evGot') = g + 1
    BY <1>2, <1>3, <1>8
  <2>. QED
    BY <1>11, <1>13, <2>1
<1>15. EvNumbered'
  BY <1>8, <1>10, <1>12, <1>13, <1>14 DEF EvNumbered
<1>. QED
  BY <1>9, <1>15 DEF EvInv

\* The inductive invariant implies the property.
LEMMA EvInvImplies ==
  ASSUME EvInv
  PROVE  EventsKept
<1>. DEFINE u == evq.used
            w == [i \in 1 .. Len(u) |-> event_buf[u[i]]]
<1>1. /\ u \in Seq(Bufs) /\ event_buf \in [Bufs -> Nat] /\ evIn \in Nat /\ evGot \in Seq(Nat)
      /\ InQueue(evq) = Bufs /\ evPanic = FALSE
  BY ShapeFacts DEF EvInv, EvShape, OneDesc, Bufs, Descs
<1>2. /\ evIn = Len(evGot) + Len(u)
      /\ \A i \in 1 .. Len(evGot) : evGot[i] = i
      /\ \A i \in 1 .. Len(u) : event_buf[u[i]] = Len(evGot) + i
  BY DEF EvInv, EvNumbered
<1>3. w \in Seq(Nat) /\ Len(w) = Len(u) /\ Len(u) \in Nat /\ Len(evGot) \in Nat
  BY <1>1
<1>4. /\ evGot \o w \in Seq(Nat) /\ Len(evGot \o w) = evIn
      /\ \A i \in 1 .. evIn : (evGot \o w)[i] = IF i <= Len(evGot) THEN evGot[i] ELSE w[i - Len(evGot)]
  BY <1>1, <1>2, <1>3
<1>5. \A i \in 1 .. evIn : (evGot \o w)[i] = i
  <2>1. \A i \in 1 .. Len(u) : w[i] = Len(evGot) + i
    BY <1>2
  <2>. HIDE DEF w
  <2>. SUFFICES ASSUME NEW i \in 1 .. evIn PROVE (evGot \o w)[i] = i
    OBVIOUS
  <2>2. CASE i <= Len(evGot)
    <3>1. i \in 1 .. Len(evGot)
      BY <1>3, <2>2
    <3>. QED
      BY <1>2, <1>4, <2>2, <3>1
  <2>3. CASE ~(i <= Len(evGot))
    <3>1. i - Len(evGot) \in 1 .. Len(u) /\ Len(evGot) + (i - Len(evGot)) = i
      BY <1>2, <1>3, <2>3
    <3>2. (evGot \o w)[i] = w[i - Len(evGot)]
      BY <1>4, <2>3
    <3>. QED
      BY <2>1, <3>1, <3>2
  <2>. QED
    BY <2>2, <2>3
<1>6. evGot \o w = [i \in 1 .. evIn |-> i]
  <2>. DEFINE n == [i \in 1 .. evIn |-> i]
  <2>1. n \in Seq(Nat) /\ Len(n) = evIn /\ \A i \in 1 .. evIn : n[i] = i
    BY <1>1
  <2>. HIDE DEF n
  <2>2. evGot \o w = n
    BY <1>4, <1>5, <2>1, SeqEqual
  <2>. QED
    BY <2>2 DEF n
<1>7. EventBuffersLent
  BY <1>1 DEF EventBuffersLent, Bufs, Descs
<1>. QED
  BY <1>6, <1>7 DEF EventsKept, EventsInOrder

\* Whatever the size of the queue and however deliveries and pops alternate, every
\* buffer of the event queue stays lent under its own token, the assertion in
\* pop_pending_event never fails, and every event reaches the client once and in order.
THEOREM EventsNeverLost == EvSpec => []EventsKept
<1>1. EvInit => EvInv
  BY EvInitInv
<1>2. EvInv /\ [EvNext]_evVars => EvInv'
  <2>. SUFFICES ASSUME EvInv, [EvNext]_evVars PROVE EvInv'
    OBVIOUS
  <2>1. CASE EvDeliver
    BY <2>1, DeliverEventKeeps
  <2>2. CASE PopPendingEvent
    BY <2>2, PopEventKeeps
  <2>3. CASE UNCHANGED <<evq, event_buf, evIn, evGot, evPanic>>
    BY <2>3 DEF EvInv, EvShape, EvNumbered
  <2>. QED
    BY <2>1, <2>2, <2>3 DEF EvNext, RequestEntropy, Query, evVars
<1>3. EvInv => EventsKept
  BY EvInvImplies
<1>. QED
  BY <1>1, <1>2, <1>3, PTL DEF EvSpec
=============================================================================
