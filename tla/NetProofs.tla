----------------------------- MODULE NetProofs -----------------------------
(***************************************************************************)
(* BuffersOwned for every queue size and configuration.  VirtIONet keeps a *)
(* buffer at the index that is its token; the client recycles in any       *)
(* order, so that buffers move between tokens.  The invariant says that a  *)
(* place is empty exactly while its token is free, and that a buffer has   *)
(* one owner; then the place of a new token is always empty, and a buffer  *)
(* the client still holds leaves room in the queue (pigeonhole).           *)
(***************************************************************************)
EXTENDS Net, DriverQueueProofs

\* Types, and one buffer for every token.
NetShape ==
  /\ netCfg \in NetCfgs
  /\ OneDesc(netRx, NetSize)
  /\ rxAt \in [InQueue(netRx) -> RxBuffers]
  /\ \A t, v \in InQueue(netRx) : rxAt[t] = rxAt[v] => t = v
  /\ netMem \in [RxBuffers -> [pkt : Nat, len : Nat]]
  /\ netIn \in Seq(Nat) /\ netRunts \in Nat

\* Lent, held and dropped buffers differ; a held one has the packet it was given with.
NetOwners ==
  /\ DOMAIN netHeld \in SUBSET RxBuffers
  /\ netHeld = [b \in DOMAIN netHeld |-> netMem[b]]
  /\ netFreed \in SUBSET RxBuffers
  /\ netCfg.client = "raw" => netFreed = {}
  /\ \A t \in InQueue(netRx) : rxAt[t] \notin DOMAIN netHeld /\ rxAt[t] \notin netFreed
  /\ DOMAIN netHeld \cap netFreed = {}

\* The lent buffers that came back with less than a header.
Shorts ==
  {b \in RxBuffers : PacketLen(netMem[b].len) = None
                     /\ \E t \in InQueue(netRx) : InSeq(t, netRx.used) /\ rxAt[t] = b}

\* The places of VirtIONet follow the tokens, and only short buffers are dropped.
NetPool ==
  /\ rx_buffers \in [RxBuffers -> RxBuffers \cup {None}]
  /\ rxIdx \in [RxBuffers -> RxBuffers]
  /\ \A t \in RxBuffers : rx_buffers[t] = IF t \in InQueue(netRx) THEN rxAt[t] ELSE None
  /\ \A t \in InQueue(netRx) : rxIdx[rxAt[t]] = t
  /\ \A b \in RxBuffers : \/ b \in DOMAIN netHeld \/ b \in netFreed
                          \/ \E t \in InQueue(netRx) : rxAt[t] = b
  /\ Cardinality(netFreed \cup Shorts) <= netRunts

\* The inductive invariant.
NetInv == NetShape /\ NetOwners /\ (netCfg.client = "net" /\ NetUp => NetPool)

\* The constants and the number of receive buffers, as the steps below use them.
LEMMA NetConsts ==
  /\ NetSize \in Nat \ {0} /\ RxBuffers = Descs(NetSize) /\ IsFiniteSet(RxBuffers)
  /\ None \notin RxBuffers /\ Cardinality(RxBuffers) = NetSize
<1>1. NetSize \in Nat \ {0} /\ RxBuffers = Descs(NetSize)
  BY NetAssumption DEF RxBuffers, Descs
<1>2. IsFiniteSet(RxBuffers) /\ Cardinality(RxBuffers) = NetSize
  BY <1>1, FS_Interval DEF RxBuffers
<1>3. None \notin RxBuffers
  BY <1>1 DEF RxBuffers, None
<1>. QED
  BY <1>1, <1>2, <1>3

\* What a list holds after an element was appended (the buffers a client holds).
LEMMA AppendInSeq ==
  ASSUME NEW S, NEW s \in Seq(S), NEW x \in S, NEW d
  PROVE  InSeq(d, Append(s, x)) <=> InSeq(d, s) \/ d = x
<1>. DEFINE r == Append(s, x)
            n == Len(s)
<1>1. /\ n \in Nat /\ Len(r) = n + 1 /\ r[n + 1] = x /\ \A i \in 1 .. n : r[i] = s[i]
  BY AppendFacts
<1>. HIDE DEF r, n
<1>2. /\ \A i \in 1 .. Len(r) : i \in 1 .. n \/ i = n + 1
      /\ \A i \in 1 .. n : i \in 1 .. Len(r)
      /\ n + 1 \in 1 .. Len(r)
  BY <1>1
<1>3. (\E i \in 1 .. Len(r) : r[i] = d) <=> (\E i \in 1 .. n : s[i] = d) \/ d = x
  BY <1>1, <1>2, Zenon
<1>. QED
  BY <1>3 DEF InSeq, r, n

\* A subset of a set of buffers that is at most n stays at most n.
LEMMA FewerBuffers ==
  ASSUME NEW S \in SUBSET RxBuffers, NEW T \in SUBSET S, NEW n \in Nat, Cardinality(S) <= n
  PROVE  Cardinality(T) <= n
<1>1. IsFiniteSet(S)
  BY NetConsts, FS_Subset
<1>2. IsFiniteSet(T) /\ Cardinality(T) <= Cardinality(S)
  BY <1>1, FS_Subset
<1>3. Cardinality(T) \in Nat /\ Cardinality(S) \in Nat
  BY <1>1, <1>2, FS_CardinalityType
<1>. QED
  BY <1>2, <1>3

\* After VirtIONet::new has posted its buffers, all descriptors are in the queue.
LEMMA FilledOneDesc == OneDesc(FilledQueue, NetSize) /\ InQueue(FilledQueue) = RxBuffers
<1>. DEFINE a == [i \in 1 .. NetSize |-> i - 1]
            c == [i \in RxBuffers |-> <<i>>]
            q == FilledQueue
<1>1. a \in Seq(Descs(NetSize)) /\ Len(a) = NetSize /\ <<>> \in Seq(Descs(NetSize))
  BY NetConsts DEF Descs
<1>2. NoRepeat(a) /\ \A i \in 1 .. Len(a) : a[i] \in RxBuffers
  BY NetConsts DEF NoRepeat, RxBuffers
<1>3. q \in [size : {NetSize}, free : {<<>>}, chain : {c}, avail : {a}, used : {<<>>}]
  BY DEF FilledQueue, NewQueue
<1>. HIDE DEF a, q
<1>4. q.free = <<>> /\ q.chain = c /\ q.avail = a /\ q.used = <<>> /\ q.size = NetSize
  BY <1>3
<1>5. InQueue(q) = RxBuffers
  BY <1>4 DEF InQueue
<1>6. q \in [size : {NetSize}, free : Seq(Descs(NetSize)), chain : {c},
             avail : Seq(Descs(NetSize)), used : Seq(Descs(NetSize))]
  BY <1>1, <1>3
<1>7. OneDescShape(q, NetSize)
  BY <1>5, <1>6, NetConsts DEF OneDescShape
<1>8. FreeExact(q, NetSize)
  BY <1>4, <1>5, NetConsts DEF FreeExact, NoRepeat, InSeq
<1>9. RingsApart(q)
  BY <1>2, <1>4, <1>5 DEF RingsApart, NoRepeat
<1>. QED
  BY <1>5, <1>7, <1>8, <1>9 DEF OneDesc, q
\* The drivers' initial state satisfies the invariant.
LEMMA NetInitInv ==
  ASSUME NetInit
  PROVE  NetInv
<1>1. /\ netCfg \in NetCfgs /\ netHeld = <<>> /\ netFreed = {} /\ netRunts = 0
      /\ netIn = <<>> /\ rxIdx = [b \in RxBuffers |-> b]
      /\ netMem = [b \in RxBuffers |-> [pkt |-> 0, len |-> 0]]
  BY DEF NetInit
<1>2. netMem \in [RxBuffers -> [pkt : Nat, len : Nat]] /\ netIn \in Seq(Nat) /\ netRunts \in Nat
  BY <1>1
<1>3. DOMAIN netHeld = {} /\ netHeld = [b \in DOMAIN netHeld |-> netMem[b]]
  BY <1>1
<1>4. CASE netCfg.client = "net" /\ NetUp
  <2>1. /\ netRx = FilledQueue /\ rx_buffers = [i \in RxBuffers |-> i]
        /\ rxAt = [i \in RxBuffers |-> i]
    BY <1>4 DEF NetInit
  <2>2. OneDesc(netRx, NetSize) /\ InQueue(netRx) = RxBuffers
    BY <2>1, FilledOneDesc
  <2>3. NetShape
    BY <1>1, <1>2, <2>1, <2>2 DEF NetShape
  <2>4. NetOwners
    BY <1>1, <1>3 DEF NetOwners
  <2>5. netRx.used = <<>>
    BY <2>1 DEF FilledQueue, NewQueue
  <2>6. netFreed \cup Shorts = {}
    <3>1. \A v : ~InSeq(v, netRx.used)
      BY <2>5 DEF InSeq
    <3>. QED
      BY <1>1, <3>1, Zenon DEF Shorts
  <2>7. Cardinality(netFreed \cup Shorts) <= netRunts
    <3>1. Cardinality(netFreed \cup Shorts) = 0
      BY <2>6, FS_EmptySet, Zenon
    <3>. QED
      BY <1>1, <3>1
  <2>8. NetPool
    BY <1>1, <2>1, <2>2, <2>7 DEF NetPool
  <2>. QED
    BY <2>3, <2>4, <2>8 DEF NetInv
<1>5. CASE ~(netCfg.client = "net" /\ NetUp)
  <2>1. netRx = NewQueue(NetSize) /\ rxAt = <<>>
    BY <1>5 DEF NetInit
  <2>2. OneDesc(netRx, NetSize) /\ InQueue(netRx) = {}
    BY <2>1, NetConsts, NewQueueOneDesc
  <2>3. NetShape
    BY <1>1, <1>2, <2>1, <2>2 DEF NetShape
  <2>4. NetOwners
    BY <1>1, <1>3, <2>2 DEF NetOwners
  <2>. QED
    BY <1>5, <2>3, <2>4 DEF NetInv
<1>. QED
  BY <1>4, <1>5

\* The device writes to a lent buffer that is not used yet: neither a held packet
\* nor a short one that waits is touched.
LEMMA DeliverKeepsOwners ==
  ASSUME NetInv, NetUp, netCfg' = netCfg, Deliver
  PROVE  NetInv'
<1>. DEFINE t == Head(netRx.avail)
            b == rxAt[t]
<1>1. PICK n \in {HdrSize(netCfg.legacy) - 1, HdrSize(netCfg.legacy) + 1} :
        /\ netMem' = [netMem EXCEPT ![b] = [pkt |-> Len(netIn) + 1, len |-> n]]
        /\ netIn' = IF PacketLen(n) # None THEN Append(netIn, Len(netIn) + 1) ELSE netIn
        /\ netRunts' = IF PacketLen(n) # None THEN netRunts ELSE netRunts + 1
  BY DEF Deliver
<1>2. /\ netRx' = UseNext(netRx) /\ rx_buffers' = rx_buffers /\ rxIdx' = rxIdx /\ rxAt' = rxAt
      /\ netHeld' = netHeld /\ netFreed' = netFreed /\ netRx.avail # <<>>
  BY DEF Deliver
<1>3. /\ netCfg \in NetCfgs /\ OneDesc(netRx, NetSize) /\ rxAt \in [InQueue(netRx) -> RxBuffers]
      /\ \A v, w \in InQueue(netRx) : rxAt[v] = rxAt[w] => v = w
      /\ netMem \in [RxBuffers -> [pkt : Nat, len : Nat]]
      /\ netIn \in Seq(Nat) /\ netRunts \in Nat
  BY DEF NetInv, NetShape
<1>4. /\ OneDesc(netRx', NetSize) /\ InQueue(netRx') = InQueue(netRx)
      /\ netRx'.used = Append(netRx.used, t)
      /\ t \in InQueue(netRx) /\ ~InSeq(t, netRx.used)
  BY <1>2, <1>3, UseNextOneDesc
<1>5. n \in Nat /\ Len(netIn) + 1 \in Nat /\ b \in RxBuffers
  BY <1>3, <1>4 DEF HdrSize
<1>. HIDE DEF t, b
<1>6. /\ netMem' \in [RxBuffers -> [pkt : Nat, len : Nat]]
      /\ netMem'[b].len = n /\ \A x \in RxBuffers \ {b} : netMem'[x] = netMem[x]
  BY <1>1, <1>3, <1>5
<1>7. netIn' \in Seq(Nat) /\ netRunts' \in Nat
  BY <1>1, <1>3, <1>5
<1>8. NetShape'
  BY <1>2, <1>3, <1>4, <1>6, <1>7 DEF NetShape
<1>9. /\ DOMAIN netHeld \in SUBSET RxBuffers /\ netHeld = [x \in DOMAIN netHeld |-> netMem[x]]
      /\ netFreed \in SUBSET RxBuffers /\ (netCfg.client = "raw" => netFreed = {})
      /\ \A v \in InQueue(netRx) : rxAt[v] \notin DOMAIN netHeld /\ rxAt[v] \notin netFreed
      /\ DOMAIN netHeld \cap netFreed = {}
  BY DEF NetInv, NetOwners
<1>10. b \notin DOMAIN netHeld
  BY <1>4, <1>9 DEF b
<1>11. netHeld = [x \in DOMAIN netHeld |-> netMem'[x]]
  <2>1. \A x \in DOMAIN netHeld : netMem'[x] = netMem[x]
    BY <1>6, <1>9, <1>10
  <2>. QED
    BY <1>9, <2>1
<1>12. NetOwners'
  BY <1>2, <1>4, <1>9, <1>11 DEF NetOwners
<1>13. ASSUME netCfg.client = "net", NetPool PROVE NetPool'
  <2>1. ASSUME NEW x \in Shorts' PROVE x \in Shorts \/ (x = b /\ PacketLen(n) = None)
    <3>1. /\ x \in RxBuffers /\ PacketLen(netMem'[x].len) = None
          /\ \E v \in InQueue(netRx) : InSeq(v, netRx'.used) /\ rxAt[v] = x
      BY <1>2, <1>4 DEF Shorts, PacketLen
    <3>2. PICK v \in InQueue(netRx) : InSeq(v, netRx'.used) /\ rxAt[v] = x
      BY <3>1
    <3>3. CASE v = t
      BY <1>6, <3>1, <3>2, <3>3 DEF b
    <3>4. CASE v # t
      <4>1. netRx.used \in Seq(Descs(NetSize)) /\ t \in Descs(NetSize)
        BY <1>3, <1>4, ShapeFacts DEF OneDesc
      <4>2. InSeq(v, netRx.used)
        BY <1>4, <3>2, <3>4, <4>1, AppendInSeq
      <4>3. x # b
        BY <1>3, <1>4, <3>2, <3>4 DEF b
      <4>4. PacketLen(netMem[x].len) = None
        BY <1>6, <3>1, <4>3
      <4>. QED
        BY <3>1, <3>2, <4>2, <4>4 DEF Shorts
    <3>. QED
      BY <3>3, <3>4
  <2>2. /\ netFreed \cup Shorts \in SUBSET RxBuffers /\ netFreed' \cup Shorts' \in SUBSET RxBuffers
        /\ IsFiniteSet(netFreed \cup Shorts)
    <3>1. netFreed \cup Shorts \in SUBSET RxBuffers /\ netFreed' \cup Shorts' \in SUBSET RxBuffers
      BY <1>2, <1>9 DEF Shorts
    <3>. QED
      BY <3>1, NetConsts, FS_Subset
  <2>3. Cardinality(netFreed \cup Shorts) <= netRunts
    BY <1>13 DEF NetPool
  <2>4. Cardinality(netFreed' \cup Shorts') <= netRunts'
    <3>1. CASE PacketLen(n) # None
      <4>1. netFreed' \cup Shorts' \in SUBSET (netFreed \cup Shorts)
        BY <1>2, <2>1, <3>1
      <4>. QED
        BY <1>1, <1>3, <2>2, <2>3, <3>1, <4>1, FewerBuffers
    <3>2. CASE PacketLen(n) = None
      <4>. DEFINE S == netFreed \cup Shorts
      <4>1. netFreed' \cup Shorts' \in SUBSET (S \cup {b}) /\ S \cup {b} \in SUBSET RxBuffers
        BY <1>2, <1>5, <2>1, <2>2
      <4>2. Cardinality(S) \in Nat /\ Cardinality(S) <= netRunts
        BY <2>2, <2>3, FS_CardinalityType
      <4>3. Cardinality(S \cup {b}) = IF b \in S THEN Cardinality(S) ELSE Cardinality(S) + 1
        BY <2>2, FS_AddElement
      <4>. HIDE DEF S
      <4>4. Cardinality(S \cup {b}) <= netRunts + 1
        BY <1>3, <4>2, <4>3
      <4>5. netRunts + 1 \in Nat /\ netRunts' = netRunts + 1
        BY <1>1, <1>3, <3>2
      <4>. QED
        BY <4>1, <4>4, <4>5, FewerBuffers
    <3>. QED
      BY <3>1, <3>2
  <2>. QED
    BY <1>2, <1>4, <1>13, <2>4 DEF NetPool
<1>14. NetUp' <=> NetUp
  BY DEF NetUp, check_rx_buf_len
<1>. QED
  BY <1>8, <1>12, <1>13, <1>14 DEF NetInv
\* A popped token: its place and its buffer leave the queue together.
LEMMA PopOwner ==
  ASSUME NetInv, CanPopFrom(netRx), netRx' = PopFrom(netRx, PeekUsed(netRx)),
         rxAt' = Restrict(rxAt, InQueue(netRx'))
  PROVE  LET t == PeekUsed(netRx)
         IN  /\ t \in InQueue(netRx) /\ rxAt[t] \in RxBuffers
             /\ OneDesc(netRx', NetSize) /\ InQueue(netRx') = InQueue(netRx) \ {t}
             /\ rxAt' \in [InQueue(netRx') -> RxBuffers]
             /\ \A v \in InQueue(netRx') : rxAt'[v] = rxAt[v] /\ rxAt[v] # rxAt[t]
             /\ \A v, w \in InQueue(netRx') : rxAt'[v] = rxAt'[w] => v = w
             /\ \A v : InSeq(v, netRx'.used) => InSeq(v, netRx.used)
             /\ InSeq(t, netRx.used)
<1>. DEFINE t == PeekUsed(netRx)
<1>1. /\ OneDesc(netRx, NetSize) /\ rxAt \in [InQueue(netRx) -> RxBuffers]
      /\ \A v, w \in InQueue(netRx) : rxAt[v] = rxAt[w] => v = w
  BY DEF NetInv, NetShape
<1>2. /\ t \in InQueue(netRx) /\ OneDesc(netRx', NetSize)
      /\ InQueue(netRx') = InQueue(netRx) \ {t}
      /\ \A d : InSeq(d, netRx'.used) <=> InSeq(d, netRx.used) /\ d # t
  BY <1>1, PopOneDesc
<1>3. rxAt' = [v \in InQueue(netRx) \ {t} |-> rxAt[v]]
  BY <1>2 DEF Restrict
<1>4. InSeq(t, netRx.used)
  <2>1. netRx.used \in Seq(Descs(NetSize)) /\ netRx.used # <<>>
    BY <1>1, ShapeFacts DEF OneDesc, CanPopFrom
  <2>2. Len(netRx.used) \in Nat /\ Len(netRx.used) >= 1 /\ t = netRx.used[1]
    BY <2>1, TailFacts DEF PeekUsed
  <2>3. 1 \in 1 .. Len(netRx.used)
    BY <2>2
  <2>. QED
    BY <2>2, <2>3 DEF InSeq
<1>. HIDE DEF t
<1>5. /\ rxAt' \in [InQueue(netRx') -> RxBuffers]
      /\ \A v \in InQueue(netRx') : rxAt'[v] = rxAt[v] /\ rxAt[v] # rxAt[t]
      /\ \A v, w \in InQueue(netRx') : rxAt'[v] = rxAt'[w] => v = w
  BY <1>1, <1>2, <1>3
<1>. QED
  BY <1>1, <1>2, <1>4, <1>5 DEF t

\* What the client is handed becomes one of its buffers.
LEMMA HandOverHeld ==
  ASSUME NEW b \in RxBuffers, DOMAIN netHeld \in SUBSET RxBuffers,
         netHeld = [x \in DOMAIN netHeld |-> netMem[x]], HandOver(b)
  PROVE  /\ DOMAIN netHeld' = DOMAIN netHeld \cup {b}
         /\ netHeld' = [x \in DOMAIN netHeld' |-> netMem[x]]
<1>1. netHeld' = [x \in DOMAIN netHeld \cup {b} |-> IF x = b THEN netMem[b] ELSE netHeld[x]]
  BY DEF HandOver, Bind
<1>2. \A x \in DOMAIN netHeld : netHeld[x] = netMem[x]
  OBVIOUS
<1>3. [x \in DOMAIN netHeld \cup {b} |-> IF x = b THEN netMem[b] ELSE netHeld[x]]
        = [x \in DOMAIN netHeld \cup {b} |-> netMem[x]]
  BY <1>2
<1>. QED
  BY <1>1, <1>3

\* receive: the place of the popped token holds its buffer, so neither WrongToken
\* arises; a short buffer was counted when it was delivered.
LEMMA ReceiveKeeps ==
  ASSUME NetInv, NetUp, netCfg' = netCfg, Receive
  PROVE  NetInv'
<1>. DEFINE t == PeekUsed(netRx)
            b == rxAt[t]
<1>1. /\ netCfg.client = "net" /\ netMem' = netMem /\ rxIdx' = rxIdx /\ netIn' = netIn
      /\ netRunts' = netRunts
  BY DEF Receive
<1>2. NetUp' <=> NetUp
  BY DEF NetUp, check_rx_buf_len
<1>3. CASE ~CanPopFrom(netRx)
  <2>1. UNCHANGED <<netRx, rx_buffers, rxAt, netHeld, netFreed>>
    BY <1>3 DEF Receive
  <2>. QED
    BY <1>1, <1>2, <2>1 DEF NetInv, NetShape, NetOwners, NetPool, Shorts, PacketLen
<1>4. CASE CanPopFrom(netRx)
  <2>1. t \in InQueue(netRx) /\ OneDesc(netRx, NetSize)
    BY <1>4, PopOneDesc DEF NetInv, NetShape
  <2>2. NetPool /\ InQueue(netRx) \in SUBSET RxBuffers
    BY <1>1, <2>1, NetConsts, ShapeFacts DEF NetInv, OneDesc
  <2>3. b \in RxBuffers /\ rx_buffers[t] = b /\ b # None /\ rxIdx[b] = t
    BY <2>1, <2>2, NetConsts DEF NetPool, NetInv, NetShape
  <2>4. /\ rx_buffers' = [rx_buffers EXCEPT ![t] = None]
        /\ netRx' = PopFrom(netRx, t) /\ rxAt' = Restrict(rxAt, InQueue(netRx'))
        /\ \/ /\ PacketLen(netMem[b].len) = None /\ netFreed' = netFreed \cup {b} /\ netHeld' = netHeld
           \/ /\ PacketLen(netMem[b].len) # None /\ netFreed' = netFreed /\ HandOver(b)
    BY <1>4, <2>3 DEF Receive, Takes
  <2>5. /\ OneDesc(netRx', NetSize) /\ InQueue(netRx') = InQueue(netRx) \ {t}
        /\ rxAt' \in [InQueue(netRx') -> RxBuffers]
        /\ \A v \in InQueue(netRx') : rxAt'[v] = rxAt[v] /\ rxAt[v] # b
        /\ \A v, w \in InQueue(netRx') : rxAt'[v] = rxAt'[w] => v = w
        /\ \A v : InSeq(v, netRx'.used) => InSeq(v, netRx.used)
        /\ InSeq(t, netRx.used)
    BY <1>4, <2>4, PopOwner
  <2>. HIDE DEF t, b
  <2>6. NetShape'
    BY <1>1, <2>5 DEF NetInv, NetShape
  <2>7. /\ DOMAIN netHeld \in SUBSET RxBuffers /\ netHeld = [x \in DOMAIN netHeld |-> netMem[x]]
        /\ netFreed \in SUBSET RxBuffers
        /\ \A v \in InQueue(netRx) : rxAt[v] \notin DOMAIN netHeld /\ rxAt[v] \notin netFreed
        /\ DOMAIN netHeld \cap netFreed = {} /\ b \notin DOMAIN netHeld /\ b \notin netFreed
    BY <2>1 DEF NetInv, NetOwners, b
  <2>8. /\ rx_buffers \in [RxBuffers -> RxBuffers \cup {None}] /\ rxIdx \in [RxBuffers -> RxBuffers]
        /\ \A v \in RxBuffers : rx_buffers[v] = IF v \in InQueue(netRx) THEN rxAt[v] ELSE None
        /\ \A v \in InQueue(netRx) : rxIdx[rxAt[v]] = v
        /\ \A x \in RxBuffers : \/ x \in DOMAIN netHeld \/ x \in netFreed
                                \/ \E v \in InQueue(netRx) : rxAt[v] = x
        /\ Cardinality(netFreed \cup Shorts) <= netRunts
    BY <2>2 DEF NetPool
  <2>9. /\ rx_buffers' \in [RxBuffers -> RxBuffers \cup {None}]
        /\ \A v \in RxBuffers : rx_buffers'[v] = IF v \in InQueue(netRx') THEN rxAt'[v] ELSE None
        /\ \A v \in InQueue(netRx') : rxIdx'[rxAt'[v]] = v
    BY <1>1, <2>1, <2>2, <2>4, <2>5, <2>8
  <2>10. Shorts' \in SUBSET Shorts /\ Shorts \in SUBSET RxBuffers
    <3>1. ASSUME NEW x \in Shorts' PROVE x \in Shorts
      <4>1. /\ x \in RxBuffers /\ PacketLen(netMem[x].len) = None
            /\ \E v \in InQueue(netRx') : InSeq(v, netRx'.used) /\ rxAt'[v] = x
        BY <1>1 DEF Shorts, PacketLen
      <4>. QED
        BY <2>5, <4>1 DEF Shorts
    <3>. QED
      BY <3>1 DEF Shorts
  <2>11. PacketLen(netMem[b].len) = None => b \in Shorts
    BY <2>1, <2>3, <2>5 DEF Shorts, b
  <2>12. netFreed' \cup Shorts' \in SUBSET (netFreed \cup Shorts)
    BY <2>4, <2>10, <2>11
  <2>13. Cardinality(netFreed' \cup Shorts') <= netRunts'
    <3>1. netRunts \in Nat /\ netFreed \cup Shorts \in SUBSET RxBuffers
      BY <2>7, <2>10 DEF NetInv, NetShape
    <3>. QED
      BY <1>1, <2>8, <2>12, <3>1, FewerBuffers
  <2>14. /\ DOMAIN netHeld' \in SUBSET RxBuffers /\ netHeld' = [x \in DOMAIN netHeld' |-> netMem[x]]
         /\ netFreed' \in SUBSET RxBuffers
         /\ DOMAIN netHeld' \cup netFreed' = DOMAIN netHeld \cup netFreed \cup {b}
         /\ DOMAIN netHeld' \cap netFreed' = {}
    <3>1. CASE PacketLen(netMem[b].len) = None
      BY <2>3, <2>4, <2>7, <3>1
    <3>2. CASE PacketLen(netMem[b].len) # None
      <4>1. /\ DOMAIN netHeld' = DOMAIN netHeld \cup {b} /\ netFreed' = netFreed
            /\ netHeld' = [x \in DOMAIN netHeld' |-> netMem[x]]
        BY <2>3, <2>4, <2>7, <3>2, HandOverHeld
      <4>. QED
        BY <2>3, <2>7, <4>1
    <3>. QED
      BY <3>1, <3>2
  <2>15. NetOwners'
    <3>1. \A v \in InQueue(netRx') : rxAt'[v] \notin DOMAIN netHeld' /\ rxAt'[v] \notin netFreed'
      BY <2>5, <2>7, <2>14
    <3>. QED
      BY <1>1, <2>14, <3>1 DEF NetOwners
  <2>16. \A x \in RxBuffers : \/ x \in DOMAIN netHeld' \/ x \in netFreed'
                              \/ \E v \in InQueue(netRx') : rxAt'[v] = x
    <3>. SUFFICES ASSUME NEW x \in RxBuffers, x \notin DOMAIN netHeld', x \notin netFreed'
                  PROVE  \E v \in InQueue(netRx') : rxAt'[v] = x
      OBVIOUS
    <3>1. x # b /\ x \notin DOMAIN netHeld /\ x \notin netFreed
      BY <2>14
    <3>2. PICK v \in InQueue(netRx) : rxAt[v] = x
      BY <2>8, <3>1
    <3>3. v # t
      BY <3>1, <3>2 DEF b
    <3>. QED
      BY <2>5, <3>2, <3>3
  <2>17. NetPool'
    BY <1>1, <2>8, <2>9, <2>13, <2>16 DEF NetPool
  <2>. QED
    BY <2>6, <2>15, <2>17 DEF NetInv
<1>. QED
  BY <1>3, <1>4
\* An added buffer that nobody had lent gets a token of its own.
LEMMA AddOwner ==
  ASSUME NetInv, CanAddTo(netRx, 1, netCfg.indirect), NEW b \in RxBuffers,
         \A v \in InQueue(netRx) : rxAt[v] # b,
         netRx' = AddTo(netRx, 1, netCfg.indirect), rxAt' = Bind(rxAt, NextToken(netRx), b)
  PROVE  LET t == NextToken(netRx)
         IN  /\ t \in RxBuffers /\ t \notin InQueue(netRx)
             /\ OneDesc(netRx', NetSize) /\ InQueue(netRx') = InQueue(netRx) \cup {t}
             /\ rxAt' \in [InQueue(netRx') -> RxBuffers]
             /\ rxAt'[t] = b /\ \A v \in InQueue(netRx) : rxAt'[v] = rxAt[v]
             /\ \A v, w \in InQueue(netRx') : rxAt'[v] = rxAt'[w] => v = w
             /\ netRx'.used = netRx.used /\ ~InSeq(t, netRx.used)
<1>. DEFINE t == NextToken(netRx)
<1>1. /\ OneDesc(netRx, NetSize) /\ rxAt \in [InQueue(netRx) -> RxBuffers]
      /\ \A v, w \in InQueue(netRx) : rxAt[v] = rxAt[w] => v = w
      /\ netCfg.indirect \in BOOLEAN
  BY NetAssumption DEF NetInv, NetShape
<1>2. /\ t \in RxBuffers /\ t \notin InQueue(netRx) /\ OneDesc(netRx', NetSize)
      /\ InQueue(netRx') = InQueue(netRx) \cup {t} /\ netRx'.used = netRx.used
  BY <1>1, NetConsts, AddOneDesc
<1>3. rxAt' = [v \in InQueue(netRx) \cup {t} |-> IF v = t THEN b ELSE rxAt[v]]
  BY <1>1 DEF Bind
<1>4. ~InSeq(t, netRx.used)
  BY <1>1, <1>2 DEF OneDesc, RingsApart, InSeq
<1>. HIDE DEF t
<1>5. /\ rxAt' \in [InQueue(netRx') -> RxBuffers]
      /\ rxAt'[t] = b /\ \A v \in InQueue(netRx) : rxAt'[v] = rxAt[v]
      /\ \A v, w \in InQueue(netRx') : rxAt'[v] = rxAt'[w] => v = w
  BY <1>1, <1>2, <1>3
<1>. QED
  BY <1>2, <1>4, <1>5 DEF t

\* A buffer that leaves the client.
LEMMA GiveUpHeld ==
  ASSUME NEW b, netHeld = [x \in DOMAIN netHeld |-> netMem[x]],
         netHeld' = Restrict(netHeld, DOMAIN netHeld \ {b})
  PROVE  /\ DOMAIN netHeld' = DOMAIN netHeld \ {b}
         /\ netHeld' = [x \in DOMAIN netHeld' |-> netMem[x]]
<1>1. netHeld' = [x \in DOMAIN netHeld \ {b} |-> netHeld[x]]
  BY DEF Restrict
<1>2. \A x \in DOMAIN netHeld : netHeld[x] = netMem[x]
  OBVIOUS
<1>. QED
  BY <1>1, <1>2

\* Every token has its own buffer: while the client holds one, a descriptor is free.
LEMMA HeldLeavesRoom ==
  ASSUME NetInv, NEW b \in DOMAIN netHeld
  PROVE  CanAddTo(netRx, 1, netCfg.indirect)
<1>1. /\ OneDesc(netRx, NetSize) /\ rxAt \in [InQueue(netRx) -> RxBuffers]
      /\ \A v, w \in InQueue(netRx) : rxAt[v] = rxAt[w] => v = w
      /\ netCfg.indirect \in BOOLEAN
  BY NetAssumption DEF NetInv, NetShape
<1>2. b \in RxBuffers /\ \A v \in InQueue(netRx) : rxAt[v] # b
  BY DEF NetInv, NetOwners
<1>3. ASSUME InQueue(netRx) = RxBuffers PROVE FALSE
  <2>1. rxAt \in Injection(RxBuffers, RxBuffers)
    BY <1>1, <1>3 DEF Injection, IsInjective
  <2>2. rxAt \in Surjection(RxBuffers, RxBuffers)
    BY <2>1, NetConsts, FS_Injection
  <2>. QED
    BY <1>2, <1>3, <2>2 DEF Surjection
<1>. QED
  BY <1>1, <1>3, NetConsts, CanAddIff

\* recycle_rx_buffer: there is room, and the place of the new token is empty.
LEMMA RecycleKeeps ==
  ASSUME NetInv, NetUp, netCfg' = netCfg, NEW b \in RxBuffers, RecycleRxBuffer(b)
  PROVE  NetInv'
<1>. DEFINE t == NextToken(netRx)
<1>1. /\ netCfg.client = "net" /\ netMem' = netMem /\ netIn' = netIn /\ netRunts' = netRunts
      /\ b \in DOMAIN netHeld /\ netHeld' = Restrict(netHeld, DOMAIN netHeld \ {b})
  BY DEF RecycleRxBuffer
<1>2. CanAddTo(netRx, 1, netCfg.indirect) /\ NetPool
  BY <1>1, HeldLeavesRoom DEF NetInv
<1>3. netRx' = AddTo(netRx, 1, netCfg.indirect) /\ rxAt' = Bind(rxAt, t, b)
  BY <1>2 DEF RecycleRxBuffer
<1>4. /\ DOMAIN netHeld \in SUBSET RxBuffers /\ netHeld = [x \in DOMAIN netHeld |-> netMem[x]]
      /\ netFreed \in SUBSET RxBuffers
      /\ \A v \in InQueue(netRx) : rxAt[v] \notin DOMAIN netHeld /\ rxAt[v] \notin netFreed
      /\ DOMAIN netHeld \cap netFreed = {}
  BY DEF NetInv, NetOwners
<1>5. /\ t \in RxBuffers /\ t \notin InQueue(netRx)
      /\ OneDesc(netRx', NetSize) /\ InQueue(netRx') = InQueue(netRx) \cup {t}
      /\ rxAt' \in [InQueue(netRx') -> RxBuffers]
      /\ rxAt'[t] = b /\ \A v \in InQueue(netRx) : rxAt'[v] = rxAt[v]
      /\ \A v, w \in InQueue(netRx') : rxAt'[v] = rxAt'[w] => v = w
      /\ netRx'.used = netRx.used /\ ~InSeq(t, netRx.used)
  <2>1. \A v \in InQueue(netRx) : rxAt[v] # b
    BY <1>1, <1>4
  <2>. QED
    BY <1>2, <1>3, <2>1, AddOwner
<1>6. /\ rx_buffers \in [RxBuffers -> RxBuffers \cup {None}] /\ rxIdx \in [RxBuffers -> RxBuffers]
      /\ \A v \in RxBuffers : rx_buffers[v] = IF v \in InQueue(netRx) THEN rxAt[v] ELSE None
      /\ \A v \in InQueue(netRx) : rxIdx[rxAt[v]] = v
      /\ \A x \in RxBuffers : \/ x \in DOMAIN netHeld \/ x \in netFreed
                              \/ \E v \in InQueue(netRx) : rxAt[v] = x
      /\ Cardinality(netFreed \cup Shorts) <= netRunts
  BY <1>2 DEF NetPool
<1>7. rx_buffers[t] = None
  BY <1>5, <1>6
<1>8. /\ rxIdx' = [rxIdx EXCEPT ![b] = t] /\ rx_buffers' = [rx_buffers EXCEPT ![t] = b]
      /\ netFreed' = netFreed
  BY <1>2, <1>7 DEF RecycleRxBuffer, Place
<1>. HIDE DEF t
<1>9. NetShape'
  BY <1>1, <1>5 DEF NetInv, NetShape
<1>10. DOMAIN netHeld' = DOMAIN netHeld \ {b} /\ netHeld' = [x \in DOMAIN netHeld' |-> netMem[x]]
  BY <1>1, <1>4, GiveUpHeld
<1>11. NetOwners'
  <2>1. \A v \in InQueue(netRx') : rxAt'[v] \notin DOMAIN netHeld' /\ rxAt'[v] \notin netFreed'
    BY <1>1, <1>4, <1>5, <1>8, <1>10
  <2>. QED
    BY <1>1, <1>4, <1>8, <1>10, <2>1 DEF NetOwners
<1>12. /\ rx_buffers' \in [RxBuffers -> RxBuffers \cup {None}] /\ rxIdx' \in [RxBuffers -> RxBuffers]
       /\ \A v \in RxBuffers : rx_buffers'[v] = IF v \in InQueue(netRx') THEN rxAt'[v] ELSE None
  BY <1>5, <1>6, <1>8
<1>13. \A v \in InQueue(netRx') : rxIdx'[rxAt'[v]] = v
  <2>1. \A v \in InQueue(netRx) : rxAt[v] # b /\ rxAt[v] \in RxBuffers
    BY <1>1, <1>4 DEF NetInv, NetShape
  <2>. QED
    BY <1>5, <1>6, <1>8, <2>1
<1>14. \A x \in RxBuffers : \/ x \in DOMAIN netHeld' \/ x \in netFreed'
                            \/ \E v \in InQueue(netRx') : rxAt'[v] = x
  BY <1>5, <1>6, <1>8, <1>10
<1>15. Cardinality(netFreed' \cup Shorts') <= netRunts'
  <2>1. ASSUME NEW x \in Shorts' PROVE x \in Shorts
    <3>1. /\ x \in RxBuffers /\ PacketLen(netMem[x].len) = None
          /\ \E v \in InQueue(netRx') : InSeq(v, netRx'.used) /\ rxAt'[v] = x
      BY <1>1 DEF Shorts, PacketLen
    <3>2. PICK v \in InQueue(netRx') : InSeq(v, netRx.used) /\ rxAt'[v] = x
      BY <1>5, <3>1
    <3>3. v \in InQueue(netRx) /\ rxAt[v] = x
      BY <1>5, <3>2
    <3>. QED
      BY <3>1, <3>2, <3>3 DEF Shorts
  <2>2. netFreed' \cup Shorts' \in SUBSET (netFreed \cup Shorts)
    BY <1>8, <2>1
  <2>3. netRunts \in Nat /\ netFreed \cup Shorts \in SUBSET RxBuffers
    BY <1>4 DEF NetInv, NetShape, Shorts
  <2>. QED
    BY <1>1, <1>6, <2>2, <2>3, FewerBuffers
<1>16. NetPool'
  BY <1>12, <1>13, <1>14, <1>15 DEF NetPool
<1>. QED
  BY <1>9, <1>11, <1>16 DEF NetInv
\* VirtIONetRaw: a buffer that is not lent is lent under a token of its own.
LEMMA BeginKeeps ==
  ASSUME NetInv, NetUp, netCfg' = netCfg, NEW b \in RxBuffers, receive_begin(b)
  PROVE  NetInv'
<1>1. /\ netCfg.client = "raw" /\ netMem' = netMem /\ netIn' = netIn /\ netRunts' = netRunts
      /\ netFreed' = netFreed /\ b \notin Range(rxAt)
  BY DEF receive_begin
<1>2. CASE UNCHANGED <<netRx, rxAt, netHeld>>
  BY <1>1, <1>2 DEF NetInv, NetShape, NetOwners
<1>3. CASE ~UNCHANGED <<netRx, rxAt, netHeld>>
  <2>. DEFINE t == NextToken(netRx)
  <2>1. /\ CanAddTo(netRx, 1, netCfg.indirect) /\ netRx' = AddTo(netRx, 1, netCfg.indirect)
        /\ rxAt' = Bind(rxAt, t, b) /\ netHeld' = Restrict(netHeld, DOMAIN netHeld \ {b})
    BY <1>3 DEF receive_begin
  <2>2. \A v \in InQueue(netRx) : rxAt[v] # b
    BY <1>1 DEF Range, NetInv, NetShape
  <2>3. /\ t \notin InQueue(netRx)
        /\ OneDesc(netRx', NetSize) /\ InQueue(netRx') = InQueue(netRx) \cup {t}
        /\ rxAt' \in [InQueue(netRx') -> RxBuffers]
        /\ rxAt'[t] = b /\ \A v \in InQueue(netRx) : rxAt'[v] = rxAt[v]
        /\ \A v, w \in InQueue(netRx') : rxAt'[v] = rxAt'[w] => v = w
    BY <2>1, <2>2, AddOwner
  <2>. HIDE DEF t
  <2>4. NetShape'
    BY <1>1, <2>3 DEF NetInv, NetShape
  <2>5. /\ DOMAIN netHeld \in SUBSET RxBuffers /\ netHeld = [x \in DOMAIN netHeld |-> netMem[x]]
        /\ netFreed = {}
        /\ \A v \in InQueue(netRx) : rxAt[v] \notin DOMAIN netHeld
    BY <1>1 DEF NetInv, NetOwners
  <2>6. DOMAIN netHeld' = DOMAIN netHeld \ {b} /\ netHeld' = [x \in DOMAIN netHeld' |-> netMem[x]]
    BY <2>1, <2>5, GiveUpHeld
  <2>7. \A v \in InQueue(netRx') : rxAt'[v] \notin DOMAIN netHeld'
    BY <2>3, <2>5, <2>6
  <2>8. NetOwners'
    BY <1>1, <2>5, <2>6, <2>7 DEF NetOwners
  <2>. QED
    BY <1>1, <2>4, <2>8 DEF NetInv
<1>. QED
  BY <1>2, <1>3

\* VirtIONetRaw: the client gets the buffer of the token it completes.
LEMMA CompleteKeeps ==
  ASSUME NetInv, NetUp, netCfg' = netCfg, NEW t \in RxBuffers, receive_complete(t)
  PROVE  NetInv'
<1>1. /\ netCfg.client = "raw" /\ netMem' = netMem /\ netIn' = netIn /\ netRunts' = netRunts
      /\ netFreed' = netFreed
  BY DEF receive_complete
<1>2. CASE PopResult(netRx, t) # "Ok"
  <2>1. UNCHANGED <<netRx, rxAt, netHeld>>
    BY <1>2 DEF receive_complete
  <2>. QED
    BY <1>1, <2>1 DEF NetInv, NetShape, NetOwners
<1>3. CASE PopResult(netRx, t) = "Ok"
  <2>1. CanPopFrom(netRx) /\ t = PeekUsed(netRx)
    BY <1>3 DEF PopResult
  <2>2. /\ OneDesc(netRx, NetSize) /\ rxAt \in [InQueue(netRx) -> RxBuffers]
    BY DEF NetInv, NetShape
  <2>3. /\ netRx' = PopFrom(netRx, t) /\ rxAt' = Restrict(rxAt, DOMAIN rxAt \ {t})
        /\ netHeld' = netHeld \/ HandOver(rxAt[t])
    BY <1>3 DEF receive_complete
  <2>4. InQueue(netRx') = InQueue(netRx) \ {t}
    BY <2>1, <2>2, <2>3, PopOneDesc
  <2>5. rxAt' = Restrict(rxAt, InQueue(netRx'))
    BY <2>2, <2>3, <2>4
  <2>6. /\ t \in InQueue(netRx) /\ rxAt[t] \in RxBuffers
        /\ OneDesc(netRx', NetSize) /\ rxAt' \in [InQueue(netRx') -> RxBuffers]
        /\ \A v \in InQueue(netRx') : rxAt'[v] = rxAt[v] /\ rxAt[v] # rxAt[t]
        /\ \A v, w \in InQueue(netRx') : rxAt'[v] = rxAt'[w] => v = w
    BY <2>1, <2>3, <2>5, PopOwner
  <2>7. NetShape'
    BY <1>1, <2>6 DEF NetInv, NetShape
  <2>8. /\ DOMAIN netHeld \in SUBSET RxBuffers /\ netHeld = [x \in DOMAIN netHeld |-> netMem[x]]
        /\ netFreed = {}
        /\ \A v \in InQueue(netRx) : rxAt[v] \notin DOMAIN netHeld
    BY <1>1 DEF NetInv, NetOwners
  <2>9. /\ DOMAIN netHeld' \in SUBSET (DOMAIN netHeld \cup {rxAt[t]})
        /\ netHeld' = [x \in DOMAIN netHeld' |-> netMem[x]]
    <3>1. CASE netHeld' = netHeld
      BY <2>8, <3>1
    <3>2. CASE HandOver(rxAt[t])
      BY <2>6, <2>8, <3>2, HandOverHeld
    <3>. QED
      BY <2>3, <3>1, <3>2
  <2>10. \A v \in InQueue(netRx') : rxAt'[v] \notin DOMAIN netHeld'
    BY <2>4, <2>6, <2>8, <2>9
  <2>11. NetOwners'
    BY <1>1, <2>6, <2>8, <2>9, <2>10 DEF NetOwners
  <2>. QED
    BY <1>1, <2>7, <2>11 DEF NetInv
<1>. QED
  BY <1>2, <1>3

\* The inductive invariant implies the property.
LEMMA NetInvImplies ==
  ASSUME NetInv
  PROVE  BuffersOwned
<1>1. rxAt \in [InQueue(netRx) -> RxBuffers] /\ netRunts \in Nat
  BY DEF NetInv, NetShape
<1>2. /\ DOMAIN netHeld \in SUBSET RxBuffers /\ netHeld = [b \in DOMAIN netHeld |-> netMem[b]]
      /\ netFreed \in SUBSET RxBuffers
      /\ \A t \in InQueue(netRx) : rxAt[t] \notin netFreed
  BY DEF NetInv, NetOwners
<1>3. LentBuffersAlive
  BY <1>1, <1>2 DEF LentBuffersAlive, Range
<1>4. HeldIntact
  <2>1. \A b \in DOMAIN netHeld : [x \in DOMAIN netHeld |-> netMem[x]][b] = netMem[b]
    OBVIOUS
  <2>. QED
    BY <1>2, <2>1, Zenon DEF HeldIntact
<1>5. ASSUME netCfg.client = "net", NetUp
      PROVE  /\ Range(rxAt) \cup DOMAIN netHeld \cup netFreed = RxBuffers
             /\ Cardinality(netFreed) <= netRunts
  <2>1. /\ \A b \in RxBuffers : \/ b \in DOMAIN netHeld \/ b \in netFreed
                                \/ \E t \in InQueue(netRx) : rxAt[t] = b
        /\ Cardinality(netFreed \cup Shorts) <= netRunts
    BY <1>5 DEF NetInv, NetPool
  <2>2. Range(rxAt) \cup DOMAIN netHeld \cup netFreed = RxBuffers
    BY <1>1, <1>2, <2>1 DEF Range
  <2>3. netFreed \cup Shorts \in SUBSET RxBuffers /\ netFreed \in SUBSET (netFreed \cup Shorts)
    BY <1>2 DEF Shorts
  <2>. QED
    BY <1>1, <2>1, <2>2, <2>3, FewerBuffers
<1>. QED
  BY <1>3, <1>4, <1>5 DEF BuffersOwned, PoolAccounted

\* For every queue size, buffer length, kind of header and client: no dropped buffer
\* is lent to the device, a packet stays intact while the client holds it, and the
\* pool of VirtIONet loses no buffer but those the device returned without a header.
\* recycle_rx_buffer never finds the queue full nor its place taken.
THEOREM BuffersAlwaysOwned == NetSpec => []BuffersOwned
<1>1. NetInit => NetInv
  BY NetInitInv
<1>2. NetInv /\ [NetNext]_<<netCfg, netVars>> => NetInv'
  <2>. SUFFICES ASSUME NetInv, [NetNext]_<<netCfg, netVars>> PROVE NetInv'
    OBVIOUS
  <2>1. CASE NetNext
    <3>1. NetUp /\ netCfg' = netCfg
      BY <2>1 DEF NetNext
    <3>2. CASE Deliver
      BY <3>1, <3>2, DeliverKeepsOwners
    <3>3. CASE Receive
      BY <3>1, <3>3, ReceiveKeeps
    <3>4. ASSUME NEW b \in RxBuffers, RecycleRxBuffer(b) PROVE NetInv'
      BY <3>1, <3>4, RecycleKeeps
    <3>5. ASSUME NEW b \in RxBuffers, receive_begin(b) PROVE NetInv'
      BY <3>1, <3>5, BeginKeeps
    <3>6. ASSUME NEW t \in RxBuffers, receive_complete(t) PROVE NetInv'
      BY <3>1, <3>6, CompleteKeeps
    <3>7. CASE UNCHANGED <<netRx, rx_buffers, rxIdx, rxAt, netMem, netHeld, netFreed, netIn, netRunts>>
      BY <3>1, <3>7 DEF NetInv, NetShape, NetOwners, NetPool, Shorts, PacketLen, NetUp, check_rx_buf_len
    <3>8. \/ Deliver \/ Transmit \/ Receive
          \/ \E b \in RxBuffers : RecycleRxBuffer(b) \/ receive_begin(b)
          \/ \E t \in RxBuffers : receive_complete(t) \/ transmit_complete(t)
          \/ \E len \in {0, HdrSize(netCfg.legacy)} : transmit_begin(len) \/ NetSend(len)
      BY <2>1 DEF NetNext
    <3>9. /\ Transmit => UNCHANGED <<netRx, rx_buffers, rxIdx, rxAt, netMem, netHeld, netFreed, netIn, netRunts>>
          /\ \A t : transmit_complete(t) =>
               UNCHANGED <<netRx, rx_buffers, rxIdx, rxAt, netMem, netHeld, netFreed, netIn, netRunts>>
          /\ \A len : transmit_begin(len) \/ NetSend(len) =>
               UNCHANGED <<netRx, rx_buffers, rxIdx, rxAt, netMem, netHeld, netFreed, netIn, netRunts>>
      BY DEF Transmit, transmit_complete, transmit_begin, NetSend
    <3>. QED
      BY <3>2, <3>3, <3>4, <3>5, <3>6, <3>7, <3>8, <3>9, Zenon
  <2>2. CASE UNCHANGED <<netCfg, netVars>>
    BY <2>2 DEF netVars, NetInv, NetShape, NetOwners, NetPool, Shorts, PacketLen, NetUp, check_rx_buf_len
  <2>. QED
    BY <2>1, <2>2
<1>3. NetInv => BuffersOwned
  BY NetInvImplies
<1>. QED
  BY <1>1, <1>2, <1>3, PTL DEF NetSpec
=============================================================================
