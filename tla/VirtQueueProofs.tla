-------------------------- MODULE VirtQueueProofs --------------------------
(* Theorems about VirtQueue, for every SIZE, index width and request set.  *)
EXTENDS VirtQueue, FiniteSetTheorems, SequenceTheorems, TLAPS

\* Every non-empty set of naturals has a least element.
LEMMA LeastElement ==
  ASSUME NEW T, T \subseteq Nat, T # {}
  PROVE  \E m \in T : \A k \in T : m <= k
<1>1. PICK m \in T : \A k \in T : ~ (<<k, m>> \in OpToRel(<, Nat))
  BY NatLessThanWellFounded, WFMin, Zenon
<1>2. ASSUME NEW k \in T PROVE m <= k
  <2>1. ~ (<<k, m>> \in OpToRel(<, Nat)) BY <1>1
  <2>2. <<k, m>> \in Nat \X Nat OBVIOUS
  <2>3. ~ (k < m) BY <2>1, <2>2 DEF OpToRel
  <2> QED BY <2>3
<1> QED BY <1>2

\* Induction up to n, for a set of indices.
LEMMA UpTo ==
  ASSUME NEW n \in Nat, NEW S, 1 \in S,
         \A i \in 2 .. n : i - 1 \in S => i \in S
  PROVE  1 .. n \subseteq S
<1> DEFINE Bad == (1 .. n) \ S
<1> SUFFICES ASSUME Bad # {} PROVE FALSE
  OBVIOUS
<1>1. PICK m \in Bad : \A k \in Bad : m <= k
  <2>1. Bad \subseteq Nat OBVIOUS
  <2> QED BY <2>1, LeastElement
<1>2. m # 1 OBVIOUS
<1>3. m - 1 \in 1 .. n /\ m - 1 \notin Bad
  BY <1>1, <1>2
<1>4. m - 1 \in S BY <1>3
<1>5. m \in 2 .. n BY <1>2
<1> QED BY <1>4, <1>5

\* Basic facts about SIZE and the descriptor indices.
LEMMA SizeFacts ==
  /\ SIZE \in Nat /\ SIZE >= 1 /\ 0 \in Desc
  /\ IdxMod \in Nat /\ IdxMod >= 2 /\ 0 \in Idx
<1>1. SIZE \in Nat /\ SIZE >= 1 /\ IdxMod \in Nat
  BY SizeAssumption
<1>2. PICK k \in 2 .. IdxMod : IdxMod = k * SIZE
  BY SizeAssumption
<1>3. IdxMod >= 2 BY <1>1, <1>2
<1> QED BY <1>1, <1>3 DEF Desc, Idx

\* A sequence of distinct descriptors is no longer than the table.
LEMMA DistinctBound ==
  ASSUME NEW m \in Nat, NEW s \in [1 .. m -> Desc],
         \A i, j \in 1 .. m : s[i] = s[j] => i = j
  PROVE  m <= SIZE
<1>1. SIZE \in Nat /\ SIZE >= 1 BY SizeAssumption
<1>2. IsFiniteSet(Desc) /\ Cardinality(Desc) = SIZE
  BY <1>1, FS_Interval DEF Desc
<1>3. IsFiniteSet(1 .. m) /\ Cardinality(1 .. m) = m
  BY FS_Interval
<1>4. s \in Injection(1 .. m, Desc)
  BY DEF Injection, IsInjective
<1>5. Cardinality(1 .. m) <= Cardinality(Desc)
  BY <1>2, <1>4, FS_Injection
<1> QED BY <1>2, <1>3, <1>5

\* A free descriptor stands for no request and owns no indirect list.
LEMMA FreeIsUnused ==
  ASSUME IInv, NEW h \in Members(free)
  PROVE  h \in Desc /\ req[h] = <<>> /\ chain[h] = <<>> /\ indirect_lists[h] = NoList
<1>1. PICK j \in DOMAIN free : h = free[j]
  BY DEF Members
<1>2. h \in Desc
  BY <1>1 DEF IInv, TypeOK
<1>3. chain[h] = <<>> \/ 1 \in DOMAIN chain[h]
  BY <1>2 DEF IInv, TypeOK
<1>4. req[h] = <<>>
  <2> SUFFICES ASSUME req[h] # <<>> PROVE FALSE OBVIOUS
  <2>1. chain[h] # <<>> /\ chain[h][1] = h
    BY <1>2 DEF IInv, DriverInv, ChainsOK, ChainOK
  <2>2. chain[h][1] # free[j]
    BY <1>1, <1>2, <1>3, <2>1 DEF IInv, DriverInv, PartitionOK
  <2> QED BY <1>1, <2>1, <2>2
<1> QED BY <1>2, <1>4 DEF IInv, DriverInv, ChainsOK, ChainOK

\* The queue that VirtQueue::new builds satisfies the inductive invariant.
LEMMA InitIInv == Init => IInv
<1> SUFFICES ASSUME Init PROVE IInv OBVIOUS
<1>0. SIZE \in Nat /\ SIZE >= 1 /\ 0 \in Idx /\ 0 \in Desc
  BY SizeFacts
<1>1. free \in Seq(Desc) /\ Len(free) = SIZE /\ DOMAIN free = 1 .. SIZE
  BY <1>0 DEF Desc, Init
<1>2. TypeOK
  BY <1>0, <1>1 DEF TypeOK, Descriptor, Flags, Desc, Init
<1>3. FreeListOK
  <2>1. \A i \in 1 .. SIZE : free[i] = i - 1 /\ i - 1 \in Desc
    BY <1>0 DEF Desc, Init
  <2>2. \A i \in 1 .. SIZE : i > 1 => free[i] = desc_shadow[free[i - 1]].next
    BY <1>0, <2>1 DEF Desc, Init
  <2>3. free # <<>> => free_head = free[1]
    BY <1>0, <2>1 DEF Init
  <2>4. Len(free) + num_used = SIZE
    BY <1>0, <1>1 DEF Init
  <2>5. \A i, j \in 1 .. SIZE : free[i] = free[j] => i = j
    BY <2>1
  <2> QED BY <1>1, <2>2, <2>3, <2>4, <2>5 DEF FreeListOK
<1>4. ChainsOK
  BY DEF ChainsOK, ChainOK, Init
<1>5. PartitionOK
  <2>1. ASSUME NEW d \in Desc PROVE d \in Members(free)
    <3>1. d + 1 \in 1 .. SIZE /\ free[d + 1] = d BY <1>0, <1>1 DEF Desc, Init
    <3> QED BY <1>1, <3>1 DEF Members
  <2>2. \A t \in Desc : chain[t] = <<>> /\ DOMAIN chain[t] = {} BY DEF Init
  <2> QED BY <2>1, <2>2 DEF PartitionOK
<1>6. DeviceCopyOK
  BY DEF DeviceCopyOK, Init
<1> QED BY <1>2, <1>3, <1>4, <1>5, <1>6 DEF IInv, DriverInv

\* Ring indices stay in range.
LEMMA IndexTypes ==
  ASSUME NEW i \in Idx
  PROVE  Slot(i) \in Desc /\ Succ(i) \in Idx
<1>1. SIZE \in Nat /\ SIZE >= 1 /\ IdxMod \in Nat /\ IdxMod >= 1 BY SizeFacts
<1>2. i \in Nat BY <1>1 DEF Idx
<1>3. i % SIZE \in 0 .. SIZE - 1 BY <1>1, <1>2
<1>4. (i + 1) % IdxMod \in 0 .. IdxMod - 1 BY <1>1, <1>2
<1> QED BY <1>3, <1>4 DEF Slot, Succ, Desc, Idx

\* set_buf writes the address and the flags and leaves the link alone.
LEMMA SetBufFields ==
  ASSUME NEW d \in Descriptor, NEW a \in Buffers \cup {NoAddr, ListAddr},
         NEW w \in BOOLEAN, NEW x \in SUBSET Flags
  PROVE  /\ SetBuf(d, a, w, x) \in Descriptor
         /\ SetBuf(d, a, w, x).addr = a
         /\ SetBuf(d, a, w, x).flags = x \cup (IF w THEN {"WRITE"} ELSE {})
         /\ SetBuf(d, a, w, x).next = d.next
<1>1. x \cup (IF w THEN {"WRITE"} ELSE {}) \in SUBSET Flags BY DEF Flags
<1> QED BY <1>1 DEF SetBuf, Descriptor

\* The free list, unpacked for arithmetic.
LEMMA FreeFacts ==
  ASSUME IInv, NEW L, L = Len(free)
  PROVE  /\ L \in Nat /\ free \in [1 .. L -> Desc] /\ DOMAIN free = 1 .. L
         /\ num_used \in Nat /\ L + num_used = SIZE
         /\ \A i, j \in 1 .. L : free[i] = free[j] => i = j
         /\ \A i \in 2 .. L : free[i] = desc_shadow[free[i - 1]].next
         /\ L >= 1 => free_head = free[1] /\ free_head \in Members(free)
<1>1. free \in Seq(Desc) /\ num_used \in Nat BY SizeFacts DEF IInv, TypeOK
<1>2. L \in Nat /\ free \in [1 .. L -> Desc] /\ DOMAIN free = 1 .. L BY <1>1
<1>3. \A i, j \in DOMAIN free : free[i] = free[j] => i = j
  BY DEF IInv, DriverInv, FreeListOK
<1>4. \A i \in DOMAIN free : i > 1 => free[i] = desc_shadow[free[i - 1]].next
  BY DEF IInv, DriverInv, FreeListOK
<1>5. \A i \in 2 .. L : i \in 1 .. L /\ i > 1 BY <1>2
<1>6. L + num_used = SIZE BY DEF IInv, DriverInv, FreeListOK
<1>7. ASSUME L >= 1 PROVE free_head = free[1] /\ free_head \in Members(free)
  <2>1. free # <<>> /\ 1 \in 1 .. L BY <1>1, <1>2, <1>7
  <2>2. free_head = free[1] BY <2>1 DEF IInv, DriverInv, FreeListOK
  <2> QED BY <2>1, <2>2, <1>2 DEF Members
<1> QED BY <1>1, <1>2, <1>3, <1>4, <1>5, <1>6, <1>7

\* An indirect list has an entry per buffer.
LEMMA IndirectLength ==
  ASSUME NEW r \in Seq(Segment)
  PROVE  Len(IndirectList(r)) = Len(r)
BY DEF IndirectList

\* A direct chain is as long as its request.
LEMMA DirectLength ==
  ASSUME NEW t \in Desc, DirectChainOK(t), chain[t] \in Seq(Desc)
  PROVE  Len(chain[t]) = Len(req[t]) /\ chain[t] \in [1 .. Len(req[t]) -> Desc]
<1>1. Len(chain[t]) = Len(req[t]) BY DEF DirectChainOK
<1>2. chain[t] \in [1 .. Len(chain[t]) -> Desc] OBVIOUS
<1> QED BY ONLY <1>1, <1>2

\* A step that leaves a request and its descriptors alone keeps its chain.
LEMMA ChainFrame ==
  ASSUME IInv, NEW t \in Desc,
         req'[t] = req[t], chain'[t] = chain[t], indirect_lists'[t] = indirect_lists[t],
         \A i \in DOMAIN chain[t] : desc_shadow'[chain[t][i]] = desc_shadow[chain[t][i]]
  PROVE  ChainOK(t)'
<1>1. CASE req[t] = <<>> BY <1>1 DEF IInv, DriverInv, ChainsOK, ChainOK
<1>2. CASE req[t] # <<>>
  <2>1. chain[t] \in Seq(Desc) /\ chain[t] # <<>> /\ chain[t][1] = t
    BY <1>2 DEF IInv, TypeOK, DriverInv, ChainsOK, ChainOK
  <2>2. 1 \in DOMAIN chain[t] BY <2>1
  <2>3. desc_shadow'[t] = desc_shadow[t] BY <2>1, <2>2
  <2>4. CASE "INDIRECT" \in desc_shadow[t].flags
    <3>1. IndirectChainOK(t) BY <1>2, <2>4 DEF IInv, DriverInv, ChainsOK, ChainOK
    <3> QED BY <3>1, <1>2, <2>1, <2>3, <2>4 DEF IndirectChainOK, ChainOK
  <2>5. CASE "INDIRECT" \notin desc_shadow[t].flags
    <3>1. DirectChainOK(t) BY <1>2, <2>5 DEF IInv, DriverInv, ChainsOK, ChainOK
    <3>2. \A i \in DOMAIN chain[t] : i > 1 => i - 1 \in DOMAIN chain[t]
      BY <2>1
    <3>3. DirectChainOK(t)'
      BY <3>1, <3>2 DEF DirectChainOK
    <3> QED BY <3>3, <1>2, <2>1, <2>3, <2>5 DEF ChainOK
  <2> QED BY <2>4, <2>5
<1> QED BY <1>1, <1>2

\* What both forms of add do to the bookkeeping: the first n free descriptors
\* become the chain c of the request r, and no other descriptor is touched.
AddShape(c, n, r) ==
  /\ n >= 1 /\ n <= Len(free)
  /\ \A i \in 1 .. n : c[i] = free[i]
  /\ free' = SubSeq(free, n + 1, Len(free))
  /\ num_used' = num_used + n
  /\ free_head' = desc_shadow[c[n]].next
  /\ chain' = [chain EXCEPT ![free_head] = c]
  /\ req' = [req EXCEPT ![free_head] = r]
  /\ \A d \in Desc \ Members(c) : desc_shadow'[d] = desc_shadow[d] /\ desc'[d] = desc[d]
  /\ \A d \in Members(c) : desc'[d] = desc_shadow'[d]
  /\ \A d \in Desc \ {free_head} : indirect_lists'[d] = indirect_lists[d]

\* Taking a chain off the free list keeps the bookkeeping, if the new chain
\* itself is well formed.
LEMMA AddKeeps ==
  ASSUME IInv, NEW n \in Nat, NEW c \in [1 .. n -> Desc], NEW r, AddShape(c, n, r),
         \A t \in Desc : t = free_head => ChainOK(t)'
  PROVE  /\ DriverInv' /\ num_used' \in 0 .. SIZE /\ free' \in Seq(Desc) /\ free_head' \in Desc
         /\ LentKept
<1> DEFINE L == Len(free)
<1> DEFINE h == free_head
<1>0. SIZE \in Nat BY SizeFacts
<1>1. n >= 1 /\ n <= L /\ (\A i \in 1 .. n : c[i] = free[i]) BY DEF AddShape
<1>2. /\ L \in Nat /\ free \in [1 .. L -> Desc] /\ DOMAIN free = 1 .. L
      /\ num_used \in Nat /\ L + num_used = SIZE
      /\ \A i, j \in 1 .. L : free[i] = free[j] => i = j
      /\ \A i \in 2 .. L : free[i] = desc_shadow[free[i - 1]].next
      /\ L >= 1 => h = free[1] /\ h \in Members(free)
  BY FreeFacts
<1>3. /\ Len(free') = L - n /\ free' \in Seq(Desc) /\ DOMAIN free' = 1 .. L - n
      /\ \A i \in 1 .. L - n : free'[i] = free[i + n]
  <2>1. free \in Seq(Desc) BY DEF IInv, TypeOK
  <2>2. n + 1 \in 1 .. L + 1 BY <1>1, <1>2
  <2>3. free' = SubSeq(free, n + 1, L) BY DEF AddShape
  <2>4. L \in (n + 1) - 1 .. L BY <1>1, <1>2
  <2>5. /\ free' \in Seq(Desc) /\ Len(free') = L - (n + 1) + 1
        /\ \A i \in 1 .. L - (n + 1) + 1 : free'[i] = free[(n + 1) + i - 1]
    BY <2>1, <2>2, <2>3, <2>4, SubSeqProperties
  <2> HIDE DEF L
  <2>6. L - (n + 1) + 1 = L - n /\ \A i \in 1 .. L - n : (n + 1) + i - 1 = i + n BY <1>2
  <2> QED BY <2>5, <2>6
<1> HIDE DEF L
<1>4. DOMAIN c = 1 .. n /\ c # <<>> BY <1>1
<1>5. \A i, j \in 1 .. n : c[i] = c[j] => i = j
  BY <1>1, <1>2
<1>6. h = c[1] /\ h \in Desc /\ h \in Members(c) /\ h \in Members(free)
  BY <1>1, <1>2, <1>4 DEF Members
<1>7. chain[h] = <<>>
  BY <1>6, FreeIsUnused
<1>8. \A i \in 1 .. n : c[i] \in Desc /\ c[i] \in Members(c)
  BY <1>4 DEF Members
<1>9. \A t \in Desc : \A i \in DOMAIN chain[t] : chain[t][i] \in Desc \ Members(c)
  <2> SUFFICES ASSUME NEW t \in Desc, NEW i \in DOMAIN chain[t]
               PROVE  chain[t][i] \in Desc \ Members(c)
    OBVIOUS
  <2>1. chain[t][i] \in Desc BY DEF IInv, TypeOK
  <2>2. \A j \in DOMAIN free : chain[t][i] # free[j]
    BY DEF IInv, DriverInv, PartitionOK
  <2>3. \A j \in 1 .. n : chain[t][i] # c[j]
    <3> SUFFICES ASSUME NEW j \in 1 .. n PROVE chain[t][i] # c[j] OBVIOUS
    <3>1. j \in DOMAIN free BY <1>1, <1>2
    <3> QED BY <3>1, <1>1, <2>2
  <2> QED BY <1>4, <2>1, <2>3 DEF Members
<1>10. \A t \in Desc : IF t = h THEN chain'[t] = c
                       ELSE req'[t] = req[t] /\ chain'[t] = chain[t] /\ indirect_lists'[t] = indirect_lists[t]
  BY <1>6 DEF AddShape, IInv, TypeOK
<1>11. \A d \in Desc \ Members(c) : desc_shadow'[d] = desc_shadow[d] /\ desc'[d] = desc[d]
  BY DEF AddShape
<1>12. num_used' \in 0 .. SIZE /\ free_head' \in Desc
  <2>1. free_head' = desc_shadow[c[n]].next /\ num_used' = num_used + n BY DEF AddShape
  <2>2. desc_shadow[c[n]] \in Descriptor BY <1>1, <1>8 DEF IInv, TypeOK
  <2> QED BY <2>1, <2>2, <1>0, <1>1, <1>2 DEF Descriptor
<1>13. FreeListOK'
  <2>1. \A i \in 1 .. L - n : free'[i] \in Desc \ Members(c)
    <3> SUFFICES ASSUME NEW i \in 1 .. L - n PROVE free'[i] \in Desc \ Members(c)
      OBVIOUS
    <3>1. i + n \in 1 .. L /\ free'[i] = free[i + n] BY <1>1, <1>2, <1>3
    <3>2. \A k \in 1 .. n : free[i + n] # free[k]
      BY <3>1, <1>1, <1>2
    <3> QED BY <3>1, <3>2, <1>1, <1>2, <1>4 DEF Members
  <2>2. Len(free') + num_used' = SIZE
    <3>1. num_used' = num_used + n BY DEF AddShape
    <3> QED BY <3>1, <1>0, <1>2, <1>3
  <2>3. ASSUME NEW i \in 1 .. L - n, NEW j \in 1 .. L - n, free'[i] = free'[j] PROVE i = j
    <3>1. i + n \in 1 .. L /\ j + n \in 1 .. L BY <1>1, <1>2
    <3>2. i + n = j + n BY <2>3, <3>1, <1>2, <1>3
    <3> QED BY <3>2
  <2>4. ASSUME free' # <<>> PROVE free_head' = free'[1]
    <3>1. L - n >= 1 BY <2>4, <1>1, <1>2, <1>3
    <3>2. free'[1] = free[n + 1] BY <3>1, <1>1, <1>2, <1>3
    <3>3. free[n + 1] = desc_shadow[free[n]].next
      <4>1. n + 1 \in 2 .. L /\ (n + 1) - 1 = n BY <3>1, <1>1, <1>2
      <4>2. free[n + 1] = desc_shadow[free[(n + 1) - 1]].next BY <4>1, <1>2
      <4> QED BY <4>1, <4>2
    <3>4. free_head' = desc_shadow[c[n]].next BY DEF AddShape
    <3> QED BY <3>2, <3>3, <3>4, <1>1
  <2>5. ASSUME NEW i \in 1 .. L - n, i > 1
        PROVE  free'[i] = desc_shadow'[free'[i - 1]].next
    <3>1. i - 1 \in 1 .. L - n BY <2>5, <1>1, <1>2
    <3>2. desc_shadow'[free'[i - 1]] = desc_shadow[free'[i - 1]] BY <3>1, <2>1, <1>11
    <3>3. free'[i] = free[i + n] /\ free'[i - 1] = free[(i + n) - 1]
      BY <3>1, <1>1, <1>2, <1>3
    <3>4. free[i + n] = desc_shadow[free[(i + n) - 1]].next
      BY <2>5, <1>1, <1>2
    <3> QED BY <3>2, <3>3, <3>4
  <2> QED BY <2>2, <2>3, <2>4, <2>5, <1>3 DEF FreeListOK
<1>14. PartitionOK'
  <2>1. \A j \in DOMAIN free' : \E k \in DOMAIN free : k > n /\ free'[j] = free[k]
    <3> SUFFICES ASSUME NEW j \in 1 .. L - n PROVE \E k \in DOMAIN free : k > n /\ free'[j] = free[k]
      BY <1>3
    <3>1. j + n \in DOMAIN free /\ j + n > n /\ free'[j] = free[j + n] BY <1>1, <1>2, <1>3
    <3> QED BY <3>1
  <2>2. \A i \in 1 .. n, k \in DOMAIN free : k > n => c[i] # free[k]
    BY <1>1, <1>2
  <2>3. \A t \in Desc : \A i \in DOMAIN chain'[t], j \in DOMAIN free' : chain'[t][i] # free'[j]
    BY <2>1, <2>2, <1>4, <1>10 DEF IInv, DriverInv, PartitionOK
  <2>4. \A t, u \in Desc : \A i \in DOMAIN chain'[t], j \in DOMAIN chain'[u] :
          chain'[t][i] = chain'[u][j] => t = u /\ i = j
    <3> SUFFICES ASSUME NEW t \in Desc, NEW u \in Desc, NEW i \in DOMAIN chain'[t],
                        NEW j \in DOMAIN chain'[u], chain'[t][i] = chain'[u][j]
                 PROVE  t = u /\ i = j
      OBVIOUS
    <3>1. CASE t = h /\ u = h BY <3>1, <1>4, <1>5, <1>10
    <3>2. CASE t = h /\ u # h BY <3>2, <1>4, <1>8, <1>9, <1>10
    <3>3. CASE t # h /\ u = h BY <3>3, <1>4, <1>8, <1>9, <1>10
    <3>4. CASE t # h /\ u # h BY <3>4, <1>10 DEF IInv, DriverInv, PartitionOK
    <3> QED BY <3>1, <3>2, <3>3, <3>4
  <2>5. ASSUME NEW d \in Desc
        PROVE  d \in Members(free') \/ \E t \in Desc : d \in Members(chain'[t])
    <3>1. CASE d \in Members(free)
      <4>1. PICK k \in 1 .. L : d = free[k] BY <3>1, <1>2 DEF Members
      <4>2. CASE k <= n
        <5>1. k \in 1 .. n /\ d = c[k] BY <4>1, <4>2, <1>1, <1>2
        <5> QED BY <5>1, <1>6, <1>8, <1>10
      <4>3. CASE k > n
        <5>1. k - n \in 1 .. L - n /\ (k - n) + n = k BY <4>3, <1>1, <1>2
        <5>2. k - n \in DOMAIN free' /\ free'[k - n] = d BY <5>1, <4>1, <1>3
        <5> QED BY <5>2 DEF Members
      <4> QED BY <4>2, <4>3, <1>2
    <3>2. CASE \E t \in Desc : d \in Members(chain[t])
      <4>1. PICK t \in Desc : d \in Members(chain[t]) BY <3>2
      <4>2. t # h BY <4>1, <1>7 DEF Members
      <4> QED BY <4>1, <4>2, <1>10
    <3> QED BY <3>1, <3>2 DEF IInv, DriverInv, PartitionOK
  <2> QED BY <2>3, <2>4, <2>5 DEF PartitionOK
<1>15. DeviceCopyOK'
  <2> SUFFICES ASSUME NEW t \in Desc, NEW i \in DOMAIN chain'[t]
               PROVE  desc'[chain'[t][i]] = desc_shadow'[chain'[t][i]]
    BY DEF DeviceCopyOK
  <2>1. CASE t = h BY <2>1, <1>4, <1>8, <1>10 DEF AddShape
  <2>2. CASE t # h
    BY <2>2, <1>9, <1>10, <1>11 DEF IInv, DriverInv, DeviceCopyOK
  <2> QED BY <2>1, <2>2
<1>16. ChainsOK'
  <2> SUFFICES ASSUME NEW t \in Desc PROVE ChainOK(t)'
    BY DEF ChainsOK
  <2>1. CASE t # h
    <3>1. \A i \in DOMAIN chain[t] : desc_shadow'[chain[t][i]] = desc_shadow[chain[t][i]]
      BY <1>9, <1>11
    <3>2. req'[t] = req[t] /\ chain'[t] = chain[t] /\ indirect_lists'[t] = indirect_lists[t]
      BY <2>1, <1>10
    <3> QED BY <3>1, <3>2, ChainFrame
  <2> QED BY <2>1
<1>17. LentKept
  <2> SUFFICES ASSUME NEW t \in Desc, req[t] # <<>>, req'[t] # <<>>
               PROVE  /\ req'[t] = req[t]
                      /\ indirect_lists'[t] = indirect_lists[t]
                      /\ \A i \in DOMAIN chain[t] : desc'[chain[t][i]] = desc[chain[t][i]]
    BY DEF LentKept, Outstanding
  <2>1. t # h BY <1>6, FreeIsUnused
  <2> QED BY <2>1, <1>9, <1>10, <1>11
<1> QED BY <1>3, <1>12, <1>13, <1>14, <1>15, <1>16, <1>17 DEF DriverInv

\* add with a direct chain keeps the invariant.
LEMMA AddDirectInv ==
  ASSUME IInv, NEW r \in Requests, AddFill(r), ~ (indirect /\ Len(r) > 1)
  PROVE  IInv' /\ LentKept
<1> DEFINE n == Len(r)
<1> DEFINE L == Len(free)
<1> DEFINE h == free_head
<1>0. SIZE \in Nat /\ SIZE >= 1 BY SizeFacts
<1>1. r \in Seq(Segment) /\ r # <<>> /\ n \in Nat /\ n >= 1
  BY ValueAssumption DEF AddFill, CanAdd
<1>2. /\ L \in Nat /\ free \in [1 .. L -> Desc] /\ DOMAIN free = 1 .. L
      /\ num_used \in Nat /\ L + num_used = SIZE
      /\ \A i, j \in 1 .. L : free[i] = free[j] => i = j
      /\ \A i \in 2 .. L : free[i] = desc_shadow[free[i - 1]].next
      /\ L >= 1 => h = free[1] /\ h \in Members(free)
  BY FreeFacts
<1>3. num_used + n <= SIZE /\ num_used + 1 <= SIZE
  BY <1>0, <1>1, <1>2, ValueAssumption DEF AddFill, CanAdd
<1>4. PICK c \in [1 .. n -> Desc] :
        /\ FreeWalk(c)
        /\ desc_shadow' = [d \in Desc |->
             IF d \in Members(c)
               THEN LET i == PosIn(c, d)
                    IN  SetBuf(desc_shadow[d], r[i].buf, r[i].write, ChainFlags(i, n))
               ELSE desc_shadow[d]]
        /\ desc' = WriteDescs(c, desc_shadow')
        /\ free_head' = AfterChain(c)
        /\ num_used' = num_used + n
        /\ chain' = [chain EXCEPT ![h] = c]
        /\ free' = SubSeq(free, n + 1, L)
        /\ UNCHANGED indirect_lists
  <2>1. AddDirect(r) BY DEF AddFill
  <2> QED BY <2>1 DEF AddDirect
<1>5. DOMAIN c = 1 .. n /\ c \in Seq(Desc) /\ Len(c) = n /\ c # <<>>
  BY <1>1
<1>6. \A i \in 1 .. n : r[i] \in Segment /\ r[i].buf \in Buffers /\ r[i].write \in BOOLEAN
  <2>1. \A i \in 1 .. n : r[i] \in Segment BY <1>1
  <2> QED BY <2>1 DEF Segment
<1>7. free' = SubSeq(free, n + 1, Len(free)) /\ n <= Len(free) /\ Len(c) = Len(r)
  <2>1. free' = SubSeq(free, n + 1, Len(free)) BY <1>4
  <2>2. Len(c) = Len(r) BY <1>5
  <2>3. num_used \in Nat /\ L \in Nat /\ L + num_used = SIZE BY <1>2
  <2>4. n \in Nat BY <1>1
  <2> HIDE DEF n, L
  <2>5. n <= L BY <2>3, <2>4, <1>3
  <2> QED BY <2>1, <2>2, <2>5 DEF L
<1> HIDE DEF n, L
<1>8. \A i \in 1 .. n : c[i] = free[i]
  <2> DEFINE S == {i \in 1 .. n : c[i] = free[i]}
  <2>1. 1 \in S
    <3>1. c[1] = h BY <1>4 DEF FreeWalk
    <3>2. L >= 1 /\ 1 \in 1 .. n BY <1>1, <1>2, <1>3
    <3> QED BY <3>1, <3>2, <1>2
  <2>2. ASSUME NEW i \in 2 .. n, i - 1 \in S PROVE i \in S
    <3>1. i \in DOMAIN c /\ i > 1 /\ i \in 2 .. L /\ i \in 1 .. n BY <1>1, <1>2, <1>3, <1>5
    <3>2. c[i] = desc_shadow[c[i - 1]].next BY <3>1, <1>4 DEF FreeWalk
    <3> QED BY <2>2, <3>1, <3>2, <1>2
  <2>3. n \in Nat BY <1>1
  <2> HIDE DEF S
  <2>4. 1 .. n \subseteq S BY <2>1, <2>2, <2>3, UpTo
  <2> QED BY <2>4 DEF S
<1>9. \A i, j \in 1 .. n : c[i] = c[j] => i = j
  BY <1>1, <1>2, <1>3, <1>8
<1>10. h = c[1] /\ h \in Desc /\ h \in Members(free)
  BY <1>1, <1>2, <1>3, <1>8
<1>11. indirect_lists[h] = NoList
  BY <1>10, FreeIsUnused
<1>12. \A i \in 1 .. n : c[i] \in Desc /\ c[i] \in Members(c) /\ PosIn(c, c[i]) = i
  <2> SUFFICES ASSUME NEW i \in 1 .. n PROVE c[i] \in Members(c) /\ PosIn(c, c[i]) = i
    OBVIOUS
  <2>1. c[i] \in Members(c) BY <1>5 DEF Members
  <2>2. \E k \in DOMAIN c : c[k] = c[i] BY <1>5
  <2>3. PosIn(c, c[i]) \in DOMAIN c /\ c[PosIn(c, c[i])] = c[i]
    BY <2>2 DEF PosIn
  <2> QED BY <2>1, <2>3, <1>5, <1>9
<1>13. \A i \in 1 .. n :
         /\ desc_shadow'[c[i]] \in Descriptor
         /\ desc_shadow'[c[i]].addr = r[i].buf
         /\ desc_shadow'[c[i]].flags = ChainFlags(i, n) \cup (IF r[i].write THEN {"WRITE"} ELSE {})
         /\ desc_shadow'[c[i]].next = desc_shadow[c[i]].next
  <2> SUFFICES ASSUME NEW i \in 1 .. n
               PROVE  /\ desc_shadow'[c[i]] \in Descriptor
                      /\ desc_shadow'[c[i]].addr = r[i].buf
                      /\ desc_shadow'[c[i]].flags = ChainFlags(i, n) \cup (IF r[i].write THEN {"WRITE"} ELSE {})
                      /\ desc_shadow'[c[i]].next = desc_shadow[c[i]].next
    OBVIOUS
  <2>1. desc_shadow[c[i]] \in Descriptor BY <1>12 DEF IInv, TypeOK
  <2>2. ChainFlags(i, n) \in SUBSET Flags BY DEF ChainFlags, Flags
  <2>3. desc_shadow'[c[i]] = SetBuf(desc_shadow[c[i]], r[i].buf, r[i].write, ChainFlags(i, n))
    BY <1>4, <1>12
  <2> QED BY <2>1, <2>2, <2>3, <1>6, SetBufFields
<1>14. AddShape(c, n, r)
  <2>1. \A d \in Desc \ Members(c) : desc_shadow'[d] = desc_shadow[d] /\ desc'[d] = desc[d]
    BY <1>4 DEF WriteDescs
  <2>2. \A d \in Members(c) : d \in Desc /\ desc'[d] = desc_shadow'[d]
    BY <1>4, <1>5 DEF WriteDescs, Members
  <2>3. req' = [req EXCEPT ![h] = r] BY DEF AddFill
  <2>4. free_head' = desc_shadow[c[n]].next BY <1>4, <1>5 DEF AfterChain
  <2> QED BY <1>1, <1>4, <1>7, <1>8, <2>1, <2>2, <2>3, <2>4 DEF AddShape, n
<1>15. ASSUME NEW t \in Desc, t = h PROVE ChainOK(t)'
  <2>1. indirect_lists'[t] = NoList BY <1>4, <1>11, <1>15
  <2>2. chain'[t] = c /\ req'[t] = r
    BY <1>4, <1>10, <1>15 DEF AddFill, IInv, TypeOK
  <2>3. \A i \in 1 .. n : View(desc_shadow'[c[i]]) = r[i]
    BY <1>6, <1>13 DEF View, ChainFlags, Segment
  <2>4. \A i \in 1 .. n : /\ "INDIRECT" \notin desc_shadow'[c[i]].flags
                          /\ "NEXT" \in desc_shadow'[c[i]].flags <=> i < n
    BY <1>13 DEF ChainFlags
  <2>5. ASSUME NEW i \in 1 .. n, i > 1 PROVE c[i] = desc_shadow'[c[i - 1]].next
    <3>1. i - 1 \in 1 .. n BY <2>5, <1>1
    <3>2. c[i] = desc_shadow[c[i - 1]].next BY <2>5, <1>4, <1>5 DEF FreeWalk
    <3> QED BY <3>1, <3>2, <1>13
  <2>6. DirectChainOK(t)'
    BY <2>1, <2>2, <2>3, <2>4, <2>5, <1>5, <1>7 DEF DirectChainOK
  <2>7. "INDIRECT" \notin desc_shadow'[t].flags BY <2>4, <1>1, <1>10, <1>15
  <2> QED BY <2>2, <2>6, <2>7, <1>1, <1>5, <1>10, <1>15 DEF ChainOK
<1>16. DriverInv' /\ num_used' \in 0 .. SIZE /\ free' \in Seq(Desc) /\ free_head' \in Desc /\ LentKept
  <2>1. n \in Nat BY <1>1
  <2> QED BY <1>14, <1>15, <2>1, AddKeeps
<1>17. TypeOK'
  <2>1. \A d \in Desc : desc_shadow'[d] \in Descriptor
    <3> SUFFICES ASSUME NEW d \in Desc PROVE desc_shadow'[d] \in Descriptor
      OBVIOUS
    <3>1. CASE d \in Members(c)
      <4>1. PICK i \in 1 .. n : d = c[i] BY <3>1, <1>5 DEF Members
      <4> QED BY <4>1, <1>13
    <3>2. CASE d \notin Members(c) BY <3>2, <1>4 DEF IInv, TypeOK
    <3> QED BY <3>1, <3>2
  <2>2. desc_shadow' \in [Desc -> Descriptor] BY <1>4, <2>1
  <2>3. desc' \in [Desc -> Descriptor] BY <1>4, <2>1 DEF WriteDescs, IInv, TypeOK
  <2>4. avail_ring' \in [Desc -> Desc] BY <1>10 DEF AddFill, IInv, TypeOK
  <2>5. req' \in [Desc -> Requests \cup {<<>>}] /\ chain' \in [Desc -> Seq(Desc)]
    BY <1>4, <1>5, <1>10 DEF AddFill, IInv, TypeOK
  <2>6. /\ UNCHANGED <<indirect, indirect_lists, avail_idx, last_used_idx, used_event, used_ring,
                       used_idx, dev_idx, dev_held>>
        /\ pc' = "filled"
    BY <1>4 DEF AddFill, deviceVars
  <2> QED BY <1>16, <2>2, <2>3, <2>4, <2>5, <2>6 DEF IInv, TypeOK
<1> QED BY <1>16, <1>17 DEF IInv

\* add with an indirect list keeps the invariant.
LEMMA AddIndirectInv ==
  ASSUME IInv, NEW r \in Requests, AddFill(r), indirect, Len(r) > 1
  PROVE  IInv' /\ LentKept
<1> DEFINE L == Len(free)
<1> DEFINE h == free_head
<1> DEFINE c == <<h>>
<1>0. SIZE \in Nat /\ SIZE >= 1 BY SizeFacts
<1>1. r # <<>> /\ num_used + 1 <= SIZE /\ AddIndirect(r)
  BY DEF AddFill, CanAdd
<1>2. /\ L \in Nat /\ free \in [1 .. L -> Desc] /\ DOMAIN free = 1 .. L
      /\ num_used \in Nat /\ L + num_used = SIZE
      /\ L >= 1 => h = free[1] /\ h \in Members(free)
  BY FreeFacts
<1>3. L >= 1 /\ h = free[1] /\ h \in Members(free) BY <1>0, <1>1, <1>2
<1>4. h \in Desc /\ Members(c) = {h} /\ c \in [1 .. 1 -> Desc] /\ c \in Seq(Desc) /\ c[1] = h
  BY <1>3, FreeIsUnused DEF Members
<1>5. desc_shadow[h] \in Descriptor BY <1>4 DEF IInv, TypeOK
<1>6. /\ desc_shadow'[h] \in Descriptor
      /\ desc_shadow'[h].addr = ListAddr
      /\ desc_shadow'[h].flags = {"INDIRECT"}
  <2>1. desc_shadow'[h] = SetBuf(desc_shadow[h], ListAddr, FALSE, {"INDIRECT"})
    BY <1>1, <1>4 DEF AddIndirect, IInv, TypeOK
  <2> QED BY <1>5, <2>1 DEF SetBuf, Descriptor, Flags
<1>7. \A d \in Desc \ {h} : /\ desc_shadow'[d] = desc_shadow[d] /\ desc'[d] = desc[d]
                            /\ indirect_lists'[d] = indirect_lists[d]
  BY <1>1, <1>4 DEF AddIndirect, WriteDescs, IInv, TypeOK
<1>8. AddShape(c, 1, r)
  <2>1. free' = SubSeq(free, 1 + 1, Len(free)) BY <1>1 DEF AddIndirect
  <2>2. desc'[h] = desc_shadow'[h] BY <1>1, <1>4 DEF AddIndirect, WriteDescs
  <2>3. \A i \in 1 .. 1 : c[i] = free[i] BY <1>3
  <2>4. req' = [req EXCEPT ![h] = r] /\ chain' = [chain EXCEPT ![h] = c]
    BY <1>1 DEF AddFill, AddIndirect
  <2>5. num_used' = num_used + 1 /\ free_head' = desc_shadow[c[1]].next
    BY <1>1 DEF AddIndirect
  <2>6. 1 >= 1 /\ 1 <= Len(free) BY <1>3
  <2> QED BY <1>4, <1>7, <2>1, <2>2, <2>3, <2>4, <2>5, <2>6 DEF AddShape
<1>9. ASSUME NEW t \in Desc, t = h PROVE ChainOK(t)'
  <2>1. chain'[t] = <<t>> /\ req'[t] = r /\ indirect_lists'[t] = IndirectList(r)
    BY <1>1, <1>4, <1>9 DEF AddFill, AddIndirect, IInv, TypeOK
  <2>2. "INDIRECT" \in desc_shadow'[t].flags BY <1>6, <1>9
  <2>3. IndirectChainOK(t)' BY <2>1, <1>6, <1>9 DEF IndirectChainOK
  <2> QED BY <2>1, <2>2, <2>3, <1>1 DEF ChainOK
<1>10. DriverInv' /\ num_used' \in 0 .. SIZE /\ free' \in Seq(Desc) /\ free_head' \in Desc /\ LentKept
  <2>1. 1 \in Nat OBVIOUS
  <2> HIDE DEF c
  <2> QED BY <1>4, <1>8, <1>9, <2>1, AddKeeps
<1>11. TypeOK'
  <2>1. \A d \in Desc : desc_shadow'[d] \in Descriptor
    BY <1>6, <1>7 DEF IInv, TypeOK
  <2>2. desc_shadow' \in [Desc -> Descriptor]
    <3>1. desc_shadow' = [d \in Desc |-> desc_shadow'[d]]
      BY <1>1 DEF AddIndirect, IInv, TypeOK
    <3> QED BY <2>1, <3>1
  <2>3. desc' \in [Desc -> Descriptor]
    BY <1>1, <2>1 DEF AddIndirect, WriteDescs, IInv, TypeOK
  <2>4. indirect_lists' \in [Desc -> {NoList} \cup {IndirectList(q) : q \in Requests}]
    <3>1. IndirectList(r) \in {IndirectList(q) : q \in Requests} OBVIOUS
    <3>2. indirect_lists' = [indirect_lists EXCEPT ![h] = IndirectList(r)]
      BY <1>1 DEF AddIndirect
    <3> QED BY <1>4, <3>1, <3>2 DEF IInv, TypeOK
  <2>5. avail_ring' \in [Desc -> Desc] BY <1>4 DEF AddFill, IInv, TypeOK
  <2>6. req' \in [Desc -> Requests \cup {<<>>}] /\ chain' \in [Desc -> Seq(Desc)]
    BY <1>1, <1>4 DEF AddFill, AddIndirect, IInv, TypeOK
  <2>7. /\ UNCHANGED <<indirect, avail_idx, last_used_idx, used_event, used_ring, used_idx,
                       dev_idx, dev_held>>
        /\ pc' = "filled"
    BY DEF AddFill, deviceVars
  <2> QED BY <1>10, <2>2, <2>3, <2>4, <2>5, <2>6, <2>7 DEF IInv, TypeOK
<1> QED BY <1>10, <1>11 DEF IInv

\* What both branches of recycle_descriptors do to the bookkeeping: the chain
\* of t goes to the front of the free list, linked to the old head, and no
\* other descriptor is touched.
PopShape(t) ==
  LET c == chain[t] IN
  /\ free' = c \o free
  /\ num_used' = num_used - Len(c)
  /\ free_head' = t
  /\ chain' = [chain EXCEPT ![t] = <<>>]
  /\ req' = [req EXCEPT ![t] = <<>>]
  /\ \A i \in DOMAIN c : desc_shadow'[c[i]].next = IF i < Len(c) THEN c[i + 1] ELSE free_head
  /\ \A d \in Desc \ Members(c) : desc_shadow'[d] = desc_shadow[d] /\ desc'[d] = desc[d]
  /\ \A d \in Desc : indirect_lists'[d] = IF d = t THEN NoList ELSE indirect_lists[d]

\* Returning a chain to the free list keeps the bookkeeping; num_used does
\* not go below zero because the longer free list still has no repetition.
LEMMA PopKeeps ==
  ASSUME IInv, NEW t \in Desc, req[t] # <<>>, PopShape(t)
  PROVE  DriverInv' /\ num_used' \in 0 .. SIZE /\ free' \in Seq(Desc) /\ LentKept
<1> DEFINE c == chain[t]
<1> DEFINE n == Len(c)
<1> DEFINE L == Len(free)
<1>0. SIZE \in Nat BY SizeFacts
<1>1. c \in Seq(Desc) /\ c # <<>> /\ c[1] = t
  BY DEF IInv, TypeOK, DriverInv, ChainsOK, ChainOK
<1>2. n \in Nat /\ n >= 1 /\ DOMAIN c = 1 .. n /\ c \in [1 .. n -> Desc] BY <1>1
<1>3. /\ L \in Nat /\ free \in [1 .. L -> Desc] /\ DOMAIN free = 1 .. L
      /\ num_used \in Nat /\ L + num_used = SIZE
      /\ \A i, j \in 1 .. L : free[i] = free[j] => i = j
      /\ \A i \in 2 .. L : free[i] = desc_shadow[free[i - 1]].next
      /\ L >= 1 => free_head = free[1]
  BY FreeFacts
<1>4. /\ free' \in Seq(Desc) /\ Len(free') = n + L /\ DOMAIN free' = 1 .. n + L
      /\ free' \in [1 .. n + L -> Desc]
      /\ \A i \in 1 .. n : free'[i] = c[i]
      /\ \A i \in n + 1 .. n + L : free'[i] = free[i - n]
  <2>1. free \in Seq(Desc) BY DEF IInv, TypeOK
  <2>2. free' = c \o free BY DEF PopShape
  <2>3. /\ free' \in Seq(Desc) /\ Len(free') = n + L
        /\ \A i \in 1 .. n + L : free'[i] = IF i <= n THEN c[i] ELSE free[i - n]
    BY <1>1, <2>1, <2>2, ConcatProperties
  <2> HIDE DEF n, L, c
  <2>4. \A i \in 1 .. n : i \in 1 .. n + L /\ i <= n BY <1>2, <1>3
  <2>5. \A i \in n + 1 .. n + L : i \in 1 .. n + L /\ ~ (i <= n) BY <1>2, <1>3
  <2> QED BY <2>3, <2>4, <2>5
<1>5. \A i, j \in 1 .. n : c[i] = c[j] => i = j
  BY <1>2 DEF IInv, DriverInv, PartitionOK
<1>6. \A i \in 1 .. n, j \in 1 .. L : c[i] # free[j]
  BY <1>2, <1>3 DEF IInv, DriverInv, PartitionOK
<1>7. \A i \in 1 .. n : desc_shadow'[c[i]].next = IF i < n THEN c[i + 1] ELSE free_head
  BY <1>2 DEF PopShape
<1>8. \A d \in Desc \ Members(c) : desc_shadow'[d] = desc_shadow[d] /\ desc'[d] = desc[d]
  BY DEF PopShape
<1>9. \A u \in Desc : IF u = t THEN chain'[u] = <<>> /\ req'[u] = <<>> /\ indirect_lists'[u] = NoList
                      ELSE req'[u] = req[u] /\ chain'[u] = chain[u] /\ indirect_lists'[u] = indirect_lists[u]
  BY DEF PopShape, IInv, TypeOK
<1>10. \A u \in Desc \ {t} : \A i \in DOMAIN chain[u] : chain[u][i] \in Desc \ Members(c)
  <2> SUFFICES ASSUME NEW u \in Desc \ {t}, NEW i \in DOMAIN chain[u]
               PROVE  chain[u][i] \in Desc \ Members(c)
    OBVIOUS
  <2>1. chain[u][i] \in Desc BY DEF IInv, TypeOK
  <2>2. \A j \in DOMAIN c : chain[u][i] # c[j] BY DEF IInv, DriverInv, PartitionOK
  <2> QED BY <2>1, <2>2 DEF Members
<1>11. num_used' = num_used - n /\ free_head' = t BY DEF PopShape
<1>arith. n \in Nat /\ n >= 1 /\ L \in Nat BY <1>2, <1>3
<1> HIDE DEF n, L, c
<1>12. \A i, j \in 1 .. n + L : free'[i] = free'[j] => i = j
  <2> SUFFICES ASSUME NEW i \in 1 .. n + L, NEW j \in 1 .. n + L, free'[i] = free'[j]
               PROVE  i = j
    OBVIOUS
  <2>1. i \in 1 .. n \/ (i \in n + 1 .. n + L /\ i - n \in 1 .. L) BY <1>arith
  <2>2. j \in 1 .. n \/ (j \in n + 1 .. n + L /\ j - n \in 1 .. L) BY <1>arith
  <2>3. CASE i \in 1 .. n /\ j \in 1 .. n BY <2>3, <1>4, <1>5
  <2>4. CASE i \in 1 .. n /\ j \in n + 1 .. n + L /\ j - n \in 1 .. L BY <2>4, <1>4, <1>6
  <2>5. CASE j \in 1 .. n /\ i \in n + 1 .. n + L /\ i - n \in 1 .. L BY <2>5, <1>4, <1>6
  <2>6. CASE /\ i \in n + 1 .. n + L /\ i - n \in 1 .. L
             /\ j \in n + 1 .. n + L /\ j - n \in 1 .. L
    <3>1. i - n = j - n BY <2>6, <1>3, <1>4
    <3> QED BY <3>1, <1>arith
  <2> QED BY <2>1, <2>2, <2>3, <2>4, <2>5, <2>6
<1>13. num_used' \in 0 .. SIZE
  <2>1. n + L \in Nat BY <1>arith
  <2>2. n + L <= SIZE BY <2>1, <1>4, <1>12, DistinctBound
  <2> QED BY <2>2, <1>0, <1>2, <1>3, <1>11
<1>14. FreeListOK'
  <2>1. Len(free') + num_used' = SIZE BY <1>2, <1>3, <1>4, <1>11
  <2>2. free_head' = free'[1]
    <3>1. 1 \in 1 .. n BY <1>arith
    <3> QED BY <3>1, <1>1, <1>4, <1>11
  <2>3. ASSUME NEW i \in 1 .. n + L, i > 1
        PROVE  free'[i] = desc_shadow'[free'[i - 1]].next
    <3>1. CASE i <= n
      <4>1. i \in 1 .. n /\ i - 1 \in 1 .. n /\ i - 1 < n /\ (i - 1) + 1 = i BY <2>3, <3>1, <1>arith
      <4>2. desc_shadow'[c[i - 1]].next = c[i] BY <4>1, <1>7
      <4> QED BY <4>1, <4>2, <1>4
    <3>2. CASE i = n + 1
      <4>1. i \in n + 1 .. n + L /\ i - n = 1 /\ i - 1 = n /\ n \in 1 .. n /\ L >= 1
        BY <2>3, <3>2, <1>arith
      <4>2. free'[i] = free[1] /\ free'[i - 1] = c[n] BY <4>1, <1>4
      <4>3. desc_shadow'[c[n]].next = free_head
        <5>1. n \in 1 .. n /\ ~ (n < n) BY <1>arith
        <5>2. desc_shadow'[c[n]].next = IF n < n THEN c[n + 1] ELSE free_head BY <5>1, <1>7, Zenon
        <5> QED BY <5>1, <5>2, Zenon
      <4> QED BY <4>1, <4>2, <4>3, <1>3
    <3>3. CASE i > n + 1
      <4>1. /\ i \in n + 1 .. n + L /\ i - 1 \in n + 1 .. n + L /\ i - n \in 2 .. L
            /\ (i - 1) - n = (i - n) - 1 /\ (i - n) - 1 \in 1 .. L
        BY <2>3, <3>3, <1>arith
      <4>2. free'[i] = free[i - n] /\ free'[i - 1] = free[(i - n) - 1] BY <4>1, <1>4
      <4>3. free[(i - n) - 1] \in Desc \ Members(c)
        <5>1. free[(i - n) - 1] \in Desc BY <4>1, <1>3
        <5>2. \A k \in 1 .. n : c[k] # free[(i - n) - 1] BY <4>1, <1>6
        <5> QED BY <5>1, <5>2, <1>2 DEF Members
      <4>4. free[i - n] = desc_shadow[free[(i - n) - 1]].next BY <4>1, <1>3
      <4> QED BY <4>2, <4>3, <4>4, <1>8
    <3> QED BY <3>1, <3>2, <3>3, <1>arith
  <2>4. DOMAIN free' = 1 .. n + L BY <1>4
  <2> QED BY <2>1, <2>2, <2>3, <2>4, <1>12 DEF FreeListOK
<1>15. PartitionOK'
  <2>1. \A u, v \in Desc : \A i \in DOMAIN chain'[u], j \in DOMAIN chain'[v] :
          chain'[u][i] = chain'[v][j] => u = v /\ i = j
    <3> SUFFICES ASSUME NEW u \in Desc, NEW v \in Desc, NEW i \in DOMAIN chain'[u],
                        NEW j \in DOMAIN chain'[v], chain'[u][i] = chain'[v][j]
                 PROVE  u = v /\ i = j
      OBVIOUS
    <3>1. u # t /\ v # t BY <1>9
    <3>2. chain'[u] = chain[u] /\ chain'[v] = chain[v] BY <3>1, <1>9
    <3>3. PartitionOK BY DEF IInv, DriverInv
    <3>4. i \in DOMAIN chain[u] /\ j \in DOMAIN chain[v] /\ chain[u][i] = chain[v][j] BY <3>2
    <3> QED BY <3>3, <3>4 DEF PartitionOK
  <2>2. ASSUME NEW u \in Desc, NEW i \in DOMAIN chain'[u], NEW j \in DOMAIN free'
        PROVE  chain'[u][i] # free'[j]
    <3>0. u # t
      <4>1. chain'[t] = <<>> BY <1>9
      <4> QED BY <4>1
    <3>1. u # t /\ i \in DOMAIN chain[u] /\ chain'[u][i] = chain[u][i] BY <3>0, <1>9
    <3>2. chain[u][i] \in Desc \ Members(c) BY <3>1, <1>10
    <3>3. \A k \in 1 .. L : chain[u][i] # free[k]
      <4>1. \A k \in DOMAIN free : chain[u][i] # free[k]
        BY <3>1 DEF IInv, DriverInv, PartitionOK
      <4> QED BY <4>1, <1>3
    <3>4. j \in 1 .. n \/ (j \in n + 1 .. n + L /\ j - n \in 1 .. L)
      <4>1. j \in 1 .. n + L BY <1>4
      <4> QED BY <4>1, <1>arith
    <3>5. CASE j \in 1 .. n BY <3>1, <3>2, <3>5, <1>2, <1>4 DEF Members
    <3>6. CASE j \in n + 1 .. n + L /\ j - n \in 1 .. L BY <3>1, <3>3, <3>6, <1>4
    <3> QED BY <3>4, <3>5, <3>6
  <2>3. ASSUME NEW d \in Desc
        PROVE  d \in Members(free') \/ \E u \in Desc : d \in Members(chain'[u])
    <3>1. CASE d \in Members(free)
      <4>1. PICK k \in 1 .. L : d = free[k] BY <3>1, <1>3 DEF Members
      <4>2. k + n \in n + 1 .. n + L /\ (k + n) - n = k /\ k + n \in 1 .. n + L BY <1>2, <1>3
      <4>3. k + n \in DOMAIN free' /\ free'[k + n] = d BY <4>1, <4>2, <1>4
      <4> QED BY <4>3 DEF Members
    <3>2. CASE d \in Members(c)
      <4>1. PICK k \in 1 .. n : d = c[k] BY <3>2, <1>2 DEF Members
      <4>2. k \in DOMAIN free' /\ free'[k] = d BY <4>1, <1>2, <1>3, <1>4
      <4> QED BY <4>2 DEF Members
    <3>3. CASE \E u \in Desc \ {t} : d \in Members(chain[u])
      <4>1. PICK u \in Desc \ {t} : d \in Members(chain[u]) BY <3>3
      <4> QED BY <4>1, <1>9
    <3> QED BY <3>1, <3>2, <3>3 DEF IInv, DriverInv, PartitionOK, c
  <2> QED BY <2>1, <2>2, <2>3 DEF PartitionOK
<1>16. DeviceCopyOK'
  <2> SUFFICES ASSUME NEW u \in Desc, NEW i \in DOMAIN chain'[u]
               PROVE  desc'[chain'[u][i]] = desc_shadow'[chain'[u][i]]
    BY DEF DeviceCopyOK
  <2>0. u # t BY <1>9
  <2>1. u # t /\ i \in DOMAIN chain[u] /\ chain'[u][i] = chain[u][i] BY <2>0, <1>9
  <2>2. desc[chain[u][i]] = desc_shadow[chain[u][i]] BY <2>1 DEF IInv, DriverInv, DeviceCopyOK
  <2>3. chain[u][i] \in Desc \ Members(c) BY <2>1, <1>10
  <2> QED BY <2>1, <2>2, <2>3, <1>8
<1>17. ChainsOK'
  <2> SUFFICES ASSUME NEW u \in Desc PROVE ChainOK(u)'
    BY DEF ChainsOK
  <2>1. CASE u = t BY <2>1, <1>9 DEF ChainOK
  <2>2. CASE u # t
    <3>1. \A i \in DOMAIN chain[u] : desc_shadow'[chain[u][i]] = desc_shadow[chain[u][i]]
      BY <2>2, <1>8, <1>10
    <3>2. req'[u] = req[u] /\ chain'[u] = chain[u] /\ indirect_lists'[u] = indirect_lists[u]
      BY <2>2, <1>9
    <3> QED BY <3>1, <3>2, ChainFrame
  <2> QED BY <2>1, <2>2
<1>18. LentKept
  <2> SUFFICES ASSUME NEW u \in Desc, req[u] # <<>>, req'[u] # <<>>
               PROVE  /\ req'[u] = req[u]
                      /\ indirect_lists'[u] = indirect_lists[u]
                      /\ \A i \in DOMAIN chain[u] : desc'[chain[u][i]] = desc[chain[u][i]]
    BY DEF LentKept, Outstanding
  <2>1. u # t BY <1>9
  <2> QED BY <2>1, <1>8, <1>9, <1>10
<1> QED BY <1>4, <1>13, <1>14, <1>15, <1>16, <1>17, <1>18 DEF DriverInv

\* unset_buf clears the address only; linking changes `next' only.
LEMMA UnsetBufFields ==
  ASSUME IInv, NEW d \in Descriptor
  PROVE  /\ UnsetBuf(d) \in Descriptor /\ UnsetBuf(d).next = d.next
         /\ Relinked(d) \in Descriptor /\ Relinked(d).next = free_head
<1>1. free_head \in Desc BY DEF IInv, TypeOK
<1>2. UnsetBuf(d) \in Descriptor /\ UnsetBuf(d).next = d.next BY DEF UnsetBuf, Descriptor
<1> HIDE DEF UnsetBuf
<1> QED BY <1>1, <1>2 DEF Relinked, Descriptor

\* pop_used ends the token's request and forgets its chain.
LEMMA PopTypes ==
  ASSUME IInv, NEW t \in Desc, PopUsed(t)
  PROVE  req' \in [Desc -> Requests \cup {<<>>}] /\ chain' \in [Desc -> Seq(Desc)]
<1>1. req' = [req EXCEPT ![t] = <<>>] BY DEF PopUsed
<1>2. chain' = [chain EXCEPT ![t] = <<>>] BY DEF PopUsed
<1>3. req \in [Desc -> Requests \cup {<<>>}] BY DEF IInv, TypeOK
<1>4. chain \in [Desc -> Seq(Desc)] BY DEF IInv, TypeOK
<1>5. <<>> \in Seq(Desc) OBVIOUS
<1> HIDE DEF IInv, PopUsed
<1>6. req' \in [Desc -> Requests \cup {<<>>}] BY ONLY <1>1, <1>3
<1>7. chain' \in [Desc -> Seq(Desc)] BY ONLY <1>2, <1>4, <1>5
<1> QED BY <1>6, <1>7

\* pop_used of a direct chain: recycle_descriptors walks exactly the chain
\* that add gave the token.
LEMMA PopDirectInv ==
  ASSUME IInv, NEW t \in Desc, PopUsed(t), "INDIRECT" \notin desc_shadow[t].flags
  PROVE  IInv' /\ LentKept
<1> DEFINE n == Len(req[t])
<1>1. req[t] # <<>> /\ req[t] \in Seq(Segment) /\ RecycleDirect(t)
  BY ValueAssumption DEF PopUsed, Outstanding, IInv, TypeOK
<1>2. DirectChainOK(t) /\ chain[t] # <<>> /\ chain[t][1] = t /\ chain[t] \in Seq(Desc)
  BY <1>1 DEF IInv, TypeOK, DriverInv, ChainsOK, ChainOK
<1>3. n \in Nat /\ n >= 1 /\ Len(chain[t]) = n /\ DOMAIN chain[t] = 1 .. n
  <2>1. n \in Nat /\ n >= 1 BY ONLY <1>1
  <2>2. Len(chain[t]) = n BY <1>2 DEF DirectChainOK
  <2>0. chain[t] \in Seq(Desc) BY <1>2
  <2>3. DOMAIN chain[t] = 1 .. Len(chain[t]) BY ONLY <2>0
  <2> HIDE DEF n
  <2> QED BY <2>1, <2>2, <2>3
<1>4. PICK c \in [1 .. n -> Desc] :
        /\ ChainWalk(c, t, Len(c))
        /\ desc_shadow' = [d \in Desc |->
             IF d = c[Len(c)] THEN Relinked(desc_shadow[d])
             ELSE IF d \in Members(c) THEN UnsetBuf(desc_shadow[d])
             ELSE desc_shadow[d]]
        /\ desc' = WriteDescs(c, desc_shadow')
        /\ num_used' = num_used - Len(c)
        /\ free' = c \o free
        /\ UNCHANGED indirect_lists
  BY <1>1 DEF RecycleDirect
<1> HIDE DEF n
<1>5. Len(c) = n /\ DOMAIN c = 1 .. n
  <2>1. n \in Nat /\ c \in [1 .. n -> Desc] BY <1>3
  <2> QED BY ONLY <2>1, SMTT(30)
<1>6. c = chain[t]
  <2> DEFINE S == {i \in 1 .. n : c[i] = chain[t][i]}
  <2>1. 1 \in S
    <3>1. c[1] = t BY <1>4 DEF ChainWalk
    <3>2. 1 \in 1 .. n BY <1>3
    <3> QED BY <3>1, <3>2, <1>2
  <2>2. ASSUME NEW i \in 2 .. n, i - 1 \in S PROVE i \in S
    <3>1. i \in 1 .. n /\ i > 1 BY <1>3
    <3>2. c[i] = desc_shadow[c[i - 1]].next BY <3>1, <1>4, <1>5 DEF ChainWalk
    <3>3. chain[t][i] = desc_shadow[chain[t][i - 1]].next
      BY <3>1, <1>2, <1>3 DEF DirectChainOK
    <3> QED BY <2>2, <3>1, <3>2, <3>3
  <2>3. n \in Nat BY <1>3
  <2> HIDE DEF S
  <2>4. 1 .. n \subseteq S BY <2>1, <2>2, <2>3, UpTo
  <2>5. \A i \in 1 .. n : c[i] = chain[t][i] BY <2>4 DEF S
  <2> QED BY <2>5, <1>2, <1>3, <1>5, SMTT(30)
<1>7. \A i, j \in 1 .. n : c[i] = c[j] => i = j
  <2>1. PartitionOK BY DEF IInv, DriverInv
  <2> QED BY <2>1, <1>3, <1>6 DEF PartitionOK
<1>8. \A d \in Desc : desc_shadow[d] \in Descriptor BY DEF IInv, TypeOK
<1>9. \A i \in 1 .. n : c[i] \in Desc /\ c[i] \in Members(c) BY <1>5 DEF Members
<1>10. \A i \in 1 .. n : desc_shadow'[c[i]].next = IF i < n THEN c[i + 1] ELSE free_head
  <2> SUFFICES ASSUME NEW i \in 1 .. n
               PROVE  desc_shadow'[c[i]].next = IF i < n THEN c[i + 1] ELSE free_head
    OBVIOUS
  <2>1. CASE i < n
    <3>1. n \in 1 .. n /\ i + 1 \in 1 .. n /\ i + 1 > 1 /\ (i + 1) - 1 = i /\ i # n
      BY <2>1, <1>3
    <3>2. c[i] # c[Len(c)] BY <3>1, <1>5, <1>7
    <3>3. desc_shadow'[c[i]] = UnsetBuf(desc_shadow[c[i]]) BY <3>2, <1>4, <1>9
    <3>4. desc_shadow'[c[i]].next = desc_shadow[c[i]].next BY <3>3, <1>8, <1>9, UnsetBufFields
    <3>5. c[i + 1] = desc_shadow[c[i]].next BY <3>1, <1>4, <1>5 DEF ChainWalk
    <3> QED BY <2>1, <3>4, <3>5
  <2>2. CASE ~ (i < n)
    <3>1. i = n BY <2>2, <1>3
    <3>2. desc_shadow'[c[i]] = Relinked(desc_shadow[c[i]]) BY <3>1, <1>4, <1>5, <1>9
    <3>3. desc_shadow[c[i]] \in Descriptor BY <1>8, <1>9
    <3>4. desc_shadow'[c[i]].next = free_head BY <3>2, <3>3, UnsetBufFields
    <3> QED BY <2>2, <3>4
  <2> QED BY <2>1, <2>2
<1>11. PopShape(t)
  <2>1. c[Len(c)] \in Members(c)
    <3>1. n \in 1 .. n BY <1>3
    <3> QED BY <3>1, <1>5, <1>9
  <2>2. \A d \in Desc \ Members(c) : desc_shadow'[d] = desc_shadow[d] /\ desc'[d] = desc[d]
    BY <2>1, <1>4 DEF WriteDescs
  <2>3. indirect_lists' = indirect_lists /\ indirect_lists[t] = NoList
    BY <1>2, <1>4 DEF DirectChainOK
  <2>4. /\ free_head' = t /\ req' = [req EXCEPT ![t] = <<>>] /\ chain' = [chain EXCEPT ![t] = <<>>]
    BY DEF PopUsed
  <2>5. free' = c \o free /\ num_used' = num_used - Len(c) BY <1>4
  <2>6. \A i \in DOMAIN c : desc_shadow'[c[i]].next = IF i < Len(c) THEN c[i + 1] ELSE free_head
    BY <1>5, <1>10
  <2> QED BY <1>6, <2>2, <2>3, <2>4, <2>5, <2>6 DEF PopShape
<1>12. DriverInv' /\ num_used' \in 0 .. SIZE /\ free' \in Seq(Desc) /\ LentKept
  BY <1>1, <1>11, PopKeeps
<1>13. TypeOK'
  <2>1. \A d \in Desc : UnsetBuf(desc_shadow[d]) \in Descriptor /\ Relinked(desc_shadow[d]) \in Descriptor
    BY <1>8, UnsetBufFields
  <2>2. desc_shadow' \in [Desc -> Descriptor] BY <1>4, <1>8, <2>1
  <2>3. desc' \in [Desc -> Descriptor] BY <1>4, <2>2 DEF WriteDescs, IInv, TypeOK
  <2>4. req' \in [Desc -> Requests \cup {<<>>}] /\ chain' \in [Desc -> Seq(Desc)]
    BY PopTypes
  <2>5. last_used_idx' \in Idx /\ used_event' \in Idx
    BY IndexTypes DEF PopUsed, IInv, TypeOK
  <2>6. free_head' = t /\ UNCHANGED <<indirect, avail_ring, avail_idx, pc, used_ring, used_idx,
                                         dev_idx, dev_held>>
    BY DEF PopUsed, deviceVars
  <2>7. indirect_lists' = indirect_lists BY <1>4
  <2> QED BY <1>12, <2>2, <2>3, <2>4, <2>5, <2>6, <2>7 DEF IInv, TypeOK
<1> QED BY <1>12, <1>13 DEF IInv

\* pop_used of an indirect chain.
LEMMA PopIndirectInv ==
  ASSUME IInv, NEW t \in Desc, PopUsed(t), "INDIRECT" \in desc_shadow[t].flags
  PROVE  IInv' /\ LentKept
<1>1. req[t] # <<>> /\ RecycleIndirect(t)
  BY DEF PopUsed, Outstanding
<1>2. chain[t] = <<t>>
  BY <1>1 DEF IInv, DriverInv, ChainsOK, ChainOK, IndirectChainOK
<1>3. desc_shadow[t] \in Descriptor BY DEF IInv, TypeOK
<1>4. desc_shadow' = [desc_shadow EXCEPT ![t] = Relinked(desc_shadow[t])]
  BY <1>1 DEF RecycleIndirect
<1>5. Relinked(desc_shadow[t]) \in Descriptor /\ Relinked(desc_shadow[t]).next = free_head
  BY <1>3, UnsetBufFields
<1>6. Members(<<t>>) = {t} /\ Len(<<t>>) = 1 /\ DOMAIN <<t>> = {1} /\ <<t>>[1] = t
  BY DEF Members
<1>7. PopShape(t)
  <2>1. \A d \in Desc \ {t} : desc_shadow'[d] = desc_shadow[d] /\ desc'[d] = desc[d]
    BY <1>1, <1>4 DEF RecycleIndirect, IInv, TypeOK
  <2>2. \A d \in Desc : indirect_lists'[d] = IF d = t THEN NoList ELSE indirect_lists[d]
    BY <1>1 DEF RecycleIndirect, IInv, TypeOK
  <2>3. free_head' = t /\ req' = [req EXCEPT ![t] = <<>>] /\ chain' = [chain EXCEPT ![t] = <<>>]
    BY DEF PopUsed
  <2>4. free' = <<t>> \o free /\ num_used' = num_used - 1 BY <1>1 DEF RecycleIndirect
  <2>5. desc_shadow'[t].next = free_head BY <1>4, <1>5 DEF IInv, TypeOK
  <2>6. Members(chain[t]) = {t} /\ Len(chain[t]) = 1 BY <1>2, <1>6
  <2>7. \A i \in DOMAIN chain[t] : i = 1 /\ chain[t][i] = t BY <1>2, <1>6
  <2>8. \A i \in DOMAIN chain[t] :
          desc_shadow'[chain[t][i]].next = IF i < Len(chain[t]) THEN chain[t][i + 1] ELSE free_head
    BY <2>5, <2>6, <2>7
  <2>9. free' = chain[t] \o free /\ num_used' = num_used - Len(chain[t]) BY <1>2, <2>4, <2>6
  <2> QED BY <2>1, <2>2, <2>3, <2>6, <2>8, <2>9 DEF PopShape
<1>8. DriverInv' /\ num_used' \in 0 .. SIZE /\ free' \in Seq(Desc) /\ LentKept
  BY <1>1, <1>7, PopKeeps
<1>9. TypeOK'
  <2>1. desc_shadow' \in [Desc -> Descriptor] BY <1>4, <1>5 DEF IInv, TypeOK
  <2>2. indirect_lists' \in [Desc -> {NoList} \cup {IndirectList(q) : q \in Requests}] /\ desc' = desc
    BY <1>1 DEF RecycleIndirect, IInv, TypeOK
  <2>3. req' \in [Desc -> Requests \cup {<<>>}] /\ chain' \in [Desc -> Seq(Desc)]
    BY PopTypes
  <2>4. last_used_idx' \in Idx /\ used_event' \in Idx
    BY IndexTypes DEF PopUsed, IInv, TypeOK
  <2>5. free_head' = t /\ UNCHANGED <<indirect, avail_ring, avail_idx, pc, used_ring, used_idx,
                                         dev_idx, dev_held>>
    BY DEF PopUsed, deviceVars
  <2> QED BY <1>8, <2>1, <2>2, <2>3, <2>4, <2>5 DEF IInv, TypeOK
<1> QED BY <1>8, <1>9 DEF IInv

\* The invariant reads only the driver's bookkeeping.
LEMMA BookkeepingFrame ==
  ASSUME DriverInv,
         UNCHANGED <<desc_shadow, desc, free_head, num_used, indirect_lists, req, chain, free>>
  PROVE  DriverInv' /\ LentKept
<1>1. FreeListOK' BY DEF DriverInv, FreeListOK
<1>2. ChainsOK'
  <2> SUFFICES ASSUME NEW t \in Desc PROVE ChainOK(t)' BY DEF ChainsOK
  <2>1. ChainOK(t) BY DEF DriverInv, ChainsOK
  <2>2. DirectChainOK(t) <=> DirectChainOK(t)' BY DEF DirectChainOK
  <2>3. IndirectChainOK(t) <=> IndirectChainOK(t)' BY DEF IndirectChainOK
  <2> QED BY <2>1, <2>2, <2>3 DEF ChainOK
<1>3. PartitionOK' BY DEF DriverInv, PartitionOK
<1>4. DeviceCopyOK' BY DEF DriverInv, DeviceCopyOK
<1>5. LentKept BY DEF LentKept
<1> QED BY <1>1, <1>2, <1>3, <1>4, <1>5 DEF DriverInv

\* IInv is inductive.
LEMMA NextIInv == IInv /\ [Next]_vars => IInv' /\ LentKept
<1> SUFFICES ASSUME IInv, [Next]_vars PROVE IInv' /\ LentKept
  OBVIOUS
<1>1. ASSUME NEW r \in Requests, AddFill(r) PROVE IInv' /\ LentKept
  <2>1. indirect \in BOOLEAN BY DEF IInv, TypeOK
  <2>2. CASE indirect /\ Len(r) > 1 BY <1>1, <2>2, AddIndirectInv
  <2>3. CASE ~ (indirect /\ Len(r) > 1) BY <1>1, <2>3, AddDirectInv
  <2> QED BY <2>2, <2>3
<1>2. ASSUME AddPublish PROVE IInv' /\ LentKept
  <2>1. DriverInv' /\ LentKept BY <1>2, BookkeepingFrame DEF AddPublish, IInv
  <2>2. avail_idx' \in Idx BY <1>2, IndexTypes DEF AddPublish, IInv, TypeOK
  <2> QED BY <1>2, <2>1, <2>2 DEF AddPublish, deviceVars, IInv, TypeOK
<1>3. ASSUME NEW t \in Desc, PopUsed(t) PROVE IInv' /\ LentKept
  <2>1. CASE "INDIRECT" \in desc_shadow[t].flags BY <1>3, <2>1, PopIndirectInv
  <2>2. CASE "INDIRECT" \notin desc_shadow[t].flags BY <1>3, <2>2, PopDirectInv
  <2> QED BY <2>1, <2>2
<1>4. ASSUME DeviceTake PROVE IInv' /\ LentKept
  <2>1. DriverInv' /\ LentKept BY <1>4, BookkeepingFrame DEF DeviceTake, driverVars, IInv
  <2>2. dev_idx' \in Idx BY <1>4, IndexTypes DEF DeviceTake, IInv, TypeOK
  <2>3. dev_held' \in SUBSET Desc BY <1>4, IndexTypes DEF DeviceTake, IInv, TypeOK
  <2> QED BY <1>4, <2>1, <2>2, <2>3 DEF DeviceTake, driverVars, IInv, TypeOK
<1>5. ASSUME NEW t \in Desc, DeviceUse(t) PROVE IInv' /\ LentKept
  <2>1. DriverInv' /\ LentKept BY <1>5, BookkeepingFrame DEF DeviceUse, driverVars, IInv
  <2>2. used_idx' \in Idx BY <1>5, IndexTypes DEF DeviceUse, IInv, TypeOK
  <2>3. used_ring' \in [Desc -> Desc] BY <1>5 DEF DeviceUse, IInv, TypeOK
  <2> QED BY <1>5, <2>1, <2>2, <2>3 DEF DeviceUse, driverVars, IInv, TypeOK
<1>6. ASSUME UNCHANGED vars PROVE IInv' /\ LentKept
  <2>1. DriverInv' /\ LentKept BY <1>6, BookkeepingFrame DEF vars, driverVars, IInv
  <2> QED BY <1>6, <2>1 DEF vars, driverVars, deviceVars, IInv, TypeOK
<1> QED BY <1>1, <1>2, <1>3, <1>4, <1>5, <1>6 DEF Next

\* The typing and the bookkeeping hold in every reachable state.
THEOREM Safety == Spec => []IInv
<1> QED BY InitIInv, NextIInv, PTL DEF Spec

\* Every variable of the queue keeps its type; num_used, which the code
\* decrements without a check, stays between 0 and SIZE.
THEOREM TypeCorrect == Spec => []TypeOK
BY Safety, PTL DEF IInv

\* The free list and the outstanding chains always partition the descriptor
\* table, and each chain is what its caller submitted (add, pop_used and
\* recycle_descriptors).
THEOREM Bookkeeping == Spec => []DriverInv
BY Safety, PTL DEF IInv

\* recycle_descriptors never reaches its unwrap, assert_eq or panic.
THEOREM NoPanic == Spec => []RecycleNeverPanics
<1>1. IInv => RecycleNeverPanics
  <2> SUFFICES ASSUME IInv, NEW t \in Desc, req[t] # <<>>
               PROVE  IF "INDIRECT" \in desc_shadow[t].flags
                        THEN indirect_lists[t] # NoList /\ Len(indirect_lists[t]) = Len(req[t])
                        ELSE \E c \in [1 .. Len(req[t]) -> Desc] : ChainWalk(c, t, Len(req[t]))
    BY DEF RecycleNeverPanics, Outstanding
  <2>1. req[t] \in Requests /\ req[t] \in Seq(Segment) BY ValueAssumption DEF IInv, TypeOK
  <2>2. CASE "INDIRECT" \in desc_shadow[t].flags
    <3>1. indirect_lists[t] = IndirectList(req[t])
      BY <2>2 DEF IInv, DriverInv, ChainsOK, ChainOK, IndirectChainOK
    <3>2. Len(IndirectList(req[t])) = Len(req[t]) BY <2>1, IndirectLength
    <3>3. IndirectList(req[t]) # NoList BY <2>1, ValueAssumption
    <3>4. indirect_lists[t] # NoList /\ Len(indirect_lists[t]) = Len(req[t]) BY ONLY <3>1, <3>2, <3>3
    <3> QED BY <2>2, <3>4, Zenon
  <2>3. CASE "INDIRECT" \notin desc_shadow[t].flags
    <3>1. DirectChainOK(t) /\ chain[t][1] = t /\ chain[t] \in Seq(Desc)
      BY <2>3 DEF IInv, TypeOK, DriverInv, ChainsOK, ChainOK
    <3>2. chain[t] \in [1 .. Len(req[t]) -> Desc] /\ Len(chain[t]) = Len(req[t])
      BY <3>1, DirectLength
    <3>3. ChainWalk(chain[t], t, Len(req[t])) BY <3>1, <3>2 DEF DirectChainOK, ChainWalk
    <3> QED BY <2>3, <3>2, <3>3
  <2> QED BY <2>2, <2>3
<1> QED BY <1>1, Safety, PTL

\* Behind the head of every outstanding request the device finds exactly the
\* buffers and directions the caller passed to add.
THEOREM DeviceView == Spec => []DeviceSeesRequest
<1>1. IInv => DeviceSeesRequest
  <2> SUFFICES ASSUME IInv, NEW t \in Desc, req[t] # <<>> PROVE DeviceSees(t, req[t])
    BY DEF DeviceSeesRequest, Outstanding
  <2>1. req[t] \in Requests /\ req[t] \in Seq(Segment) BY ValueAssumption DEF IInv, TypeOK
  <2>2. chain[t] \in Seq(Desc) /\ chain[t] # <<>> /\ chain[t][1] = t
    BY DEF IInv, TypeOK, DriverInv, ChainsOK, ChainOK
  <2>3. \A i \in DOMAIN chain[t] : desc[chain[t][i]] = desc_shadow[chain[t][i]]
    BY DEF IInv, DriverInv, DeviceCopyOK
  <2>4. 1 \in DOMAIN chain[t] BY <2>2
  <2>5. desc[t] = desc_shadow[t] BY <2>2, <2>3, <2>4
  <2>6. CASE "INDIRECT" \in desc_shadow[t].flags
    <3>1. indirect_lists[t] = IndirectList(req[t])
      BY <2>6 DEF IInv, DriverInv, ChainsOK, ChainOK, IndirectChainOK
    <3>2. Len(IndirectList(req[t])) = Len(req[t]) BY <2>1, IndirectLength
    <3>3. IndirectList(req[t]) # NoList BY <2>1, ValueAssumption
    <3>4. ASSUME NEW i \in DOMAIN req[t] PROVE View(IndirectList(req[t])[i]) = req[t][i]
      <4>1. i \in 1 .. Len(req[t]) /\ req[t][i] \in Segment BY <2>1
      <4>2. /\ IndirectList(req[t])[i].addr = req[t][i].buf
            /\ "WRITE" \in IndirectList(req[t])[i].flags <=> req[t][i].write
        BY <4>1 DEF IndirectList, Segment
      <4>3. req[t][i] = [buf |-> req[t][i].buf, write |-> req[t][i].write] BY <4>1 DEF Segment
      <4>4. ("WRITE" \in IndirectList(req[t])[i].flags) = req[t][i].write BY <4>1, <4>2, SMTT(30) DEF Segment
      <4> QED BY ONLY <4>2, <4>3, <4>4 DEF View
    <3> QED BY <2>5, <2>6, <3>1, <3>2, <3>3, <3>4 DEF DeviceSees
  <2>7. CASE "INDIRECT" \notin desc_shadow[t].flags
    <3>1. DirectChainOK(t) BY <2>7 DEF IInv, DriverInv, ChainsOK, ChainOK
    <3>2. /\ chain[t] \in [1 .. Len(req[t]) -> Desc] /\ Len(chain[t]) = Len(req[t])
          /\ \A i \in DOMAIN chain[t] : i > 1 => i - 1 \in DOMAIN chain[t]
      <4>1. chain[t] \in [1 .. Len(req[t]) -> Desc] /\ Len(chain[t]) = Len(req[t])
        BY <2>2, <3>1, DirectLength
      <4>2. \A i \in DOMAIN chain[t] : i > 1 => i - 1 \in DOMAIN chain[t] BY ONLY <2>2
      <4> QED BY <4>1, <4>2
    <3>3. \A i \in DOMAIN chain[t] :
            /\ View(desc[chain[t][i]]) = req[t][i]
            /\ "NEXT" \in desc[chain[t][i]].flags <=> i < Len(req[t])
            /\ i > 1 => chain[t][i] = desc[chain[t][i - 1]].next
      BY <2>3, <3>1, <3>2 DEF DirectChainOK
    <3> QED BY <2>2, <2>5, <2>7, <3>2, <3>3 DEF DeviceSees
  <2> QED BY <2>6, <2>7
<1> QED BY <1>1, Safety, PTL

\* add and pop_used never change a descriptor or an indirect list of a
\* request that stays outstanding.
THEOREM Lent == Spec => LentUntouched
BY Safety, NextIInv, PTL DEF Spec, LentUntouched
=============================================================================
