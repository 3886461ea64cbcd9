-------------------------- MODULE DriverQueueProofs --------------------------
(***************************************************************************)
(* What the drivers' view of the queue keeps when every request takes one  *)
(* descriptor, for every queue size: descriptors are free or in the queue, *)
(* never both, and a token is never twice in the rings.                    *)
(***************************************************************************)
EXTENDS DriverQueue, SequenceTheorems, FiniteSetTheorems, TLAPS

Descs(n) == 0 .. (n - 1)

NoRepeat(s) == \A i, j \in 1 .. Len(s) : s[i] = s[j] => i = j

InSeq(d, s) == \E i \in 1 .. Len(s) : s[i] = d

\* The record's shape, with one descriptor for every request.
OneDescShape(q, n) ==
  /\ q \in [size : {n}, free : Seq(Descs(n)), chain : {[t \in InQueue(q) |-> <<t>>]},
            avail : Seq(Descs(n)), used : Seq(Descs(n))]
  /\ InQueue(q) \in SUBSET Descs(n)

\* The free list holds exactly the descriptors that are not in the queue.
FreeExact(q, n) ==
  /\ NoRepeat(q.free)
  /\ \A d \in Descs(n) : d \in InQueue(q) <=> ~InSeq(d, q.free)

\* The rings hold tokens of the queue, each once.
RingsApart(q) ==
  /\ NoRepeat(q.avail) /\ NoRepeat(q.used)
  /\ \A i \in 1 .. Len(q.avail) : q.avail[i] \in InQueue(q)
  /\ \A i \in 1 .. Len(q.used) : q.used[i] \in InQueue(q)
  /\ \A i \in 1 .. Len(q.avail) : \A j \in 1 .. Len(q.used) : q.avail[i] # q.used[j]

OneDesc(q, n) == OneDescShape(q, n) /\ FreeExact(q, n) /\ RingsApart(q)

-----------------------------------------------------------------------------
(* Sequences without repetition. *)

\* What Tail and Head of a sequence that is not empty are (the used ring when pop_used
\* takes from it, the free list when add does).
LEMMA TailFacts ==
  ASSUME NEW S, NEW s \in Seq(S), s # <<>>
  PROVE  /\ Tail(s) \in Seq(S) /\ Len(s) \in Nat /\ Len(s) >= 1 /\ Len(Tail(s)) = Len(s) - 1
         /\ Head(s) = s[1] /\ s[1] \in S
         /\ \A i \in 1 .. Len(s) - 1 : Tail(s)[i] = s[i + 1]
OBVIOUS

\* What Append returns (the rings when an entry is added).
LEMMA AppendFacts ==
  ASSUME NEW S, NEW s \in Seq(S), NEW x \in S
  PROVE  /\ Append(s, x) \in Seq(S) /\ Len(s) \in Nat /\ Len(Append(s, x)) = Len(s) + 1
         /\ \A i \in 1 .. Len(s) : Append(s, x)[i] = s[i]
         /\ Append(s, x)[Len(s) + 1] = x
OBVIOUS

\* Taking the head of a list without repetition (the free list, the used ring) removes
\* that element and leaves the others, each once.
LEMMA TailNoRepeat ==
  ASSUME NEW S, NEW s \in Seq(S), s # <<>>, NoRepeat(s)
  PROVE  /\ NoRepeat(Tail(s))
         /\ \A d : InSeq(d, Tail(s)) <=> InSeq(d, s) /\ d # Head(s)
<1>. DEFINE r == Tail(s)
            n == Len(s)
<1>1. /\ n \in Nat /\ n >= 1 /\ Len(r) = n - 1 /\ Head(s) = s[1]
      /\ \A i \in 1 .. n - 1 : r[i] = s[i + 1]
  BY TailFacts
<1>2. \A i, j \in 1 .. n : s[i] = s[j] => i = j
  BY DEF NoRepeat
<1>. HIDE DEF r, n
<1>3. \A i, j \in 1 .. Len(r) : r[i] = r[j] => i = j
  BY <1>1, <1>2
<1>4. ASSUME NEW d, NEW i \in 1 .. Len(r), r[i] = d
      PROVE  i + 1 \in 1 .. n /\ s[i + 1] = d /\ d # s[1]
  BY <1>1, <1>2, <1>4
<1>5. ASSUME NEW d, NEW i \in 1 .. n, s[i] = d, d # s[1]
      PROVE  i - 1 \in 1 .. Len(r) /\ r[i - 1] = d
  <2>1. i # 1
    BY <1>5
  <2>2. i - 1 \in 1 .. n - 1 /\ (i - 1) + 1 = i
    BY <1>1, <2>1
  <2>. QED
    BY <1>1, <1>5, <2>2
<1>6. ASSUME NEW d PROVE (\E i \in 1 .. Len(r) : r[i] = d) <=> (\E i \in 1 .. n : s[i] = d) /\ d # s[1]
  <2>1. ASSUME NEW i \in 1 .. Len(r), r[i] = d
        PROVE  (\E j \in 1 .. n : s[j] = d) /\ d # s[1]
    BY <1>4, <2>1
  <2>2. ASSUME NEW i \in 1 .. n, s[i] = d, d # s[1]
        PROVE  \E j \in 1 .. Len(r) : r[j] = d
    BY <1>5, <2>2
  <2>. QED
    BY <2>1, <2>2
<1>. QED
  BY <1>1, <1>3, <1>6, Zenon DEF NoRepeat, InSeq, r, n

\* Adding to a ring an entry it does not hold leaves every entry in it once.
LEMMA AppendNoRepeat ==
  ASSUME NEW S, NEW s \in Seq(S), NEW x \in S, NoRepeat(s), ~InSeq(x, s)
  PROVE  NoRepeat(Append(s, x))
<1>. DEFINE r == Append(s, x)
            n == Len(s)
<1>1. /\ n \in Nat /\ Len(r) = n + 1 /\ r[n + 1] = x
      /\ \A i \in 1 .. n : r[i] = s[i]
  BY AppendFacts
<1>2. (\A i, j \in 1 .. n : s[i] = s[j] => i = j) /\ (\A i \in 1 .. n : s[i] # x)
  BY DEF NoRepeat, InSeq
<1>. HIDE DEF r, n
<1>3. \A i \in 1 .. Len(r) : i \in 1 .. n \/ i = n + 1
  BY <1>1
<1>4. \A i, j \in 1 .. Len(r) : r[i] = r[j] => i = j
  BY <1>1, <1>2, <1>3
<1>. QED
  BY <1>4 DEF NoRepeat, r

\* The other direction of TailNoRepeat: an element put before the sequence.
LEMMA ConsNoRepeat ==
  ASSUME NEW S, NEW s \in Seq(S), NEW x \in S, NoRepeat(s), ~InSeq(x, s)
  PROVE  /\ <<x>> \o s \in Seq(S) /\ NoRepeat(<<x>> \o s)
         /\ \A d : InSeq(d, <<x>> \o s) <=> InSeq(d, s) \/ d = x
<1>. DEFINE r == <<x>> \o s
            n == Len(s)
<1>1. /\ n \in Nat /\ Len(r) = n + 1 /\ r[1] = x /\ r \in Seq(S)
      /\ \A i \in 1 .. n : r[i + 1] = s[i]
  OBVIOUS
<1>2. (\A i, j \in 1 .. n : s[i] = s[j] => i = j) /\ (\A i \in 1 .. n : s[i] # x)
  BY DEF NoRepeat, InSeq
<1>. HIDE DEF r, n
<1>3. \A i \in 1 .. Len(r) : i = 1 \/ (i - 1 \in 1 .. n /\ r[i] = s[i - 1])
  <2>. SUFFICES ASSUME NEW i \in 1 .. Len(r), i # 1
                PROVE  i - 1 \in 1 .. n /\ r[i] = s[i - 1]
    OBVIOUS
  <2>1. i - 1 \in 1 .. n /\ (i - 1) + 1 = i
    BY <1>1
  <2>. QED
    BY <1>1, <2>1
<1>4. \A i, j \in 1 .. Len(r) : r[i] = r[j] => i = j
  <2>. SUFFICES ASSUME NEW i \in 1 .. Len(r), NEW j \in 1 .. Len(r), r[i] = r[j] PROVE i = j
    OBVIOUS
  <2>1. CASE i = 1 /\ j = 1
    BY <2>1
  <2>2. CASE i = 1 /\ j # 1
    BY <1>1, <1>2, <1>3, <2>2
  <2>3. CASE i # 1 /\ j = 1
    BY <1>1, <1>2, <1>3, <2>3
  <2>4. CASE i # 1 /\ j # 1
    <3>1. i - 1 = j - 1
      BY <1>2, <1>3, <2>4
    <3>. QED
      BY <1>1, <3>1
  <2>. QED
    BY <2>1, <2>2, <2>3, <2>4
<1>5. ASSUME NEW d PROVE (\E i \in 1 .. Len(r) : r[i] = d) <=> (\E i \in 1 .. n : s[i] = d) \/ d = x
  <2>1. ASSUME NEW i \in 1 .. Len(r), r[i] = d
        PROVE  (\E j \in 1 .. n : s[j] = d) \/ d = x
    BY <1>1, <1>3, <2>1
  <2>2. ASSUME NEW i \in 1 .. n, s[i] = d
        PROVE  \E j \in 1 .. Len(r) : r[j] = d
    <3>1. i + 1 \in 1 .. Len(r)
      BY <1>1
    <3>. QED
      BY <1>1, <2>2, <3>1
  <2>3. ASSUME d = x PROVE \E j \in 1 .. Len(r) : r[j] = d
    <3>1. 1 \in 1 .. Len(r)
      BY <1>1
    <3>. QED
      BY <1>1, <2>3, <3>1
  <2>. QED
    BY <2>1, <2>2, <2>3
<1>. QED
  BY <1>1, <1>4, <1>5, Zenon DEF NoRepeat, InSeq, r, n
-----------------------------------------------------------------------------
(* The operations. *)

\* The types of the fields of a queue of one-descriptor requests.
LEMMA ShapeFacts ==
  ASSUME NEW n, NEW q, OneDescShape(q, n)
  PROVE  /\ q.size = n /\ q.free \in Seq(Descs(n)) /\ q.avail \in Seq(Descs(n))
         /\ q.used \in Seq(Descs(n)) /\ q.chain = [t \in InQueue(q) |-> <<t>>]
         /\ InQueue(q) \in SUBSET Descs(n)
BY DEF OneDescShape

\* A queue just created (VirtQueue::new) has no request and all descriptors free.
LEMMA NewQueueOneDesc ==
  ASSUME NEW n \in Nat
  PROVE  OneDesc(NewQueue(n), n) /\ InQueue(NewQueue(n)) = {}
<1>. DEFINE f == [i \in 1 .. n |-> i - 1]
            q == NewQueue(n)
<1>1. f \in Seq(Descs(n)) /\ Len(f) = n /\ <<>> \in Seq(Descs(n)) /\ \A i \in 1 .. n : f[i] = i - 1
  BY DEF Descs
<1>2. q.free = f /\ q.chain = <<>> /\ q.avail = <<>> /\ q.used = <<>> /\ q.size = n
  BY DEF NewQueue
<1>3. InQueue(q) = {}
  BY <1>2 DEF InQueue
<1>4. [t \in {} |-> <<t>>] = <<>>
  OBVIOUS
<1>5. q \in [size : {n}, free : Seq(Descs(n)), chain : {<<>>},
             avail : Seq(Descs(n)), used : Seq(Descs(n))]
  BY <1>1 DEF NewQueue
<1>6. OneDescShape(q, n)
  BY <1>3, <1>4, <1>5 DEF OneDescShape
<1>7. FreeExact(q, n)
  <2>. HIDE DEF f, q
  <2>1. NoRepeat(f)
    BY <1>1 DEF NoRepeat
  <2>2. ASSUME NEW d \in Descs(n) PROVE d + 1 \in 1 .. n /\ f[d + 1] = d
    BY <1>1 DEF Descs
  <2>3. \A d \in Descs(n) : InSeq(d, f)
    BY <1>1, <2>2 DEF InSeq
  <2>. QED
    BY <1>2, <1>3, <2>1, <2>3 DEF FreeExact
<1>8. RingsApart(q)
  BY <1>2 DEF RingsApart, NoRepeat
<1>. QED
  BY <1>3, <1>6, <1>7, <1>8 DEF OneDesc

\* The device uses the oldest request.
LEMMA UseNextOneDesc ==
  ASSUME NEW n, NEW q, OneDesc(q, n), q.avail # <<>>
  PROVE  /\ OneDesc(UseNext(q), n) /\ InQueue(UseNext(q)) = InQueue(q)
         /\ UseNext(q).used = Append(q.used, Head(q.avail))
         /\ Head(q.avail) \in InQueue(q) /\ ~InSeq(Head(q.avail), q.used)
<1>. DEFINE h == Head(q.avail)
            p == UseNext(q)
<1>1. /\ q.size = n /\ q.free \in Seq(Descs(n)) /\ q.avail \in Seq(Descs(n))
      /\ q.used \in Seq(Descs(n)) /\ q.chain = [t \in InQueue(q) |-> <<t>>]
      /\ InQueue(q) \in SUBSET Descs(n)
  BY ShapeFacts DEF OneDesc
<1>2. /\ Tail(q.avail) \in Seq(Descs(n)) /\ Len(q.avail) \in Nat /\ Len(q.avail) >= 1
      /\ Len(Tail(q.avail)) = Len(q.avail) - 1 /\ h = q.avail[1] /\ h \in Descs(n)
      /\ \A i \in 1 .. Len(q.avail) - 1 : Tail(q.avail)[i] = q.avail[i + 1]
  BY <1>1, TailFacts
<1>3. /\ Append(q.used, h) \in Seq(Descs(n)) /\ Len(q.used) \in Nat
      /\ Len(Append(q.used, h)) = Len(q.used) + 1 /\ Append(q.used, h)[Len(q.used) + 1] = h
      /\ \A i \in 1 .. Len(q.used) : Append(q.used, h)[i] = q.used[i]
  BY <1>1, <1>2, AppendFacts
<1>4. p = [q EXCEPT !.avail = Tail(q.avail), !.used = Append(q.used, h)]
  BY DEF UseNext
<1>. HIDE DEF h, p
<1>5. /\ p \in [size : {n}, free : Seq(Descs(n)), chain : {q.chain},
                avail : Seq(Descs(n)), used : Seq(Descs(n))]
      /\ p.free = q.free /\ p.chain = q.chain /\ p.avail = Tail(q.avail) /\ p.used = Append(q.used, h)
  BY <1>2, <1>3, <1>4 DEF OneDesc, OneDescShape
<1>6. InQueue(p) = InQueue(q)
  BY <1>5 DEF InQueue
<1>7. OneDescShape(p, n)
  BY <1>1, <1>5, <1>6 DEF OneDescShape
<1>8. FreeExact(p, n)
  BY <1>5, <1>6 DEF FreeExact, OneDesc
<1>9. /\ NoRepeat(q.avail) /\ NoRepeat(q.used)
      /\ \A i \in 1 .. Len(q.avail) : q.avail[i] \in InQueue(q)
      /\ \A i \in 1 .. Len(q.used) : q.used[i] \in InQueue(q)
      /\ \A i \in 1 .. Len(q.avail) : \A j \in 1 .. Len(q.used) : q.avail[i] # q.used[j]
  BY DEF OneDesc, RingsApart
<1>10. h \in InQueue(q) /\ ~InSeq(h, q.used)
  <2>1. 1 \in 1 .. Len(q.avail)
    BY <1>2
  <2>. QED
    BY <1>2, <1>9, <2>1 DEF InSeq
<1>11. NoRepeat(Tail(q.avail)) /\ NoRepeat(Append(q.used, h)) /\ \A i \in 1 .. Len(q.avail) - 1 : Tail(q.avail)[i] # h
  <2>1. NoRepeat(Append(q.used, h))
    BY <1>1, <1>2, <1>9, <1>10, AppendNoRepeat
  <2>2. NoRepeat(Tail(q.avail)) /\ ~InSeq(h, Tail(q.avail))
    BY <1>1, <1>9, TailNoRepeat DEF h
  <2>. QED
    BY <1>2, <2>1, <2>2 DEF InSeq
<1>12. RingsApart(p)
  <2>. DEFINE a == Tail(q.avail)
              u == Append(q.used, h)
  <2>1. \A i \in 1 .. Len(a) : a[i] \in InQueue(q)
    BY <1>2, <1>9
  <2>2. \A i \in 1 .. Len(u) : i \in 1 .. Len(q.used) \/ i = Len(q.used) + 1
    BY <1>3
  <2>3. \A i \in 1 .. Len(u) : u[i] \in InQueue(q)
    BY <1>3, <1>9, <1>10, <2>2
  <2>4. \A i \in 1 .. Len(a) : \A j \in 1 .. Len(u) : a[i] # u[j]
    <3>. SUFFICES ASSUME NEW i \in 1 .. Len(a), NEW j \in 1 .. Len(u) PROVE a[i] # u[j]
      OBVIOUS
    <3>1. i + 1 \in 1 .. Len(q.avail) /\ a[i] = q.avail[i + 1] /\ a[i] # h
      BY <1>2, <1>11
    <3>2. CASE j \in 1 .. Len(q.used)
      BY <1>3, <1>9, <3>1, <3>2
    <3>3. CASE j = Len(q.used) + 1
      BY <1>3, <3>1, <3>3
    <3>. QED
      BY <2>2, <3>2, <3>3
  <2>. QED
    BY <1>5, <1>6, <1>11, <2>1, <2>3, <2>4 DEF RingsApart
<1>. QED
  BY <1>5, <1>6, <1>7, <1>8, <1>10, <1>12 DEF OneDesc, h, p
\* A request of one buffer can be added unless every descriptor is in the queue.
LEMMA CanAddIff ==
  ASSUME NEW n \in Nat \ {0}, NEW q, OneDesc(q, n), NEW ind \in BOOLEAN
  PROVE  /\ CanAddTo(q, 1, ind) <=> q.free # <<>>
         /\ CanAddTo(q, 1, ind) <=> InQueue(q) # Descs(n)
<1>1. /\ q.size = n /\ q.free \in Seq(Descs(n)) /\ InQueue(q) \in SUBSET Descs(n)
      /\ \A d \in Descs(n) : d \in InQueue(q) <=> ~InSeq(d, q.free)
  BY ShapeFacts DEF OneDesc, FreeExact
<1>2. Needs(1, ind) = 1
  BY DEF Needs
<1>3. CanAddTo(q, 1, ind) <=> 1 <= Len(q.free)
  BY <1>1, <1>2 DEF CanAddTo
<1>4. Len(q.free) \in Nat /\ (q.free = <<>> <=> Len(q.free) = 0)
  BY <1>1
<1>5. ASSUME 1 <= Len(q.free) PROVE q.free[1] \in Descs(n) /\ InSeq(q.free[1], q.free)
  BY <1>1, <1>4, <1>5 DEF InSeq
<1>6. ASSUME Len(q.free) = 0 PROVE \A d : ~InSeq(d, q.free)
  BY <1>6 DEF InSeq
<1>7. 1 <= Len(q.free) <=> InQueue(q) # Descs(n)
  <2>1. ASSUME 1 <= Len(q.free) PROVE InQueue(q) # Descs(n)
    BY <1>1, <1>5, <2>1, Zenon
  <2>2. ASSUME Len(q.free) = 0 PROVE InQueue(q) = Descs(n)
    BY <1>1, <1>6, <2>2, Zenon
  <2>3. 1 <= Len(q.free) \/ Len(q.free) = 0
    BY <1>4
  <2>4. ~(1 <= Len(q.free) /\ Len(q.free) = 0)
    OBVIOUS
  <2>. QED
    BY <2>1, <2>2, <2>3, <2>4
<1>. QED
  BY <1>3, <1>4, <1>7

\* add takes the first free descriptor as the token.
LEMMA AddOneDesc ==
  ASSUME NEW n \in Nat \ {0}, NEW q, OneDesc(q, n), NEW ind \in BOOLEAN, CanAddTo(q, 1, ind)
  PROVE  LET t == NextToken(q)
             p == AddTo(q, 1, ind)
         IN  /\ t \in Descs(n) /\ t \notin InQueue(q)
             /\ OneDesc(p, n) /\ InQueue(p) = InQueue(q) \cup {t} /\ p.used = q.used
<1>. DEFINE t == NextToken(q)
            p == AddTo(q, 1, ind)
            one == SubSeq(q.free, 1, 1)
            rest == SubSeq(q.free, 2, Len(q.free))
            c == [x \in InQueue(q) \cup {t} |-> <<x>>]
<1>1. /\ q.size = n /\ q.free \in Seq(Descs(n)) /\ q.avail \in Seq(Descs(n))
      /\ q.used \in Seq(Descs(n)) /\ q.chain = [x \in InQueue(q) |-> <<x>>]
      /\ InQueue(q) \in SUBSET Descs(n) /\ q.free # <<>>
  BY ShapeFacts, CanAddIff DEF OneDesc
<1>2. /\ t = q.free[1] /\ t \in Descs(n) /\ Len(q.free) \in Nat /\ Len(q.free) >= 1
      /\ Tail(q.free) \in Seq(Descs(n)) /\ rest = Tail(q.free)
  <2>1. rest = Tail(q.free)
    BY <1>1
  <2>. QED
    BY <1>1, <2>1, TailFacts DEF NextToken
<1>3. t \notin InQueue(q)
  <2>1. InSeq(t, q.free)
    BY <1>2 DEF InSeq
  <2>. QED
    BY <1>2, <2>1 DEF OneDesc, FreeExact
<1>4. one = <<t>>
  <2>. DEFINE f == <<t>>
  <2>1. f \in Seq(Descs(n)) /\ Len(f) = 1 /\ f[1] = t
    BY <1>2
  <2>2. one \in Seq(Descs(n)) /\ Len(one) = 1 /\ one[1] = t
    BY <1>1, <1>2, SubSeqProperties
  <2>. HIDE DEF one, f
  <2>3. \A i \in 1 .. Len(one) : one[i] = f[i]
    BY <2>1, <2>2
  <2>4. one = f
    BY <2>1, <2>2, <2>3, SeqEqual
  <2>. QED
    BY <2>4 DEF f
<1>5. p = [q EXCEPT !.free = Tail(q.free), !.chain = c, !.avail = Append(q.avail, t)]
  <2>1. Needs(1, ind) = 1 /\ 1 + 1 = 2
    BY DEF Needs
  <2>2. [x \in InQueue(q) \cup {t} |-> IF x = t THEN one ELSE q.chain[x]] = c
    BY <1>1, <1>4
  <2>3. p = [q EXCEPT !.free = rest, !.avail = Append(q.avail, t),
                      !.chain = [x \in InQueue(q) \cup {t} |-> IF x = t THEN one ELSE q.chain[x]]]
    BY <2>1 DEF AddTo
  <2>. HIDE DEF t, p, one, rest, c
  <2>. QED
    BY <1>2, <2>2, <2>3
<1>. HIDE DEF t, p, one, rest, c
<1>6. /\ Append(q.avail, t) \in Seq(Descs(n)) /\ Len(q.avail) \in Nat
      /\ Len(Append(q.avail, t)) = Len(q.avail) + 1 /\ Append(q.avail, t)[Len(q.avail) + 1] = t
      /\ \A i \in 1 .. Len(q.avail) : Append(q.avail, t)[i] = q.avail[i]
  BY <1>1, <1>2, AppendFacts
<1>7. /\ p \in [size : {n}, free : Seq(Descs(n)), chain : {c},
                avail : Seq(Descs(n)), used : Seq(Descs(n))]
      /\ p.free = Tail(q.free) /\ p.chain = c /\ p.avail = Append(q.avail, t) /\ p.used = q.used
  BY <1>2, <1>5, <1>6 DEF OneDesc, OneDescShape
<1>8. InQueue(p) = InQueue(q) \cup {t}
  BY <1>7 DEF InQueue, c
<1>9. OneDescShape(p, n)
  BY <1>1, <1>2, <1>7, <1>8 DEF OneDescShape, c
<1>10. FreeExact(p, n)
  <2>1. NoRepeat(q.free) /\ \A d \in Descs(n) : d \in InQueue(q) <=> ~InSeq(d, q.free)
    BY DEF OneDesc, FreeExact
  <2>2. NoRepeat(Tail(q.free)) /\ \A d : InSeq(d, Tail(q.free)) <=> InSeq(d, q.free) /\ d # t
    BY <1>1, <2>1, TailNoRepeat DEF t, NextToken
  <2>3. \A d \in Descs(n) : d \in InQueue(p) <=> ~InSeq(d, Tail(q.free))
    BY <1>8, <2>1, <2>2, Zenon
  <2>. QED
    BY <1>7, <2>2, <2>3 DEF FreeExact
<1>11. RingsApart(p)
  <2>1. /\ NoRepeat(q.avail) /\ NoRepeat(q.used)
        /\ \A i \in 1 .. Len(q.avail) : q.avail[i] \in InQueue(q)
        /\ \A i \in 1 .. Len(q.used) : q.used[i] \in InQueue(q)
        /\ \A i \in 1 .. Len(q.avail) : \A j \in 1 .. Len(q.used) : q.avail[i] # q.used[j]
    BY DEF OneDesc, RingsApart
  <2>2. ~InSeq(t, q.avail) /\ \A i \in 1 .. Len(q.used) : q.used[i] # t
    BY <1>3, <2>1 DEF InSeq
  <2>3. NoRepeat(Append(q.avail, t))
    BY <1>1, <1>2, <2>1, <2>2, AppendNoRepeat
  <2>. DEFINE a == Append(q.avail, t)
  <2>4. \A i \in 1 .. Len(a) : i \in 1 .. Len(q.avail) \/ i = Len(q.avail) + 1
    BY <1>6
  <2>5. \A i \in 1 .. Len(a) : a[i] \in InQueue(p)
    BY <1>6, <1>8, <2>1, <2>4
  <2>6. \A i \in 1 .. Len(a) : \A j \in 1 .. Len(q.used) : a[i] # q.used[j]
    BY <1>6, <2>1, <2>2, <2>4
  <2>. QED
    BY <1>7, <1>8, <2>1, <2>3, <2>5, <2>6 DEF RingsApart
<1>. QED
  BY <1>2, <1>3, <1>7, <1>8, <1>9, <1>10, <1>11 DEF OneDesc, t, p

\* pop_used gives the descriptor of the oldest used request back.
LEMMA PopOneDesc ==
  ASSUME NEW n, NEW q, OneDesc(q, n), CanPopFrom(q)
  PROVE  LET t == PeekUsed(q)
             p == PopFrom(q, t)
         IN  /\ t \in InQueue(q) /\ OneDesc(p, n) /\ InQueue(p) = InQueue(q) \ {t}
             /\ p.used = Tail(q.used)
             /\ \A d : InSeq(d, p.used) <=> InSeq(d, q.used) /\ d # t
<1>. DEFINE t == PeekUsed(q)
            p == PopFrom(q, t)
            c == [x \in InQueue(q) \ {t} |-> <<x>>]
<1>1. /\ q.size = n /\ q.free \in Seq(Descs(n)) /\ q.avail \in Seq(Descs(n))
      /\ q.used \in Seq(Descs(n)) /\ q.chain = [x \in InQueue(q) |-> <<x>>]
      /\ InQueue(q) \in SUBSET Descs(n) /\ q.used # <<>>
  BY ShapeFacts DEF OneDesc, CanPopFrom
<1>2. /\ NoRepeat(q.avail) /\ NoRepeat(q.used)
      /\ \A i \in 1 .. Len(q.avail) : q.avail[i] \in InQueue(q)
      /\ \A i \in 1 .. Len(q.used) : q.used[i] \in InQueue(q)
      /\ \A i \in 1 .. Len(q.avail) : \A j \in 1 .. Len(q.used) : q.avail[i] # q.used[j]
  BY DEF OneDesc, RingsApart
<1>3. /\ Tail(q.used) \in Seq(Descs(n)) /\ Len(q.used) \in Nat /\ Len(q.used) >= 1
      /\ Len(Tail(q.used)) = Len(q.used) - 1 /\ t = q.used[1] /\ t \in Descs(n)
      /\ \A i \in 1 .. Len(q.used) - 1 : Tail(q.used)[i] = q.used[i + 1]
  BY <1>1, TailFacts DEF PeekUsed
<1>4. 1 \in 1 .. Len(q.used) /\ t \in InQueue(q)
  BY <1>2, <1>3
<1>5. NoRepeat(Tail(q.used)) /\ \A d : InSeq(d, Tail(q.used)) <=> InSeq(d, q.used) /\ d # t
  BY <1>1, <1>2, TailNoRepeat DEF PeekUsed
<1>6. p = [q EXCEPT !.free = <<t>> \o q.free, !.chain = c, !.used = Tail(q.used)]
  <2>1. q.chain[t] = <<t>>
    BY <1>1, <1>4
  <2>2. Restrict(q.chain, InQueue(q) \ {t}) = c
    BY <1>1 DEF Restrict
  <2>. QED
    BY <2>1, <2>2 DEF PopFrom
<1>. HIDE DEF t, p, c
<1>7. /\ NoRepeat(q.free) /\ ~InSeq(t, q.free)
      /\ \A d \in Descs(n) : d \in InQueue(q) <=> ~InSeq(d, q.free)
  BY <1>3, <1>4 DEF OneDesc, FreeExact
<1>8. /\ <<t>> \o q.free \in Seq(Descs(n)) /\ NoRepeat(<<t>> \o q.free)
      /\ \A d : InSeq(d, <<t>> \o q.free) <=> InSeq(d, q.free) \/ d = t
  BY <1>1, <1>3, <1>7, ConsNoRepeat
<1>9. /\ p \in [size : {n}, free : Seq(Descs(n)), chain : {c},
                avail : Seq(Descs(n)), used : Seq(Descs(n))]
      /\ p.free = <<t>> \o q.free /\ p.chain = c /\ p.avail = q.avail /\ p.used = Tail(q.used)
  <2>. DEFINE f == <<t>> \o q.free
  <2>1. f \in Seq(Descs(n)) /\ p = [q EXCEPT !.free = f, !.chain = c, !.used = Tail(q.used)]
    BY <1>6, <1>8
  <2>. HIDE DEF f
  <2>2. /\ p \in [size : {n}, free : Seq(Descs(n)), chain : {c},
                  avail : Seq(Descs(n)), used : Seq(Descs(n))]
        /\ p.free = f /\ p.chain = c /\ p.avail = q.avail /\ p.used = Tail(q.used)
    BY <1>3, <2>1 DEF OneDesc, OneDescShape
  <2>. QED
    BY <2>2 DEF f
<1>10. InQueue(p) = InQueue(q) \ {t}
  BY <1>9 DEF InQueue, c
<1>11. OneDescShape(p, n)
  BY <1>1, <1>9, <1>10 DEF OneDescShape, c
<1>12. FreeExact(p, n)
  <2>1. \A d \in Descs(n) : d \in InQueue(p) <=> ~InSeq(d, <<t>> \o q.free)
    BY <1>7, <1>8, <1>10, Zenon
  <2>. QED
    BY <1>8, <1>9, <2>1 DEF FreeExact
<1>13. RingsApart(p)
  <2>. DEFINE u == Tail(q.used)
  <2>1. \A i \in 1 .. Len(q.avail) : q.avail[i] \in InQueue(p)
    BY <1>2, <1>3, <1>4, <1>10
  <2>2. \A i \in 1 .. Len(u) : InSeq(u[i], u)
    BY DEF InSeq
  <2>3. \A i \in 1 .. Len(u) : i + 1 \in 1 .. Len(q.used) /\ u[i] = q.used[i + 1] /\ u[i] # t
    BY <1>3, <1>5, <2>2
  <2>4. \A i \in 1 .. Len(u) : u[i] \in InQueue(p)
    BY <1>2, <1>10, <2>3
  <2>5. \A i \in 1 .. Len(q.avail) : \A j \in 1 .. Len(u) : q.avail[i] # u[j]
    BY <1>2, <2>3
  <2>. QED
    BY <1>2, <1>5, <1>9, <2>1, <2>4, <2>5 DEF RingsApart
<1>. QED
  BY <1>4, <1>5, <1>9, <1>10, <1>11, <1>12, <1>13 DEF OneDesc, t, p
=============================================================================
