------------------------- MODULE OwningQueueProofs -------------------------
(***************************************************************************)
(* TokenIsIndex and NoBufferLost for every SIZE, index width and device:   *)
(* the assertion of add_buffer_to_queue never fails and add never finds    *)
(* the queue full.  The reason is the free list: while `new' runs it is    *)
(* what is left of the initial one, afterwards it holds at most the        *)
(* descriptor of the buffer that poll has taken out.                       *)
(***************************************************************************)
EXTENDS OwningQueue, VirtQueueProofs

\* The free list and the outstanding tokens in each stage of the owner.
StageOK ==
  /\ stage \in {"new", "ready", "handled"} /\ created \in 0 .. SIZE
  /\ stage = "new" =>
       /\ Len(free) = SIZE - created
       /\ \A i \in 1 .. SIZE - created : free[i] = created + i - 1
       /\ \A t \in Desc : req[t] # <<>> <=> t < created
       /\ pc = "filled" => created >= 1
       /\ pc = "idle" => created < SIZE
  /\ stage = "ready" => free = <<>> /\ Outstanding = Desc /\ pc = "idle"
  /\ stage = "handled" => current \in Desc
  /\ stage = "handled" /\ pc = "idle" => free = <<current>> /\ Outstanding = Desc \ {current}
  /\ stage = "handled" /\ pc = "filled" => free = <<>> /\ Outstanding = Desc

\* The inductive invariant: the queue's own, the stage and the tokens.
OwnInv == IInv /\ StageOK /\ TokenIsIndex

\* A buffer is posted by a request of one segment.
LEMMA PostFacts ==
  ASSUME NEW i \in Desc
  PROVE  Post(i) \in Requests /\ Post(i) # <<>> /\ Len(Post(i)) = 1
BY BufferAtAssumption DEF Post

\* An add of one buffer takes the first descriptor of the free list.
LEMMA AddOne ==
  ASSUME IInv, NEW i \in Desc, AddFill(Post(i))
  PROVE  /\ pc = "idle" /\ pc' = "filled"
         /\ free # <<>> /\ free[1] = free_head
         /\ req' = [req EXCEPT ![free[1]] = Post(i)]
         /\ free' = SubSeq(free, 2, Len(free))
<1>1. Len(Post(i)) = 1
  BY PostFacts
<1>2. AddDirect(Post(i))
  BY <1>1 DEF AddFill
<1>3. free' = SubSeq(free, 2, Len(free))
  BY <1>1, <1>2 DEF AddDirect
<1>4. Len(free) >= 1
  BY SizeFacts DEF AddFill, CanAdd, IInv, DriverInv, FreeListOK, TypeOK
<1>5. free # <<>> /\ free[1] = free_head
  BY <1>4 DEF IInv, DriverInv, FreeListOK
<1>. QED
  BY <1>3, <1>5 DEF AddFill

\* A pop of a request of one buffer puts its descriptor before the free list.
LEMMA PopOne ==
  ASSUME IInv, NEW t \in Desc, Len(req[t]) = 1, free = <<>>, PopUsed(t)
  PROVE  /\ free' = <<t>> /\ req' = [req EXCEPT ![t] = <<>>]
         /\ pc = "idle" /\ pc' = "idle"
<1>1. CASE "INDIRECT" \in desc_shadow[t].flags
  BY <1>1 DEF PopUsed, RecycleIndirect
<1>2. CASE "INDIRECT" \notin desc_shadow[t].flags
  <2>1. PICK c \in [1 .. 1 -> Desc] : ChainWalk(c, t, Len(c)) /\ free' = c \o free
    BY <1>2 DEF PopUsed, RecycleDirect
  <2>2. c = <<t>>
    BY <2>1 DEF ChainWalk
  <2>. QED
    BY <2>1, <2>2 DEF PopUsed
<1>. QED
  BY <1>1, <1>2

\* new posts its next buffer: it gets the descriptor of its own index.
LEMMA NewAddKeeps ==
  ASSUME OwnInv, NewAdd
  PROVE  (StageOK /\ TokenIsIndex)'
<1>1. created \in Desc /\ stage = "new" /\ created \in Nat /\ SIZE \in Nat /\ created < SIZE
  BY SizeFacts DEF NewAdd, OwnInv, StageOK, Desc
<1>2. /\ pc = "idle" /\ pc' = "filled" /\ free # <<>>
      /\ req' = [req EXCEPT ![free[1]] = Post(created)]
      /\ free' = SubSeq(free, 2, Len(free))
  BY <1>1, AddOne DEF NewAdd, OwnInv
<1>3. free \in Seq(Desc) /\ req \in [Desc -> Requests \cup {<<>>}]
  BY DEF OwnInv, IInv, TypeOK
<1>4. Len(free) = SIZE - created /\ free[1] = created
  BY <1>1 DEF OwnInv, StageOK
<1>5. created' = created + 1 /\ stage' = stage /\ current' = current
  BY DEF NewAdd
<1>6. Len(free') = SIZE - created' /\ \A i \in 1 .. SIZE - created' : free'[i] = free[i + 1]
  <2>1. 2 \in 1 .. Len(free) + 1 /\ Len(free) \in 1 .. Len(free)
    BY <1>1, <1>4
  <2>2. /\ SubSeq(free, 2, Len(free)) = [i \in 1 .. Len(free) - 1 |-> free[i + 1]]
        /\ Len(SubSeq(free, 2, Len(free))) = Len(free) - 1
    BY <1>1, <1>3, <1>4, <2>1
  <2>. QED
    BY <1>1, <1>2, <1>4, <1>5, <2>2
<1>7. \A i \in 1 .. SIZE - created' : free'[i] = created' + i - 1
  <2>. SUFFICES ASSUME NEW i \in 1 .. SIZE - created' PROVE free'[i] = created' + i - 1
    OBVIOUS
  <2>1. i + 1 \in 1 .. SIZE - created
    BY <1>1, <1>5
  <2>2. free[i + 1] = created + (i + 1) - 1
    BY <1>1, <2>1 DEF OwnInv, StageOK
  <2>. QED
    BY <1>1, <1>5, <1>6, <2>2
<1>8. \A t \in Desc : req'[t] # <<>> <=> t < created'
  <2>. SUFFICES ASSUME NEW t \in Desc PROVE req'[t] # <<>> <=> t < created'
    OBVIOUS
  <2>1. CASE t = created
    BY <1>1, <1>2, <1>3, <1>4, <1>5, <2>1, PostFacts
  <2>2. CASE t # created
    <3>1. req'[t] = req[t]
      BY <1>2, <1>3, <1>4, <2>2
    <3>2. t < created <=> t < created'
      BY <1>1, <1>5, <2>2 DEF Desc
    <3>. QED
      BY <1>1, <3>1, <3>2 DEF OwnInv, StageOK
  <2>. QED
    BY <2>1, <2>2
<1>9. StageOK'
  BY <1>1, <1>2, <1>5, <1>6, <1>7, <1>8 DEF StageOK
<1>10. TokenIsIndex'
  BY <1>1, <1>2, <1>3, <1>4, <1>5 DEF OwnInv, TokenIsIndex, Outstanding, Post
<1>. QED
  BY <1>9, <1>10

\* An add ends: the queue itself does not change.
LEMMA PostedKeeps ==
  ASSUME OwnInv, Posted
  PROVE  (StageOK /\ TokenIsIndex)'
<1>1. pc = "filled" /\ pc' = "idle" /\ UNCHANGED <<req, free, created, current>>
  BY DEF Posted, AddPublish
<1>2. SIZE \in Nat /\ created \in 0 .. SIZE
  BY SizeFacts DEF OwnInv, StageOK
<1>3. Outstanding' = Outstanding
  BY <1>1 DEF Outstanding
<1>4. CASE stage = "new" /\ created < SIZE
  BY <1>1, <1>2, <1>4 DEF Posted, OwnInv, StageOK, TokenIsIndex, Outstanding, Post
<1>5. CASE stage = "new" /\ created = SIZE
  <2>1. stage' = "ready"
    BY <1>2, <1>5 DEF Posted
  <2>2. free = <<>>
    <3>1. free \in Seq(Desc)
      BY DEF OwnInv, IInv, TypeOK
    <3>2. Len(free) = 0
      BY <1>2, <1>5 DEF OwnInv, StageOK
    <3>. QED
      BY <3>1, <3>2, EmptySeq
  <2>3. Outstanding = Desc
    BY <1>2, <1>5 DEF OwnInv, StageOK, Outstanding, Desc
  <2>4. StageOK'
    BY <1>1, <1>2, <1>3, <2>1, <2>2, <2>3 DEF StageOK
  <2>5. TokenIsIndex'
    BY <1>1, <1>3, <1>5, <2>1 DEF OwnInv, TokenIsIndex, Post
  <2>. QED
    BY <2>4, <2>5
<1>6. CASE stage # "new"
  <2>1. stage' = "ready" /\ stage = "handled"
    BY <1>1, <1>6 DEF Posted, OwnInv, StageOK
  <2>. QED
    BY <1>1, <1>2, <1>3, <2>1 DEF OwnInv, StageOK, TokenIsIndex, Post
<1>. QED
  BY <1>2, <1>4, <1>5, <1>6

\* poll takes a buffer out: its descriptor is the whole free list.
LEMMA PollPopKeeps ==
  ASSUME OwnInv, NEW t \in Desc, PollPop(t)
  PROVE  (StageOK /\ TokenIsIndex)'
<1>1. stage = "ready" /\ stage' = "handled" /\ current' = t /\ created' = created
  BY DEF PollPop
<1>2. free = <<>> /\ Outstanding = Desc
  BY <1>1 DEF OwnInv, StageOK
<1>3. req[t] = Post(t)
  BY <1>1, <1>2 DEF OwnInv, TokenIsIndex
<1>4. /\ free' = <<t>> /\ req' = [req EXCEPT ![t] = <<>>] /\ pc' = "idle"
  BY <1>2, <1>3, PostFacts, PopOne DEF PollPop, OwnInv
<1>5. req \in [Desc -> Requests \cup {<<>>}]
  BY DEF OwnInv, IInv, TypeOK
<1>6. Outstanding' = Desc \ {t}
  BY <1>2, <1>4, <1>5 DEF Outstanding
<1>7. TokenIsIndex'
  BY <1>1, <1>2, <1>4, <1>5, <1>6 DEF OwnInv, TokenIsIndex, Post
<1>8. StageOK'
  BY <1>1, <1>4, <1>6 DEF OwnInv, StageOK
<1>. QED
  BY <1>7, <1>8

\* add_buffer_to_queue: the only free descriptor is the one just popped.
LEMMA ReaddKeeps ==
  ASSUME OwnInv, Readd
  PROVE  (StageOK /\ TokenIsIndex)'
<1>1. stage = "handled" /\ UNCHANGED <<stage, created, current>> /\ current \in Desc
  BY DEF Readd, owningVars, OwnInv, StageOK
<1>2. /\ pc = "idle" /\ pc' = "filled"
      /\ req' = [req EXCEPT ![free[1]] = Post(current)]
      /\ free' = SubSeq(free, 2, Len(free))
  BY <1>1, AddOne DEF Readd, OwnInv
<1>3. free = <<current>> /\ Outstanding = Desc \ {current}
  BY <1>1, <1>2 DEF OwnInv, StageOK
<1>4. free' = <<>>
  BY <1>2, <1>3
<1>5. req \in [Desc -> Requests \cup {<<>>}] /\ req' = [req EXCEPT ![current] = Post(current)]
  BY <1>2, <1>3 DEF OwnInv, IInv, TypeOK
<1>6. Outstanding' = Desc
  BY <1>1, <1>3, <1>5, PostFacts DEF Outstanding
<1>7. TokenIsIndex'
  BY <1>1, <1>3, <1>5, <1>6 DEF OwnInv, TokenIsIndex, Post
<1>8. StageOK'
  BY <1>1, <1>2, <1>4, <1>6 DEF OwnInv, StageOK
<1>. QED
  BY <1>7, <1>8

\* Every step of the owner is a step of the queue, so the queue's invariant
\* is kept as VirtQueueProofs has shown.
LEMMA OwningIsNext ==
  ASSUME OwnInv, [OwningNext]_allVars
  PROVE  [Next]_vars
<1>1. ASSUME NewAdd PROVE Next
  <2>1. created \in Desc
    BY <1>1, SizeFacts DEF NewAdd, OwnInv, StageOK, Desc
  <2>. QED
    BY <1>1, <2>1, PostFacts DEF NewAdd, Next
<1>2. ASSUME Readd PROVE Next
  <2>1. current \in Desc
    BY <1>2 DEF Readd, OwnInv, StageOK
  <2>. QED
    BY <1>2, <2>1, PostFacts DEF Readd, Next
<1>. QED
  BY <1>1, <1>2 DEF OwningNext, Posted, PollPop, Device, Next, allVars

LEMMA OwningStep == OwnInv /\ [OwningNext]_allVars => OwnInv'
<1>. SUFFICES ASSUME OwnInv, [OwningNext]_allVars PROVE OwnInv'
  OBVIOUS
<1>1. IInv'
  BY OwningIsNext, NextIInv DEF OwnInv
<1>2. ASSUME Device PROVE (StageOK /\ TokenIsIndex)'
  BY <1>2 DEF Device, DeviceTake, DeviceUse, driverVars, owningVars,
              OwnInv, StageOK, TokenIsIndex, Outstanding, Post
<1>3. ASSUME UNCHANGED allVars PROVE (StageOK /\ TokenIsIndex)'
  BY <1>3 DEF allVars, vars, driverVars, owningVars,
              OwnInv, StageOK, TokenIsIndex, Outstanding, Post
<1>4. (StageOK /\ TokenIsIndex)'
  BY <1>2, <1>3, NewAddKeeps, PostedKeeps, PollPopKeeps, ReaddKeeps DEF OwningNext
<1>. QED
  BY <1>1, <1>4 DEF OwnInv

\* The owner starts with the free list in order and nothing posted.
LEMMA OwningStart == OwningInit => OwnInv
<1>. SUFFICES ASSUME OwningInit PROVE OwnInv
  OBVIOUS
<1>1. SIZE \in Nat /\ SIZE >= 1
  BY SizeFacts
<1>2. IInv
  BY InitIInv DEF OwningInit
<1>3. Len(free) = SIZE /\ \A i \in 1 .. SIZE : free[i] = i - 1
  BY <1>1 DEF OwningInit, Init
<1>4. \A t \in Desc : req[t] = <<>> /\ ~ (t < 0)
  BY <1>1 DEF OwningInit, Init, Desc
<1>5. StageOK
  BY <1>1, <1>3, <1>4 DEF OwningInit, Init, StageOK
<1>. QED
  BY <1>2, <1>4, <1>5 DEF OwnInv, TokenIsIndex, Outstanding

\* assert_eq!(new_token, index) of add_buffer_to_queue holds for ever, in
\* whatever order the device uses the buffers.
THEOREM TokensAreIndices == OwningSpec => []TokenIsIndex
<1>1. OwnInv => TokenIsIndex
  BY DEF OwnInv
<1>. QED
  BY <1>1, OwningStart, OwningStep, PTL DEF OwningSpec

\* Between polls the device has every buffer, and poll's add never returns
\* QueueFull, also after a handler that failed.
THEOREM AllBuffersKept == OwningSpec => []NoBufferLost
<1>1. ASSUME OwnInv PROVE NoBufferLost
  <2>. SUFFICES ASSUME stage = "handled", pc = "idle" PROVE CanAdd(Post(current))
    BY <1>1 DEF OwnInv, StageOK, NoBufferLost
  <2>1. free = <<current>> /\ current \in Desc
    BY <1>1 DEF OwnInv, StageOK
  <2>2. Len(free) = 1
    BY <2>1
  <2>3. num_used \in 0 .. SIZE /\ Len(free) + num_used = SIZE
    BY <1>1 DEF OwnInv, IInv, TypeOK, DriverInv, FreeListOK
  <2>4. Post(current) # <<>> /\ Len(Post(current)) = 1
    BY <2>1, PostFacts
  <2>5. SIZE \in Nat /\ SIZE >= 1 /\ num_used + 1 = SIZE
    BY <2>2, <2>3, SizeFacts
  <2>. QED
    BY <2>4, <2>5 DEF CanAdd
<1>. QED
  BY <1>1, OwningStart, OwningStep, PTL DEF OwningSpec
=============================================================================
