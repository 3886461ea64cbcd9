----------------------------- MODULE VirtQueue -----------------------------
(***************************************************************************)
(* The split virtqueue of os/library/virtio-drivers/src/queue.rs: the      *)
(* driver half (descriptor table, its trusted shadow, the free list        *)
(* threaded through `next', the available and used rings) running          *)
(* concurrently with a device that takes available chains in order and     *)
(* completes them in any order.                                            *)
(*                                                                         *)
(* `add' is two steps, because the device runs between them: filling the   *)
(* descriptors and the ring slot, and (after the fence) storing avail.idx. *)
(* `pop_used' reads one used element that the device has already published *)
(* and is one step.  Calls that return InvalidParam, QueueFull, NotReady   *)
(* or WrongToken change nothing and are stuttering steps.                  *)
(***************************************************************************)
EXTENDS Integers, Sequences

CONSTANTS
  SIZE,       \* number of descriptors, and of slots of each ring
  IdxMod,     \* the ring indices wrap at IdxMod (65536 for the code's u16)
  Buffers,    \* buffers callers hand to the device
  NoAddr,     \* the zero address of an unset descriptor
  ListAddr,   \* the address of the indirect list that a descriptor owns
  NoList,     \* None in indirect_lists
  Requests,   \* the (inputs, outputs) lists callers pass to add
  EventIdx    \* whether VIRTIO_F_EVENT_IDX was negotiated

\* One buffer of a request: the device writes to outputs, reads from inputs.
Segment == [buf : Buffers, write : BOOLEAN]

\* The indirect table add_indirect allocates for r; entry i of the code's
\* zero-based list is element i + 1 here.
IndirectList(r) ==
  [i \in 1 .. Len(r) |->
     [addr  |-> r[i].buf,
      flags |-> (IF i < Len(r) THEN {"NEXT"} ELSE {})
                  \cup (IF r[i].write THEN {"WRITE"} ELSE {}),
      next  |-> i]]

\* SIZE is a power of two no larger than u16::MAX (SIZE_OK), so it divides
\* 65536 at least twice; only that is needed of the two numbers.
ASSUME SizeAssumption ==
  /\ SIZE \in Nat \ {0}
  /\ IdxMod \in Nat
  /\ \E k \in 2..IdxMod : IdxMod = k * SIZE

ASSUME ValueAssumption ==
  /\ NoAddr \notin Buffers
  /\ ListAddr \notin Buffers
  /\ NoAddr # ListAddr
  /\ EventIdx \in BOOLEAN
  /\ \A r \in Requests : r \in Seq(Segment)
  /\ \A r \in Requests : NoList # IndirectList(r)

VARIABLES
  indirect,         \* whether VIRTIO_F_INDIRECT_DESC was negotiated
  desc_shadow,      \* the driver's trusted copy of the descriptor table
  desc,             \* the descriptor table the device reads
  free_head,
  num_used,
  indirect_lists,   \* per descriptor, the indirect list it owns or NoList
  avail_ring,
  avail_idx,        \* avail.idx as published to the device
  last_used_idx,
  used_event,       \* the used index the driver wants to be told of
  pc,               \* where the driver is in add: "idle" or "filled"
  used_ring,        \* written by the device
  used_idx,         \* written by the device
  dev_idx,          \* the device's position in the available ring
  dev_held,         \* chains the device has taken and not yet returned
  req,              \* per token, the buffers its caller has lent, <<>> if none
  chain,            \* history: the descriptors add gave each token
  free              \* history: the free list, in order

driverVars == <<indirect, desc_shadow, desc, free_head, num_used, indirect_lists,
                avail_ring, avail_idx, last_used_idx, used_event, pc>>
deviceVars == <<used_ring, used_idx, dev_idx, dev_held>>
vars == <<driverVars, deviceVars, req, chain, free>>

Desc == 0 .. SIZE - 1
Idx  == 0 .. IdxMod - 1
Slot(idx) == idx % SIZE          \* idx & (SIZE - 1)
Succ(idx) == (idx + 1) % IdxMod  \* wrapping_add(1)

Flags == {"NEXT", "WRITE", "INDIRECT"}
Descriptor == [addr  : Buffers \cup {NoAddr, ListAddr},
               flags : SUBSET Flags,
               next  : Desc]

\* Descriptor::set_buf and Descriptor::unset_buf.
SetBuf(d, addr, write, extra) ==
  [d EXCEPT !.addr = addr, !.flags = extra \cup (IF write THEN {"WRITE"} ELSE {})]
UnsetBuf(d) == [d EXCEPT !.addr = NoAddr]

Outstanding == {t \in Desc : req[t] # <<>>}

\* The position of x in the sequence s.
PosIn(s, x) == CHOOSE i \in DOMAIN s : s[i] = x
Members(s) == {s[i] : i \in DOMAIN s}
-----------------------------------------------------------------------------
\* VirtQueue::new: the descriptors are linked in order, everything else is 0.
Init ==
  /\ indirect \in BOOLEAN
  /\ desc_shadow = [d \in Desc |->
       [addr |-> NoAddr, flags |-> {}, next |-> IF d < SIZE - 1 THEN d + 1 ELSE 0]]
  /\ desc = desc_shadow
  /\ free_head = 0
  /\ num_used = 0
  /\ indirect_lists = [d \in Desc |-> NoList]
  /\ avail_ring = [s \in Desc |-> 0]
  /\ avail_idx = 0
  /\ last_used_idx = 0
  /\ used_event = 0
  /\ pc = "idle"
  /\ used_ring = [s \in Desc |-> 0]
  /\ used_idx = 0
  /\ dev_idx = 0
  /\ dev_held = {}
  /\ req = [d \in Desc |-> <<>>]
  /\ chain = [d \in Desc |-> <<>>]
  /\ free = [i \in 1 .. SIZE |-> i - 1]

\* The error returns of add, negated: not InvalidParam, not QueueFull.
CanAdd(r) ==
  /\ r # <<>>
  /\ num_used + 1 <= SIZE
  /\ Len(r) <= SIZE
  /\ indirect \/ num_used + Len(r) <= SIZE

\* c lists the first descriptors of the free list, as add_direct's loop
\* reaches them: from free_head along the `next' fields.
FreeWalk(c) ==
  /\ c[1] = free_head
  /\ \A i \in DOMAIN c : i > 1 => c[i] = desc_shadow[c[i - 1]].next

\* NEXT on every descriptor of a chain of n but the last.
ChainFlags(i, n) == IF i < n THEN {"NEXT"} ELSE {}

\* Mutant: the descriptor is not copied again after its NEXT flag is removed.
WriteDescsStaleLast(c, shadow) ==
  [d \in Desc |-> IF d = c[Len(c)] THEN [shadow[d] EXCEPT !.flags = @ \cup {"NEXT"}]
                  ELSE IF d \in Members(c) THEN shadow[d] ELSE desc[d]]

\* write_desc for each descriptor of c: the device's table gets the shadow.
WriteDescs(c, shadow) ==
  [d \in Desc |-> IF d \in Members(c) THEN shadow[d] ELSE desc[d]]

\* Mutant: the free list still starts with the last descriptor handed out.
AfterChainKeepsLast(c) == c[Len(c)]

\* The free list's head once the chain c has been taken off it.
AfterChain(c) == desc_shadow[c[Len(c)]].next

\* add_direct: one descriptor per buffer, in the order of the free list.
AddDirect(r) ==
  \E c \in [1 .. Len(r) -> Desc] :
    /\ FreeWalk(c)
    /\ desc_shadow' = [d \in Desc |->
         IF d \in Members(c)
           THEN LET i == PosIn(c, d)
                IN  SetBuf(desc_shadow[d], r[i].buf, r[i].write, ChainFlags(i, Len(r)))
           ELSE desc_shadow[d]]
    /\ desc' = WriteDescs(c, desc_shadow')
    /\ free_head' = AfterChain(c)
    /\ num_used' = num_used + Len(r)
    /\ chain' = [chain EXCEPT ![free_head] = c]
    /\ free' = SubSeq(free, Len(r) + 1, Len(free))
    /\ UNCHANGED indirect_lists

\* add_indirect: the whole request behind one descriptor.
AddIndirect(r) ==
  LET h == free_head IN
  /\ indirect_lists' = [indirect_lists EXCEPT ![h] = IndirectList(r)]
  /\ free_head' = desc_shadow[h].next
  /\ desc_shadow' = [desc_shadow EXCEPT ![h] = SetBuf(@, ListAddr, FALSE, {"INDIRECT"})]
  /\ desc' = WriteDescs(<<h>>, desc_shadow')
  /\ num_used' = num_used + 1
  /\ chain' = [chain EXCEPT ![h] = <<h>>]
  /\ free' = Tail(free)

\* add, up to the fence: descriptors filled, head stored in the ring slot.
AddFill(r) ==
  /\ pc = "idle"
  /\ CanAdd(r)
  /\ IF indirect /\ Len(r) > 1 THEN AddIndirect(r) ELSE AddDirect(r)
  /\ avail_ring' = [avail_ring EXCEPT ![Slot(avail_idx)] = free_head]
  /\ req' = [req EXCEPT ![free_head] = r]
  /\ pc' = "filled"
  /\ UNCHANGED <<indirect, avail_idx, last_used_idx, used_event, deviceVars>>

\* add, after the fence: avail.idx is stored and the chain is the device's.
AddPublish ==
  /\ pc = "filled"
  /\ avail_idx' = Succ(avail_idx)
  /\ pc' = "idle"
  /\ UNCHANGED <<indirect, desc_shadow, desc, free_head, num_used, indirect_lists,
                 avail_ring, last_used_idx, used_event, deviceVars, req, chain, free>>
-----------------------------------------------------------------------------
CanPop == last_used_idx # used_idx

\* c lists the descriptors of the chain that starts at t and has n of them,
\* as recycle_descriptors follows it with Descriptor::next(): NEXT on all but
\* the last.  If there is none, the code panics ("Descriptor chain was
\* shorter/longer than expected.").
ChainWalk(c, t, n) ==
  /\ c[1] = t
  /\ \A i \in DOMAIN c : i > 1 => c[i] = desc_shadow[c[i - 1]].next
  /\ \A i \in DOMAIN c : "NEXT" \in desc_shadow[c[i]].flags <=> i < n

\* Mutant: the recycled descriptors are not linked to the old free list.
RelinkedLost(d) == UnsetBuf(d)

\* The last recycled descriptor is linked to the old head of the free list.
Relinked(d) == [UnsetBuf(d) EXCEPT !.next = free_head]

\* recycle_descriptors, INDIRECT branch: the device's copy is left alone.
RecycleIndirect(t) ==
  /\ indirect_lists' = [indirect_lists EXCEPT ![t] = NoList]
  /\ desc_shadow' = [desc_shadow EXCEPT ![t] = Relinked(@)]
  /\ num_used' = num_used - 1
  /\ free' = <<t>> \o free
  /\ UNCHANGED desc

\* recycle_descriptors, direct branch: the chain goes to the front of the
\* free list in chain order.
RecycleDirect(t) ==
  \E c \in [1 .. Len(req[t]) -> Desc] :
    /\ ChainWalk(c, t, Len(c))
    /\ desc_shadow' = [d \in Desc |->
         IF d = c[Len(c)] THEN Relinked(desc_shadow[d])
         ELSE IF d \in Members(c) THEN UnsetBuf(desc_shadow[d])
         ELSE desc_shadow[d]]
    /\ desc' = WriteDescs(c, desc_shadow')
    /\ num_used' = num_used - Len(c)
    /\ free' = c \o free
    /\ UNCHANGED indirect_lists

\* Mutant: the id in the used ring is not compared with the token.
PopUsedAnyToken(t) ==
  /\ pc = "idle"
  /\ t \in Outstanding
  /\ CanPop
  /\ IF "INDIRECT" \in desc_shadow[t].flags
       THEN RecycleIndirect(t) ELSE RecycleDirect(t)
  /\ free_head' = t
  /\ last_used_idx' = Succ(last_used_idx)
  /\ used_event' = IF EventIdx THEN last_used_idx' ELSE used_event
  /\ req' = [req EXCEPT ![t] = <<>>]
  /\ chain' = [chain EXCEPT ![t] = <<>>]
  /\ UNCHANGED <<indirect, avail_ring, avail_idx, pc, deviceVars>>

\* pop_used(token, inputs, outputs), called as its safety contract demands:
\* with a token the caller holds and the buffers it passed to add.
PopUsed(t) ==
  /\ pc = "idle"
  /\ t \in Outstanding
  /\ CanPop
  /\ used_ring[Slot(last_used_idx)] = t
  /\ IF "INDIRECT" \in desc_shadow[t].flags
       THEN RecycleIndirect(t) ELSE RecycleDirect(t)
  /\ free_head' = t
  /\ last_used_idx' = Succ(last_used_idx)
  /\ used_event' = IF EventIdx THEN last_used_idx' ELSE used_event
  /\ req' = [req EXCEPT ![t] = <<>>]
  /\ chain' = [chain EXCEPT ![t] = <<>>]
  /\ UNCHANGED <<indirect, avail_ring, avail_idx, pc, deviceVars>>
-----------------------------------------------------------------------------
\* The device takes the next available chain.
DeviceTake ==
  /\ dev_idx # avail_idx
  /\ dev_held' = dev_held \cup {avail_ring[Slot(dev_idx)]}
  /\ dev_idx' = Succ(dev_idx)
  /\ UNCHANGED <<driverVars, used_ring, used_idx, req, chain, free>>

\* The device returns a chain it holds: the element first, then used.idx.
DeviceUse(t) ==
  /\ t \in dev_held
  /\ dev_held' = dev_held \ {t}
  /\ used_ring' = [used_ring EXCEPT ![Slot(used_idx)] = t]
  /\ used_idx' = Succ(used_idx)
  /\ UNCHANGED <<driverVars, dev_idx, req, chain, free>>

Next ==
  \/ \E r \in Requests : AddFill(r)
  \/ AddPublish
  \/ \E t \in Desc : PopUsed(t)
  \/ DeviceTake
  \/ \E t \in Desc : DeviceUse(t)

Spec == Init /\ [][Next]_vars
-----------------------------------------------------------------------------
TypeOK ==
  /\ indirect \in BOOLEAN
  /\ desc_shadow \in [Desc -> Descriptor]
  /\ desc \in [Desc -> Descriptor]
  /\ free_head \in Desc
  /\ num_used \in 0 .. SIZE
  /\ indirect_lists \in [Desc -> {NoList} \cup {IndirectList(r) : r \in Requests}]
  /\ avail_ring \in [Desc -> Desc]
  /\ avail_idx \in Idx
  /\ last_used_idx \in Idx
  /\ used_event \in Idx
  /\ pc \in {"idle", "filled"}
  /\ used_ring \in [Desc -> Desc]
  /\ used_idx \in Idx
  /\ dev_idx \in Idx
  /\ dev_held \in SUBSET Desc
  /\ req \in [Desc -> Requests \cup {<<>>}]
  /\ chain \in [Desc -> Seq(Desc)]
  /\ free \in Seq(Desc)
-----------------------------------------------------------------------------
(* The parts of the driver's inductive invariant. *)

\* The free list has SIZE - num_used descriptors, none twice, starts at
\* free_head and is threaded through `next'.
FreeListOK ==
  /\ Len(free) + num_used = SIZE
  /\ \A i, j \in DOMAIN free : free[i] = free[j] => i = j
  /\ free # <<>> => free_head = free[1]
  /\ \A i \in DOMAIN free : i > 1 => free[i] = desc_shadow[free[i - 1]].next

\* The segment a descriptor presents to the device.
View(d) == [buf |-> d.addr, write |-> "WRITE" \in d.flags]

\* A direct chain: as many descriptors as buffers, linked in order by NEXT,
\* each with the address and direction of its buffer.
DirectChainOK(t) ==
  LET c == chain[t] IN
  /\ Len(c) = Len(req[t])
  /\ \A i \in DOMAIN c :
       /\ View(desc_shadow[c[i]]) = req[t][i]
       /\ "INDIRECT" \notin desc_shadow[c[i]].flags
       /\ "NEXT" \in desc_shadow[c[i]].flags <=> i < Len(c)
       /\ i > 1 => c[i] = desc_shadow[c[i - 1]].next
  /\ indirect_lists[t] = NoList

\* An indirect chain: one descriptor that owns the list of its buffers.
IndirectChainOK(t) ==
  /\ chain[t] = <<t>>
  /\ desc_shadow[t].flags = {"INDIRECT"}
  /\ desc_shadow[t].addr = ListAddr
  /\ indirect_lists[t] = IndirectList(req[t])

ChainOK(t) ==
  IF req[t] = <<>>
    THEN chain[t] = <<>> /\ indirect_lists[t] = NoList
    ELSE /\ chain[t] # <<>> /\ chain[t][1] = t
         /\ IF "INDIRECT" \in desc_shadow[t].flags
              THEN IndirectChainOK(t) ELSE DirectChainOK(t)

ChainsOK == \A t \in Desc : ChainOK(t)

\* Every descriptor is free or in one place of one chain.
PartitionOK ==
  /\ \A t, u \in Desc : \A i \in DOMAIN chain[t], j \in DOMAIN chain[u] :
       chain[t][i] = chain[u][j] => t = u /\ i = j
  /\ \A t \in Desc : \A i \in DOMAIN chain[t], j \in DOMAIN free :
       chain[t][i] # free[j]
  /\ \A d \in Desc : d \in Members(free) \/ \E t \in Desc : d \in Members(chain[t])

\* The device's copy of an outstanding chain is the shadow.
DeviceCopyOK ==
  \A t \in Desc : \A i \in DOMAIN chain[t] : desc[chain[t][i]] = desc_shadow[chain[t][i]]

\* Descriptor bookkeeping: after any sequence of adds and out-of-order pops
\* the free list and the outstanding chains still partition the descriptor
\* table, and each chain is exactly what its caller submitted.
DriverInv ==
  FreeListOK /\ ChainsOK /\ PartitionOK /\ DeviceCopyOK

\* The inductive invariant of the driver: types and bookkeeping, so that no add,
\* publication or pop, in whatever order requests complete, can spoil the next.
IInv == TypeOK /\ DriverInv
-----------------------------------------------------------------------------
(* Properties. *)

\* recycle_descriptors never panics when pop_used is called with the buffers
\* that were added: the list in indirect_lists is there and has their number,
\* or the chain is neither shorter nor longer than they are.
RecycleNeverPanics ==
  \A t \in Outstanding :
    IF "INDIRECT" \in desc_shadow[t].flags
      THEN indirect_lists[t] # NoList /\ Len(indirect_lists[t]) = Len(req[t])
      ELSE \E c \in [1 .. Len(req[t]) -> Desc] : ChainWalk(c, t, Len(req[t]))

\* What the device finds when it follows the descriptor table from t.
DeviceSees(t, r) ==
  IF "INDIRECT" \in desc[t].flags
    THEN /\ indirect_lists[t] # NoList
         /\ Len(indirect_lists[t]) = Len(r)
         /\ \A i \in DOMAIN r : View(indirect_lists[t][i]) = r[i]
    ELSE \E c \in [1 .. Len(r) -> Desc] :
           /\ c[1] = t
           /\ \A i \in DOMAIN c :
                /\ View(desc[c[i]]) = r[i]
                /\ "NEXT" \in desc[c[i]].flags <=> i < Len(r)
                /\ i > 1 => c[i] = desc[c[i - 1]].next

\* From the moment a chain is published until it is popped, the device sees
\* exactly the caller's buffers with the caller's directions behind its head:
\* it never follows a recycled or half-written descriptor.
DeviceSeesRequest == \A t \in Outstanding : DeviceSees(t, req[t])

\* The live windows of the two rings, oldest entry first.
PendingSeq ==
  [k \in 1 .. (avail_idx - dev_idx) % IdxMod |-> avail_ring[Slot(dev_idx + k - 1)]]
CompletedSeq ==
  [k \in 1 .. (used_idx - last_used_idx) % IdxMod |-> used_ring[Slot(last_used_idx + k - 1)]]
Filling == IF pc = "filled" THEN {avail_ring[Slot(avail_idx)]} ELSE {}

\* What a request that stays outstanding keeps over a step.
LentKept ==
  \A t \in Outstanding : req'[t] # <<>> =>
    /\ req'[t] = req[t]
    /\ indirect_lists'[t] = indirect_lists[t]
    /\ \A i \in DOMAIN chain[t] : desc'[chain[t][i]] = desc[chain[t][i]]

\* No step changes a descriptor or indirect list of a chain that stays
\* outstanding: the device may read them at any time (the safety contract of
\* add is the caller's half of this).
LentUntouched == [][LentKept]_vars

\* The queue implements the abstract pool of requests.
Pool == INSTANCE RequestPool WITH
  Tokens    <- Desc,
  held      <- dev_held,
  submitted <- PendingSeq,
  completed <- CompletedSeq,
  lent      <- [t \in Desc |-> IF t \in Filling THEN <<>> ELSE req[t]]
RefinesRequestPool == Pool!Spec
=============================================================================
