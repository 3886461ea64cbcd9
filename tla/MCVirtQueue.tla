---------------------------- MODULE MCVirtQueue ----------------------------
(* An instance of VirtQueue for TLC, used by any caller (stage "off") or by *)
(* an OwningQueue.                                                          *)
EXTENDS OwningQueue, FiniteSets, TLC

CONSTANTS b1, b2, b3, b4

In(b)  == [buf |-> b, write |-> FALSE]
Out(b) == [buf |-> b, write |-> TRUE]

MCBuffers == {b1, b2, b3, b4}

\* No buffer (add refuses it), and one, two and three buffers, inputs first.
AnyRequests == {<<>>, <<Out(b1)>>, <<In(b2), Out(b3)>>, <<In(b4), Out(b1), Out(b2)>>}

MCBufferAt == (0 :> b1) @@ (1 :> b2) @@ (2 :> b3) @@ (3 :> b4)
MCRequests == AnyRequests \cup {<<Out(b)>> : b \in MCBuffers}

\* What no later step reads: ring slots outside the live windows, and the
\* address, flags and device copy of a free descriptor, which add overwrites.
\* States that differ only there are explored as one.
LiveView == <<indirect,
              [d \in Desc |-> IF d \in Members(free) THEN desc_shadow[d].next
                                                     ELSE <<desc_shadow[d], desc[d]>>],
              free_head, num_used, indirect_lists, avail_idx, last_used_idx, pc,
              used_idx, dev_idx, dev_held, req, PendingSeq, CompletedSeq, Filling, owningVars>>

\* With indirect descriptors, where every request takes one descriptor, callers
\* keep at most this many requests in the queue; without, they may fill it.
MaxIndirect == 3

AnyNext ==
  /\ Next
  /\ \A t \in Outstanding' : req'[t] \in AnyRequests
  /\ indirect' => Cardinality(Outstanding') <= MaxIndirect

MCInit == Init /\ stage \in {"off", "new"} /\ created = 0 /\ current = 0
MCNext ==
  \/ stage = "off" /\ AnyNext /\ UNCHANGED owningVars
  \/ stage # "off" /\ OwningNext
MCSpec == MCInit /\ [][MCNext]_allVars
=============================================================================
