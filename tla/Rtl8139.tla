------------------------------- MODULE Rtl8139 -------------------------------
(***************************************************************************)
(* The driver of the RTL8139 network card (kernel/device/rtl8139.rs) and   *)
(* its use by the thread that polls the sockets (kernel/network/mod.rs):   *)
(* packets are sent from page frames through descriptors that are used in  *)
(* turn, and received through a ring the card writes to.                   *)
(*                                                                         *)
(* There is one CPU: the interrupt handler is one step, and it may come    *)
(* between any two steps of the polling thread and of other threads that   *)
(* use page frames.  Ring offsets and lengths are in bytes.                *)
(***************************************************************************)
EXTENDS Integers, FiniteSets, Sequences, SequencesExt

CONSTANTS
  RingLen,     \* the ring of the card, 8192 in the code; the buffer is longer
  HeaderLen,   \* size_of::<PacketHeader>(), 4 in the code
  PacketLens,  \* lengths of received packets
  RecvBuffers, \* the buffers of recv_buffers_empty, RECV_QUEUE_CAP in the code
  TxDescs,     \* transmit descriptors, 4 in the code
  TxMod,       \* transmit_index is an AtomicU8: 256 in the code
  TxFrames,    \* page frames
  RtlCfgs      \* bounds: [rx, tx], packets that arrive and that are sent

ASSUME RtlAssumption ==
  /\ RingLen \in Nat \ {0} /\ RingLen % 4 = 0 /\ HeaderLen % 4 = 0
  /\ TxDescs \in Nat \ {0} /\ TxMod % TxDescs = 0

VARIABLES
  nic,     \* the driver
  card,    \* the card
  pages,   \* [free, locked]: free page frames, the allocator's lock
  got,     \* the packets the network stack has been given
  rtlCfg

rtlVars == <<nic, card, pages, got, rtlCfg>>

Align4(n) == ((n + 3) \div 4) * 4
OnCard == {d \in 0 .. TxDescs - 1 : ~card.desc[d].own}

\* Rtl8139::new: reset, all receive buffers empty, ring and transmitter at 0.
RtlInit ==
    /\ rtlCfg \in RtlCfgs
    /\ nic = [index |-> 0, transmit_index |-> 0, send_queue |-> <<>>,
              empty |-> SetToSeq(RecvBuffers), messages |-> <<>>,
              data |-> [b \in RecvBuffers |-> 0], held |-> {},
              pc |-> "idle", frame |-> {}, desc |-> 0, panic |-> FALSE]
    /\ card = [ring |-> [o \in 0 .. RingLen - 1 |-> [id |-> 0, len |-> 0]],
               write |-> 0, read |-> 0, arrived |-> 0, unread |-> <<>>, status |-> {},
               desc |-> [d \in 0 .. TxDescs - 1 |-> [own |-> TRUE, frame |-> {}]],
               next |-> 0, sent |-> 0]
    /\ pages = [free |-> TxFrames, locked |-> FALSE] /\ got = <<>>

-----------------------------------------------------------------------------
(* TxToken::consume, in the thread that polls.                             *)

RtlAt(pc) == nic.pc = pc /\ ~nic.panic

TxStart ==
    /\ RtlAt("idle") /\ ~pages.locked
    /\ card.sent + Cardinality(OnCard) < rtlCfg.tx
    /\ pages' = [pages EXCEPT !.locked = TRUE]
    /\ nic' = [nic EXCEPT !.pc = "alloc"]
    /\ UNCHANGED <<card, got>>

\* vmm::alloc_frames(1).
TxAlloc ==
    /\ RtlAt("alloc")
    /\ \E f \in pages.free :
          /\ pages' = [free |-> pages.free \ {f}, locked |-> FALSE]
          /\ nic' = [nic EXCEPT !.pc = "enqueue", !.frame = {f}]
    /\ UNCHANGED <<card, got>>

\* The frame is queued for deallocation, before it is filled and sent.
TxEnqueue ==
    /\ RtlAt("enqueue")
    /\ nic' = [nic EXCEPT !.pc = "fill", !.send_queue = @ \o SetToSeq(nic.frame)]
    /\ UNCHANGED <<card, pages, got>>

next_transmit_descriptor(i) == [desc |-> i % TxDescs, index |-> (i + 1) % TxMod]

\* The stack writes the packet; the next descriptor is locked.
TxFill ==
    /\ RtlAt("fill")
    /\ LET n == next_transmit_descriptor(nic.transmit_index)
       IN  nic' = [nic EXCEPT !.pc = "wait", !.desc = n.desc, !.transmit_index = n.index]
    /\ UNCHANGED <<card, pages, got>>

\* TransmitDescriptor::available: the card has set OWN.  Then address and
\* length are written, and the descriptor is the card's.
TxSend ==
    /\ RtlAt("wait") /\ card.desc[nic.desc].own
    /\ card' = [card EXCEPT !.desc[nic.desc] = [own |-> FALSE, frame |-> nic.frame]]
    /\ nic' = [nic EXCEPT !.pc = "idle", !.frame = {}]
    /\ UNCHANGED <<pages, got>>

-----------------------------------------------------------------------------
(* Receiving.  receive() takes a message; the token is consumed later, and *)
(* the stack may send an answer before it is.                              *)

RtlReceive ==
    /\ RtlAt("idle") /\ nic.held = {} /\ nic.messages # <<>>
    /\ nic' = [nic EXCEPT !.messages = Tail(@), !.held = {Head(nic.messages)}]
    /\ UNCHANGED <<card, pages, got>>

\* RxToken::consume; a full queue of empty buffers is a panic.
RxConsume ==
    /\ RtlAt("idle") /\ nic.held # {}
    /\ got' = Append(got, nic.data[CHOOSE b \in nic.held : TRUE])
    /\ nic' = IF Len(nic.empty) = Cardinality(RecvBuffers) THEN [nic EXCEPT !.panic = TRUE]
              ELSE [nic EXCEPT !.empty = @ \o SetToSeq(nic.held), !.held = {}]
    /\ UNCHANGED <<card, pages>>

\* Mutant: the index is only brought to the start at the very end of the ring.
NextIndexExact(index, len) ==
    LET n == Align4(index + len + HeaderLen) IN IF n = RingLen THEN 0 ELSE n

\* The place of the next header.
NextIndex(index, len) ==
    LET n == Align4(index + len + HeaderLen) IN IF n >= RingLen THEN n % RingLen ELSE n

\* process_received_packet: one packet, whatever has arrived.  Without an empty
\* buffer the packet is dropped.
process_received_packet(v) ==
    LET h == card.ring[v.index]
        w == [v EXCEPT !.index = NextIndex(@, h.len)]
    IN  IF h.id = 0 THEN v
        ELSE IF v.empty = <<>> THEN w
        ELSE [w EXCEPT !.data[Head(v.empty)] = h.id, !.empty = Tail(@),
                       !.messages = Append(@, Head(v.empty))]

\* The frames of the queue, all of them, are taken out to be freed.
Drain(v) == [v EXCEPT !.send_queue = <<>>]

\* Rtl8139InterruptHandler::trigger; the line may be shared.
Trigger ==
    /\ ~nic.panic
    /\ LET frees == "TRANSMIT_OK" \in card.status /\ ~pages.locked
           freed == IF frees THEN Drain(nic) ELSE nic
           done == IF "RECEIVE_OK" \in card.status THEN process_received_packet(freed) ELSE freed
       IN  IF card.status \cap {"TRANSMIT_ERROR", "RECEIVE_ERROR"} # {}
           THEN nic' = [nic EXCEPT !.panic = TRUE] /\ UNCHANGED <<card, pages>>
           ELSE /\ nic' = done
                /\ pages' = IF frees THEN [pages EXCEPT !.free = @ \cup ToSet(nic.send_queue)]
                            ELSE pages
                /\ card' = [card EXCEPT !.status = {}, !.read = done.index,
                              !.unread = IF done.index = nic.index THEN @ ELSE Tail(@)]
    /\ UNCHANGED got

-----------------------------------------------------------------------------
(* External: the card.  It writes a packet where the last one ended, past   *)
(* the end of the ring if need be (WRAP), and sends descriptors in turn.    *)

CardReceives ==
    /\ card.arrived < rtlCfg.rx
    /\ \E len \in PacketLens :
          LET size == Align4(HeaderLen + len)
              used == (card.write - card.read) % RingLen
              id == card.arrived + 1
              Covered(o) == o > card.write /\ o < card.write + HeaderLen + len
          IN  card' = IF size >= RingLen - used THEN [card EXCEPT !.arrived = id]
                      ELSE [card EXCEPT !.arrived = id, !.status = @ \cup {"RECEIVE_OK"},
                              !.ring = [o \in DOMAIN @ |->
                                          IF o = card.write THEN [id |-> id, len |-> len]
                                          ELSE IF Covered(o) THEN [id |-> 0, len |-> 0] ELSE @[o]],
                              !.write = (@ + size) % RingLen,
                              !.unread = Append(@, [id |-> id, at |-> card.write])]
    /\ UNCHANGED <<nic, pages, got>>

CardSends ==
    /\ ~card.desc[card.next].own
    /\ card' = [card EXCEPT !.desc[card.next].own = TRUE, !.next = (@ + 1) % TxDescs,
                            !.sent = @ + 1, !.status = @ \cup {"TRANSMIT_OK"}]
    /\ UNCHANGED <<nic, pages, got>>

CardFails ==
    /\ card.arrived = rtlCfg.rx /\ card.sent = rtlCfg.tx
    /\ \E e \in {"TRANSMIT_ERROR", "RECEIVE_ERROR"} : card' = [card EXCEPT !.status = @ \cup {e}]
    /\ UNCHANGED <<nic, pages, got>>

RtlNext ==
    /\ \/ TxStart \/ TxAlloc \/ TxEnqueue \/ TxFill \/ TxSend
       \/ RtlReceive \/ RxConsume \/ Trigger
       \/ CardReceives \/ CardSends \/ CardFails
    /\ UNCHANGED rtlCfg

RtlSpec == RtlInit /\ [][RtlNext]_rtlVars

-----------------------------------------------------------------------------
\* Across alignment and wraparound the driver's index is where the oldest packet
\* it has not taken starts: no interrupt, also one that stands for two packets or
\* comes on a shared line, makes it read a header that is not there.
IndexOnPacket ==
    nic.index = IF card.unread = <<>> THEN card.write ELSE card.unread[1].at

\* Every receive buffer is empty, filled or with the stack, and in one place only;
\* so consume finds room for the buffer it gives back.
RecvBuffersKept ==
    /\ Len(nic.empty) + Len(nic.messages) + Cardinality(nic.held) = Cardinality(RecvBuffers)
    /\ ToSet(nic.empty) \cup ToSet(nic.messages) \cup nic.held = RecvBuffers

\* The stack gets packets in the order of their arrival, none twice.
PacketsGivenInOrder == \A i, j \in DOMAIN got : i < j => got[i] < got[j]

\* The driver fills the descriptor that the card will look at next but the ones in
\* flight, also when the counter of eight bits wraps.
DescriptorsInStep ==
    (nic.pc # "wait") =>
        nic.transmit_index % TxDescs = (card.next + Cardinality(OnCard)) % TxDescs

\* Driver and card are in step in both rings, so that packets are given to the stack
\* in order, in buffers of which none is lost.
RingsInStep == /\ IndexOnPacket /\ DescriptorsInStep
               /\ PacketsGivenInOrder /\ RecvBuffersKept

\* "Queue physical memory for deallocation after transmission" (TxToken::consume):
\* a frame that is being filled or sent is not free.
FreedAfterTransmission ==
    \A f \in UNION {card.desc[d].frame : d \in OnCard} \cup nic.frame : f \notin pages.free
=============================================================================
