--------------------------------- MODULE Net ---------------------------------
(***************************************************************************)
(* The network driver: VirtIONet (device/net/dev.rs), which keeps a pool of *)
(* receive buffers in the queue, on top of VirtIONetRaw (dev_raw.rs), whose *)
(* client keeps its own.  netCfg.client says which of the two is in use.   *)
(***************************************************************************)
EXTENDS DriverQueue, Integers

CONSTANTS NetSize, NetCfgs, MaxPackets

ASSUME NetAssumption ==
    /\ NetSize \in Nat \ {0} /\ MaxPackets \in Nat
    /\ NetCfgs \subseteq [client : {"net", "raw"}, indirect : BOOLEAN, legacy : BOOLEAN, bufLen : Nat]

VARIABLES
    netCfg,      \* client, indirect, legacy (header), bufLen; fixed
    netRx, netTx,\* the two queues
    rx_buffers,  \* for every index the buffer that VirtIONet keeps there, or None
    rxIdx,       \* RxBuffer::idx
    rxAt,        \* for every token of the receive queue the buffer lent to the device
    netMem,      \* what is in the memory of a buffer: packet and used length
    netHeld,     \* the buffers the client holds, with what it was given in them
    netFreed,    \* the buffers that were dropped
    netIn,       \* the packets that reached a buffer, in order
    netRunts,    \* the number of used buffers too short for a header
    netGot,      \* the packets the client was given
    netResult

netVars == <<netRx, netTx, rx_buffers, rxIdx, rxAt, netMem, netHeld, netFreed, netIn,
             netRunts, netGot, netResult>>

None == -1
RxBuffers == 0..(NetSize - 1)

\* sizeof VirtioNetHdr; the legacy one has no num_buffers.
HdrSize(legacy) == IF legacy THEN 10 ELSE 12

MIN_BUFFER_LEN == 1526

\* RxBuffer::new allocates whole machine words; as_bytes is what they hold.
RxBufLen(buf_len) == (buf_len \div 8) * 8

check_rx_buf_len(len) == IF len < MIN_BUFFER_LEN THEN "InvalidParam" ELSE "Ok"

check_tx_buf_len(len) == IF len < HdrSize(netCfg.legacy) THEN "InvalidParam" ELSE "Ok"

\* receive_complete: the length without the header; IoError if there is no header.
PacketLen(len) == IF len < HdrSize(netCfg.legacy) THEN None ELSE len - HdrSize(netCfg.legacy)

\* VirtIONet::new puts every buffer in the queue: its token is its index.  It
\* fails on the first one if the rounded length is too small.
NetUp == netCfg.client = "net" => check_rx_buf_len(RxBufLen(netCfg.bufLen)) = "Ok"

FilledQueue ==
    [NewQueue(NetSize) EXCEPT !.free = <<>>, !.chain = [i \in RxBuffers |-> <<i>>],
                              !.avail = [i \in 1..NetSize |-> i - 1]]

NetInit ==
    /\ netCfg \in NetCfgs
    /\ LET pool == netCfg.client = "net" /\ NetUp IN
         /\ netRx = IF pool THEN FilledQueue ELSE NewQueue(NetSize)
         /\ rx_buffers = [i \in RxBuffers |-> IF pool THEN i ELSE None]
         /\ rxAt = IF pool THEN [i \in RxBuffers |-> i] ELSE <<>>
    /\ netTx = NewQueue(NetSize)
    /\ rxIdx = [b \in RxBuffers |-> b]
    /\ netMem = [b \in RxBuffers |-> [pkt |-> 0, len |-> 0]]
    /\ netHeld = <<>>
    /\ netFreed = {}
    /\ netIn = <<>>
    /\ netRunts = 0
    /\ netGot = <<>>
    /\ netResult = "Ok"

-----------------------------------------------------------------------------
(* The device fills the oldest buffer with the next packet, or with less   *)
(* than a header; and it sends what it is given.                           *)

Deliver ==
    /\ netRx.avail # <<>>
    /\ Len(netIn) + netRunts < MaxPackets
    /\ \E n \in {HdrSize(netCfg.legacy) - 1, HdrSize(netCfg.legacy) + 1} :
         LET good == PacketLen(n) # None
             pkt == Len(netIn) + 1
         IN  /\ netMem' = [netMem EXCEPT ![rxAt[Head(netRx.avail)]] = [pkt |-> pkt, len |-> n]]
             /\ netIn' = IF good THEN Append(netIn, pkt) ELSE netIn
             /\ netRunts' = IF good THEN netRunts ELSE netRunts + 1
    /\ netRx' = UseNext(netRx)
    /\ UNCHANGED <<netTx, rx_buffers, rxIdx, rxAt, netHeld, netFreed, netGot, netResult>>

Transmit ==
    /\ netTx.avail # <<>>
    /\ netTx' = UseNext(netTx)
    /\ UNCHANGED <<netRx, rx_buffers, rxIdx, rxAt, netMem, netHeld, netFreed, netIn,
                   netRunts, netGot, netResult>>

-----------------------------------------------------------------------------
(* VirtIONet. *)

\* The client gets buffer b with the packet in it.
HandOver(b) ==
    /\ netHeld' = Bind(netHeld, b, netMem[b])
    /\ netGot' = Append(netGot, netMem[b].pkt)

\* Mutant: the token is looked at but not popped.
TakesPeeked(q, t) == q

Takes(q, t) == PopFrom(q, t)

\* receive: the buffer is taken out of its place before receive_complete, so
\* every error after that drops it.
Receive ==
    LET t == PeekUsed(netRx) IN
    /\ netCfg.client = "net" /\ NetUp
    /\ IF ~CanPopFrom(netRx)
       THEN netResult' = "NotReady" /\ UNCHANGED <<netRx, rx_buffers, rxAt, netHeld, netFreed, netGot>>
       ELSE IF rx_buffers[t] = None
       THEN netResult' = "WrongToken" /\ UNCHANGED <<netRx, rx_buffers, rxAt, netHeld, netFreed, netGot>>
       ELSE LET b == rx_buffers[t] IN
            /\ rx_buffers' = [rx_buffers EXCEPT ![t] = None]
            /\ IF rxIdx[b] # t
               THEN /\ netResult' = "WrongToken" /\ netFreed' = netFreed \cup {b}
                    /\ UNCHANGED <<netRx, rxAt, netHeld, netGot>>
               ELSE /\ netRx' = Takes(netRx, t)
                    /\ rxAt' = Restrict(rxAt, InQueue(netRx'))
                    /\ IF PacketLen(netMem[b].len) = None
                       THEN /\ netResult' = "IoError" /\ netFreed' = netFreed \cup {b}
                            /\ UNCHANGED <<netHeld, netGot>>
                       ELSE netResult' = "Ok" /\ HandOver(b) /\ UNCHANGED netFreed
    /\ UNCHANGED <<netTx, rxIdx, netMem, netIn, netRunts>>

\* Mutant: the buffer goes back to the place it came from.
PlaceOld(b, t) == rxIdx[b]

Place(b, t) == t

\* recycle_rx_buffer: receive_begin first, then the place of the new token.
RecycleRxBuffer(b) ==
    /\ netCfg.client = "net" /\ b \in DOMAIN netHeld
    /\ netHeld' = Restrict(netHeld, DOMAIN netHeld \ {b})
    /\ IF ~CanAddTo(netRx, 1, netCfg.indirect)
       THEN netResult' = "QueueFull" /\ netFreed' = netFreed \cup {b} /\ UNCHANGED <<netRx, rxAt, rx_buffers, rxIdx>>
       ELSE LET t == NextToken(netRx) IN
            /\ netRx' = AddTo(netRx, 1, netCfg.indirect)
            /\ rxAt' = Bind(rxAt, t, b)
            /\ IF rx_buffers[t] # None
               THEN /\ netResult' = "WrongToken" /\ netFreed' = netFreed \cup {b}
                    /\ UNCHANGED <<rx_buffers, rxIdx>>
               ELSE /\ rxIdx' = [rxIdx EXCEPT ![b] = t]
                    /\ rx_buffers' = [rx_buffers EXCEPT ![Place(b, t)] = b]
                    /\ netResult' = "Ok" /\ UNCHANGED netFreed
    /\ UNCHANGED <<netTx, netMem, netIn, netRunts, netGot>>

-----------------------------------------------------------------------------
(* VirtIONetRaw: the client keeps its buffers, which it holds or has lent. *)

receive_begin(b) ==
    /\ netCfg.client = "raw" /\ b \notin Range(rxAt)
    /\ IF check_rx_buf_len(netCfg.bufLen) # "Ok"
       THEN netResult' = "InvalidParam" /\ UNCHANGED <<netRx, rxAt, netHeld>>
       ELSE IF CanAddTo(netRx, 1, netCfg.indirect)
       THEN /\ rxAt' = Bind(rxAt, NextToken(netRx), b)
            /\ netRx' = AddTo(netRx, 1, netCfg.indirect)
            /\ netHeld' = Restrict(netHeld, DOMAIN netHeld \ {b})
            /\ netResult' = "Ok"
       ELSE netResult' = "QueueFull" /\ UNCHANGED <<netRx, rxAt, netHeld>>
    /\ UNCHANGED <<netTx, rx_buffers, rxIdx, netMem, netFreed, netIn, netRunts, netGot>>

receive_complete(t) ==
    /\ netCfg.client = "raw" /\ t \in InQueue(netRx)
    /\ IF PopResult(netRx, t) = "Ok"
       THEN /\ netRx' = PopFrom(netRx, t)
            /\ rxAt' = Restrict(rxAt, DOMAIN rxAt \ {t})
            /\ IF PacketLen(netMem[rxAt[t]].len) = None
               THEN netResult' = "IoError" /\ UNCHANGED <<netHeld, netGot>>
               ELSE netResult' = "Ok" /\ HandOver(rxAt[t])
       ELSE netResult' = PopResult(netRx, t) /\ UNCHANGED <<netRx, rxAt, netHeld, netGot>>
    /\ UNCHANGED <<netTx, rx_buffers, rxIdx, netMem, netFreed, netIn, netRunts>>

\* transmit_begin, with a buffer of len bytes.
transmit_begin(len) ==
    /\ netCfg.client = "raw"
    /\ IF check_tx_buf_len(len) # "Ok" THEN netResult' = "InvalidParam" /\ UNCHANGED netTx
       ELSE IF CanAddTo(netTx, 1, netCfg.indirect)
       THEN netTx' = AddTo(netTx, 1, netCfg.indirect) /\ netResult' = "Ok"
       ELSE netResult' = "QueueFull" /\ UNCHANGED netTx
    /\ UNCHANGED <<netRx, rx_buffers, rxIdx, rxAt, netMem, netHeld, netFreed, netIn,
                   netRunts, netGot>>

transmit_complete(t) ==
    /\ netCfg.client = "raw" /\ t \in InQueue(netTx)
    /\ netResult' = PopResult(netTx, t)
    /\ netTx' = IF netResult' = "Ok" THEN PopFrom(netTx, t) ELSE netTx
    /\ UNCHANGED <<netRx, rx_buffers, rxIdx, rxAt, netMem, netHeld, netFreed, netIn,
                   netRunts, netGot>>

\* send blocks until the device has the header and the packet (an empty packet is
\* sent without a second buffer).  can_send asks for two descriptors.
can_send == AvailableDesc(netTx, netCfg.indirect) >= 2

SendBuffers(len) == IF len = 0 THEN 1 ELSE 2

NetSend(len) ==
    /\ can_send
    /\ InQueue(netTx) = {}
    /\ netResult' = IF CanAddTo(netTx, SendBuffers(len), netCfg.indirect) THEN "Ok" ELSE "QueueFull"
    /\ UNCHANGED <<netRx, netTx, rx_buffers, rxIdx, rxAt, netMem, netHeld, netFreed, netIn,
                   netRunts, netGot>>

NetNext ==
    /\ UNCHANGED netCfg
    /\ NetUp
    /\ \/ Deliver \/ Transmit \/ Receive
       \/ \E b \in RxBuffers : RecycleRxBuffer(b) \/ receive_begin(b)
       \/ \E t \in RxBuffers : receive_complete(t) \/ transmit_complete(t)
       \/ \E len \in {0, HdrSize(netCfg.legacy)} : transmit_begin(len) \/ NetSend(len)

NetSpec == NetInit /\ [][NetNext]_<<netCfg, netVars>>

-----------------------------------------------------------------------------
(* Properties. *)

\* "The buffer lives as long as the queue": no buffer that was dropped is still
\* lent to the device.  It rests on the tokens of the receive queue being the
\* indices of the places that receive has emptied, in whatever order the
\* client recycles.
LentBuffersAlive == Range(rxAt) \cap netFreed = {}

\* A packet stays intact while the client holds its buffer.
HeldIntact == \A b \in DOMAIN netHeld : netMem[b] = netHeld[b]

\* Every packet the device delivered reaches the client, once and in order:
\* those it was given, followed by those in the used ring.
PacketsInOrder ==
    LET waiting == SelectSeq(netRx.used, LAMBDA t : PacketLen(netMem[rxAt[t]].len) # None)
    IN  netIn = netGot \o [i \in 1..Len(waiting) |-> netMem[rxAt[waiting[i]]].pkt]

\* The pool of VirtIONet loses a buffer only when the device returns one that is too
\* short for a header; otherwise every buffer is in the queue or with the client.
PoolAccounted ==
    netCfg.client = "net" /\ NetUp =>
        /\ Range(rxAt) \cup DOMAIN netHeld \cup netFreed = RxBuffers
        /\ Cardinality(netFreed) <= netRunts

\* Every receive buffer has one owner, who alone changes it: the queue, where it stays
\* alive, or the client, for whom its packet stays as it was received.
BuffersOwned == LentBuffersAlive /\ HeldIntact /\ PoolAccounted
=============================================================================
