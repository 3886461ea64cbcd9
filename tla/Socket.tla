------------------------------- MODULE Socket -------------------------------
(***************************************************************************)
(* The VirtIO socket driver: VsockConnectionManager                        *)
(* (device/socket/connectionmanager.rs) on top of VirtIOSocket             *)
(* (device/socket/vsock.rs), and a peer that speaks the same protocol.     *)
(*                                                                         *)
(* A key stands for a peer address together with a local port. The bytes   *)
(* the peer sends on a connection are numbered 1, 2, ...; the u32 counters *)
(* of the credit scheme wrap at Mod.                                       *)
(***************************************************************************)
EXTENDS Integers, FiniteSets, Sequences, SequencesExt

CONSTANTS
  Keys,
  Capacity,       \* per_connection_buffer_capacity
  PeerCapacity,   \* receive buffer of the peer
  Mod,            \* 2^32 in the code
  Loads           \* bounds: [keys, up, down, opens, depth], the keys in use, bytes
                  \* sent on a connection to and from the peer, connections
                  \* opened, and packets under way when an end still sends

ASSUME SocketAssumption ==
  /\ Capacity \in Nat \ {0} /\ PeerCapacity \in Nat \ {0}
  /\ Mod \in Nat /\ Mod > Capacity /\ Mod > PeerCapacity

VARIABLES
  connections,    \* Vec<Connection>
  listening,      \* listening_ports, as keys
  tx, rx,         \* packets on their way to the peer and from the peer
  connected,      \* keys for which the client knows of a connection
  peer,           \* the peer's end of each connection
  up,             \* bytes the client has sent on each connection
  sent, received, \* bytes the peer has sent, and the client has read
  opens,          \* connections opened so far
  load            \* the bounds of this behaviour, an element of Loads

sockVars == <<connections, listening, tx, rx, connected, peer, up,
              sent, received, opens>>

-----------------------------------------------------------------------------
\* VirtioVsockOp
Ops == {"Invalid", "Request", "Response", "Rst", "Shutdown", "Rw", "CreditUpdate",
        "CreditRequest"}

\* RingBuffer
Rings == [bytes : [0..Capacity - 1 -> Nat], used : 0..Capacity, start : 0..Capacity - 1]
-----------------------------------------------------------------------------
\* Operations of RingBuffer

RingNew == [bytes |-> [i \in 0..Capacity - 1 |-> 0], used |-> 0, start |-> 0]

RingFree(b) == Capacity - b.used

\* Mutant: the part after the wraparound starts with the first byte again.
RingAddRestart(b, body) ==
  LET first == (b.start + b.used) % Capacity
  IN [b EXCEPT !.bytes = [i \in 0..Capacity - 1 |->
         IF i >= first /\ i < first + Len(body) THEN body[i - first + 1]
         ELSE IF i < first + Len(body) - Capacity THEN body[i + 1] ELSE b.bytes[i]],
       !.used = @ + Len(body)]

\* add, for bytes that fit: the part before the end of the buffer, then the
\* part after the wraparound.
RingAdd(b, body) ==
  LET first == (b.start + b.used) % Capacity
      before == IF Len(body) < Capacity - first THEN Len(body) ELSE Capacity - first
      At(i) == IF i >= first /\ i < first + before THEN body[i - first + 1]
               ELSE IF i < Len(body) - before THEN body[before + i + 1]
               ELSE b.bytes[i]
  IN [b EXCEPT !.bytes = [i \in 0..Capacity - 1 |-> At(i)], !.used = @ + Len(body)]

\* drain into a buffer of n bytes: the bytes read and the buffer left.
RingDrain(b, n) ==
  LET read == IF b.used < n THEN b.used ELSE n
      before == IF read < Capacity - b.start THEN read ELSE Capacity - b.start
  IN [out |-> [i \in 1..read |-> IF i <= before THEN b.bytes[b.start + i - 1]
                                 ELSE b.bytes[i - before - 1]],
      left |-> [b EXCEPT !.used = @ - read, !.start = (@ + read) % Capacity]]

-----------------------------------------------------------------------------
\* ConnectionInfo and packets

\* Connection::new with ConnectionInfo::new
NewConnection(k) ==
  [key |-> k, peer_buf_alloc |-> 0, peer_fwd_cnt |-> 0, tx_cnt |-> 0,
   buf_alloc |-> Capacity, fwd_cnt |-> 0, pending |-> FALSE,
   buffer |-> RingNew, shut |-> FALSE]

Find(k) == {i \in DOMAIN connections : connections[i].key = k}

\* get_connection and get_connection_for_event: the first that matches
Index(k) == CHOOSE i \in Find(k) : \A j \in Find(k) : i <= j

SwapRemoveAt(s, i) ==
  [j \in 1..Len(s) - 1 |-> IF j = i THEN s[Len(s)] ELSE s[j]]

\* Mutant: the pending credit request is not cleared.
UpdateKeepsPending(c, pkt) ==
  [c EXCEPT !.peer_buf_alloc = pkt.buf_alloc, !.peer_fwd_cnt = pkt.fwd_cnt]

Update(c, pkt) ==
  [c EXCEPT !.peer_buf_alloc = pkt.buf_alloc, !.peer_fwd_cnt = pkt.fwd_cnt,
            !.pending = @ /\ pkt.op # "CreditUpdate"]

DoneForwarding(c, n) == [c EXCEPT !.fwd_cnt = (@ + n) % Mod]


PeerFree(c) == (c.peer_buf_alloc - (c.tx_cnt - c.peer_fwd_cnt)) % Mod

Header(c, op, len) ==
  [key |-> c.key, op |-> op, len |-> len, buf_alloc |-> c.buf_alloc,
   fwd_cnt |-> c.fwd_cnt]

\* connect, accept, request_credit, credit_update, shutdown and force_close
\* of VirtIOSocket: a packet that is a header only. add_notify_wait_pop
\* returns when the device has taken it.
SendPacket(c, op) == tx' = Append(tx, Header(c, op, 0))

\* read_header_and_body: the used length holds a header and the body it names.
Complete(pkt) == pkt.op # "TooShort" /\ pkt.len <= Len(pkt.body)

\* VsockEvent::from_header: the packets that are events
IsEvent(pkt) == pkt.op \in Ops \ {"Invalid"} /\ (pkt.op = "Rw" \/ pkt.len = 0)

Refused(pkt) == ~Complete(pkt) \/ ~IsEvent(pkt)

\* The packet is for this guest (matches_connection compares the CID).
Ours(pkt) == pkt.cid = "guest"
-----------------------------------------------------------------------------
\* Operations of the client

SockInit ==
  /\ connections = <<>> /\ listening = {} /\ tx = <<>> /\ rx = <<>>
  /\ connected = {} /\ opens = 0 /\ load \in Loads
  /\ peer = [k \in Keys |-> [st |-> "closed", tx |-> 0, buf |-> 0, fwd |-> 0,
                             held |-> 0, done |-> 0, asked |-> FALSE]]
  /\ up = [k \in Keys |-> 0]
  /\ sent = [k \in Keys |-> <<>>] /\ received = [k \in Keys |-> <<>>]

Listen(k) ==
  /\ k \notin listening
  /\ listening' = listening \union {k}
  /\ UNCHANGED <<connections, tx, rx, connected, peer, up, sent, received, opens>>

Unlisten(k) ==
  /\ k \in listening
  /\ listening' = listening \ {k}
  /\ UNCHANGED <<connections, tx, rx, connected, peer, up, sent, received, opens>>

\* Neither end still has a connection with the addresses, and nothing of an earlier
\* one is under way: clients take fresh ports.
Quiet(k) ==
  /\ peer[k].st = "closed"
  /\ \A pkts \in {tx, rx} : \A i \in DOMAIN pkts : pkts[i].key # k
  /\ Find(k) = {}

Connect(k) ==
  /\ opens < load.opens /\ Quiet(k)
  /\ Find(k) = {}                       \* else ConnectionExists
  /\ LET c == NewConnection(k) IN
     /\ SendPacket(c, "Request")
     /\ connections' = Append(connections, c)
  /\ opens' = opens + 1
  /\ up' = [up EXCEPT ![k] = 0] /\ received' = [received EXCEPT ![k] = <<>>]
  /\ UNCHANGED <<listening, rx, connected, peer, sent>>

\* send of n bytes with check_peer_buffer_is_sufficient. The client sends
\* once it has seen the connection established.
Send(k, n) ==
  /\ k \in connected /\ Find(k) # {}
  /\ up[k] + n <= load.up /\ Len(tx) < load.depth
  /\ LET i == Index(k)
         c == connections[i]
     IN \/ /\ PeerFree(c) >= n
           /\ tx' = Append(tx, Header(c, "Rw", n))
           /\ connections' = [connections EXCEPT ![i].tx_cnt = (@ + n) % Mod]
           /\ up' = [up EXCEPT ![k] = @ + n]
        \/ /\ PeerFree(c) < n           \* InsufficientBufferSpaceInPeer
           /\ ~c.pending
           /\ SendPacket(c, "CreditRequest")
           /\ connections' = [connections EXCEPT ![i].pending = TRUE]
           /\ UNCHANGED up
  /\ UNCHANGED <<listening, rx, connected, peer, sent, received, opens>>

\* Mutant: a shutdown of the peer is forgotten when data is left.
ClosesNever(c, left) == FALSE /\ c.shut

\* The peer asked to close and the last byte has been read.
Closes(c, left) == c.shut /\ left.used = 0

\* recv into a buffer of n bytes
Recv(k, n) ==
  /\ Find(k) # {}
  /\ LET i == Index(k)
         c == connections[i]
         d == RingDrain(c.buffer, n)
         drained == [DoneForwarding(c, Len(d.out)) EXCEPT !.buffer = d.left]
         closes == Closes(c, d.left)
     IN /\ Len(d.out) > 0 \/ closes     \* else nothing changes
        /\ received' = [received EXCEPT ![k] = @ \o d.out]
        /\ IF closes
           THEN /\ SendPacket(drained, "Rst")
                /\ connections' = SwapRemoveAt(connections, i)
                /\ connected' = connected \ {k}
           ELSE /\ connections' = [connections EXCEPT ![i] = drained]
                /\ UNCHANGED <<tx, connected>>
  /\ UNCHANGED <<listening, rx, peer, up, sent, opens>>

\* update_credit
UpdateCredit(k) ==
  /\ k \in connected /\ Find(k) # {} /\ tx = <<>> /\ load.depth > 0
  /\ SendPacket(connections[Index(k)], "CreditUpdate")
  /\ UNCHANGED <<connections, listening, rx, connected, peer, up, sent, received, opens>>

\* shutdown; the client does not send afterwards.
Shutdown(k) ==
  /\ k \in connected /\ Find(k) # {}
  /\ SendPacket(connections[Index(k)], "Shutdown")
  /\ connected' = connected \ {k}
  /\ UNCHANGED <<connections, listening, rx, peer, up, sent, received, opens>>

\* force_close
ForceClose(k) ==
  /\ Find(k) # {}
  /\ SendPacket(connections[Index(k)], "Rst")
  /\ connections' = SwapRemoveAt(connections, Index(k))
  /\ connected' = connected \ {k}
  /\ UNCHANGED <<listening, rx, peer, up, sent, received, opens>>

-----------------------------------------------------------------------------
\* poll: the event at the head of the receive queue. The buffer goes back to
\* the queue whatever the handler returns (OwningQueue::poll).

Known(pkt) == Ours(pkt) /\ Find(pkt.key) # {}

\* Errors of the parser, and events that belong to no connection
PollSkip(pkt) ==
  /\ \/ Refused(pkt)
     \/ ~Known(pkt) /\ ~(pkt.op = "Request" /\ Ours(pkt))
  /\ UNCHANGED <<connections, tx, connected, received, up>>

\* A request adds a connection unless there is one; the port decides.
PollRequest(pkt) ==
  /\ ~Refused(pkt) /\ Ours(pkt) /\ pkt.op = "Request"
  /\ LET all == IF Known(pkt) THEN connections
                ELSE Append(connections, NewConnection(pkt.key))
         i == IF Known(pkt) THEN Index(pkt.key) ELSE Len(all)
         c == Update(all[i], pkt)
     IN \/ /\ pkt.key \in listening
           /\ SendPacket(c, "Response")
           /\ connections' = [all EXCEPT ![i] = c]
           /\ connected' = connected \union {pkt.key}
        \/ /\ pkt.key \notin listening
           /\ SendPacket(c, "Rst")
           /\ connections' = SwapRemoveAt(all, i)
           /\ connected' = connected \ {pkt.key}
  /\ IF Known(pkt) THEN UNCHANGED <<received, up>>
     ELSE /\ received' = [received EXCEPT ![pkt.key] = <<>>]
          /\ up' = [up EXCEPT ![pkt.key] = 0]

\* Connected, CreditUpdate and CreditRequest
PollInfo(pkt) ==
  /\ ~Refused(pkt) /\ Known(pkt)
  /\ pkt.op \in {"Response", "CreditUpdate", "CreditRequest"}
  /\ LET i == Index(pkt.key)
         c == Update(connections[i], pkt)
     IN /\ connections' = [connections EXCEPT ![i] = c]
        /\ IF pkt.op = "CreditRequest" THEN SendPacket(c, "CreditUpdate") ELSE UNCHANGED tx
  /\ connected' = IF pkt.op = "Response" THEN connected \union {pkt.key} ELSE connected
  /\ UNCHANGED <<received, up>>

\* Received: the body goes to the ring buffer, or is refused whole
\* (OutputBufferTooShort) when the connection's info is already updated.
PollReceived(pkt) ==
  /\ ~Refused(pkt) /\ Known(pkt) /\ pkt.op = "Rw"
  /\ LET i == Index(pkt.key)
         c == Update(connections[i], pkt)
     IN connections' = [connections EXCEPT ![i] =
          IF Len(pkt.body) > RingFree(c.buffer) THEN c
          ELSE [c EXCEPT !.buffer = RingAdd(c.buffer, pkt.body)]]
  /\ UNCHANGED <<tx, connected, received, up>>

\* Disconnected, by a reset or by a shutdown of the peer
PollDisconnected(pkt) ==
  /\ ~Refused(pkt) /\ Known(pkt) /\ pkt.op \in {"Rst", "Shutdown"}
  /\ LET i == Index(pkt.key)
         c == Update(connections[i], pkt)
     IN \/ /\ c.buffer.used = 0
           /\ IF pkt.op = "Shutdown" THEN SendPacket(c, "Rst") ELSE UNCHANGED tx
           /\ connections' = SwapRemoveAt(connections, i)
        \/ /\ c.buffer.used > 0
           /\ connections' = [connections EXCEPT ![i] = [c EXCEPT !.shut = TRUE]]
           /\ UNCHANGED tx
  /\ connected' = connected \ {pkt.key}
  /\ UNCHANGED <<received, up>>

PollEvent(pkt) ==
  PollSkip(pkt) \/ PollRequest(pkt) \/ PollInfo(pkt) \/ PollReceived(pkt)
    \/ PollDisconnected(pkt)

Poll ==
  /\ rx # <<>>
  /\ rx' = Tail(rx)
  /\ PollEvent(Head(rx))
  /\ UNCHANGED <<listening, peer, sent, opens>>

-----------------------------------------------------------------------------
\* The peer, which keeps to the protocol

PeerOpen(k, st, buf) ==
  [st |-> st, tx |-> 0, buf |-> buf, fwd |-> 0, held |-> 0, done |-> 0,
   asked |-> FALSE]

Pkt(k, op, body) ==
  [key |-> k, cid |-> "guest", op |-> op, len |-> Len(body), body |-> body,
   buf_alloc |-> PeerCapacity, fwd_cnt |-> peer[k].done]

Reply(k, op) == rx' = Append(rx, [Pkt(k, op, <<>>) EXCEPT !.fwd_cnt = peer'[k].done])

\* The peer takes the next packet of the guest.
PeerTake ==
  /\ tx # <<>> /\ Len(rx) <= load.depth
  /\ tx' = Tail(tx)
  /\ LET pkt == Head(tx)
         k == pkt.key
         p == [peer[k] EXCEPT !.buf = pkt.buf_alloc, !.fwd = pkt.fwd_cnt]
         Become(q) == peer' = [peer EXCEPT ![k] = q]
     IN \/ /\ pkt.op = "Request"
           /\ \/ /\ p.st = "closed"
                 /\ Become(PeerOpen(k, "open", pkt.buf_alloc)) /\ Reply(k, "Response")
                 /\ sent' = [sent EXCEPT ![k] = <<>>]
              \/ Become([p EXCEPT !.st = "closed"]) /\ Reply(k, "Rst") /\ UNCHANGED sent
        \/ /\ pkt.op = "Response"
           /\ IF p.st = "requested" THEN Become([p EXCEPT !.st = "open"]) /\ UNCHANGED rx
              ELSE Become([p EXCEPT !.st = "closed"]) /\ Reply(k, "Rst")
           /\ UNCHANGED sent
        \/ /\ pkt.op = "Rst"
           /\ Become([p EXCEPT !.st = "closed"]) /\ UNCHANGED <<rx, sent>>
        \/ /\ pkt.op \in {"Shutdown", "Rw", "CreditUpdate", "CreditRequest"}
           /\ IF p.st = "closed" \/ pkt.op = "Shutdown"
              THEN Become([p EXCEPT !.st = "closed"]) /\ Reply(k, "Rst")
              ELSE /\ Become([p EXCEPT !.held = @ + pkt.len,
                                       !.asked = @ /\ pkt.op # "CreditUpdate"])
                   /\ IF pkt.op = "CreditRequest" THEN Reply(k, "CreditUpdate")
                      ELSE UNCHANGED rx
           /\ UNCHANGED sent
  /\ UNCHANGED <<connections, listening, connected, up, received, opens>>

PeerRequest(k) ==
  /\ opens < load.opens /\ Quiet(k) /\ peer[k].st = "closed"
  /\ peer' = [peer EXCEPT ![k] = PeerOpen(k, "requested", 0)]
  /\ Reply(k, "Request")
  /\ sent' = [sent EXCEPT ![k] = <<>>]
  /\ opens' = opens + 1
  /\ UNCHANGED <<connections, listening, tx, connected, up, received>>

\* Credit the peer has: what the guest announced less what is under way.
PeerCredit(k) == (peer[k].buf - (peer[k].tx - peer[k].fwd)) % Mod

PeerSend(k, n) ==
  /\ peer[k].st = "open" /\ Len(rx) < load.depth
  /\ n <= PeerCredit(k) /\ Len(sent[k]) + n <= load.down
  /\ LET body == [i \in 1..n |-> Len(sent[k]) + i]
     IN /\ rx' = Append(rx, Pkt(k, "Rw", body))
        /\ sent' = [sent EXCEPT ![k] = @ \o body]
  /\ peer' = [peer EXCEPT ![k].tx = (@ + n) % Mod]
  /\ UNCHANGED <<connections, listening, tx, connected, up, received, opens>>

PeerAskCredit(k) ==
  /\ peer[k].st = "open" /\ PeerCredit(k) = 0 /\ ~peer[k].asked
  /\ Len(sent[k]) < load.down
  /\ rx' = Append(rx, Pkt(k, "CreditRequest", <<>>))
  /\ peer' = [peer EXCEPT ![k].asked = TRUE]
  /\ UNCHANGED <<connections, listening, tx, connected, up, sent, received, opens>>

PeerProcess(k) ==
  /\ peer[k].held > 0
  /\ peer' = [peer EXCEPT ![k].held = @ - 1, ![k].done = (@ + 1) % Mod]
  /\ UNCHANGED <<connections, listening, tx, rx, connected, up, sent, received, opens>>

PeerClose(k) ==
  /\ peer[k].st = "open"
  /\ \E op \in {"Shutdown", "Rst"} :
       /\ rx' = Append(rx, Pkt(k, op, <<>>))
       /\ peer' = [peer EXCEPT ![k].st = IF op = "Rst" THEN "closed" ELSE "closing"]
  /\ UNCHANGED <<connections, listening, tx, connected, up, sent, received, opens>>

\* A packet the driver refuses, or a request for another guest
PeerStray(k) ==
  /\ peer[k].st = "open" /\ rx = <<>> /\ load.depth > 0
  /\ \/ \E op \in {"TooShort", "Invalid", "Unknown", "Response"} :
          rx' = Append(rx, [Pkt(k, op, <<>>) EXCEPT !.len = 1])
     \/ rx' = Append(rx, [Pkt(k, "Request", <<>>) EXCEPT !.cid = "other"])
  /\ UNCHANGED <<connections, listening, tx, connected, peer, up, sent, received, opens>>

-----------------------------------------------------------------------------
Client(k) ==
  \/ Listen(k) \/ Unlisten(k) \/ Connect(k) \/ Shutdown(k) \/ ForceClose(k)
  \/ UpdateCredit(k)
  \/ \E n \in 1..PeerCapacity : Send(k, n)
  \/ \E n \in 1..Capacity : Recv(k, n)

Peer(k) ==
  \/ PeerRequest(k) \/ PeerAskCredit(k) \/ PeerProcess(k) \/ PeerClose(k)
  \/ PeerStray(k)
  \/ \E n \in 1..Capacity : PeerSend(k, n)

SockNext ==
  /\ Poll \/ PeerTake \/ \E k \in load.keys : Client(k) \/ Peer(k)
  /\ UNCHANGED load

\* A thread polls, the client reads what has arrived, and the peer answers.
SockFairness ==
  /\ WF_sockVars(Poll) /\ WF_sockVars(PeerTake)
  /\ \A k \in Keys : WF_sockVars(Recv(k, Capacity)) /\ WF_sockVars(PeerProcess(k))

SockSpec == SockInit /\ [][SockNext]_<<sockVars, load>> /\ SockFairness

-----------------------------------------------------------------------------
\* The bytes of data packets of k among pkts
InFlight(pkts, k) ==
  FoldLeft(LAMBDA n, pkt : IF pkt.key = k /\ pkt.op = "Rw" THEN n + pkt.len ELSE n, 0, pkts)

\* peer_free never lets send overrun the buffer of the peer, also when the
\* counters have wrapped.
CreditKept == \A k \in Keys : peer[k].st \in {"open", "closing"} =>
                peer[k].held + InFlight(tx, k) <= PeerCapacity

\* The credit that the headers announce covers all data under way: a body
\* that arrives always fits into the ring buffer (no OutputBufferTooShort).
RoomForData == \A i \in DOMAIN connections :
  InFlight(rx, connections[i].key) <= RingFree(connections[i].buffer)


\* The client reads the bytes of the peer in order, each once.
Stream == INSTANCE ByteStream WITH Conns <- Keys
InOrder == Stream!StreamSpec

\* A credit request is answered, or the connection goes away: the flag that
\* keeps the sender from asking again does not stay.
CreditAnswered == \A k \in Keys :
  (\E i \in Find(k) : connections[i].pending) ~> (\A i \in Find(k) : ~connections[i].pending)

\* A connection whose peer has asked to close it is closed once the client
\* has read the rest of the data.
ShutdownCompletes == \A k \in Keys :
  (\E i \in Find(k) : connections[i].shut) ~> (\A i \in Find(k) : ~connections[i].shut)
=============================================================================
