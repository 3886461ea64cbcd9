------------------------------- MODULE Console -------------------------------
(***************************************************************************)
(* VirtIOConsole (device/console.rs) and its embedded-io traits: a single  *)
(* receive buffer that the driver lends to the device while it is empty.   *)
(* The clients: "recv" polls recv and ack_interrupt; "bufread" uses        *)
(* fill_buf and consume; "read" uses embedded_io::Read.                    *)
(***************************************************************************)
EXTENDS DriverQueue, Integers

CONSTANTS ConSize, ConCfgs, MaxBytes

VARIABLES
    conCfg,      \* client, indirect, emerg; fixed
    conRx,       \* the receive queue
    con,         \* cursor, pending_len, receive_token
    queue_buf_rx,\* the buffer: the bytes in it
    conIrq,      \* the device has raised its interrupt
    conCall,     \* the blocking call in progress
    conIn,       \* the number of bytes the device has received; they are numbered
    conGot,      \* the bytes the client was given
    conResult

conVars == <<conRx, con, queue_buf_rx, conIrq, conCall, conIn, conGot, conResult>>

NoToken == -1

\* poll_retrieve: one request at a time, and only when everything was read.
Retrieves(c) == c.receive_token = NoToken /\ c.cursor = c.pending_len

poll_retrieve(q, c) ==
    IF ~Retrieves(c) THEN [q |-> q, c |-> c]
    ELSE [q |-> AddTo(q, 1, conCfg.indirect), c |-> [c EXCEPT !.receive_token = NextToken(q)]]

\* VirtIOConsole::new lends the buffer at once.
ConInit ==
    /\ conCfg \in ConCfgs
    /\ LET start == [cursor |-> 0, pending_len |-> 0, receive_token |-> NoToken] IN
         /\ conRx = AddTo(NewQueue(ConSize), 1, FALSE)
         /\ con = [start EXCEPT !.receive_token = NextToken(NewQueue(ConSize))]
    /\ queue_buf_rx = <<>>
    /\ conIrq = FALSE
    /\ conCall = "idle"
    /\ conIn = 0
    /\ conGot = <<>>
    /\ conResult = "Ok"

\* The device writes the next bytes to the buffer it was lent.
ConDeliver ==
    /\ conRx.avail # <<>>
    /\ \E k \in 1..2 :
         /\ conIn + k <= MaxBytes
         /\ queue_buf_rx' = [i \in 1..k |-> conIn + i]
         /\ conIn' = conIn + k
    /\ conRx' = UseNext(conRx)
    /\ conIrq' = TRUE
    /\ UNCHANGED <<con, conCall, conGot, conResult>>

\* finish_receive: completes the outstanding request if the device has used it.
Finished(q, c) == c.receive_token # NoToken /\ CanPopFrom(q) /\ PeekUsed(q) = c.receive_token

finish_receive(q, c) ==
    IF Finished(q, c)
    THEN [q |-> PopFrom(q, c.receive_token),
          c |-> [cursor |-> 0, pending_len |-> Len(queue_buf_rx), receive_token |-> NoToken]]
    ELSE [q |-> q, c |-> c]

HasData(c) == c.cursor # c.pending_len

ConKeep == UNCHANGED <<queue_buf_rx, conIn>>

ConAckInterrupt ==
    LET f == finish_receive(conRx, con) IN
    /\ conCall = "idle"
    /\ conIrq' = FALSE
    /\ IF conIrq THEN conRx' = f.q /\ con' = f.c ELSE UNCHANGED <<conRx, con>>
    /\ conResult' = IF conIrq /\ Finished(conRx, con) THEN "true" ELSE "false"
    /\ ConKeep /\ UNCHANGED <<conCall, conGot>>


AfterPop(q, c) == poll_retrieve(q, c)

\* recv(pop): never blocks.
Recv(pop) ==
    LET f == finish_receive(conRx, con)
        p == AfterPop(f.q, [f.c EXCEPT !.cursor = @ + 1])
    IN  /\ conCfg.client = "recv" /\ conCall = "idle"
        /\ IF HasData(f.c)
           THEN /\ conResult' = "Some"
                /\ IF pop
                   THEN /\ conGot' = Append(conGot, queue_buf_rx[f.c.cursor + 1])
                        /\ conRx' = p.q /\ con' = p.c
                   ELSE conRx' = f.q /\ con' = f.c /\ UNCHANGED conGot
           ELSE conResult' = "None" /\ conRx' = f.q /\ con' = f.c /\ UNCHANGED conGot
        /\ ConKeep /\ UNCHANGED <<conIrq, conCall>>

\* send, send_bytes and write: add_notify_wait_pop on the transmit queue, which is
\* empty again when the call returns.
ConSend ==
    /\ conCall = "idle"
    /\ conResult' = "Ok"
    /\ ConKeep /\ UNCHANGED <<conRx, con, conIrq, conCall, conGot>>

emergency_write ==
    /\ conCall = "idle"
    /\ conResult' = IF conCfg.emerg THEN "Ok" ELSE "Unsupported"
    /\ ConKeep /\ UNCHANGED <<conRx, con, conIrq, conCall, conGot>>

\* wait_for_receive: asks for data, then spins on finish_receive.
WaitForReceive(call) ==
    LET p == poll_retrieve(conRx, con) IN
    /\ conCfg.client = call /\ conCall = "idle"
    /\ conCall' = "wait"
    /\ conRx' = p.q /\ con' = p.c
    /\ ConKeep /\ UNCHANGED <<conIrq, conGot, conResult>>

Waited ==
    LET f == finish_receive(conRx, con) IN
    /\ conCall = "wait"
    /\ HasData(f.c)
    /\ conRx' = f.q /\ con' = f.c
    /\ conCall' = "ready"
    /\ ConKeep /\ UNCHANGED <<conIrq, conGot, conResult>>

Pending == SubSeq(queue_buf_rx, con.cursor + 1, con.pending_len)

\* The slice of fill_buf is read, then n bytes of it are consumed.
Consume(n) ==
    /\ conCfg.client = "bufread" /\ conCall = "ready"
    /\ con.cursor + n <= con.pending_len
    /\ con' = [con EXCEPT !.cursor = @ + n]
    /\ conGot' = conGot \o SubSeq(Pending, 1, n)
    /\ conCall' = "idle"
    /\ ConKeep /\ UNCHANGED <<conRx, conIrq, conResult>>

\* Read::read copies up to n bytes; the cursor stays where it is.
ConRead(n) ==
    /\ conCfg.client = "read" /\ conCall = "ready"
    /\ conGot' = conGot \o SubSeq(Pending, 1, IF n < Len(Pending) THEN n ELSE Len(Pending))
    /\ Len(conGot') <= MaxBytes
    /\ conCall' = "idle"
    /\ ConKeep /\ UNCHANGED <<conRx, con, conIrq, conResult>>

ReadReady ==
    LET f == finish_receive(conRx, con) IN
    /\ conCfg.client # "recv" /\ conCall = "idle"
    /\ conRx' = f.q /\ con' = f.c
    /\ conResult' = IF HasData(f.c) THEN "true" ELSE "false"
    /\ ConKeep /\ UNCHANGED <<conIrq, conCall, conGot>>

ConNext ==
    /\ UNCHANGED conCfg
    /\ \/ ConDeliver \/ ConAckInterrupt \/ ConSend \/ emergency_write \/ ReadReady \/ Waited
       \/ \E pop \in BOOLEAN : Recv(pop)
       \/ \E call \in {"bufread", "read"} : WaitForReceive(call)
       \/ \E n \in 1..2 : Consume(n) \/ ConRead(n)

\* The device delivers what it has, and a client keeps calling.
ConFairness ==
    /\ WF_conVars(ConDeliver /\ UNCHANGED conCfg)
    /\ WF_conVars(Recv(TRUE) /\ UNCHANGED conCfg)
    /\ WF_conVars(WaitForReceive("bufread") /\ UNCHANGED conCfg)
    /\ WF_conVars(Waited /\ UNCHANGED conCfg)
    /\ WF_conVars(Consume(1) /\ UNCHANGED conCfg)

-----------------------------------------------------------------------------
(* Properties. *)

\* The client is given the bytes the device received, each of them once and in order.
BytesOnce == conGot = [i \in 1..Len(conGot) |-> i] /\ Len(conGot) <= conIn

=============================================================================
