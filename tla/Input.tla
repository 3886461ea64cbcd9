-------------------------------- MODULE Input --------------------------------
(***************************************************************************)
(* VirtIOInput (device/input.rs): a pool of event buffers that is always   *)
(* in the queue, and the select/subsel window of the configuration space.  *)
(* VirtIORng (device/rng.rs) is the one call of the entropy device.        *)
(***************************************************************************)
EXTENDS DriverQueue, Integers

CONSTANTS
    EvSize,      \* the size of the event queue
    MaxEvents,
    EvSizes      \* for every query of the configuration space the size the device reports

ASSUME EvAssumption == EvSize \in Nat \ {0} /\ MaxEvents \in Nat

VARIABLES
    evq,         \* the event queue
    event_buf,   \* the event in each buffer
    evIn,        \* the number of events the device has written; they are numbered
    evGot,       \* the events the client was given
    evWindow,    \* select and subsel as the device sees them
    evAnswer,    \* the result of the last query
    rngq,        \* the queue of the entropy device
    evPanic      \* an assertion of the driver has failed

evVars == <<evq, event_buf, evIn, evGot, evWindow, evAnswer, rngq, evPanic>>

\* InputConfigSelect; the queries that have a subsel.
Selects == {"IdName", "IdSerial", "IdDevids", "PropBits", "EvBits", "AbsInfo"}
Questions == (Selects \X {0}) \cup ({"EvBits", "AbsInfo"} \X {1})

CONFIG_DATA_MAX_LENGTH == 128
SizeOfDevIDs == 8
SizeOfAbsInfo == 20

EvInit ==
    /\ evq = [NewQueue(EvSize) EXCEPT !.free = <<>>, !.chain = [t \in 0..(EvSize - 1) |-> <<t>>],
                                      !.avail = [i \in 1..EvSize |-> i - 1]]
    /\ event_buf = [t \in 0..(EvSize - 1) |-> 0]
    /\ evIn = 0
    /\ evGot = <<>>
    /\ evWindow = <<"IdName", 0>>
    /\ evAnswer = "Ok"
    /\ rngq = NewQueue(EvSize)
    /\ evPanic = FALSE

\* The device writes the next event to the oldest buffer it has.
EvDeliver ==
    /\ evq.avail # <<>> /\ evIn < MaxEvents
    /\ event_buf' = [event_buf EXCEPT ![Head(evq.avail)] = evIn + 1]
    /\ evIn' = evIn + 1
    /\ evq' = UseNext(evq)
    /\ UNCHANGED <<evGot, evWindow, evAnswer, rngq, evPanic>>

\* Mutant: always the first buffer.
EventSlotFirst(token) == 0

EventSlot(token) == token

Requeue(q) == IF CanAddTo(q, 1, FALSE) THEN AddTo(q, 1, FALSE) ELSE q

\* pop_pending_event: copies the event, then puts the buffer back and asserts that
\* it got the same token.
PopPendingEvent ==
    /\ CanPopFrom(evq)
    /\ LET token == PeekUsed(evq)
           popped == PopFrom(evq, token)
       IN  /\ evGot' = Append(evGot, event_buf[EventSlot(token)])
           /\ evq' = Requeue(popped)
           /\ evPanic' = (evPanic \/ (evq' # popped /\ NextToken(popped) # token))
    /\ UNCHANGED <<event_buf, evIn, evWindow, evAnswer, rngq>>

\* query_config_select_alloc refuses a size beyond the data, ids and abs_info any
\* size but that of their structure.
QueryResult(select, size) ==
    CASE select = "IdDevids" -> IF size = SizeOfDevIDs THEN "Ok" ELSE "IoError"
      [] select = "AbsInfo" -> IF size = SizeOfAbsInfo THEN "Ok" ELSE "IoError"
      [] OTHER -> IF size > CONFIG_DATA_MAX_LENGTH THEN "IoError" ELSE "Ok"

\* name, serial_number, ids, prop_bits, ev_bits and abs_info: select and subsel are
\* written, then size and data are read.
Query(question) ==
    /\ evWindow' = question
    /\ \E size \in EvSizes : evAnswer' = QueryResult(question[1], size)
    /\ UNCHANGED <<evq, event_buf, evIn, evGot, rngq, evPanic>>

\* request_entropy waits for its only request.
RequestEntropy ==
    /\ rngq' = PopFrom(UseNext(AddTo(rngq, 1, FALSE)), NextToken(rngq))
    /\ UNCHANGED <<evq, event_buf, evIn, evGot, evWindow, evAnswer, evPanic>>

EvNext == EvDeliver \/ PopPendingEvent \/ RequestEntropy
          \/ \E question \in Questions : Query(question)

EvSpec == EvInit /\ [][EvNext]_evVars

-----------------------------------------------------------------------------
(* Properties. *)

\* Every event reaches the client once and in order: those it was given, followed
\* by those in the used ring.
EventsInOrder ==
    [i \in 1..evIn |-> i] = evGot \o [i \in 1..Len(evq.used) |-> event_buf[evq.used[i]]]

\* Every buffer is always lent, to its own token ("This only works because nothing
\* happen between pop_used and add"), so that no event finds the queue empty
\* because of the driver.
EventBuffersLent == InQueue(evq) = 0..(EvSize - 1) /\ ~evPanic

\* No event is lost, repeated or overtaken, and the buffers for more are never missing.
EventsKept == EventsInOrder /\ EventBuffersLent
=============================================================================
