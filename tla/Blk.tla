--------------------------------- MODULE Blk ---------------------------------
(***************************************************************************)
(* VirtIOBlk (device/blk.rs) and a disk with a write-back cache.  A client *)
(* submits reads and writes, completes them by token in any order, and     *)
(* makes blocking calls while none of its requests is in the queue.  The   *)
(* disk finishes requests in any order, and may lose power.                *)
(***************************************************************************)
EXTENDS DriverQueue, TLC

CONSTANTS Sectors, Blocks, BlkSize, BlkCfgs,
    BlkWindow    \* the most requests the client keeps in the queue

VARIABLES
    blkCfg,      \* negotiated features: indirect, flush; fixed
    bq,          \* the queue
    blkReq,      \* for every token: type, sector, data, status
    disk,        \* what the device reads, with its cache
    medium,      \* what survives a power loss
    blkMay,      \* for every sector: what the medium may hold, by the promise of flush
    blkSeen,     \* for every token of a read: what the sector has held since it was submitted
    blkResult    \* the result of the last call

blkVars == <<bq, blkReq, disk, medium, blkMay, blkSeen, blkResult>>

Blank == "blank"
Junk == "junk"
Values == Blocks \cup {Blank}

RespStatuses == {"OK", "IO_ERR", "UNSUPPORTED", "NOT_READY"}

\* Mutant: only the statuses that have a name of their own are errors.
StatusResultNamed(status) ==
    CASE status = "UNSUPPORTED" -> "Unsupported"
      [] status = "NOT_READY" -> "NotReady"
      [] OTHER -> "Ok"

\* From<RespStatus> for Result.
StatusResult(status) ==
    CASE status = "OK" -> "Ok"
      [] status = "UNSUPPORTED" -> "Unsupported"
      [] status = "NOT_READY" -> "NotReady"
      [] OTHER -> "IoError"

BlkInit ==
    /\ blkCfg \in BlkCfgs
    /\ bq = NewQueue(BlkSize)
    /\ blkReq = <<>>
    /\ disk = [s \in Sectors |-> Blank]
    /\ medium = disk
    /\ blkMay = [s \in Sectors |-> {Blank}]
    /\ blkSeen = <<>>
    /\ blkResult = [op |-> "none", result |-> "Ok", data |-> Junk, seen |-> {Junk}]

Answer(op, result) ==
    blkResult' = [op |-> op, result |-> result, data |-> Junk, seen |-> {Junk}]

-----------------------------------------------------------------------------
(* What the device does with a request. *)

\* Without VIRTIO_BLK_F_FLUSH the device writes through.
Store(s, v) ==
    /\ disk' = [disk EXCEPT ![s] = v]
    /\ medium' = IF blkCfg.flush THEN medium ELSE [medium EXCEPT ![s] = v]
    /\ blkSeen' = [t \in DOMAIN blkSeen |->
                      IF blkReq[t].sector = s THEN blkSeen[t] \cup {v} ELSE blkSeen[t]]

\* The cache is written back at any time.
WriteBack ==
    /\ \E s \in Sectors : medium[s] # disk[s] /\ medium' = [medium EXCEPT ![s] = disk[s]]
    /\ UNCHANGED <<bq, blkReq, disk, blkMay, blkSeen, blkResult>>

\* After a power loss the disk holds what the medium holds.
PowerLoss ==
    /\ bq.avail = <<>> /\ bq.used = <<>>
    /\ disk' = medium
    /\ blkMay' = [s \in Sectors |-> {medium[s]}]
    /\ UNCHANGED <<bq, blkReq, medium, blkSeen, blkResult>>

BlkServe ==
    \E i \in 1..Len(bq.avail) :
        LET t == bq.avail[i]
            r == blkReq[t]
        IN  /\ bq' = UseAny(bq, i)
            /\ \/ /\ blkReq' = [blkReq EXCEPT ![t].status = "IO_ERR"]
                  /\ UNCHANGED <<disk, medium, blkSeen>>
               \/ /\ r.type = "In"
                  /\ blkReq' = [blkReq EXCEPT ![t].status = "OK", ![t].data = disk[r.sector]]
                  /\ UNCHANGED <<disk, medium, blkSeen>>
               \/ /\ r.type = "Out"
                  /\ blkReq' = [blkReq EXCEPT ![t].status = "OK"]
                  /\ Store(r.sector, r.data)
            /\ UNCHANGED <<blkMay, blkResult>>

-----------------------------------------------------------------------------
(* Blocking calls: add_notify_wait_pop, so the device answers at once. *)

Quiet == InQueue(bq) = {}

\* request_read with In; the data is there when the status is OK.
ReadBlocks(s) ==
    /\ Quiet
    /\ \E status \in {"OK", "IO_ERR"} :
         blkResult' = [op |-> "read", result |-> StatusResult(status), seen |-> {disk[s]},
                       data |-> IF status = "OK" THEN disk[s] ELSE Junk]
    /\ UNCHANGED <<bq, blkReq, disk, medium, blkMay, blkSeen>>

\* request_write with Out.
WriteBlocks(s, v) ==
    /\ Quiet
    /\ \E status \in {"OK", "IO_ERR"} :
         /\ Answer("write", StatusResult(status))
         /\ IF status = "OK" THEN Store(s, v) ELSE UNCHANGED <<disk, medium, blkSeen>>
    /\ blkMay' = [blkMay EXCEPT ![s] = @ \cup {v}]
    /\ UNCHANGED <<bq, blkReq>>

\* Mutant: a flush is sent to the devices that have no cache.
NeedsFlushInverted == ~blkCfg.flush

NeedsFlush == blkCfg.flush

\* flush: a request if the device has the feature, otherwise nothing.  When it
\* returns Ok, every completed write is meant to be on the medium.
Flush ==
    /\ Quiet
    /\ \E status \in {"OK", "IO_ERR"} :
         LET result == IF NeedsFlush THEN StatusResult(status) ELSE "Ok"
         IN  /\ Answer("flush", result)
             /\ medium' = IF NeedsFlush /\ blkCfg.flush /\ status = "OK" THEN disk ELSE medium
             /\ blkMay' = IF result = "Ok" THEN [s \in Sectors |-> {disk[s]}] ELSE blkMay
    /\ UNCHANGED <<bq, blkReq, disk, blkSeen>>

\* device_id: request_read with GetId.
DeviceId ==
    /\ Quiet
    /\ \E status \in RespStatuses : Answer("id", StatusResult(status))
    /\ UNCHANGED <<bq, blkReq, disk, medium, blkMay, blkSeen>>

-----------------------------------------------------------------------------
(* Requests that return a token. *)

\* A request of three descriptors; resp starts as NOT_READY.
BlkSubmit(op, type, s, v) ==
  /\ Cardinality(InQueue(bq)) < BlkWindow
  /\ IF CanAddTo(bq, 3, blkCfg.indirect)
    THEN LET t == NextToken(bq) IN
         /\ bq' = AddTo(bq, 3, blkCfg.indirect)
         /\ blkReq' = (t :> [type |-> type, sector |-> s, data |-> v, status |-> "NOT_READY"]) @@ blkReq
         /\ blkSeen' = IF type = "In" THEN (t :> {disk[s]}) @@ blkSeen ELSE blkSeen
         /\ blkMay' = IF type = "Out" THEN [blkMay EXCEPT ![s] = @ \cup {v}] ELSE blkMay
         /\ Answer(op, "Ok")
         /\ UNCHANGED <<disk, medium>>
    ELSE Answer(op, "QueueFull") /\ UNCHANGED <<bq, blkReq, blkSeen, blkMay, disk, medium>>

ReadBlocksNb(s) == BlkSubmit("read_nb", "In", s, Junk)

WriteBlocksNb(s, v) == BlkSubmit("write_nb", "Out", s, v)

Completes(t) == PopResult(bq, t)

\* complete_read_blocks, complete_write_blocks: pop_used with the buffers of
\* the request, then its status.
Complete(t) ==
    /\ t \in InQueue(bq)
    /\ IF Completes(t) = "Ok"
       THEN /\ bq' = PopFrom(bq, PeekUsed(bq))
            /\ blkReq' = Restrict(blkReq, DOMAIN blkReq \ {t})
            /\ blkSeen' = Restrict(blkSeen, DOMAIN blkSeen \ {t})
            /\ blkResult' = [op |-> IF blkReq[t].type = "In" THEN "read" ELSE "write",
                             result |-> StatusResult(blkReq[t].status),
                             data |-> blkReq[t].data,
                             seen |-> IF blkReq[t].type = "In" THEN blkSeen[t] ELSE {Junk}]
       ELSE Answer("complete", Completes(t)) /\ UNCHANGED <<bq, blkReq, blkSeen>>
    /\ UNCHANGED <<disk, medium, blkMay>>

BlkCall ==
    \/ Flush \/ DeviceId
    \/ \E s \in Sectors : ReadBlocks(s) \/ ReadBlocksNb(s)
    \/ \E s \in Sectors, v \in Values : WriteBlocks(s, v) \/ WriteBlocksNb(s, v)
    \/ \E t \in 0..(BlkSize - 1) : Complete(t)

BlkNext == UNCHANGED blkCfg /\ (BlkCall \/ BlkServe \/ WriteBack \/ PowerLoss)

-----------------------------------------------------------------------------
(* Properties. *)

\* A read that returns Ok delivers what its sector held at some moment between
\* the submission and the completion, never an untouched buffer or the data
\* of another request (complete_read_blocks checks the token).
ReadsAreReal ==
    blkResult.op = "read" /\ blkResult.result = "Ok" => blkResult.data \in blkResult.seen

\* What flush promises: a block that was written before a successful flush,
\* and not since, is on the medium and survives a loss of power.
FlushPersists == \A s \in Sectors : medium[s] \in blkMay[s]
=============================================================================
