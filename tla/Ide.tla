-------------------------------- MODULE Ide --------------------------------
(***************************************************************************)
(* One channel of the IDE driver (kernel/src/device/ide.rs) and the block  *)
(* devices and partitions above it (kernel/src/storage).  The channel has  *)
(* a Mutex that is held for a whole request, so requests come one after    *)
(* the other; the drive, its DMA engine, the interrupt handler and the     *)
(* clock run beside the request.                                           *)
(*                                                                         *)
(* A sector holds one value.  The selector byte of drive_head is a record  *)
(* of its three fields.  Registers are Byte wide: a 28 bit address has     *)
(* three of them and the head field of the selector.                       *)
(***************************************************************************)
EXTENDS Integers, Sequences, FiniteSets

CONSTANTS Byte,      \* 2^8: sector_count, lba_low, lba_mid, lba_high
          SlotMod,   \* how many sectors the u16 buffer index of PIO reaches
          DiskSize,  \* sectors of each drive
          Heads, Track, \* geometry for CHS addressing
          MaxRequests,  \* bound: requests in one behaviour
          IdeCfgs    \* the hardware of a run; a record of
                     \*   kind       of each drive: "ata", "atapi", "odd", "none"
                     \*   addressing of each drive: "Chs", "Lba28", "Lba48"
                     \*   dma        the controller and the drives support DMA
                     \*   parts      the partitions in the MBR of drive 0
                     \*   counts     sector counts the callers ask for
                     \*   sectors    and first sectors
                     \*   slow       the drive may miss the select timeout
                     \*   late       a DMA transfer may miss its timeout
                     \*   shared     other interrupts reach the handler

VARIABLES ideCfg,  \* the hardware of this run, fixed
          disk,    \* contents of the drives
          hw,      \* registers and DMA engine of the channel
          ch,      \* IdeChannel, and the block devices that were registered
          io       \* the request that holds the lock of the channel

ideVars == <<ideCfg, disk, hw, ch, io>>

Drives  == 0..1
Sectors == 0..(DiskSize - 1)
NoSel   == [lba |-> FALSE, drive |-> -1, head |-> 0]
NoCmd   == [drive |-> -1, sector |-> 0, count |-> 0, mode |-> "none", dma |-> FALSE]
NoReq   == [drive |-> 0, mode |-> "none", sector |-> 0, count |-> 0]

min(a, b) == IF a < b THEN a ELSE b

-----------------------------------------------------------------------------
(* select_drive: the possible outcomes.  Nothing is written when the cache *)
(* last_device_control says the selection is in place; a drive that stays  *)
(* busy fails the call before or after the selector was written, and the   *)
(* cache is then left alone.                                               *)
Selector(drive, lba, head) == [lba |-> lba, drive |-> drive, head |-> head]

Cached(last, drive, lba, head) ==
  \/ ~ lba /\ last # NoSel /\ last.drive = drive
  \/ last = Selector(drive, lba, head)

select_drive(sel, last, drive, lba, head) ==
  LET s == Selector(drive, lba, head)
  IN  IF Cached(last, drive, lba, head)
        THEN {[ok |-> TRUE, sel |-> sel, last |-> last]}
        ELSE {[ok |-> TRUE, sel |-> s, last |-> s]}
             \cup IF ideCfg.slow THEN {[ok |-> FALSE, sel |-> sel, last |-> last],
                                       [ok |-> FALSE, sel |-> s, last |-> last]}
                                 ELSE {}

(* lba_to_chs of storage/block.rs, in the code's arithmetic.               *)
lba_to_chs(lba) == [cylinder |-> lba \div (Heads * Track),
                    head     |-> lba % (Heads * Track),
                    sector   |-> lba % Track]

(* prepare_ata_io: the selection it asks for and the address registers it  *)
(* writes; whether the selection succeeded is not looked at.               *)
Prepared(info, sector) ==
  CASE info.addressing = "Chs" ->
         select_drive(hw.sel, ch.last, info.drive, FALSE, lba_to_chs(sector).head)
    [] info.addressing = "Lba28" ->
         select_drive(hw.sel, ch.last, info.drive, TRUE, sector \div Byte^3)
    [] info.addressing = "Lba48" ->
         select_drive(hw.sel, ch.last, info.drive, TRUE, 0)

(* The sector the drive takes from its registers and the selector.         *)
Addressed(info, sector, sel) ==
  CASE info.addressing = "Chs" ->
         LET chs == lba_to_chs(sector)
         IN  (chs.cylinder * Heads + sel.head) * Track + chs.sector - 1
    [] info.addressing = "Lba28" -> sel.head * Byte^3 + (sector % Byte^3)
    [] info.addressing = "Lba48" -> sector

(* The count register, written again for the high byte with 48 bits.       *)
max_sectors(info) == IF info.addressing = "Lba48" THEN Byte^2 - 1 ELSE Byte - 1

-----------------------------------------------------------------------------
(* init_drives: reset_drive tells the kinds of drive apart by the          *)
(* signature in the cylinder registers, identify_drive reads the rest, and *)
(* determine_ata_sector_size ends with the selector of an LBA access.  A   *)
(* drive that answers neither is left out.                                 *)
DriveInfo(d, size) == [drive |-> d, addressing |-> ideCfg.addressing[d], size |-> size]

reset_drive(d, selected) == selected /\ ideCfg.kind[d] \in {"ata", "atapi"}

BootDrive(d) ==
  /\ io.pc = "boot" /\ ch.booted = d
  /\ \E s \in select_drive(hw.sel, ch.last, d, FALSE, 0) :
       LET found == reset_drive(d, s.ok)
           lba   == ideCfg.addressing[d] # "Chs"
           sel   == IF found /\ lba THEN Selector(d, TRUE, 0) ELSE s.sel
       IN  /\ hw' = [hw EXCEPT !.sel = sel]
           /\ ch' = [ch EXCEPT
                !.last = IF found /\ lba THEN sel ELSE s.last,
                !.booted = d + 1,
                !.disabled = @ \/ (s.ok /\ ideCfg.kind[d] # "none"),
                !.drives = IF ~ found THEN @
                  ELSE Append(@, DriveInfo(d, IF ideCfg.kind[d] = "ata" THEN 1 ELSE 0))]
  /\ io' = [io EXCEPT !.pc = IF d = 1 THEN "scan" ELSE "boot"]
  /\ UNCHANGED <<ideCfg, disk>>

-----------------------------------------------------------------------------
(* perform_ata_io: select, enable interrupts, wait for DriveReady, then    *)
(* split the request into commands of at most max_sectors.                 *)
InfoOf(d) == CHOOSE i \in {ch.drives[k] : k \in DOMAIN ch.drives} : i.drive = d

perform_ata_io(info, mode, sector, count, scan) ==
  \E s \in select_drive(hw.sel, ch.last, info.drive, FALSE, 0), ready \in BOOLEAN :
    /\ hw' = [hw EXCEPT !.sel = s.sel]
    /\ ch' = [ch EXCEPT !.last = s.last, !.received = IF s.ok THEN FALSE ELSE @,
                        !.disabled = @ /\ ~ s.ok]
    /\ io' = [io EXCEPT
         !.pc = IF s.ok /\ ready THEN "chunk" ELSE "done",
         !.req = [drive |-> info.drive, mode |-> mode, sector |-> sector,
                  count |-> count],
         !.scan = scan, !.processed = 0, !.moved = 0,
         !.buf = [i \in 0..(count - 1) |-> 0], !.before = disk]
    /\ UNCHANGED <<ideCfg, disk>>

(* add_block_device: scan_partitions reads the MBR of each found drive.    *)
ScanPartitions ==
  /\ io.pc = "scan" /\ ch.scanned < Len(ch.drives)
  /\ perform_ata_io(ch.drives[ch.scanned + 1], "Read", 0, 1, TRUE)

Registered ==
  /\ io.pc = "scan" /\ ch.scanned = Len(ch.drives)
  /\ io' = [io EXCEPT !.pc = "idle"]
  /\ UNCHANGED <<ideCfg, disk, hw, ch>>

(* BlockDevice for IdeDrive: sectors of the whole drive.                   *)
DriveRequest(k, mode, sector, count) ==
  /\ io.pc = "idle" /\ io.asked < MaxRequests
  /\ sector + count <= DiskSize
  /\ perform_ata_io(ch.drives[k], mode, sector, count, FALSE)

(* BlockDevice for Partition: the start is added to the sector before the  *)
(* rest of the partition is computed from it; a negative rest wraps to a   *)
(* number above every count (the development build panics instead).        *)
PartitionCount(p, sector, count) ==
  LET rest == p.count - (p.start + sector)
  IN  IF rest < 0 THEN count ELSE min(count, rest)

PartitionRequest(p, mode, sector, count) ==
  /\ io.pc = "idle" /\ io.asked < MaxRequests
  /\ sector < p.count
  /\ perform_ata_io(InfoOf(0), mode, p.start + sector,
                    PartitionCount(p, sector, count), FALSE)

(* One command: the frames of a DMA transfer are taken first, then the     *)
(* registers and the command are written.  A drive whose sector size was   *)
(* not found needs no page, and the last PRD entry has no place.           *)
UsesDma == ideCfg.dma

Start ==
  LET info == InfoOf(io.req.drive)
      at   == io.req.sector + io.processed
      n    == min(io.req.count - io.processed, max_sectors(info))
  IN
  /\ io.pc = "chunk" /\ io.processed < io.req.count
  /\ \E s \in Prepared(info, at) :
       /\ hw' = [hw EXCEPT !.sel = s.sel, !.moved = 0,
            !.cmd = [drive |-> s.sel.drive, sector |-> Addressed(info, at, s.sel),
                     count |-> n, mode |-> io.req.mode, dma |-> UsesDma]]
       /\ ch' = [ch EXCEPT !.last = s.last]
  /\ io' = [io EXCEPT !.pc = IF UsesDma /\ info.size = 0 THEN "panic" ELSE "command",
                      !.moved = 0, !.frames = UsesDma, !.count = n]
  /\ UNCHANGED <<ideCfg, disk>>

(* The drive takes a command that stays inside it; wait_status for         *)
(* DataRequest may also run into its timeout.                              *)
Accepts == /\ ideCfg.kind[hw.cmd.drive] = "ata"
           /\ hw.cmd.sector \in Sectors
           /\ hw.cmd.sector + hw.cmd.count <= DiskSize


EndCommand(n) ==
  io' = [io EXCEPT !.pc = IF n = 0 THEN "done" ELSE "chunk", !.frames = FALSE,
                   !.processed = @ + n]

CommandFails ==
  /\ io.pc = "command"
  /\ hw' = [hw EXCEPT !.cmd = NoCmd]
  /\ EndCommand(0)
  /\ UNCHANGED <<ideCfg, disk, ch>>

CommandAccepted ==
  /\ io.pc = "command" /\ Accepts
  /\ io' = [io EXCEPT !.pc = IF hw.cmd.dma THEN "wait" ELSE "pio"]
  /\ \E intr \in {hw.intr, FALSE} :
       hw' = [hw EXCEPT !.run = hw.cmd.dma, !.intr = intr]
  /\ ch' = [ch EXCEPT !.received = IF hw.cmd.dma THEN FALSE ELSE @]
  /\ UNCHANGED <<ideCfg, disk>>

-----------------------------------------------------------------------------

Slot(n) == io.processed + (n % SlotMod)
Value   == io.asked + 1

PioSector ==
  LET at == hw.cmd.sector + io.moved IN
  /\ io.pc = "pio" /\ io.moved < io.count
  /\ \/ /\ io.req.mode = "Read"
        /\ io' = [io EXCEPT !.moved = @ + 1,
                            !.buf[Slot(io.moved)] = disk[hw.cmd.drive][at]]
        /\ UNCHANGED disk
     \/ /\ io.req.mode = "Write"
        /\ disk' = [disk EXCEPT ![hw.cmd.drive][at] = Value]
        /\ io' = [io EXCEPT !.moved = @ + 1]
  /\ UNCHANGED <<ideCfg, hw, ch>>

(* All sectors moved, or DriveReady did not come after some of them.       *)
PioEnds ==
  /\ io.pc = "pio" /\ io.moved > 0
  /\ EndCommand(io.moved)
  /\ hw' = [hw EXCEPT !.cmd = NoCmd]
  /\ UNCHANGED <<ideCfg, disk, ch>>

-----------------------------------------------------------------------------
(* perform_ata_dma after the engine was enabled.  The engine moves sectors *)
(* between the drive and the frames, and raises the interrupt at the end   *)
(* and perhaps before it.  The waiting thread runs with interrupts on, so  *)
(* the handler (IdeInterruptHandler::trigger) has run before it looks.     *)
EngineActive == hw.cmd.dma /\ hw.moved < hw.cmd.count

EngineMoves ==
  LET at == hw.cmd.sector + hw.moved IN
  /\ hw.run /\ EngineActive
  /\ disk' = IF hw.cmd.mode = "Write" THEN [disk EXCEPT ![hw.cmd.drive][at] = Value]
                                      ELSE disk
  /\ \E early \in BOOLEAN :
       LET fires == early \/ hw.moved + 1 = hw.cmd.count
       IN  /\ hw' = [hw EXCEPT !.moved = @ + 1, !.intr = @ \/ fires]
           /\ ch' = [ch EXCEPT !.received = @ \/ (fires /\ ~ ch.disabled)]
  /\ UNCHANGED <<ideCfg, io>>

(* trigger for an interrupt of another device on the same vector.          *)
Trigger ==
  /\ ideCfg.shared /\ io.pc = "wait" /\ ~ ch.received
  /\ ch' = [ch EXCEPT !.received = TRUE]
  /\ UNCHANGED <<ideCfg, disk, hw, io>>

(* One turn of the wait loop that sees the flag: the engine is stopped,    *)
(* and started again when the interrupt came before the end.               *)
KeepsGoing == hw.intr /\ EngineActive
Resumes    == KeepsGoing

Poll ==
  /\ io.pc = "wait" /\ ch.received
  /\ hw' = [hw EXCEPT !.run = Resumes]
  /\ ch' = [ch EXCEPT !.received = ~ KeepsGoing]
  /\ io' = [io EXCEPT !.pc = IF hw.intr /\ ~ EngineActive THEN "finish" ELSE "wait"]
  /\ UNCHANGED <<ideCfg, disk>>

Finish ==
  /\ io.pc = "finish"
  /\ io' = [io EXCEPT !.pc = "chunk", !.frames = FALSE, !.processed = @ + io.count,
       !.buf = [i \in DOMAIN @ |->
                  IF io.req.mode = "Read" /\ i \in io.processed..(io.processed + io.count - 1)
                    THEN disk[hw.cmd.drive][hw.cmd.sector + i - io.processed]
                    ELSE @[i]]]
  /\ hw' = [hw EXCEPT !.cmd = NoCmd]
  /\ UNCHANGED <<ideCfg, disk, ch>>

(* The clock passes the timeout: the frames are freed as they are.  An     *)
(* engine that still runs is left running.                                 *)
TimesOut ==
  /\ io.pc \in {"wait", "finish"}
  /\ ideCfg.late \/ ~ hw.run
  /\ EndCommand(0)
  /\ UNCHANGED <<ideCfg, disk, hw, ch>>

(* The request returns how many sectors were processed; the scan of the    *)
(* MBR makes partitions of what it has read.                               *)
IdeReturn ==
  /\ \/ io.pc = "done"
     \/ io.pc = "chunk" /\ io.processed = io.req.count
  /\ ch' = [ch EXCEPT
       !.scanned = IF io.scan THEN @ + 1 ELSE @,
       !.parts = IF io.scan /\ io.req.drive = 0 /\ io.processed = 1
                   THEN ideCfg.parts ELSE @]
  /\ io' = [io EXCEPT !.pc = IF io.scan THEN "scan" ELSE "idle", !.req = NoReq,
       !.asked = IF io.scan THEN @ ELSE @ + 1, !.buf = <<>>, !.processed = 0,
       !.moved = 0, !.count = 0, !.scan = FALSE]
  /\ hw' = IF hw.run THEN hw ELSE [hw EXCEPT !.cmd = NoCmd, !.moved = 0]
  /\ UNCHANGED <<ideCfg, disk>>

-----------------------------------------------------------------------------
IdeInit ==
  /\ ideCfg \in IdeCfgs
  /\ disk = [d \in Drives |-> [s \in Sectors |-> 0]]
  /\ hw = [sel |-> Selector(0, FALSE, 0), cmd |-> NoCmd, moved |-> 0, run |-> FALSE,
           intr |-> FALSE]
  /\ ch = [last |-> NoSel, disabled |-> FALSE, received |-> FALSE, booted |-> 0,
           drives |-> <<>>, scanned |-> 0, parts |-> {}]
  /\ io = [pc |-> "boot", req |-> NoReq, scan |-> FALSE, asked |-> 0, processed |-> 0,
           moved |-> 0, count |-> 0, frames |-> FALSE, buf |-> <<>>, before |-> disk]

IdeRequest == \E mode \in {"Read", "Write"}, sector \in ideCfg.sectors, count \in ideCfg.counts :
  \/ \E k \in DOMAIN ch.drives : DriveRequest(k, mode, sector, count)
  \/ \E p \in ch.parts : PartitionRequest(p, mode, sector, count)

IdeStep == ScanPartitions \/ Registered \/ Start \/ CommandFails \/ CommandAccepted
           \/ PioSector \/ PioEnds \/ Poll \/ Finish \/ TimesOut \/ IdeReturn

IdeNext == (\E d \in Drives : BootDrive(d)) \/ IdeRequest \/ IdeStep
           \/ EngineMoves \/ Trigger

(* The requesting thread runs on and the engine works.                     *)
IdeFairness == WF_ideVars(IdeStep) /\ WF_ideVars(EngineMoves)

IdeSpec == IdeInit /\ [][IdeNext]_ideVars /\ IdeFairness

-----------------------------------------------------------------------------

(* The DMA engine never works on frames that were given back, and a        *)
(* request leaves no frame behind.                                         *)
DmaFramesAlive ==
  /\ hw.run /\ EngineActive => io.frames
  /\ io.pc = "idle" => ~ io.frames

(* Every request returns.                                                  *)
RequestEnds == io.pc = "chunk" ~> io.pc = "idle"
=============================================================================
