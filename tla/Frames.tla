------------------------------- MODULE Frames -------------------------------
(***************************************************************************)
(* The page frame allocator of the kernel (memory/frames.rs): a linked     *)
(* list of free blocks, each stored in its own first frame, sorted by      *)
(* address and fused with its neighbours.                                  *)
(*                                                                         *)
(* Every operation runs under the PAGE_FRAME_ALLOCATOR lock and is one     *)
(* step.  The steps follow the boot order: the memory map is inserted, the *)
(* kernel image is reserved, frames are allocated and freed, and the       *)
(* initial ramdisk is reserved by init_initrd, when the kernel is already  *)
(* running.  A panic stops the machine: the operation that panics is not   *)
(* enabled.                                                                *)
(***************************************************************************)
EXTENDS Integers, FiniteSets, Sequences, SequencesExt

CONSTANTS
  Maps,        \* memory maps: [areas |-> sequence of ranges, kernel, initrd |-> range]
  AllocSizes,  \* the frame counts asked for
  FreeSizes    \* the lengths of the ranges given back

Range2(s, e) == [start |-> s, end |-> e]
Frames(r) == r.start .. r.end - 1

ASSUME SizeAssumption ==
  AllocSizes \subseteq Nat \ {0} /\ FreeSizes \subseteq Nat \ {0}

VARIABLES
  map,         \* the machine's memory map
  next_area,   \* the areas of the map inserted so far
  boot,        \* how far boot.rs is: "map", "running", "initrd"
  list,        \* the free list from head.next on: [start, frame_count]
  phys_limit,
  used,        \* frames handed out by alloc and not given back
  reserved     \* frames for which reserve was called

frVars == <<map, next_area, boot, list, phys_limit, used, reserved>>

Node(r) == [start |-> r.start, frame_count |-> r.end - r.start]
End(b) == b.start + b.frame_count
FreeFrames == UNION {b.start .. End(b) - 1 : b \in Range(list)}

FrInit ==
  /\ map \in Maps
  /\ next_area = 1 /\ boot = "map"
  /\ list = <<>> /\ phys_limit = 0
  /\ used = {} /\ reserved = {}
-----------------------------------------------------------------------------
\* The first block of blocks for which P holds, or the place behind the last.
First(blocks, P(_)) ==
  LET hits == {i \in DOMAIN blocks : P(blocks[i])} IN
  IF hits = {} THEN Len(blocks) + 1 ELSE CHOOSE i \in hits : \A j \in hits : i <= j

\* PageFrameListAllocator::insert: before the first block that starts higher.
Insert(blocks, r) ==
  LET Higher(b) == b.start > r.start
  IN InsertAt(blocks, First(blocks, Higher), Node(r))

Overlaps(b, r) == ~(r.end <= b.start \/ r.start >= End(b))

\* Where the walk of free_block ends.
Stop(blocks, r) ==
  LET Ends(b) == Overlaps(b, r) \/ r.end = b.start \/ End(b) >= r.start
  IN First(blocks, Ends)

\* Mutant: the grown block is not fused with its successor.
ExtendTopAlone(blocks, i, r) ==
  [blocks EXCEPT ![i].frame_count = @ + (r.end - r.start)]

\* free_block, a range right above block i: the block grows, and is fused with
\* its successor if it now reaches it.
ExtendTop(blocks, i, r) ==
  LET grown == [blocks EXCEPT ![i].frame_count = @ + (r.end - r.start)] IN
  IF i < Len(blocks) /\ blocks[i + 1].start = r.end
    THEN RemoveAt([grown EXCEPT ![i].frame_count = @ + blocks[i + 1].frame_count], i + 1)
    ELSE grown

\* free_block panics: it has met a block that overlaps the freed range.
FreePanics(blocks, r) ==
  LET i == Stop(blocks, r) IN i <= Len(blocks) /\ Overlaps(blocks[i], r)

\* The list after free_block.
FreeBlock(blocks, r) ==
  LET i == Stop(blocks, r) IN
  CASE i <= Len(blocks) /\ r.end = blocks[i].start ->
         [blocks EXCEPT ![i] = [start |-> r.start,
                                frame_count |-> @.frame_count + (r.end - r.start)]]
    [] i <= Len(blocks) /\ r.end # blocks[i].start /\ End(blocks[i]) = r.start ->
         ExtendTop(blocks, i, r)
    [] OTHER -> Insert(blocks, r)

\* What reserve_block leaves of a free block that it looks at.
Cut(b, r) ==
  LET touches == b.start <= r.end /\ End(b) >= r.start
      below == IF b.start < r.start THEN <<Node(Range2(b.start, r.start))>> ELSE <<>>
      above == IF End(b) > r.end THEN <<Node(Range2(r.end, End(b)))>> ELSE <<>>
  IN IF touches THEN below \o above ELSE <<b>>

\* One turn of the loop of reserve_block: the block behind a removed one
\* becomes `current' without having been looked at.
ReserveStep(acc, b, r) ==
  IF acc.skip THEN [out |-> Append(acc.out, b), skip |-> FALSE]
              ELSE [out |-> acc.out \o Cut(b, r), skip |-> Cut(b, r) = <<>>]

\* reserve_block over the whole list; the walk that removes the last block
\* panics in current.next.as_mut().unwrap().
ReserveBlock(blocks, r) ==
  LET Step(acc, b) == ReserveStep(acc, b, r)
  IN FoldLeft(Step, [out |-> <<>>, skip |-> FALSE], blocks)

Reserve(r) ==
  LET done == ReserveBlock(list, r) IN
  /\ ~done.skip
  /\ list' = done.out
  /\ reserved' = reserved \cup Frames(r)
-----------------------------------------------------------------------------
\* The part of an area that insert offers: never the first page of memory.
Usable(r) == Range2(IF r.start = 0 THEN 1 ELSE r.start, r.end)

\* insert(region), for the next area of the memory map.
InsertArea ==
  LET area == map.areas[next_area] IN
  /\ boot = "map" /\ next_area <= Len(map.areas)
  /\ next_area' = next_area + 1
  /\ IF Frames(Usable(area)) = {}
       THEN UNCHANGED <<list, phys_limit>>
       ELSE /\ ~FreePanics(list, Usable(area))
            /\ list' = FreeBlock(list, Usable(area))
            /\ phys_limit' = IF area.end > phys_limit THEN area.end ELSE phys_limit
  /\ UNCHANGED <<map, boot, used, reserved>>

\* boot.rs: the kernel image is reserved once the map has been read.
ReserveKernel ==
  /\ boot = "map" /\ next_area > Len(map.areas)
  /\ Reserve(map.kernel)
  /\ boot' = "running"
  /\ UNCHANGED <<map, next_area, phys_limit, used>>

\* alloc_block(n): the first block that is large enough leaves the list and
\* what is not needed of it is inserted again; no such block is a panic.
Alloc(n) ==
  LET Fits(b) == b.frame_count >= n
      i == First(list, Fits)
      rest == Range2(list[i].start + n, End(list[i]))
  IN
  /\ boot \in {"running", "initrd"} /\ i <= Len(list)
  /\ list' = IF rest.start < rest.end THEN Insert(RemoveAt(list, i), rest)
                                      ELSE RemoveAt(list, i)
  /\ used' = used \cup (list[i].start .. rest.start - 1)
  /\ UNCHANGED <<map, next_area, boot, phys_limit, reserved>>

\* free(frames), for frames in use; callers also free a part of what they got.
Free(r) ==
  /\ Frames(r) \subseteq used
  /\ ~FreePanics(list, r)
  /\ list' = FreeBlock(list, r)
  /\ used' = used \ Frames(r)
  /\ UNCHANGED <<map, next_area, boot, phys_limit, reserved>>

\* init_initrd, at the end of the boot sequence.
ReserveInitrd ==
  /\ boot = "running"
  /\ Reserve(map.initrd)
  /\ boot' = "initrd"
  /\ UNCHANGED <<map, next_area, phys_limit, used>>

FrNext ==
  \/ InsertArea
  \/ ReserveKernel
  \/ \E n \in AllocSizes : Alloc(n)
  \/ \E f \in used, n \in FreeSizes : Free(Range2(f, f + n))
  \/ ReserveInitrd

FrSpec == FrInit /\ [][FrNext]_frVars
-----------------------------------------------------------------------------
\* The free list stays in order: whatever is allocated, freed and reserved,
\* each block is not empty, below phys_limit, and ends before the next one
\* starts, with at least one frame that is not free between them.
Ordered ==
  /\ \A i \in DOMAIN list : list[i].frame_count > 0 /\ End(list[i]) <= phys_limit
  /\ \A i \in 1 .. Len(list) - 1 : End(list[i]) < list[i + 1].start

\* No frame is handed out twice: a frame in use is not free, so free_block
\* never reports a double free for a range that its caller owns.
UsedNotFree ==
  /\ used \cap FreeFrames = {}
  /\ \A f \in used, n \in FreeSizes :
       Frames(Range2(f, f + n)) \subseteq used => ~FreePanics(list, Range2(f, f + n))

Offered == UNION {Frames(Usable(map.areas[i])) : i \in 1 .. next_area - 1}

\* No frame is lost: what the memory map offered is free, in use or reserved,
\* and page 0, whose address is the null pointer, is never free or in use.
NoFrameLost ==
  /\ Offered \subseteq FreeFrames \cup used \cup reserved
  /\ FreeFrames \cup used \subseteq Offered \ {0}

\* `Permanently reserve a range of page frames': a reserved frame belongs to
\* nobody else, it is neither free nor in use.
ReservedIsNobodys == reserved \cap (FreeFrames \cup used) = {}

\* The free list is exact: sorted and fused, and every frame the memory map
\* offered is free, in use or reserved, and only one of these.
FreeListExact == Ordered /\ UsedNotFree /\ NoFrameLost /\ ReservedIsNobodys
=============================================================================
