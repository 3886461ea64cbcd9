---------------------------- MODULE AddressSpace ----------------------------
(***************************************************************************)
(* The address spaces of user processes: their areas (vmm.rs), their page  *)
(* tables (pages.rs), what an application is loaded into (thread.rs), the  *)
(* pages the fault handler adds (interrupt_dispatcher.rs), and what is     *)
(* given back when the cleanup thread drops an exited process.             *)
(*                                                                         *)
(* A page table entry is a node <<level, number>>: level 0 is a page,      *)
(* level l > 0 a table that covers Fan^l pages.  pt maps the used nodes of *)
(* the user half to their frames.  The kernel half is an identity map      *)
(* which every process copies: it is the one frame kt here.                *)
(***************************************************************************)
EXTENDS Vmas, Functions

CONSTANTS
    Procs,        \* process ids
    NFrames,      \* physical frames 1 .. NFrames; frame 0 is never used
    Fan,          \* entries of a page table (512)
    Depth,        \* levels of page tables (4)
    PageCells,    \* bytes of a page
    KStackPages,  \* KERNEL_STACK_PAGES
    Segments,     \* PT_LOAD headers: [filesz, memsz] in bytes
    HeapPages,    \* HEAP_SIZE
    MaxThreads,   \* user threads of a process
    MaxFaults,    \* page faults of a process
    MaxLoads      \* applications loaded

VARIABLES
    asFree,       \* frames in the free list
    asMem,        \* contents of a frame: file byte n, 0, or -1 (stale)
    asProc,       \* the processes
    asLoads       \* applications loaded so far

asVars == <<asFree, asMem, asProc, asLoads>>

GiB == Fan * Fan
CodeStart == FirstUser
EnvStart == CodeStart + GiB
HeapStart == LastUser - HeapPages
Root == <<Depth, FirstUser \div Fan ^ Depth>>

NoProc == [st |-> "none", vmas |-> <<>>, pt |-> <<>>, kt |-> 0, threads |-> 0, faults |-> 0,
           seg |-> [filesz |-> 0, memsz |-> 0]]

PagesFor(n) == (n + PageCells - 1) \div PageCells
-----------------------------------------------------------------------------
(* Page tables.  A walk carries m = [pt, free, start, end]: the tables, the *)
(* free frames and the rest of the page range.                              *)

\* frames::alloc(1): the first frame of the free list.
Take(m, node) ==
    LET f == Min(m.free)
    IN  [m EXCEPT !.free = @ \ {f}, !.pt = (node :> f) @@ @]

Give(m, node) ==
    IF node \in DOMAIN m.pt
    THEN [m EXCEPT !.free = @ \cup {m.pt[node]}, !.pt = Restrict(@, DOMAIN @ \ {node})]
    ELSE m

page_table_index(page, level) == (page \div Fan ^ (level - 1)) % Fan

Child(t, i) == <<t[1] - 1, t[2] * Fan + i>>

is_table_empty(m, t) == \A i \in 0 .. Fan - 1 : Child(t, i) \notin DOMAIN m.pt

\* The entries a level 1 table contributes to the range.
LeafCount(m) ==
    LET rest == m.end - m.start
        room == Fan - page_table_index(m.start, 1)
    IN  IF rest < room THEN rest ELSE room

OnLeaf(m, t, Op(_, _)) ==
    LET first == page_table_index(m.start, 1)
        n == LeafCount(m)
        done == FoldLeft(LAMBDA w, k : Op(w, Child(t, first + k - 1)), m,
                         [k \in 1 .. n |-> k])
    IN  [done EXCEPT !.start = @ + n]

map_user(m, t) == OnLeaf(m, t, Take)

RECURSIVE MapEntries(_, _, _)
map_in_table(m, t) ==
    IF t[1] = 1 THEN map_user(m, t) ELSE MapEntries(m, t, page_table_index(m.start, t[1]))
MapEntries(m, t, i) ==
    IF i = Fan THEN m
    ELSE LET c == Child(t, i)
             w == map_in_table(IF c \in DOMAIN m.pt THEN m ELSE Take(m, c), c)
         IN  IF w.start >= w.end THEN w ELSE MapEntries(w, t, i + 1)

FreeEmpty(m, t) == IF is_table_empty(m, t) THEN Give(m, t) ELSE m

\* The loop of unmap_in_table skips an unused entry and leaves start alone, so the
\* next table is walked with the indices of the old start.
RECURSIVE UnmapEntries(_, _, _)
unmap_in_table(m, t) ==
    IF t[1] = 1 THEN OnLeaf(m, t, Give) ELSE UnmapEntries(m, t, page_table_index(m.start, t[1]))
UnmapEntries(m, t, i) ==
    IF i = Fan THEN m
    ELSE LET c == Child(t, i)
         IN  IF c \notin DOMAIN m.pt THEN UnmapEntries(m, t, i + 1)
             ELSE LET w == FreeEmpty(unmap_in_table(m, c), c)
                  IN  IF w.start >= w.end THEN w ELSE UnmapEntries(w, t, i + 1)

Walk(s, free, lo, hi) == [pt |-> s.pt, free |-> free, start |-> lo, end |-> hi]

\* translate: the frame of a page; every table on the way is present by MapEntries.
translate(pt, page) == pt[<<0, page>>]
-----------------------------------------------------------------------------
(* The operations of VirtualAddressSpace on w = [s, free, mem]: process     *)
(* record, free frames, memory.                                             *)

MapRange(w, lo, hi) ==
    LET m == map_in_table(Walk(w.s, w.free, lo, hi), Root)
    IN  [w EXCEPT !.s.pt = m.pt, !.free = m.free]

user_alloc_map_full(w, first, n, typ) ==
    MapRange([w EXCEPT !.s.vmas = alloc_at(@, Area(first, n, typ, "User"))], first, first + n)

\* user_alloc_map_partial(None, n, typ, 1, true): only the top page gets a frame.
user_alloc_map_partial(w, n, typ) ==
    LET a == alloc(w.s.vmas, n, typ, "User")
    IN  MapRange([w EXCEPT !.s.vmas = alloc_at(@, a)], a.e - 1, a.e)

\* frames::alloc(n): the first n adjacent free frames.
FirstRun(free, n) == Min({f \in free : f .. f + n - 1 \subseteq free})

kernel_alloc_map_identity(w, n, typ) ==
    LET f == FirstRun(w.free, n)
    IN  [w EXCEPT !.free = @ \ (f .. f + n - 1),
                  !.s.vmas = alloc_at(@, Area(f, n, typ, "Kernel"))]

\* Write n cells with value V from physical cell at on; frame f holds the cells
\* f * PageCells .. (f + 1) * PageCells - 1.
Write(mem, at, n, V(_)) ==
    [f \in DOMAIN mem |-> [c \in DOMAIN mem[f] |->
        LET cell == f * PageCells + c - 1
        IN  IF at <= cell /\ cell < at + n THEN V(cell - at) ELSE mem[f][c]]]

\* copy_to_addr_space: page by page; the rest of the last page is cleared behind
\* dest + offset, where offset counts all the bytes copied so far.
copy_to_addr_space(mem, pt, first, bytes) ==
    LET pages == PagesFor(bytes)
        At(i) == translate(pt, first + i) * PageCells
        Count(i) == IF bytes - i * PageCells < PageCells THEN bytes - i * PageCells ELSE PageCells
        copied == FoldLeft(LAMBDA x, k : Write(x, At(k - 1), Count(k - 1),
                                               LAMBDA j : (k - 1) * PageCells + j + 1),
                           mem, [k \in 1 .. pages |-> k])
    IN  IF pages = 0 THEN mem
        ELSE Write(copied, At(pages - 1) + bytes, PageCells - Count(pages - 1), LAMBDA j : 0)

ZeroBss(mem, pt, from, to) ==
    FoldLeft(LAMBDA x, p : Write(x, translate(pt, p) * PageCells, PageCells, LAMBDA j : 0),
             mem, [i \in 1 .. to - from |-> from + i - 1])


BssCleared(w, seg) ==
    ZeroBss(w.mem, w.s.pt, CodeStart + PagesFor(seg.filesz), CodeStart + PagesFor(seg.memsz))
-----------------------------------------------------------------------------
(* Steps.  Page fault handler and system calls run to their end before      *)
(* another step of the same process; loading is one step per call, so two   *)
(* loads interleave.                                                        *)

World(p) == [s |-> asProc[p], free |-> asFree, mem |-> asMem]

Becomes(p, w) ==
    /\ asProc' = [asProc EXCEPT ![p] = w.s]
    /\ asFree' = w.free
    /\ asMem' = w.mem

\* Paging::from_other: a root, and copies of the kernel's tables (one frame for all).
from_other(free) ==
    LET m == Take([pt |-> <<>>, free |-> free], Root)
    IN  [pt |-> m.pt, kt |-> Min(m.free), free |-> m.free \ {Min(m.free)}]

create_process(p) ==
    /\ asProc[p].st = "none"
    /\ Cardinality(asFree) > 1
    /\ asLoads < MaxLoads /\ asLoads' = asLoads + 1
    /\ \E seg \in Segments :
        LET t == from_other(asFree)
        IN  Becomes(p, [World(p) EXCEPT !.s = [NoProc EXCEPT !.st = "new", !.pt = t.pt,
                                               !.kt = t.kt, !.seg = seg],
                                        !.free = t.free])

\* Frames for a new page and every table on its way.
Enough == Cardinality(asFree) >= 2 * Depth + KStackPages

parse_and_map_elf_bin(p) ==
    /\ asProc[p].st = "new" /\ Enough
    /\ LET seg == asProc[p].seg
           w == user_alloc_map_full(World(p), CodeStart, PagesFor(seg.memsz), "Code")
           x == [w EXCEPT !.mem = copy_to_addr_space(@, w.s.pt, CodeStart, seg.filesz)]
       IN  Becomes(p, [x EXCEPT !.mem = BssCleared(x, seg), !.s.st = "code"])

copy_args(p) ==
    /\ asProc[p].st = "code" /\ Enough
    /\ Becomes(p, [user_alloc_map_full(World(p), EnvStart, 1, "Environment")
                    EXCEPT !.s.st = "env"])

alloc_kernel_stack(w) == kernel_alloc_map_identity(w, KStackPages, "KernelStack")

\* The stack's pages are reserved; the allocator of the vector never frees them.
alloc_user_stack(w) == user_alloc_map_partial(w, GiB, "UserStack")

NewThread(w) == [alloc_user_stack(alloc_kernel_stack(w)) EXCEPT !.s.threads = @ + 1]

\* The main thread of load_application, or sys_thread_create of a running process.
new_user_thread(p) ==
    /\ asProc[p].st \in {"env", "live"} /\ Enough
    /\ asProc[p].threads < MaxThreads
    /\ \E f \in asFree : f .. f + KStackPages - 1 \subseteq asFree
    /\ alloc(asProc[p].vmas, GiB, "UserStack", "User") # NoArea
    /\ Becomes(p, [NewThread(World(p)) EXCEPT !.s.st = "live"])

\* entry of the runtime: one sys_map_memory for the heap.
sys_map_memory(p) ==
    /\ asProc[p].st = "live"
    /\ Becomes(p, [World(p) EXCEPT !.s.vmas =
                    alloc_at(@, Area(HeapStart, HeapPages, "Heap", "User"))])

Resolves(s, page) ==
    is_address_within_vma(s.vmas, page, "UserStack") \/ is_address_within_vma(s.vmas, page, "Heap")

\* A thread touches a page without a frame.
handle_page_fault(p) ==
    /\ asProc[p].st = "live" /\ Enough /\ asProc[p].faults < MaxFaults
    /\ \E page \in FirstUser .. LastUser - 1 :
        /\ <<0, page>> \notin DOMAIN asProc[p].pt
        /\ Resolves(asProc[p], page)
        /\ Becomes(p, [MapRange(World(p), page, page + 1) EXCEPT !.s.faults = @ + 1])

\* ProcessManager::exit and kill: the threads are gone, the process waits.
exit(p) ==
    /\ asProc[p].st = "live"
    /\ Becomes(p, [World(p) EXCEPT !.s.st = "exited"])

\* VirtualAddressSpace::drop: unmap every area in address order.  The kernel half is
\* fully mapped, so a kernel stack gives back exactly its frames.
UnmapArea(w, a) ==
    IF a.space = "Kernel" THEN [w EXCEPT !.free = @ \cup (a.s .. a.e - 1)]
    ELSE LET m == unmap_in_table(Walk(w.s, w.free, a.s, a.e), Root)
         IN  [w EXCEPT !.s.pt = m.pt, !.free = m.free]

UnmapAll(w) ==
    FoldLeft(UnmapArea, w, w.s.vmas)

\* Paging::drop: every table that is left, but not the pages still mapped.
DropTables(w) ==
    w.free \cup {w.s.pt[n] : n \in {k \in DOMAIN w.s.pt : k[1] > 0}} \cup {w.s.kt}

\* The last reference to an exited process is dropped: the one of the cleanup thread,
\* or that of a thread which ends after it (NotOwnAddressSpace in Processes).
drop_exited_process(p) ==
    /\ asProc[p].st = "exited"
    /\ LET w == UnmapAll(World(p))
       IN  Becomes(p, [w EXCEPT !.free = DropTables(w), !.s = NoProc])

AsInit ==
    /\ asFree = 1 .. NFrames
    /\ asMem = [f \in 1 .. NFrames |-> [c \in 1 .. PageCells |-> -1]]
    /\ asProc = [p \in Procs |-> NoProc]
    /\ asLoads = 0

AsNext == \E p \in Procs :
    \/ create_process(p)
    \/ /\ \/ parse_and_map_elf_bin(p) \/ copy_args(p) \/ new_user_thread(p)
          \/ sys_map_memory(p) \/ handle_page_fault(p) \/ exit(p) \/ drop_exited_process(p)
       /\ UNCHANGED asLoads

AsSpec == AsInit /\ [][AsNext]_asVars
-----------------------------------------------------------------------------
KStacks(s) == UNION {a.s .. a.e - 1 : a \in {b \in Range(s.vmas) : b.space = "Kernel"}}

FramesOf(s) == Range(s.pt) \cup KStacks(s) \cup (IF s.kt = 0 THEN {} ELSE {s.kt})

\* A frame backs one page, one table or one kernel stack of one process, and none of
\* them is in the free list: loading, faulting and dropping processes in any order
\* never hands a frame out twice.
FramesExclusive ==
    /\ \A p \in Procs :
        LET s == asProc[p]
        IN  /\ FramesOf(s) \cap asFree = {}
            /\ IsInjective(s.pt) /\ Range(s.pt) \cap (KStacks(s) \cup {s.kt}) = {}
            /\ s.kt \notin KStacks(s)
            /\ \A q \in Procs \ {p} : FramesOf(s) \cap FramesOf(asProc[q]) = {}

\* The pages the code, the environment and the stacks of a running process need to
\* start are mapped, every mapped page lies in an area, and areas do not overlap.
MappedInAreas ==
    \A p \in Procs : LET s == asProc[p] IN
        /\ Disjoint(s.vmas)
        /\ \A n \in DOMAIN s.pt : n[1] = 0 =>
            \E a \in Range(s.vmas) : a.space = "User" /\ a.s <= n[2] /\ n[2] < a.e
        /\ \A a \in Range(s.vmas) : a.typ = "UserStack" => <<0, a.e - 1>> \in DOMAIN s.pt


=============================================================================
