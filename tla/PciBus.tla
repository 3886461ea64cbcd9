------------------------------- MODULE PciBus -------------------------------
(***************************************************************************)
(* From the PCI configuration space to a virtio transport: the scan of the *)
(* kernel (device/pci.rs) and of the crate (bus.rs), the sizing of base    *)
(* address registers, the mapping of the memory behind them (boot.rs), the *)
(* bar allocation of the example for aarch64, and the constructors of the  *)
(* PCI transports (pci.rs, x86_64.rs).                                     *)
(*                                                                         *)
(* A configuration word has Word values instead of 2^32 and an address two *)
(* words; register formats keep their low bits (bit 0 io, bits 1-2 type).  *)
(* A function is <<bus, device, function>>.  The scan of the kernel runs   *)
(* before anything else and is one step; every access of bar_info that     *)
(* changes a register is a step of its own.                                *)
(***************************************************************************)
EXTENDS Vmas, Functions

CONSTANTS
    Word,        \* values of a configuration word
    PciPage,     \* PAGE_SIZE
    MaxDevices,  \* devices of a bus
    MaxFns,      \* functions of a device
    PciCfgs      \* machines: [boot, fns, fb, range]

VARIABLES
    pciCfg,      \* the machine, chosen at the start
    pci          \* registers and progress of the boot

pciVars == <<pci, pciCfg>>

Bars == 0 .. 5
Present(a) == a \in DOMAIN pciCfg.fns
Fn(a) == pciCfg.fns[a]
-----------------------------------------------------------------------------
(* Scanning.                                                               *)

\* The functions check_device visits: it stops at the first that is missing.
Checked(b, d) ==
    IF ~Present(<<b, d, 0>>) THEN <<>>
    ELSE IF ~Fn(<<b, d, 0>>).multi THEN <<<<b, d, 0>>>>
    ELSE LET missing == {f \in 1 .. MaxFns : f = MaxFns \/ ~Present(<<b, d, f>>)}
         IN  [i \in 1 .. Min(missing) |-> <<b, d, i - 1>>]

check_device(b, d) == Checked(b, d)

\* scan_bus and check_function: depth first through the bridges.
RECURSIVE scan_bus(_)
scan_bus(b) ==
    LET Devices(d) == check_device(b, d)
        all == FlattenSeq([d \in 1 .. MaxDevices |-> Devices(d - 1)])
        Visit(a) == IF Fn(a).bridge > 0 THEN scan_bus(Fn(a).bridge) ELSE <<a>>
    IN  FlattenSeq([i \in DOMAIN all |-> Visit(all[i])])

\* BusDeviceIterator on one bus: every function number is tried.
enumerate_bus(b) ==
    SelectSeq([i \in 1 .. MaxDevices * MaxFns |->
                  <<b, (i - 1) \div MaxFns, (i - 1) % MaxFns>>], Present)

Virtio(seq) == SelectSeq(seq, LAMBDA a : Fn(a).vendor = "virtio")

\* virtio_device_type: the id must name a known device.
Typed(seq) == SelectSeq(seq, LAMBDA a : Fn(a).type # "unknown")
-----------------------------------------------------------------------------
(* Base address registers.  A register is described by the device as       *)
(* [kind, size]: "none", "io", "mem32", "mem64" and "top", the upper half  *)
(* of the 64-bit bar before it (external: the device).                     *)

Desc(a, i) == Fn(a).bars[i + 1]

TypeBits(kind) == CASE kind = "io" -> 1 [] kind = "mem64" -> 4 [] OTHER -> 0

WriteBar(a, i, v) ==
    LET d == Desc(a, i)
        s == IF d.kind = "top" THEN Desc(a, i - 1).size \div Word ELSE d.size
    IN  CASE d.kind = "none" -> 0
          [] d.kind = "top" -> IF s <= 1 THEN v ELSE v - (v % s)
          [] OTHER -> (IF s >= Word THEN 0 ELSE v - (v % s)) + TypeBits(d.kind)

Poke(p, a, i, v) == [p EXCEPT !.bar[a][i + 1] = WriteBar(a, i, v)]

\* The low bits that are no part of an address: bits 2 and 3 may be for io.
FlagBits(io) == IF io THEN 4 ELSE 16

flag_bits(io) == FlagBits(io)

\* BarInfo from the words bar_info has read.
Info(orig, low, addressTop, sizeTop) ==
    LET io == orig % 2 = 1
        mask == low + Word * sizeTop
        flags == flag_bits(io)
        size == (Word * Word - (mask - (mask % flags))) % (Word * Word)
        width == (orig \div 2) % 4
    IN  CASE mask = 0 -> [kind |-> "none", addr |-> 0, size |-> 0]
          [] mask # 0 /\ io -> [kind |-> "io", addr |-> orig - (orig % 4), size |-> size % Word]
          [] OTHER -> [kind |-> CASE width = 0 -> "mem32" [] width = 1 -> "below1m"
                                  [] width = 2 -> "mem64" [] OTHER -> "err",
                       addr |-> (orig - (orig % 16)) + Word * addressTop, size |-> size]

Is64(orig) == orig % 8 = 4

\* bar_info, first part: decoding off, the original word is read.
StartSizing(p, a, i, next) ==
    [p EXCEPT !.cmd[a] = @ \ {"io", "mem"},
              !.job = [f |-> a, i |-> i, cmd |-> p.cmd[a], orig |-> p.bar[a][i + 1],
                       low |-> 0, step |-> "size", next |-> next, res |-> Info(0, 0, 0, 0)]]

\* All ones are written and read back.
SizeLow(p) ==
    LET w == Poke(p, p.job.f, p.job.i, Word - 1)
    IN  [w EXCEPT !.job.low = w.bar[p.job.f][p.job.i + 1], !.job.step = "top"]

\* The upper half of a 64-bit bar is sized and restored; its error leaves everything
\* as it is at this point.
SizeTop(p) ==
    LET a == p.job.f
        i == p.job.i
        top == p.bar[a][i + 2]
        sized == Poke(p, a, i + 1, Word - 1).bar[a][i + 2]
    IN  IF ~Is64(p.job.orig)
        THEN [p EXCEPT !.job.step = "restore",
                       !.job.res = Info(p.job.orig, p.job.low, 0, IF p.job.low = 0 THEN 0 ELSE Word - 1)]
        ELSE IF i >= 5
        THEN [p EXCEPT !.job.step = "done", !.job.res.kind = "err"]
        ELSE [p EXCEPT !.job.step = "restore", !.job.res = Info(p.job.orig, p.job.low, top, sized)]

\* The original word and the command are written back.
Restore(p) ==
    [Poke(p, p.job.f, p.job.i, p.job.orig) EXCEPT !.cmd[p.job.f] = p.job.cmd, !.job.step = "done"]

TopStep(p) == SizeTop(p)

bar_info ==
    /\ pci.job.step \in {"size", "top", "restore"}
    /\ pci' = CASE pci.job.step = "size" -> SizeLow(pci)
                [] pci.job.step = "top" -> TopStep(pci)
                [] pci.job.step = "restore" -> Restore(pci)

NoJob == [f |-> <<>>, i |-> 0, cmd |-> {}, orig |-> 0, low |-> 0, step |-> "none",
          next |-> "none", res |-> Info(0, 0, 0, 0)]
-----------------------------------------------------------------------------
(* The boot.                                                               *)

Scanned == IF pciCfg.boot = "d3os" THEN scan_bus(0) ELSE enumerate_bus(0)

Here == pci.todo[1]
Mem(r) == r.kind \in {"mem32", "mem64", "below1m"}

Scan ==
    /\ pci.pc = "scan"
    /\ LET todo == IF pciCfg.boot = "d3os" THEN Virtio(Scanned) ELSE Typed(Virtio(Scanned))
       IN  pci' = [pci EXCEPT !.found = Scanned, !.todo = todo,
                              !.pc = IF todo = <<>> THEN "done" ELSE "bars"]

AskBar ==
    /\ pci.pc \in {"bars"} /\ pci.job.step = "none" /\ pci.i \in Bars
    /\ pci' = StartSizing(pci, Here, pci.i, "bars")

PageUp(x) == (x + PciPage - 1) \div PciPage

\* kernel_map_devm_identity: alloc_vma fails with a panic if the first page is taken.
map_devm(p, lo, hi) ==
    LET a == Area(lo \div PciPage, PageUp(hi) - lo \div PciPage, "DeviceMemory", "Kernel")
    IN  IF alloc_at(p.vmas, a) = p.vmas THEN [p EXCEPT !.pc = "panic"]
        ELSE [p EXCEPT !.vmas = alloc_at(@, a)]

overlaps(lo, hi, fb) == lo < fb.hi /\ fb.lo < hi

\* A bar that holds the framebuffer: only its pages after the framebuffer are new.
MapTail(p, hi) ==
    LET tail == PageUp(pciCfg.fb.hi) * PciPage
    IN  IF hi > tail THEN map_devm(p, tail, hi) ELSE p


Overlapping(p, hi) == MapTail(p, hi)

\* The body of the loop of init_virtio_devices for one register.
MapBar(p, r) ==
    LET hi == r.addr + r.size
    IN  IF ~Mem(r) \/ r.size = 0 \/ r.addr % PciPage # 0 THEN p
        ELSE IF overlaps(r.addr, hi, pciCfg.fb) THEN Overlapping(p, hi)
        ELSE map_devm(p, r.addr, hi)

NextBar(p, n) ==
    [p EXCEPT !.i = @ + n, !.job = NoJob,
              !.pc = IF p.pc = "panic" THEN "panic" ELSE IF p.i + n > 5 THEN "enable" ELSE "bars"]

MapBars ==
    /\ pciCfg.boot = "d3os" /\ pci.pc = "bars" /\ pci.job.step = "done"
    /\ pci' = NextBar(MapBar(pci, pci.job.res), 1)

\* bars: a 64-bit register takes two entries.
takes_two_entries(r) == r.kind = "mem64"

AlignUp(v, n) == ((v - 1) \div n + 1) * n

align_up(v, n) == AlignUp(v, n)

\* allocate_bars for one register: PciMemory32Allocator, set_bar_32 or set_bar_64.
AllocateBar(p, r) ==
    LET at == align_up(p.start, r.size)
        a == p.job.f
        low == Poke(p, a, p.job.i, at)
        both == IF r.kind = "mem64" THEN Poke(low, a, p.job.i + 1, at \div Word) ELSE low
    IN  IF ~Mem(r) \/ r.size >= Word THEN p
        ELSE IF at + r.size > pciCfg.range.hi THEN [p EXCEPT !.pc = "panic"]
        ELSE [both EXCEPT !.start = at + r.size, !.set[a] = both.bar[a]]

AllocateBars ==
    /\ pciCfg.boot = "alloc" /\ pci.pc = "bars" /\ pci.job.step = "done"
    /\ pci' = NextBar(AllocateBar(pci, pci.job.res),
                      IF takes_two_entries(pci.job.res) THEN 2 ELSE 1)

\* update_command or set_command, and the handler of the interrupt line.
Enable ==
    /\ pci.pc = "enable"
    /\ pci' = [pci EXCEPT !.cmd[Here] = {"io", "mem", "master"} \cup
                                        (IF pciCfg.boot = "d3os" THEN @ ELSE {}),
                          !.handlers = IF pciCfg.boot = "d3os" /\ Fn(Here).line > 0
                                       THEN Append(@, Fn(Here).line) ELSE @,
                          !.need = <<"common", "notify", "isr", "device">>,
                          !.pc = "transport"]
-----------------------------------------------------------------------------
(* PciTransport::new and HypPciTransport::new.                             *)

\* CapabilityIterator: up to the first link that is 0, below 64 or misaligned.
CapList(a) ==
    LET caps == Fn(a).caps
        last == {i \in DOMAIN caps : ~caps[i].link}
    IN  IF last = {} THEN caps ELSE SubSeq(caps, 1, Min(last))

\* The first capability of a type that is long enough.
Fits(c, type) == c.vendor /\ c.len >= (IF type = "notify" THEN 20 ELSE 16) /\ c.type = type

FindCap(a, type) ==
    LET good == SelectSeq(CapList(a), LAMBDA c : Fits(c, type))
    IN  IF good = <<>> THEN [type |-> "missing"] ELSE good[1]

Fail(p) == [p EXCEPT !.pc = "failed", !.job = NoJob]

\* The next structure: its capability is looked up and its bar is sized.
AskRegion ==
    /\ pci.pc = "transport" /\ pci.job.step = "none" /\ pci.need # <<>>
    /\ LET type == Head(pci.need)
           c == FindCap(Here, type)
       IN  pci' = IF Fn(Here).type = "unknown" THEN Fail(pci)
                  ELSE IF c.type = "missing"
                  THEN IF type = "device" THEN [pci EXCEPT !.need = Tail(@)] ELSE Fail(pci)
                  ELSE IF type = "notify" /\ c.mult % 2 # 0 THEN Fail(pci)
                  ELSE StartSizing(pci, Here, c.bar, type)

Inside(c, r) == c.off + c.length <= r.size

MinSize(type) == CASE type = "common" -> 8 [] type = "notify" -> 2 [] type = "isr" -> 1 [] OTHER -> 4

\* get_bar_region.
GetRegion ==
    /\ pci.pc = "transport" /\ pci.job.step = "done"
    /\ LET type == Head(pci.need)
           c == FindCap(Here, type)
           r == pci.job.res
           ok == Mem(r) /\ r.addr # 0 /\ Inside(c, r) /\ MinSize(type) <= c.length
                 /\ (r.addr + c.off) % (IF type = "isr" THEN 1 ELSE MinSize(type)) = 0
       IN  pci' = IF ~ok THEN Fail(pci)
                  ELSE [pci EXCEPT !.need = Tail(@), !.job = NoJob,
                                   !.regions = @ \cup {[f |-> Here, type |-> type, bar |-> c.bar,
                                                        lo |-> r.addr + c.off,
                                                        hi |-> r.addr + c.off + c.length]}]

\* call_once: the first device of a type gets the driver; another transport is dropped,
\* which resets its device.
NewDevice ==
    /\ \/ pci.pc = "transport" /\ pci.need = <<>>
       \/ pci.pc = "failed"
    /\ LET first == pci.pc = "transport" /\ \A d \in Range(pci.drivers) : Fn(d).type # Fn(Here).type
       IN  pci' = [pci EXCEPT !.drivers = IF first THEN Append(@, Here) ELSE @,
                              !.todo = Tail(@), !.i = 0, !.need = <<>>,
                              !.pc = IF Len(pci.todo) = 1 THEN "done" ELSE "bars"]

PciInit ==
    /\ pciCfg \in PciCfgs
    /\ pci = [pc |-> "scan", found |-> <<>>, todo |-> <<>>, i |-> 0, need |-> <<>>,
              bar |-> [a \in DOMAIN pciCfg.fns |-> Fn(a).val],
              set |-> [a \in DOMAIN pciCfg.fns |-> Fn(a).val],
              cmd |-> [a \in DOMAIN pciCfg.fns |-> {"mem"}],
              job |-> NoJob, vmas |-> <<>>, start |-> pciCfg.range.lo,
              regions |-> {}, drivers |-> <<>>, handlers |-> <<>>]

PciNext ==
    /\ \/ Scan \/ AskBar \/ bar_info \/ MapBars \/ AllocateBars \/ Enable
       \/ AskRegion \/ GetRegion \/ NewDevice
    /\ UNCHANGED pciCfg

PciSpec == PciInit /\ [][PciNext]_pciVars
-----------------------------------------------------------------------------
\* A device decodes addresses only while all its registers hold assigned addresses:
\* the all-ones pattern of the sizing is never live.
DecodesAssigned ==
    \A a \in DOMAIN pci.bar : pci.cmd[a] \cap {"io", "mem"} # {} => pci.bar[a] = pci.set[a]

Pages(lo, hi) == lo \div PciPage .. PageUp(hi) - 1

\* What a transport of the kernel accesses is mapped: every structure lies in a page of
\* a device memory area or of the framebuffer.
RegionsMapped ==
    pciCfg.boot = "d3os" =>
        \A r \in pci.regions : \A p \in Pages(r.lo, r.hi) :
            \/ \E v \in Range(pci.vmas) : v.s <= p /\ p < v.e
            \/ p \in Pages(pciCfg.fb.lo, pciCfg.fb.hi)

MemRange(a, i) ==
    LET lo == pci.set[a][i + 1] - (pci.set[a][i + 1] % 16)
        top == IF Desc(a, i).kind = "mem64" THEN Word * pci.set[a][i + 2] ELSE 0
    IN  lo + top .. lo + top + Desc(a, i).size - 1

\* The bars the allocator of the example hands out are aligned to their size, inside
\* the window, and disjoint over all devices.
BarsDisjoint ==
    pciCfg.boot = "alloc" =>
        LET done == {<<a, i>> \in (DOMAIN pci.bar) \X Bars :
                        /\ Desc(a, i).kind \in {"mem32", "mem64"} /\ Desc(a, i).size < Word
                        /\ pci.set[a] # Fn(a).val /\ pci.set[a][i + 1] # Fn(a).val[i + 1]}
        IN  \A x, y \in done :
                /\ MemRange(x[1], x[2]) \subseteq pciCfg.range.lo .. pciCfg.range.hi - 1
                /\ Min(MemRange(x[1], x[2])) % Desc(x[1], x[2]).size = 0
                /\ x # y => MemRange(x[1], x[2]) \cap MemRange(y[1], y[2]) = {}

\* A structure of a transport lies inside the bar its capability names.
RegionsInside ==
    \A r \in pci.regions : r.lo .. r.hi - 1 \subseteq MemRange(r.f, r.bar)

=============================================================================
