------------------------------ MODULE Transport ------------------------------
(***************************************************************************)
(* The transports of the virtio-drivers crate: how a driver initialises a  *)
(* device, sets its queues up, acknowledges its interrupts, reads its      *)
(* configuration space and lets it go, one register access at a time.      *)
(*                                                                         *)
(* Every method of the Transport trait is a sequence of register accesses  *)
(* and the device runs between any two of them.  A driver is the sequence  *)
(* of calls its constructor, its life and its Drop make.  The four         *)
(* transports (PCI, the hypercall PCI transport of x86-64 pKVM, MMIO in    *)
(* its legacy and modern versions, and the fake transport of the unit      *)
(* tests) differ in their accesses only.                                   *)
(***************************************************************************)
EXTENDS Naturals, Sequences, FiniteSets, SequencesExt

CONSTANTS
    TrCfgs,      \* records [kind, queues, max, config]: the transport, how many queues
                 \* the driver makes, the size the device has for the last, and
                 \* whether its configuration space holds the fields the driver reads
    QSize,       \* the SIZE of the driver's queues
    Offered,     \* the device's feature bits, a pair of sets: word 0 and word 1
    Supported,   \* the driver's SUPPORTED_FEATURES, likewise
    GenMod,      \* the config generation counts modulo this (a u8 on PCI)
    MaxChanges,  \* bound: how often the device changes its configuration
    MaxCalls     \* bound: calls a driver makes between construction and drop

VARIABLES trCfg, tdev, tdrv

trVars == <<tdev, tdrv>>

Queues == 1..2
QRegs == {"num", "align", "pfn", "ready", "desc_low", "desc_high",
          "driver_low", "driver_high", "device_low", "device_high"}

\* DeviceStatus
Acknowledge == {"ACKNOWLEDGE", "DRIVER"}
FeaturesOk == Acknowledge \cup {"FEATURES_OK"}
DriverOk == FeaturesOk \cup {"DRIVER_OK"}

Unset == [r \in QRegs |-> 0]

\* A device after reset.
FreshDevice ==
    [status |-> {}, resetting |-> FALSE, featureSel |-> 0, driverSel |-> 0,
     accepted |-> <<{}, {}>>, sel |-> 0, queue |-> [q \in Queues |-> Unset],
     pageSize |-> 0, notified |-> {}, isr |-> {}]

\* The memory of queue q is at a non-zero address; both halves stand for it.
Addr(q) == q

-----------------------------------------------------------------------------
(* Register accesses *)

W(reg, val) == [op |-> "write", regs |-> <<<<reg, val>>>>]
\* Several registers at once: a 64-bit register, or a method that holds the
\* fake transport's lock.
WAll(regs) == [op |-> "write", regs |-> regs]
R(reg) == [op |-> "read", regs |-> <<<<reg, 0>>>>]
\* Spins until the register reads as zero.
WaitZero(reg) == [op |-> "wait", regs |-> <<<<reg, 0>>>>]
\* Writes back what the last access read, unless it was zero.
WriteGot(reg) == [op |-> "back", regs |-> <<<<reg, 0>>>>]

Wide(reg, val) == << <<reg \o "_low", val>>, <<reg \o "_high", val>> >>

read_device_features == <<W("device_feature_select", 0), R("device_feature"),
                          W("device_feature_select", 1), R("device_feature")>>

write_driver_features(f) ==
    <<W("driver_feature_select", 0), W("driver_feature", f[1]),
      W("driver_feature_select", 1), W("driver_feature", f[2])>>

max_queue_size(q) == <<W("queue_select", q), R("num_max")>>

notify(q) == <<W("queue_select", q), R("queue_notify_off"), W("notify", q)>>

\* Mutant: the queue is enabled before the device has its addresses.
QueueSetEarly(q) ==
    <<W("queue_select", q), W("num", QSize), W("ready", 1), WAll(Wide("desc", Addr(q))),
      WAll(Wide("driver", Addr(q))), WAll(Wide("device", Addr(q)))>>

queue_set(q) ==
    <<W("queue_select", q), W("num", QSize), WAll(Wide("desc", Addr(q))),
      WAll(Wide("driver", Addr(q))), WAll(Wide("device", Addr(q))), W("ready", 1)>>

queue_used(q) == <<W("queue_select", q), R("ready")>>

\* Reading the ISR status of a PCI device clears it.
ack_interrupt == <<R("isr_clear")>>

\* PciTransport::drop
drop_pci == <<W("status", {}), WaitZero("status")>>

\* Methods that are the same accesses on every transport.
CommonCall(c, f) ==
    CASE c.fn = "set_status"            -> <<W("status", c.arg)>>
      [] c.fn = "read_device_features"  -> read_device_features
      [] c.fn = "write_driver_features" -> write_driver_features(f)
      [] c.fn = "max_queue_size"        -> max_queue_size(c.arg)
      [] c.fn = "read_consistent"       -> <<R("generation"), R("config0"),
                                             R("config1"), R("generation")>>
      [] OTHER                          -> <<>>

PciCall(c, f) ==
    CASE c.fn = "notify"        -> notify(c.arg)
      [] c.fn = "queue_set"     -> queue_set(c.arg)
      [] c.fn = "queue_unset"   -> <<>>
      [] c.fn = "queue_used"    -> queue_used(c.arg)
      [] c.fn = "ack_interrupt" -> ack_interrupt
      [] c.fn = "drop"          -> drop_pci
      [] OTHER                  -> CommonCall(c, f)

\* HypPciTransport makes the accesses of PciTransport through hypercalls.  It
\* has no Drop.
HypCall(c, f) == IF c.fn = "drop" THEN <<>> ELSE PciCall(c, f)

queue_set_legacy(q) ==
    <<W("queue_select", q), W("num", QSize), W("align", 4096), W("pfn", Addr(q))>>

queue_set_modern(q) ==
    <<W("queue_select", q), W("num", QSize)>>
    \o [i \in 1..6 |-> W(<<"desc_low", "desc_high", "driver_low", "driver_high",
                           "device_low", "device_high">>[i], Addr(q))]
    \o <<W("ready", 1)>>

queue_unset_legacy(q) ==
    <<W("queue_select", q), W("num", 0), W("align", 0), W("pfn", 0)>>

queue_unset_modern(q) ==
    <<W("queue_select", q), W("ready", 0), WaitZero("ready"), W("num", 0)>>
    \o [i \in 1..6 |-> W(<<"desc_low", "desc_high", "driver_low", "driver_high",
                           "device_low", "device_high">>[i], 0)]

\* MmioTransport::ack_interrupt
ack_interrupt_mmio == <<R("interrupt_status"), WriteGot("interrupt_ack")>>

MmioCall(c, f, legacy) ==
    CASE c.fn = "notify"        -> <<W("notify", c.arg)>>
      [] c.fn = "set_guest_page_size" -> IF legacy THEN <<W("page_size", 4096)>> ELSE <<>>
      [] c.fn = "queue_set"     -> IF legacy THEN queue_set_legacy(c.arg)
                                             ELSE queue_set_modern(c.arg)
      [] c.fn = "queue_unset"   -> IF legacy THEN queue_unset_legacy(c.arg)
                                             ELSE queue_unset_modern(c.arg)
      [] c.fn = "queue_used"    -> <<W("queue_select", c.arg),
                                     R(IF legacy THEN "pfn" ELSE "ready")>>
      [] c.fn = "ack_interrupt" -> ack_interrupt_mmio
      [] c.fn = "drop"          -> <<W("status", {})>>
      [] OTHER                  -> CommonCall(c, f)

\* FakeTransport holds its state's lock for a whole method; a queue is in use
\* when its descriptors have an address.
FakeCall(c, f) ==
    CASE c.fn = "notify"      -> <<W("notify", c.arg)>>
      [] c.fn = "set_guest_page_size" -> <<W("page_size", 4096)>>
      [] c.fn = "queue_set"   ->
            <<WAll(<< <<"queue_select", c.arg>>, <<"num", QSize>> >> \o Wide("desc", Addr(c.arg))
                   \o Wide("driver", Addr(c.arg)) \o Wide("device", Addr(c.arg)))>>
      [] c.fn = "queue_unset" ->
            <<WAll(<< <<"queue_select", c.arg>>, <<"num", 0>> >> \o Wide("desc", 0)
                   \o Wide("driver", 0) \o Wide("device", 0))>>
      [] c.fn = "queue_used"  -> <<W("queue_select", c.arg), R("desc_low")>>
      [] c.fn = "ack_interrupt" -> ack_interrupt
      [] OTHER                -> CommonCall(c, f)

\* SomeTransport hands every method to the transport it wraps.
Accesses(kind, c, f) ==
    CASE kind = "pci"    -> PciCall(c, f)
      [] kind = "hyp"    -> HypCall(c, f)
      [] kind = "legacy" -> MmioCall(c, f, TRUE)
      [] kind = "modern" -> MmioCall(c, f, FALSE)
      [] kind = "fake"   -> FakeCall(c, f)

-----------------------------------------------------------------------------
(* What the device does with an access *)

\* A queue the device may use: it was enabled, has a page, or (fake) an address.
Active(kind, qr) ==
    CASE kind = "legacy" -> qr.pfn # 0
      [] kind = "fake"   -> qr.desc_low # 0
      [] OTHER           -> qr.ready = 1

\* Resetting a PCI device takes time, of which the status tells the end.
WriteStatus(kind, d, val) ==
    IF val # {} THEN [d EXCEPT !.status = val]
    ELSE IF kind = "fake" THEN [d EXCEPT !.status = {}]
    ELSE IF kind \in {"pci", "hyp"} /\ d.status # {} THEN [d EXCEPT !.resetting = TRUE]
    ELSE FreshDevice

WriteReg(kind, d, reg, val) ==
    CASE reg = "status"                -> WriteStatus(kind, d, val)
      [] reg = "device_feature_select" -> [d EXCEPT !.featureSel = val]
      [] reg = "driver_feature_select" -> [d EXCEPT !.driverSel = val]
      [] reg = "driver_feature"        -> [d EXCEPT !.accepted[d.driverSel + 1] = val]
      [] reg = "queue_select"          -> [d EXCEPT !.sel = val]
      [] reg = "page_size"             -> [d EXCEPT !.pageSize = val]
      [] reg = "notify"                -> [d EXCEPT !.notified = @ \cup {val}]
      [] reg = "interrupt_ack"         -> [d EXCEPT !.isr = @ \ val]
      [] reg \in QRegs                 -> [d EXCEPT !.queue[d.sel][reg] = val]

ReadReg(d, reg, cfg, env) ==
    CASE reg = "status"           -> IF d.resetting THEN 1 ELSE 0
      [] reg = "device_feature"   -> Offered[d.featureSel + 1]
      [] reg = "num_max"          -> IF d.sel = cfg.queues THEN cfg.max ELSE QSize
      [] reg = "queue_notify_off" -> 0
      [] reg \in {"isr_clear", "interrupt_status"} -> d.isr
      [] reg = "generation"       -> env.version % GenMod
      [] reg \in {"config0", "config1"} -> env.version
      [] reg \in QRegs            -> d.queue[d.sel][reg]

-----------------------------------------------------------------------------
(* The driver *)

Call(fn, arg) == [fn |-> fn, arg |-> arg]

begin_init ==
    <<Call("set_status", {}), Call("set_status", Acknowledge),
      Call("read_device_features", 0), Call("write_driver_features", 0),
      Call("set_status", FeaturesOk), Call("set_guest_page_size", 0)>>

\* VirtQueue::new: refuses a queue that is in use or too small, and allocates
\* the rings' memory before it tells the device where they are.
NewVirtQueue(q) ==
    <<Call("queue_used", q), Call("max_queue_size", q), Call("queue_set", q)>>

finish_init == <<Call("set_status", DriverOk)>>

\* A driver's new: every device driver of the crate makes these calls.
NewDriver(n) ==
    begin_init \o <<Call("read_consistent", 0)>>
    \o FlattenSeq([i \in 1..n |-> NewVirtQueue(i)]) \o finish_init

\* Drop of a driver: its own drop unsets the queues, then its fields go in the
\* order of their declaration: the transport before the queues.
DropDriver(n) ==
    [i \in 1..n |-> Call("queue_unset", i)] \o <<Call("drop", 0)>>
    \o [i \in 1..n |-> Call("free", i)]

\* new returns an error: no driver exists, so only its local queues and the
\* transport are dropped, the transport (the parameter) last.
AbandonDriver(q) ==
    [i \in 1..(q - 1) |-> Call("free", q - i)] \o <<Call("drop", 0)>>

NewTrDrv(n) ==
    [phase |-> "new", todo |-> NewDriver(n), call |-> Call("none", 0), ops |-> <<>>,
     got |-> <<>>, features |-> <<{}, {}>>, mem |-> [q \in Queues |-> "none"],
     config |-> <<>>, calls |-> 0, version |-> 0]

TrInit ==
    /\ trCfg \in TrCfgs
    /\ tdev = FreshDevice
    /\ tdrv = NewTrDrv(trCfg.queues)


Consistent(got) == got[1] = got[4]

\* The end of a call, with what its accesses read.  A field outside the configuration
\* space is an error, which the driver's new passes on.
TrReturn(v) ==
    LET c == v.call
    IN  CASE c.fn = "read_device_features" ->
                [v EXCEPT !.features = <<v.got[1] \cap Supported[1],
                                         v.got[2] \cap Supported[2]>>]
          [] c.fn = "queue_used" /\ v.got[1] # 0 ->
                [v EXCEPT !.phase = "failed", !.todo = AbandonDriver(c.arg)]
          [] c.fn = "max_queue_size" ->
                IF v.got[1] < QSize
                THEN [v EXCEPT !.phase = "failed", !.todo = AbandonDriver(c.arg)]
                ELSE [v EXCEPT !.mem[c.arg] = "live"]
          [] c.fn = "read_consistent" ->
                IF Consistent(v.got) /\ ~trCfg.config
                THEN IF v.phase = "new" THEN [v EXCEPT !.phase = "failed", !.todo = AbandonDriver(1)] ELSE v
                ELSE IF Consistent(v.got) THEN [v EXCEPT !.config = <<v.got[2], v.got[3]>>]
                ELSE [v EXCEPT !.todo = <<c>> \o @]
          [] c.fn = "free" -> [v EXCEPT !.mem[c.arg] = "freed"]
          [] OTHER -> v

\* The next call of the driver's program.
TrCall ==
    /\ tdrv.ops = <<>>
    /\ tdrv.todo # <<>>
    /\ LET c == Head(tdrv.todo)
           ops == Accesses(trCfg.kind, c, tdrv.features)
           v == [tdrv EXCEPT !.todo = Tail(@), !.call = c, !.ops = ops, !.got = <<>>]
       IN  tdrv' = IF ops = <<>> THEN TrReturn(v) ELSE v
    /\ UNCHANGED tdev

\* One access of the call under way.
TrAccess ==
    /\ tdrv.ops # <<>>
    /\ LET o == Head(tdrv.ops)
           reg == o.regs[1][1]
           val == ReadReg(tdev, reg, trCfg, tdrv)
           Done(v) == IF Len(v.ops) = 1 THEN TrReturn([v EXCEPT !.ops = <<>>])
                      ELSE [v EXCEPT !.ops = Tail(@)]
       IN  \/ /\ o.op = "write"
              /\ tdev' = FoldLeft(LAMBDA d, w : WriteReg(trCfg.kind, d, w[1], w[2]),
                                  tdev, o.regs)
              /\ tdrv' = Done(tdrv)
           \/ /\ o.op = "read"
              /\ tdev' = IF reg = "isr_clear" THEN [tdev EXCEPT !.isr = {}] ELSE tdev
              /\ tdrv' = Done([tdrv EXCEPT !.got = Append(@, val)])
           \/ /\ o.op = "wait" /\ val = 0
              /\ UNCHANGED tdev
              /\ tdrv' = Done(tdrv)
           \/ /\ o.op = "back"
              /\ tdev' = WriteReg(trCfg.kind, tdev, reg, Last(tdrv.got))
              /\ tdrv' = Done(tdrv)

Idle == tdrv.ops = <<>> /\ tdrv.todo = <<>>

\* A driver that is set up notifies its queues, acknowledges interrupts and
\* reads the configuration, and is dropped at some time.
TrUse ==
    /\ Idle /\ tdrv.phase \in {"new", "run"} /\ tdrv.calls < MaxCalls
    /\ \E c \in {Call("notify", q) : q \in 1..trCfg.queues}
                \cup {Call("ack_interrupt", 0), Call("read_consistent", 0)} :
          tdrv' = [tdrv EXCEPT !.phase = "run", !.todo = <<c>>, !.calls = @ + 1]
    /\ UNCHANGED tdev

TrDrop ==
    /\ Idle /\ tdrv.phase \in {"new", "run"}
    /\ tdrv' = [tdrv EXCEPT !.phase = "drop", !.todo = DropDriver(trCfg.queues)]
    /\ UNCHANGED tdev

\* A device that was let go, or refused, can be driven again.
TrAgain ==
    /\ Idle /\ tdrv.phase \in {"drop", "failed"} /\ tdrv.calls < MaxCalls
    /\ tdrv' = [NewTrDrv(trCfg.queues) EXCEPT
                    !.calls = tdrv.calls + 1, !.version = tdrv.version]
    /\ UNCHANGED tdev

-----------------------------------------------------------------------------
(* The device *)

\* External: the device finishes its reset.
DevReset ==
    /\ tdev.resetting
    /\ tdev' = FreshDevice
    /\ UNCHANGED tdrv

Running == "DRIVER_OK" \in tdev.status

\* The device may read and write the rings of queue q.
MayTouch(q) == Running /\ Active(trCfg.kind, tdev.queue[q])

\* External: a notified device works on the queue and raises an interrupt.
DevWork ==
    /\ \E q \in tdev.notified :
          /\ MayTouch(q)
          /\ tdev' = [tdev EXCEPT !.notified = @ \ {q}, !.isr = @ \cup {"queue"}]
    /\ UNCHANGED tdrv

\* External: the device changes its configuration.
DevConfig ==
    /\ tdrv.version < MaxChanges
    /\ tdrv' = [tdrv EXCEPT !.version = @ + 1]
    /\ tdev' = IF Running THEN [tdev EXCEPT !.isr = @ \cup {"config"}] ELSE tdev

TrStep == TrCall \/ TrAccess \/ TrUse \/ TrDrop \/ TrAgain
TrNext == (TrStep \/ DevReset \/ DevWork \/ DevConfig) /\ UNCHANGED trCfg

\* The driver's thread runs, and a device finishes its reset.
TrFairness == WF_trVars((TrCall \/ TrAccess) /\ UNCHANGED trCfg)
              /\ WF_trVars(DevReset /\ UNCHANGED trCfg)

TrSpec == TrInit /\ [][TrNext]_<<trVars, trCfg>> /\ TrFairness

-----------------------------------------------------------------------------
(* Properties *)

\* The device never runs a queue whose memory has been given back: the rings
\* outlive every use the device can make of them, through set-up, failure of
\* the constructor, Drop and the next driver of the same device.
QueueMemoryAlive == \A q \in Queues : MayTouch(q) => tdrv.mem[q] = "live"

\* A queue the device may use has its size and all of its addresses: whatever
\* the device does between two accesses of queue_set or queue_unset, it sees no
\* half-set queue.  (A legacy queue has only its page; its size is taken back
\* while the page is still set.)
QueueSetWhole ==
    \A q \in Queues :
        Active(trCfg.kind, tdev.queue[q]) =>
            IF trCfg.kind = "legacy" THEN tdev.queue[q].pfn = Addr(q)
            ELSE /\ tdev.queue[q].num = QSize
                 /\ \A r \in QRegs \ {"num", "align", "pfn", "ready"} :
                        tdev.queue[q][r] = Addr(q)

\* A running device has accepted exactly the features that it offers and the
\* driver supports, in both words of the feature registers.
FeaturesAgreed ==
    Running => \A i \in 1..2 : tdev.accepted[i] = Offered[i] \cap Supported[i]

\* Whatever the device sees of a driver's set-up is whole: no half-set queue, and no
\* features but those both sides have.
SetupWhole == QueueSetWhole /\ FeaturesAgreed


\* Letting go of a device ends: the waits for the reset and for queue_ready are
\* for something the driver has asked for.
DropEnds == (tdrv.phase \in {"drop", "failed"}) ~> Idle
=============================================================================
