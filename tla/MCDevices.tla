----------------------------- MODULE MCDevices -----------------------------
(* The drivers that wait for their device, the transports, the PCI bus and *)
(* the IDE controller as one instance for TLC: `device' says which of them *)
(* runs; the others stay as they start.                                    *)
EXTENDS Sound, Console, Gpu, Transport, PciBus, Ide, TLC

CONSTANT Components   \* the ones a run looks at

VARIABLE device

One(S) == CHOOSE x \in S : TRUE

-----------------------------------------------------------------------------
\* Sound: each way of using the driver with few frames; every format and rate
\* once with the control requests; the demo on devices that do and do not have
\* the parameters it asks for.
Card(client, size, indirect, frames, formats, rates, channels) ==
    [client |-> client, size |-> size, indirect |-> indirect, streams |-> 1,
     frames |-> frames, formats |-> formats, rates |-> rates, channels |-> channels,
     jacks |-> 0, chmaps |-> 1, remap |-> TRUE,
     output |-> [i \in 0..1 |-> i = 0], events |-> 0]

MCSndCfgs ==
    {Card("blocking", 4, ind, 5, {5}, {6}, {1, 2}) : ind \in BOOLEAN}
    \cup {Card("tokens", 4, ind, 4, {5}, {6}, {1, 2}) : ind \in BOOLEAN}
    \cup {Card("control", 4, FALSE, 0, {b}, {b % 14}, {2}) : b \in 1..24}
    \cup {[Card("control", 4, FALSE, 0, {0}, {0}, {2}) EXCEPT !.jacks = 1, !.events = 2]}
    \cup {[Card("pcm_file", 8, FALSE, 4, {5, 15}, {5, 6}, 1..2) EXCEPT
             !.streams = 2, !.events = 2]}
    \cup {[Card("pcm_file", 8, TRUE, 4, {15}, {7}, 5..6) EXCEPT !.streams = 2]}
    \cup {Card("pcm_file", 4, FALSE, 3, fm, {7}, 3..4) : fm \in {{17}, {0}}}

MCConCfgs == [client : {"recv", "bufread"}, indirect : {FALSE}, emerg : BOOLEAN]

MCGpuCfgs == {[client |-> "demo", refuses |-> {}],
              [client |-> "api", refuses |-> {"display", "create", "attach"}]}

MCTrCfgs   == [kind : {"pci", "legacy", "modern", "fake"}, queues : {2}, max : {1, 4},
               config : BOOLEAN]
MCOffered  == <<{"ring_indirect", "blk_flush", "unknown"}, {"version_1"}>>
MCSupported == <<{"ring_indirect", "event_idx", "blk_flush"}, {"version_1"}>>

-----------------------------------------------------------------------------
\* PCI: functions behind a bridge and beside one, BARs of every kind below and
\* above the first word, capabilities that fit, that do not and that are far
\* from the start of their BAR, with and without a framebuffer in the way; and
\* the examples' allocator on unassigned BARs.
NoBar == [kind |-> "none", size |-> 0]
BarOf(kind, size) == [kind |-> kind, size |-> size]
Cap(type, len, bar, off, length, mult, link) ==
    [vendor |-> TRUE, type |-> type, len |-> len, bar |-> bar, off |-> off,
     length |-> length, mult |-> mult, link |-> link]
GoodCaps(bar) ==
    <<Cap("common", 16, bar, 0, 8, 0, TRUE), Cap("isr", 16, bar, 8, 1, 0, TRUE),
      [Cap("isr", 16, 0, 0, 1, 0, TRUE) EXCEPT !.vendor = FALSE],
      Cap("device", 16, bar, 16, 8, 0, TRUE), Cap("notify", 20, bar, 32, 16, 4, FALSE),
      Cap("pci", 20, bar, 0, 4, 0, FALSE)>>
Far(caps) == [i \in DOMAIN caps |-> [caps[i] EXCEPT !.off = @ + 160]]
BadCaps(bar) ==
    <<Cap("common", 16, bar, 24, 16, 0, TRUE), Cap("isr", 16, bar, 8, 1, 0, TRUE),
      Cap("notify", 20, bar, 56, 16, 4, TRUE)>>

VirtioFn(type, bars, val, caps, line) ==
    [vendor |-> "virtio", type |-> type, multi |-> FALSE, bridge |-> 0, bars |-> bars,
     val |-> val, caps |-> caps, line |-> line]
OtherFn(multi, bridge) ==
    [vendor |-> "other", type |-> "unknown", multi |-> multi, bridge |-> bridge,
     bars |-> [i \in 1..6 |-> NoBar], val |-> [i \in 1..6 |-> 0], caps |-> <<>>, line |-> 0]

BarsA == <<BarOf("io", 8), BarOf("mem32", 32), NoBar, NoBar, BarOf("mem64", 64), BarOf("top", 0)>>
ValA(up) == <<17, 96, 0, 0, 4 + 64, up>>
BarsB == <<BarOf("mem64", 512), BarOf("top", 0), BarOf("mem32", 64), BarOf("mem32", 16), NoBar, NoBar>>
ValB(up) == <<4, up, 128, 16 + 128 + 64, 0, 0>>

Nowhere == [lo |-> 0, hi |-> 0]
Machine(boot, fns, fb) ==
    [boot |-> boot, fns |-> fns, fb |-> fb, range |-> [lo |-> 40, hi |-> 250]]

MCPciCfgs ==
    {Machine("d3os",
        (<<0, 0, 0>> :> OtherFn(TRUE, 0)) @@ (<<0, 0, 1>> :> OtherFn(FALSE, 1))
        @@ (<<1, 1, 0>> :> VirtioFn("gpu", BarsA, ValA(17), caps, 11))
        @@ (<<0, 1, 0>> :> VirtioFn(t, BarsB, ValB(18), far, 0)), fb)
       : caps \in {GoodCaps(4), BadCaps(4), GoodCaps(0), GoodCaps(2)},
         t \in {"gpu", "sound", "unknown"},
         far \in {GoodCaps(0), GoodCaps(2), Far(GoodCaps(0))},
         fb \in {Nowhere, [lo |-> 18 * 256, hi |-> 18 * 256 + 100]}}
    \cup
    {Machine("alloc",
        (<<0, 0, 0>> :> VirtioFn("blk", BarsA, <<1, 0, 0, 0, 4, 0>>, GoodCaps(4), 0))
        @@ (<<0, 1, 1>> :> VirtioFn(t, BarsB, <<4, 0, 0, 0, 0, 0>>, GoodCaps(2), 0)), Nowhere)
       : t \in {"blk", "unknown", "net"}}

-----------------------------------------------------------------------------
\* IDE: two disks with different addressing, with and without DMA; drives that
\* answer oddly, are missing or are not disks; an interrupt line that is shared.
Channel(k0, k1, a0, a1) ==
    [kind |-> (0 :> k0 @@ 1 :> k1), addressing |-> (0 :> a0 @@ 1 :> a1), dma |-> FALSE,
     parts |-> {[start |-> 1, count |-> 4]}, counts |-> {1, 3}, sectors |-> {0, 7},
     slow |-> FALSE, late |-> FALSE, shared |-> FALSE]

MCIdeCfgs ==
    {Channel("ata", "ata", "Lba28", "Lba48"),
     [Channel("ata", "ata", "Lba48", "Lba28") EXCEPT !.dma = TRUE],
     Channel("odd", "none", "Lba28", "Lba48"),
     Channel("none", "atapi", "Lba28", "Lba48"),
     [Channel("ata", "none", "Lba48", "Lba28") EXCEPT
        !.dma = TRUE, !.shared = TRUE, !.counts = {2}]}

-----------------------------------------------------------------------------
\* The configuration of a component that does not run is one of its own, fixed.
MCInit ==
    /\ device \in Components
    /\ SndInit /\ (device # "sound" => sndCfg = CHOOSE c \in SndCfgs : c.client = "blocking")
    /\ ConInit /\ (device # "console" => conCfg = One(ConCfgs))
    /\ GpuInit /\ (device # "gpu" => gpuCfg.client = "api" /\ gdev.display = 1)
    /\ TrInit /\ (device # "transport" => trCfg = One(TrCfgs))
    /\ PciInit /\ (device # "pci" => pciCfg = One(PciCfgs))
    /\ IdeInit /\ (device # "ide" => ideCfg = One(IdeCfgs))

\* Every component but d stays as it is.
Only(d) ==
    /\ device = d
    /\ UNCHANGED device
    /\ d # "sound" => UNCHANGED <<sndVars, sndCfg>>
    /\ d # "console" => UNCHANGED <<conVars, conCfg>>
    /\ d # "gpu" => UNCHANGED <<gpuVars, gpuCfg>>
    /\ d # "transport" => UNCHANGED <<trVars, trCfg>>
    /\ d # "pci" => UNCHANGED pciVars
    /\ d # "ide" => UNCHANGED ideVars

MCNext ==
    \/ Only("sound") /\ SndNext
    \/ Only("console") /\ ConNext
    \/ Only("gpu") /\ GpuNext
    \/ Only("transport") /\ TrNext
    \/ Only("pci") /\ PciNext
    \/ Only("ide") /\ IdeNext

MCVars == <<device, sndVars, sndCfg, conVars, conCfg,
            gpuVars, gpuCfg, trVars, trCfg, pciVars, ideVars>>

\* What the components' own fairness says.  A behaviour has steps of one
\* component only, so one condition can speak of an action of each.
MCFairness ==
    /\ WF_MCVars(\/ Only("sound") /\ UNCHANGED sndCfg /\ SndDriver
                 \/ Only("console") /\ UNCHANGED conCfg /\ ConDeliver
                 \/ Only("gpu") /\ UNCHANGED gpuCfg /\ DemoStep
                 \/ Only("transport") /\ UNCHANGED trCfg /\ (TrCall \/ TrAccess)
                 \/ Only("ide") /\ IdeStep)
    /\ WF_MCVars(\/ Only("sound") /\ UNCHANGED sndCfg /\ SndDevice
                 \/ Only("console") /\ UNCHANGED conCfg /\ Recv(TRUE)
                 \/ Only("transport") /\ UNCHANGED trCfg /\ DevReset
                 \/ Only("ide") /\ EngineMoves)
    /\ WF_MCVars(\/ Only("sound") /\ UNCHANGED sndCfg /\ PlayNext
                 \/ Only("console") /\ UNCHANGED conCfg /\ WaitForReceive("bufread"))
    /\ WF_MCVars(Only("console") /\ UNCHANGED conCfg /\ Waited)
    /\ WF_MCVars(Only("console") /\ UNCHANGED conCfg /\ Consume(1))

MCSpec == MCInit /\ [][MCNext]_MCVars /\ MCFairness

-----------------------------------------------------------------------------

==========================================================================
