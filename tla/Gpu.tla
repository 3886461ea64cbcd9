--------------------------------- MODULE Gpu ---------------------------------
(***************************************************************************)
(* VirtIOGpu (device/gpu.rs) on a device with resources, backings and a    *)
(* scanout, used by rectangle_demo or by calls in any order.  A command is *)
(* add_notify_wait_pop, so each is answered before the next; the device    *)
(* refuses a command that makes no sense in its state, and may refuse one  *)
(* of those in gpuCfg.refuses for reasons of its own.                      *)
(***************************************************************************)
EXTENDS Integers, Sequences, FiniteSets, TLC

CONSTANTS GpuCfgs, Displays, MaxResizes

VARIABLES
    gpuCfg,      \* client, refuses; fixed
    gpu,         \* rect, frame_buffer_dma, cursor_buffer_dma
    dma,         \* the live DMA areas: for each its size
    gdev,        \* the device: display, res (the backing of each resource), scanout, ctx, read
    gpuPending,  \* GPU_CONFIG_PENDING
    resizes,
    demo,        \* rectangle_demo: pc, the size and the frame buffer it draws with
    gpuStream,   \* the last command stream that was submitted
    gpuResult

gpuVars == <<gpu, dma, gdev, gpuPending, resizes, demo, gpuStream, gpuResult>>

NoDma == 0
NoRect == 0
FB == "fb"
CURSOR == "cursor"
TEXTURE == "texture"

GpuInit ==
    /\ gpuCfg \in GpuCfgs
    /\ gpu = [rect |-> NoRect, fb |-> NoDma, cur |-> NoDma]
    /\ dma = <<>>
    /\ \E d \in Displays :
         gdev = [display |-> d, res |-> <<>>, scanout |-> "none", ctx |-> FALSE, read |-> NoDma]
    /\ gpuPending = FALSE
    /\ resizes = 0
    /\ demo = [pc |-> "resolution", size |-> NoRect, fb |-> NoDma]
    /\ gpuStream = <<>>
    /\ gpuResult = [call |-> "none", ok |-> TRUE]

-----------------------------------------------------------------------------
(* Commands.  s is the device with the outcome so far: the ? of the code   *)
(* skips the commands after one that failed.                               *)

Command(s, name, no, sound, dev) ==
    IF ~s.ok THEN s
    ELSE IF name = no \/ ~sound THEN [s EXCEPT !.ok = FALSE] ELSE [s EXCEPT !.dev = dev]

get_display_info(s, no) == Command(s, "display", no, TRUE, s.dev)

resource_create(s, id, no) ==
    Command(s, "create", no, id \notin DOMAIN s.dev.res, [s.dev EXCEPT !.res = (id :> NoDma) @@ @])

resource_attach_backing(s, id, area, no) ==
    Command(s, "attach", no, id \in DOMAIN s.dev.res /\ s.dev.res[id] = NoDma,
            [s.dev EXCEPT !.res = [r \in DOMAIN @ \cup {id} |-> IF r = id THEN area ELSE @[r]]])

resource_detach_backing(s, id, no) ==
    Command(s, "detach", no, id \in DOMAIN s.dev.res,
            [s.dev EXCEPT !.res = [r \in DOMAIN @ |-> IF r = id THEN NoDma ELSE @[r]]])

resource_unref(s, id, no) ==
    Command(s, "unref", no, id \in DOMAIN s.dev.res,
            [s.dev EXCEPT !.res = [r \in DOMAIN @ \ {id} |-> @[r]],
                          !.scanout = IF @ = id THEN "none" ELSE @])

set_scanout(s, id, no) ==
    Command(s, "scanout", no, id = "none" \/ id \in DOMAIN s.dev.res, [s.dev EXCEPT !.scanout = id])

\* The device copies the backing, so it reads the guest's memory.
transfer_to_host_2d(s, id, no) ==
    LET backed == id \in DOMAIN s.dev.res /\ s.dev.res[id] # NoDma
    IN  Command(s, "transfer", no, backed,
                IF backed THEN [s.dev EXCEPT !.read = s.dev.res[id]] ELSE s.dev)

resource_flush(s, id, no) == Command(s, "flush", no, id \in DOMAIN s.dev.res, s.dev)

context_create(s, no) == Command(s, "ctx", no, ~s.dev.ctx, [s.dev EXCEPT !.ctx = TRUE])

ctx_attach_resource(s, id, no) ==
    Command(s, "ctx_attach", no, s.dev.ctx /\ id \in DOMAIN s.dev.res, s.dev)

submit_3d(s, no) == Command(s, "submit", no, s.dev.ctx, s.dev)

\* update_cursor goes to the cursor queue, which has no answer.
update_cursor(s) == s

Begin == [dev |-> gdev, ok |-> TRUE]

\* let _ = ...: the outcome is ignored.
Ignored(s) == [s EXCEPT !.ok = TRUE]

NewArea == CHOOSE a \in 1..4 : a \notin DOMAIN dma

Drop(areas, gone) == [a \in DOMAIN areas \ gone |-> areas[a]]

-----------------------------------------------------------------------------
(* The methods of the driver. *)


\* destroy_framebuffer.
destroy_framebuffer(s, no) ==
    Ignored(resource_unref(Ignored(resource_detach_backing(
        Ignored(set_scanout(s, "none", no)), FB, no)), FB, no))

\* setup_framebuffer: an old frame buffer is destroyed first.  The new area
\* is dropped when a command after its allocation fails.
SetupFramebuffer(no) ==
    LET s0 == get_display_info(Begin, no)
        s1 == IF s0.ok /\ gpu.fb # NoDma THEN destroy_framebuffer(s0, no) ELSE s0
        s2 == resource_create(s1, FB, no)
        kept == IF s0.ok THEN Drop(dma, {gpu.fb}) ELSE dma
        s4 == set_scanout(resource_attach_backing(s2, FB, NewArea, no), FB, no)
    IN  /\ gdev' = s4.dev
        /\ gpu' = IF ~s0.ok THEN gpu
                  ELSE [gpu EXCEPT !.rect = gdev.display, !.fb = IF s4.ok THEN NewArea ELSE NoDma]
        /\ dma' = IF s4.ok THEN (NewArea :> gdev.display) @@ kept ELSE kept
        /\ gpuResult' = [call |-> "setup", ok |-> s4.ok]

Copied(no) == resource_flush(transfer_to_host_2d(Begin, FB, no), FB, no)

\* flush: NotReady without a rectangle.
GpuFlush(no) ==
    LET s == Copied(no)
        ready == gpu.rect # NoRect
    IN  /\ gdev' = IF ready THEN s.dev ELSE gdev
        /\ gpuResult' = [call |-> "flush", ok |-> ready /\ s.ok]
        /\ UNCHANGED <<gpu, dma>>

\* setup_cursor: the old image is dropped only when the new one is in place.
SetupCursor(no) ==
    LET s == update_cursor(transfer_to_host_2d(resource_attach_backing(
                 resource_create(Begin, CURSOR, no), CURSOR, NewArea, no), CURSOR, no))
    IN  /\ gdev' = s.dev
        /\ gpu' = IF s.ok THEN [gpu EXCEPT !.cur = NewArea] ELSE gpu
        /\ dma' = IF s.ok THEN (NewArea :> 64) @@ Drop(dma, {gpu.cur}) ELSE dma
        /\ gpuResult' = [call |-> "cursor", ok |-> s.ok]

MoveCursor ==
    /\ gpuResult' = [call |-> "cursor", ok |-> update_cursor(Begin).ok]
    /\ UNCHANGED <<gpu, dma, gdev>>

-----------------------------------------------------------------------------
(* The command stream of test_virgl: words, of which a header names the    *)
(* number of words that follow it.                                         *)

virgl_cmd0(cmd, obj, len) == [cmd |-> cmd, obj |-> obj, len |-> len]

Payload == virgl_cmd0(0, 0, 0)

Words(n) == [i \in 1..n |-> Payload]


encode_create_surface == <<virgl_cmd0(1, 8, 5)>> \o Words(5)
encode_set_framebuffer_state == <<virgl_cmd0(5, 0, 3)>> \o Words(3)
encode_set_viewport_full == <<virgl_cmd0(4, 0, 7)>> \o Words(1 + 6)
\* The flags, four floats, a double and the stencil.
encode_clear_color == <<virgl_cmd0(7, 0, 8)>> \o Words(1 + 4 + 2 + 1)

virgl_stream == encode_create_surface \o encode_set_framebuffer_state
                \o encode_set_viewport_full \o encode_clear_color

\* decode_hdr and dump_cmds: where a header is read, from each to the next by the
\* length it names, and the end.
dump_cmds(stream) ==
    LET End == Len(stream) + 1
        at[i \in 1..End] ==
            {i} \cup (IF i = End \/ i + 1 + stream[i].len > End THEN {}
                     ELSE at[i + 1 + stream[i].len])
    IN  at[1]

\* test_virgl: nothing is undone, neither at the end nor after a failure.
TestVirgl(no) ==
    LET s1 == get_display_info(context_create(Begin, no), no)
        s2 == ctx_attach_resource(resource_create(s1, TEXTURE, no), TEXTURE, no)
        s3 == set_scanout(s2, TEXTURE, no)
        s4 == resource_flush(submit_3d(s3, no), TEXTURE, no)
    IN  /\ gdev' = s4.dev
        /\ gpuStream' = IF s3.ok THEN virgl_stream ELSE gpuStream
        /\ gpuResult' = [call |-> "virgl", ok |-> s4.ok]
        /\ UNCHANGED <<gpu, dma>>

-----------------------------------------------------------------------------
(* rectangle_demo, and calls in any order. *)

Refusals == gpuCfg.refuses \cup {"none"}

\* The host resizes the display: VirtioInterruptHandler sets GPU_CONFIG_PENDING.
Resize ==
    /\ resizes < MaxResizes
    /\ \E d \in Displays \ {gdev.display} : gdev' = [gdev EXCEPT !.display = d]
    /\ gpuPending' = TRUE
    /\ resizes' = resizes + 1
    /\ UNCHANGED <<gpu, dma, demo, gpuStream, gpuResult>>

DemoAt(pc) == gpuCfg.client = "demo" /\ demo.pc = pc

\* The display's size is read, then setup_framebuffer reads it again; both unwrap.
DemoResolution ==
    /\ DemoAt("resolution")
    /\ demo' = [demo EXCEPT !.pc = "setup", !.size = gdev.display]
    /\ UNCHANGED <<gpu, dma, gdev, gpuPending, resizes, gpuStream, gpuResult>>

Frame == gpu'.fb

DemoSetup ==
    /\ DemoAt("setup")
    /\ \E no \in Refusals : SetupFramebuffer(no)
    /\ demo' = [demo EXCEPT !.pc = IF gpuResult'.ok THEN "draw" ELSE "panic",
                            !.fb = IF gpuResult'.ok THEN Frame ELSE @]
    /\ UNCHANGED <<gpuPending, resizes, gpuStream>>

\* fill_rect clips to the size the demo believes in, the slice to the area.
DemoDraw ==
    /\ DemoAt("draw")
    /\ demo' = [demo EXCEPT !.pc = IF demo.fb \in DOMAIN dma /\ demo.size > dma[demo.fb]
                                   THEN "panic" ELSE "flush"]
    /\ UNCHANGED <<gpu, dma, gdev, gpuPending, resizes, gpuStream, gpuResult>>

DemoFlush ==
    /\ DemoAt("flush")
    /\ \E no \in Refusals : GpuFlush(no)
    /\ demo' = [demo EXCEPT !.pc = IF gpuResult'.ok THEN "loop" ELSE "panic"]
    /\ UNCHANGED <<gpuPending, resizes, gpuStream>>


NextFrame == IF gpuPending THEN "resolution" ELSE "draw"

DemoLoop ==
    /\ DemoAt("loop")
    /\ demo' = [demo EXCEPT !.pc = NextFrame]
    /\ gpuPending' = FALSE
    /\ UNCHANGED <<gpu, dma, gdev, resizes, gpuStream, gpuResult>>

ApiCall ==
    /\ gpuCfg.client = "api"
    /\ \/ \E no \in Refusals : (SetupFramebuffer(no) \/ GpuFlush(no) \/ SetupCursor(no)) /\ UNCHANGED gpuStream
       \/ \E no \in Refusals : TestVirgl(no)
       \/ MoveCursor /\ UNCHANGED gpuStream
    /\ UNCHANGED <<gpuPending, resizes, demo>>

DemoStep == DemoResolution \/ DemoSetup \/ DemoDraw \/ DemoFlush \/ DemoLoop

GpuNext == UNCHANGED gpuCfg /\ (Resize \/ DemoStep \/ ApiCall)

\* The demo's thread runs.
GpuFairness == WF_gpuVars(DemoStep /\ UNCHANGED gpuCfg)

-----------------------------------------------------------------------------
(* Properties. *)

\* "so the device doesn't try to access them after they have been freed": the memory
\* of every backing the device has is still the driver's.
BackingAlive == \A r \in DOMAIN gdev.res : gdev.res[r] \in DOMAIN dma \cup {NoDma}

\* When flush returns Ok the device has copied the current frame buffer.
FlushCopiesFrame ==
    gpuResult.call = "flush" /\ gpuResult.ok => gpu.fb # NoDma /\ FB \in DOMAIN gdev.res
                                                /\ gdev.res[FB] = gpu.fb

\* The demo draws through its pointer only into a frame buffer that still exists,
\* also after a resize has replaced it.
DemoFrameAlive == demo.pc \in {"draw", "flush", "loop"} => demo.fb \in DOMAIN dma

\* Every header of the stream is found where the previous one says it is.
StreamWellFormed ==
    dump_cmds(gpuStream) = {i \in 1..Len(gpuStream) : gpuStream[i] # Payload}
                            \cup {Len(gpuStream) + 1}


=============================================================================
