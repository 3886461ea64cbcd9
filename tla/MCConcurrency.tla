--------------------------- MODULE MCConcurrency ---------------------------
(* What runs concurrently on the machine, as one instance for TLC: the     *)
(* notifications between driver and device, the scheduler's lists, the     *)
(* shared interrupt line, and the CPU's state across switches.  `part'     *)
(* says which of them runs; the others stay at rest.                       *)
EXTENDS VirtqNotify, Scheduler, VirtioIrq, Switching

CONSTANTS cleanup, shell, a, b, gpu, input, sound

VARIABLE part

\* A level-triggered line shared by three devices, and an edge-triggered one.
MCIrqCfgs ==
    {[handled |-> <<gpu, input, sound>>, guarded |-> {gpu}, level |-> TRUE],
     [handled |-> <<gpu>>, guarded |-> {gpu}, level |-> FALSE]}

\* Before the first application: nothing is ready.
NothingReady ==
    /\ current_thread = Cleanup /\ phase = "run"
    /\ ready_queue = <<>> /\ sleep_list = <<>>
    /\ join_map = [id \in {Cleanup} |-> <<>>]
    /\ spawned = {Cleanup} /\ ended = {}

MCInit ==
    /\ part \in {"notify", "scheduler", "irq", "switch"}
    /\ Init /\ (part # "notify" => ~event_idx /\ ~store_buffer /\ avail_idx = 0)
    /\ IF part = "scheduler" THEN SchedInit ELSE NothingReady
    /\ IrqInit /\ (part # "irq" => ~Level)
    /\ SwInit /\ (part # "switch" => cpu.cur = CHOOSE t \in SwThreads : TRUE)

\* Every component but p stays as it is.
Only(p) ==
    /\ part = p
    /\ UNCHANGED part
    /\ p # "notify" => UNCHANGED vars
    /\ p # "scheduler" => UNCHANGED schedVars
    /\ p # "irq" => UNCHANGED irqVars
    /\ p # "switch" => UNCHANGED swVars

MCNext ==
    \/ Only("notify") /\ Next
    \/ Only("scheduler") /\ SchedNext
    \/ Only("irq") /\ IrqNext
    \/ Only("switch") /\ SwNext

MCVars == <<part, vars, schedVars, irqVars, swVars>>

\* What the components' own fairness says.  A behaviour has steps of one
\* component only, so one condition can speak of an action of each.
MCFairness ==
    /\ WF_MCVars((Only("notify") /\ Drain) \/ (Only("scheduler") /\ SwitchThread))
    /\ WF_MCVars(\/ Only("notify") /\ Check
                 \/ Only("scheduler") /\ Block
                 \/ Only("irq") /\ UNCHANGED irqCfg /\ (Deliver \/ Handle \/ Skip))
    /\ WF_MCVars((Only("notify") /\ Notify) \/ (Only("scheduler") /\ TimePasses(cleanup)))
    /\ WF_MCVars((Only("notify") /\ WaitPop) \/ (Only("scheduler") /\ TimePasses(shell)))
    /\ WF_MCVars((Only("notify") /\ DevKicked) \/ (Only("scheduler") /\ TimePasses(a)))
    /\ WF_MCVars((Only("notify") /\ DevUse) \/ (Only("scheduler") /\ TimePasses(b)))
    /\ WF_MCVars(Only("notify") /\ DevArm) /\ WF_MCVars(Only("notify") /\ DevRecheck)
    /\ SF_MCVars(Only("irq") /\ UNCHANGED irqCfg /\ Unlock)
    /\ SF_MCVars(Only("irq") /\ UNCHANGED irqCfg /\ DemoSwap)
    /\ SF_MCVars(Only("irq") /\ UNCHANGED irqCfg /\ DemoResize)

MCSpec == MCInit /\ [][MCNext]_MCVars /\ MCFairness

============================================================================
