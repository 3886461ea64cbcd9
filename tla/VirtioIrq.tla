----------------------------- MODULE VirtioIrq -----------------------------
(***************************************************************************)
(* Interrupts of the VirtIO devices: VirtioInterruptHandler::trigger       *)
(* (interrupt/virtio_handler.rs), called by InterruptDispatcher::dispatch  *)
(* for an interrupt line that several devices share.  A device asserts the *)
(* line while its ISR status is not zero; reading the status               *)
(* (ack_interrupt) resets it.  The handler acknowledges a device only if   *)
(* it gets the lock of its driver at once.                                 *)
(*                                                                         *)
(* One CPU: the handler runs between two steps of the interrupted thread,  *)
(* unless that thread has disabled interrupts (without_interrupts).        *)
(***************************************************************************)
EXTENDS Integers, Sequences, SequencesExt

CONSTANTS
  IrqCfgs,   \* interrupt lines: [handled, guarded, level]
  Gpu        \* the driver with a display whose size can change

ASSUME IrqAssumption ==
  \A c \in IrqCfgs :
    /\ c.handled \in Seq(Range(c.handled)) /\ Gpu \in Range(c.handled)
    /\ c.guarded \subseteq Range(c.handled) /\ c.level \in BOOLEAN

Devices == UNION {Range(c.handled) : c \in IrqCfgs}

VARIABLES
  irqCfg,              \* the line: the drivers trigger looks at, in its order; the
                       \* ones only locked with interrupts disabled; whether it is
                       \* level-triggered (apic.rs: an override says so)
  isr,                 \* the ISR status of each device
  latch,               \* edge-triggered: an edge that was not delivered yet
  locked,              \* drivers whose lock a thread holds
  enabled,             \* whether the CPU takes interrupts
  pos,                 \* handler: 0, or the position in Handled it is at
  GPU_CONFIG_PENDING, GPU_QUEUE_PENDING,
  demo,                \* the demo loop: "draw" or "resize"
  resized              \* the display has a size the demo has not read

flags == <<GPU_CONFIG_PENDING, GPU_QUEUE_PENDING>>
irqVars == <<irqCfg, isr, latch, locked, enabled, pos, flags, demo, resized>>

Handled == irqCfg.handled
Guarded == irqCfg.guarded
Level   == irqCfg.level

Asserted(status) == \E d \in Devices : status[d] # {}

IrqInit ==
  /\ irqCfg \in IrqCfgs
  /\ isr = [d \in Devices |-> {}]
  /\ latch = FALSE /\ locked = {} /\ enabled = TRUE /\ pos = 0
  /\ GPU_CONFIG_PENDING = FALSE /\ GPU_QUEUE_PENDING = FALSE
  /\ demo = "draw" /\ resized = FALSE

\* A device sets a bit of its ISR status; a rising line is an edge.
Raise(d, cause) ==
  /\ cause \notin isr[d]
  /\ isr' = [isr EXCEPT ![d] = @ \cup {cause}]
  /\ latch' = (latch \/ ~Asserted(isr))
  /\ resized' = (resized \/ cause = "config")
  /\ UNCHANGED <<locked, enabled, pos, flags, demo>>

\* The CPU takes the interrupt and the dispatcher calls trigger.
Pending == enabled /\ IF Level THEN Asserted(isr) ELSE latch
Deliver ==
  /\ pos = 0 /\ Pending
  /\ latch' = FALSE /\ pos' = 1
  /\ UNCHANGED <<isr, locked, enabled, flags, demo, resized>>

\* Mutant: the status of a device is acknowledged and not looked at.
NoteConfigDropped(d) == GPU_CONFIG_PENDING

\* The flags after the GPU's status has been read.
NoteConfig(d) == GPU_CONFIG_PENDING \/ (d = Gpu /\ "config" \in isr[d])
NoteQueue(d) == GPU_QUEUE_PENDING \/ (d = Gpu /\ "queue" \in isr[d])

After(p) == IF p = Len(Handled) THEN 0 ELSE p + 1

\* try_lock succeeded: ack_interrupt, and the flags for the GPU.
Handle ==
  /\ pos # 0 /\ Handled[pos] \notin locked
  /\ isr' = [isr EXCEPT ![Handled[pos]] = {}]
  /\ GPU_CONFIG_PENDING' = NoteConfig(Handled[pos])
  /\ GPU_QUEUE_PENDING' = NoteQueue(Handled[pos])
  /\ pos' = After(pos)
  /\ UNCHANGED <<latch, locked, enabled, demo, resized>>

\* try_lock failed: the device is not acknowledged.
Skip ==
  /\ pos # 0 /\ Handled[pos] \in locked
  /\ pos' = After(pos)
  /\ UNCHANGED <<isr, latch, locked, enabled, flags, demo, resized>>

-----------------------------------------------------------------------------
(* Threads: they run only while the handler does not.                      *)

\* Mutant: the lock is taken with interrupts enabled.
MaskEnabled(d) == TRUE

\* Whether interrupts stay enabled while the driver's lock is held.
Mask(d) == d \notin Guarded

\* A thread enters and leaves a driver (a flush, a PCM transfer, ...).  An
\* interrupt that is pending is taken before a thread gets from one call to
\* the next.
Lock(d) ==
  /\ pos = 0 /\ locked = {} /\ ~Pending
  /\ locked' = {d} /\ enabled' = Mask(d)
  /\ UNCHANGED <<isr, latch, pos, flags, demo, resized>>

Unlock ==
  /\ pos = 0 /\ locked # {}
  /\ locked' = {} /\ enabled' = TRUE
  /\ UNCHANGED <<isr, latch, pos, flags, demo, resized>>

\* rectangle_demo, top of the loop: swap(false).
DemoSwap ==
  /\ pos = 0 /\ demo = "draw" /\ GPU_CONFIG_PENDING
  /\ GPU_CONFIG_PENDING' = FALSE /\ demo' = "resize"
  /\ UNCHANGED <<GPU_QUEUE_PENDING, isr, latch, locked, enabled, pos, resized>>

\* resolution() and setup_framebuffer() with the lock, interrupts disabled.
DemoResize ==
  /\ pos = 0 /\ demo = "resize" /\ locked = {}
  /\ demo' = "draw" /\ resized' = FALSE
  /\ UNCHANGED <<isr, latch, locked, enabled, pos, flags>>

IrqNext ==
  /\ UNCHANGED irqCfg
  /\ \/ \E d \in Range(Handled) : Raise(d, "queue")
     \/ Raise(Gpu, "config")
     \/ Deliver \/ Handle \/ Skip
     \/ \E d \in Range(Handled) : Lock(d)
     \/ Unlock \/ DemoSwap \/ DemoResize

(***************************************************************************)
(* Fairness: the CPU delivers what is pending and the handler runs to its  *)
(* end; the thread that holds a lock and the demo loop get on although     *)
(* they are interrupted (strong fairness).                                 *)
(***************************************************************************)
IrqFairness ==
  /\ WF_irqVars(UNCHANGED irqCfg /\ (Deliver \/ Handle \/ Skip))
  /\ SF_irqVars(UNCHANGED irqCfg /\ Unlock)
  /\ SF_irqVars(UNCHANGED irqCfg /\ DemoSwap)
  /\ SF_irqVars(UNCHANGED irqCfg /\ DemoResize)

IrqSpec == IrqInit /\ [][IrqNext]_irqVars /\ IrqFairness
-----------------------------------------------------------------------------
\* A change of the display's size is seen by the demo's loop, although the
\* handler leaves out devices whose lock is taken.
ResizeNoticed == resized ~> ~resized

\* A config interrupt is never acknowledged without being noted: as long as
\* the new size has not been read, its bit, the flag or the demo says so.
ResizeRemembered ==
  resized => "config" \in isr[Gpu] \/ GPU_CONFIG_PENDING \/ demo = "resize"
=============================================================================
