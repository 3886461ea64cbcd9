-------------------------- MODULE VirtioIrqProofs --------------------------
(***************************************************************************)
(* ResizeRemembered for every set of lines: any number of devices, in any  *)
(* order of the handler, guarded or not, level- or edge-triggered.         *)
(***************************************************************************)
EXTENDS VirtioIrq, TLAPS

\* What the steps need to know of the state: the line is one of the given
\* ones, each device has a status, the handler is at a device of the line.
IrqShape ==
  /\ irqCfg \in IrqCfgs
  /\ isr \in [Devices -> SUBSET {"queue", "config"}]
  /\ pos \in 0 .. Len(Handled)

IrqInv == IrqShape /\ ResizeRemembered

\* The devices of the line are devices, and so is the GPU.
LEMMA LineDevices ==
  ASSUME irqCfg \in IrqCfgs
  PROVE  /\ Gpu \in Devices /\ Range(Handled) \subseteq Devices
         /\ Len(Handled) \in Nat /\ Len(Handled) >= 1
         /\ \A p \in 1 .. Len(Handled) : Handled[p] \in Devices
<1>1. Range(Handled) \subseteq Devices
  BY DEF Devices, Handled
<1>2. Gpu \in Range(Handled)
  BY IrqAssumption DEF Handled
<1>3. Handled \in Seq(Range(Handled))
  BY IrqAssumption DEF Handled
<1>4. DOMAIN Handled = 1 .. Len(Handled) /\ Len(Handled) \in Nat
  BY <1>3
<1>5. DOMAIN Handled # {}
  BY <1>2 DEF Range
<1>. QED
  BY <1>1, <1>2, <1>3, <1>4, <1>5

\* A device reports something new: nothing is taken back.
LEMMA RaiseKeeps ==
  ASSUME IrqInv, UNCHANGED irqCfg,
         NEW d \in Devices, NEW cause \in {"queue", "config"}, Raise(d, cause),
         cause = "config" => d = Gpu
  PROVE  IrqInv'
<1>1. Gpu \in Devices
  BY LineDevices DEF IrqInv, IrqShape
<1>2. IrqShape'
  BY DEF IrqInv, IrqShape, Raise, Handled
<1>3. ResizeRemembered'
  BY <1>1 DEF IrqInv, IrqShape, ResizeRemembered, Raise, flags
<1>. QED
  BY <1>2, <1>3 DEF IrqInv

\* The handler resets a status after it has noted what it says.
LEMMA HandleKeeps ==
  ASSUME IrqInv, UNCHANGED irqCfg, Handle
  PROVE  IrqInv'
<1>1. Gpu \in Devices /\ Len(Handled) \in Nat /\ pos \in 1 .. Len(Handled)
      /\ Handled[pos] \in Devices
  BY LineDevices DEF IrqInv, IrqShape, Handle
<1>2. After(pos) \in 0 .. Len(Handled)
  BY <1>1 DEF After
<1>3. IrqShape'
  BY <1>1, <1>2 DEF IrqInv, IrqShape, Handle, Handled
<1>4. ResizeRemembered'
  <2>1. CASE Handled[pos] = Gpu
    BY <1>1, <2>1 DEF IrqInv, IrqShape, ResizeRemembered, Handle, NoteConfig
  <2>2. CASE Handled[pos] # Gpu
    BY <1>1, <2>2 DEF IrqInv, IrqShape, ResizeRemembered, Handle, NoteConfig
  <2>. QED
    BY <2>1, <2>2
<1>. QED
  BY <1>3, <1>4 DEF IrqInv

\* All steps together.
LEMMA IrqStep == IrqInv /\ [IrqNext]_irqVars => IrqInv'
<1>. SUFFICES ASSUME IrqInv, [IrqNext]_irqVars PROVE IrqInv'
  OBVIOUS
<1>1. Gpu \in Devices /\ Range(Handled) \subseteq Devices /\ Len(Handled) \in Nat
      /\ Len(Handled) >= 1
  BY LineDevices DEF IrqInv, IrqShape
<1>2. ASSUME UNCHANGED irqCfg, NEW d \in Range(Handled), Raise(d, "queue") PROVE IrqInv'
  BY <1>1, <1>2, RaiseKeeps
<1>3. ASSUME UNCHANGED irqCfg, Raise(Gpu, "config") PROVE IrqInv'
  BY <1>1, <1>3, RaiseKeeps
<1>4. ASSUME UNCHANGED irqCfg, Deliver PROVE IrqInv'
  BY <1>1, <1>4 DEF IrqInv, IrqShape, ResizeRemembered, Deliver, Handled, flags
<1>5. ASSUME UNCHANGED irqCfg, Handle PROVE IrqInv'
  BY <1>5, HandleKeeps
<1>6. ASSUME UNCHANGED irqCfg, Skip PROVE IrqInv'
  BY <1>1, <1>6 DEF IrqInv, IrqShape, ResizeRemembered, Skip, After, Handled, flags
<1>7. ASSUME UNCHANGED irqCfg, NEW d \in Range(Handled), Lock(d) PROVE IrqInv'
  BY <1>7 DEF IrqInv, IrqShape, ResizeRemembered, Lock, Handled, flags
<1>8. ASSUME UNCHANGED irqCfg, Unlock PROVE IrqInv'
  BY <1>8 DEF IrqInv, IrqShape, ResizeRemembered, Unlock, Handled, flags
<1>9. ASSUME UNCHANGED irqCfg, DemoSwap PROVE IrqInv'
  BY <1>9 DEF IrqInv, IrqShape, ResizeRemembered, DemoSwap, Handled
<1>10. ASSUME UNCHANGED irqCfg, DemoResize PROVE IrqInv'
  BY <1>10 DEF IrqInv, IrqShape, ResizeRemembered, DemoResize, Handled, flags
<1>11. ASSUME UNCHANGED irqVars PROVE IrqInv'
  BY <1>11 DEF IrqInv, IrqShape, ResizeRemembered, irqVars, Handled, flags
<1>. QED
  BY <1>2, <1>3, <1>4, <1>5, <1>6, <1>7, <1>8, <1>9, <1>10, <1>11 DEF IrqNext

\* Whatever devices share the line, however their drivers are locked and
\* wherever the handler is interrupted or skips a device, trigger never
\* acknowledges a config interrupt of the GPU without noting it.
THEOREM ResizeNeverForgotten == IrqSpec => []ResizeRemembered
<1>1. IrqInit => IrqInv
  <2>. SUFFICES ASSUME IrqInit PROVE IrqInv
    OBVIOUS
  <2>1. Len(Handled) \in Nat
    BY LineDevices DEF IrqInit
  <2>. QED
    BY <2>1 DEF IrqInit, IrqInv, IrqShape, ResizeRemembered
<1>2. IrqInv => ResizeRemembered
  BY DEF IrqInv
<1>. QED
  BY <1>1, <1>2, IrqStep, PTL DEF IrqSpec
=============================================================================
