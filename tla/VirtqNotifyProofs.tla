------------------------- MODULE VirtqNotifyProofs -------------------------
(***************************************************************************)
(* No wake-up is lost, for every queue size and index width, with or       *)
(* without VIRTIO_F_EVENT_IDX, when stores are not delayed.                *)
(*                                                                         *)
(* NoLostKick alone is not inductive.  The strengthening says what an      *)
(* armed or sleeping device has published (Armed), that the store to       *)
(* avail.idx is visible at once (InOrder), and that the index a sleeping   *)
(* device waits for is passed by what the driver is about to compare       *)
(* (Crossed): the comparison in should_notify is not modular, so this      *)
(* needs the sleeping device to be exactly one buffer behind, or never to  *)
(* have run since the first batch.                                         *)
(***************************************************************************)
EXTENDS VirtqNotify, TLAPS

InOrder == ~store_buffer => mem_idx = avail_idx

Armed ==
  dev \in {"armed", "asleep"} =>
    /\ event_idx => avail_event = dev_idx
    /\ ~event_idx => no_notify = FALSE

Crossed ==
  ~store_buffer /\ dev = "asleep" /\ dev_idx # avail_idx /\ ~kick /\ pc = "added"
    => avail_idx >= Succ(dev_idx)

NotifyInv == TypeOK /\ InOrder /\ Armed /\ Crossed /\ NoLostKick

(* The successor of an index is an index. *)
LEMMA SuccType == \A i \in Idx : Succ(i) \in Idx
  BY NotifyAssumption DEF Idx, Succ

(* The states a driver starts in, with an empty queue or with the first     *)
(* batch added and should_notify still to be called, satisfy NotifyInv.     *)
LEMMA InitNotifyInv == Init => NotifyInv
<1> SUFFICES ASSUME Init PROVE NotifyInv
  OBVIOUS
<1>1. PICK n \in 0 .. QueueSize : /\ avail_idx = n
                                  /\ pc = IF n = 0 THEN "idle" ELSE "added"
                                  /\ mem_idx \in 0 .. n /\ (~store_buffer => mem_idx = n)
  BY DEF Init
<1>2. TypeOK
  <2>1. n \in Idx /\ 0 \in Idx /\ mem_idx \in Idx
    BY <1>1, NotifyAssumption DEF Idx
  <2> QED
    BY <1>1, <2>1 DEF Init, TypeOK
<1>3. Succ(0) = 1 \/ IdxMod = 1
  BY NotifyAssumption DEF Succ
<1>4. Crossed
  BY <1>1, <1>3, NotifyAssumption DEF Init, Crossed
<1>5. InOrder /\ Armed
  BY <1>1 DEF Init, InOrder, Armed
<1>6. NoLostKick
  BY <1>1 DEF Init, NoLostKick
<1> QED
  BY <1>2, <1>4, <1>5, <1>6 DEF NotifyInv

(* Every step of driver and device preserves NotifyInv. *)
LEMMA NextNotifyInv == NotifyInv /\ [Next]_vars => NotifyInv'
<1> SUFFICES ASSUME NotifyInv, [Next]_vars PROVE NotifyInv'
  OBVIOUS
<1> USE DEF NotifyInv
<1>1. CASE \E b \in BOOLEAN : Add(b)
  <2>1. PICK b \in BOOLEAN : Add(b)
    BY <1>1
  <2>2. /\ avail_idx' = Succ(avail_idx) /\ avail_idx' \in Idx
        /\ mem_idx' = (IF store_buffer THEN mem_idx ELSE avail_idx')
        /\ mem_idx' \in Idx /\ pc' = "added" /\ blocking' = b
        /\ UNCHANGED <<config, last_used_idx, device, kick>>
    BY <2>1, SuccType DEF Add, TypeOK
  <2>3. TypeOK'
    BY <2>2 DEF TypeOK, device, config
  <2>4. Crossed'
    <3> SUFFICES ASSUME ~store_buffer, dev = "asleep", ~kick PROVE avail_idx' >= Succ(dev_idx)
      BY <2>2 DEF Crossed, device, config, Succ
    <3>1. dev_idx = avail_idx
      BY <2>1 DEF NoLostKick, InOrder, Add
    <3> QED
      BY <2>2, <3>1 DEF Idx
  <2> QED
    BY <2>2, <2>3, <2>4 DEF InOrder, Armed, NoLostKick, device, config
<1>2. CASE Drain
  <2>1. mem_idx' \in Idx /\ UNCHANGED <<config, driver, device, kick>> /\ store_buffer
    BY <1>2, SuccType DEF Drain, TypeOK, InOrder
  <2> QED
    BY <2>1 DEF config, driver, device, TypeOK, InOrder, Armed, Crossed, NoLostKick
<1>3. CASE Check
  <2>1. TypeOK'
    BY <1>3 DEF Check, TypeOK, AfterNotify, device, config
  <2>2. InOrder' /\ Armed' /\ Crossed'
    BY <1>3 DEF Check, InOrder, Armed, Crossed, AfterNotify, device, config
  <2>3. NoLostKick'
    <3> SUFFICES ASSUME ~store_buffer, dev = "asleep", dev_idx # mem_idx, ~kick
                 PROVE  pc' = "notify"
      BY <1>3 DEF Check, NoLostKick, device, config
    <3>1. ShouldNotify
      BY <1>3 DEF Check, ShouldNotify, Armed, Crossed, InOrder
    <3> QED
      BY <1>3, <3>1 DEF Check
  <2> QED
    BY <2>1, <2>2, <2>3
<1>4. CASE Notify
  BY <1>4 DEF Notify, TypeOK, InOrder, Armed, Crossed, NoLostKick, AfterNotify, device, config
<1>5. CASE WaitPop
  BY <1>5, SuccType DEF WaitPop, TypeOK, InOrder, Armed, Crossed, NoLostKick, device, config
<1>6. CASE Pop
  BY <1>6, SuccType DEF Pop, TypeOK, InOrder, Armed, Crossed, NoLostKick, device, config
<1>7. CASE DevKicked
  BY <1>7 DEF DevKicked, TypeOK, InOrder, Armed, Crossed, NoLostKick, driver, config
<1>8. CASE DevUse
  BY <1>8, SuccType DEF DevUse, TypeOK, InOrder, Armed, Crossed, NoLostKick, driver, config
<1>9. CASE DevArm
  BY <1>9 DEF DevArm, TypeOK, InOrder, Armed, Crossed, NoLostKick, driver, config
<1>10. CASE DevRecheck
  BY <1>10 DEF DevRecheck, TypeOK, InOrder, Armed, Crossed, NoLostKick, driver, config
<1>11. CASE UNCHANGED vars
  BY <1>11 DEF vars, driver, device, config, TypeOK, InOrder, Armed, Crossed, NoLostKick
<1> QED
  BY <1>1, <1>2, <1>3, <1>4, <1>5, <1>6, <1>7, <1>8, <1>9, <1>10, <1>11 DEF Next

(* With stores performed in order, the check that add's callers make with   *)
(* should_notify never leaves a sleeping device without its notification.   *)
THEOREM NoLostKickInOrder == SafetySpec => []NoLostKick
<1>1. Init => NotifyInv
  BY InitNotifyInv
<1>2. NotifyInv /\ [Next]_vars => NotifyInv'
  BY NextNotifyInv
<1>3. NotifyInv => NoLostKick
  BY DEF NotifyInv
<1> QED
  BY <1>1, <1>2, <1>3, PTL DEF SafetySpec

=============================================================================
