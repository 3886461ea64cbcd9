---------------------------- MODULE VirtqNotify ----------------------------
(***************************************************************************)
(* Notification suppression between the driver half of a virtqueue         *)
(* (VirtQueue::add, should_notify and their callers) and the device.       *)
(*                                                                         *)
(* The device may go to sleep after asking for a notification, either by   *)
(* storing the index it waits for in used.avail_event (VIRTIO_F_EVENT_IDX) *)
(* or by clearing the "no notify" bit of used.flags.  The driver publishes *)
(* avail.idx, then loads what the device asked for and notifies only if    *)
(* needed.  Buffers, descriptors and tokens are the subject of VirtQueue;  *)
(* here only the free-running indices matter.                              *)
(***************************************************************************)
EXTENDS Integers

CONSTANTS
  IdxMod,     (* 2^16 in the code: the indices are u16 and wrap            *)
  QueueSize   (* buffers that may be in the queue at once                  *)

ASSUME NotifyAssumption ==
  /\ IdxMod \in Nat /\ QueueSize \in Nat
  /\ 0 < QueueSize /\ QueueSize < IdxMod

VARIABLES
  event_idx,     (* VirtQueue::event_idx, fixed by the negotiation         *)
  store_buffer,  (* whether the CPU may delay the store to avail.idx past  *)
                 (* the loads after it, as x86 does without a full fence   *)
  avail_idx,     (* VirtQueue::avail_idx, the driver's own copy            *)
  mem_idx,       (* avail.idx as the device reads it                       *)
  last_used_idx, (* VirtQueue::last_used_idx                               *)
  pc,            (* the driver: idle, added, notify, wait                  *)
  blocking,      (* whether the caller waits (add_notify_wait_pop)         *)
  avail_event,   (* used.avail_event                                       *)
  no_notify,     (* bit 0 of used.flags                                    *)
  used_idx,      (* used.idx                                               *)
  dev,           (* the device: run, armed, asleep                         *)
  dev_idx,       (* the next available entry the device will take          *)
  kick           (* a notification the device has not consumed             *)

config == <<event_idx, store_buffer>>
driver == <<avail_idx, last_used_idx, pc, blocking>>
device == <<avail_event, no_notify, used_idx, dev, dev_idx>>
vars == <<config, driver, mem_idx, device, kick>>

Idx == 0 .. IdxMod - 1

Succ(i) == (i + 1) % IdxMod

(* How many entries lie from index i up to index j. *)
Between(i, j) == (j - i) % IdxMod

(***************************************************************************)
(* A driver starts with an empty queue, or, as OwningQueue::new and        *)
(* VirtIOInput::new do, with n buffers added before the first call of      *)
(* should_notify.                                                          *)
(***************************************************************************)
Init ==
  /\ event_idx \in BOOLEAN /\ store_buffer \in BOOLEAN
  /\ \E n \in 0 .. QueueSize :
       /\ avail_idx = n
       /\ pc = IF n = 0 THEN "idle" ELSE "added"
       /\ mem_idx \in IF store_buffer THEN 0 .. n ELSE {n}
  /\ last_used_idx = 0 /\ blocking = FALSE
  /\ avail_event = 0 /\ no_notify = FALSE
  /\ used_idx = 0 /\ dev = "asleep" /\ dev_idx = 0
  /\ kick = FALSE

-----------------------------------------------------------------------------
(* The driver.                                                             *)

(* The tail of VirtQueue::add: bump the index and store it with Release.  A *)
(* caller that will wait has no other buffer in the queue.                  *)
Add(b) ==
  /\ pc = "idle"
  /\ Between(last_used_idx, avail_idx) < QueueSize
  /\ b => avail_idx = last_used_idx
  /\ avail_idx' = Succ(avail_idx)
  /\ mem_idx' = IF store_buffer THEN mem_idx ELSE avail_idx'
  /\ pc' = "added" /\ blocking' = b
  /\ UNCHANGED <<config, last_used_idx, device, kick>>

(* The CPU's store buffer drains, oldest store first. *)
Drain ==
  /\ mem_idx # avail_idx
  /\ mem_idx' = Succ(mem_idx)
  /\ UNCHANGED <<config, driver, device, kick>>

ShouldNotifyOff ==
  IF event_idx THEN avail_idx > Succ(avail_event) ELSE no_notify

ShouldNotify ==
  IF event_idx THEN avail_idx >= Succ(avail_event) ELSE ~no_notify

AfterNotify == IF blocking THEN "wait" ELSE "idle"

(* `if should_notify()`, at every caller. *)
Check ==
  /\ pc = "added"
  /\ pc' = IF ShouldNotify THEN "notify" ELSE AfterNotify
  /\ UNCHANGED <<config, avail_idx, last_used_idx, blocking, mem_idx, device, kick>>

(* Transport::notify is an access to device memory, which the CPU does not *)
(* move before the earlier store to avail.idx.                             *)
Notify ==
  /\ pc = "notify" /\ mem_idx = avail_idx
  /\ kick' = TRUE /\ pc' = AfterNotify
  /\ UNCHANGED <<config, avail_idx, last_used_idx, blocking, mem_idx, device>>

(* `while !self.can_pop()` and the pop_used after it. *)
WaitPop ==
  /\ pc = "wait" /\ last_used_idx # used_idx
  /\ last_used_idx' = Succ(last_used_idx) /\ pc' = "idle"
  /\ UNCHANGED <<config, avail_idx, blocking, mem_idx, device, kick>>

(* A non-blocking caller pops a completion it has seen with peek_used. *)
Pop ==
  /\ pc = "idle" /\ last_used_idx # used_idx
  /\ last_used_idx' = Succ(last_used_idx)
  /\ UNCHANGED <<config, avail_idx, pc, blocking, mem_idx, device, kick>>

-----------------------------------------------------------------------------
(* The device, as the driver relies on it.                                 *)

(* A notification wakes the device; one that arrives while it runs is only *)
(* consumed.  A running device may suppress notifications.                 *)
DevKicked ==
  /\ kick /\ kick' = FALSE
  /\ dev' = IF dev = "asleep" THEN "run" ELSE dev
  /\ no_notify' \in IF dev = "asleep" /\ ~event_idx THEN BOOLEAN ELSE {no_notify}
  /\ UNCHANGED <<config, driver, mem_idx, avail_event, used_idx, dev_idx>>

DevUse ==
  /\ dev = "run" /\ dev_idx # mem_idx
  /\ dev_idx' = Succ(dev_idx) /\ used_idx' = Succ(used_idx)
  /\ UNCHANGED <<config, driver, mem_idx, avail_event, no_notify, dev, kick>>

(* With nothing left to do the device asks to be notified ... *)
DevArm ==
  /\ dev = "run" /\ dev_idx = mem_idx
  /\ dev' = "armed"
  /\ avail_event' = IF event_idx THEN dev_idx ELSE avail_event
  /\ no_notify' = FALSE
  /\ UNCHANGED <<config, driver, mem_idx, used_idx, dev_idx, kick>>

(* ... and looks at avail.idx once more before it goes to sleep. *)
DevRecheck ==
  /\ dev = "armed"
  /\ dev' = IF dev_idx = mem_idx THEN "asleep" ELSE "run"
  /\ UNCHANGED <<config, driver, mem_idx, avail_event, no_notify, used_idx, dev_idx, kick>>

-----------------------------------------------------------------------------
Next ==
  \/ \E b \in BOOLEAN : Add(b)
  \/ Drain \/ Check \/ Notify \/ WaitPop \/ Pop
  \/ DevKicked \/ DevUse \/ DevArm \/ DevRecheck

(***************************************************************************)
(* Fairness.  A thread inside add_notify_wait_pop spins and is scheduled;  *)
(* the store buffer drains; the device does what it promises.  Nobody has  *)
(* to add a buffer or to pop a completion without waiting for it.          *)
(***************************************************************************)
Fairness ==
  /\ WF_vars(Drain) /\ WF_vars(Check) /\ WF_vars(Notify) /\ WF_vars(WaitPop)
  /\ WF_vars(DevKicked) /\ WF_vars(DevUse) /\ WF_vars(DevArm) /\ WF_vars(DevRecheck)

SafetySpec == Init /\ [][Next]_vars

Spec == SafetySpec /\ Fairness

-----------------------------------------------------------------------------
TypeOK ==
  /\ {avail_idx, mem_idx, last_used_idx, avail_event, used_idx, dev_idx} \subseteq Idx
  /\ pc \in {"idle", "added", "notify", "wait"}
  /\ dev \in {"run", "armed", "asleep"}
  /\ {event_idx, store_buffer, blocking, no_notify, kick} \subseteq BOOLEAN

(* No lost wake-up: when the device sleeps with a buffer waiting for it and *)
(* no notification on the way, the driver has still to call should_notify   *)
(* for that buffer, or to act on its answer; where stores are not delayed.  *)
NoLostKick ==
  ~store_buffer /\ dev = "asleep" /\ dev_idx # mem_idx /\ ~kick
    => pc \in {"added", "notify"}

(* add_notify_wait_pop "notifies the device, blocks until the device uses   *)
(* them, then pops them": a caller that waits returns.                      *)
WaitReturns == pc = "wait" ~> pc = "idle"

(* A buffer added with the non-blocking calls (receive buffers, blk, net,   *)
(* sound) is taken by the device too, whatever the driver does afterwards.  *)
EveryBufferTaken ==
  \A i \in Idx : (dev_idx = i /\ avail_idx # i /\ ~store_buffer) ~> dev_idx # i
=============================================================================
