---------------------------- MODULE OwningQueue ----------------------------
(***************************************************************************)
(* OwningQueue (queue/owning.rs), the receive queue of the socket, sound   *)
(* and network drivers, on top of the VirtQueue module: SIZE buffers, one  *)
(* per token, all posted by `new' and posted again after each poll.        *)
(* VirtIOInput keeps its event buffers in the same way (new and            *)
(* pop_pending_event of device/input.rs).                                  *)
(***************************************************************************)
EXTENDS VirtQueue

CONSTANT BufferAt  \* the buffer at each index of `buffers'

ASSUME BufferAtAssumption ==
  /\ BufferAt \in [Desc -> Buffers]
  /\ \A i, j \in Desc : BufferAt[i] = BufferAt[j] => i = j
  /\ {<<[buf |-> BufferAt[i], write |-> TRUE]>> : i \in Desc} \subseteq Requests

VARIABLES
  stage,    \* "new", "ready", or "handled": inside poll, the buffer popped;
            \* "off": the queue is used without an OwningQueue
  created,  \* buffers posted so far by `new'
  current   \* the token poll has popped

owningVars == <<stage, created, current>>
allVars == <<vars, owningVars>>

\* The (inputs, outputs) that post the buffer at index i.
Post(i) == <<[buf |-> BufferAt[i], write |-> TRUE]>>

OwningInit == Init /\ stage = "new" /\ created = 0 /\ current = 0

\* One turn of the loop of `new'.
NewAdd ==
  /\ stage = "new" /\ created < SIZE
  /\ AddFill(Post(created))
  /\ created' = created + 1
  /\ UNCHANGED <<stage, current>>

\* The end of the add of `new' or of poll.
Posted ==
  /\ AddPublish
  /\ stage' = IF stage = "new" /\ created < SIZE THEN "new" ELSE "ready"
  /\ UNCHANGED <<created, current>>

\* poll: peek_used, then pop_used with the buffer at that index, then the
\* caller's handler.  Whether the handler returns Ok or Err is not looked at
\* before the buffer is posted again.
PollPop(t) ==
  /\ stage = "ready"
  /\ PopUsed(t)
  /\ stage' = "handled" /\ current' = t
  /\ UNCHANGED created

\* Mutant: the buffer is looked up by the used ring's slot, not by its id.
ReaddBySlot ==
  /\ stage = "handled"
  /\ AddFill(Post(Slot(last_used_idx)))
  /\ UNCHANGED owningVars

\* add_buffer_to_queue(token).
Readd ==
  /\ stage = "handled"
  /\ AddFill(Post(current))
  /\ UNCHANGED owningVars

Device ==
  /\ DeviceTake \/ \E t \in Desc : DeviceUse(t)
  /\ UNCHANGED owningVars

OwningNext ==
  \/ NewAdd
  \/ Posted
  \/ \E t \in Desc : PollPop(t)
  \/ Readd
  \/ Device

OwningSpec == OwningInit /\ [][OwningNext]_allVars
-----------------------------------------------------------------------------
\* The mapping of tokens to buffers that `assert_eq!(new_token, index)' guards
\* and the SAFETY comment of pop relies on: the buffer posted under token t is
\* always the one at index t, whatever the order of completions.
TokenIsIndex == stage # "off" => \A t \in Outstanding : req[t] = Post(t)

\* Between polls all SIZE buffers are with the queue, and inside poll the add
\* cannot fail with QueueFull: no receive buffer is ever lost, also when the
\* handler returns an error.
NoBufferLost ==
  /\ stage = "ready" => Outstanding = Desc
  /\ stage = "handled" /\ pc = "idle" =>
       Outstanding = Desc \ {current} /\ CanAdd(Post(current))
=============================================================================
