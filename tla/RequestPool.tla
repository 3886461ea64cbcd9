---------------------------- MODULE RequestPool ----------------------------
(***************************************************************************)
(* What a virtqueue promises, without descriptors or rings: a request is   *)
(* lent to the device under a token no other request has; the device gets  *)
(* the requests in the order they were submitted, returns them in an order *)
(* of its own, and the driver gets them back in that order, each with the  *)
(* buffers it was submitted with and each once.                            *)
(***************************************************************************)
EXTENDS Integers, Sequences

CONSTANTS Tokens, Requests

VARIABLES
  lent,        \* per token, the request it stands for, <<>> if none
  submitted,   \* tokens the device has not taken yet, oldest first
  held,        \* tokens the device is working on
  completed    \* tokens the device has returned, oldest first

poolVars == <<lent, submitted, held, completed>>

Init ==
  /\ lent = [t \in Tokens |-> <<>>]
  /\ submitted = <<>>
  /\ held = {}
  /\ completed = <<>>

Submit(t, r) ==
  /\ lent[t] = <<>>
  /\ r # <<>>
  /\ lent' = [lent EXCEPT ![t] = r]
  /\ submitted' = Append(submitted, t)
  /\ UNCHANGED <<held, completed>>

Take ==
  /\ submitted # <<>>
  /\ held' = held \cup {Head(submitted)}
  /\ submitted' = Tail(submitted)
  /\ UNCHANGED <<lent, completed>>

Complete(t) ==
  /\ t \in held
  /\ held' = held \ {t}
  /\ completed' = Append(completed, t)
  /\ UNCHANGED <<lent, submitted>>

Return ==
  /\ completed # <<>>
  /\ lent' = [lent EXCEPT ![Head(completed)] = <<>>]
  /\ completed' = Tail(completed)
  /\ UNCHANGED <<submitted, held>>

Next ==
  \/ \E t \in Tokens, r \in Requests : Submit(t, r)
  \/ Take
  \/ \E t \in Tokens : Complete(t)
  \/ Return

Spec == Init /\ [][Next]_poolVars
=============================================================================
