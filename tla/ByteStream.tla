----------------------------- MODULE ByteStream -----------------------------
(***************************************************************************)
(* What a stream socket promises in one direction of one connection:       *)
(* the receiver reads the bytes that were sent, in order, each once.       *)
(***************************************************************************)
EXTENDS Naturals, Sequences, SequencesExt

CONSTANT Conns
VARIABLES sent, received

streamVars == <<sent, received>>

StreamInit ==
  /\ sent = [c \in Conns |-> <<>>]
  /\ received = [c \in Conns |-> <<>>]

Write(c) ==
  /\ IsStrictPrefix(sent[c], sent'[c])
  /\ sent' = [sent EXCEPT ![c] = sent'[c]]
  /\ UNCHANGED received

Read(c) ==
  /\ \E n \in Len(received[c])..Len(sent[c]) :
       received' = [received EXCEPT ![c] = SubSeq(sent[c], 1, n)]
  /\ IsPrefix(received[c], received'[c])
  /\ UNCHANGED sent

\* A new connection starts empty, first at one end and then at the other.
Reopen(c) ==
  \/ sent' = [sent EXCEPT ![c] = <<>>] /\ UNCHANGED received
  \/ received' = [received EXCEPT ![c] = <<>>] /\ UNCHANGED sent

StreamNext == \E c \in Conns : Write(c) \/ Read(c) \/ Reopen(c)

StreamSpec == StreamInit /\ [][StreamNext]_streamVars
=============================================================================
