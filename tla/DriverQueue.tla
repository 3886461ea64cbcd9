----------------------------- MODULE DriverQueue -----------------------------
(***************************************************************************)
(* The virtqueue as the device drivers see it: what the queue of module    *)
(* VirtQueue promises, with its rings collapsed.  A queue is a record      *)
(*   free   the free list of descriptors, first the one add takes next;    *)
(*   chain  for every token in the queue the descriptors of its request;   *)
(*   avail  the tokens the device has not taken yet, oldest first;         *)
(*   used   the tokens the device has put on the used ring, oldest first.  *)
(* A token is the first descriptor of the request's chain.                 *)
(***************************************************************************)
EXTENDS Naturals, Sequences, FiniteSets, SequencesExt, Functions

\* The function f with v at x.
Bind(f, x, v) == [y \in DOMAIN f \cup {x} |-> IF y = x THEN v ELSE f[y]]

NewQueue(size) ==
    [size |-> size, free |-> [i \in 1..size |-> i - 1],
     chain |-> <<>>, avail |-> <<>>, used |-> <<>>]

InQueue(q) == DOMAIN q.chain

\* With indirect descriptors a request takes one descriptor, and a queue that
\* is not full reports all of its descriptors.
Needs(n, indirect) == IF indirect /\ n > 1 THEN 1 ELSE n

AvailableDesc(q, indirect) ==
    IF indirect
    THEN IF q.free = <<>> THEN 0 ELSE q.size
    ELSE Len(q.free)

\* add refuses an empty request, and one that does not fit.
CanAddTo(q, n, indirect) ==
    n > 0 /\ n <= q.size /\ Needs(n, indirect) <= Len(q.free)

NextToken(q) == Head(q.free)

AddTo(q, n, indirect) ==
    LET k == Needs(n, indirect)
        t == NextToken(q)
    IN  [q EXCEPT !.free = SubSeq(@, k + 1, Len(@)),
                  !.chain = [x \in InQueue(q) \cup {t} |->
                                IF x = t THEN SubSeq(q.free, 1, k) ELSE q.chain[x]],
                  !.avail = Append(@, t)]

CanPopFrom(q) == q.used # <<>>

PeekUsed(q) == Head(q.used)

\* pop_used: NotReady without a used request, WrongToken unless the token is
\* the next one of the used ring.
PopResult(q, token) ==
    IF ~CanPopFrom(q) THEN "NotReady"
    ELSE IF PeekUsed(q) # token THEN "WrongToken" ELSE "Ok"

\* The chain goes back to the front of the free list.
PopFrom(q, token) ==
    [q EXCEPT !.free = q.chain[token] \o @,
              !.chain = Restrict(@, InQueue(q) \ {token}),
              !.used = Tail(@)]

\* The device: takes the oldest request and uses it.
UseNext(q) ==
    [q EXCEPT !.avail = Tail(@), !.used = Append(@, Head(q.avail))]

\* The device: finishes any of the requests it was given.
UseAny(q, i) ==
    [q EXCEPT !.avail = RemoveAt(@, i), !.used = Append(@, q.avail[i])]
=============================================================================
