----------------------------- MODULE MCServices -----------------------------
(* Two services of the kernel as one instance for TLC: processes that      *)
(* start and end, and connections of the socket device.  `part' says which *)
(* of them runs; the other stays at rest.                                  *)
EXTENDS Processes, Socket

CONSTANTS Components, cleanup, shell, a, b, kernel, app, other, k1, k2

VARIABLE part

\* The shell's process may have one more thread and start one other application.
MCOwner == [t \in Threads |-> IF t = cleanup THEN kernel ELSE IF t = b THEN other ELSE app]

\* Data in one direction past the wrap of the counters, in both, a connection
\* that is opened again, and two connections.
MCKeys == {k1, k2}
Bounds(ks, u, d, o, n) ==
    [keys |-> ks, up |-> u, down |-> d, opens |-> o, depth |-> n]
MCLoads == {Bounds({k1}, 4, 0, 1, 1), Bounds({k1}, 0, 3, 1, 1), Bounds({k1}, 1, 1, 1, 1),
            Bounds({k1}, 0, 1, 2, 1), Bounds({k1, k2}, 0, 0, 2, 0)}

MCInit ==
    /\ part \in Components
    /\ ProcInit
    /\ SockInit /\ (part # "socket" => load = CHOOSE l \in Loads : TRUE)

\* The other component stays as it is.
Only(p) ==
    /\ part = p
    /\ UNCHANGED part
    /\ p # "process" => UNCHANGED allVars
    /\ p # "socket" => UNCHANGED <<sockVars, load>>

MCNext ==
    \/ Only("process") /\ ProcNext
    \/ Only("socket") /\ SockNext

MCVars == <<part, allVars, sockVars, load>>

\* What the components' own fairness says.  A behaviour has steps of one
\* component only, so one condition can speak of an action of each.
MCFairness ==
    /\ WF_MCVars(\/ Only("process") /\ Sched(SwitchThread)
                 \/ Only("socket") /\ UNCHANGED load /\ Poll)
    /\ WF_MCVars(\/ Only("process") /\ Sched(Block)
                 \/ Only("socket") /\ UNCHANGED load /\ PeerTake)
    /\ WF_MCVars(\/ Only("process") /\ Sched(TimePasses(cleanup))
                 \/ Only("socket") /\ UNCHANGED load /\ Recv(k1, Capacity))
    /\ WF_MCVars(\/ Only("process") /\ Sched(TimePasses(shell))
                 \/ Only("socket") /\ UNCHANGED load /\ Recv(k2, Capacity))
    /\ WF_MCVars(\/ Only("process") /\ Sched(TimePasses(a))
                 \/ Only("socket") /\ UNCHANGED load /\ PeerProcess(k1))
    /\ WF_MCVars(\/ Only("process") /\ Sched(TimePasses(b))
                 \/ Only("socket") /\ UNCHANGED load /\ PeerProcess(k2))
    /\ SF_MCVars(Only("process") /\ ExitStep)

MCSpec == MCInit /\ [][MCNext]_MCVars /\ MCFairness
=============================================================================
