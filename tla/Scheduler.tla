----------------------------- MODULE Scheduler -----------------------------
(***************************************************************************)
(* The thread scheduler of the kernel (process/scheduler.rs): one CPU, a   *)
(* ready queue, a list of sleeping threads and, per registered thread, the *)
(* list of the threads that wait for its end.                              *)
(*                                                                         *)
(* Every operation runs under the ready_state lock, and the timer          *)
(* interrupt only tries that lock: an operation is one step, except that a *)
(* thread that blocks first enters a list and then, still holding the      *)
(* lock, waits in `block' until there is another thread to run.  join_map  *)
(* and sleep_list are locked only inside ready_state, so they are always   *)
(* free when they are asked for.                                           *)
(***************************************************************************)
EXTENDS Integers, FiniteSets, Sequences, SequencesExt

CONSTANTS
  Threads,   \* thread ids; each is used once (THREAD_ID_COUNTER)
  Cleanup,   \* the kernel thread that sleeps and cleans up for ever
  Shell      \* the first application thread

ASSUME ThreadAssumption == {Cleanup, Shell} \subseteq Threads /\ Cleanup # Shell

VARIABLES
  current_thread,
  ready_queue,   \* front first: push_front prepends, pop_back takes the last
  sleep_list,    \* [thread, due]: due once systime_ms() >= its wakeup time
  join_map,      \* registered thread id -> the threads waiting for its end
  phase,         \* "run", or "block": the current thread is inside `block'
  spawned,       \* threads registered so far
  ended          \* threads for which exit or kill has run

schedVars == <<current_thread, ready_queue, sleep_list, join_map, phase, spawned, ended>>

Sleepers == {sleep_list[i].thread : i \in DOMAIN sleep_list}
Waiting(id) == Range(join_map[id])

\* The system after start(): cleanup was the first to be made ready.
SchedInit ==
  /\ current_thread = Cleanup
  /\ ready_queue = <<Shell>>
  /\ sleep_list = <<>>
  /\ join_map = [id \in {Cleanup, Shell} |-> <<>>]
  /\ phase = "run"
  /\ spawned = {Cleanup, Shell}
  /\ ended = {}

\* push_front for each thread of ts in turn.
PushAll(ts, queue) == Reverse(ts) \o queue
-----------------------------------------------------------------------------
\* The system time reaches the wakeup time of the sleeper t.
TimePasses(t) ==
  /\ \E i \in DOMAIN sleep_list :
       /\ sleep_list[i] = [thread |-> t, due |-> FALSE]
       /\ sleep_list' = [sleep_list EXCEPT ![i].due = TRUE]
  /\ UNCHANGED <<current_thread, ready_queue, join_map, phase, spawned, ended>>

Due == LET IsDue(e) == e.due IN SelectSeq(sleep_list, IsDue)

\* check_sleep_list: the ready queue and the sleep list after it.
Woken == PushAll([i \in DOMAIN Due |-> Due[i].thread], ready_queue)
StillAsleep == LET NotDue(e) == ~e.due IN SelectSeq(sleep_list, NotDue)

\* Mutant: the sleep list is not looked at.
SwitchThreadNoCheck ==
  /\ phase = "run"
  /\ ready_queue # <<>>
  /\ current_thread' = Last(ready_queue)
  /\ ready_queue' = PushAll(<<current_thread>>, Front(ready_queue))
  /\ UNCHANGED <<sleep_list, join_map, phase, spawned, ended>>

\* switch_thread, from the timer interrupt or from sys_thread_switch.
SwitchThread ==
  /\ phase = "run"
  /\ Woken # <<>>
  /\ sleep_list' = StillAsleep
  /\ current_thread' = Last(Woken)
  /\ ready_queue' = PushAll(<<current_thread>>, Front(Woken))
  /\ UNCHANGED <<join_map, phase, spawned, ended>>

\* switch_thread while the current thread's stacks or the TSS are locked: the
\* sleepers are woken and the current thread goes on.
SwitchRefused ==
  /\ phase = "run" /\ Due # <<>>
  /\ sleep_list' = StillAsleep
  /\ ready_queue' = Woken
  /\ UNCHANGED <<current_thread, join_map, phase, spawned, ended>>

\* ready(t), for a thread that has just been created.
Ready(t) ==
  /\ phase = "run" /\ t \in Threads \ spawned
  /\ ready_queue' = PushAll(<<t>>, ready_queue)
  /\ join_map' = [id \in DOMAIN join_map \cup {t} |->
                    IF id = t THEN <<>> ELSE join_map[id]]
  /\ spawned' = spawned \cup {t}
  /\ UNCHANGED <<current_thread, sleep_list, phase, ended>>

\* sleep(ms), up to the call of block.
Sleep ==
  /\ phase = "run"
  /\ sleep_list' = Append(sleep_list, [thread |-> current_thread, due |-> FALSE])
  /\ phase' = "block"
  /\ UNCHANGED <<current_thread, ready_queue, join_map, spawned, ended>>

\* join(id), up to the call of block; without an entry for id it only returns.
Join(id) ==
  /\ phase = "run"
  /\ id \in DOMAIN join_map
  /\ join_map' = [join_map EXCEPT ![id] = Append(@, current_thread)]
  /\ phase' = "block"
  /\ UNCHANGED <<current_thread, ready_queue, sleep_list, spawned, ended>>

\* The end of thread id: its entry leaves join_map and those who waited for
\* it are ready; what is left of the ready queue is filtered by Keep.
EndThread(id, Keep(_)) ==
  /\ id \in DOMAIN join_map
  /\ ready_queue' = SelectSeq(PushAll(join_map[id], ready_queue), Keep)
  /\ join_map' = [other \in DOMAIN join_map \ {id} |-> join_map[other]]
  /\ ended' = ended \cup {id}

\* Mutant: exit does not wake those who wait.
ExitNoWake ==
  /\ phase = "run" /\ current_thread \in DOMAIN join_map
  /\ join_map' = [other \in DOMAIN join_map \ {current_thread} |-> join_map[other]]
  /\ ended' = ended \cup {current_thread}
  /\ phase' = "block"
  /\ UNCHANGED <<current_thread, ready_queue, sleep_list, spawned>>

\* exit(), up to the call of block; it panics if the entry is missing.
Exit ==
  LET All(t) == TRUE IN
  /\ phase = "run"
  /\ EndThread(current_thread, All)
  /\ phase' = "block"
  /\ UNCHANGED <<current_thread, sleep_list, spawned>>

\* Mutant: the entry of the killed thread stays in join_map.
KillLeavesEntry(id) ==
  LET Keep(t) == t # id IN
  /\ phase = "run" /\ id # current_thread
  /\ ready_queue' = SelectSeq(PushAll(join_map[id], ready_queue), Keep)
  /\ ended' = ended \cup {id}
  /\ UNCHANGED <<current_thread, sleep_list, join_map, phase, spawned>>

\* kill(id), called for another thread; it panics if the entry is missing.
Kill(id) ==
  LET Keep(t) == t # id IN
  /\ phase = "run" /\ id # current_thread
  /\ EndThread(id, Keep)
  /\ UNCHANGED <<current_thread, sleep_list, phase, spawned>>

\* block: run the next ready thread.  Only when none is ready are sleepers
\* looked at, again and again, until one is due; that may be the caller.
Block ==
  /\ phase = "block"
  /\ IF ready_queue # <<>>
       THEN /\ current_thread' = Last(ready_queue)
            /\ ready_queue' = Front(ready_queue)
            /\ UNCHANGED sleep_list
       ELSE /\ Due # <<>>
            /\ current_thread' = Last(Woken)
            /\ ready_queue' = Front(Woken)
            /\ sleep_list' = StillAsleep
  /\ phase' = "run"
  /\ UNCHANGED <<join_map, spawned, ended>>

SchedNext ==
  \/ \E t \in Threads : TimePasses(t)
  \/ SwitchThread
  \/ SwitchRefused
  \/ \E t \in Threads : Ready(t)
  \/ Sleep
  \/ current_thread # Cleanup /\ \E id \in Threads : Join(id)
  \/ current_thread # Cleanup /\ Exit
  \/ Block

(***************************************************************************)
(* Fairness: the timer ticks and finds the scheduler unlocked (SF is not   *)
(* needed: nothing disables SwitchThread for ever while a thread runs),    *)
(* time passes, and `block' is a loop without other exits.                 *)
(***************************************************************************)
SchedFairness ==
  /\ WF_schedVars(SwitchThread) /\ WF_schedVars(Block)
  /\ \A t \in Threads : WF_schedVars(TimePasses(t))

SchedSpec == SchedInit /\ [][SchedNext]_schedVars /\ SchedFairness
-----------------------------------------------------------------------------
\* The places where the scheduler keeps thread t.
Places(t) ==
  {<<"ready", i>> : i \in {i \in DOMAIN ready_queue : ready_queue[i] = t}}
    \cup {<<"sleep", i>> : i \in {i \in DOMAIN sleep_list : sleep_list[i].thread = t}}
    \cup UNION {{<<"join", id, i>> : i \in {i \in DOMAIN join_map[id] : join_map[id][i] = t}} :
                  id \in DOMAIN join_map}
    \cup (IF t = current_thread /\ phase = "run" THEN {<<"current">>} ELSE {})

\* No thread is lost or duplicated: over any sequence of switches, sleeps,
\* joins and exits a thread that has not ended is running or in exactly one
\* place of one list, and one that has ended is in none.
OnePlace ==
  \A t \in spawned :
    IF t \in ended THEN Places(t) = {} ELSE Cardinality(Places(t)) = 1

\* The ready queue is fair: a ready thread runs.
ReadyRuns == \A t \in Threads : t \in Range(ready_queue) ~> current_thread = t

\* A thread that sleeps runs again.
SleepEnds == \A t \in Threads : t \in Sleepers ~> current_thread = t /\ phase = "run"

\* A thread that waits for the end of another runs again if the other ends.
\* The cleanup thread neither ends nor waits.
JoinEnds ==
  \A t \in Threads \ {Cleanup} : \A id \in Threads \ {Cleanup, t} :
    (id \in DOMAIN join_map /\ t \in Waiting(id)) /\ <>(id \in ended) ~> current_thread = t

\* No thread starves: one that is ready, sleeps, or waits for the end of a
\* thread that ends, runs again.
WaitersRun == ReadyRuns /\ SleepEnds /\ JoinEnds
=============================================================================
