----------------------------- MODULE Processes -----------------------------
(***************************************************************************)
(* Ending a process (sys_process_exit, ProcessManager::exit and            *)
(* Process::thread_ids) on top of the Scheduler module.  The exiting       *)
(* thread holds the write lock of the process manager throughout but the   *)
(* scheduler's lock only inside each scheduler call, so the timer can run  *)
(* other threads between the calls.                                        *)
(***************************************************************************)
EXTENDS Scheduler

CONSTANTS
  Kernel,    \* the kernel process
  Owner,     \* the process of each thread
  NoThread

ASSUME OwnerAssumption ==
  /\ NoThread \notin Threads
  /\ DOMAIN Owner = Threads
  /\ Owner[Cleanup] = Kernel /\ Owner[Shell] # Kernel

VARIABLES
  active_processes,  \* a sequence; its first element is the kernel process
  exited_processes,
  pm_lock,           \* the thread that holds the write lock, or NoThread
  pc,                \* per thread: where it is in a system call
  ids,               \* ids still to be looked up by thread_ids
  victims,           \* ids still to be killed
  panic              \* the message of an expect() that failed, or ""

procVars == <<active_processes, exited_processes, pm_lock, pc, ids, victims, panic>>
allVars == <<schedVars, procVars>>

me == current_thread
At(label) == phase = "run" /\ panic = "" /\ pc[me] = label
Goto(label) == pc' = [pc EXCEPT ![me] = label]

ProcInit ==
  /\ SchedInit
  /\ active_processes = <<Kernel, Owner[Shell]>>
  /\ exited_processes = {}
  /\ pm_lock = NoThread
  /\ pc = [t \in Threads |-> "user"]
  /\ ids = <<>> /\ victims = <<>>
  /\ panic = ""

\* A step of the scheduler that concerns no process.
Sched(A) == panic = "" /\ A /\ UNCHANGED procVars
-----------------------------------------------------------------------------
\* sys_thread_create: the thread is made under the read lock of the process
\* manager and handed to the scheduler afterwards.
CreateThread ==
  /\ At("user") /\ me # Cleanup /\ pm_lock = NoThread
  /\ Goto("create")
  /\ UNCHANGED <<schedVars, active_processes, exited_processes, pm_lock, ids, victims, panic>>

ReadyThread(t) ==
  /\ At("create") /\ Owner[t] = Owner[me]
  /\ Ready(t)
  /\ Goto("user")
  /\ UNCHANGED <<active_processes, exited_processes, pm_lock, ids, victims, panic>>

\* sys_process_execute_binary: load_application creates the process under the
\* write lock and its main thread, which is then handed to the scheduler.
CreateProcess(p) ==
  /\ At("user") /\ me # Cleanup /\ pm_lock = NoThread
  /\ \A t \in spawned : Owner[t] # p
  /\ p \notin Range(active_processes) \cup exited_processes
  /\ active_processes' = Append(active_processes, p)
  /\ Goto("execute")
  /\ UNCHANGED <<schedVars, exited_processes, pm_lock, ids, victims, panic>>

ReadyMain(t) ==
  /\ At("execute")
  /\ Owner[t] \in Range(active_processes) \ {Owner[u] : u \in spawned}
  /\ Ready(t)
  /\ Goto("user")
  /\ UNCHANGED <<active_processes, exited_processes, pm_lock, ids, victims, panic>>

\* exit(process_id): the lock is taken and the process looked up.
BeginExit ==
  /\ At("user") /\ me # Cleanup /\ pm_lock = NoThread
  /\ IF \E i \in DOMAIN active_processes : active_processes[i] = Owner[me]
       THEN Goto("active_ids") /\ pm_lock' = me /\ UNCHANGED panic
       ELSE panic' = "Trying to exit a non-existent process!" /\ UNCHANGED <<pc, pm_lock>>
  /\ UNCHANGED <<schedVars, active_processes, exited_processes, ids, victims>>

\* active_thread_ids: those of the ready queue, then those of the sleep list.
ActiveThreadIds ==
  /\ At("active_ids")
  /\ ids' = ready_queue \o [i \in DOMAIN sleep_list |-> sleep_list[i].thread]
  /\ victims' = <<>>
  /\ Goto("filter")
  /\ UNCHANGED <<schedVars, active_processes, exited_processes, pm_lock, panic>>

\* Scheduler::thread(id) searches the ready queue only.
Found(id) == id \in Range(ready_queue)

\* One turn of the filter in thread_ids; the collected ids are in victims.
FilterId ==
  /\ At("filter")
  /\ IF ids = <<>>
       THEN Goto("kill") /\ UNCHANGED <<ids, victims>>
       ELSE /\ ids' = Tail(ids)
            /\ victims' = IF Found(Head(ids)) /\ Owner[Head(ids)] = Owner[me]
                            THEN Append(victims, Head(ids)) ELSE victims
            /\ UNCHANGED pc
  /\ UNCHANGED <<schedVars, active_processes, exited_processes, pm_lock, panic>>

\* One turn of the loop of kill_all_threads_but_current.
KillNext ==
  /\ At("kill") /\ victims # <<>>
  /\ victims' = Tail(victims)
  /\ IF Head(victims) \in DOMAIN join_map
       THEN Kill(Head(victims)) /\ UNCHANGED panic
       ELSE panic' = "Missing join map entry!" /\ UNCHANGED schedVars
  /\ UNCHANGED <<active_processes, exited_processes, pm_lock, pc, ids>>

IndexOf(p) == CHOOSE i \in DOMAIN active_processes : active_processes[i] = p

\* Vec::swap_remove(i).
SwapRemove(s, i) == Front([s EXCEPT ![i] = Last(s)])

\* Mutant: the lock is not released.
RemoveProcessLocked ==
  /\ At("kill") /\ victims = <<>>
  /\ active_processes' = SwapRemove(active_processes, IndexOf(Owner[me]))
  /\ exited_processes' = exited_processes \cup {Owner[me]}
  /\ Goto("dying")
  /\ UNCHANGED <<schedVars, pm_lock, ids, victims, panic>>

\* The end of ProcessManager::exit; the lock is released.
RemoveProcess ==
  /\ At("kill") /\ victims = <<>>
  /\ active_processes' = SwapRemove(active_processes, IndexOf(Owner[me]))
  /\ exited_processes' = exited_processes \cup {Owner[me]}
  /\ pm_lock' = NoThread
  /\ Goto("dying")
  /\ UNCHANGED <<schedVars, ids, victims, panic>>

\* sys_thread_exit, and the end of sys_process_exit.
ExitThread ==
  /\ At("user") \/ At("dying")
  /\ me # Cleanup
  /\ IF me \in DOMAIN join_map
       THEN Exit /\ UNCHANGED panic
       ELSE panic' = "Missing join_map entry!" /\ UNCHANGED schedVars
  /\ UNCHANGED <<active_processes, exited_processes, pm_lock, pc, ids, victims>>

\* The cleanup thread between two sleeps.
DropExited ==
  /\ At("user") /\ me = Cleanup /\ pm_lock = NoThread
  /\ exited_processes # {} /\ exited_processes' = {}
  /\ UNCHANGED <<schedVars, active_processes, pm_lock, pc, ids, victims, panic>>

ExitStep == ActiveThreadIds \/ FilterId \/ KillNext \/ RemoveProcess

ProcNext ==
  \/ Sched(\E t \in Threads : TimePasses(t))
  \/ Sched(SwitchThread)
  \/ Sched(Block)
  \/ At("user") /\ Sleep /\ UNCHANGED procVars
  \/ At("user") /\ me # Cleanup /\ (\E id \in Threads : Join(id)) /\ UNCHANGED procVars
  \/ CreateThread
  \/ \E t \in Threads : ReadyThread(t)
  \/ \E p \in Range(Owner) : CreateProcess(p)
  \/ \E t \in Threads : ReadyMain(t)
  \/ BeginExit
  \/ ActiveThreadIds
  \/ FilterId
  \/ KillNext
  \/ RemoveProcess
  \/ ExitThread
  \/ DropExited

(***************************************************************************)
(* Strong fairness of ExitStep: a thread that gets the CPU again and again *)
(* completes a system call that does not block; a time slice is much       *)
(* longer than one of its steps.                                           *)
(***************************************************************************)
ProcSpec ==
  /\ ProcInit /\ [][ProcNext]_allVars
  /\ WF_allVars(Sched(SwitchThread)) /\ WF_allVars(Sched(Block))
  /\ \A t \in Threads : WF_allVars(Sched(TimePasses(t)))
  /\ SF_allVars(ExitStep)
-----------------------------------------------------------------------------
\* Also with kills at any point no thread is ever kept in two places, which
\* would run it twice at once on one stack.
AtMostOnePlace == \A t \in spawned : Cardinality(Places(t)) <= 1

\* The thread that holds the process manager's lock is never ended by
\* another process that exits, and releases the lock.
LockReleased == []<>(pm_lock = NoThread \/ panic # "")

\* "Missing join map entry!" (an expect in Scheduler::kill): a thread that is
\* to be killed is still registered.
KillFindsThread == panic # "Missing join map entry!"

\* "Return the ids of all threads of the process" (Process::thread_ids, which
\* the exit of a process uses): when a process has exited, so have its threads.
ExitEndsAllThreads ==
  \A t \in spawned :
    Owner[t] \notin Range(active_processes) => t \in ended \/ pc[t] = "dying"

\* The references to a process: those of the process manager and of its threads.
Referenced(p) ==
  \/ p \in Range(active_processes) \cup exited_processes
  \/ \E t \in spawned \ ended : Owner[t] = p

\* "If the last thread of a process terminates, it cannot delete its own address
\* space" (boot.rs, of the cleanup thread): when `block' drops the scheduler's
\* reference to a thread that has ended and on whose kernel stack it still runs,
\* another reference keeps the process and with it that stack and the page tables.
NotOwnAddressSpace == phase = "block" /\ me \in ended => Referenced(Owner[me])
=============================================================================
