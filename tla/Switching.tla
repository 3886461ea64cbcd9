------------------------------ MODULE Switching ------------------------------
(***************************************************************************)
(* How one core changes between user threads: the system call entry        *)
(* (syscall_dispatcher.rs), the thread switch and the fake frames a thread *)
(* starts from (thread.rs), and the interrupt frames of the timer.         *)
(*                                                                         *)
(* A register holds a token [of, reg, n]: the value thread `of` computed   *)
(* for that register in its n-th computation, or in nested kernel call n.  *)
(* A kernel stack is the sequence of what was pushed on it.                *)
(***************************************************************************)
EXTENDS Integers, Sequences, SequencesExt

CONSTANTS
    SwThreads,   \* user threads
    MaxPhase     \* computations of a thread

VARIABLES
    cpu,         \* [cur, regs, on, ifl, tss, cr3, user_rsp]
    stacks,      \* kernel stacks
    old_rsp0,    \* depth of the stack at the last switch
    ctx,         \* what a thread is in, innermost last: "user", "sys", "irq", "kick"
    swPhase        \* computations so far

swVars == <<cpu, stacks, old_rsp0, ctx, swPhase>>

General == <<"r8", "r9", "r10", "r11", "r12", "r13", "r14", "r15",
             "rax", "rbx", "rcx", "rdx", "rsi", "rdi", "rbp">>
Callee == <<"rbx", "rbp", "r12", "r13", "r14", "r15">>
UserRegs == Range(General) \cup {"rip", "rsp", "rflags"}

Tok(t, r, n) == [of |-> t, reg |-> r, n |-> n]
Zero == Tok("none", "zero", 0)
If(t, on) == Tok(t, "if", IF on THEN 1 ELSE 0)

\* The pushes of thread_switch behind rflags, and its pops.
SwitchPushes == General
SwitchPops ==
    <<"rbp", "rdi", "rsi", "rdx", "rcx", "rbx", "rax",
      "r15", "r14", "r13", "r12", "r11", "r10", "r9", "r8">>

\* The pushes of syscall_handler behind the user rsp, and its pops.
SyscallPushes == <<"rbx", "rcx", "rdx", "rdi", "rsi", "r8", "r9", "r10", "r11",
                   "r12", "r13", "r14", "r15">>
\* Mutant: rcx, the return address, is popped before rdx.
SyscallPopsSwapped == <<"r15", "r14", "r13", "r12", "r11", "r10", "r9", "r8",
                        "rsi", "rdi", "rcx", "rdx", "rbx">>
SyscallPops == <<"r15", "r14", "r13", "r12", "r11", "r10", "r9", "r8",
                 "rsi", "rdi", "rdx", "rcx", "rbx">>

Pushed(stack, regs, order) == stack \o [i \in DOMAIN order |-> regs[order[i]]]

\* The registers after the pops, and the stack that is left.
Popped(stack, regs, order) ==
    LET Slot(r) == Len(stack) + 1 - (CHOOSE i \in DOMAIN order : order[i] = r)
    IN  [regs |-> [r \in DOMAIN regs |-> IF r \in Range(order) THEN stack[Slot(r)] ELSE regs[r]],
         stack |-> SubSeq(stack, 1, Len(stack) - Len(order))]

Mode(t) == Last(ctx[t])
Depth2(t) == Len(ctx[t])

\* What the callee-saved registers hold while kernel code of thread t runs, at nesting n.
KernelRegs(regs, t, n) ==
    [r \in DOMAIN regs |-> IF r \in Range(Callee) THEN Tok(t, r, 100 + n) ELSE Zero]

Cur == cpu.cur
-----------------------------------------------------------------------------
\* prepare_kernel_stack: dummy return address, kickoff address, rflags with the
\* interrupt bit, fifteen zero registers; old_rsp0 = capacity - 18.
prepare_kernel_stack(t) ==
    <<Tok(t, "dummy", 0), Tok(t, "kickoff", 0), If(t, TRUE)>> \o [i \in DOMAIN General |-> Zero]

SwInit ==
    \E t \in SwThreads :
    /\ stacks = [u \in SwThreads |-> prepare_kernel_stack(u)]
    /\ old_rsp0 = [u \in SwThreads |-> Len(prepare_kernel_stack(u))]
    /\ swPhase = [u \in SwThreads |-> 0]
    /\ ctx = [u \in SwThreads |-> IF u = t THEN <<"start">> ELSE <<"new">>]
    /\ cpu = [cur |-> t, regs |-> [r \in UserRegs |-> Zero], on |-> t, ifl |-> FALSE,
              tss |-> t, cr3 |-> t, user_rsp |-> Zero]

\* The common end of thread_kernel_start and thread_switch: pop, popf,
\* unlock_scheduler (which may clobber what a C function may), ret.
Resume(c, t, kept) ==
    LET p == Popped(SubSeq(kept[t], 1, old_rsp0[t]), c.regs, SwitchPops)
        flags == Last(p.stack)
        ret == Last(Front(p.stack))
    IN  /\ cpu' = [c EXCEPT !.cur = t, !.on = t, !.ifl = flags.n = 1,
                            !.regs = [r \in DOMAIN p.regs |->
                                        IF r \in Range(Callee) THEN p.regs[r] ELSE Zero]]
        /\ stacks' = [kept EXCEPT ![t] = Front(Front(p.stack))]
        /\ ctx' = [ctx EXCEPT ![t] = IF ret.reg = "kickoff" THEN <<"kick">> ELSE @]

\* Thread::start_first and thread_kernel_start.
start_first ==
    /\ Mode(Cur) = "start"
    /\ Resume(cpu, Cur, stacks)
    /\ UNCHANGED <<old_rsp0, swPhase>>

\* What thread_switch tells the processor about the next thread.
SetsHome(c, t) == [c EXCEPT !.tss = t, !.cr3 = t]

\* What thread_switch leaves on the stack: the caller's return address, rflags and
\* the registers.
Saved(t, stack) ==
    Pushed(stack \o <<Tok(t, "ret", 0), If(t, cpu.ifl)>>, cpu.regs, SwitchPushes)

\* Thread::switch from a system call or from the timer interrupt.
switch(t) ==
    /\ Mode(Cur) \in {"sys", "irq"}
    /\ t # Cur /\ Mode(t) # "user"
    /\ LET mine == Saved(Cur, stacks[cpu.on])
       IN  /\ old_rsp0' = [old_rsp0 EXCEPT ![Cur] = Len(mine)]
           /\ Resume(SetsHome(cpu, t), t, [stacks EXCEPT ![cpu.on] = mine])
    /\ UNCHANGED swPhase
-----------------------------------------------------------------------------
\* switch_to_user_mode and thread_user_start: the frame for iretq is written at the
\* top of the stack, and rdi takes the entry function.
to_user(t) ==
    [cpu EXCEPT !.tss = t, !.ifl = TRUE,
                !.regs = [@ EXCEPT !["rip"] = Tok(t, "rip", 0), !["rsp"] = Tok(t, "rsp", 0),
                                   !["rflags"] = Tok(t, "rflags", 0), !["rdi"] = Tok(t, "rdi", 0)]]

\* kickoff_kernel_thread.
kickoff ==
    /\ Mode(Cur) = "kick"
    /\ cpu' = to_user(Cur)
    /\ stacks' = [stacks EXCEPT ![Cur] = <<>>]
    /\ ctx' = [ctx EXCEPT ![Cur] = <<"user">>]
    /\ UNCHANGED <<old_rsp0, swPhase>>

\* The thread computes: every register gets a new value.
Compute ==
    /\ Mode(Cur) = "user" /\ swPhase[Cur] < MaxPhase
    /\ swPhase' = [swPhase EXCEPT ![Cur] = @ + 1]
    /\ cpu' = [cpu EXCEPT !.regs = [r \in UserRegs |-> Tok(Cur, r, swPhase[Cur] + 1)]]
    /\ UNCHANGED <<stacks, old_rsp0, ctx>>

\* syscall and syscall_handler up to the call: rip and rflags are in rcx and r11, the
\* user rsp goes through the core local storage to the stack rsp0 points to.
\* Interrupts are off until everything is saved.
syscall_enter ==
    /\ Mode(Cur) = "user"
    /\ LET r == [cpu.regs EXCEPT !["rcx"] = cpu.regs["rip"], !["r11"] = cpu.regs["rflags"]]
           c == [cpu EXCEPT !.user_rsp = cpu.regs["rsp"]]
           full == Pushed(<<c.user_rsp>>, r, SyscallPushes)
       IN  /\ stacks' = [stacks EXCEPT ![cpu.tss] = Pushed(full, r, Callee)]
           /\ cpu' = [c EXCEPT !.on = cpu.tss, !.ifl = TRUE,
                               !.regs = KernelRegs(@, Cur, Depth2(Cur) + 1)]
    /\ ctx' = [ctx EXCEPT ![Cur] = Append(@, "sys")]
    /\ UNCHANGED <<old_rsp0, swPhase>>

\* The end of syscall_handler: pops, cli, pop rsp, sysretq.
syscall_return ==
    /\ Mode(Cur) = "sys"
    /\ LET k == Popped(stacks[cpu.on], cpu.regs, Reverse(Callee))
           p == Popped(k.stack, k.regs, SyscallPops)
       IN  /\ cpu' = [cpu EXCEPT !.ifl = TRUE,
                        !.regs = [p.regs EXCEPT !["rip"] = p.regs["rcx"], !["rsp"] = Last(p.stack),
                                                !["rflags"] = p.regs["r11"],
                                                !["rax"] = Tok(Cur, "result", swPhase[Cur])]]
           /\ stacks' = [stacks EXCEPT ![cpu.on] = Front(p.stack)]
    /\ ctx' = [ctx EXCEPT ![Cur] = Front(@)]
    /\ UNCHANGED <<old_rsp0, swPhase>>

IrqOrder == <<"rip", "rsp", "rflags">> \o General

\* The gates of the IDT switch interrupts off until the handler returns.
Interruptible == cpu.ifl /\ Mode(Cur) \in {"user", "sys", "kick"}

\* An interrupt: from user mode the frame goes to rsp0, in the kernel to the current
\* stack; the handler saves every register (external: the x86-interrupt convention).
Interrupt ==
    /\ Interruptible
    /\ LET on == IF Mode(Cur) = "user" THEN cpu.tss ELSE cpu.on
       IN  /\ stacks' = [stacks EXCEPT ![on] = Pushed(IF Mode(Cur) = "user" THEN <<>> ELSE @,
                                                      cpu.regs, IrqOrder)]
           /\ cpu' = [cpu EXCEPT !.on = on, !.ifl = FALSE,
                                 !.regs = KernelRegs(@, Cur, Depth2(Cur) + 1)]
    /\ ctx' = [ctx EXCEPT ![Cur] = Append(@, "irq")]
    /\ UNCHANGED <<old_rsp0, swPhase>>

InterruptReturn ==
    /\ Mode(Cur) = "irq"
    /\ LET p == Popped(stacks[cpu.on], cpu.regs, Reverse(IrqOrder))
       IN  /\ cpu' = [cpu EXCEPT !.regs = p.regs, !.ifl = TRUE]
           /\ stacks' = [stacks EXCEPT ![cpu.on] = p.stack]
    /\ ctx' = [ctx EXCEPT ![Cur] = Front(@)]
    /\ UNCHANGED <<old_rsp0, swPhase>>

SwNext ==
    \/ start_first \/ kickoff \/ Compute \/ syscall_enter \/ syscall_return
    \/ Interrupt \/ InterruptReturn
    \/ \E t \in SwThreads : switch(t)

SwSpec == SwInit /\ [][SwNext]_swVars
-----------------------------------------------------------------------------
\* A thread in user mode finds its own registers, stack pointer and instruction
\* pointer, however many system calls, interrupts and switches of other threads lie
\* between; a system call may change rax, rcx and r11 only.
UserStateKept ==
    Mode(Cur) = "user" =>
        LET keep == IF swPhase[Cur] = 0 THEN {"rip", "rsp", "rdi", "rflags"}
                    ELSE UserRegs \ {"rax", "rcx", "r11"}
        IN  cpu.ifl /\ \A r \in keep : cpu.regs[r] = Tok(Cur, r, swPhase[Cur])

\* Kernel code continues after a switch with the registers a callee must preserve.
KernelStateKept ==
    Mode(Cur) \in {"sys", "irq"} =>
        \A r \in Range(Callee) : cpu.regs[r] = Tok(Cur, r, 100 + Depth2(Cur))

\* The running thread's traps go to its own kernel stack, which is empty in user mode,
\* and it runs in its own address space on its own stack.
TrapsHome ==
    /\ cpu.tss = Cur /\ cpu.cr3 = Cur /\ cpu.on = Cur
    /\ Mode(Cur) = "user" => stacks[Cur] = <<>>

\* Whatever interrupts, system calls and switches lie between, code goes on with the
\* state it was left with: user code, kernel code, and the way back into the kernel.
StateKept == UserStateKept /\ KernelStateKept /\ TrapsHome
=============================================================================
