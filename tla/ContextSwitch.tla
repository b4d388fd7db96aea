--------------------------- MODULE ContextSwitch ---------------------------
(***************************************************************************)
(* The context-switch protocol of the Cortex-M3 port (context_gcc.S) and   *)
(* the interrupt nesting counter (irq.c).                                  *)
(*                                                                         *)
(* rt_schedule never switches threads itself: it records the switch it     *)
(* wants in rt_thread_switch_interrupt_flag, rt_interrupt_from_thread and  *)
(* rt_interrupt_to_thread and pends PendSV, the exception of lowest        *)
(* priority.  PendSV runs when no other handler is active, saves the       *)
(* registers of the interrupted thread and loads those of the target.      *)
(* Between the two, any number of handlers may run and call rt_schedule    *)
(* again.  Which thread rt_schedule picks is left open here; module        *)
(* Scheduler supplies it.                                                  *)
(***************************************************************************)
EXTENDS Naturals

CONSTANTS
    Thread,     \* the threads' control blocks
    NoThread,   \* RT_NULL in a thread pointer; also "the boot code" on the CPU
    MaxNest     \* bound on nested handlers (rt_interrupt_nest)

ASSUME NoThreadAssumption == NoThread \notin Thread
ASSUME MaxNestAssumption  == MaxNest \in Nat

VARIABLES
    current,    \* rt_current_thread
    flag,       \* rt_thread_switch_interrupt_flag
    from,       \* rt_interrupt_from_thread
    to,         \* rt_interrupt_to_thread
    pendsv,     \* the PENDSVSET bit of ICSR
    nest,       \* rt_interrupt_nest
    cpu,        \* whose registers are in the CPU
    saved       \* saved[t]: whose registers are in the frame at t->sp

ctxVars == <<current, flag, from, to, pendsv, nest, cpu, saved>>

Pointer == Thread \cup {NoThread}

CtxTypeOK ==
    /\ current \in Pointer /\ from \in Pointer /\ to \in Pointer
    /\ cpu \in Pointer
    /\ flag \in BOOLEAN /\ pendsv \in BOOLEAN
    /\ nest \in 0..MaxNest
    /\ saved \in [Thread -> Pointer]

\* The boot code is on the CPU; rt_hw_stack_init gave every thread a first
\* frame of its own.
CtxInit ==
    /\ current = NoThread /\ from = NoThread /\ to = NoThread
    /\ flag = FALSE /\ pendsv = FALSE
    /\ nest = 0
    /\ cpu = NoThread
    /\ saved = [t \in Thread |-> t]

-----------------------------------------------------------------------------

\* rt_system_scheduler_start: pick the first thread, rt_hw_context_switch_to
\* records a switch from nobody and enables interrupts.
StartFirst(t) ==
    /\ current = NoThread
    /\ current' = t
    /\ to' = t /\ from' = NoThread
    /\ flag' = TRUE /\ pendsv' = TRUE
    /\ UNCHANGED <<nest, cpu, saved>>

\* Slip: every request records its own source.
SwitchTo_NoReswitch(t) ==
    /\ t # current
    /\ current' = t
    /\ flag' = TRUE
    /\ from' = current
    /\ to' = t
    /\ pendsv' = TRUE
    /\ UNCHANGED <<nest, cpu, saved>>

\* The tail of rt_schedule, when the picked thread t is not the current one:
\* move rt_current_thread and call rt_hw_context_switch(_interrupt), which
\* keeps rt_interrupt_from_thread when a switch is already recorded
\* (_reswitch).
SwitchTo(t) ==
    /\ t # current
    /\ current' = t
    /\ flag' = TRUE
    /\ from' = IF flag THEN from ELSE current
    /\ to' = t
    /\ pendsv' = TRUE
    /\ UNCHANGED <<nest, cpu, saved>>

\* Thread code runs only when no handler is active or pending.
ThreadMode == nest = 0 /\ ~pendsv

\* rt_schedule is called by thread code or inside a handler.
Switch(t) ==
    /\ current # NoThread
    /\ ThreadMode \/ nest > 0
    /\ SwitchTo(t)

\* PendSV_Handler: save the CPU's registers through from (unless there is
\* none yet), load those that to points at.
PendSV ==
    /\ pendsv /\ nest = 0
    /\ pendsv' = FALSE
    /\ flag' = FALSE
    /\ IF flag
       THEN /\ saved' = IF from = NoThread THEN saved
                        ELSE [saved EXCEPT ![from] = cpu]
            /\ cpu' = saved'[to]
       ELSE UNCHANGED <<saved, cpu>>
    /\ UNCHANGED <<current, from, to, nest>>

\* A handler starts and calls rt_interrupt_enter.  Interrupts are first
\* enabled by rt_hw_context_switch_to.
IrqEnter ==
    /\ current # NoThread
    /\ nest < MaxNest
    /\ nest' = nest + 1
    /\ UNCHANGED <<current, flag, from, to, pendsv, cpu, saved>>

\* rt_interrupt_leave at the end of a handler.
IrqLeave ==
    /\ nest > 0
    /\ nest' = nest - 1
    /\ UNCHANGED <<current, flag, from, to, pendsv, cpu, saved>>

CtxNext ==
    \/ \E t \in Thread : StartFirst(t) \/ Switch(t)
    \/ PendSV \/ IrqEnter \/ IrqLeave

CtxSpec == CtxInit /\ [][CtxNext]_ctxVars

-----------------------------------------------------------------------------

\* No frame is ever overwritten with another thread's registers, however many
\* handlers called rt_schedule before PendSV ran (the _reswitch branch of
\* rt_hw_context_switch).
ContextIntact == \A t \in Thread : saved[t] = t

\* When thread code runs, it is the code of rt_current_thread: what
\* rt_thread_self and every kernel call made by that code take it for.
RunsCurrent == ThreadMode => cpu = current

\* The inductive invariant: while a switch is recorded, it is from the thread
\* on the CPU to rt_current_thread; otherwise the two are the same.
CtxInv ==
    /\ CtxTypeOK
    /\ pendsv <=> flag
    /\ flag => from = cpu /\ to = current /\ current \in Thread
    /\ ~flag => cpu = current
    /\ ContextIntact

=============================================================================
