----------------------------- MODULE Scheduler -----------------------------
(***************************************************************************)
(* The scheduler (scheduler.c), the thread operations (thread.c), the idle *)
(* thread's clean-up (idle.c) and the time slice and timeouts of the clock *)
(* tick (clock.c), on top of the context-switch protocol.                  *)
(*                                                                         *)
(* One step is one section with interrupts disabled.  A call made of       *)
(* several sections leaves a continuation in pc, and handlers, or threads  *)
(* that a handler switched to, run between them.  The IPC objects appear   *)
(* only as the set of threads linked in some suspend list; a thread timer  *)
(* is armed or not and, when armed, may fire at any tick.                  *)
(***************************************************************************)
EXTENDS ContextSwitch, FiniteSets, SequencesExt

CONSTANTS
    Idle,           \* the idle thread
    PriorityMax,    \* RT_THREAD_PRIORITY_MAX: priorities 0..PriorityMax - 1
    InitPriority,   \* the priority given to rt_thread_init / _create
    Dynamic,        \* threads made by rt_thread_create (the others are static)
    Cleanup,        \* threads with a cleanup function
    Apps            \* the applications: see AppsAssumption

Prio == 0..PriorityMax - 1

ASSUME PriorityAssumption == PriorityMax \in Nat \ {0}
ASSUME IdleAssumption ==
    /\ Dynamic \cup Cleanup \subseteq Thread \ {Idle} /\ Idle \in Thread
    /\ InitPriority \in [Thread -> Prio]
    /\ InitPriority[Idle] = PriorityMax - 1
\* An application is the thread operations it uses, the threads it has, and the
\* bounds on the nesting of handlers and of critical sections.
ASSUME AppsAssumption ==
    \A a \in Apps : /\ a.calls \subseteq STRING /\ a.threads \subseteq Thread
                   /\ a.nest \in 0..MaxNest /\ a.lock \in Nat

VARIABLES
    k,      \* the thread control blocks, every list a tlist can be on, and the
            \* application, which does not change
    lock,   \* rt_scheduler_lock_nest
    pc,     \* per thread: what the call it is in does next
    isr,    \* per active handler: what it does next
    owed    \* a priority changed and rt_schedule has not run since

vars == <<ctxVars, k, lock, pc, isr, owed>>

Stat == {"INIT", "READY", "SUSPEND", "CLOSE"}
Step == {"user", "sched", "suspend", "unlink", "insert", "timer", "close", "free"}

TypeOK ==
    /\ CtxTypeOK
    /\ k.thr \in [Thread -> [stat : Stat, prio : Prio, init : Prio,
                             mask : SUBSET Prio, timer : BOOLEAN]]
    /\ k.ready \in [Prio -> Seq(Thread)]
    /\ k.group \subseteq Prio
    /\ k.waiting \subseteq Thread
    /\ k.defunct \in Seq(Thread)
    /\ k.freed \subseteq Dynamic
    /\ k.app \in Apps
    /\ lock \in 0..k.app.lock
    /\ pc \in [Thread -> [at : Step, arg : Pointer]]
    /\ isr \in Seq({"body", "sched", "done"}) /\ Len(isr) = nest
    /\ owed \in BOOLEAN

-----------------------------------------------------------------------------
(* Operators on the kernel record.                                          *)

\* rt_list_remove(&thread->tlist): off whatever list it is linked in.
Unlink(s, t) ==
    [s EXCEPT !.ready   = [p \in Prio |-> RemoveFirst(@[p], t)],
              !.waiting = @ \ {t},
              !.defunct = RemoveFirst(@, t)]

\* rt_schedule_insert_thread: to the tail of the list of its priority; the
\* bit set in rt_thread_ready_priority_group is the cached number_mask.
rt_schedule_insert_thread(s, t) ==
    [s EXCEPT !.thr[t].stat = "READY",
              !.ready[s.thr[t].prio] = Append(@, t),
              !.group = @ \cup s.thr[t].mask]

\* Slip: the bit is cleared whether or not the list is empty now.
rt_schedule_remove_thread_AlwaysClear(s, t) ==
    [Unlink(s, t) EXCEPT !.group = @ \ s.thr[t].mask]

\* rt_schedule_remove_thread: the bit goes when the list is empty.
rt_schedule_remove_thread(s, t) ==
    LET u == Unlink(s, t)
    IN  [u EXCEPT !.group = IF u.ready[s.thr[t].prio] = <<>>
                            THEN @ \ s.thr[t].mask ELSE @]

\* rt_thread_suspend, after its check that the thread is READY.
Suspend(s, t) ==
    rt_schedule_remove_thread(
        [s EXCEPT !.thr[t].stat = "SUSPEND", !.thr[t].timer = FALSE], t)

\* The two sections of rt_thread_resume.
ResumeUnlink(s, t) == [Unlink(s, t) EXCEPT !.thr[t].timer = FALSE]
Resume(s, t) == rt_schedule_insert_thread(ResumeUnlink(s, t), t)

\* Slip: the thread is not taken off the suspend list it waits in.
rt_thread_timeout_StillLinked(s, t) ==
    rt_schedule_insert_thread([s EXCEPT !.thr[t].timer = FALSE], t)

\* rt_thread_timeout, called by rt_timer_check, which has unlinked the timer.
rt_thread_timeout(s, t) ==
    rt_schedule_insert_thread(
        Unlink([s EXCEPT !.thr[t].timer = FALSE], t), t)

\* The thread rt_schedule picks: the head of the first list whose bit is set.
\* NoThread stands for the wild pointer made of an empty list's head.
NextThread(s) ==
    LET list == s.ready[Min(s.group)]
    IN  IF s.group = {} \/ list = <<>> THEN NoThread ELSE Head(list)

\* thread->tlist.next != thread->tlist.prev: linked, and not alone.
HasPeer(s, t) ==
    \E p \in Prio : Contains(s.ready[p], t) /\ Len(s.ready[p]) > 1

\* Slip: rt_list_insert_after for rt_list_insert_before.
YieldSection_ToHead(s, t) ==
    IF s.thr[t].stat = "READY" /\ HasPeer(s, t)
    THEN [Unlink(s, t) EXCEPT !.ready[s.thr[t].prio] = <<t>> \o @]
    ELSE s

\* The section of rt_thread_yield: current thread to the tail of its list.
YieldSection(s, t) ==
    IF s.thr[t].stat = "READY" /\ HasPeer(s, t)
    THEN [Unlink(s, t) EXCEPT !.ready[s.thr[t].prio] = Append(@, t)]
    ELSE s

-----------------------------------------------------------------------------

\* rt_system_scheduler_init, rt_application_init and rt_thread_idle_init: idle
\* and one application thread (here: any) are ready, the others initialised;
\* rt_system_scheduler_start has not been called.
ThreadInit(t) ==
    [stat |-> "INIT", prio |-> InitPriority[t], init |-> InitPriority[t],
     mask |-> {}, timer |-> FALSE]

Startup(s, t) ==
    [s EXCEPT !.thr[t].prio = s.thr[t].init,
              !.thr[t].mask = {s.thr[t].init},
              !.thr[t].stat = "SUSPEND"]

Boot(a, t) ==
    LET s == [app     |-> a,
              thr     |-> [u \in Thread |-> ThreadInit(u)],
              ready   |-> [p \in Prio |-> <<>>],
              group   |-> {},
              waiting |-> {},
              defunct |-> <<>>,
              freed   |-> {}]
    IN  Resume(Startup(Resume(Startup(s, t), t), Idle), Idle)

Init ==
    /\ CtxInit
    /\ \E a \in Apps : \E t \in a.threads \ {Idle} : k = Boot(a, t)
    /\ lock = 0
    /\ pc = [t \in Thread |-> [at |-> "user", arg |-> NoThread]]
    /\ isr = <<>>
    /\ owed = FALSE

\* rt_system_scheduler_start.
rt_system_scheduler_start ==
    /\ StartFirst(NextThread(k))
    /\ UNCHANGED <<k, lock, pc, isr, owed>>

\* Slip: the lock is not looked at.
rt_schedule_Unlocked(s) ==
    IF NextThread(s) # current
    THEN SwitchTo(NextThread(s)) /\ owed' = FALSE
    ELSE UNCHANGED ctxVars /\ owed' = FALSE

\* rt_schedule, on the kernel record s.
rt_schedule(s) ==
    IF lock = 0 /\ NextThread(s) # current
    THEN SwitchTo(NextThread(s)) /\ owed' = FALSE
    ELSE UNCHANGED ctxVars /\ owed' = (owed /\ lock > 0)

-----------------------------------------------------------------------------
(* Thread code.  t is on the CPU and no handler is active.                  *)

\* Slip: thread code goes on although a switch away from it is pending.
At_NoMode(t, step) == nest = 0 /\ cpu = t /\ cpu # NoThread /\ pc[t].at = step

At(t, step) == ThreadMode /\ cpu = t /\ cpu # NoThread /\ pc[t].at = step

Goto(t, step, arg) == pc' = [pc EXCEPT ![t] = [at |-> step, arg |-> arg]]

\* Some thread is inside rt_thread_startup, _delete or _detach on u.
InHand(u) == \E x \in Thread : pc[x].arg = u

\* The application calls an operation of thread.c or an IPC operation.
Calls(t, op) == op \in k.app.calls /\ t # Idle /\ At(t, "user")

\* The rt_schedule() that ends a call.
ScheduleStep(t) ==
    /\ At(t, "sched")
    /\ Goto(t, "user", NoThread)
    /\ rt_schedule(k) /\ k' = k
    /\ UNCHANGED <<lock, isr>>

\* rt_thread_startup up to the check of rt_thread_resume.
rt_thread_startup(t, u) ==
    /\ Calls(t, "startup")
    /\ k.thr[u].stat = "INIT" /\ u \in k.app.threads /\ ~InHand(u)
    /\ k' = Startup(k, u)
    /\ Goto(t, "unlink", u)
    /\ UNCHANGED <<ctxVars, lock, isr, owed>>

\* rt_thread_resume called with interrupts enabled: the check ...
rt_thread_resume(t, u) ==
    /\ Calls(t, "resume")
    /\ k.thr[u].stat = "SUSPEND"
    /\ ~InHand(u)
    /\ Goto(t, "unlink", u)
    /\ UNCHANGED <<ctxVars, k, lock, isr, owed>>

\* ... the section that unlinks the thread and stops its timer ...
ResumeStep1(t) ==
    /\ At(t, "unlink")
    /\ k' = ResumeUnlink(k, pc[t].arg)
    /\ Goto(t, "insert", pc[t].arg)
    /\ UNCHANGED <<ctxVars, lock, isr, owed>>

\* ... and rt_schedule_insert_thread.
ResumeStep2(t) ==
    /\ At(t, "insert")
    /\ k' = rt_schedule_insert_thread(k, pc[t].arg)
    /\ Goto(t, "sched", NoThread)
    /\ UNCHANGED <<ctxVars, lock, isr, owed>>

\* An IPC operation that resumes a waiting thread: rt_thread_resume inside the
\* caller's section, then rt_schedule.
Wake(t, u) ==
    /\ Calls(t, "wake")
    /\ u \in k.waiting /\ k.thr[u].stat = "SUSPEND"
    /\ k' = Resume(k, u)
    /\ Goto(t, "sched", NoThread)
    /\ UNCHANGED <<ctxVars, lock, isr, owed>>

\* An IPC operation that blocks: rt_ipc_list_suspend on the caller and, with a
\* timeout, rt_timer_start.  Blocking with the scheduler locked is excluded:
\* rt_schedule would return to the suspended caller.
Block(t, timed) ==
    /\ Calls(t, "block") /\ lock = 0
    /\ k' = LET s == Suspend(k, t)
            IN  [s EXCEPT !.waiting = @ \cup {t}, !.thr[t].timer = timed]
    /\ Goto(t, "sched", NoThread)
    /\ UNCHANGED <<ctxVars, lock, isr, owed>>

\* rt_thread_sleep.
rt_thread_sleep(t) ==
    /\ Calls(t, "sleep") /\ lock = 0
    /\ k' = [Suspend(k, t) EXCEPT !.thr[t].timer = TRUE]
    /\ Goto(t, "sched", NoThread)
    /\ UNCHANGED <<ctxVars, lock, isr, owed>>

\* rt_thread_suspend: the check, made with interrupts enabled ...
rt_thread_suspend(t, u) ==
    /\ Calls(t, "suspend") /\ lock = 0
    /\ u # Idle /\ ~InHand(u)
    /\ k.thr[u].stat = "READY"
    /\ Goto(t, "suspend", u)
    /\ UNCHANGED <<ctxVars, k, lock, isr, owed>>

\* ... and the section; who suspends itself must call rt_schedule.
SuspendStep(t) ==
    /\ At(t, "suspend")
    /\ k' = Suspend(k, pc[t].arg)
    /\ Goto(t, IF pc[t].arg = t THEN "sched" ELSE "user", NoThread)
    /\ UNCHANGED <<ctxVars, lock, isr, owed>>

\* rt_thread_yield; nothing happens to a thread alone at its priority.
rt_thread_yield(t) ==
    /\ Calls(t, "yield")
    /\ k' = YieldSection(k, current) /\ k' # k
    /\ Goto(t, "sched", NoThread)
    /\ UNCHANGED <<ctxVars, lock, isr, owed>>

\* RT_THREAD_CTRL_CHANGE_PRIORITY of rt_thread_control: a READY thread moves to
\* the tail of its new list.
ChangePriority(s, u, p) ==
    LET set(r) == [r EXCEPT !.thr[u].prio = p, !.thr[u].mask = {p}]
    IN  IF s.thr[u].stat = "READY"
        THEN rt_schedule_insert_thread(set(rt_schedule_remove_thread(s, u)), u)
        ELSE set(s)

\* rt_thread_control does not call rt_schedule.
rt_thread_control(t, u, p) ==
    /\ Calls(t, "priority")
    /\ u # Idle /\ ~InHand(u) /\ p # k.thr[u].prio
    /\ k.thr[u].stat \in {"READY", "SUSPEND"}
    /\ k' = ChangePriority(k, u, p)
    /\ owed' = TRUE
    /\ UNCHANGED <<ctxVars, lock, pc, isr>>

\* rt_thread_exit: a static thread without a cleanup function is detached, any
\* other waits for the idle thread.
rt_thread_exit(t) ==
    /\ Calls(t, "exit") /\ lock = 0
    /\ k' = LET s == [rt_schedule_remove_thread(k, t) EXCEPT
                        !.thr[t].stat = "CLOSE", !.thr[t].timer = FALSE]
            IN  IF t \in Dynamic \cup Cleanup
                THEN [s EXCEPT !.defunct = <<t>> \o @] ELSE s
    /\ Goto(t, "sched", NoThread)
    /\ UNCHANGED <<ctxVars, lock, isr, owed>>

\* rt_thread_delete (dynamic threads) and rt_thread_detach (static threads)
\* on another thread: first rt_schedule_remove_thread ...  Only an application
\* that says so deletes a thread that is in the middle of a call on another
\* thread, one whose timer runs, or one that was never started.
Delete(t, u) ==
    /\ Calls(t, "delete")
    /\ u \in k.app.threads \ {t, Idle} /\ ~InHand(u) /\ k.thr[u].stat # "CLOSE"
    /\ pc[u].arg # NoThread => "delete_busy" \in k.app.calls
    /\ k.thr[u].timer => "delete_timed" \in k.app.calls
    /\ k.thr[u].stat = "INIT" => "delete_init" \in k.app.calls
    /\ k' = rt_schedule_remove_thread(k, u)
    /\ Goto(t, "timer", u)
    /\ UNCHANGED <<ctxVars, lock, isr, owed>>

\* ... then rt_timer_detach ...
DeleteTimer(t) ==
    /\ At(t, "timer")
    /\ k' = [k EXCEPT !.thr[pc[t].arg].timer = FALSE]
    /\ Goto(t, "close", pc[t].arg)
    /\ UNCHANGED <<ctxVars, lock, isr, owed>>

\* ... then RT_THREAD_CLOSE and, where somebody has to clean up, the defunct
\* list.
DeleteClose(t) ==
    /\ At(t, "close")
    /\ LET u == pc[t].arg
       IN  k' = [k EXCEPT !.thr[u].stat = "CLOSE",
                          !.defunct = IF u \in Dynamic \cup Cleanup
                                      THEN <<u>> \o @ ELSE @]
    /\ Goto(t, "user", NoThread)
    /\ UNCHANGED <<ctxVars, lock, isr, owed>>

\* rt_thread_init on a static thread that was closed; number_mask keeps its
\* old value.
rt_thread_init(t, u, p) ==
    /\ Calls(t, "init")
    /\ u \notin Dynamic /\ k.thr[u].stat = "CLOSE"
    /\ ~Contains(k.defunct, u) /\ ~InHand(u)
    /\ k' = [k EXCEPT !.thr[u] = [stat |-> "INIT", prio |-> p, init |-> p,
                                  mask |-> k.thr[u].mask, timer |-> FALSE]]
    /\ pc' = [pc EXCEPT ![u] = [at |-> "user", arg |-> NoThread]]
    /\ UNCHANGED <<ctxVars, lock, isr, owed>>

rt_enter_critical(t) ==
    /\ Calls(t, "critical") /\ lock < k.app.lock
    /\ lock' = lock + 1
    /\ UNCHANGED <<ctxVars, k, pc, isr, owed>>

\* Slip: more exits than enters make the nesting count negative.
rt_exit_critical_NoFloor(t) ==
    /\ Calls(t, "critical")
    /\ lock' = lock - 1
    /\ IF lock' <= 0 THEN Goto(t, "sched", NoThread) ELSE UNCHANGED pc
    /\ UNCHANGED <<ctxVars, k, isr, owed>>

\* An exit too many leaves the count at 0 and still calls rt_schedule.
rt_exit_critical(t) ==
    /\ Calls(t, "critical")
    /\ lock' = IF lock = 0 THEN 0 ELSE lock - 1
    /\ IF lock' = 0 THEN Goto(t, "sched", NoThread) ELSE UNCHANGED pc
    /\ UNCHANGED <<ctxVars, k, isr, owed>>

\* Slip: the thread freed stays on the defunct list.
IdleReap_StillDefunct ==
    /\ At(Idle, "user") /\ k.defunct # <<>>
    /\ IF Head(k.defunct) \in Dynamic
       THEN Goto(Idle, "free", Head(k.defunct)) ELSE UNCHANGED pc
    /\ UNCHANGED <<ctxVars, k, lock, isr, owed>>

\* rt_thread_idle_excute: take the first defunct thread off the list and call
\* its cleanup; a dynamic one is freed once interrupts are enabled again.
IdleReap ==
    /\ At(Idle, "user") /\ k.defunct # <<>>
    /\ LET u == Head(k.defunct)
       IN  /\ k' = Unlink(k, u)
           /\ IF u \in Dynamic THEN Goto(Idle, "free", u) ELSE UNCHANGED pc
    /\ UNCHANGED <<ctxVars, lock, isr, owed>>

IdleFree ==
    /\ At(Idle, "free")
    /\ k' = [k EXCEPT !.freed = @ \cup {pc[Idle].arg}]
    /\ Goto(Idle, "user", NoThread)
    /\ UNCHANGED <<ctxVars, lock, isr, owed>>

-----------------------------------------------------------------------------
(* Handlers.                                                                *)

Top == isr[Len(isr)]
InHandler == isr # <<>> /\ Top \in {"body", "done"}
SetTop(step) == isr' = [isr EXCEPT ![Len(isr)] = step]

IsrEnter ==
    /\ nest < k.app.nest
    /\ IrqEnter
    /\ isr' = Append(isr, "body")
    /\ UNCHANGED <<k, lock, pc, owed>>

IsrLeave ==
    /\ InHandler
    /\ IrqLeave
    /\ isr' = Front(isr)
    /\ UNCHANGED <<k, lock, pc, owed>>

\* A handler resumes a thread through an IPC object (rt_sem_release, ...).
IsrWake(u) ==
    /\ InHandler
    /\ u \in k.waiting /\ k.thr[u].stat = "SUSPEND"
    /\ k' = Resume(k, u)
    /\ SetTop("sched")
    /\ UNCHANGED <<ctxVars, lock, pc, owed>>

\* rt_tick_increase when the time slice of the current thread is used up.
TickYield ==
    /\ isr # <<>> /\ Top = "body"
    /\ k' = YieldSection(k, current) /\ k' # k
    /\ SetTop("sched")
    /\ UNCHANGED <<ctxVars, lock, pc, owed>>

\* Slip: rt_thread_timeout does not call rt_schedule.
TickTimeout_NoSchedule(u) ==
    /\ InHandler
    /\ k.thr[u].timer
    /\ k' = rt_thread_timeout(k, u)
    /\ UNCHANGED <<ctxVars, lock, pc, isr, owed>>

\* rt_timer_check runs rt_thread_timeout, rt_schedule included, with interrupts
\* disabled.
TickTimeout(u) ==
    /\ InHandler
    /\ k.thr[u].timer
    /\ k' = rt_thread_timeout(k, u)
    /\ rt_schedule(k')
    /\ UNCHANGED <<lock, pc, isr>>

IsrSchedule ==
    /\ isr # <<>> /\ Top = "sched"
    /\ SetTop("done")
    /\ rt_schedule(k) /\ k' = k
    /\ UNCHANGED <<lock, pc>>

PendSVStep == PendSV /\ UNCHANGED <<k, lock, pc, isr, owed>>

-----------------------------------------------------------------------------

ThreadNext(t) ==
    \/ ScheduleStep(t) \/ SuspendStep(t) \/ ResumeStep1(t) \/ ResumeStep2(t)
    \/ \E timed \in BOOLEAN : Block(t, timed)
    \/ rt_thread_sleep(t) \/ rt_thread_yield(t) \/ rt_thread_exit(t)
    \/ rt_enter_critical(t) \/ rt_exit_critical(t)
    \/ DeleteTimer(t) \/ DeleteClose(t)
    \/ \E u \in Thread :
          \/ rt_thread_startup(t, u) \/ rt_thread_resume(t, u) \/ rt_thread_suspend(t, u)
          \/ Wake(t, u) \/ Delete(t, u)
          \/ \E p \in Prio : rt_thread_control(t, u, p) \/ rt_thread_init(t, u, p)

HandlerNext ==
    \/ IsrEnter \/ IsrLeave \/ TickYield \/ IsrSchedule
    \/ \E u \in Thread : IsrWake(u) \/ TickTimeout(u)

Next ==
    \/ rt_system_scheduler_start
    \/ \E t \in Thread : ThreadNext(t)
    \/ IdleReap \/ IdleFree
    \/ HandlerNext \/ PendSVStep

\* The clock ticks for ever and the time slice of the current thread runs out
\* again and again; handlers return and do not saturate the CPU, calls run to
\* their end and critical sections are left.
Fairness ==
    /\ WF_vars(rt_system_scheduler_start)
    /\ WF_vars(IsrEnter) /\ SF_vars(TickYield) /\ SF_vars(IsrSchedule)
    /\ \A n \in 1..MaxNest : SF_vars(IsrLeave /\ nest = n)
    /\ SF_vars(PendSVStep)
    /\ \A t \in Thread :
          /\ SF_vars(ScheduleStep(t)) /\ SF_vars(ResumeStep1(t))
          /\ SF_vars(ResumeStep2(t)) /\ SF_vars(rt_exit_critical(t))

Spec == Init /\ [][Next]_vars
FairSpec == Spec /\ Fairness

-----------------------------------------------------------------------------

Linked(t) == \E p \in Prio : Contains(k.ready[p], t)

\* A rt_thread_resume found u suspended, u was resumed by its timer meanwhile, and
\* the first section has unlinked u from its ready list.
Unlinking(p) ==
    \E t \in Thread : /\ pc[t].at = "insert"
                      /\ k.thr[pc[t].arg].stat = "READY" /\ k.thr[pc[t].arg].prio = p

\* The priority bitmap and the lists agree: every thread listed is READY and has
\* the priority of its list, whose bit is set; and a bit has its list, but for
\* the moment between the sections of a rt_thread_resume that came too late.
\* rt_schedule takes the head of the list of the first bit without looking.
ReadyTable ==
    \A p \in Prio :
        /\ k.ready[p] # <<>> => p \in k.group
        /\ p \in k.group => k.ready[p] # <<>> \/ Unlinking(p)
        /\ \A i \in DOMAIN k.ready[p] :
              LET tcb == k.thr[k.ready[p][i]] IN tcb.stat = "READY" /\ tcb.prio = p

\* A tlist is linked in one list and once: the ready list, the suspend list of
\* an IPC object or the defunct list, which share the one list node.
OneList ==
    LET places(t)  == {node \in UNION {{p} \X DOMAIN k.ready[p] : p \in Prio} :
                          k.ready[node[1]][node[2]] = t}
        defunct(t) == {i \in DOMAIN k.defunct : k.defunct[i] = t}
        waiting(t) == k.waiting \cap {t}
    IN  \A t \in Thread :
          Cardinality(places(t)) + Cardinality(defunct(t)) + Cardinality(waiting(t)) <= 1

\* No READY thread is forgotten: it is on a ready list, unless a
\* rt_thread_delete on it is under way.
ReadyIsListed ==
    \A t \in Thread : k.thr[t].stat = "READY" /\ ~InHand(t) => Linked(t)

\* The RT_ASSERT of rt_thread_timeout: a timer that can fire belongs to a
\* suspended thread.
TimerMeansSuspended ==
    \A t \in Thread : k.thr[t].timer => k.thr[t].stat = "SUSPEND"

\* The stat of a thread, the list that its one list node is linked in and its
\* timer tell the same story, whatever thread and handler steps came between.
StatMatchesLists == OneList /\ ReadyIsListed /\ TimerMeansSuspended

\* rt_thread_delete and rt_thread_detach remove the thread from the thread
\* queue: no closed thread is on a ready list.
ClosedIsUnlisted ==
    \A t \in Thread : k.thr[t].stat = "CLOSE" => ~Linked(t)

\* Unless the scheduler is locked or a priority change has not been followed by
\* rt_schedule, the code that runs outside the kernel belongs to a READY thread
\* and no READY thread has a higher priority.
HighestRuns ==
    ThreadMode /\ current # NoThread /\ pc[cpu].at = "user" /\ lock = 0 /\ ~owed
      => /\ k.thr[cpu].stat = "READY"
         /\ \A t \in Thread : Linked(t) => k.thr[cpu].prio <= k.thr[t].prio

\* The idle thread never frees a thread something still refers to: the CPU, a
\* recorded switch, a list or an armed timer.
NoUseAfterFree ==
    \A t \in k.freed :
        /\ t # cpu /\ t # current /\ ~(flag /\ t \in {from, to})
        /\ ~Linked(t) /\ t \notin k.waiting /\ ~Contains(k.defunct, t)
        /\ ~k.thr[t].timer

\* A locked scheduler never gives the CPU to another thread, whatever the
\* handlers make ready meanwhile.
LockHolds == [][lock > 0 => current' = current /\ cpu' = cpu]_vars

\* The scheduler drives the context switch only in the ways ContextSwitch allows.
UsesContextSwitch == CtxInit /\ [][CtxNext]_ctxVars

\* Round robin: a thread that stays at the highest ready priority is made
\* current again and again.
RoundRobin ==
    \A t \in Thread :
        []<>(current = t) \/ []<>~(k.group # {} /\ Contains(k.ready[Min(k.group)], t))

=============================================================================
