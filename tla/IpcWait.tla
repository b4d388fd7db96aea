------------------------------ MODULE IpcWait ------------------------------
(***************************************************************************)
(* Waiting on an IPC object: rt_ipc_list_suspend, rt_ipc_list_resume and   *)
(* rt_ipc_list_resume_all of ipc.c and the timeout of a waiting thread     *)
(* (rt_thread_timeout).  The modules of the objects extend this one, and   *)
(* module Ipc puts them together.                                          *)
(*                                                                         *)
(* Any READY thread may take the next step.  That allows every behaviour   *)
(* of the scheduler, and more; module Scheduler is about which thread      *)
(* really runs.  A step is one section with interrupts disabled.           *)
(***************************************************************************)
EXTENDS Integers, FiniteSets, SequencesExt

CONSTANTS
    Thread,     \* the threads
    Isr,        \* handlers, which call with timeout 0
    Null,       \* no thread, no slot
    Priority,   \* the priorities threads start with: a lower number is more urgent
    Flag,       \* RT_IPC_FLAG_FIFO or RT_IPC_FLAG_PRIO: "FIFO" or "PRIO"
    Mutexes,    \* the mutexes
    Mail,       \* what is sent through mailboxes and message queues
    NoMail,     \* the contents of a place that was never used
    Apps        \* the applications: the objects, mutexes, threads and timeouts they use

Timeouts == {"none", "timed", "forever"}

ASSUME ThreadAssumption ==
    IsFiniteSet(Thread) /\ Null \notin Thread /\ Isr \cap Thread = {}
ASSUME PriorityAssumption == Priority \in [Thread -> 0..254]
ASSUME FlagAssumption == Flag \in {"FIFO", "PRIO"}
ASSUME MailAssumption == NoMail \notin Mail
ASSUME AppsAssumption ==
    \A a \in Apps : /\ a.threads \subseteq Thread /\ a.mutexes \subseteq Mutexes
                    /\ a.timeouts \subseteq Timeouts

VARIABLES
    w,      \* the application, current priority, stat, error and timer of each
            \* thread, and the suspend lists
    call,   \* per thread and handler: the call it is in
    drain   \* the detach, delete or reset that resumes waiters one by one, and
            \* where it is; wild when it resumed something that is not a thread

IpcQueue == {"sem", "event", "mb_recv", "mb_send", "mq", "mp"}
DriverQueue == {"done", "dq_push", "dq_pop", "pipe_rd", "pipe_wr"}
Queue == IpcQueue \cup Mutexes \cup DriverQueue

ASSUME MutexesAssumption ==
    IsFiniteSet(Mutexes) /\ Mutexes \cap (IpcQueue \cup DriverQueue) = {}

Caller == Thread \cup Isr
Idle == [op |-> "idle"]
Uses(object) == object \in w.app.uses

Waits == [app   : Apps,
          prio  : [Thread -> 0..255],
          stat  : [Thread -> {"READY", "SUSPEND"}],
          error : [Thread -> {"EOK", "ETIMEOUT", "ERROR"}],
          timer : [Thread -> BOOLEAN],
          list  : [Queue -> Seq(Thread)]]

WaitsOK ==
    /\ w \in Waits
    /\ drain.by \in {"nobody", "detach", "reset"}
    /\ drain.at \in {"no", "test", "take", "gone", "wild"}
    /\ drain.todo \in Seq(Queue)

NoDrain == [by |-> "nobody", at |-> "no", todo |-> <<>>]

WaitsInit ==
    /\ \E a \in Apps :
          w = [app   |-> a,
               prio  |-> Priority,
               stat  |-> [t \in Thread |-> "READY"],
               error |-> [t \in Thread |-> "EOK"],
               timer |-> [t \in Thread |-> FALSE],
               list  |-> [q \in Queue |-> <<>>]]
    /\ call = [c \in Caller |-> Idle]
    /\ drain = NoDrain

-----------------------------------------------------------------------------

\* Where rt_ipc_list_suspend links a thread: at the tail, or before the first
\* waiter of lower priority.
Enqueue(s, q, t) ==
    LET l == s.list[q]
        worse == {i \in DOMAIN l : s.prio[t] < s.prio[l[i]]}
    IN  InsertAt(l, IF Flag = "FIFO" \/ worse = {} THEN Len(l) + 1 ELSE Min(worse), t)

\* rt_ipc_list_suspend and, for a timed wait, rt_timer_start.
SuspendOn(s, q, t, timed) ==
    [s EXCEPT !.stat[t] = "SUSPEND", !.error[t] = "EOK",
              !.timer[t] = timed, !.list[q] = Enqueue(s, q, t)]

\* The driver objects link a waiter at the tail, whatever its priority.
SuspendLast(s, q, t, timed) ==
    [s EXCEPT !.stat[t] = "SUSPEND", !.error[t] = "EOK",
              !.timer[t] = timed, !.list[q] = Append(@, t)]

\* Slip: the thread timer is left running.
Resume_TimerKept(s, t) ==
    [s EXCEPT !.stat[t] = "READY",
              !.list = [q \in DOMAIN @ |-> RemoveFirst(@[q], t)]]

\* rt_thread_resume.
Resume(s, t) ==
    [s EXCEPT !.stat[t] = "READY", !.timer[t] = FALSE,
              !.list = [q \in DOMAIN @ |-> RemoveFirst(@[q], t)]]

\* rt_ipc_list_resume, when there is a waiter.
ResumeFirst(s, q) ==
    IF s.list[q] = <<>> THEN s ELSE Resume(s, Head(s.list[q]))

\* rt_ipc_list_resume_all, as the control operations call it: with interrupts
\* disabled.
ResumeAll(s, q) ==
    LET woken == ToSet(s.list[q])
    IN  [s EXCEPT !.stat  = [t \in Thread |-> IF t \in woken THEN "READY" ELSE @[t]],
                  !.error = [t \in Thread |-> IF t \in woken THEN "ERROR" ELSE @[t]],
                  !.timer = [t \in Thread |-> @[t] /\ t \notin woken],
                  !.list[q] = <<>>]

\* rt_thread_timeout.
TimedOut(s, t) == [Resume(s, t) EXCEPT !.error[t] = "ETIMEOUT"]

-----------------------------------------------------------------------------

\* Nobody has begun to detach, delete or reset the object.
Attached == drain.at = "no"

\* A reset resumes waiters with the scheduler locked: handlers run, threads do not.
Locked == drain.by = "reset" /\ drain.at # "wild"

\* A thread that runs application code, or a call that waits no more.
Running(t) == t \in w.app.threads /\ w.stat[t] = "READY" /\ ~Locked
Free(t) == Running(t) /\ call[t] = Idle /\ Attached
Woken(t, op) == Running(t) /\ call[t].op = op

Return(c) == call' = [call EXCEPT ![c] = Idle]

\* What is left of a timeout after a wait: ticks passed, perhaps all of them.
Left(to) == IF to = "timed" THEN {"timed", "none"} ELSE {to}

\* The threads that were resumed without an error and have not run yet.
Resumed(op) ==
    {t \in Thread : call[t].op = op /\ w.stat[t] = "READY" /\ w.error[t] = "EOK"}

\* A thread, with no handler in progress, begins to resume the waiters of queues.
\* After a detach or a delete nobody calls the object any more.
Begin(by, queues) ==
    /\ Attached /\ \A c \in Isr : call[c] = Idle
    /\ drain' = [by |-> by, at |-> "test", todo |-> queues]
    /\ UNCHANGED <<w, call>>

\* rt_ipc_list_resume_all: the test of the loop, with interrupts enabled ...
DrainTest ==
    /\ drain.at = "test"
    /\ drain' = IF w.list[Head(drain.todo)] # <<>> THEN [drain EXCEPT !.at = "take"]
                ELSE IF Len(drain.todo) > 1 THEN [drain EXCEPT !.todo = Tail(@)]
                ELSE IF drain.by = "reset" THEN NoDrain ELSE [drain EXCEPT !.at = "gone"]
    /\ UNCHANGED <<w, call>>

\* ... and its body, which takes what follows the list head for a thread.
DrainTake ==
    LET list == w.list[Head(drain.todo)]
    IN  /\ drain.at = "take"
        /\ \/ /\ list # <<>>
              /\ w' = [Resume(w, Head(list)) EXCEPT !.error[Head(list)] = "ERROR"]
              /\ drain' = [drain EXCEPT !.at = "test"]
           \/ list = <<>> /\ drain' = [drain EXCEPT !.at = "wild"] /\ UNCHANGED w
        /\ UNCHANGED call

\* A loop over a suspend list resumes suspended threads only, never the list head.
ResumesOnlyWaiters == drain.at # "wild"

\* A thread is in a suspend list exactly while it is suspended, in one and once;
\* only such a thread has a running timer, and it is inside a call.
ListsConsistent ==
    /\ \A t \in Thread :
          /\ w.timer[t] => w.stat[t] = "SUSPEND"
          /\ w.stat[t] = "SUSPEND" => call[t] # Idle
          /\ Cardinality({q \in Queue : Contains(w.list[q], t)})
                = IF w.stat[t] = "SUSPEND" THEN 1 ELSE 0
    /\ \A q \in Queue : Cardinality(ToSet(w.list[q])) = Len(w.list[q])

\* The lists say who waits, and detaching or deleting an object with waiters
\* keeps this.
WaitersConsistent == ResumesOnlyWaiters /\ ListsConsistent

=============================================================================
