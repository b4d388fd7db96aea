----------------------------- MODULE WorkQueue -----------------------------
(***************************************************************************)
(* Work queues (workqueue.c): a list of work and a thread that does it.    *)
(* The thread tests the list and suspends itself without a lock; a thread  *)
(* that submits work appends it and looks at the state of the worker with  *)
(* the scheduler locked, and resumes the worker after that.                *)
(***************************************************************************)
EXTENDS IpcWait

CONSTANT Work       \* the work items

ASSUME WorkAssumption == "head" \notin Work \cup {Null}

VARIABLES
    work_list,
    worker,     \* where _workqueue_thread_entry is; asleep is RT_THREAD_SUSPEND
    work        \* the work it does

workVars == <<work_list, worker, work>>

WorkTypeOK ==
    /\ work_list \in Seq(Work)
    /\ worker \in {"test", "suspend", "asleep", "take", "run"}
    /\ work \in Work \cup {Null, "head"}

\* rt_workqueue_create
WorkInit == work_list = <<>> /\ worker = "test" /\ work = Null

-----------------------------------------------------------------------------

\* The worker runs before the other threads if its priority is higher.
MayRun == Uses("top") => worker = "asleep"

WorkerTest ==
    /\ worker = "test"
    /\ worker' = IF work_list = <<>> THEN "suspend" ELSE "take"
    /\ UNCHANGED <<work_list, work>>

WorkerSuspend ==
    /\ worker = "suspend"
    /\ worker' = "asleep"
    /\ UNCHANGED <<work_list, work>>

\* Takes what follows the list head, without another look at the list.
WorkerTake ==
    /\ worker = "take"
    /\ worker' = "run"
    /\ work' = IF work_list = <<>> THEN "head" ELSE Head(work_list)
    /\ work_list' = IF work_list = <<>> THEN <<>> ELSE Tail(work_list)

WorkerRun ==
    /\ worker = "run" /\ work # "head"
    /\ worker' = "test" /\ work' = Null
    /\ UNCHANGED work_list

\* rt_workqueue_dowork, up to rt_exit_critical.
rt_workqueue_dowork(t, x) ==
    /\ Free(t) /\ MayRun
    /\ work_list' = Append(RemoveFirst(work_list, x), x)
    /\ call' = IF worker = "asleep" THEN [call EXCEPT ![t] = [op |-> "kick"]] ELSE call
    /\ UNCHANGED <<w, worker, work>>

\* Its end: rt_thread_resume, which does nothing to a thread that is not suspended.
Kick(t) ==
    /\ Woken(t, "kick") /\ MayRun
    /\ worker' = IF worker = "asleep" THEN "take" ELSE worker
    /\ Return(t)
    /\ UNCHANGED <<w, work_list, work>>

rt_workqueue_cancel_work(t, x) ==
    /\ Free(t) /\ MayRun
    /\ work_list' = RemoveFirst(work_list, x)
    /\ UNCHANGED <<w, call, worker, work>>

WorkerStep == WorkerTest \/ WorkerSuspend \/ WorkerTake \/ WorkerRun

WorkNext ==
    \/ WorkerStep /\ UNCHANGED <<w, call>>
    \/ \E t \in Thread :
          \/ \E x \in Work : rt_workqueue_dowork(t, x) \/ rt_workqueue_cancel_work(t, x)
          \/ Kick(t)

-----------------------------------------------------------------------------

\* "we have work to do with." (workqueue.c:22): what the worker takes is work.
TakesWork == work # "head"

\* Work in the list has a worker that will look for it: it is not asleep, or the
\* thread that submitted the work is about to resume it.
WorkerCalled ==
    (work_list # <<>> /\ worker = "asleep") => \E t \in Thread : call[t].op = "kick"

\* Work that was submitted is done, or cancelled.
WorkDone == \A x \in Work : Contains(work_list, x) ~> ~Contains(work_list, x)

=============================================================================
