---------------------------- MODULE MCScheduler ----------------------------
(***************************************************************************)
(* Instances of Scheduler: two or three application threads and idle on    *)
(* three priorities.                                                       *)
(***************************************************************************)
EXTENDS Scheduler

CONSTANTS t1, t2, t3

\* t1 and t2 share a priority; t3 is above them.
Priorities == [t \in Thread |-> IF t = t3 THEN 0 ELSE IF t = Idle THEN 2 ELSE 1]

\* Every operation but suspend and resume of another thread, with nested
\* handlers and nested critical sections, on two threads.
Everything ==
    [calls |-> {"startup", "wake", "block", "sleep", "yield", "priority", "exit",
                "delete", "critical"},
     threads |-> {t1, t2, Idle}, nest |-> 2, lock |-> 2]

\* Threads that end, are deleted, are initialised again and are freed by idle.
Endings ==
    [calls |-> {"startup", "wake", "block", "sleep", "exit", "delete", "init"},
     threads |-> Thread, nest |-> 1, lock |-> 0]

\* Threads that suspend and resume one another, at fixed priorities.
Resumes ==
    [calls |-> {"startup", "sleep", "block", "wake", "suspend", "resume", "yield"},
     threads |-> Thread, nest |-> 1, lock |-> 0]

AllApps == {Everything, Endings, Resumes}

\* Threads that never block and hold the scheduler lock now and then.
Spinning ==
    {[calls |-> {"startup", "critical"}, threads |-> {t1, t2, Idle},
      nest |-> 1, lock |-> 1]}

\* A thread that sleeps may be deleted.
DeletesSleeping ==
    {[calls |-> {"startup", "sleep", "delete", "delete_timed"},
      threads |-> {t1, t2, Idle}, nest |-> 1, lock |-> 0]}

=============================================================================
