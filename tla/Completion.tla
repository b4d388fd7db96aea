----------------------------- MODULE Completion -----------------------------
(***************************************************************************)
(* Completions (completion.c): a flag that one thread waits for.  A done   *)
(* with the flag set already does nothing, and tests it with interrupts    *)
(* enabled.                                                                *)
(***************************************************************************)
EXTENDS IpcWait

VARIABLES
    flag,       \* RT_COMPLETED
    crowded     \* a second thread came to wait: the RT_ASSERT of rt_completion_wait

doneVars == <<flag, crowded>>

DoneTypeOK == flag \in BOOLEAN /\ crowded \in BOOLEAN

\* rt_completion_init
DoneInit == flag = FALSE /\ crowded = FALSE

-----------------------------------------------------------------------------

Waiter == w.list["done"]

\* Slip: the flag is not looked at before the wait.
WaitDone_Blind(t, time, back) ==
    /\ time # "none"
    /\ w' = SuspendLast(w, "done", t, time = "timed")
    /\ call' = [call EXCEPT ![t] = [op |-> "done", back |-> back]]
    /\ UNCHANGED doneVars

\* rt_completion_wait up to rt_schedule, called from back.
WaitDone(t, time, back) ==
    \/ /\ flag
       /\ flag' = FALSE
       /\ call' = [call EXCEPT ![t] = back]
       /\ UNCHANGED <<w, crowded>>
    \/ /\ ~flag /\ Waiter # <<>>
       /\ crowded' = TRUE
       /\ UNCHANGED <<w, call, flag>>
    \/ /\ ~flag /\ Waiter = <<>> /\ time = "none"
       /\ call' = [call EXCEPT ![t] = back]
       /\ UNCHANGED <<w, doneVars>>
    \/ /\ ~flag /\ Waiter = <<>> /\ time # "none"
       /\ w' = SuspendLast(w, "done", t, time = "timed")
       /\ call' = [call EXCEPT ![t] = [op |-> "done", back |-> back]]
       /\ UNCHANGED doneVars

rt_completion_wait(t, time) == Free(t) /\ WaitDone(t, time, Idle)

\* After rt_schedule: the flag is cleared, after a timeout too.
WokenWait(t) ==
    /\ Woken(t, "done")
    /\ flag' = FALSE
    /\ call' = [call EXCEPT ![t] = @.back]
    /\ UNCHANGED <<w, crowded>>

\* The section of rt_completion_done.
DoneSection ==
    /\ flag' = TRUE
    /\ w' = ResumeFirst(w, "done")
    /\ UNCHANGED crowded

\* rt_completion_done by a thread: the test of the flag ...
rt_completion_done(t) ==
    /\ Free(t) /\ ~flag
    /\ call' = [call EXCEPT ![t] = [op |-> "complete"]]
    /\ UNCHANGED <<w, doneVars>>

\* ... and the section.
CompleteDone(t) == Woken(t, "complete") /\ DoneSection /\ Return(t)

\* rt_completion_done by a handler, which no thread interrupts.
IsrDone ==
    \/ ~flag /\ DoneSection /\ UNCHANGED call
    \/ flag /\ UNCHANGED <<w, call, doneVars>>

DoneNext ==
    \/ \E t \in Thread :
          \/ t \notin w.app.senders /\ \E time \in w.app.timeouts : rt_completion_wait(t, time)
          \/ WokenWait(t)
          \/ t \in w.app.senders /\ rt_completion_done(t)
          \/ CompleteDone(t)
    \/ IsrDone

-----------------------------------------------------------------------------

\* A thread does not wait for something that was done: the flag is not set while
\* there is a waiter.
DoneWakes == Waiter # <<>> => ~flag

=============================================================================
