----------------------------- MODULE DataQueue -----------------------------
(***************************************************************************)
(* Data queues (dataqueue.c): a ring of pointers with free-running 16-bit  *)
(* indices, of which the low bits select the place.  A push that finds the *)
(* ring full sets waiting_lwm; the pop that brings it down to the low      *)
(* water mark resumes one pusher.                                          *)
(***************************************************************************)
EXTENDS IpcWait

CONSTANTS
    DqSize,     \* queue->size, a power of two
    Lwm,        \* queue->lwm
    IndexMod,   \* the indices are rt_uint16_t: 65536
    MaxIndex    \* bound: pushes stop when put_index is here

ASSUME DqAssumption ==
    /\ DqSize \in Nat \ {0} /\ Lwm \in 0..DqSize - 1
    /\ IndexMod \in Nat /\ IndexMod % DqSize = 0 /\ IndexMod > DqSize
    /\ MaxIndex \in Nat

VARIABLES
    dq,         \* the ring, put_index, get_index and waiting_lwm
    masked,     \* interrupts were left disabled
    dq_got      \* the data of the last pop

dqVars == <<dq, masked, dq_got>>

DqTypeOK ==
    /\ dq \in [item : [0..DqSize - 1 -> Mail \cup {NoMail}], put : 0..IndexMod - 1,
               get : 0..IndexMod - 1, waiting_lwm : BOOLEAN]
    /\ masked \in BOOLEAN
    /\ dq_got \in Mail \cup {NoMail}

\* rt_data_queue_init
DqInit ==
    /\ dq = [item |-> [i \in 0..DqSize - 1 |-> NoMail], put |-> 0, get |-> 0,
             waiting_lwm |-> FALSE]
    /\ masked = FALSE
    /\ dq_got = NoMail

-----------------------------------------------------------------------------

\* The tests subtract the indices as ints: at a wrap the result is negative.
Used == dq.put - dq.get
Full == Used = DqSize
Empty == dq.get = dq.put
At(d, index) == d.item[index % DqSize]

\* Slip: the index has wrapped before the place is selected.
PushSection_Late(m) ==
    /\ dq' = [dq EXCEPT !.item[(dq.put + 1) % DqSize] = m, !.put = (@ + 1) % IndexMod]
    /\ w' = ResumeFirst(w, "dq_pop")
    /\ UNCHANGED <<masked, dq_got>>

\* Slip: only the push into an empty queue resumes a thread that waits for data.
PushSection_IfEmpty(m) ==
    /\ dq' = [dq EXCEPT !.item[dq.put % DqSize] = m, !.put = (@ + 1) % IndexMod]
    /\ w' = IF Empty THEN ResumeFirst(w, "dq_pop") ELSE w
    /\ UNCHANGED <<masked, dq_got>>

\* The end of rt_data_queue_push.
PushSection(m) ==
    /\ dq' = [dq EXCEPT !.item[dq.put % DqSize] = m, !.put = (@ + 1) % IndexMod]
    /\ w' = ResumeFirst(w, "dq_pop")
    /\ UNCHANGED <<masked, dq_got>>

\* Slip: waiting_lwm is not reset.
PopSection_MarkKept ==
    LET low == dq.waiting_lwm /\ Used - 1 <= Lwm
    IN  /\ dq_got' = At(dq, dq.get)
        /\ dq' = [dq EXCEPT !.get = (@ + 1) % IndexMod]
        /\ w' = IF low THEN ResumeFirst(w, "dq_push") ELSE w
        /\ masked' = (masked \/ (low /\ w.list["dq_push"] = <<>>))

\* The end of rt_data_queue_pop.  At the low water mark it enables interrupts
\* only if it resumed a pusher.
PopSection ==
    LET low == dq.waiting_lwm /\ Used - 1 <= Lwm
    IN  /\ dq_got' = At(dq, dq.get)
        /\ dq' = [dq EXCEPT !.get = (@ + 1) % IndexMod, !.waiting_lwm = @ /\ ~low]
        /\ w' = IF low THEN ResumeFirst(w, "dq_push") ELSE w
        /\ masked' = (masked \/ (low /\ w.list["dq_push"] = <<>>))

WaitOn(t, q, m, time, back) ==
    /\ w' = SuspendLast(w, q, t, time = "timed")
    /\ call' = [call EXCEPT ![t] = [op |-> q, mail |-> m, timeout |-> time, back |-> back]]
    /\ UNCHANGED <<masked, dq_got>>

\* One evaluation of the loop of rt_data_queue_push, called from back.  The
\* timeout starts anew with every wait.
TryPush(t, m, time, back) ==
    \/ ~Full /\ PushSection(m) /\ call' = [call EXCEPT ![t] = back]
    \/ /\ Full /\ dq' = [dq EXCEPT !.waiting_lwm = TRUE]
       /\ \/ time # "none" /\ WaitOn(t, "dq_push", m, time, back)
          \/ time = "none" /\ Return(t) /\ UNCHANGED <<w, masked, dq_got>>

\* The same of rt_data_queue_pop.
TryPop(t, time) ==
    \/ ~Empty /\ PopSection /\ Return(t)
    \/ Empty /\ time # "none" /\ WaitOn(t, "dq_pop", NoMail, time, Idle) /\ UNCHANGED dq
    \/ Empty /\ time = "none" /\ Return(t) /\ UNCHANGED <<w, dqVars>>

rt_data_queue_push(t, m, time, back) ==
    Free(t) /\ dq.put # MaxIndex /\ TryPush(t, m, time, back)

rt_data_queue_pop(t, time) == Free(t) /\ TryPop(t, time)

\* After rt_schedule: the error, or round the loop.
WokenPush(t) ==
    /\ Woken(t, "dq_push")
    /\ \/ w.error[t] # "EOK" /\ Return(t) /\ UNCHANGED <<w, dqVars>>
       \/ /\ w.error[t] = "EOK" /\ dq.put # MaxIndex
          /\ TryPush(t, call[t].mail, call[t].timeout, call[t].back)

WokenPop(t) ==
    /\ Woken(t, "dq_pop")
    /\ \/ w.error[t] # "EOK" /\ Return(t) /\ UNCHANGED <<w, dqVars>>
       \/ w.error[t] = "EOK" /\ TryPop(t, call[t].timeout)

\* A handler pops with timeout 0.
IsrPop == ~Empty /\ PopSection /\ UNCHANGED call

\* rt_data_queue_reset: the waiters of both lists leave with an error; what is in
\* the queue stays.
rt_data_queue_reset == Begin("reset", <<"dq_pop", "dq_push">>)

DqNext ==
    \/ \E t \in Thread :
          \/ /\ t \in w.app.senders
             /\ \E m \in Mail, time \in w.app.timeouts : rt_data_queue_push(t, m, time, Idle)
          \/ t \notin w.app.senders /\ \E time \in w.app.pops : rt_data_queue_pop(t, time)
          \/ WokenPush(t) \/ WokenPop(t)
    \/ Uses("isr") /\ IsrPop

-----------------------------------------------------------------------------

DqQ == INSTANCE BoundedQueue
    WITH Item <- Mail, NoItem <- NoMail, Size <- DqSize, got <- dq_got,
         queue <- [i \in 1..Used |-> At(dq, dq.get + i - 1)]

\* The ring is a first-in first-out queue: no push overwrites data that was not
\* popped, and a pop gets the oldest.
DataQueueIsQueue == DqQ!Spec

\* While a thread waits to pop, everything in the queue has a thread that was
\* resumed for it; while one waits to push, a pop is still to reach the low water
\* mark and will resume it.
DataWakes ==
    /\ w.list["dq_pop"] # <<>> => Used <= Cardinality(Resumed("dq_pop"))
    /\ w.list["dq_push"] # <<>> => dq.waiting_lwm /\ Used > Lwm

\* "there is at least one thread in suspended list" (dataqueue.c:230): the pop that
\* reaches the low water mark finds a pusher, and so enables interrupts again.
InterruptsEnabled == ~masked

=============================================================================
