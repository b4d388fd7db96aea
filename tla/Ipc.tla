-------------------------------- MODULE Ipc --------------------------------
(***************************************************************************)
(* The inter-thread communication of the kernel: one object of each kind,  *)
(* the mutexes, and the thread timers that end a wait on any of them.      *)
(***************************************************************************)
EXTENDS Semaphore, Mutex, Event, Mailbox, MessageQueue, MemPool

vars == <<w, call, drain, semVars, mutexVars, eventVars, mbVars, mqVars, mpVars>>

\* One type invariant for the objects and the waiting threads.
TypeOK ==
    /\ WaitsOK /\ SemTypeOK /\ MtxTypeOK /\ EvtTypeOK /\ MbTypeOK /\ MqTypeOK /\ MpTypeOK

Init ==
    /\ WaitsInit /\ SemInit /\ MtxInit /\ EvtInit /\ MbInit /\ MqInit /\ MpInit

\* The thread timer of a waiting thread fires.
TimeoutOf(t) ==
    /\ w.timer[t]
    /\ w' = TimedOut(w, t)
    /\ UNCHANGED <<call, drain, semVars, mutexVars, eventVars, mbVars, mqVars, mpVars>>

SemStep ==
    /\ Uses("sem") /\ SemNext
    /\ UNCHANGED <<drain, mutexVars, eventVars, mbVars, mqVars, mpVars>>
MutexStep ==
    /\ Uses("mutex") /\ MtxNext
    /\ UNCHANGED <<drain, semVars, eventVars, mbVars, mqVars, mpVars>>
EventStep ==
    /\ Uses("event") /\ EvtNext
    /\ UNCHANGED <<drain, semVars, mutexVars, mbVars, mqVars, mpVars>>
MailboxStep ==
    /\ Uses("mb") /\ MbNext
    /\ UNCHANGED <<drain, semVars, mutexVars, eventVars, mqVars, mpVars>>
MessageQueueStep ==
    /\ Uses("mq") /\ MqNext
    /\ UNCHANGED <<drain, semVars, mutexVars, eventVars, mbVars, mpVars>>
MemPoolStep ==
    /\ Uses("mp") /\ MpNext
    /\ UNCHANGED <<drain, semVars, mutexVars, eventVars, mbVars, mqVars>>

\* Somebody detaches, or deletes, the object that the application uses.
Detach ==
    /\ \/ Uses("sem") /\ rt_sem_detach
       \/ Uses("mutex") /\ \E m \in w.app.mutexes : rt_mutex_detach(m)
       \/ Uses("event") /\ rt_event_detach
       \/ Uses("mb") /\ rt_mb_detach
       \/ Uses("mq") /\ rt_mq_detach
       \/ Uses("mp") /\ rt_mp_detach
    /\ UNCHANGED <<semVars, mutexVars, eventVars, mbVars, mqVars, mpVars>>

DetachStep ==
    /\ Uses("detach")
    /\ \/ Detach
       \/ DrainTest /\ UNCHANGED <<semVars, mutexVars, eventVars, mbVars, mqVars, mpVars>>
       \/ /\ drain.at = "take" /\ Head(drain.todo) # "mp" /\ DrainTake
          /\ UNCHANGED <<semVars, mutexVars, eventVars, mbVars, mqVars, mpVars>>
       \/ MpDrainTake /\ UNCHANGED <<semVars, mutexVars, eventVars, mbVars, mqVars>>

Next ==
    \/ \E t \in Thread : TimeoutOf(t)
    \/ SemStep \/ MutexStep \/ EventStep \/ MailboxStep \/ MessageQueueStep \/ MemPoolStep
    \/ DetachStep

Spec == Init /\ [][Next]_vars

\* A thread that was resumed goes on with its call.
Continues(t) ==
    \/ SemStep /\ SemTaken(t)
    \/ MutexStep /\ Taken(t)
    \/ MailboxStep /\ (MbWokenSend(t) \/ MbWokenRecv(t))

Unlocks(t, m) == MutexStep /\ owner[m] = t /\ rt_mutex_release(m, t)

\* The scheduler gets to every READY thread, a semaphore in use is released again
\* and again, and an owner leaves its mutex: it does not nest for ever.
FairSpec ==
    /\ Spec
    /\ WF_vars(SemStep /\ rt_sem_release)
    /\ \A t \in Thread :
          /\ WF_vars(Continues(t))
          /\ \A m \in Mutexes : WF_vars(Unlocks(t, m)) /\ SF_vars(hold[m] = 1 /\ Unlocks(t, m))

-----------------------------------------------------------------------------

\* No wake-up is lost: no thread waits for something that is there, unless
\* another thread was resumed for it and has not run yet.
NoLostWakeup == NoIdlePermit /\ MailWakes /\ MessageWakes /\ BlockWakes

\* With RT_IPC_FLAG_FIFO, releases and owners that leave resume every thread
\* that waits for a semaphore or a mutex.
WaiterServed ==
    \A t \in Thread : (w.stat[t] = "SUSPEND" /\ call[t].op \in {"sem", "mutex"})
                          ~> w.stat[t] = "READY"

=============================================================================
