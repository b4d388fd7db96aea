----------------------------- MODULE Semaphore -----------------------------
(***************************************************************************)
(* Semaphores (ipc.c).  A release with a waiter hands the permit to the    *)
(* first of them and leaves value alone: the waiter owns a permit although *)
(* it has not run yet.                                                     *)
(***************************************************************************)
EXTENDS IpcWait

CONSTANTS
    ValueMod,   \* value is an rt_uint16_t: 65536
    MaxPermits  \* bound: releases stop when this many permits exist

ASSUME ValueModAssumption == ValueMod \in Nat \ {0}
ASSUME MaxPermitsAssumption == MaxPermits \in Nat

VARIABLES
    value,      \* sem->value
    permits     \* ghost: permits given by init, reset and releases, less those
                \* that a rt_sem_take has returned with

semVars == <<value, permits>>

SemTypeOK ==
    /\ value \in 0..ValueMod - 1
    /\ permits \in Int

\* rt_sem_init, with any value where the semaphore is used.
SemInit ==
    /\ value \in IF Uses("sem") THEN 0..ValueMod - 1 ELSE {0}
    /\ permits = value

-----------------------------------------------------------------------------

SemWaiters == w.list["sem"]

\* rt_sem_take, up to rt_schedule.
rt_sem_take(t, time) ==
    /\ Free(t)
    /\ \/ /\ value > 0
          /\ value' = value - 1 /\ permits' = permits - 1
          /\ UNCHANGED <<w, call>>
       \/ /\ value = 0 /\ time # "none"
          /\ w' = SuspendOn(w, "sem", t, time = "timed")
          /\ call' = [call EXCEPT ![t] = [op |-> "sem"]]
          /\ UNCHANGED <<value, permits>>

\* After rt_schedule: the thread returns its error, or with a permit.
SemTaken(t) ==
    /\ Woken(t, "sem")
    /\ Return(t)
    /\ permits' = IF w.error[t] = "EOK" THEN permits - 1 ELSE permits
    /\ UNCHANGED <<w, value>>

\* Slip: value is increased although a waiter got the permit.
rt_sem_release_Both ==
    /\ Attached /\ permits < MaxPermits
    /\ w' = ResumeFirst(w, "sem")
    /\ value' = (value + 1) % ValueMod
    /\ permits' = permits + 1
    /\ UNCHANGED call

\* rt_sem_release, by a thread or a handler.
rt_sem_release ==
    /\ Attached /\ permits < MaxPermits
    /\ IF SemWaiters # <<>> THEN w' = ResumeFirst(w, "sem") /\ UNCHANGED value
                            ELSE value' = (value + 1) % ValueMod /\ UNCHANGED w
    /\ permits' = permits + 1
    /\ UNCHANGED call

\* RT_IPC_CMD_RESET of rt_sem_control: a new value, and an error for every waiter.
\* Who has its permit already keeps it.
rt_sem_control(v) ==
    /\ Attached
    /\ w' = ResumeAll(w, "sem")
    /\ value' = v % ValueMod
    /\ permits' = (v % ValueMod) + Cardinality(Resumed("sem"))
    /\ UNCHANGED call

\* rt_sem_detach and rt_sem_delete.
rt_sem_detach == Begin("detach", <<"sem">>)

SemNext ==
    \/ \E t \in Thread :
          \/ \E time \in w.app.timeouts : rt_sem_take(t, time)
          \/ SemTaken(t)
    \/ rt_sem_release
    \/ \E v \in 0..ValueMod : rt_sem_control(v)

-----------------------------------------------------------------------------

\* No permit is lost or made up: what value says and what the resumed waiters
\* own is what was given, to the 16 bits of value.
PermitsConserved == (permits - value - Cardinality(Resumed("sem"))) % ValueMod = 0

\* No thread waits while value says that there is a permit.
NoIdlePermit == SemWaiters # <<>> => value = 0

=============================================================================
