------------------------------- MODULE Mutex -------------------------------
(***************************************************************************)
(* Mutexes (ipc.c): recursive ownership, direct hand-over to the first     *)
(* waiter, and priority inheritance: a thread that must wait raises the    *)
(* owner to its own priority, and a mutex whose hold drops to 0 puts its   *)
(* owner back to the priority that the owner had when it took that mutex.  *)
(***************************************************************************)
EXTENDS IpcWait

CONSTANT MaxHold    \* bound on the nesting of takes; hold is an rt_uint8_t

ASSUME MaxHoldAssumption == MaxHold \in 1..255

NoPriority == 255       \* 0xFF

VARIABLES
    mvalue, owner, hold, original_priority,     \* of each mutex; mvalue is its value
    nest        \* ghost: takes that returned RT_EOK less releases, per thread
                \* and mutex

mutexVars == <<mvalue, owner, hold, original_priority, nest>>

MtxTypeOK ==
    /\ mvalue \in [Mutexes -> 0..1]
    /\ owner \in [Mutexes -> Thread \cup {Null}]
    /\ hold \in [Mutexes -> 0..MaxHold]
    /\ original_priority \in [Mutexes -> 0..255]
    /\ nest \in [Thread -> [Mutexes -> 0..MaxHold]]

\* rt_mutex_init
MtxInit ==
    /\ mvalue = [m \in Mutexes |-> 1]
    /\ owner = [m \in Mutexes |-> Null]
    /\ hold = [m \in Mutexes |-> 0]
    /\ original_priority = [m \in Mutexes |-> NoPriority]
    /\ nest = [t \in Thread |-> [m \in Mutexes |-> 0]]

-----------------------------------------------------------------------------

NoError(s, t) == [s EXCEPT !.error[t] = "EOK"]

\* rt_mutex_take by the owner.
TakeAgain(m, t) ==
    /\ owner[m] = t /\ hold[m] < MaxHold
    /\ hold' = [hold EXCEPT ![m] = @ + 1]
    /\ nest' = [nest EXCEPT ![t][m] = @ + 1]
    /\ w' = NoError(w, t)
    /\ UNCHANGED <<mvalue, owner, original_priority, call>>

\* rt_mutex_take of a free mutex.
TakeFree(m, t) ==
    /\ owner[m] # t /\ mvalue[m] > 0
    /\ mvalue' = [mvalue EXCEPT ![m] = @ - 1]
    /\ owner' = [owner EXCEPT ![m] = t]
    /\ original_priority' = [original_priority EXCEPT ![m] = w.prio[t]]
    /\ hold' = [hold EXCEPT ![m] = @ + 1]
    /\ nest' = [nest EXCEPT ![t][m] = @ + 1]
    /\ w' = NoError(w, t)
    /\ UNCHANGED call

\* Slip: the owner is not raised.
Inherit_Not(s, o, t) == s

\* The owner o of a mutex that t must wait for takes over the priority of t.
Inherit(s, o, t) ==
    IF s.prio[t] < s.prio[o] THEN [s EXCEPT !.prio[o] = s.prio[t]] ELSE s

\* rt_mutex_take of another thread's mutex, up to rt_schedule.
TakeWait(m, t, time) ==
    /\ owner[m] # t /\ mvalue[m] = 0
    /\ \/ /\ time = "none"
          /\ w' = [w EXCEPT !.error[t] = "ETIMEOUT"]
          /\ UNCHANGED call
       \/ /\ time # "none"
          /\ w' = SuspendOn(Inherit(w, owner[m], t), m, t, time = "timed")
          /\ call' = [call EXCEPT ![t] = [op |-> "mutex", mutex |-> m]]
    /\ UNCHANGED mutexVars

rt_mutex_take(m, t, time) ==
    Free(t) /\ (TakeAgain(m, t) \/ TakeFree(m, t) \/ TakeWait(m, t, time))

\* Slip: the error is not looked at.
Taken_ErrorIgnored(t) ==
    /\ Woken(t, "mutex")
    /\ Return(t)
    /\ nest' = [nest EXCEPT ![t][call[t].mutex] = @ + 1]
    /\ UNCHANGED <<w, mvalue, owner, hold, original_priority>>

\* After rt_schedule: the thread returns its error, or as the owner.
Taken(t) ==
    /\ Woken(t, "mutex")
    /\ Return(t)
    /\ nest' = IF w.error[t] = "EOK" THEN [nest EXCEPT ![t][call[t].mutex] = @ + 1] ELSE nest
    /\ UNCHANGED <<w, mvalue, owner, hold, original_priority>>

\* The owner of m gets its original priority back.
Restore(s, m) == [s EXCEPT !.prio[owner[m]] = original_priority[m]]

\* Slip: the last waiter becomes the owner.
ReleaseLast_ToLast(m) ==
    LET waiters == w.list[m]
        s == Restore(w, m)
    IN  \/ /\ waiters # <<>>
           /\ owner' = [owner EXCEPT ![m] = Last(waiters)]
           /\ original_priority' = [original_priority EXCEPT ![m] = s.prio[Last(waiters)]]
           /\ hold' = [hold EXCEPT ![m] = 1]
           /\ w' = Resume(s, Last(waiters))
           /\ UNCHANGED mvalue
        \/ /\ waiters = <<>>
           /\ mvalue' = [mvalue EXCEPT ![m] = @ + 1]
           /\ owner' = [owner EXCEPT ![m] = Null]
           /\ original_priority' = [original_priority EXCEPT ![m] = NoPriority]
           /\ hold' = [hold EXCEPT ![m] = 0]
           /\ w' = s

\* The end of rt_mutex_release, when hold drops to 0: restore the priority, then
\* make the first waiter the owner or the mutex free.
ReleaseLast(m) ==
    LET waiters == w.list[m]
        s == Restore(w, m)
    IN  \/ /\ waiters # <<>>
           /\ owner' = [owner EXCEPT ![m] = Head(waiters)]
           /\ original_priority' = [original_priority EXCEPT ![m] = s.prio[Head(waiters)]]
           /\ hold' = [hold EXCEPT ![m] = 1]
           /\ w' = ResumeFirst(s, m)
           /\ UNCHANGED mvalue
        \/ /\ waiters = <<>>
           /\ mvalue' = [mvalue EXCEPT ![m] = @ + 1]
           /\ owner' = [owner EXCEPT ![m] = Null]
           /\ original_priority' = [original_priority EXCEPT ![m] = NoPriority]
           /\ hold' = [hold EXCEPT ![m] = 0]
           /\ w' = s

rt_mutex_release(m, t) ==
    /\ Free(t)
    /\ \/ /\ owner[m] # t
          /\ w' = [w EXCEPT !.error[t] = "ERROR"]
          /\ UNCHANGED mutexVars
       \/ /\ owner[m] = t
          /\ nest' = [nest EXCEPT ![t][m] = @ - 1]
          /\ \/ hold[m] > 1 /\ hold' = [hold EXCEPT ![m] = @ - 1]
                            /\ UNCHANGED <<w, mvalue, owner, original_priority>>
             \/ hold[m] = 1 /\ ReleaseLast(m)
    /\ UNCHANGED call

\* rt_mutex_detach and rt_mutex_delete.
rt_mutex_detach(m) == Begin("detach", <<m>>)

MtxNext ==
    \E t \in Thread :
        \/ \E m \in w.app.mutexes :
              \/ \E time \in w.app.timeouts : rt_mutex_take(m, t, time)
              \/ rt_mutex_release(m, t)
        \/ Taken(t)

-----------------------------------------------------------------------------

\* The new owner that has not returned from rt_mutex_take yet.
Granted(m, t) ==
    t \in Resumed("mutex") /\ call[t].mutex = m

\* Only the owner is inside, hold is how deep it is, and a thread returns from
\* rt_mutex_take with the mutex exactly when the mutex was handed to it.
OwnerHolds ==
    \A m \in Mutexes, t \in Thread :
        /\ Granted(m, t) => owner[m] = t
        /\ nest[t][m] + (IF Granted(m, t) THEN 1 ELSE 0)
              = IF owner[m] = t THEN hold[m] ELSE 0

\* value, owner and hold agree, and a mutex with waiters has an owner, which
\* is not one of them.
OwnerConsistent ==
    \A m \in Mutexes :
        /\ mvalue[m] = 1 <=> owner[m] = Null
        /\ mvalue[m] = 1 <=> hold[m] = 0
        /\ w.list[m] # <<>> => owner[m] # Null
        /\ ~Contains(w.list[m], owner[m])

\* Mutual exclusion with nesting and direct hand-over.
MutualExclusion == OwnerHolds /\ OwnerConsistent

\* Nobody waits for a thread of lower priority.
NoInversion ==
    \A m \in Mutexes : \A t \in ToSet(w.list[m]) : w.prio[owner[m]] <= w.prio[t]

\* A thread that owns no mutex has the priority it started with.
PriorityRestored ==
    \A t \in Thread : (\A m \in Mutexes : owner[m] # t) => w.prio[t] = Priority[t]

\* Priority inheritance, in an application with one mutex: the owner has at least
\* the priority of every waiter, timeouts and hand-overs included, and whoever
\* does not own the mutex is back at its own priority.
Inheritance == Cardinality(w.app.mutexes) = 1 => NoInversion /\ PriorityRestored

=============================================================================
