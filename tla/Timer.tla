------------------------------- MODULE Timer -------------------------------
(***************************************************************************)
(* The hard timers of timer.c: one list ordered by expiry, checked by the  *)
(* clock tick, with tick counts that wrap around (RT_TIMER_SKIP_LIST_LEVEL *)
(* is 1 and soft timers are off in rtconfig.h).                            *)
(*                                                                         *)
(* rt_timer_check runs with interrupts disabled; chk is TRUE from its      *)
(* first to its last step and nothing else moves meanwhile.  A timeout     *)
(* function may itself start, stop or detach timers.  rt_timer_start and   *)
(* rt_timer_stop consist of several sections, between which ticks happen.  *)
(***************************************************************************)
EXTENDS Integers, FiniteSets, SequencesExt

CONSTANTS
    TimerSet,   \* the timers
    Worker,     \* the threads that call the timer operations
    NoTimer,    \* the argument of a worker outside any call
    TickMod,    \* RT_TICK_MAX + 1: ticks are counted modulo this
    MaxInit,    \* bound on init_tick
    MaxLate,    \* bound on the ticks that pass inside one rt_timer_start
    Callback    \* what timeout functions do: operations <<op, "self" | "other">>

RT_TICK_MAX == TickMod - 1
Half == RT_TICK_MAX \div 2

ASSUME TickAssumption ==
    /\ TickMod \in Nat \ {0} /\ MaxInit \in Nat /\ MaxLate \in Nat
    /\ MaxInit + MaxLate < Half
ASSUME NoTimerAssumption == NoTimer \notin TimerSet

VARIABLES
    tick,       \* rt_tick
    list,       \* rt_timer_list
    tm,         \* the timer objects
    detached,   \* timers given back by rt_timer_detach
    chk,        \* rt_timer_check is running
    pc,         \* per worker: what the call it is in does next
    due         \* ghost: ticks until the timer expires, counted without wrap

vars == <<tick, list, tm, detached, chk, pc, due>>

Free == [at |-> "user", arg |-> NoTimer]

TypeOK ==
    /\ tick \in 0..RT_TICK_MAX
    /\ list \in Seq(TimerSet)
    /\ tm \in [TimerSet -> [active : BOOLEAN, periodic : BOOLEAN,
                            init_tick : 1..MaxInit, timeout_tick : 0..RT_TICK_MAX]]
    /\ detached \subseteq TimerSet
    /\ chk \in BOOLEAN
    /\ pc \in [Worker -> [at : {"user", "tick", "insert", "remove", "clear"},
                          arg : TimerSet \cup {NoTimer}]]
    /\ due \in [TimerSet -> -MaxLate..MaxInit]

Init ==
    /\ tick = 0
    /\ list = <<>>
    /\ tm \in [TimerSet -> [active : {FALSE}, periodic : BOOLEAN,
                            init_tick : 1..MaxInit, timeout_tick : {0}]]
    /\ detached = {}
    /\ chk = FALSE
    /\ pc = [w \in Worker |-> Free]
    /\ due = [t \in TimerSet |-> 0]

-----------------------------------------------------------------------------
(* Operators on a record s = [list, tm, due] of the timer state.            *)

State == [list |-> list, tm |-> tm, due |-> due]
Becomes(s) == list' = s.list /\ tm' = s.tm /\ due' = s.due

Wrap(n) == n % TickMod

\* Slip: plain comparison of the tick counts.
After_NoWrap(x, y) == x > y

\* x expires after y, for tick counts less than half the range apart.
After(x, y) == Wrap(x - y) # 0 /\ Wrap(x - y) < Half

\* _rt_timer_remove.  The expiry of a timer that is not listed is not read
\* before it is set again; it is kept at 0.
Removed(s, t) ==
    [s EXCEPT !.list = RemoveFirst(@, t), !.tm[t].timeout_tick = 0, !.due[t] = 0]

\* Slip: the period is not added.
SetTimeout_Now(s, t) ==
    [s EXCEPT !.tm[t].timeout_tick = tick, !.due[t] = s.tm[t].init_tick]

\* rt_timer_start: read the clock, compute the expiry.
SetTimeout(s, t) ==
    [s EXCEPT !.tm[t].timeout_tick = Wrap(tick + s.tm[t].init_tick),
              !.due[t] = s.tm[t].init_tick]

\* Slip: the new timer goes before the ones that expire at the same tick.
Inserted_BeforeEqual(s, t) ==
    LET later == {i \in DOMAIN s.list :
                    \/ After(s.tm[s.list[i]].timeout_tick, s.tm[t].timeout_tick)
                    \/ s.tm[s.list[i]].timeout_tick = s.tm[t].timeout_tick}
        pos   == IF later = {} THEN Len(s.list) + 1 ELSE Min(later)
    IN  [s EXCEPT !.list = InsertAt(@, pos, t), !.tm[t].active = TRUE]

\* rt_timer_start: insert before the first timer that expires later.
Inserted(s, t) ==
    LET later == {i \in DOMAIN s.list :
                    After(s.tm[s.list[i]].timeout_tick, s.tm[t].timeout_tick)}
        pos   == IF later = {} THEN Len(s.list) + 1 ELSE Min(later)
    IN  [s EXCEPT !.list = InsertAt(@, pos, t), !.tm[t].active = TRUE]

\* All of rt_timer_start, rt_timer_stop and rt_timer_detach, as a timeout
\* function or rt_timer_check calls them: with interrupts disabled.
Start(s, t) == Inserted(SetTimeout(Removed(s, t), t), t)

Stop(s, t) ==
    IF s.tm[t].active THEN [Removed(s, t) EXCEPT !.tm[t].active = FALSE] ELSE s

Call(s, op, t) ==
    CASE op = "start"  -> Start(s, t)
      [] op = "stop"   -> Stop(s, t)
      [] op = "detach" -> Removed(s, t)
      [] op = "none"   -> s

-----------------------------------------------------------------------------
(* The clock tick.                                                          *)

Listed(t) == Contains(list, t)

\* due keeps counting for a timer that is listed or about to be.
Counting(t) == Listed(t) \/ \E w \in Worker : pc[w] = [at |-> "insert", arg |-> t]

\* rt_tick_increase: count and enter rt_timer_check.
rt_tick_increase ==
    /\ ~chk
    /\ \A t \in TimerSet : Counting(t) => due[t] > -MaxLate
    /\ tick' = Wrap(tick + 1)
    /\ due' = [t \in TimerSet |-> IF Counting(t) THEN due[t] - 1 ELSE 0]
    /\ chk' = TRUE
    /\ UNCHANGED <<list, tm, detached, pc>>

\* Slip: the head is due only when the tick count is equal to its expiry.
HeadDue_Equal == list # <<>> /\ Wrap(tick - tm[Head(list)].timeout_tick) = 0

HeadDue == list # <<>> /\ Wrap(tick - tm[Head(list)].timeout_tick) < Half

InHand(u) == \E w \in Worker : pc[w].arg = u

\* Slip: the flag of a one-shot timer is left set.
Expired_FlagKept(s, t) ==
    IF s.tm[t].periodic /\ s.tm[t].active THEN Start(s, t) ELSE s

\* After the timeout function: a periodic timer that is still active restarts.
Expired(s, t) ==
    LET idle == [s EXCEPT !.tm[t].active = FALSE]
    IN  IF s.tm[t].periodic /\ s.tm[t].active THEN Start(idle, t) ELSE idle

\* One iteration of rt_timer_check; the timeout function applies op to u.
Fire(op, u) ==
    /\ chk /\ HeadDue
    /\ u \notin detached /\ (op # "none" => ~InHand(u))
    /\ LET t == Head(list)
       IN  /\ <<op, IF u = t THEN "self" ELSE "other">> \in Callback
           /\ Becomes(Expired(Call(Removed(State, t), op, u), t))
    /\ detached' = IF op = "detach" THEN detached \cup {u} ELSE detached
    /\ UNCHANGED <<tick, chk, pc>>

\* The list is empty or its head is not due.
CheckDone ==
    /\ chk /\ ~HeadDue
    /\ chk' = FALSE
    /\ UNCHANGED <<tick, list, tm, detached, pc, due>>

-----------------------------------------------------------------------------
(* Threads.  A timer is handled by one thread at a time.                    *)

Idle(w, t) == ~chk /\ pc[w] = Free /\ t \notin detached /\ ~InHand(t)
At(w, at) == ~chk /\ pc[w].at = at
Goto(w, at, t) == pc' = [pc EXCEPT ![w] = [at |-> at, arg |-> t]]

\* rt_timer_start: unlink the timer ...
rt_timer_start(w, t) ==
    /\ Idle(w, t)
    /\ Becomes([Removed(State, t) EXCEPT !.tm[t].active = FALSE])
    /\ Goto(w, "tick", t)
    /\ UNCHANGED <<tick, detached, chk>>

\* ... read the clock, with interrupts enabled ...
StartTick(w) ==
    /\ At(w, "tick")
    /\ Becomes(SetTimeout(State, pc[w].arg))
    /\ Goto(w, "insert", pc[w].arg)
    /\ UNCHANGED <<tick, detached, chk>>

\* ... and link it again.
StartInsert(w) ==
    /\ At(w, "insert")
    /\ Becomes(Inserted(State, pc[w].arg))
    /\ pc' = [pc EXCEPT ![w] = Free]
    /\ UNCHANGED <<tick, detached, chk>>

\* rt_timer_stop: nothing to do for a timer that is not active ...
rt_timer_stop(w, t) ==
    /\ Idle(w, t)
    /\ tm[t].active
    /\ Goto(w, "remove", t)
    /\ UNCHANGED <<tick, list, tm, detached, chk, due>>

\* ... else unlink it ...
StopRemove(w) ==
    /\ At(w, "remove")
    /\ Becomes(Removed(State, pc[w].arg))
    /\ Goto(w, "clear", pc[w].arg)
    /\ UNCHANGED <<tick, detached, chk>>

\* ... and clear the flag.
StopClear(w) ==
    /\ At(w, "clear")
    /\ tm' = [tm EXCEPT ![pc[w].arg].active = FALSE]
    /\ pc' = [pc EXCEPT ![w] = Free]
    /\ UNCHANGED <<tick, list, detached, chk, due>>

\* rt_timer_detach (static) and rt_timer_delete (dynamic).
rt_timer_detach(w, t) ==
    /\ Idle(w, t)
    /\ Becomes(Removed(State, t))
    /\ detached' = detached \cup {t}
    /\ UNCHANGED <<tick, chk, pc>>

\* RT_TIMER_CTRL_SET_TIME, _SET_ONESHOT and _SET_PERIODIC of rt_timer_control.
rt_timer_control(w, t) ==
    /\ Idle(w, t)
    /\ \/ \E n \in 1..MaxInit : tm' = [tm EXCEPT ![t].init_tick = n]
       \/ \E p \in BOOLEAN : tm' = [tm EXCEPT ![t].periodic = p]
    /\ UNCHANGED <<tick, list, detached, chk, pc, due>>

-----------------------------------------------------------------------------

Check == CheckDone \/ \E t \in TimerSet : \E op \in {"none", "start", "stop", "detach"} : Fire(op, t)

Next ==
    \/ rt_tick_increase \/ Check
    \/ \E w \in Worker :
          \/ StartTick(w) \/ StartInsert(w) \/ StopRemove(w) \/ StopClear(w)
          \/ \E t \in TimerSet : \/ rt_timer_start(w, t) \/ rt_timer_stop(w, t)
                                 \/ rt_timer_detach(w, t) \/ rt_timer_control(w, t)

Spec == Init /\ [][Next]_vars

-----------------------------------------------------------------------------

\* The list is ordered by the true time left although the tick counts in it may
\* have wrapped; rt_timer_check looks at the head only.
Sorted ==
    \A i, j \in DOMAIN list : i < j => due[list[i]] <= due[list[j]]

\* A timer is listed once, and exactly when it is active, apart from the timer
\* whose call is under way.  What rt_timer_detach took out of timer management
\* stays out, whatever its flag says.
ListedIsActive ==
    /\ Cardinality(ToSet(list)) = Len(list)
    /\ \A t \in TimerSet :
          ~InHand(t) => (Listed(t) <=> tm[t].active /\ t \notin detached)

\* rt_timer_check takes for due what has expired, not what will expire, and
\* leaves no expired timer behind when it stops, across the wrap of the tick.
FiresOnTime ==
    chk => IF HeadDue THEN due[Head(list)] <= 0
           ELSE \A t \in ToSet(list) : due[t] > 0

\* A timer started later never gets in front of one with the same expiry.
NoOvertaking ==
    [][\A x, y \in TimerSet :
          /\ Listed(x) /\ ~Listed(y) /\ ~chk
          /\ Contains(list', y) /\ SelectInSeq(list', LAMBDA t : t = y)
                                   < SelectInSeq(list', LAMBDA t : t = x)
          => due'[y] < due'[x]]_vars

\* The tick handler comes to an end although timeout functions restart timers:
\* each of its calls leaves fewer expired timers than there were.
Due == Cardinality({i \in DOMAIN list : due[list[i]] <= 0})
CheckTerminates == [][chk /\ chk' => Due' < Due]_vars

=============================================================================
