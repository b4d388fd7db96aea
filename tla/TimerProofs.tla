---------------------------- MODULE TimerProofs ----------------------------
(***************************************************************************)
(* The timer list for any number of timers and workers, any tick range and *)
(* any periods: Sorted, FiresOnTime and CheckTerminates for every set of   *)
(* timeout functions, ListedIsActive for those that neither restart nor    *)
(* detach their own timer.                                                 *)
(*                                                                         *)
(* The invariant ties the wrapped tick counts to the true time left: the   *)
(* expiry of a listed timer is tick + due modulo the range.  Two such      *)
(* expiries are less than half the range apart, so After compares the true *)
(* times, and inserting before the first later timer keeps the list in     *)
(* order.                                                                  *)
(***************************************************************************)
EXTENDS Timer, ListLemmas

Left == -MaxLate..MaxInit

TimerObject == [active : BOOLEAN, periodic : BOOLEAN,
                init_tick : 1..MaxInit, timeout_tick : 0..RT_TICK_MAX]

States == [list : Seq(TimerSet), tm : [TimerSet -> TimerObject], due : [TimerSet -> Left]]

\* The expiry of t, which wraps, is the true one.
OnTime(s, now, t) == s.tm[t].timeout_tick = Wrap(now + s.due[t])

\* The list at tick now.
Queued(s, now) ==
    /\ s \in States /\ IsInjective(s.list) /\ Ordered(s.list, s.due)
    /\ \A t \in ToSet(s.list) : OnTime(s, now, t)

\* The timers that calls are about.
Hands ==
    /\ \A v \in Worker : pc[v].arg = NoTimer <=> pc[v].at = "user"
    /\ \A v, x \in Worker : pc[v].arg = pc[x].arg /\ pc[v].at # "user" => v = x
    /\ \A v \in Worker : pc[v].at = "insert" => OnTime(State, tick, pc[v].arg)
    /\ \A v \in Worker : pc[v].at \in {"tick", "insert", "clear"} => pc[v].arg \notin ToSet(list)

TimerInv == TypeOK /\ Queued(State, tick) /\ Hands

\* A timer is active exactly when it is listed, unless a call is between
\* unlinking it and setting its flag.
Flagged ==
    /\ detached \cap ToSet(list) = {}
    /\ \A v \in Worker : pc[v].arg \notin detached
    /\ \A t \in TimerSet \ detached :
          (\A v \in Worker : pc[v].arg = t => pc[v].at = "remove") =>
              (t \in ToSet(list) <=> tm[t].active)

-----------------------------------------------------------------------------
(* The tick range.                                                         *)

\* What the assumption on the constants gives: the times left of any two timers
\* are less than half the range apart.
LEMMA TickRange ==
    /\ TickMod \in Nat \ {0} /\ MaxInit \in Nat /\ MaxLate \in Nat /\ Half \in Int
    /\ RT_TICK_MAX = TickMod - 1 /\ 2 * Half <= TickMod - 1 /\ MaxInit + MaxLate < Half
    /\ \A a \in Left : a \in Int /\ -Half < a /\ a < Half
<1>1. /\ TickMod \in Nat \ {0} /\ MaxInit \in Nat /\ MaxLate \in Nat
      /\ RT_TICK_MAX = TickMod - 1 /\ MaxInit + MaxLate < Half
  BY TickAssumption DEF RT_TICK_MAX
<1>2. Half \in Int /\ 2 * Half <= TickMod - 1
  BY <1>1 DEF Half, RT_TICK_MAX
<1> QED  BY <1>1, <1>2 DEF Left

\* One turn around the range.
LEMMA WrapOnce ==
    ASSUME NEW x \in Int, 0 - TickMod <= x, x < 2 * TickMod
    PROVE  Wrap(x) = IF x < 0 THEN x + TickMod ELSE IF x < TickMod THEN x ELSE x - TickMod
<1>0. TickMod \in Nat \ {0}
  BY TickRange
<1>1. CASE x < 0
  BY <1>0, <1>1 DEF Wrap
<1>2. CASE x \in 0..TickMod - 1
  BY <1>0, <1>2 DEF Wrap
<1>3. CASE x >= TickMod
  BY <1>0, <1>3 DEF Wrap
<1> QED  BY <1>0, <1>1, <1>2, <1>3

\* The expiry of a timer is a tick count.
LEMMA Expiry ==
    ASSUME NEW now \in 0..RT_TICK_MAX, NEW a \in Left
    PROVE  /\ Wrap(now + a) \in 0..RT_TICK_MAX
           /\ Wrap(now + a) = IF now + a < 0 THEN now + a + TickMod
                              ELSE IF now + a < TickMod THEN now + a ELSE now + a - TickMod
<1> DEFINE z == now + a
<1> SUFFICES /\ Wrap(z) \in 0..RT_TICK_MAX
             /\ Wrap(z) = IF z < 0 THEN z + TickMod ELSE IF z < TickMod THEN z ELSE z - TickMod
  BY TickRange
<1>1. /\ z \in Int /\ 0 - TickMod <= z /\ z < 2 * TickMod
      /\ TickMod \in Nat /\ RT_TICK_MAX = TickMod - 1
  BY TickRange
<1> HIDE DEF z
<1>2. Wrap(z) = IF z < 0 THEN z + TickMod ELSE IF z < TickMod THEN z ELSE z - TickMod
  BY <1>1, WrapOnce
<1>3. Wrap(z) \in 0..RT_TICK_MAX
  BY <1>1, <1>2
<1> QED  BY <1>2, <1>3

\* The comparison of rt_timer_start compares the true times left, across the wrap.
LEMMA AfterIsLater ==
    ASSUME NEW now \in 0..RT_TICK_MAX, NEW a \in Left, NEW b \in Left
    PROVE  After(Wrap(now + a), Wrap(now + b)) <=> a > b
<1> DEFINE x == Wrap(now + a)
           y == Wrap(now + b)
<1>1. /\ x \in Int /\ x = IF now + a < 0 THEN now + a + TickMod
                          ELSE IF now + a < TickMod THEN now + a ELSE now + a - TickMod
      /\ x \in 0..TickMod - 1
  BY Expiry, TickRange
<1>2. /\ y \in Int /\ y = IF now + b < 0 THEN now + b + TickMod
                          ELSE IF now + b < TickMod THEN now + b ELSE now + b - TickMod
      /\ y \in 0..TickMod - 1
  BY Expiry, TickRange
<1> HIDE DEF x, y
<1>3. /\ TickMod \in Nat /\ Half \in Int /\ 2 * Half <= TickMod - 1
      /\ a \in Int /\ b \in Int /\ a - b < Half /\ b - a < Half /\ now \in Int
  BY TickRange DEF Left
<1>4. x - y \in Int /\ 0 - TickMod <= x - y /\ x - y < 2 * TickMod
  BY <1>1, <1>2, <1>3
<1>5. Wrap(x - y) = IF x - y < 0 THEN x - y + TickMod
                    ELSE IF x - y < TickMod THEN x - y ELSE x - y - TickMod
  BY <1>4, WrapOnce
<1>6. x - y = a - b \/ x - y = a - b + TickMod \/ x - y = a - b - TickMod
  BY <1>1, <1>2, <1>3, TickRange
<1>7. Wrap(x - y) = IF a - b < 0 THEN a - b + TickMod ELSE a - b
  BY <1>1, <1>2, <1>3, <1>5, <1>6
<1>8. After(x, y) <=> a > b
  BY <1>3, <1>7 DEF After
<1> QED  BY <1>8 DEF x, y

\* The test of rt_timer_check is true of what has expired.
LEMMA DueIsPast ==
    ASSUME NEW now \in 0..RT_TICK_MAX, NEW a \in Left
    PROVE  Wrap(now - Wrap(now + a)) < Half <=> a <= 0
<1> DEFINE x == Wrap(now + a)
<1>1. /\ x \in Int /\ x = IF now + a < 0 THEN now + a + TickMod
                          ELSE IF now + a < TickMod THEN now + a ELSE now + a - TickMod
      /\ x \in 0..TickMod - 1
  BY Expiry, TickRange
<1> HIDE DEF x
<1>2. /\ TickMod \in Nat /\ Half \in Int /\ 2 * Half <= TickMod - 1
      /\ a \in Int /\ -Half < a /\ a < Half /\ now \in 0..TickMod - 1
  BY TickRange
<1>3. now - x \in Int /\ 0 - TickMod <= now - x /\ now - x < 2 * TickMod
  BY <1>1, <1>2
<1>4. Wrap(now - x) = IF now - x < 0 THEN now - x + TickMod
                      ELSE IF now - x < TickMod THEN now - x ELSE now - x - TickMod
  BY <1>3, WrapOnce
<1>5. Wrap(now - x) = IF a <= 0 THEN 0 - a ELSE TickMod - a
  BY <1>1, <1>2, <1>4
<1>6. Wrap(now - x) < Half <=> a <= 0
  BY <1>2, <1>5
<1> QED  BY <1>6 DEF x

\* A tick leaves the expiry where it is.
LEMMA TickShifts ==
    ASSUME NEW now \in 0..RT_TICK_MAX, NEW a \in Left, a - 1 \in Left
    PROVE  Wrap(now + 1) \in 0..RT_TICK_MAX /\ Wrap(Wrap(now + 1) + (a - 1)) = Wrap(now + a)
<1> DEFINE x == Wrap(now + 1)
<1>1. /\ TickMod \in Nat \ {0} /\ now \in 0..TickMod - 1 /\ RT_TICK_MAX = TickMod - 1
      /\ a \in Int /\ -Half < a /\ a < Half /\ Half \in Int /\ 2 * Half <= TickMod - 1
  BY TickRange
<1>2. x = IF now + 1 < TickMod THEN now + 1 ELSE 0
  <2> DEFINE z == now + 1
  <2>1. z \in Int /\ 0 - TickMod <= z /\ z < 2 * TickMod /\ ~(z < 0) /\ z <= TickMod
    BY <1>1
  <2> HIDE DEF z
  <2>2. Wrap(z) = IF z < 0 THEN z + TickMod ELSE IF z < TickMod THEN z ELSE z - TickMod
    BY <2>1, WrapOnce
  <2>3. Wrap(z) = IF z < TickMod THEN z ELSE 0
    BY <1>1, <2>1, <2>2
  <2> QED  BY <2>3 DEF z
<1>3. x \in 0..RT_TICK_MAX
  BY <1>1, <1>2
<1> HIDE DEF x
<1>4. Wrap(x + (a - 1)) = IF x + (a - 1) < 0 THEN x + (a - 1) + TickMod
                          ELSE IF x + (a - 1) < TickMod THEN x + (a - 1) ELSE x + (a - 1) - TickMod
  BY <1>3, Expiry
<1>5. Wrap(now + a) = IF now + a < 0 THEN now + a + TickMod
                      ELSE IF now + a < TickMod THEN now + a ELSE now + a - TickMod
  BY Expiry
<1>6. Wrap(x + (a - 1)) = Wrap(now + a)
  BY <1>1, <1>2, <1>4, <1>5
<1> QED  BY <1>3, <1>6 DEF x

-----------------------------------------------------------------------------
(* What the operators do to a state.                                       *)

\* _rt_timer_remove touches one timer.
LEMMA RemovedFields ==
    ASSUME NEW s \in States, NEW t \in TimerSet
    PROVE  LET r == Removed(s, t)
           IN  /\ r \in States /\ r.list = RemoveFirst(s.list, t)
               /\ \A u \in TimerSet : r.due[u] = IF u = t THEN 0 ELSE s.due[u]
               /\ \A u \in TimerSet : u # t => r.tm[u] = s.tm[u]
               /\ r.tm[t].active = s.tm[t].active /\ r.tm[t].periodic = s.tm[t].periodic
               /\ r.tm[t].init_tick = s.tm[t].init_tick
<1> DEFINE r == Removed(s, t)
<1>1. RemoveFirst(s.list, t) \in Seq(TimerSet)
  BY RemoveFirstProperties DEF States
<1>2. 0 \in Left /\ 0 \in 0..RT_TICK_MAX
  BY TickRange DEF Left
<1> DEFINE l == RemoveFirst(s.list, t)
           d == [s.due EXCEPT ![t] = 0]
           m == [s.tm EXCEPT ![t].timeout_tick = 0]
<1>3. r = [s EXCEPT !.list = l, !.tm = m, !.due = d]
  BY DEF Removed, States
<1>4. m \in [TimerSet -> TimerObject]
  BY <1>2 DEF States, TimerObject
<1>5. d \in [TimerSet -> Left]
  BY <1>2 DEF States
<1>6. /\ \A u \in TimerSet : u # t => m[u] = s.tm[u]
      /\ m[t].active = s.tm[t].active /\ m[t].periodic = s.tm[t].periodic
      /\ m[t].init_tick = s.tm[t].init_tick
  BY DEF States, TimerObject
<1>7. \A u \in TimerSet : d[u] = IF u = t THEN 0 ELSE s.due[u]
  BY DEF States
<1> HIDE DEF l, m, d, r
<1>8. r \in States /\ r.list = l /\ r.tm = m /\ r.due = d
  BY <1>1, <1>3, <1>4, <1>5 DEF States, l
<1> QED  BY <1>6, <1>7, <1>8 DEF l, r

\* The expiry that rt_timer_start computes is the true one.
LEMMA SetTimeoutFields ==
    ASSUME NEW s \in States, NEW t \in TimerSet, tick \in 0..RT_TICK_MAX
    PROVE  LET r == SetTimeout(s, t)
           IN  /\ r \in States /\ r.list = s.list
               /\ \A u \in TimerSet : r.due[u] = IF u = t THEN s.tm[t].init_tick ELSE s.due[u]
               /\ \A u \in TimerSet : u # t => r.tm[u] = s.tm[u]
               /\ r.tm[t].active = s.tm[t].active /\ r.tm[t].periodic = s.tm[t].periodic
               /\ r.tm[t].init_tick = s.tm[t].init_tick /\ OnTime(r, tick, t)
<1> DEFINE r == SetTimeout(s, t)
           n == s.tm[t].init_tick
           x == Wrap(tick + n)
<1>1. n \in Left /\ n \in 1..MaxInit
  BY TickRange DEF Left, States, TimerObject
<1>2. x \in 0..RT_TICK_MAX
  BY <1>1, Expiry
<1> DEFINE d == [s.due EXCEPT ![t] = n]
           m == [s.tm EXCEPT ![t].timeout_tick = x]
<1>3. r = [s EXCEPT !.tm = m, !.due = d]
  BY DEF SetTimeout, States
<1> HIDE DEF x
<1>4. m \in [TimerSet -> TimerObject]
  BY <1>2 DEF States, TimerObject
<1>5. d \in [TimerSet -> Left]
  BY <1>1 DEF States
<1>6. /\ \A u \in TimerSet : u # t => m[u] = s.tm[u]
      /\ m[t].active = s.tm[t].active /\ m[t].periodic = s.tm[t].periodic
      /\ m[t].init_tick = s.tm[t].init_tick /\ m[t].timeout_tick = x
  BY DEF States, TimerObject
<1>7. \A u \in TimerSet : d[u] = IF u = t THEN n ELSE s.due[u]
  BY DEF States
<1> HIDE DEF m, d, r
<1>8. r \in States /\ r.list = s.list /\ r.tm = m /\ r.due = d
  BY <1>3, <1>4, <1>5 DEF States
<1>9. OnTime(r, tick, t)
  BY <1>6, <1>7, <1>8 DEF OnTime, x
<1> QED  BY <1>6, <1>7, <1>8, <1>9 DEF r

WithFlag(s, t, b) == [s EXCEPT !.tm[t].active = b]

\* Setting the flag of a timer, as rt_timer_start, _stop and _check do.
LEMMA FlagFields ==
    ASSUME NEW s \in States, NEW t \in TimerSet, NEW b \in BOOLEAN
    PROVE  LET r == WithFlag(s, t, b)
           IN  /\ r \in States /\ r.list = s.list /\ r.due = s.due
               /\ \A u \in TimerSet : u # t => r.tm[u] = s.tm[u]
               /\ r.tm[t].active = b /\ r.tm[t].periodic = s.tm[t].periodic
               /\ r.tm[t].init_tick = s.tm[t].init_tick
               /\ r.tm[t].timeout_tick = s.tm[t].timeout_tick
BY DEF States, TimerObject, WithFlag

\* rt_timer_start links the timer and sets its flag.
LEMMA InsertedFields ==
    ASSUME NEW s \in States, NEW t \in TimerSet
    PROVE  \E pos \in 1..Len(s.list) + 1 :
              LET r == Inserted(s, t)
              IN  /\ r \in States /\ r.list = InsertAt(s.list, pos, t) /\ r.due = s.due
                  /\ \A u \in TimerSet : u # t => r.tm[u] = s.tm[u]
                  /\ r.tm[t].active = TRUE /\ r.tm[t].periodic = s.tm[t].periodic
                  /\ r.tm[t].init_tick = s.tm[t].init_tick
                  /\ r.tm[t].timeout_tick = s.tm[t].timeout_tick
                  /\ \A j \in 1..Len(s.list) : j < pos =>
                        ~After(s.tm[s.list[j]].timeout_tick, s.tm[t].timeout_tick)
                  /\ pos <= Len(s.list) =>
                        After(s.tm[s.list[pos]].timeout_tick, s.tm[t].timeout_tick)
<1> DEFINE r == Inserted(s, t)
           later == {i \in DOMAIN s.list :
                        After(s.tm[s.list[i]].timeout_tick, s.tm[t].timeout_tick)}
           pos == IF later = {} THEN Len(s.list) + 1 ELSE Min(later)
           l == InsertAt(s.list, pos, t)
           m == [s.tm EXCEPT ![t].active = TRUE]
<1>1. r = [s EXCEPT !.list = l, !.tm = m]
  BY DEF Inserted, States
<1>2. DOMAIN s.list = 1..Len(s.list) /\ Len(s.list) \in Nat /\ s.list \in Seq(TimerSet)
  BY DEF States
<1>3. later \subseteq Nat
  BY <1>2
<1>4. /\ \A j \in 1..Len(s.list) : j \in later <=>
            After(s.tm[s.list[j]].timeout_tick, s.tm[t].timeout_tick)
      /\ later \subseteq 1..Len(s.list)
  BY <1>2
<1> HIDE DEF later
<1>5. later # {} => Min(later) \in later /\ \A n \in later : Min(later) <= n
  BY <1>3, MinProperties
<1>6. /\ pos \in 1..Len(s.list) + 1
      /\ \A j \in 1..Len(s.list) : j < pos => j \notin later
      /\ pos <= Len(s.list) => pos \in later
  <2>1. CASE later = {}
    BY <1>2, <2>1
  <2>2. CASE later # {}
    <3>1. pos = Min(later) /\ pos \in later /\ \A n \in later : pos <= n
      BY <1>5, <2>2
    <3> HIDE DEF pos
    <3> QED  BY <1>2, <1>3, <1>4, <3>1
  <2> QED  BY <2>1, <2>2
<1> HIDE DEF pos
<1>7. l \in Seq(TimerSet)
  BY <1>2, <1>6, InsertAtProperties
<1>8. m \in [TimerSet -> TimerObject]
  BY DEF States, TimerObject
<1>9. /\ \A u \in TimerSet : u # t => m[u] = s.tm[u]
      /\ m[t].active = TRUE /\ m[t].periodic = s.tm[t].periodic
      /\ m[t].init_tick = s.tm[t].init_tick /\ m[t].timeout_tick = s.tm[t].timeout_tick
  BY DEF States, TimerObject
<1> HIDE DEF l, m, r
<1>10. r \in States /\ r.list = l /\ r.tm = m /\ r.due = s.due
  BY <1>1, <1>7, <1>8 DEF States
<1>11. /\ r \in States /\ r.list = InsertAt(s.list, pos, t) /\ r.due = s.due
       /\ \A u \in TimerSet : u # t => r.tm[u] = s.tm[u]
       /\ r.tm[t].active = TRUE /\ r.tm[t].periodic = s.tm[t].periodic
       /\ r.tm[t].init_tick = s.tm[t].init_tick
       /\ r.tm[t].timeout_tick = s.tm[t].timeout_tick
  BY <1>9, <1>10 DEF l
<1>12. /\ \A j \in 1..Len(s.list) : j < pos =>
            ~After(s.tm[s.list[j]].timeout_tick, s.tm[t].timeout_tick)
       /\ pos <= Len(s.list) =>
            After(s.tm[s.list[pos]].timeout_tick, s.tm[t].timeout_tick)
  BY <1>4, <1>6
<1> QED  BY <1>6, <1>11, <1>12 DEF r

-----------------------------------------------------------------------------
(* The list stays in order.                                                *)

\* A change that leaves the list, the times left and the expiries of the listed
\* timers alone.
LEMMA QueuedStays ==
    ASSUME NEW s, NEW now, Queued(s, now), NEW r \in States,
           r.list = s.list, \A u \in ToSet(s.list) : r.due[u] = s.due[u],
           \A u \in ToSet(s.list) : r.tm[u].timeout_tick = s.tm[u].timeout_tick
    PROVE  Queued(r, now)
<1>1. Ordered(r.list, r.due)
  <2>1. \A i \in DOMAIN s.list : s.list[i] \in ToSet(s.list)
    BY DEF ToSet
  <2> QED  BY <2>1 DEF Queued, Ordered
<1> QED  BY <1>1 DEF Queued, OnTime

\* Unlinking a timer keeps the order of the others.
LEMMA QueuedRemoved ==
    ASSUME NEW s, NEW now, Queued(s, now), NEW t \in TimerSet
    PROVE  /\ Queued(Removed(s, t), now) /\ Removed(s, t).due[t] = 0
           /\ ToSet(Removed(s, t).list) = ToSet(s.list) \ {t}
           /\ \A u \in TimerSet : u # t => /\ Removed(s, t).due[u] = s.due[u]
                                           /\ Removed(s, t).tm[u] = s.tm[u]
           /\ Removed(s, t).tm[t].active = s.tm[t].active
           /\ Removed(s, t).tm[t].periodic = s.tm[t].periodic
<1> DEFINE r == Removed(s, t)
           l == RemoveFirst(s.list, t)
<1>0. s \in States /\ s.list \in Seq(TimerSet) /\ IsInjective(s.list) /\ Ordered(s.list, s.due)
  BY DEF Queued, States
<1>1. /\ r \in States /\ r.list = l
      /\ \A u \in TimerSet : r.due[u] = IF u = t THEN 0 ELSE s.due[u]
      /\ \A u \in TimerSet : u # t => r.tm[u] = s.tm[u]
      /\ r.tm[t].active = s.tm[t].active /\ r.tm[t].periodic = s.tm[t].periodic
  BY <1>0, RemovedFields
<1>2. /\ l \in Seq(TimerSet) /\ IsInjective(l) /\ ToSet(l) \subseteq ToSet(s.list)
      /\ t \notin ToSet(l) /\ ToSet(s.list) \subseteq ToSet(l) \cup {t}
  BY <1>0, RemoveFirstProperties
<1>3. Ordered(l, s.due)
  BY <1>0, RemoveOrdered
<1> HIDE DEF r, l
<1>4. \A i \in DOMAIN l : l[i] \in TimerSet /\ l[i] # t
  BY <1>2 DEF ToSet
<1>5. Ordered(l, r.due)
  BY <1>1, <1>3, <1>4 DEF Ordered
<1>6. \A u \in ToSet(l) : OnTime(r, now, u)
  <2>1. \A u \in ToSet(l) : u \in TimerSet
    BY <1>2 DEF ToSet
  <2> QED  BY <1>1, <1>2, <2>1 DEF OnTime, Queued
<1>7. Queued(r, now)
  BY <1>1, <1>2, <1>5, <1>6 DEF Queued
<1>8. ToSet(l) = ToSet(s.list) \ {t}
  BY <1>2
<1> QED  BY <1>1, <1>7, <1>8 DEF r

\* Linking a timer whose expiry is the true one keeps the list in order.
LEMMA QueuedInserted ==
    ASSUME NEW s, NEW now \in 0..RT_TICK_MAX, Queued(s, now), NEW t \in TimerSet,
           t \notin ToSet(s.list), OnTime(s, now, t)
    PROVE  /\ Queued(Inserted(s, t), now) /\ Inserted(s, t).due = s.due
           /\ ToSet(Inserted(s, t).list) = ToSet(s.list) \cup {t}
           /\ \A u \in TimerSet : u # t => Inserted(s, t).tm[u] = s.tm[u]
           /\ Inserted(s, t).tm[t].active = TRUE
<1> DEFINE r == Inserted(s, t)
           l == s.list
<1>0. /\ s \in States /\ l \in Seq(TimerSet) /\ IsInjective(l) /\ Ordered(l, s.due)
      /\ s.due \in [TimerSet -> Left] /\ Len(l) \in Nat /\ DOMAIN l = 1..Len(l)
  BY DEF Queued, States
<1>a. PICK pos \in 1..Len(s.list) + 1 :
              /\ r \in States /\ r.list = InsertAt(s.list, pos, t) /\ r.due = s.due
              /\ \A u \in TimerSet : u # t => r.tm[u] = s.tm[u]
              /\ r.tm[t].active = TRUE /\ r.tm[t].periodic = s.tm[t].periodic
              /\ r.tm[t].init_tick = s.tm[t].init_tick
              /\ r.tm[t].timeout_tick = s.tm[t].timeout_tick
              /\ \A j \in 1..Len(s.list) : j < pos =>
                    ~After(s.tm[s.list[j]].timeout_tick, s.tm[t].timeout_tick)
              /\ pos <= Len(s.list) =>
                    After(s.tm[s.list[pos]].timeout_tick, s.tm[t].timeout_tick)
  BY <1>0, InsertedFields
<1> HIDE DEF r
<1>1. \A j \in 1..Len(l) : /\ l[j] \in TimerSet /\ l[j] \in ToSet(l) /\ s.due[l[j]] \in Left
                           /\ s.tm[l[j]].timeout_tick = Wrap(now + s.due[l[j]])
  <2>1. \A j \in 1..Len(l) : l[j] \in TimerSet /\ l[j] \in ToSet(l)
    BY <1>0 DEF ToSet
  <2> QED  BY <1>0, <2>1 DEF Queued, OnTime
<1>2. s.tm[t].timeout_tick = Wrap(now + s.due[t]) /\ s.due[t] \in Left
  BY <1>0 DEF OnTime
<1>3. \A j \in 1..Len(l) :
         After(s.tm[l[j]].timeout_tick, s.tm[t].timeout_tick) <=> s.due[l[j]] > s.due[t]
  BY <1>1, <1>2, AfterIsLater
<1>4. \A j \in 1..Len(l) : j < pos => s.due[l[j]] <= s.due[t]
  <2> SUFFICES ASSUME NEW j \in 1..Len(l), j < pos PROVE s.due[l[j]] <= s.due[t]
    OBVIOUS
  <2>1. ~(s.due[l[j]] > s.due[t]) /\ s.due[l[j]] \in Left
    BY <1>a, <1>1, <1>3
  <2>2. s.due[l[j]] \in Int /\ s.due[t] \in Int
    BY <1>2, <2>1, TickRange, Zenon
  <2>3. \A x, y \in Int : ~(x > y) => x <= y
    OBVIOUS
  <2> QED  BY <2>1, <2>2, <2>3, Zenon
<1>5. pos <= Len(l) => s.due[t] <= s.due[l[pos]]
  <2> SUFFICES ASSUME pos <= Len(l) PROVE s.due[t] <= s.due[l[pos]]
    OBVIOUS
  <2>1. pos \in 1..Len(l) /\ After(s.tm[l[pos]].timeout_tick, s.tm[t].timeout_tick)
    BY <1>0, <1>a
  <2>2. s.due[l[pos]] > s.due[t] /\ s.due[l[pos]] \in Left
    BY <1>1, <1>3, <2>1
  <2>3. s.due[l[pos]] \in Int /\ s.due[t] \in Int
    BY <1>2, <2>2, TickRange, Zenon
  <2>4. \A x, y \in Int : x > y => y <= x
    OBVIOUS
  <2> QED  BY <2>2, <2>3, <2>4, Zenon
<1>6. s.due \in [TimerSet -> Int]
  BY <1>0, TickRange
<1> DEFINE k == InsertAt(l, pos, t)
<1>7. Ordered(k, s.due)
  BY <1>0, <1>4, <1>5, <1>6, InsertOrdered
<1>8. k \in Seq(TimerSet) /\ ToSet(k) = ToSet(l) \cup {t} /\ IsInjective(k)
  BY <1>0, InsertAtProperties
<1> HIDE DEF k
<1>9. r.list = k
  BY <1>a DEF k
<1>10. \A u \in ToSet(k) : OnTime(r, now, u)
  <2>1. ASSUME NEW u \in ToSet(l) PROVE OnTime(r, now, u)
    <3>1. u \in TimerSet /\ u # t
      BY <1>0 DEF ToSet
    <3> QED  BY <1>a, <3>1 DEF OnTime, Queued
  <2>2. OnTime(r, now, t)
    BY <1>a DEF OnTime
  <2> QED  BY <1>8, <2>1, <2>2
<1>11. Queued(r, now)
  BY <1>a, <1>7, <1>8, <1>9, <1>10 DEF Queued
<1> QED  BY <1>a, <1>8, <1>9, <1>11 DEF r

-----------------------------------------------------------------------------
(* The calls of a timeout function.                                        *)

\* From s to r only t changes.
Others(s, r, t) ==
    \A u \in TimerSet : u # t => /\ r.tm[u] = s.tm[u] /\ r.due[u] = s.due[u]
                                 /\ u \in ToSet(r.list) <=> u \in ToSet(s.list)

\* When t is listed afterwards it was started now, which leaves it in the
\* future, or it is where it was.
Touches(s, r, t) ==
    /\ Others(s, r, t)
    /\ t \in ToSet(r.list) => \/ r.due[t] > 0
                              \/ r.due[t] = s.due[t] /\ t \in ToSet(s.list)

\* All of rt_timer_start.
LEMMA QueuedStart ==
    ASSUME NEW s, tick \in 0..RT_TICK_MAX, Queued(s, tick), NEW t \in TimerSet
    PROVE  /\ Queued(Start(s, t), tick) /\ Touches(s, Start(s, t), t)
           /\ t \in ToSet(Start(s, t).list) /\ Start(s, t).tm[t].active
<1> DEFINE a == Removed(s, t)
           b == SetTimeout(a, t)
           r == Inserted(b, t)
<1>1. /\ Queued(a, tick) /\ ToSet(a.list) = ToSet(s.list) \ {t}
      /\ \A u \in TimerSet : u # t => a.due[u] = s.due[u] /\ a.tm[u] = s.tm[u]
  <2>1. Queued(a, tick)
    BY QueuedRemoved, Zenon
  <2>2. ToSet(a.list) = ToSet(s.list) \ {t}
    BY QueuedRemoved, Zenon
  <2>0. s \in States
    BY DEF Queued
  <2>3. \A u \in TimerSet : u # t => a.due[u] = s.due[u]
    BY <2>0, RemovedFields
  <2>4. \A u \in TimerSet : u # t => a.tm[u] = s.tm[u]
    BY <2>0, RemovedFields
  <2> QED  BY <2>1, <2>2, <2>3, <2>4, Zenon
<1>2. a \in States
  BY <1>1 DEF Queued
<1> HIDE DEF a
<1>3. /\ b \in States /\ b.list = a.list /\ OnTime(b, tick, t)
      /\ \A u \in TimerSet : b.due[u] = IF u = t THEN a.tm[t].init_tick ELSE a.due[u]
      /\ \A u \in TimerSet : u # t => b.tm[u] = a.tm[u]
  BY <1>2, SetTimeoutFields
<1> HIDE DEF b
<1>4. t \notin ToSet(b.list) /\ \A u \in ToSet(a.list) : u \in TimerSet /\ u # t
  <2>1. \A u \in ToSet(a.list) : u \in TimerSet
    BY <1>2 DEF States, ToSet
  <2> QED  BY <1>1, <1>3, <2>1
<1>5. Queued(b, tick)
  BY <1>1, <1>3, <1>4, QueuedStays
<1>6. /\ Queued(r, tick) /\ r.due = b.due /\ ToSet(r.list) = ToSet(b.list) \cup {t}
      /\ \A u \in TimerSet : u # t => r.tm[u] = b.tm[u]
      /\ r.tm[t].active = TRUE
  <2>0. tick \in 0..RT_TICK_MAX /\ t \notin ToSet(b.list) /\ OnTime(b, tick, t)
    BY <1>3, <1>4
  <2>1. Queued(r, tick) 
    BY <2>0, <1>5, QueuedInserted
  <2>2. r.due = b.due 
    BY <2>0, <1>5, QueuedInserted
  <2>3. ToSet(r.list) = ToSet(b.list) \cup {t}
    BY <2>0, <1>5, QueuedInserted
  <2>4. \A u \in TimerSet : u # t => r.tm[u] = b.tm[u]
    BY <2>0, <1>5, QueuedInserted
  <2>5. r.tm[t].active = TRUE
    BY <2>0, <1>5, QueuedInserted
  <2> QED  BY <2>1, <2>2, <2>3, <2>4, <2>5
<1> HIDE DEF r
<1>7. r.due[t] > 0
  <2>1. a.tm[t].init_tick \in 1..MaxInit
    BY <1>2 DEF States, TimerObject
  <2> QED  BY <1>3, <1>6, <2>1, TickRange
<1>8. Touches(s, r, t)
  BY <1>1, <1>3, <1>6, <1>7 DEF Touches, Others
<1>9. r = Start(s, t)
  BY DEF r, b, a, Start
<1> QED  BY <1>6, <1>8, <1>9

\* All of rt_timer_stop.
LEMMA QueuedStop ==
    ASSUME NEW s, NEW now, Queued(s, now), NEW t \in TimerSet
    PROVE  /\ Queued(Stop(s, t), now) /\ Touches(s, Stop(s, t), t)
           /\ ~Stop(s, t).tm[t].active
           /\ s.tm[t].active => t \notin ToSet(Stop(s, t).list)
           /\ ~s.tm[t].active => Stop(s, t) = s
<1> DEFINE a == Removed(s, t)
           r == WithFlag(a, t, FALSE)
<1>1. /\ Queued(a, now) /\ ToSet(a.list) = ToSet(s.list) \ {t}
      /\ \A u \in TimerSet : u # t => a.due[u] = s.due[u] /\ a.tm[u] = s.tm[u]
  <2>1. Queued(a, now) 
    BY QueuedRemoved
  <2>2. ToSet(a.list) = ToSet(s.list) \ {t}
    BY QueuedRemoved
  <2>3. \A u \in TimerSet : u # t => a.due[u] = s.due[u] /\ a.tm[u] = s.tm[u]
    BY QueuedRemoved
  <2> QED  BY <2>1, <2>2, <2>3
<1>2. a \in States
  BY <1>1 DEF Queued
<1> HIDE DEF a
<1>3. /\ r \in States /\ r.list = a.list /\ r.due = a.due
      /\ \A u \in TimerSet : u # t => r.tm[u] = a.tm[u]
      /\ r.tm[t].active = FALSE
  BY <1>2, FlagFields
<1> HIDE DEF r
<1>4. \A u \in ToSet(a.list) : u \in TimerSet /\ u # t
  <2>1. \A u \in ToSet(a.list) : u \in TimerSet
    BY <1>2 DEF States, ToSet
  <2> QED  BY <1>1, <2>1
<1>5. Queued(r, now)
  BY <1>1, <1>3, <1>4, QueuedStays
<1>6. Touches(s, r, t) /\ Touches(s, s, t)
  BY <1>1, <1>3 DEF Touches, Others
<1>7. Stop(s, t) = IF s.tm[t].active THEN r ELSE s
  BY DEF r, a, Stop, WithFlag
<1>8. CASE s.tm[t].active
  BY <1>1, <1>3, <1>5, <1>6, <1>7, <1>8
<1>9. CASE ~s.tm[t].active
  BY <1>6, <1>7, <1>9
<1> QED  BY <1>8, <1>9

Ops == {"none", "start", "stop", "detach"}

\* What a timeout function does to the timer u.
LEMMA QueuedCall ==
    ASSUME NEW s, tick \in 0..RT_TICK_MAX, Queued(s, tick), NEW u \in TimerSet, NEW op \in Ops
    PROVE  /\ Queued(Call(s, op, u), tick) /\ Touches(s, Call(s, op, u), u)
           /\ op = "none" => Call(s, op, u) = s
           /\ op = "start" => u \in ToSet(Call(s, op, u).list) /\ Call(s, op, u).tm[u].active
           /\ op = "stop" => /\ ~Call(s, op, u).tm[u].active
                             /\ s.tm[u].active => u \notin ToSet(Call(s, op, u).list)
                             /\ ~s.tm[u].active => Call(s, op, u) = s
           /\ op = "detach" => u \notin ToSet(Call(s, op, u).list)
<1>1. CASE op = "start"
  <2>1. Call(s, op, u) = Start(s, u)
    BY <1>1 DEF Call
  <2> QED  BY <1>1, <2>1, QueuedStart
<1>2. CASE op = "stop"
  <2>1. Call(s, op, u) = Stop(s, u)
    BY <1>2 DEF Call
  <2> QED  BY <1>2, <2>1, QueuedStop
<1>3. CASE op = "detach"
  <2>1. Call(s, op, u) = Removed(s, u)
    BY <1>3 DEF Call
  <2> DEFINE r == Removed(s, u)
  <2>2. /\ Queued(r, tick) /\ ToSet(r.list) = ToSet(s.list) \ {u}
        /\ \A v \in TimerSet : v # u => r.due[v] = s.due[v] /\ r.tm[v] = s.tm[v]
    <3>1. Queued(r, tick)
      BY QueuedRemoved, Zenon
    <3>2. ToSet(r.list) = ToSet(s.list) \ {u}
      BY QueuedRemoved, Zenon
    <3>0. s \in States
      BY DEF Queued
    <3>3. \A v \in TimerSet : v # u => r.due[v] = s.due[v]
      BY <3>0, RemovedFields
    <3>4. \A v \in TimerSet : v # u => r.tm[v] = s.tm[v]
      BY <3>0, RemovedFields
    <3> QED  BY <3>1, <3>2, <3>3, <3>4, Zenon
  <2> HIDE DEF r
  <2>3. Touches(s, r, u)
    BY <2>2 DEF Touches, Others
  <2> QED  BY <1>3, <2>1, <2>2, <2>3 DEF r
<1>4. CASE op = "none"
  <2>1. Call(s, op, u) = s
    BY <1>4 DEF Call
  <2>2. Touches(s, s, u)
    BY DEF Touches, Others
  <2> QED  BY <1>4, <2>1, <2>2
<1> QED  BY <1>1, <1>2, <1>3, <1>4 DEF Ops

\* What rt_timer_check does after the timeout function.
LEMMA QueuedExpired ==
    ASSUME NEW s, tick \in 0..RT_TICK_MAX, Queued(s, tick), NEW t \in TimerSet
    PROVE  /\ Queued(Expired(s, t), tick) /\ Touches(s, Expired(s, t), t)
           /\ t \in ToSet(s.list) => t \in ToSet(Expired(s, t).list)
           /\ t \notin ToSet(s.list) => (t \in ToSet(Expired(s, t).list) <=> Expired(s, t).tm[t].active)
           /\ t \in ToSet(Expired(s, t).list) => s.tm[t].active \/ t \in ToSet(s.list)
<1> DEFINE idle == WithFlag(s, t, FALSE)
<1>0. s \in States
  BY DEF Queued
<1>1. /\ idle \in States /\ idle.list = s.list /\ idle.due = s.due
      /\ \A u \in TimerSet : u # t => idle.tm[u] = s.tm[u]
      /\ idle.tm[t].active = FALSE /\ idle.tm[t].timeout_tick = s.tm[t].timeout_tick
  BY <1>0, FlagFields
<1>2. Expired(s, t) = IF s.tm[t].periodic /\ s.tm[t].active THEN Start(idle, t) ELSE idle
  BY DEF Expired, WithFlag
<1> HIDE DEF idle
<1>3. \A u \in ToSet(s.list) : u \in TimerSet
  BY <1>0 DEF States, ToSet
<1>4. Queued(idle, tick)
  BY <1>1, <1>3, QueuedStays
<1>5. Touches(s, idle, t)
  BY <1>1 DEF Touches, Others
<1>6. CASE s.tm[t].periodic /\ s.tm[t].active
  <2> DEFINE r == Start(idle, t)
  <2>1. Queued(r, tick) /\ Touches(idle, r, t) /\ t \in ToSet(r.list) /\ r.tm[t].active
    BY <1>4, QueuedStart
  <2>2. Expired(s, t) = r
    BY <1>2, <1>6
  <2> HIDE DEF r
  <2>3. Touches(s, r, t)
    BY <1>1, <2>1 DEF Touches, Others
  <2> QED  BY <1>6, <2>1, <2>2, <2>3
<1>7. CASE ~(s.tm[t].periodic /\ s.tm[t].active)
  BY <1>1, <1>2, <1>4, <1>5, <1>7
<1> QED  BY <1>6, <1>7

-----------------------------------------------------------------------------
(* The invariant.                                                          *)

Calls == [at : {"user", "tick", "insert", "remove", "clear"}, arg : TimerSet \cup {NoTimer}]

\* The state of the timers is typed.
LEMMA StateTyped ==
    ASSUME TimerInv
    PROVE  /\ State \in States /\ list \in Seq(TimerSet) /\ tick \in 0..RT_TICK_MAX
           /\ State.list = list /\ State.tm = tm /\ State.due = due
           /\ pc \in [Worker -> Calls] /\ due \in [TimerSet -> Left]
           /\ tm \in [TimerSet -> TimerObject]
           /\ ToSet(list) \subseteq TimerSet
<1>1. /\ State.list = list /\ State.tm = tm /\ State.due = due
      /\ State \in States /\ list \in Seq(TimerSet) /\ tick \in 0..RT_TICK_MAX
  BY DEF TimerInv, TypeOK, Queued, State
<1>2. pc \in [Worker -> Calls] /\ due \in [TimerSet -> Left] /\ tm \in [TimerSet -> TimerObject]
  BY DEF TimerInv, TypeOK, Left, Calls, TimerObject
<1>3. ToSet(list) \subseteq TimerSet
  BY <1>1 DEF ToSet
<1> QED  BY <1>1, <1>2, <1>3

\* A step with interrupts disabled makes the timers what r says.
LEMMA StateBecomes ==
    ASSUME NEW r, Queued(r, tick), tick \in 0..RT_TICK_MAX, tick' = tick, Becomes(r),
           chk' \in BOOLEAN, detached' \subseteq TimerSet, pc' \in [Worker -> Calls]
    PROVE  TypeOK' /\ Queued(State', tick') /\ State' = r
<1>1. r \in States
  BY DEF Queued
<1>2. State' = r
  BY <1>1 DEF State, Becomes, States
<1>3. list' \in Seq(TimerSet) /\ tm' \in [TimerSet -> TimerObject] /\ due' \in [TimerSet -> Left]
  BY <1>1 DEF States, Becomes
<1>4. TypeOK'
  BY <1>3 DEF TypeOK, TimerObject, Left, Calls
<1> QED  BY <1>2, <1>4

\* A section of a call of the worker w about the timer t.
LEMMA WorkerStep ==
    ASSUME TimerInv, NEW r, Queued(r, tick), tick' = tick, Becomes(r),
           chk' \in BOOLEAN, detached' \subseteq TimerSet,
           NEW t \in TimerSet, Others(State, r, t), NEW w \in Worker,
           (pc[w] = Free /\ ~InHand(t)) \/ pc[w].arg = t,
           NEW e \in Calls, pc' = [pc EXCEPT ![w] = e],
           e = Free \/ (e.arg = t /\ e.at # "user"),
           e.at = "insert" => OnTime(r, tick, t),
           e.at \in {"tick", "insert", "clear"} => t \notin ToSet(r.list)
    PROVE  TimerInv'
<1>0. /\ State.list = list /\ State.tm = tm /\ State.due = due
      /\ pc \in [Worker -> Calls] /\ tick \in 0..RT_TICK_MAX
  BY StateTyped
<1>1. pc' \in [Worker -> Calls]
  BY <1>0
<1>2. TypeOK' /\ Queued(State', tick') /\ State' = r
  BY <1>0, <1>1, StateBecomes
<1>3. pc'[w] = e /\ \A v \in Worker : v # w => pc'[v] = pc[v]
  BY <1>0
<1>4. \A v \in Worker : v # w => pc[v].arg # t
  <2>1. CASE pc[w] = Free /\ ~InHand(t)
    BY <2>1 DEF InHand
  <2>2. CASE pc[w].arg = t
    <3>1. pc[w].at # "user"
      BY <2>2, NoTimerAssumption DEF TimerInv, Hands
    <3> QED  BY <2>2, <3>1 DEF TimerInv, Hands
  <2> QED  BY <2>1, <2>2
<1>5. \A v \in Worker : pc'[v].arg = NoTimer <=> pc'[v].at = "user"
  BY <1>3, NoTimerAssumption DEF TimerInv, Hands, Free
<1>6. \A v, x \in Worker : pc'[v].arg = pc'[x].arg /\ pc'[v].at # "user" => v = x
  <2> SUFFICES ASSUME NEW v \in Worker, NEW x \in Worker,
                      pc'[v].arg = pc'[x].arg, pc'[v].at # "user", v # x
               PROVE  FALSE
    OBVIOUS
  <2>1. pc'[v].arg # NoTimer /\ pc'[x].at # "user"
    BY <1>5
  <2>2. CASE v = w
    BY <1>3, <1>4, <2>1, <2>2 DEF Free
  <2>3. CASE x = w
    BY <1>3, <1>4, <2>1, <2>3 DEF Free
  <2>4. CASE v # w /\ x # w
    BY <1>3, <2>4 DEF TimerInv, Hands
  <2> QED  BY <2>2, <2>3, <2>4
<1>7. ASSUME NEW v \in Worker, v # w, pc[v].at \in {"tick", "insert", "clear"}
      PROVE  /\ pc[v].arg \notin ToSet(r.list)
             /\ pc[v].at = "insert" => OnTime(r, tick, pc[v].arg)
  <2>1. pc[v].arg \in TimerSet /\ pc[v].arg # t /\ pc[v].arg \notin ToSet(State.list)
    BY <1>0, <1>4, <1>7 DEF TimerInv, Hands, Calls
  <2>2. pc[v].arg \notin ToSet(r.list)
    BY <2>1 DEF Touches, Others
  <2>3. pc[v].at = "insert" => OnTime(State, tick, pc[v].arg)
    BY DEF TimerInv, Hands
  <2>4. pc[v].at = "insert" => OnTime(r, tick, pc[v].arg)
    BY <2>1, <2>3 DEF Touches, Others, OnTime
  <2> QED  BY <2>2, <2>4
<1>8. list' = r.list
  BY DEF Becomes
<1>9. /\ e.at = "insert" => OnTime(r, tick, e.arg)
      /\ e.at \in {"tick", "insert", "clear"} => e.arg \notin ToSet(r.list)
  BY DEF Free
<1>10. \A v \in Worker : pc'[v].at = "insert" => OnTime(r, tick, pc'[v].arg)
  BY <1>3, <1>7, <1>9
<1>11. \A v \in Worker : pc'[v].at \in {"tick", "insert", "clear"} => pc'[v].arg \notin ToSet(r.list)
  BY <1>3, <1>7, <1>9
<1>12. Hands'
  BY <1>2, <1>5, <1>6, <1>8, <1>10, <1>11 DEF Hands
<1> QED  BY <1>2, <1>12 DEF TimerInv

\* The same section keeps the flags right, unless it leaves t unlinked and its
\* flag to be set.
LEMMA WorkerFlags ==
    ASSUME TimerInv, Flagged, NEW r, Queued(r, tick), Becomes(r),
           NEW t \in TimerSet, t \notin detached, Others(State, r, t), NEW w \in Worker,
           (pc[w] = Free /\ ~InHand(t)) \/ pc[w].arg = t,
           NEW e \in Calls, pc' = [pc EXCEPT ![w] = e],
           e = Free \/ (e.arg = t /\ e.at # "user"),
           \/ /\ detached' = detached
              /\ e.at \in {"user", "remove"} => (t \in ToSet(r.list) <=> r.tm[t].active)
           \/ /\ detached' = detached \cup {t} /\ e = Free /\ pc[w] = Free /\ ~InHand(t)
              /\ t \notin ToSet(r.list)
    PROVE  Flagged'
<1>0. /\ State.list = list /\ State.tm = tm /\ pc \in [Worker -> Calls]
      /\ detached \subseteq TimerSet
  BY StateTyped DEF TimerInv, TypeOK
<1>1. list' = r.list /\ tm' = r.tm
  BY DEF Becomes
<1>2. pc'[w] = e /\ \A v \in Worker : v # w => pc'[v] = pc[v]
  BY <1>0
<1>3. ToSet(r.list) \subseteq TimerSet
  BY DEF Queued, States, ToSet
<1>4. detached' \cap ToSet(r.list) = {}
  <2>1. detached \cap ToSet(r.list) = {}
    BY <1>0, <1>3 DEF Flagged, Others
  <2> QED  BY <2>1
<1>5. \A v \in Worker : pc'[v].arg \notin detached'
  <2>1. e.arg \notin detached
    BY <1>0, NoTimerAssumption DEF Free
  <2>2. CASE detached' = detached
    BY <1>2, <2>1, <2>2 DEF Flagged
  <2>3. CASE detached' = detached \cup {t} /\ e = Free /\ ~InHand(t)
    <3>1. e.arg # t /\ \A v \in Worker : pc[v].arg # t
      BY <2>3, NoTimerAssumption DEF Free, InHand
    <3> QED  BY <1>2, <2>1, <2>3, <3>1 DEF Flagged
  <2> QED  BY <2>2, <2>3
<1>6. ASSUME NEW x \in TimerSet \ detached',
             \A v \in Worker : pc'[v].arg = x => pc'[v].at = "remove"
      PROVE  x \in ToSet(r.list) <=> r.tm[x].active
  <2>1. CASE x = t
    <3>1. detached' = detached
      BY <1>6, <2>1
    <3>2. e.at \in {"user", "remove"}
      BY <1>2, <1>6, <2>1 DEF Free
    <3> QED  BY <1>6, <2>1, <3>1, <3>2
  <2>2. CASE x # t
    <3>1. x \notin detached
      BY <1>6
    <3>2. \A v \in Worker : pc[v].arg = x => pc[v].at = "remove"
      <4> SUFFICES ASSUME NEW v \in Worker, pc[v].arg = x PROVE pc[v].at = "remove"
        OBVIOUS
      <4>1. v # w
        BY <2>2, NoTimerAssumption DEF Free
      <4> QED  BY <1>2, <1>6, <4>1
    <3>3. x \in ToSet(State.list) <=> State.tm[x].active
      BY <1>0, <3>1, <3>2 DEF Flagged
    <3> QED  BY <2>2, <3>3 DEF Others
  <2> QED  BY <2>1, <2>2
<1> QED  BY <1>1, <1>4, <1>5, <1>6 DEF Flagged

\* What the sections of the calls do to the list, from the state s.
LEMMA SectionsQueued ==
    ASSUME NEW s, tick \in 0..RT_TICK_MAX, Queued(s, tick), NEW t \in TimerSet
    PROVE  /\ LET r == WithFlag(Removed(s, t), t, FALSE)
              IN  /\ Queued(r, tick) /\ Touches(s, r, t) /\ t \notin ToSet(r.list)
                  /\ ~r.tm[t].active
           /\ LET r == Removed(s, t)
              IN  Queued(r, tick) /\ Touches(s, r, t) /\ t \notin ToSet(r.list)
           /\ LET r == WithFlag(s, t, FALSE)
              IN  /\ Queued(r, tick) /\ Touches(s, r, t) /\ r.list = s.list
                  /\ ~r.tm[t].active
<1>0. s \in States /\ \A u \in ToSet(s.list) : u \in TimerSet
  BY DEF Queued, States, ToSet
<1> DEFINE a == Removed(s, t)
           f == WithFlag(a, t, FALSE)
           b == WithFlag(s, t, FALSE)
<1>1. Queued(a, tick)
  BY QueuedRemoved
<1>2. ToSet(a.list) = ToSet(s.list) \ {t}
  BY QueuedRemoved
<1>3. \A u \in TimerSet : u # t => a.due[u] = s.due[u] /\ a.tm[u] = s.tm[u]
  BY QueuedRemoved
<1> HIDE DEF a
<1>4. Touches(s, a, t) /\ t \notin ToSet(a.list)
  BY <1>2, <1>3 DEF Touches, Others
<1>5. /\ f \in States /\ f.list = a.list /\ f.due = a.due
      /\ \A u \in TimerSet : u # t => f.tm[u] = a.tm[u]
      /\ f.tm[t].active = FALSE
  <2>1. a \in States
    BY <1>1 DEF Queued
  <2> QED  BY <2>1, FlagFields
<1> HIDE DEF f
<1>6. Touches(s, f, t) /\ t \notin ToSet(f.list) /\ ~f.tm[t].active
  BY <1>2, <1>3, <1>5 DEF Touches, Others
<1>7. Queued(f, tick)
  BY <1>0, <1>1, <1>2, <1>5, QueuedStays
<1>8. /\ b \in States /\ b.list = s.list /\ b.due = s.due
      /\ \A u \in TimerSet : u # t => b.tm[u] = s.tm[u]
      /\ b.tm[t].active = FALSE /\ b.tm[t].timeout_tick = s.tm[t].timeout_tick
  BY <1>0, FlagFields
<1> HIDE DEF b
<1>9. Queued(b, tick) /\ Touches(s, b, t)
  <2>1. Queued(b, tick)
    BY <1>0, <1>8, QueuedStays
  <2> QED  BY <1>8, <2>1 DEF Touches, Others
<1>13. Queued(f, tick) /\ Touches(s, f, t) /\ t \notin ToSet(f.list) /\ ~f.tm[t].active
  BY <1>6, <1>7
<1>14. Queued(b, tick) /\ Touches(s, b, t) /\ b.list = s.list /\ ~b.tm[t].active
  BY <1>8, <1>9
<1>15. Queued(a, tick) /\ Touches(s, a, t) /\ t \notin ToSet(a.list)
  BY <1>1, <1>4
<1> QED  BY <1>13, <1>14, <1>15 DEF a, b, f

\* rt_timer_start reads the clock for a timer that is not listed.
LEMMA QueuedSetTimeout ==
    ASSUME NEW s, tick \in 0..RT_TICK_MAX, Queued(s, tick), NEW t \in TimerSet,
           t \notin ToSet(s.list), NEW c, c = SetTimeout(s, t)
    PROVE  Queued(c, tick) /\ Others(s, c, t) /\ c.list = s.list /\ OnTime(c, tick, t)
<1>0. s \in States /\ \A u \in ToSet(s.list) : u \in TimerSet
  BY DEF Queued, States, ToSet
<1>1. /\ c \in States /\ c.list = s.list /\ OnTime(c, tick, t)
      /\ \A u \in TimerSet : c.due[u] = IF u = t THEN s.tm[t].init_tick ELSE s.due[u]
      /\ \A u \in TimerSet : u # t => c.tm[u] = s.tm[u]
  BY <1>0, SetTimeoutFields
<1>2. Queued(c, tick)
  BY <1>0, <1>1, QueuedStays
<1> QED  BY <1>1, <1>2 DEF Others

\* ... and links it.
LEMMA QueuedInsertion ==
    ASSUME NEW s, tick \in 0..RT_TICK_MAX, Queued(s, tick), NEW t \in TimerSet,
           t \notin ToSet(s.list), OnTime(s, tick, t), NEW d, d = Inserted(s, t)
    PROVE  /\ Queued(d, tick) /\ ToSet(d.list) = ToSet(s.list) \cup {t} /\ d.due = s.due
           /\ d.tm[t].active /\ \A u \in TimerSet : u # t => d.tm[u] = s.tm[u]
<1>1. Queued(d, tick)
  BY QueuedInserted
<1>2. ToSet(d.list) = ToSet(s.list) \cup {t}
  <2>1. ToSet(Inserted(s, t).list) = ToSet(s.list) \cup {t}
    BY QueuedInserted, Zenon
  <2> QED  BY <2>1, Zenon
<1>3. d.due = s.due /\ d.tm[t].active
  BY QueuedInserted
<1>4. \A u \in TimerSet : u # t => d.tm[u] = s.tm[u]
  BY QueuedInserted
<1> QED  BY <1>1, <1>2, <1>3, <1>4

\* rt_timer_start, rt_timer_stop, rt_timer_detach and rt_timer_control.
LEMMA WorkerPreserves ==
    ASSUME TimerInv, NEW w \in Worker,
           \/ StartTick(w) \/ StartInsert(w) \/ StopRemove(w) \/ StopClear(w)
           \/ \E t \in TimerSet : \/ rt_timer_start(w, t) \/ rt_timer_stop(w, t)
                                  \/ rt_timer_detach(w, t) \/ rt_timer_control(w, t)
    PROVE  TimerInv' /\ (Flagged => Flagged')
<1>0. /\ State \in States /\ tick \in 0..RT_TICK_MAX /\ Queued(State, tick)
      /\ State.list = list /\ State.tm = tm /\ State.due = due
      /\ pc \in [Worker -> Calls] /\ due \in [TimerSet -> Left]
      /\ tm \in [TimerSet -> TimerObject]
  BY StateTyped DEF TimerInv
<1>1. chk \in BOOLEAN /\ detached \subseteq TimerSet /\ Free \in Calls
  BY DEF TimerInv, TypeOK, Free, Calls
<1> DEFINE t == pc[w].arg
<1>2. pc[w].at # "user" => t \in TimerSet
  BY <1>0 DEF TimerInv, Hands, Calls
<1>3. pc[w].at \in {"tick", "insert", "clear"} => t \notin ToSet(State.list)
  BY <1>0 DEF TimerInv, Hands
<1>4. CASE StartTick(w)
  <2>1. /\ pc[w].at = "tick" /\ Becomes(SetTimeout(State, t))
        /\ pc' = [pc EXCEPT ![w] = [at |-> "insert", arg |-> t]]
        /\ tick' = tick /\ detached' = detached /\ chk' = chk
    BY <1>4 DEF StartTick, At, Goto
  <2>2. PICK r : r = SetTimeout(State, t)
    OBVIOUS
  <2>3. Queued(r, tick) /\ Others(State, r, t) /\ r.list = State.list /\ OnTime(r, tick, t)
    <3>1. t \in TimerSet /\ t \notin ToSet(State.list)
      BY <1>2, <1>3, <2>1
    <3> QED  BY <1>0, <2>2, <3>1, QueuedSetTimeout
  <2>4. PICK e : e = [at |-> "insert", arg |-> t]
    OBVIOUS
  <2>5. e \in Calls /\ e.arg = t /\ e.at = "insert"
    BY <1>2, <2>1, <2>4 DEF Calls
  <2>6. Becomes(r) /\ pc' = [pc EXCEPT ![w] = e]
    BY <2>1, <2>2, <2>4
  <2>20. Queued(r, tick) /\ tick' = tick /\ Becomes(r) /\ chk' \in BOOLEAN /\ detached' \subseteq TimerSet
    BY <1>1, <1>2, <1>3, <2>1, <2>3, <2>5, <2>6 DEF Touches
  <2>21. t \in TimerSet /\ Others(State, r, t) /\ ((pc[w] = Free /\ ~InHand(t)) \/ pc[w].arg = t)
    BY <1>1, <1>2, <1>3, <2>1, <2>3, <2>5, <2>6 DEF Touches
  <2>22. /\ e \in Calls /\ pc' = [pc EXCEPT ![w] = e]
         /\ e = Free \/ (e.arg = t /\ e.at # "user")
         /\ e.at = "insert" => OnTime(r, tick, t)
         /\ e.at \in {"tick", "insert", "clear"} => t \notin ToSet(r.list)
    BY <1>1, <1>2, <1>3, <2>1, <2>3, <2>5, <2>6 DEF Touches
  <2>23. Flagged => t \notin detached
    BY DEF Flagged
  <2>25. /\ detached' = detached
         /\ Flagged => (e.at \in {"user", "remove"} => (t \in ToSet(r.list) <=> r.tm[t].active))
    BY <1>1, <2>1, <2>5
  <2>26. Flagged => Flagged'
    BY <2>20, <2>21, <2>22, <2>23, <2>25, WorkerFlags
  <2>27. TimerInv'
    BY <2>20, <2>21, <2>22, WorkerStep
  <2> QED  BY <2>26, <2>27
<1>5. CASE StartInsert(w)
  <2>1. /\ pc[w].at = "insert" /\ Becomes(Inserted(State, t))
        /\ pc' = [pc EXCEPT ![w] = Free]
        /\ tick' = tick /\ detached' = detached /\ chk' = chk
    BY <1>5 DEF StartInsert, At
  <2>2. PICK r : r = Inserted(State, t)
    OBVIOUS
  <2>3. OnTime(State, tick, t)
    BY <2>1 DEF TimerInv, Hands
  <2>4. /\ Queued(r, tick) /\ ToSet(r.list) = ToSet(State.list) \cup {t} /\ r.due = State.due
        /\ r.tm[t].active /\ \A u \in TimerSet : u # t => r.tm[u] = State.tm[u]
    <3>1. t \in TimerSet /\ t \notin ToSet(State.list)
      BY <1>2, <1>3, <2>1
    <3>2. tick \in 0..RT_TICK_MAX /\ Queued(State, tick)
      BY <1>0
    <3> HIDE DEF t
    <3> QED  BY <2>2, <2>3, <3>1, <3>2, QueuedInsertion
  <2>5. Others(State, r, t)
    BY <2>4 DEF Others
  <2>6. Becomes(r)
    BY <2>1, <2>2
  <2>7. Free.at = "user"
    BY DEF Free
  <2>20. Queued(r, tick) /\ tick' = tick /\ Becomes(r) /\ chk' \in BOOLEAN /\ detached' \subseteq TimerSet
    BY <1>1, <1>2, <2>1, <2>4, <2>5, <2>6, <2>7
  <2>21. t \in TimerSet /\ Others(State, r, t) /\ ((pc[w] = Free /\ ~InHand(t)) \/ pc[w].arg = t)
    BY <1>1, <1>2, <2>1, <2>4, <2>5, <2>6, <2>7
  <2>22. /\ Free \in Calls /\ pc' = [pc EXCEPT ![w] = Free]
         /\ Free = Free \/ (Free.arg = t /\ Free.at # "user")
         /\ Free.at = "insert" => OnTime(r, tick, t)
         /\ Free.at \in {"tick", "insert", "clear"} => t \notin ToSet(r.list)
    BY <1>1, <1>2, <2>1, <2>4, <2>5, <2>6, <2>7
  <2>23. Flagged => t \notin detached
    BY DEF Flagged
  <2>25. /\ detached' = detached
         /\ Flagged => (Free.at \in {"user", "remove"} => (t \in ToSet(r.list) <=> r.tm[t].active))
    BY <2>1, <2>4
  <2>26. Flagged => Flagged'
    BY <2>20, <2>21, <2>22, <2>23, <2>25, WorkerFlags
  <2>27. TimerInv'
    BY <2>20, <2>21, <2>22, WorkerStep
  <2> QED  BY <2>26, <2>27
<1>6. CASE StopRemove(w)
  <2>1. /\ pc[w].at = "remove" /\ Becomes(Removed(State, t))
        /\ pc' = [pc EXCEPT ![w] = [at |-> "clear", arg |-> t]]
        /\ tick' = tick /\ detached' = detached /\ chk' = chk
    BY <1>6 DEF StopRemove, At, Goto
  <2>2. PICK r : r = Removed(State, t)
    OBVIOUS
  <2>3. Queued(r, tick) /\ Touches(State, r, t) /\ t \notin ToSet(r.list)
    BY <1>0, <1>2, <2>1, <2>2, SectionsQueued
  <2>4. PICK e : e = [at |-> "clear", arg |-> t]
    OBVIOUS
  <2>5. e \in Calls /\ e.arg = t /\ e.at = "clear"
    BY <1>2, <2>1, <2>4 DEF Calls
  <2>6. Becomes(r) /\ pc' = [pc EXCEPT ![w] = e]
    BY <2>1, <2>2, <2>4
  <2>20. Queued(r, tick) /\ tick' = tick /\ Becomes(r) /\ chk' \in BOOLEAN /\ detached' \subseteq TimerSet
    BY <1>1, <1>2, <2>1, <2>3, <2>5, <2>6 DEF Touches
  <2>21. t \in TimerSet /\ Others(State, r, t) /\ ((pc[w] = Free /\ ~InHand(t)) \/ pc[w].arg = t)
    BY <1>1, <1>2, <2>1, <2>3, <2>5, <2>6 DEF Touches
  <2>22. /\ e \in Calls /\ pc' = [pc EXCEPT ![w] = e]
         /\ e = Free \/ (e.arg = t /\ e.at # "user")
         /\ e.at = "insert" => OnTime(r, tick, t)
         /\ e.at \in {"tick", "insert", "clear"} => t \notin ToSet(r.list)
    BY <1>1, <1>2, <2>1, <2>3, <2>5, <2>6 DEF Touches
  <2>23. Flagged => t \notin detached
    BY DEF Flagged
  <2>25. /\ detached' = detached
         /\ Flagged => (e.at \in {"user", "remove"} => (t \in ToSet(r.list) <=> r.tm[t].active))
    BY <2>1, <2>5
  <2>26. Flagged => Flagged'
    BY <2>20, <2>21, <2>22, <2>23, <2>25, WorkerFlags
  <2>27. TimerInv'
    BY <2>20, <2>21, <2>22, WorkerStep
  <2> QED  BY <2>26, <2>27
<1>7. CASE StopClear(w)
  <2>1. /\ pc[w].at = "clear" /\ tm' = [tm EXCEPT ![t].active = FALSE]
        /\ pc' = [pc EXCEPT ![w] = Free]
        /\ list' = list /\ due' = due
        /\ tick' = tick /\ detached' = detached /\ chk' = chk
    BY <1>7 DEF StopClear, At
  <2>2. PICK r : r = WithFlag(State, t, FALSE)
    OBVIOUS
  <2>3. Queued(r, tick) /\ Touches(State, r, t) /\ r.list = State.list /\ ~r.tm[t].active
    BY <1>0, <1>2, <2>1, <2>2, SectionsQueued
  <2>4. Becomes(r)
    BY <2>1, <2>2 DEF Becomes, WithFlag, State
  <2>7. Free.at = "user"
    BY DEF Free
  <2>20. Queued(r, tick) /\ tick' = tick /\ Becomes(r) /\ chk' \in BOOLEAN /\ detached' \subseteq TimerSet
    BY <1>1, <1>2, <2>1, <2>3, <2>4, <2>7 DEF Touches
  <2>21. t \in TimerSet /\ Others(State, r, t) /\ ((pc[w] = Free /\ ~InHand(t)) \/ pc[w].arg = t)
    BY <1>1, <1>2, <2>1, <2>3, <2>4, <2>7 DEF Touches
  <2>22. /\ Free \in Calls /\ pc' = [pc EXCEPT ![w] = Free]
         /\ Free = Free \/ (Free.arg = t /\ Free.at # "user")
         /\ Free.at = "insert" => OnTime(r, tick, t)
         /\ Free.at \in {"tick", "insert", "clear"} => t \notin ToSet(r.list)
    BY <1>1, <1>2, <2>1, <2>3, <2>4, <2>7 DEF Touches
  <2>23. Flagged => t \notin detached
    BY DEF Flagged
  <2>25. /\ detached' = detached
         /\ Flagged => (Free.at \in {"user", "remove"} => (t \in ToSet(r.list) <=> r.tm[t].active))
    BY <2>1, <2>3, <1>3
  <2>26. Flagged => Flagged'
    BY <2>20, <2>21, <2>22, <2>23, <2>25, WorkerFlags
  <2>27. TimerInv'
    BY <2>20, <2>21, <2>22, WorkerStep
  <2> QED  BY <2>26, <2>27
<1>8. ASSUME NEW u \in TimerSet, rt_timer_start(w, u) PROVE TimerInv' /\ (Flagged => Flagged')
  <2>1. /\ pc[w] = Free /\ ~InHand(u) /\ Becomes(WithFlag(Removed(State, u), u, FALSE))
        /\ pc' = [pc EXCEPT ![w] = [at |-> "tick", arg |-> u]]
        /\ tick' = tick /\ detached' = detached /\ chk' = chk
    BY <1>8 DEF rt_timer_start, Idle, Goto, WithFlag
  <2>2. PICK r : r = WithFlag(Removed(State, u), u, FALSE)
    OBVIOUS
  <2>3. Queued(r, tick) /\ Touches(State, r, u) /\ u \notin ToSet(r.list)
    BY <1>0, <2>1, <2>2, SectionsQueued
  <2>4. PICK e : e = [at |-> "tick", arg |-> u]
    OBVIOUS
  <2>5. e \in Calls /\ e.arg = u /\ e.at = "tick"
    BY <2>4 DEF Calls
  <2>6. Becomes(r) /\ pc' = [pc EXCEPT ![w] = e]
    BY <2>1, <2>2, <2>4
  <2>20. Queued(r, tick) /\ tick' = tick /\ Becomes(r) /\ chk' \in BOOLEAN /\ detached' \subseteq TimerSet
    BY <1>1, <2>1, <2>3, <2>5, <2>6 DEF Touches
  <2>21. u \in TimerSet /\ Others(State, r, u) /\ ((pc[w] = Free /\ ~InHand(u)) \/ pc[w].arg = u)
    BY <1>1, <2>1, <2>3, <2>5, <2>6 DEF Touches
  <2>22. /\ e \in Calls /\ pc' = [pc EXCEPT ![w] = e]
         /\ e = Free \/ (e.arg = u /\ e.at # "user")
         /\ e.at = "insert" => OnTime(r, tick, u)
         /\ e.at \in {"tick", "insert", "clear"} => u \notin ToSet(r.list)
    BY <1>1, <2>1, <2>3, <2>5, <2>6 DEF Touches
  <2>23. u \notin detached
    BY <1>8 DEF rt_timer_start, Idle
  <2>25. /\ detached' = detached
         /\ Flagged => (e.at \in {"user", "remove"} => (u \in ToSet(r.list) <=> r.tm[u].active))
    BY <2>1, <2>5
  <2>26. Flagged => Flagged'
    BY <2>20, <2>21, <2>22, <2>23, <2>25, WorkerFlags
  <2>27. TimerInv'
    BY <2>20, <2>21, <2>22, WorkerStep
  <2> QED  BY <2>26, <2>27
<1>9. ASSUME NEW u \in TimerSet, rt_timer_stop(w, u) PROVE TimerInv' /\ (Flagged => Flagged')
  <2>1. /\ pc[w] = Free /\ ~InHand(u) /\ list' = list /\ tm' = tm /\ due' = due
        /\ pc' = [pc EXCEPT ![w] = [at |-> "remove", arg |-> u]]
        /\ tick' = tick /\ detached' = detached /\ chk' = chk
    BY <1>9 DEF rt_timer_stop, Idle, Goto
  <2>2. PICK r : r = State
    OBVIOUS
  <2>3. Queued(r, tick) /\ Others(State, r, u)
    BY <1>0, <2>2 DEF Others
  <2>4. PICK e : e = [at |-> "remove", arg |-> u]
    OBVIOUS
  <2>5. e \in Calls /\ e.arg = u /\ e.at = "remove"
    BY <2>4 DEF Calls
  <2>6. Becomes(r) /\ pc' = [pc EXCEPT ![w] = e]
    BY <1>0, <2>1, <2>2, <2>4 DEF Becomes
  <2>20. Queued(r, tick) /\ tick' = tick /\ Becomes(r) /\ chk' \in BOOLEAN /\ detached' \subseteq TimerSet
    BY <1>1, <2>1, <2>3, <2>5, <2>6
  <2>21. u \in TimerSet /\ Others(State, r, u) /\ ((pc[w] = Free /\ ~InHand(u)) \/ pc[w].arg = u)
    BY <1>1, <2>1, <2>3, <2>5, <2>6
  <2>22. /\ e \in Calls /\ pc' = [pc EXCEPT ![w] = e]
         /\ e = Free \/ (e.arg = u /\ e.at # "user")
         /\ e.at = "insert" => OnTime(r, tick, u)
         /\ e.at \in {"tick", "insert", "clear"} => u \notin ToSet(r.list)
    BY <1>1, <2>1, <2>3, <2>5, <2>6
  <2>23. u \notin detached
    BY <1>9 DEF rt_timer_stop, Idle
  <2>24. Flagged => (u \in ToSet(State.list) <=> State.tm[u].active)
    BY <1>0, <2>1, <2>23 DEF Flagged, InHand
  <2>25. /\ detached' = detached
         /\ Flagged => (e.at \in {"user", "remove"} => (u \in ToSet(r.list) <=> r.tm[u].active))
    BY <1>0, <2>1, <2>2, <2>5, <2>24
  <2>26. Flagged => Flagged'
    BY <2>20, <2>21, <2>22, <2>23, <2>25, WorkerFlags
  <2>27. TimerInv'
    BY <2>20, <2>21, <2>22, WorkerStep
  <2> QED  BY <2>26, <2>27
<1>10. ASSUME NEW u \in TimerSet, rt_timer_detach(w, u) PROVE TimerInv' /\ (Flagged => Flagged')
  <2>1. /\ pc[w] = Free /\ ~InHand(u) /\ Becomes(Removed(State, u))
        /\ pc' = pc /\ tick' = tick /\ detached' = detached \cup {u} /\ chk' = chk
    BY <1>10 DEF rt_timer_detach, Idle
  <2>2. PICK r : r = Removed(State, u)
    OBVIOUS
  <2>3. Queued(r, tick) /\ Touches(State, r, u) /\ u \notin ToSet(r.list)
    BY <1>0, <2>1, <2>2, SectionsQueued
  <2>4. pc' = [pc EXCEPT ![w] = Free] /\ Free.at = "user"
    BY <1>0, <2>1 DEF Free
  <2>5. Becomes(r) /\ detached' \subseteq TimerSet
    BY <1>1, <2>1, <2>2
  <2>20. Queued(r, tick) /\ tick' = tick /\ Becomes(r) /\ chk' \in BOOLEAN /\ detached' \subseteq TimerSet
    BY <1>1, <2>1, <2>3, <2>4, <2>5 DEF Touches
  <2>21. u \in TimerSet /\ Others(State, r, u) /\ ((pc[w] = Free /\ ~InHand(u)) \/ pc[w].arg = u)
    BY <1>1, <2>1, <2>3, <2>4, <2>5 DEF Touches
  <2>22. /\ Free \in Calls /\ pc' = [pc EXCEPT ![w] = Free]
         /\ Free = Free \/ (Free.arg = u /\ Free.at # "user")
         /\ Free.at = "insert" => OnTime(r, tick, u)
         /\ Free.at \in {"tick", "insert", "clear"} => u \notin ToSet(r.list)
    BY <1>1, <2>1, <2>3, <2>4, <2>5 DEF Touches
  <2>23. u \notin detached
    BY <1>10 DEF rt_timer_detach, Idle
  <2>25. detached' = detached \cup {u} /\ Free = Free /\ pc[w] = Free /\ ~InHand(u) /\ u \notin ToSet(r.list)
    BY <2>1, <2>3
  <2>26. Flagged => Flagged'
    BY <2>20, <2>21, <2>22, <2>23, <2>25, WorkerFlags
  <2>27. TimerInv'
    BY <2>20, <2>21, <2>22, WorkerStep
  <2> QED  BY <2>26, <2>27
<1>11. ASSUME NEW u \in TimerSet, rt_timer_control(w, u) PROVE TimerInv' /\ (Flagged => Flagged')
  <2>1. /\ pc[w] = Free /\ ~InHand(u) /\ list' = list /\ due' = due
        /\ pc' = pc /\ tick' = tick /\ detached' = detached /\ chk' = chk
    BY <1>11 DEF rt_timer_control, Idle
  <2>2. /\ tm' \in [TimerSet -> TimerObject]
        /\ \A v \in TimerSet : v # u => tm'[v] = tm[v]
        /\ tm'[u].timeout_tick = tm[u].timeout_tick /\ tm'[u].active = tm[u].active
    BY <1>0, <1>11 DEF rt_timer_control, TimerObject
  <2>3. PICK r : r = [list |-> list', tm |-> tm', due |-> due']
    OBVIOUS
  <2>4. Becomes(r) /\ r.list = State.list /\ r.due = State.due /\ r.tm = tm'
    BY <1>0, <2>1, <2>3 DEF Becomes
  <2>5. r \in States
    BY <1>0, <2>1, <2>2, <2>3 DEF States
  <2>6. \A v \in ToSet(State.list) : v \in TimerSet
    BY <1>0 DEF ToSet, States
  <2>7. Queued(r, tick)
    BY <1>0, <2>2, <2>4, <2>5, <2>6, QueuedStays
  <2>8. Others(State, r, u)
    BY <1>0, <2>2, <2>4 DEF Others
  <2>9. pc' = [pc EXCEPT ![w] = Free] /\ Free.at = "user"
    BY <1>0, <2>1 DEF Free
  <2>20. Queued(r, tick) /\ tick' = tick /\ Becomes(r) /\ chk' \in BOOLEAN /\ detached' \subseteq TimerSet
    BY <1>1, <2>1, <2>4, <2>7, <2>8, <2>9
  <2>21. u \in TimerSet /\ Others(State, r, u) /\ ((pc[w] = Free /\ ~InHand(u)) \/ pc[w].arg = u)
    BY <1>1, <2>1, <2>4, <2>7, <2>8, <2>9
  <2>22. /\ Free \in Calls /\ pc' = [pc EXCEPT ![w] = Free]
         /\ Free = Free \/ (Free.arg = u /\ Free.at # "user")
         /\ Free.at = "insert" => OnTime(r, tick, u)
         /\ Free.at \in {"tick", "insert", "clear"} => u \notin ToSet(r.list)
    BY <1>1, <2>1, <2>4, <2>7, <2>8, <2>9
  <2>23. u \notin detached
    BY <1>11 DEF rt_timer_control, Idle
  <2>24. Flagged => (u \in ToSet(State.list) <=> State.tm[u].active)
    BY <1>0, <2>1, <2>23 DEF Flagged, InHand
  <2>25. /\ detached' = detached
         /\ Flagged => (Free.at \in {"user", "remove"} => (u \in ToSet(r.list) <=> r.tm[u].active))
    BY <1>0, <2>1, <2>2, <2>4, <2>24
  <2>26. Flagged => Flagged'
    BY <2>20, <2>21, <2>22, <2>23, <2>25, WorkerFlags
  <2>27. TimerInv'
    BY <2>20, <2>21, <2>22, WorkerStep
  <2> QED  BY <2>26, <2>27
<1> QED  BY <1>4, <1>5, <1>6, <1>7, <1>8, <1>9, <1>10, <1>11

\* The clock tick moves every timer that counts one tick closer.
LEMMA TickPreserves ==
    ASSUME TimerInv, rt_tick_increase
    PROVE  TimerInv'
<1>0. /\ State \in States /\ tick \in 0..RT_TICK_MAX /\ list \in Seq(TimerSet)
      /\ State.list = list /\ State.tm = tm /\ State.due = due
      /\ pc \in [Worker -> Calls] /\ due \in [TimerSet -> Left]
      /\ tm \in [TimerSet -> TimerObject] /\ ToSet(list) \subseteq TimerSet
  BY StateTyped
<1>1. /\ \A t \in TimerSet : Counting(t) => due[t] > -MaxLate
      /\ tick' = Wrap(tick + 1) /\ chk' = TRUE
      /\ due' = [t \in TimerSet |-> IF Counting(t) THEN due[t] - 1 ELSE 0]
      /\ list' = list /\ tm' = tm /\ detached' = detached /\ pc' = pc
  BY DEF rt_tick_increase
<1>2. \A t \in ToSet(list) : Counting(t)
  BY <1>0, ContainsIsToSet DEF Counting, Listed
<1>3. \A v \in Worker : pc[v].at = "insert" => pc[v].arg \in TimerSet /\ Counting(pc[v].arg)
  BY <1>0 DEF Counting, TimerInv, Hands, Calls
<1>4. ASSUME NEW t \in TimerSet, Counting(t)
      PROVE  due[t] \in Left /\ due[t] - 1 \in Left /\ due'[t] = due[t] - 1
  <2>1. due[t] \in Left /\ due[t] > -MaxLate
    BY <1>0, <1>1, <1>4
  <2>2. due[t] - 1 \in Left
    BY <2>1, TickRange DEF Left
  <2> QED  BY <1>1, <1>4, <2>1, <2>2
<1>5. due' \in [TimerSet -> Left]
  <2>1. 0 \in Left
    BY TickRange DEF Left
  <2> QED  BY <1>1, <1>4, <2>1
<1>6. tick' \in 0..RT_TICK_MAX
  <2>1. 0 \in Left /\ 1 - 1 = 0
    BY TickRange DEF Left
  <2>2. CASE 1 \in Left
    BY <1>0, <1>1, <2>1, <2>2, TickShifts
  <2>3. CASE 1 \notin Left
    <3>1. MaxInit = 0
      BY <2>3, TickRange DEF Left
    <3>2. TickMod \in Nat \ {0} /\ RT_TICK_MAX = TickMod - 1
      BY TickRange
    <3> QED  BY <1>0, <1>1, <3>2 DEF Wrap
  <2> QED  BY <2>2, <2>3
<1>7. TypeOK'
  BY <1>0, <1>1, <1>5, <1>6 DEF TypeOK, TimerInv, Left
<1>8. PICK r : r = [list |-> list', tm |-> tm', due |-> due']
  OBVIOUS
<1>9. /\ State' = r /\ r \in States /\ r.list = list /\ r.tm = tm /\ r.due = due'
  BY <1>0, <1>1, <1>5, <1>8 DEF State, States
<1>10. ASSUME NEW t \in TimerSet, Counting(t), OnTime(State, tick, t)
       PROVE  OnTime(r, tick', t)
  <2>1. tm[t].timeout_tick = Wrap(tick + due[t])
    BY <1>0, <1>10 DEF OnTime
  <2>2. Wrap(Wrap(tick + 1) + (due[t] - 1)) = Wrap(tick + due[t])
    BY <1>0, <1>4, <1>10, TickShifts
  <2> QED  BY <1>1, <1>4, <1>9, <1>10, <2>1, <2>2 DEF OnTime
<1>11. Ordered(list, due')
  <2> SUFFICES ASSUME NEW i \in DOMAIN list, NEW j \in DOMAIN list, i < j
               PROVE  due'[list[i]] <= due'[list[j]]
    BY DEF Ordered
  <2>1. list[i] \in ToSet(list) /\ list[j] \in ToSet(list)
    BY DEF ToSet
  <2>2. due[list[i]] <= due[list[j]]
    BY <1>0 DEF TimerInv, Queued, Ordered
  <2>3. /\ due'[list[i]] = due[list[i]] - 1 /\ due[list[i]] \in Left
        /\ due'[list[j]] = due[list[j]] - 1 /\ due[list[j]] \in Left
    BY <1>0, <1>2, <1>4, <2>1
  <2> QED  BY <2>2, <2>3, TickRange
<1>12. Queued(r, tick')
  <2>1. IsInjective(list) /\ \A t \in ToSet(list) : OnTime(State, tick, t)
    BY <1>0 DEF TimerInv, Queued
  <2>2. \A t \in ToSet(list) : OnTime(r, tick', t)
    BY <1>0, <1>2, <1>10, <2>1
  <2> QED  BY <1>9, <1>11, <2>1, <2>2 DEF Queued
<1>13. \A v \in Worker : pc[v].at = "insert" => OnTime(r, tick', pc[v].arg)
  BY <1>3, <1>10 DEF TimerInv, Hands
<1>14. Hands'
  BY <1>1, <1>9, <1>13 DEF TimerInv, Hands
<1>15. Queued(State', tick')
  BY <1>9, <1>12
<1> QED  BY <1>7, <1>14, <1>15 DEF TimerInv

\* The head of the list is due exactly when it has expired.
LEMMA HeadDueIsPast ==
    ASSUME TimerInv, list # <<>>
    PROVE  /\ HeadDue <=> due[Head(list)] <= 0
           /\ Head(list) \in TimerSet /\ Head(list) \in ToSet(list)
           /\ \A t \in ToSet(list) : due[Head(list)] <= due[t]
<1>0. /\ tick \in 0..RT_TICK_MAX /\ list \in Seq(TimerSet) /\ due \in [TimerSet -> Left]
      /\ State.list = list /\ State.tm = tm /\ State.due = due
  BY StateTyped
<1>1. Head(list) \in ToSet(list) /\ Head(list) \in TimerSet
  BY <1>0, HeadTailSet
<1>2. tm[Head(list)].timeout_tick = Wrap(tick + due[Head(list)]) /\ due[Head(list)] \in Left
  BY <1>0, <1>1 DEF TimerInv, Queued, OnTime
<1>3. HeadDue <=> due[Head(list)] <= 0
  BY <1>0, <1>2, DueIsPast DEF HeadDue
<1>4. ASSUME NEW t \in ToSet(list) PROVE due[Head(list)] <= due[t]
  <2>1. PICK i \in DOMAIN list : t = list[i]
    BY DEF ToSet
  <2>2. Head(list) = list[1] /\ 1 \in DOMAIN list /\ DOMAIN list \subseteq Nat \ {0}
    BY <1>0
  <2>3. i = 1 \/ 1 < i
    BY <2>1, <2>2
  <2>4. 1 < i => due[list[1]] <= due[list[i]]
    BY <1>0, <2>1, <2>2 DEF TimerInv, Queued, Ordered
  <2>5. due[Head(list)] \in Int
    BY <1>2, TickRange
  <2> QED  BY <2>1, <2>2, <2>3, <2>4, <2>5
<1> QED  BY <1>1, <1>3, <1>4

\* One iteration of rt_timer_check: the head t is taken off (a), its timeout
\* function is called (b), a periodic timer restarts (r).
LEMMA FireStates ==
    ASSUME TimerInv, NEW op \in Ops, NEW u \in TimerSet, Fire(op, u),
           NEW t, t = Head(list), NEW a, a = Removed(State, t),
           NEW b, b = Call(a, op, u), NEW r, r = Expired(b, t)
    PROVE  /\ t \in TimerSet /\ t \in ToSet(list) /\ due[t] <= 0
           /\ Queued(a, tick) /\ ToSet(a.list) = ToSet(list) \ {t}
           /\ Others(State, a, t) /\ a.tm[t].active = tm[t].active
           /\ Queued(b, tick) /\ Touches(a, b, u) /\ (op = "none" => b = a)
           /\ Queued(r, tick) /\ Touches(b, r, t) /\ Becomes(r)
           /\ (op # "none" => ~InHand(u)) /\ u \notin detached
           /\ tick' = tick /\ chk' = chk /\ pc' = pc /\ detached' \subseteq TimerSet
<1>0. /\ Queued(State, tick) /\ State.list = list /\ State.tm = tm /\ State.due = due
      /\ tick \in 0..RT_TICK_MAX
  BY StateTyped DEF TimerInv
<1>1. /\ list # <<>> /\ HeadDue /\ Becomes(r) /\ (op # "none" => ~InHand(u)) /\ u \notin detached
      /\ tick' = tick /\ chk' = chk /\ pc' = pc
      /\ detached' = IF op = "detach" THEN detached \cup {u} ELSE detached
  BY DEF Fire, HeadDue
<1>2. t \in TimerSet /\ t \in ToSet(list) /\ due[t] <= 0
  BY <1>1, HeadDueIsPast
<1>3. Queued(a, tick)
  BY <1>0, <1>2, QueuedRemoved
<1>4. ToSet(a.list) = ToSet(State.list) \ {t}
  BY <1>0, <1>2, QueuedRemoved
<1>5. \A v \in TimerSet : v # t => a.due[v] = State.due[v] /\ a.tm[v] = State.tm[v]
  BY <1>0, <1>2, QueuedRemoved
<1>6. a.tm[t].active = State.tm[t].active
  BY <1>0, <1>2, QueuedRemoved
<1>7. Others(State, a, t)
  BY <1>4, <1>5 DEF Others
<1>8. Queued(b, tick) /\ Touches(a, b, u) /\ (op = "none" => b = a)
  BY <1>0, <1>3, QueuedCall
<1>9. Queued(r, tick) /\ Touches(b, r, t)
  BY <1>0, <1>2, <1>8, QueuedExpired
<1>10. detached' \subseteq TimerSet
  BY <1>1 DEF TimerInv, TypeOK
<1> QED  BY <1>0, <1>1, <1>2, <1>3, <1>4, <1>6, <1>7, <1>8, <1>9, <1>10

\* The check keeps the list in order, and the timers that calls are about alone.
LEMMA FirePreserves ==
    ASSUME TimerInv, NEW op \in Ops, NEW u \in TimerSet, Fire(op, u)
    PROVE  TimerInv'
<1>1. PICK t : t = Head(list)
  OBVIOUS
<1>2. PICK a : a = Removed(State, t)
  OBVIOUS
<1>3. PICK b : b = Call(a, op, u)
  OBVIOUS
<1>4. PICK r : r = Expired(b, t)
  OBVIOUS
<1>5. /\ t \in TimerSet /\ t \in ToSet(list)
      /\ ToSet(a.list) = ToSet(list) \ {t} /\ Others(State, a, t)
      /\ Touches(a, b, u) /\ (op = "none" => b = a) /\ Touches(b, r, t)
      /\ Queued(r, tick) /\ Becomes(r) /\ (op # "none" => ~InHand(u))
      /\ tick' = tick /\ chk' = chk /\ pc' = pc /\ detached' \subseteq TimerSet
  BY <1>1, <1>2, <1>3, <1>4, FireStates
<1>6. /\ pc \in [Worker -> Calls] /\ tick \in 0..RT_TICK_MAX /\ State.list = list
      /\ chk \in BOOLEAN
  BY StateTyped DEF TimerInv, TypeOK
<1>7. TypeOK' /\ Queued(State', tick') /\ State' = r
  BY <1>5, <1>6, StateBecomes
<1>8. ASSUME NEW v \in Worker, pc[v].at \in {"tick", "insert", "clear"}
      PROVE  /\ pc[v].arg \notin ToSet(r.list)
             /\ pc[v].at = "insert" => OnTime(r, tick, pc[v].arg)
  <2> DEFINE x == pc[v].arg
  <2>1. x \in TimerSet /\ x \notin ToSet(list) /\ x # t
    BY <1>5, <1>6, <1>8 DEF TimerInv, Hands, Calls
  <2>2. op # "none" => x # u
    BY <1>5 DEF InHand
  <2>3. pc[v].at = "insert" => OnTime(State, tick, x)
    BY DEF TimerInv, Hands
  <2> HIDE DEF x
  <2>4. x \notin ToSet(a.list) /\ a.tm[x] = State.tm[x] /\ a.due[x] = State.due[x]
    BY <1>5, <2>1 DEF Others
  <2>5. x \notin ToSet(b.list) /\ b.tm[x] = a.tm[x] /\ b.due[x] = a.due[x]
    BY <1>5, <2>1, <2>2, <2>4 DEF Touches, Others
  <2>6. x \notin ToSet(r.list) /\ r.tm[x] = b.tm[x] /\ r.due[x] = b.due[x]
    BY <1>5, <2>1, <2>5 DEF Touches, Others
  <2>7. OnTime(State, tick, x) => OnTime(r, tick, x)
    BY <2>4, <2>5, <2>6 DEF OnTime
  <2> QED  BY <2>3, <2>6, <2>7 DEF x
<1>9. list' = r.list
  BY <1>5 DEF Becomes
<1>10. Hands'
  BY <1>5, <1>7, <1>8, <1>9 DEF TimerInv, Hands
<1> QED  BY <1>7, <1>10 DEF TimerInv

\* A state in which nothing but the progress of the check changes.
LEMMA CheckDonePreserves ==
    ASSUME TimerInv, CheckDone \/ UNCHANGED vars
    PROVE  TimerInv'
<1>1. /\ tick' = tick /\ list' = list /\ tm' = tm /\ detached' = detached /\ pc' = pc
      /\ due' = due /\ chk' \in BOOLEAN
  BY DEF CheckDone, vars, TimerInv, TypeOK
<1>2. TypeOK'
  BY <1>1 DEF TimerInv, TypeOK
<1>3. State' = State
  BY <1>1 DEF State
<1> QED  BY <1>1, <1>2, <1>3 DEF TimerInv, Hands

\* Initially the list is empty.
LEMMA InitTimer == Init => TimerInv
<1> SUFFICES ASSUME Init PROVE TimerInv
  OBVIOUS
<1>0. 0 \in Left /\ 0 \in 0..RT_TICK_MAX
  BY TickRange DEF Left
<1>1. TypeOK
  <2>1. tm \in [TimerSet -> TimerObject]
    BY <1>0 DEF Init, TimerObject
  <2>2. pc \in [Worker -> Calls]
    BY DEF Init, Free, Calls
  <2>3. due \in [TimerSet -> Left]
    BY <1>0 DEF Init
  <2>4. tick \in 0..RT_TICK_MAX /\ list \in Seq(TimerSet) /\ detached \subseteq TimerSet
    BY <1>0 DEF Init
  <2>5. chk \in BOOLEAN
    BY DEF Init
  <2> QED  BY <2>1, <2>2, <2>3, <2>4, <2>5 DEF TypeOK, TimerObject, Calls, Left
<1>2. State \in States /\ State.list = <<>>
  BY <1>1, <1>0 DEF TypeOK, Init, State, States, TimerObject, Left
<1>3. IsInjective(<<>>) /\ ToSet(<<>>) = {} /\ \A f : Ordered(<<>>, f)
  BY DEF IsInjective, ToSet, Ordered
<1>4. Queued(State, tick)
  BY <1>2, <1>3 DEF Queued
<1>5. Hands
  BY DEF Init, Hands, Free
<1> QED  BY <1>1, <1>4, <1>5 DEF TimerInv

-----------------------------------------------------------------------------
(* The theorems.                                                           *)

\* Every reachable state satisfies the invariant: the list is in the order of
\* the true times left, and the tick counts in it agree with them.
THEOREM TimerInvariance == Spec => []TimerInv
<1>1. TimerInv /\ [Next]_vars => TimerInv'
  <2> SUFFICES ASSUME TimerInv, [Next]_vars PROVE TimerInv'
    OBVIOUS
  <2>1. CASE rt_tick_increase
    BY <2>1, TickPreserves
  <2>2. CASE Check
    <3>1. CASE CheckDone
      BY <3>1, CheckDonePreserves
    <3>2. ASSUME NEW t \in TimerSet, NEW op \in Ops, Fire(op, t) PROVE TimerInv'
      BY <3>2, FirePreserves
    <3> QED  BY <2>2, <3>1, <3>2 DEF Check, Ops
  <2>3. ASSUME NEW w \in Worker,
               \/ StartTick(w) \/ StartInsert(w) \/ StopRemove(w) \/ StopClear(w)
               \/ \E t \in TimerSet : \/ rt_timer_start(w, t) \/ rt_timer_stop(w, t)
                                      \/ rt_timer_detach(w, t) \/ rt_timer_control(w, t)
        PROVE  TimerInv'
    BY <2>3, WorkerPreserves, Zenon
  <2>4. CASE UNCHANGED vars
    BY <2>4, CheckDonePreserves
  <2> QED  BY <2>1, <2>2, <2>3, <2>4 DEF Next
<1> QED  BY <1>1, InitTimer, PTL DEF Spec

\* The order of rt_timer_list, across the wrap of the tick.
THEOREM SortedInvariance == Spec => []Sorted
<1>1. TimerInv => Sorted
  BY StateTyped DEF TimerInv, Queued, Ordered, Sorted
<1> QED  BY <1>1, TimerInvariance, PTL

\* rt_timer_check takes for due what has expired and leaves nothing expired behind.
THEOREM FiresOnTimeInvariance == Spec => []FiresOnTime
<1>1. TimerInv => FiresOnTime
  <2> SUFFICES ASSUME TimerInv PROVE FiresOnTime
    OBVIOUS
  <2>1. CASE list = <<>>
    BY <2>1 DEF FiresOnTime, HeadDue, ToSet
  <2>2. CASE list # <<>>
    <3>1. due[Head(list)] \in Int /\ \A t \in ToSet(list) : due[t] \in Int
      BY <2>2, StateTyped, HeadDueIsPast, TickRange
    <3> QED  BY <2>2, <3>1, HeadDueIsPast DEF FiresOnTime
  <2> QED  BY <2>1, <2>2
<1> QED  BY <1>1, TimerInvariance, PTL

\* The nodes of a list whose members are in T are as many as those members.
LEMMA CountedByMembers ==
    ASSUME NEW S, NEW l \in Seq(S), IsInjective(l), NEW T
    PROVE  /\ IsFiniteSet(ToSet(l) \cap T)
           /\ Cardinality({i \in DOMAIN l : l[i] \in T}) = Cardinality(ToSet(l) \cap T)
<1> DEFINE I == {i \in DOMAIN l : l[i] \in T}
           M == ToSet(l) \cap T
           f == [i \in I |-> l[i]]
<1>1. IsFiniteSet(ToSet(l)) /\ M \subseteq ToSet(l)
  BY LenIsCardinality
<1>2. IsFiniteSet(M)
  BY <1>1, FS_Subset, Zenon
<1>3. f \in Bijection(I, M)
  BY DEF Bijection, Injection, Surjection, IsInjective, ToSet
<1> HIDE DEF f, I, M
<1>4. ExistsBijection(I, M)
  BY <1>3 DEF ExistsBijection
<1>5. IsFiniteSet(I)
  <2>1. 1 \in Int /\ Len(l) \in Int /\ I \subseteq 1..Len(l)
    BY DEF I
  <2>2. IsFiniteSet(1..Len(l))
    BY <2>1, FS_Interval
  <2> QED  BY <2>1, <2>2, FS_Subset, Zenon
<1>6. Cardinality(I) = Cardinality(M)
  BY <1>4, <1>5, FS_Bijection, Zenon
<1> QED  BY <1>2, <1>6 DEF I, M

\* The expired timers that are listed.
Past == {t \in TimerSet : due[t] <= 0}

\* A call of a timeout function takes one expired timer off the list and adds
\* none: what it starts expires later.
LEMMA FireProgress ==
    ASSUME TimerInv, NEW op \in Ops, NEW u \in TimerSet, Fire(op, u)
    PROVE  /\ ToSet(list') \cap Past' \subseteq ToSet(list) \cap Past
           /\ ToSet(list') \cap Past' # ToSet(list) \cap Past
<1>1. PICK t : t = Head(list)
  OBVIOUS
<1>2. PICK a : a = Removed(State, t)
  OBVIOUS
<1>3. PICK b : b = Call(a, op, u)
  OBVIOUS
<1>4. PICK r : r = Expired(b, t)
  OBVIOUS
<1>5. /\ t \in TimerSet /\ t \in ToSet(list) /\ due[t] <= 0
      /\ ToSet(a.list) = ToSet(list) \ {t} /\ Others(State, a, t)
      /\ Touches(a, b, u) /\ Touches(b, r, t) /\ Becomes(r) /\ Queued(r, tick)
  BY <1>1, <1>2, <1>3, <1>4, FireStates
<1>6. State.due = due /\ State.list = list
  BY StateTyped
<1>7. list' = r.list /\ due' = r.due
  BY <1>5 DEF Becomes
<1>8. r \in States /\ b \in States /\ a \in States
  <2>1. Queued(a, tick) /\ Queued(b, tick)
    BY <1>1, <1>2, <1>3, <1>4, FireStates
  <2> QED  BY <1>5, <2>1 DEF Queued
<1>9. \A x \in TimerSet : a.due[x] \in Int /\ b.due[x] \in Int /\ r.due[x] \in Int
  <2>1. \A x \in TimerSet : a.due[x] \in Left /\ b.due[x] \in Left /\ r.due[x] \in Left
    BY <1>8 DEF States
  <2> QED  BY <2>1, TickRange
<1>10. ASSUME NEW x \in TimerSet, x \in ToSet(r.list), r.due[x] <= 0
       PROVE  x \in ToSet(b.list) /\ b.due[x] <= 0
  BY <1>5, <1>9, <1>10 DEF Touches, Others
<1>11. ASSUME NEW x \in TimerSet, x \in ToSet(b.list), b.due[x] <= 0
       PROVE  x \in ToSet(a.list) /\ a.due[x] <= 0
  BY <1>5, <1>9, <1>11 DEF Touches, Others
<1>12. ASSUME NEW x \in TimerSet, x \in ToSet(a.list), a.due[x] <= 0
       PROVE  x \in ToSet(list) /\ due[x] <= 0 /\ x # t
  BY <1>5, <1>6, <1>12 DEF Others
<1>13. ASSUME NEW x \in ToSet(list') \cap Past'
       PROVE  x \in ToSet(list) \cap Past /\ x # t
  <2>1. x \in TimerSet /\ x \in ToSet(r.list) /\ r.due[x] <= 0
    BY <1>7, <1>13 DEF Past
  <2>2. x \in ToSet(list) /\ due[x] <= 0 /\ x # t
    BY <2>1, <1>10, <1>11, <1>12
  <2> QED  BY <2>1, <2>2 DEF Past
<1>14. t \in ToSet(list) \cap Past
  BY <1>5 DEF Past
<1> QED  BY <1>13, <1>14

\* The tick handler comes to an end for every set of timeout functions, those
\* that restart their own timer included.
THEOREM CheckTerminatesProperty == Spec => CheckTerminates
<1>1. TimerInv => Due = Cardinality(ToSet(list) \cap Past) /\ IsFiniteSet(ToSet(list) \cap Past)
  <2> SUFFICES ASSUME TimerInv
               PROVE  Due = Cardinality(ToSet(list) \cap Past) /\ IsFiniteSet(ToSet(list) \cap Past)
    OBVIOUS
  <2>1. list \in Seq(TimerSet) /\ IsInjective(list)
    BY StateTyped DEF TimerInv, Queued
  <2>2. {i \in DOMAIN list : due[list[i]] <= 0} = {i \in DOMAIN list : list[i] \in Past}
    BY <2>1 DEF Past
  <2>3. /\ Cardinality({i \in DOMAIN list : list[i] \in Past}) = Cardinality(ToSet(list) \cap Past)
        /\ IsFiniteSet(ToSet(list) \cap Past)
    BY <2>1, CountedByMembers, Zenon
  <2> QED  BY <2>2, <2>3 DEF Due
<1>2. TimerInv' => (Due = Cardinality(ToSet(list) \cap Past) /\ IsFiniteSet(ToSet(list) \cap Past))'
  BY <1>1, PTL
<1>3. TimerInv /\ TimerInv' /\ [Next]_vars => [chk /\ chk' => Due' < Due]_vars
  <2> SUFFICES ASSUME TimerInv, TimerInv', Next, chk, chk' PROVE Due' < Due
    BY DEF vars
  <2>1. \E op \in Ops : \E u \in TimerSet : Fire(op, u)
    BY DEF Next, rt_tick_increase, Check, CheckDone, StartTick, StartInsert, StopRemove, StopClear,
           At, rt_timer_start, rt_timer_stop, rt_timer_detach, rt_timer_control, Idle, Ops
  <2>2. PICK op \in Ops, u \in TimerSet : Fire(op, u)
    BY <2>1
  <2> DEFINE A == ToSet(list) \cap Past
             B == ToSet(list') \cap Past'
  <2>3. B \subseteq A /\ B # A
    BY <2>2, FireProgress
  <2>4. Due = Cardinality(A) /\ IsFiniteSet(A) /\ Due' = Cardinality(B)
    BY <1>1, <1>2
  <2> HIDE DEF A, B
  <2>5. /\ IsFiniteSet(B) /\ Cardinality(B) <= Cardinality(A)
        /\ Cardinality(A) = Cardinality(B) => A = B
    BY <2>3, <2>4, FS_Subset, Zenon
  <2>6. Cardinality(A) \in Nat /\ Cardinality(B) \in Nat
    BY <2>4, <2>5, FS_CardinalityType
  <2> QED  BY <2>3, <2>4, <2>5, <2>6
<1> QED  BY <1>3, TimerInvariance, PTL DEF Spec, CheckTerminates

-----------------------------------------------------------------------------
(* Listed and active.                                                      *)

\* No timeout function starts or detaches its own timer.  Without this the
\* theorem below is false: after "start" on itself a one-shot timer is listed
\* with its flag cleared, and after "detach" a periodic one is linked again.
OwnTimerLeft == <<"start", "self">> \notin Callback /\ <<"detach", "self">> \notin Callback

\* An iteration of rt_timer_check leaves the flags right.
LEMMA FireFlags ==
    ASSUME OwnTimerLeft, TimerInv, Flagged, NEW op \in Ops, NEW u \in TimerSet, Fire(op, u)
    PROVE  Flagged'
<1>1. PICK t : t = Head(list)
  OBVIOUS
<1>2. PICK a : a = Removed(State, t)
  OBVIOUS
<1>3. PICK b : b = Call(a, op, u)
  OBVIOUS
<1>4. PICK r : r = Expired(b, t)
  OBVIOUS
<1>5. /\ t \in TimerSet /\ t \in ToSet(list)
      /\ Queued(a, tick) /\ ToSet(a.list) = ToSet(list) \ {t}
      /\ Others(State, a, t) /\ a.tm[t].active = tm[t].active
      /\ Queued(b, tick) /\ Touches(a, b, u) /\ (op = "none" => b = a)
      /\ Queued(r, tick) /\ Touches(b, r, t) /\ Becomes(r)
      /\ (op # "none" => ~InHand(u)) /\ u \notin detached /\ pc' = pc
  BY <1>1, <1>2, <1>3, <1>4, FireStates
<1>6. /\ tick \in 0..RT_TICK_MAX /\ State.list = list /\ State.tm = tm
      /\ pc \in [Worker -> Calls] /\ ToSet(list) \subseteq TimerSet /\ detached \subseteq TimerSet
  BY StateTyped DEF TimerInv, TypeOK
<1>7. /\ op = "start" => u \in ToSet(b.list) /\ b.tm[u].active
      /\ op = "stop" => /\ ~b.tm[u].active
                        /\ a.tm[u].active => u \notin ToSet(b.list)
                        /\ ~a.tm[u].active => b = a
      /\ op = "detach" => u \notin ToSet(b.list)
  BY <1>3, <1>5, <1>6, QueuedCall
<1>8. t \notin ToSet(b.list) => (t \in ToSet(r.list) <=> r.tm[t].active)
  BY <1>4, <1>5, <1>6, QueuedExpired
<1>9. /\ u = t => op \in {"none", "stop"}
      /\ detached' = IF op = "detach" THEN detached \cup {u} ELSE detached
  BY <1>1 DEF Fire, OwnTimerLeft, Ops
<1>10. list' = r.list /\ tm' = r.tm
  BY <1>5 DEF Becomes
<1>11. t \notin detached /\ tm[t].active
  <2>1. t \notin detached
    BY <1>5 DEF Flagged
  <2>2. \A v \in Worker : pc[v].arg = t => pc[v].at = "remove"
    BY <1>5, <1>6, NoTimerAssumption DEF TimerInv, Hands, Calls
  <2> QED  BY <1>5, <2>1, <2>2 DEF Flagged
<1>12. t \notin ToSet(a.list) /\ a.tm[t].active
  BY <1>5, <1>11
<1>13. t \notin ToSet(b.list)
  <2>1. CASE u = t
    BY <1>5, <1>7, <1>9, <1>12, <2>1
  <2>2. CASE u # t
    BY <1>5, <1>12, <2>2 DEF Touches, Others
  <2> QED  BY <2>1, <2>2
<1>14. t \in ToSet(r.list) <=> r.tm[t].active
  BY <1>8, <1>13
<1>15. ASSUME NEW x \in TimerSet \ detached', x # t,
              \A v \in Worker : pc[v].arg = x => pc[v].at = "remove"
       PROVE  x \in ToSet(r.list) <=> r.tm[x].active
  <2>1. x \in ToSet(State.list) <=> State.tm[x].active
    BY <1>6, <1>9, <1>15 DEF Flagged
  <2>2. x \in ToSet(a.list) <=> a.tm[x].active
    BY <1>5, <1>15, <2>1 DEF Others
  <2>3. x \in ToSet(b.list) <=> b.tm[x].active
    <3>1. CASE x # u
      BY <1>5, <1>15, <2>2, <3>1 DEF Touches, Others
    <3>2. CASE x = u /\ op = "none"
      BY <1>5, <2>2, <3>2
    <3>3. CASE x = u /\ op = "start"
      BY <1>7, <3>3
    <3>4. CASE x = u /\ op = "stop"
      BY <1>7, <2>2, <3>4
    <3>5. CASE x = u /\ op = "detach"
      BY <1>9, <1>15, <3>5
    <3> QED  BY <3>1, <3>2, <3>3, <3>4, <3>5 DEF Ops
  <2> QED  BY <1>5, <1>15, <2>3 DEF Touches, Others
<1>16. ASSUME NEW x \in detached' PROVE x \notin ToSet(r.list)
  <2>1. x # t /\ x \in TimerSet
    BY <1>6, <1>9, <1>11, <1>16
  <2>2. x \notin ToSet(b.list)
    <3>1. CASE x \in detached
      <4>1. x \notin ToSet(a.list) /\ x # u
        BY <1>5, <3>1 DEF Flagged
      <4> QED  BY <1>5, <2>1, <4>1 DEF Touches, Others
    <3>2. CASE x \notin detached
      BY <1>7, <1>9, <1>16, <3>2
    <3> QED  BY <3>1, <3>2
  <2> QED  BY <1>5, <2>1, <2>2 DEF Touches, Others
<1>17. \A v \in Worker : pc[v].arg \notin detached'
  BY <1>5, <1>9 DEF Flagged, InHand
<1> QED  BY <1>5, <1>10, <1>14, <1>15, <1>16, <1>17 DEF Flagged

\* A timer no call is about is listed exactly when it is active and was not
\* detached, and it is listed once.
THEOREM ListedIsActiveInvariance == OwnTimerLeft => (Spec => []ListedIsActive)
<1> SUFFICES ASSUME OwnTimerLeft PROVE Spec => []ListedIsActive
  OBVIOUS
<1>1. Init => Flagged
  <2> SUFFICES ASSUME Init PROVE Flagged
    OBVIOUS
  <2>1. ToSet(list) = {} /\ detached = {}
    BY DEF Init, ToSet
  <2>2. \A t \in TimerSet : ~tm[t].active
    <3>1. tm \in [TimerSet -> [active : {FALSE}, periodic : BOOLEAN,
                               init_tick : 1..MaxInit, timeout_tick : {0}]]
      BY DEF Init
    <3>2. \A t \in TimerSet : tm[t].active \in {FALSE}
      BY <3>1
    <3> QED  BY <3>2
  <2> QED  BY <2>1, <2>2 DEF Flagged
<1>2. TimerInv /\ Flagged /\ [Next]_vars => Flagged'
  <2> SUFFICES ASSUME TimerInv, Flagged, [Next]_vars PROVE Flagged'
    OBVIOUS
  <2>1. CASE rt_tick_increase \/ CheckDone \/ UNCHANGED vars
    <3>1. list' = list /\ tm' = tm /\ detached' = detached /\ pc' = pc
      BY <2>1 DEF rt_tick_increase, CheckDone, vars
    <3> QED  BY <3>1 DEF Flagged
  <2>2. ASSUME NEW t \in TimerSet, NEW op \in Ops, Fire(op, t) PROVE Flagged'
    BY <2>2, FireFlags
  <2>3. ASSUME NEW w \in Worker,
               \/ StartTick(w) \/ StartInsert(w) \/ StopRemove(w) \/ StopClear(w)
               \/ \E t \in TimerSet : \/ rt_timer_start(w, t) \/ rt_timer_stop(w, t)
                                      \/ rt_timer_detach(w, t) \/ rt_timer_control(w, t)
        PROVE  Flagged'
    BY <2>3, WorkerPreserves, Zenon
  <2> QED  BY <2>1, <2>2, <2>3 DEF Next, Check, Ops
<1>3. TimerInv /\ Flagged => ListedIsActive
  <2> SUFFICES ASSUME TimerInv, Flagged PROVE ListedIsActive
    OBVIOUS
  <2>1. list \in Seq(TimerSet) /\ IsInjective(list)
    BY StateTyped DEF TimerInv, Queued
  <2>2. Cardinality(ToSet(list)) = Len(list)
    BY <2>1, LenIsCardinality
  <2>3. \A t \in TimerSet : Listed(t) <=> t \in ToSet(list)
    BY <2>1, ContainsIsToSet DEF Listed
  <2>4. ASSUME NEW t \in TimerSet, ~InHand(t)
        PROVE  Listed(t) <=> tm[t].active /\ t \notin detached
    BY <2>3, <2>4 DEF Flagged, InHand
  <2> QED  BY <2>2, <2>4 DEF ListedIsActive
<1> QED  BY <1>1, <1>2, <1>3, TimerInvariance, PTL DEF Spec

-----------------------------------------------------------------------------
(* First come, first served.                                               *)

\* What is behind a timer that was linked just now expires later than it.
LEMMA InsertedBeforeLater ==
    ASSUME NEW s, NEW now \in 0..RT_TICK_MAX, Queued(s, now), NEW t \in TimerSet,
           t \notin ToSet(s.list), OnTime(s, now, t), NEW r, r = Inserted(s, t),
           NEW j \in DOMAIN r.list, NEW k \in DOMAIN r.list, j < k, r.list[j] = t
    PROVE  s.due[t] < s.due[r.list[k]]
<1> DEFINE l == s.list
           n == Len(l)
<1>0. /\ s \in States /\ l \in Seq(TimerSet) /\ Ordered(l, s.due)
      /\ s.due \in [TimerSet -> Left] /\ n \in Nat /\ DOMAIN l = 1..n
  BY DEF Queued, States
<1>1. PICK pos \in 1..Len(s.list) + 1 :
         /\ r.list = InsertAt(s.list, pos, t)
         /\ pos <= Len(s.list) =>
               After(s.tm[s.list[pos]].timeout_tick, s.tm[t].timeout_tick)
  BY <1>0, InsertedFields
<1>2. /\ Len(r.list) = n + 1 /\ r.list \in Seq(TimerSet)
      /\ \A i \in 1..n + 1 : r.list[i] = IF i < pos THEN l[i] ELSE IF i = pos THEN t ELSE l[i - 1]
  <2> DEFINE q == InsertAt(l, pos, t)
  <2>1. /\ Len(q) = n + 1 /\ q \in Seq(TimerSet)
        /\ \A i \in 1..n + 1 : q[i] = IF i < pos THEN l[i] ELSE IF i = pos THEN t ELSE l[i - 1]
    <3>1. l \in Seq(TimerSet) /\ pos \in 1..Len(l) + 1
      BY <1>0, <1>1
    <3> HIDE DEF l
    <3>2. q \in Seq(TimerSet) /\ Len(q) = Len(l) + 1
      BY <3>1, InsertAtProperties
    <3>3. \A i \in 1..Len(l) + 1 : q[i] = IF i < pos THEN l[i] ELSE IF i = pos THEN t ELSE l[i - 1]
      BY <3>1, InsertAtProperties
    <3> HIDE DEF q
    <3> QED  BY <3>2, <3>3
  <2>2. r.list = q
    BY <1>1
  <2> HIDE DEF q, l, n
  <2> QED  BY <2>1, <2>2
<1>3. \A i \in 1..n : l[i] # t /\ l[i] \in ToSet(l) /\ l[i] \in TimerSet
  BY <1>0 DEF ToSet
<1> HIDE DEF l
<1>4. j \in 1..n + 1 /\ k \in 1..n + 1 /\ pos \in 1..n + 1
  BY <1>0, <1>1, <1>2 DEF l
<1>5. j = pos
  <2>1. j < pos => r.list[j] = l[j] /\ j \in 1..n
    BY <1>0, <1>2, <1>4
  <2>2. j > pos => r.list[j] = l[j - 1] /\ j - 1 \in 1..n
    BY <1>0, <1>2, <1>4
  <2> QED  BY <1>3, <1>4, <2>1, <2>2
<1>6. pos \in 1..n /\ k - 1 \in 1..n /\ pos <= k - 1 /\ r.list[k] = l[k - 1]
  BY <1>0, <1>2, <1>4, <1>5
<1>7. /\ l[pos] \in TimerSet /\ s.due[l[pos]] \in Left /\ s.due[t] \in Left
      /\ s.tm[l[pos]].timeout_tick = Wrap(now + s.due[l[pos]])
      /\ s.tm[t].timeout_tick = Wrap(now + s.due[t])
  <2>1. l[pos] \in ToSet(s.list) /\ l[pos] \in TimerSet
    BY <1>3, <1>6 DEF l
  <2> QED  BY <1>0, <2>1 DEF Queued, OnTime
<1>8. After(s.tm[l[pos]].timeout_tick, s.tm[t].timeout_tick)
  BY <1>1, <1>6 DEF l
<1>9. s.due[t] < s.due[l[pos]]
  <2>1. s.due[l[pos]] > s.due[t]
    BY <1>7, <1>8, AfterIsLater
  <2> QED  BY <1>7, <2>1, TickRange
<1>10. s.due[l[pos]] <= s.due[l[k - 1]]
  <2>1. CASE pos = k - 1
    BY <1>7, <2>1, TickRange
  <2>2. CASE pos < k - 1
    BY <1>0, <1>6, <2>2 DEF Ordered
  <2> QED  BY <1>6, <2>1, <2>2
<1>11. s.due[l[k - 1]] \in Left
  BY <1>0, <1>3, <1>6
<1>12. s.due[t] \in Int /\ s.due[l[pos]] \in Int /\ s.due[l[k - 1]] \in Int
  BY <1>7, <1>11, TickRange
<1>13. \A x, y, z \in Int : x < y /\ y <= z => x < z
  OBVIOUS
<1>14. s.due[t] < s.due[l[k - 1]]
  BY <1>9, <1>10, <1>12, <1>13, Zenon
<1> QED  BY <1>6, <1>14, Zenon

\* The place of a timer in a list.
Place(l, x) == SelectInSeq(l, LAMBDA t : t = x)

\* The timer is at its place.
LEMMA PlaceProperties ==
    ASSUME NEW l \in Seq(TimerSet), NEW x, x \in ToSet(l)
    PROVE  Place(l, x) \in DOMAIN l /\ l[Place(l, x)] = x
<1> DEFINE I == {i \in 1..Len(l) : l[i] = x}
<1>1. I # {} /\ I \subseteq Nat
  BY DEF ToSet
<1>2. Place(l, x) = Min(I)
  BY <1>1 DEF Place, SelectInSeq
<1>3. Min(I) \in I
  BY <1>1, MinProperties
<1> QED  BY <1>2, <1>3

\* A timer started later never gets in front of one with the same expiry.
THEOREM NoOvertakingProperty == Spec => NoOvertaking
<1>1. TimerInv /\ TimerInv' /\ [Next]_vars =>
        [\A x, y \in TimerSet :
            /\ Listed(x) /\ ~Listed(y) /\ ~chk
            /\ Contains(list', y) /\ SelectInSeq(list', LAMBDA t : t = y)
                                     < SelectInSeq(list', LAMBDA t : t = x)
            => due'[y] < due'[x]]_vars
  <2> SUFFICES ASSUME TimerInv, TimerInv', Next, NEW x \in TimerSet, NEW y \in TimerSet,
                      Listed(x), ~Listed(y), ~chk, Contains(list', y),
                      Place(list', y) < Place(list', x)
               PROVE  due'[y] < due'[x]
    BY DEF vars, Place
  <2>0. /\ list \in Seq(TimerSet) /\ State.list = list /\ State.due = due
        /\ tick \in 0..RT_TICK_MAX /\ Queued(State, tick) /\ list' \in Seq(TimerSet)
        /\ pc \in [Worker -> Calls]
    BY StateTyped DEF TimerInv, TypeOK
  <2>1. x \in ToSet(list) /\ y \notin ToSet(list) /\ y \in ToSet(list')
    BY <2>0, ContainsIsToSet DEF Listed
  <2>2. ASSUME NEW w \in Worker,
               \/ StartTick(w) \/ StopRemove(w) \/ StopClear(w)
               \/ \E t \in TimerSet : \/ rt_timer_start(w, t) \/ rt_timer_stop(w, t)
                                      \/ rt_timer_detach(w, t) \/ rt_timer_control(w, t)
        PROVE  FALSE
    <3>1. \A t : ToSet(RemoveFirst(list, t)) \subseteq ToSet(list)
      BY <2>0, RemoveFirstProperties
    <3>2. \A t \in TimerSet : Removed(State, t).list = RemoveFirst(list, t)
      BY <2>0, RemovedFields DEF Queued
    <3>3. CASE StartTick(w)
      <4>1. pc[w].arg \in TimerSet
        BY <2>0, <3>3 DEF StartTick, At, TimerInv, Hands, Calls
      <4>2. SetTimeout(State, pc[w].arg).list = State.list
        BY <2>0, <4>1, SetTimeoutFields DEF Queued
      <4>3. list' = SetTimeout(State, pc[w].arg).list
        BY <3>3 DEF StartTick, Becomes
      <4> QED  BY <2>0, <2>1, <4>2, <4>3
    <3>4. CASE StopRemove(w)
      <4>1. pc[w].arg \in TimerSet
        BY <2>0, <3>4 DEF StopRemove, At, TimerInv, Hands, Calls
      <4>2. list' = RemoveFirst(list, pc[w].arg)
        BY <3>2, <3>4, <4>1 DEF StopRemove, Becomes
      <4> QED  BY <2>1, <3>1, <4>2
    <3>5. CASE StopClear(w) \/ \E t \in TimerSet : rt_timer_stop(w, t) \/ rt_timer_control(w, t)
      <4>1. list' = list
        BY <3>5 DEF StopClear, rt_timer_stop, rt_timer_control
      <4> QED  BY <2>1, <4>1
    <3>6. ASSUME NEW t \in TimerSet, rt_timer_start(w, t) PROVE FALSE
      <4>0. PICK a : a = Removed(State, t)
        OBVIOUS
      <4>1. list' = WithFlag(a, t, FALSE).list
        BY <3>6, <4>0 DEF rt_timer_start, Becomes, WithFlag
      <4>2. a \in States
        BY <2>0, <4>0, QueuedRemoved DEF Queued
      <4>3. WithFlag(a, t, FALSE).list = a.list
        BY <4>2 DEF WithFlag, States
      <4> QED  BY <2>1, <3>1, <3>2, <4>0, <4>1, <4>3
    <3>7. ASSUME NEW t \in TimerSet, rt_timer_detach(w, t) PROVE FALSE
      <4>1. list' = RemoveFirst(list, t)
        BY <3>2, <3>7 DEF rt_timer_detach, Becomes
      <4> QED  BY <2>1, <3>1, <4>1
    <3> QED  BY <2>2, <3>3, <3>4, <3>5, <3>6, <3>7
  <2>3. ~rt_tick_increase /\ ~Check
    BY <2>1 DEF rt_tick_increase, Check, CheckDone, Fire
  <2>4. PICK w \in Worker : StartInsert(w)
    BY <2>2, <2>3 DEF Next
  <2>5. PICK t : t = pc[w].arg
    OBVIOUS
  <2>6. PICK r : r = Inserted(State, t)
    OBVIOUS
  <2>7. pc[w].at = "insert" /\ Becomes(r)
    BY <2>4, <2>5, <2>6 DEF StartInsert, At
  <2>8. t \in TimerSet /\ t \notin ToSet(State.list) /\ OnTime(State, tick, t)
    BY <2>0, <2>5, <2>7 DEF TimerInv, Hands, Calls
  <2>9. ToSet(r.list) = ToSet(State.list) \cup {t} /\ r.due = State.due
    BY <2>0, <2>6, <2>8, QueuedInsertion
  <2>10. list' = r.list /\ due' = due
    BY <2>0, <2>7, <2>9 DEF Becomes
  <2>11. y = t /\ x \in ToSet(list') /\ y \in ToSet(list')
    BY <2>0, <2>1, <2>9, <2>10
  <2>12. PICK j : j = Place(list', y)
    OBVIOUS
  <2>13. PICK k : k = Place(list', x)
    OBVIOUS
  <2>14. j \in DOMAIN list' /\ list'[j] = y
    BY <2>0, <2>11, <2>12, PlaceProperties
  <2>15. k \in DOMAIN list' /\ list'[k] = x /\ j < k
    BY <2>0, <2>11, <2>12, <2>13, PlaceProperties
  <2>16. State.due[t] < State.due[r.list[k]]
    BY <2>0, <2>6, <2>8, <2>10, <2>11, <2>14, <2>15, InsertedBeforeLater
  <2> QED  BY <2>0, <2>10, <2>11, <2>15, <2>16
<1> QED  BY <1>1, TimerInvariance, PTL DEF Spec, NoOvertaking

=============================================================================
