--------------------------- MODULE IpcWaitProofs ---------------------------
(***************************************************************************)
(* What the operators of IpcWait do to the suspend lists, for any threads, *)
(* objects and applications.  Linked is about the wait state alone: the    *)
(* lists have no repetitions, no thread is in two of them, and a thread is *)
(* in one exactly while it is suspended, with its error cleared.           *)
(***************************************************************************)
EXTENDS IpcWait, ListLemmas

Linked(s) ==
    /\ \A q \in Queue : IsInjective(s.list[q])
    /\ \A p, q \in Queue : \A t \in Thread :
          t \in ToSet(s.list[p]) /\ t \in ToSet(s.list[q]) => p = q
    /\ \A t \in Thread : s.stat[t] = "SUSPEND" <=> \E q \in Queue : t \in ToSet(s.list[q])
    /\ \A t \in Thread : s.timer[t] => s.stat[t] = "SUSPEND"
    /\ \A t \in Thread : s.stat[t] = "SUSPEND" => s.error[t] = "EOK"

-----------------------------------------------------------------------------

\* The queue of an object and the threads in it (rt_ipc_object).
LEMMA ListType ==
    ASSUME NEW s \in Waits, NEW q \in Queue
    PROVE  s.list[q] \in Seq(Thread) /\ ToSet(s.list[q]) \subseteq Thread
BY DEF Waits, ToSet

\* rt_ipc_list_suspend links the thread once and keeps the others.
LEMMA EnqueueProperties ==
    ASSUME NEW s \in Waits, NEW q \in Queue, NEW t \in Thread
    PROVE  /\ Enqueue(s, q, t) \in Seq(Thread)
           /\ Len(Enqueue(s, q, t)) = Len(s.list[q]) + 1
           /\ ToSet(Enqueue(s, q, t)) = ToSet(s.list[q]) \cup {t}
           /\ IsInjective(s.list[q]) /\ t \notin ToSet(s.list[q])
                 => IsInjective(Enqueue(s, q, t))
<1> DEFINE l == s.list[q]
           worse == {i \in DOMAIN l : s.prio[t] < s.prio[l[i]]}
           pos == IF Flag = "FIFO" \/ worse = {} THEN Len(l) + 1 ELSE Min(worse)
<1>1. l \in Seq(Thread)
  BY ListType
<1>2. worse \subseteq 1..Len(l) /\ worse \subseteq Nat
  BY <1>1
<1> HIDE DEF l
<1>3. pos \in 1..Len(l) + 1
  <2>0. Len(l) \in Nat
    BY <1>1
  <2>1. CASE Flag = "FIFO" \/ worse = {}
    BY <2>0, <2>1
  <2>2. CASE ~(Flag = "FIFO" \/ worse = {})
    <3>1. pos \in worse
      BY <1>2, <2>2, MinProperties, Zenon
    <3> QED  BY <1>2, <2>0, <3>1
  <2> QED  BY <2>1, <2>2
<1>4. Enqueue(s, q, t) = InsertAt(l, pos, t)
  BY DEF Enqueue, l
<1> HIDE DEF pos
<1> QED  BY <1>1, <1>3, <1>4, InsertAtProperties DEF l

\* rt_ipc_list_suspend, field by field.
LEMMA SuspendOnFields ==
    ASSUME NEW s \in Waits, NEW q \in Queue, NEW t \in Thread, NEW timed \in BOOLEAN
    PROVE  /\ SuspendOn(s, q, t, timed) \in Waits
           /\ SuspendOn(s, q, t, timed).app = s.app
           /\ SuspendOn(s, q, t, timed).prio = s.prio
           /\ \A u \in Thread :
                 LET r == SuspendOn(s, q, t, timed)
                 IN  /\ r.stat[u] = IF u = t THEN "SUSPEND" ELSE s.stat[u]
                     /\ r.error[u] = IF u = t THEN "EOK" ELSE s.error[u]
                     /\ r.timer[u] <=> IF u = t THEN timed ELSE s.timer[u]
           /\ \A p \in Queue :
                 SuspendOn(s, q, t, timed).list[p] = IF p = q THEN Enqueue(s, q, t) ELSE s.list[p]
<1>1. Enqueue(s, q, t) \in Seq(Thread)
  BY EnqueueProperties
<1>2. s.timer \in [Thread -> BOOLEAN]
  BY DEF Waits
<1>3. [s.timer EXCEPT ![t] = timed] \in [Thread -> BOOLEAN]
  BY <1>2, Zenon
<1>4. \A u \in Thread : [s.timer EXCEPT ![t] = timed][u] <=> IF u = t THEN timed ELSE s.timer[u]
  BY <1>2, Zenon
<1> DEFINE timer == [s.timer EXCEPT ![t] = timed]
           stat == [s.stat EXCEPT ![t] = "SUSPEND"]
           error == [s.error EXCEPT ![t] = "EOK"]
           list == [s.list EXCEPT ![q] = Enqueue(s, q, t)]
           r == [s EXCEPT !.stat = stat, !.error = error, !.timer = timer, !.list = list]
<1>5. SuspendOn(s, q, t, timed) = r
  BY DEF SuspendOn, Waits
<1>6. /\ stat \in [Thread -> {"READY", "SUSPEND"}]
      /\ error \in [Thread -> {"EOK", "ETIMEOUT", "ERROR"}]
      /\ list \in [Queue -> Seq(Thread)]
  BY <1>1 DEF Waits
<1>7. /\ \A u \in Thread : /\ stat[u] = IF u = t THEN "SUSPEND" ELSE s.stat[u]
                           /\ error[u] = IF u = t THEN "EOK" ELSE s.error[u]
      /\ \A p \in Queue : list[p] = IF p = q THEN Enqueue(s, q, t) ELSE s.list[p]
  BY DEF Waits
<1>8. timer \in [Thread -> BOOLEAN]
  BY <1>3
<1> HIDE DEF timer, stat, error, list
<1>9. /\ r \in Waits /\ r.app = s.app /\ r.prio = s.prio
      /\ r.stat = stat /\ r.error = error /\ r.timer = timer /\ r.list = list
  BY <1>6, <1>8, ZenonT(40) DEF Waits
<1> HIDE DEF r
<1> QED  BY <1>4, <1>5, <1>7, <1>9, Zenon DEF timer

\* rt_thread_resume, field by field.
LEMMA ResumeFields ==
    ASSUME NEW s \in Waits, NEW t \in Thread
    PROVE  /\ Resume(s, t) \in Waits
           /\ Resume(s, t).app = s.app
           /\ Resume(s, t).prio = s.prio
           /\ Resume(s, t).error = s.error
           /\ \A u \in Thread :
                 /\ Resume(s, t).stat[u] = IF u = t THEN "READY" ELSE s.stat[u]
                 /\ Resume(s, t).timer[u] <=> u # t /\ s.timer[u]
           /\ \A q \in Queue : Resume(s, t).list[q] = RemoveFirst(s.list[q], t)
<1>1. \A q \in Queue : RemoveFirst(s.list[q], t) \in Seq(Thread)
  BY ListType, RemoveFirstProperties, Zenon
<1>2. DOMAIN s.list = Queue /\ s.timer \in [Thread -> BOOLEAN]
  BY DEF Waits
<1>3. [s.timer EXCEPT ![t] = FALSE] \in [Thread -> BOOLEAN]
  BY <1>2, Zenon
<1>4. \A u \in Thread : [s.timer EXCEPT ![t] = FALSE][u] <=> u # t /\ s.timer[u]
  BY <1>2, Zenon
<1> DEFINE timer == [s.timer EXCEPT ![t] = FALSE]
           stat == [s.stat EXCEPT ![t] = "READY"]
           list == [q \in Queue |-> RemoveFirst(s.list[q], t)]
           r == [s EXCEPT !.stat = stat, !.timer = timer, !.list = list]
<1>5. Resume(s, t) = r
  BY <1>2 DEF Resume, Waits
<1>6. /\ stat \in [Thread -> {"READY", "SUSPEND"}]
      /\ list \in [Queue -> Seq(Thread)]
  BY <1>1 DEF Waits
<1>7. /\ \A u \in Thread : stat[u] = IF u = t THEN "READY" ELSE s.stat[u]
      /\ \A p \in Queue : list[p] = RemoveFirst(s.list[p], t)
  BY DEF Waits
<1>8. timer \in [Thread -> BOOLEAN]
  BY <1>3
<1> HIDE DEF timer, stat, list
<1>9. /\ r \in Waits /\ r.app = s.app /\ r.prio = s.prio
      /\ r.stat = stat /\ r.error = s.error /\ r.timer = timer /\ r.list = list
  BY <1>6, <1>8, ZenonT(40) DEF Waits
<1> HIDE DEF r
<1> QED  BY <1>4, <1>5, <1>7, <1>9, Zenon DEF timer

-----------------------------------------------------------------------------

\* A ready thread that suspends itself is in one list afterwards.
LEMMA SuspendKeepsLinked ==
    ASSUME NEW s \in Waits, NEW q \in Queue, NEW t \in Thread, NEW timed \in BOOLEAN,
           Linked(s), s.stat[t] = "READY"
    PROVE  Linked(SuspendOn(s, q, t, timed))
<1> DEFINE r == SuspendOn(s, q, t, timed)
<1>3. \A p \in Queue : t \notin ToSet(s.list[p])
  BY DEF Linked
<1>4. r.list[q] = Enqueue(s, q, t) /\ \A p \in Queue : p # q => r.list[p] = s.list[p]
  BY SuspendOnFields
<1>5. ToSet(r.list[q]) = ToSet(s.list[q]) \cup {t} /\ IsInjective(r.list[q])
  BY <1>3, <1>4, EnqueueProperties DEF Linked
<1> HIDE DEF r
<1>6. \A p \in Queue : IsInjective(r.list[p])
  BY <1>4, <1>5 DEF Linked
<1>7. \A p \in Queue, u \in Thread :
         u \in ToSet(r.list[p]) <=> u \in ToSet(s.list[p]) \/ (p = q /\ u = t)
  BY <1>4, <1>5
<1>8. \A u \in Thread : /\ r.stat[u] = IF u = t THEN "SUSPEND" ELSE s.stat[u]
                        /\ r.timer[u] <=> IF u = t THEN timed ELSE s.timer[u]
  BY SuspendOnFields DEF r
<1>9. \A p, p2 \in Queue : \A u \in Thread :
         u \in ToSet(r.list[p]) /\ u \in ToSet(r.list[p2]) => p = p2
  BY <1>3, <1>7 DEF Linked
<1>10. \A u \in Thread : r.stat[u] = "SUSPEND" <=> \E p \in Queue : u \in ToSet(r.list[p])
  BY <1>7, <1>8 DEF Linked
<1>11. \A u \in Thread : r.timer[u] => r.stat[u] = "SUSPEND"
  BY <1>8 DEF Linked
<1>12. \A u \in Thread : r.error[u] = IF u = t THEN "EOK" ELSE s.error[u]
  BY SuspendOnFields DEF r
<1>13. \A u \in Thread : r.stat[u] = "SUSPEND" => r.error[u] = "EOK"
  BY <1>8, <1>12 DEF Linked
<1> QED  BY <1>6, <1>9, <1>10, <1>11, <1>13 DEF Linked, r

\* A thread that is resumed leaves the list it is in, and no other changes.
LEMMA ResumeLists ==
    ASSUME NEW s \in Waits, NEW t \in Thread, Linked(s), NEW q \in Queue
    PROVE  /\ Resume(s, t).list[q] \in Seq(Thread)
           /\ ToSet(Resume(s, t).list[q]) = ToSet(s.list[q]) \ {t}
           /\ IsInjective(Resume(s, t).list[q])
           /\ t \notin ToSet(s.list[q]) => Resume(s, t).list[q] = s.list[q]
           /\ t \in ToSet(s.list[q]) => Len(Resume(s, t).list[q]) = Len(s.list[q]) - 1
<1>1. Resume(s, t).list[q] = RemoveFirst(s.list[q], t)
  BY ResumeFields
<1>2. s.list[q] \in Seq(Thread) /\ IsInjective(s.list[q])
  BY ListType DEF Linked
<1>3. /\ RemoveFirst(s.list[q], t) \in Seq(Thread)
      /\ ToSet(RemoveFirst(s.list[q], t)) \subseteq ToSet(s.list[q])
      /\ ToSet(s.list[q]) \subseteq ToSet(RemoveFirst(s.list[q], t)) \cup {t}
      /\ IsInjective(RemoveFirst(s.list[q], t))
      /\ t \notin ToSet(RemoveFirst(s.list[q], t))
      /\ t \notin ToSet(s.list[q]) => RemoveFirst(s.list[q], t) = s.list[q]
      /\ t \in ToSet(s.list[q]) => Len(RemoveFirst(s.list[q], t)) = Len(s.list[q]) - 1
  BY <1>2, RemoveFirstProperties, Zenon
<1> QED  BY <1>1, <1>3

\* rt_thread_resume keeps every thread in at most one list.
LEMMA ResumeKeepsLinked ==
    ASSUME NEW s \in Waits, NEW t \in Thread, Linked(s)
    PROVE  Linked(Resume(s, t))
<1> DEFINE r == Resume(s, t)
<1>3. \A q \in Queue : ToSet(r.list[q]) = ToSet(s.list[q]) \ {t} /\ IsInjective(r.list[q])
  BY ResumeLists
<1> HIDE DEF r
<1>4. \A u \in Thread : /\ r.stat[u] = IF u = t THEN "READY" ELSE s.stat[u]
                        /\ r.timer[u] <=> u # t /\ s.timer[u]
  BY ResumeFields DEF r
<1>5. \A p, q \in Queue : \A u \in Thread :
         u \in ToSet(r.list[p]) /\ u \in ToSet(r.list[q]) => p = q
  BY <1>3 DEF Linked
<1>6. \A u \in Thread : r.stat[u] = "SUSPEND" <=> \E q \in Queue : u \in ToSet(r.list[q])
  <2> TAKE u \in Thread
  <2>1. CASE u = t
    BY <2>1, <1>3, <1>4
  <2>2. CASE u # t
    <3>1. r.stat[u] = s.stat[u] /\ \A q \in Queue : u \in ToSet(r.list[q]) <=> u \in ToSet(s.list[q])
      BY <2>2, <1>3, <1>4
    <3> QED  BY <3>1, Zenon DEF Linked
  <2> QED  BY <2>1, <2>2
<1>7. \A u \in Thread : r.timer[u] => r.stat[u] = "SUSPEND"
  BY <1>4 DEF Linked
<1>8. r.error = s.error
  BY ResumeFields DEF r
<1>9. \A u \in Thread : r.stat[u] = "SUSPEND" => r.error[u] = "EOK"
  BY <1>4, <1>8 DEF Linked
<1> QED  BY <1>3, <1>5, <1>6, <1>7, <1>9 DEF Linked, r

\* rt_ipc_list_resume_all of a control operation, field by field.
LEMMA ResumeAllFields ==
    ASSUME NEW s \in Waits, NEW q \in Queue
    PROVE  /\ ResumeAll(s, q) \in Waits
           /\ ResumeAll(s, q).app = s.app
           /\ ResumeAll(s, q).prio = s.prio
           /\ \A t \in Thread :
                 /\ ResumeAll(s, q).stat[t] = IF t \in ToSet(s.list[q]) THEN "READY" ELSE s.stat[t]
                 /\ ResumeAll(s, q).error[t] = IF t \in ToSet(s.list[q]) THEN "ERROR" ELSE s.error[t]
                 /\ ResumeAll(s, q).timer[t] <=> s.timer[t] /\ t \notin ToSet(s.list[q])
           /\ \A p \in Queue : ResumeAll(s, q).list[p] = IF p = q THEN <<>> ELSE s.list[p]
<1> DEFINE woken == ToSet(s.list[q])
           stat == [t \in Thread |-> IF t \in woken THEN "READY" ELSE s.stat[t]]
           error == [t \in Thread |-> IF t \in woken THEN "ERROR" ELSE s.error[t]]
           timer == [t \in Thread |-> s.timer[t] /\ t \notin woken]
           list == [s.list EXCEPT ![q] = <<>>]
           r == [s EXCEPT !.stat = stat, !.error = error, !.timer = timer, !.list = list]
<1>1. r = ResumeAll(s, q)
  BY DEF ResumeAll, Waits
<1>2. /\ stat \in [Thread -> {"READY", "SUSPEND"}]
      /\ error \in [Thread -> {"EOK", "ETIMEOUT", "ERROR"}]
      /\ list \in [Queue -> Seq(Thread)]
  BY DEF Waits
<1>3. timer \in [Thread -> BOOLEAN]
  BY Zenon
<1>4. \A t \in Thread : timer[t] <=> s.timer[t] /\ t \notin ToSet(s.list[q])
  BY Zenon
<1>5. \A t \in Thread : /\ stat[t] = IF t \in ToSet(s.list[q]) THEN "READY" ELSE s.stat[t]
                        /\ error[t] = IF t \in ToSet(s.list[q]) THEN "ERROR" ELSE s.error[t]
  OBVIOUS
<1>l. \A p \in Queue : list[p] = IF p = q THEN <<>> ELSE s.list[p]
  BY DEF Waits
<1> HIDE DEF woken, stat, error, timer, list
<1>6. /\ r \in Waits /\ r.app = s.app /\ r.prio = s.prio
      /\ r.stat = stat /\ r.error = error /\ r.timer = timer /\ r.list = list
  BY <1>2, <1>3, ZenonT(40) DEF Waits
<1> HIDE DEF r
<1> QED  BY <1>1, <1>4, <1>5, <1>6, <1>l, Zenon

\* It empties the list.
LEMMA ResumeAllKeepsLinked ==
    ASSUME NEW s \in Waits, NEW q \in Queue, Linked(s)
    PROVE  Linked(ResumeAll(s, q))
<1> DEFINE r == ResumeAll(s, q)
<1>1. /\ r \in Waits
      /\ \A t \in Thread :
            /\ r.stat[t] = IF t \in ToSet(s.list[q]) THEN "READY" ELSE s.stat[t]
            /\ r.timer[t] <=> s.timer[t] /\ t \notin ToSet(s.list[q])
      /\ \A p \in Queue : r.list[p] = IF p = q THEN <<>> ELSE s.list[p]
  BY ResumeAllFields
<1>4. ToSet(<<>>) = {} /\ IsInjective(<<>>)
  BY DEF ToSet, IsInjective
<1> HIDE DEF r
<1>5. \A p \in Queue : ToSet(r.list[p]) = (IF p = q THEN {} ELSE ToSet(s.list[p]))
                       /\ IsInjective(r.list[p])
  BY <1>1, <1>4 DEF Linked
<1>6. \A p, p2 \in Queue : \A u \in Thread :
         u \in ToSet(r.list[p]) /\ u \in ToSet(r.list[p2]) => p = p2
  BY <1>5 DEF Linked
<1>7. \A u \in Thread : r.stat[u] = "SUSPEND" <=> \E p \in Queue : u \in ToSet(r.list[p])
  BY <1>1, <1>5 DEF Linked
<1>8. \A u \in Thread : r.timer[u] => r.stat[u] = "SUSPEND"
  BY <1>1 DEF Linked
<1>9. \A t \in Thread : r.error[t] = IF t \in ToSet(s.list[q]) THEN "ERROR" ELSE s.error[t]
  BY ResumeAllFields DEF r
<1>10. \A u \in Thread : r.stat[u] = "SUSPEND" => r.error[u] = "EOK"
  BY <1>1, <1>9 DEF Linked
<1> QED  BY <1>5, <1>6, <1>7, <1>8, <1>10 DEF Linked, r

-----------------------------------------------------------------------------
(* The lists and the calls.  A call is in the record e, and d is what the   *)
(* callers' records are.                                                    *)

\* The call e waits on the list q.
WaitsIn(e, q) ==
    IF q \in Mutexes THEN e.op = "mutex" /\ e.mutex = q
    ELSE e.op = q /\ (q = "mq" => e.at = "wait")

\* Who is in a list is in a call that waits on that list; a handler never waits.
WaitInv(s, d) ==
    /\ s \in Waits /\ Linked(s)
    /\ DOMAIN d = Caller
    /\ \A q \in Queue : \A t \in ToSet(s.list[q]) : WaitsIn(d[t], q)
    /\ \A c \in Isr : ~WaitsIn(d[c], "mq")

\* A step from s, c to r, d that only threads in the calls ops take part in, and
\* of the lists only qs.
Affects(s, c, r, d, ops, qs) ==
    /\ r.app = s.app
    /\ \A q \in Queue : q \notin qs => r.list[q] = s.list[q]
    /\ \A u \in Thread : c[u].op \in ops => d[u].op \in ops
    /\ \A u \in Thread : c[u].op \notin ops =>
          d[u] = c[u] /\ r.stat[u] = s.stat[u] /\ r.error[u] = s.error[u]

\* A ready thread, or a handler, gets on with its call.
LEMMA WaitInvStay ==
    ASSUME NEW s, NEW d, WaitInv(s, d), NEW c \in Caller, NEW e,
           c \in Thread => s.stat[c] = "READY",
           c \in Isr => ~WaitsIn(e, "mq")
    PROVE  WaitInv(s, [d EXCEPT ![c] = e])
<1> DEFINE d2 == [d EXCEPT ![c] = e]
<1>1. DOMAIN d2 = Caller /\ \A u \in Caller : u # c => d2[u] = d[u]
  BY DEF WaitInv
<1>2. d2[c] = e
  BY DEF WaitInv
<1>3. \A q \in Queue : \A t \in ToSet(s.list[q]) : t \in Thread /\ t # c
  <2> TAKE q \in Queue
  <2> TAKE t \in ToSet(s.list[q])
  <2>1. t \in Thread
    BY ListType DEF WaitInv
  <2>2. s.stat[t] = "SUSPEND"
    BY <2>1 DEF WaitInv, Linked
  <2> QED  BY <2>1, <2>2
<1> HIDE DEF d2
<1>4. \A q \in Queue : \A t \in ToSet(s.list[q]) : WaitsIn(d2[t], q)
  BY <1>1, <1>3 DEF WaitInv, Caller
<1>5. \A u \in Isr : ~WaitsIn(d2[u], "mq")
  BY <1>1, <1>2 DEF WaitInv, Caller
<1> QED  BY <1>1, <1>4, <1>5 DEF WaitInv, d2

\* A ready thread suspends itself in a call that waits on the list.
LEMMA WaitInvSuspend ==
    ASSUME NEW s, NEW d, WaitInv(s, d), NEW q \in Queue, NEW t \in Thread, s.stat[t] = "READY",
           NEW timed \in BOOLEAN, NEW e, WaitsIn(e, q)
    PROVE  WaitInv(SuspendOn(s, q, t, timed), [d EXCEPT ![t] = e])
<1> DEFINE d2 == [d EXCEPT ![t] = e]
           r == SuspendOn(s, q, t, timed)
<1>0. s \in Waits /\ Linked(s)
  BY DEF WaitInv
<1>1. t \in Caller /\ t \notin Isr
  BY ThreadAssumption DEF Caller
<1>2. WaitInv(s, d2)
  BY <1>1, WaitInvStay
<1>3. r \in Waits /\ \A p \in Queue : r.list[p] = IF p = q THEN Enqueue(s, q, t) ELSE s.list[p]
  BY <1>0, SuspendOnFields
<1>4. Linked(r)
  BY <1>0, SuspendKeepsLinked
<1>5. ToSet(Enqueue(s, q, t)) = ToSet(s.list[q]) \cup {t}
  BY <1>0, EnqueueProperties
<1>6. WaitsIn(d2[t], q)
  BY <1>1 DEF WaitInv
<1> HIDE DEF r, d2
<1>7. \A p \in Queue : \A u \in ToSet(r.list[p]) : WaitsIn(d2[u], p)
  BY <1>2, <1>3, <1>5, <1>6 DEF WaitInv
<1> QED  BY <1>2, <1>3, <1>4, <1>7 DEF WaitInv, r, d2

\* A thread is resumed and has not run yet.
LEMMA WaitInvResume ==
    ASSUME NEW s, NEW d, WaitInv(s, d), NEW t \in Thread
    PROVE  WaitInv(Resume(s, t), d)
<1> DEFINE r == Resume(s, t)
<1>0. s \in Waits /\ Linked(s)
  BY DEF WaitInv
<1>1. r \in Waits
  BY <1>0, ResumeFields
<1>2. Linked(r)
  BY <1>0, ResumeKeepsLinked
<1>3. \A q \in Queue : ToSet(r.list[q]) = ToSet(s.list[q]) \ {t}
  BY <1>0, ResumeLists
<1> HIDE DEF r
<1> QED  BY <1>1, <1>2, <1>3 DEF WaitInv, r

\* The first waiter, when there is one.
LEMMA FirstWaits ==
    ASSUME NEW s, NEW d, WaitInv(s, d), NEW q \in Queue, s.list[q] # <<>>
    PROVE  /\ Head(s.list[q]) \in Thread
           /\ Head(s.list[q]) \in ToSet(s.list[q])
           /\ WaitsIn(d[Head(s.list[q])], q)
           /\ s.stat[Head(s.list[q])] = "SUSPEND"
<1>1. s.list[q] \in Seq(Thread)
  BY ListType DEF WaitInv
<1>2. Head(s.list[q]) \in ToSet(s.list[q]) /\ Head(s.list[q]) \in Thread
  BY <1>1, HeadTailSet
<1> QED  BY <1>2 DEF WaitInv, Linked

\* rt_ipc_list_resume, field by field: the others stay as they are.
LEMMA ResumeFirstFields ==
    ASSUME NEW s, NEW d, WaitInv(s, d), NEW q \in Queue
    PROVE  /\ ResumeFirst(s, q).error = s.error
           /\ ResumeFirst(s, q).prio = s.prio
           /\ ResumeFirst(s, q).app = s.app
           /\ s.list[q] = <<>> => ResumeFirst(s, q) = s
           /\ \A u \in Thread :
                 /\ s.stat[u] = "READY" => ResumeFirst(s, q).stat[u] = "READY"
                 /\ s.list[q] # <<>> => ResumeFirst(s, q).stat[u]
                                          = IF u = Head(s.list[q]) THEN "READY" ELSE s.stat[u]
           /\ \A p \in Queue : p # q => ResumeFirst(s, q).list[p] = s.list[p]
           /\ s.list[q] # <<>> =>
                 /\ Len(ResumeFirst(s, q).list[q]) = Len(s.list[q]) - 1
                 /\ ToSet(ResumeFirst(s, q).list[q]) = ToSet(s.list[q]) \ {Head(s.list[q])}
<1>1. CASE s.list[q] = <<>>
  BY <1>1 DEF ResumeFirst
<1>2. CASE s.list[q] # <<>>
  <2> DEFINE t == Head(s.list[q])
             r == ResumeFirst(s, q)
  <2>1. t \in Thread /\ t \in ToSet(s.list[q]) /\ s \in Waits /\ Linked(s)
    BY <1>2, FirstWaits DEF WaitInv
  <2>2. r = Resume(s, t)
    BY <1>2 DEF ResumeFirst
  <2> HIDE DEF t, r
  <2>3. r.error = s.error /\ r.prio = s.prio /\ r.app = s.app
    BY <2>1, <2>2, ResumeFields
  <2>4. \A u \in Thread : r.stat[u] = IF u = t THEN "READY" ELSE s.stat[u]
    BY <2>1, <2>2, ResumeFields
  <2>5. \A p \in Queue : p # q => t \notin ToSet(s.list[p])
    BY <2>1 DEF Linked
  <2>6. \A p \in Queue : p # q => r.list[p] = s.list[p]
    BY <2>1, <2>2, <2>5, ResumeLists
  <2>7. Len(r.list[q]) = Len(s.list[q]) - 1 /\ ToSet(r.list[q]) = ToSet(s.list[q]) \ {t}
    BY <2>1, <2>2, ResumeLists
  <2> QED  BY <1>2, <2>3, <2>4, <2>6, <2>7 DEF t, r
<1> QED  BY <1>1, <1>2

\* rt_ipc_list_resume keeps the invariant of the lists.
LEMMA WaitInvResumeFirst ==
    ASSUME NEW s, NEW d, WaitInv(s, d), NEW q \in Queue
    PROVE  WaitInv(ResumeFirst(s, q), d)
<1>1. CASE s.list[q] = <<>>
  BY <1>1 DEF ResumeFirst
<1>2. CASE s.list[q] # <<>>
  <2>1. Head(s.list[q]) \in Thread
    BY <1>2, FirstWaits
  <2> QED  BY <1>2, <2>1, WaitInvResume DEF ResumeFirst
<1> QED  BY <1>1, <1>2

\* So does resuming every waiter of a list.
LEMMA WaitInvResumeAll ==
    ASSUME NEW s, NEW d, WaitInv(s, d), NEW q \in Queue
    PROVE  WaitInv(ResumeAll(s, q), d)
<1> DEFINE r == ResumeAll(s, q)
<1>0. s \in Waits /\ Linked(s)
  BY DEF WaitInv
<1>1. r \in Waits /\ \A p \in Queue : r.list[p] = IF p = q THEN <<>> ELSE s.list[p]
  BY <1>0, ResumeAllFields
<1>2. Linked(r)
  BY <1>0, ResumeAllKeepsLinked
<1>3. ToSet(<<>>) = {}
  BY DEF ToSet
<1> HIDE DEF r
<1> QED  BY <1>1, <1>2, <1>3 DEF WaitInv, r

\* Priorities, and errors of threads that do not wait, are not part of it.
LEMMA WaitInvFields ==
    ASSUME NEW s, NEW d, WaitInv(s, d), NEW r \in Waits,
           r.stat = s.stat, r.timer = s.timer, r.list = s.list,
           \A t \in Thread : r.error[t] = s.error[t] \/ s.stat[t] = "READY"
    PROVE  WaitInv(r, d)
BY DEF WaitInv, Linked

-----------------------------------------------------------------------------

\* Two changes to the same queues are one such change.
LEMMA AffectsTrans ==
    ASSUME NEW s1, NEW c1, NEW s2, NEW c2, NEW s3, NEW c3, NEW ops, NEW qs,
           Affects(s1, c1, s2, c2, ops, qs), Affects(s2, c2, s3, c3, ops, qs)
    PROVE  Affects(s1, c1, s3, c3, ops, qs)
BY DEF Affects

\* A thread that goes on with its call changes no queue.
LEMMA AffectsStay ==
    ASSUME NEW s, NEW d, WaitInv(s, d), NEW c \in Caller, NEW e, NEW ops, NEW qs,
           c \in Thread => d[c].op \in ops /\ e.op \in ops
    PROVE  Affects(s, d, s, [d EXCEPT ![c] = e], ops, qs)
<1>1. \A u \in Thread : [d EXCEPT ![c] = e][u] = IF u = c THEN e ELSE d[u]
  BY DEF WaitInv, Caller
<1> QED  BY <1>1 DEF Affects

\* Suspending changes the queue that the thread waits in.
LEMMA AffectsSuspend ==
    ASSUME NEW s, NEW d, WaitInv(s, d), NEW q \in Queue, NEW t \in Thread,
           NEW timed \in BOOLEAN, NEW e, NEW ops, NEW qs,
           q \in qs, d[t].op \in ops, e.op \in ops
    PROVE  Affects(s, d, SuspendOn(s, q, t, timed), [d EXCEPT ![t] = e], ops, qs)
<1> DEFINE r == SuspendOn(s, q, t, timed)
<1>0. s \in Waits
  BY DEF WaitInv
<1>1. \A u \in Thread : [d EXCEPT ![t] = e][u] = IF u = t THEN e ELSE d[u]
  BY DEF WaitInv, Caller
<1>2. /\ r.app = s.app
      /\ \A p \in Queue : r.list[p] = IF p = q THEN Enqueue(s, q, t) ELSE s.list[p]
  BY <1>0, SuspendOnFields
<1>3. \A u \in Thread : /\ r.stat[u] = IF u = t THEN "SUSPEND" ELSE s.stat[u]
                        /\ r.error[u] = IF u = t THEN "EOK" ELSE s.error[u]
  BY <1>0, SuspendOnFields
<1> HIDE DEF r
<1> QED  BY <1>1, <1>2, <1>3 DEF Affects, r

\* Resuming a thread changes the queue that it waited in.
LEMMA AffectsResume ==
    ASSUME NEW s, NEW d, WaitInv(s, d), NEW t \in Thread, NEW ops, NEW qs,
           d[t].op \in ops, \A q \in Queue : WaitsIn(d[t], q) => q \in qs
    PROVE  Affects(s, d, Resume(s, t), d, ops, qs)
<1> DEFINE r == Resume(s, t)
<1>0. s \in Waits /\ Linked(s)
  BY DEF WaitInv
<1>1. r.app = s.app /\ r.error = s.error
  BY <1>0, ResumeFields
<1>2. \A u \in Thread : r.stat[u] = IF u = t THEN "READY" ELSE s.stat[u]
  BY <1>0, ResumeFields
<1>3. \A q \in Queue : q \notin qs => t \notin ToSet(s.list[q])
  BY DEF WaitInv
<1>4. \A q \in Queue : q \notin qs => r.list[q] = s.list[q]
  BY <1>0, <1>3, ResumeLists
<1> HIDE DEF r
<1> QED  BY <1>1, <1>2, <1>4 DEF Affects, r

\* The operations that wait on a list, by the list.
OpOf(q) == IF q \in Mutexes THEN "mutex" ELSE q

\* A call waits in one queue only.
LEMMA OneQueue ==
    ASSUME NEW e, NEW p \in Queue, NEW q \in Queue, WaitsIn(e, p), WaitsIn(e, q)
    PROVE  p = q /\ e.op = OpOf(q)
BY MutexesAssumption DEF WaitsIn, OpOf, Queue, IpcQueue, DriverQueue

\* Resuming the first waiter of a queue changes that queue.
LEMMA AffectsResumeFirst ==
    ASSUME NEW s, NEW d, WaitInv(s, d), NEW q \in Queue, NEW ops, NEW qs,
           OpOf(q) \in ops, q \in qs
    PROVE  Affects(s, d, ResumeFirst(s, q), d, ops, qs)
<1>1. CASE s.list[q] = <<>>
  BY <1>1 DEF ResumeFirst, Affects
<1>2. CASE s.list[q] # <<>>
  <2> DEFINE t == Head(s.list[q])
  <2>1. t \in Thread /\ WaitsIn(d[t], q)
    BY <1>2, FirstWaits
  <2> HIDE DEF t
  <2>2. d[t].op \in ops /\ \A p \in Queue : WaitsIn(d[t], p) => p \in qs
    BY <2>1, OneQueue
  <2>3. Affects(s, d, Resume(s, t), d, ops, qs)
    BY <2>1, <2>2, AffectsResume
  <2> QED  BY <1>2, <2>3 DEF ResumeFirst, t
<1> QED  BY <1>1, <1>2

\* So does resuming all of them.
LEMMA AffectsResumeAll ==
    ASSUME NEW s, NEW d, WaitInv(s, d), NEW q \in Queue, NEW ops, NEW qs,
           OpOf(q) \in ops, q \in qs
    PROVE  Affects(s, d, ResumeAll(s, q), d, ops, qs)
<1> DEFINE r == ResumeAll(s, q)
<1>0. s \in Waits
  BY DEF WaitInv
<1>1. /\ r.app = s.app
      /\ \A p \in Queue : r.list[p] = IF p = q THEN <<>> ELSE s.list[p]
  BY <1>0, ResumeAllFields
<1>2. \A u \in Thread :
         /\ r.stat[u] = IF u \in ToSet(s.list[q]) THEN "READY" ELSE s.stat[u]
         /\ r.error[u] = IF u \in ToSet(s.list[q]) THEN "ERROR" ELSE s.error[u]
  BY <1>0, ResumeAllFields
<1>3. \A u \in ToSet(s.list[q]) : d[u].op = OpOf(q)
  BY OneQueue DEF WaitInv
<1> HIDE DEF r
<1> QED  BY <1>1, <1>2, <1>3 DEF Affects, r

\* A step that only changes the priorities, and the errors of threads in ops.
LEMMA AffectsFields ==
    ASSUME NEW s, NEW d, NEW r, NEW ops, NEW qs,
           r.app = s.app, r.stat = s.stat, r.list = s.list,
           \A u \in Thread : d[u].op \notin ops => r.error[u] = s.error[u]
    PROVE  Affects(s, d, r, d, ops, qs)
BY DEF Affects

-----------------------------------------------------------------------------

\* A step keeps the lists and the calls together and leaves the priorities; it
\* concerns the threads in the calls ops, and the lists qs.
Step(s, c, r, d, ops, qs) ==
    WaitInv(r, d) /\ Affects(s, c, r, d, ops, qs) /\ r.prio = s.prio

\* Two steps in one section with interrupts disabled.
LEMMA StepTrans ==
    ASSUME NEW s1, NEW c1, NEW s2, NEW c2, NEW s3, NEW c3, NEW ops, NEW qs,
           Step(s1, c1, s2, c2, ops, qs), Step(s2, c2, s3, c3, ops, qs)
    PROVE  Step(s1, c1, s3, c3, ops, qs)
BY AffectsTrans DEF Step

\* No step at all.
LEMMA StepNone ==
    ASSUME NEW s, NEW d, WaitInv(s, d), NEW ops, NEW qs
    PROVE  Step(s, d, s, d, ops, qs)
BY DEF Step, Affects

\* A ready thread, or a handler, gets on with its call.
LEMMA StepStay ==
    ASSUME NEW s, NEW d, WaitInv(s, d), NEW c \in Caller, NEW e, NEW ops, NEW qs,
           c \in Thread => s.stat[c] = "READY" /\ d[c].op \in ops /\ e.op \in ops,
           c \in Isr => ~WaitsIn(e, "mq")
    PROVE  Step(s, d, s, [d EXCEPT ![c] = e], ops, qs)
<1>1. WaitInv(s, [d EXCEPT ![c] = e])
  BY WaitInvStay
<1>2. Affects(s, d, s, [d EXCEPT ![c] = e], ops, qs)
  BY AffectsStay
<1> QED  BY <1>1, <1>2 DEF Step

\* A ready thread suspends itself in the call e (rt_ipc_list_suspend).
LEMMA StepSuspend ==
    ASSUME NEW s, NEW d, WaitInv(s, d), NEW q \in Queue, NEW t \in Thread, NEW timed \in BOOLEAN,
           NEW e, NEW ops, NEW qs,
           s.stat[t] = "READY", WaitsIn(e, q), q \in qs, d[t].op \in ops, e.op \in ops
    PROVE  Step(s, d, SuspendOn(s, q, t, timed), [d EXCEPT ![t] = e], ops, qs)
<1>1. WaitInv(SuspendOn(s, q, t, timed), [d EXCEPT ![t] = e])
  BY WaitInvSuspend
<1>2. Affects(s, d, SuspendOn(s, q, t, timed), [d EXCEPT ![t] = e], ops, qs)
  BY AffectsSuspend
<1>3. SuspendOn(s, q, t, timed).prio = s.prio
  BY SuspendOnFields DEF WaitInv
<1> QED  BY <1>1, <1>2, <1>3 DEF Step

\* The first waiter of a list is resumed (rt_ipc_list_resume).
LEMMA StepResumeFirst ==
    ASSUME NEW s, NEW d, WaitInv(s, d), NEW q \in Queue, NEW ops, NEW qs,
           OpOf(q) \in ops, q \in qs
    PROVE  Step(s, d, ResumeFirst(s, q), d, ops, qs)
<1>1. WaitInv(ResumeFirst(s, q), d)
  BY WaitInvResumeFirst
<1>2. Affects(s, d, ResumeFirst(s, q), d, ops, qs)
  BY AffectsResumeFirst
<1>3. ResumeFirst(s, q).prio = s.prio
  <2>1. CASE s.list[q] = <<>>
    BY <2>1 DEF ResumeFirst
  <2>2. CASE s.list[q] # <<>>
    <3>1. Head(s.list[q]) \in Thread /\ s \in Waits
      BY <2>2, FirstWaits DEF WaitInv
    <3>2. Resume(s, Head(s.list[q])).prio = s.prio
      BY <3>1, ResumeFields
    <3> QED  BY <2>2, <3>2 DEF ResumeFirst
  <2> QED  BY <2>1, <2>2
<1> QED  BY <1>1, <1>2, <1>3 DEF Step

\* All waiters of a list are resumed with an error (rt_ipc_list_resume_all).
LEMMA StepResumeAll ==
    ASSUME NEW s, NEW d, WaitInv(s, d), NEW q \in Queue, NEW ops, NEW qs,
           OpOf(q) \in ops, q \in qs
    PROVE  Step(s, d, ResumeAll(s, q), d, ops, qs)
<1>1. WaitInv(ResumeAll(s, q), d)
  BY WaitInvResumeAll
<1>2. Affects(s, d, ResumeAll(s, q), d, ops, qs)
  BY AffectsResumeAll
<1>3. ResumeAll(s, q).prio = s.prio
  BY ResumeAllFields DEF WaitInv
<1> QED  BY <1>1, <1>2, <1>3 DEF Step

\* The error of a ready thread in a call of ops is set.
LEMMA StepError ==
    ASSUME NEW s, NEW d, WaitInv(s, d), NEW t \in Thread, NEW e \in {"EOK", "ETIMEOUT", "ERROR"},
           NEW ops, NEW qs, d[t].op \in ops, s.stat[t] = "READY"
    PROVE  Step(s, d, [s EXCEPT !.error[t] = e], d, ops, qs)
<1> DEFINE r == [s EXCEPT !.error[t] = e]
<1>1. s \in Waits
  BY DEF WaitInv
<1>2. /\ r \in Waits /\ r.app = s.app /\ r.stat = s.stat /\ r.timer = s.timer
      /\ r.list = s.list /\ r.prio = s.prio
      /\ \A u \in Thread : u # t => r.error[u] = s.error[u]
  <2>1. r \in Waits
    BY <1>1, ZenonT(40) DEF Waits
  <2>2. /\ r.app = s.app /\ r.stat = s.stat /\ r.timer = s.timer
        /\ r.list = s.list /\ r.prio = s.prio
    BY <1>1 DEF Waits
  <2>3. \A u \in Thread : u # t => r.error[u] = s.error[u]
    BY <1>1 DEF Waits
  <2> HIDE DEF r
  <2> QED  BY <2>1, <2>2, <2>3
<1> HIDE DEF r
<1>3. WaitInv(r, d)
  BY <1>2, WaitInvFields
<1>4. Affects(s, d, r, d, ops, qs)
  BY <1>2 DEF Affects
<1> QED  BY <1>2, <1>3, <1>4 DEF Step, r

\* The waiters of a list in another order.
LEMMA StepReorder ==
    ASSUME NEW s, NEW d, WaitInv(s, d), NEW q \in Queue, NEW l \in Seq(Thread),
           IsInjective(l), ToSet(l) = ToSet(s.list[q]), NEW ops, NEW qs, q \in qs
    PROVE  Step(s, d, [s EXCEPT !.list[q] = l], d, ops, qs)
<1> DEFINE r == [s EXCEPT !.list[q] = l]
<1>1. s \in Waits /\ Linked(s)
  BY DEF WaitInv
<1>2. /\ r \in Waits /\ r.app = s.app /\ r.stat = s.stat /\ r.timer = s.timer
      /\ r.error = s.error /\ r.prio = s.prio
      /\ \A p \in Queue : r.list[p] = IF p = q THEN l ELSE s.list[p]
  BY <1>1, ZenonT(40) DEF Waits
<1> HIDE DEF r
<1>3. \A p \in Queue : ToSet(r.list[p]) = ToSet(s.list[p]) /\ IsInjective(r.list[p])
  BY <1>1, <1>2 DEF Linked
<1>4. WaitInv(r, d)
  BY <1>2, <1>3 DEF WaitInv, Linked
<1>5. Affects(s, d, r, d, ops, qs)
  BY <1>2 DEF Affects
<1> QED  BY <1>2, <1>4, <1>5 DEF Step, r

\* A thread is resumed and gets an error: rt_thread_timeout, or the body of
\* rt_ipc_list_resume_all.
LEMMA StepResumeError ==
    ASSUME NEW s, NEW d, WaitInv(s, d), NEW t \in Thread, NEW e \in {"ETIMEOUT", "ERROR"},
           NEW ops, NEW qs, d[t].op \in ops, \A q \in Queue : WaitsIn(d[t], q) => q \in qs
    PROVE  Step(s, d, [Resume(s, t) EXCEPT !.error[t] = e], d, ops, qs)
<1> DEFINE r == Resume(s, t)
<1>1. WaitInv(r, d) /\ Affects(s, d, r, d, ops, qs)
  BY WaitInvResume, AffectsResume
<1>2. r.prio = s.prio
  BY ResumeFields DEF WaitInv
<1>r. \A u \in Thread : r.stat[u] = IF u = t THEN "READY" ELSE s.stat[u]
  BY ResumeFields DEF WaitInv
<1> HIDE DEF r
<1>3. Step(r, d, [r EXCEPT !.error[t] = e], d, ops, qs)
  BY <1>1, <1>r, StepError
<1>4. Step(s, d, r, d, ops, qs)
  BY <1>1, <1>2 DEF Step
<1> QED  BY <1>3, <1>4, StepTrans DEF r

-----------------------------------------------------------------------------

\* The threads in the call op that were resumed without an error and have not
\* run yet.
Woke(s, d, op) == {t \in Thread : d[t].op = op /\ s.stat[t] = "READY" /\ s.error[t] = "EOK"}

\* The threads that were resumed and have not run yet can be counted.
LEMMA WokeFinite ==
    ASSUME NEW s, NEW d, NEW op
    PROVE  IsFiniteSet(Woke(s, d, op)) /\ Cardinality(Woke(s, d, op)) \in Nat
<1>1. Woke(s, d, op) \subseteq Thread
  BY DEF Woke
<1> QED  BY <1>1, ThreadAssumption, FS_Subset, FS_CardinalityType

\* A step of other calls resumes nobody of this one.
LEMMA WokeForeign ==
    ASSUME NEW s, NEW c, NEW r, NEW d, NEW ops, NEW qs, Affects(s, c, r, d, ops, qs),
           NEW op, op \notin ops
    PROVE  Woke(r, d, op) = Woke(s, c, op) /\ \A t \in Woke(s, c, op) : d[t] = c[t]
BY DEF Woke, Affects

\* A ready thread changes its call.
LEMMA WokeStay ==
    ASSUME NEW s, NEW d, WaitInv(s, d), NEW t \in Thread, NEW e, NEW op
    PROVE  /\ e.op # op => Woke(s, [d EXCEPT ![t] = e], op) = Woke(s, d, op) \ {t}
           /\ d[t].op = op /\ e.op = op => Woke(s, [d EXCEPT ![t] = e], op) = Woke(s, d, op)
<1>1. \A u \in Thread : [d EXCEPT ![t] = e][u] = IF u = t THEN e ELSE d[u]
  BY DEF WaitInv, Caller
<1> QED  BY <1>1 DEF Woke

\* A thread that suspends itself is not one of them any more.
LEMMA WokeSuspend ==
    ASSUME NEW s, NEW d, WaitInv(s, d), NEW q \in Queue, NEW t \in Thread, NEW timed \in BOOLEAN,
           NEW e, NEW op
    PROVE  Woke(SuspendOn(s, q, t, timed), [d EXCEPT ![t] = e], op) = Woke(s, d, op) \ {t}
<1> DEFINE r == SuspendOn(s, q, t, timed)
<1>0. s \in Waits
  BY DEF WaitInv
<1>1. \A u \in Thread : [d EXCEPT ![t] = e][u] = IF u = t THEN e ELSE d[u]
  BY DEF WaitInv, Caller
<1>3. \A u \in Thread : /\ r.stat[u] = IF u = t THEN "SUSPEND" ELSE s.stat[u]
                        /\ r.error[u] = IF u = t THEN "EOK" ELSE s.error[u]
  BY <1>0, SuspendOnFields
<1> HIDE DEF r
<1> QED  BY <1>1, <1>3 DEF Woke, r

\* The first waiter of a list becomes one of them.
LEMMA WokeResumeFirst ==
    ASSUME NEW s, NEW d, WaitInv(s, d), NEW q \in Queue, NEW op
    PROVE  /\ op # OpOf(q) \/ s.list[q] = <<>> => Woke(ResumeFirst(s, q), d, op) = Woke(s, d, op)
           /\ op = OpOf(q) /\ s.list[q] # <<>> =>
                 /\ Woke(ResumeFirst(s, q), d, op) = Woke(s, d, op) \cup {Head(s.list[q])}
                 /\ Head(s.list[q]) \notin Woke(s, d, op)
<1>1. CASE s.list[q] = <<>>
  BY <1>1 DEF ResumeFirst
<1>2. CASE s.list[q] # <<>>
  <2> DEFINE t == Head(s.list[q])
             r == ResumeFirst(s, q)
  <2>1. t \in Thread /\ WaitsIn(d[t], q) /\ s.stat[t] = "SUSPEND"
    BY <1>2, FirstWaits
  <2>2. d[t].op = OpOf(q) /\ s.error[t] = "EOK"
    BY <2>1, OneQueue DEF WaitInv, Linked
  <2>3. r.error = s.error
    BY ResumeFirstFields
  <2>4. \A u \in Thread : r.stat[u] = IF u = t THEN "READY" ELSE s.stat[u]
    BY <1>2, ResumeFirstFields
  <2> HIDE DEF t, r
  <2>5. op # OpOf(q) => Woke(r, d, op) = Woke(s, d, op)
    BY <2>2, <2>3, <2>4 DEF Woke
  <2>6. op = OpOf(q) => Woke(r, d, op) = Woke(s, d, op) \cup {t}
    BY <2>1, <2>2, <2>3, <2>4 DEF Woke
  <2>7. t \notin Woke(s, d, op)
    BY <2>1 DEF Woke
  <2> QED  BY <1>2, <2>5, <2>6, <2>7 DEF t, r
<1> QED  BY <1>1, <1>2

\* Threads that are resumed with an error do not.
LEMMA WokeResumeAll ==
    ASSUME NEW s, NEW d, WaitInv(s, d), NEW q \in Queue, NEW op
    PROVE  Woke(ResumeAll(s, q), d, op) = Woke(s, d, op)
<1> DEFINE r == ResumeAll(s, q)
<1>0. s \in Waits
  BY DEF WaitInv
<1>1. \A u \in Thread :
         /\ r.stat[u] = IF u \in ToSet(s.list[q]) THEN "READY" ELSE s.stat[u]
         /\ r.error[u] = IF u \in ToSet(s.list[q]) THEN "ERROR" ELSE s.error[u]
  BY <1>0, ResumeAllFields
<1>2. \A u \in Thread : u \in ToSet(s.list[q]) => s.stat[u] = "SUSPEND"
  BY DEF WaitInv, Linked
<1> HIDE DEF r
<1> QED  BY <1>1, <1>2 DEF Woke, r

Evict(s, t, e) == [Resume(s, t) EXCEPT !.error[t] = e]

\* A waiter is resumed with an error: it leaves its list, and nothing else changes.
LEMMA Evicted ==
    ASSUME NEW s, NEW d, WaitInv(s, d), NEW t \in Thread, s.stat[t] = "SUSPEND",
           NEW e \in {"ETIMEOUT", "ERROR"}, NEW r, r = Evict(s, t, e)
    PROVE  /\ WaitInv(r, d) /\ r.prio = s.prio /\ r.app = s.app
           /\ \A op : Woke(r, d, op) = Woke(s, d, op)
           /\ \A q \in Queue : ToSet(r.list[q]) = ToSet(s.list[q]) \ {t}
                               /\ Len(r.list[q]) <= Len(s.list[q])
                               /\ r.list[q] = RemoveFirst(s.list[q], t)
<1> DEFINE a == Resume(s, t)
<1>0. s \in Waits /\ Linked(s)
  BY DEF WaitInv
<1>1. /\ a \in Waits /\ a.app = s.app /\ a.prio = s.prio /\ a.error = s.error
      /\ \A q \in Queue : a.list[q] = RemoveFirst(s.list[q], t)
  BY <1>0, ResumeFields
<1>2. \A u \in Thread : a.stat[u] = IF u = t THEN "READY" ELSE s.stat[u]
  BY <1>0, ResumeFields
<1>3. \A q \in Queue : /\ ToSet(a.list[q]) = ToSet(s.list[q]) \ {t}
                       /\ t \notin ToSet(s.list[q]) => a.list[q] = s.list[q]
                       /\ t \in ToSet(s.list[q]) => Len(a.list[q]) = Len(s.list[q]) - 1
  BY <1>0, ResumeLists
<1>4. \A q \in Queue : Len(s.list[q]) \in Nat
  BY <1>0, ListType
<1>5. WaitInv(r, d)
  <2> DEFINE ops == {d[t].op}
  <2>1. d[t].op \in ops /\ \A q \in Queue : WaitsIn(d[t], q) => q \in Queue
    OBVIOUS
  <2> HIDE DEF ops
  <2>2. Step(s, d, [Resume(s, t) EXCEPT !.error[t] = e], d, ops, Queue)
    BY <2>1, StepResumeError
  <2> QED  BY <2>2 DEF Step, Evict
<1> HIDE DEF a
<1>6. /\ r.prio = a.prio /\ r.app = a.app /\ r.list = a.list /\ r.stat = a.stat
      /\ \A u \in Thread : r.error[u] = IF u = t THEN e ELSE a.error[u]
  BY <1>1 DEF Waits, Evict, a
<1>7. \A op : Woke(r, d, op) = Woke(s, d, op)
  BY <1>1, <1>2, <1>6 DEF Woke
<1>8. \A q \in Queue : Len(r.list[q]) <= Len(s.list[q])
  BY <1>3, <1>4, <1>6
<1> QED  BY <1>1, <1>3, <1>5, <1>6, <1>7, <1>8 DEF a

=============================================================================
