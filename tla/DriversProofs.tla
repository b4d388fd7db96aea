---------------------------- MODULE DriversProofs ----------------------------
(***************************************************************************)
(* Proofs about Drivers, for any threads, applications, sizes of rings,    *)
(* works, characters and DMA transfers.                                    *)
(*                                                                         *)
(* Every object has an invariant of its own (DoneInv, WorkInv, PipeInv,    *)
(* DqInv, DmaInv) that relates its state to the threads on its lists and   *)
(* to the calls in progress.  The step of an object is shown to keep its   *)
(* invariant and to touch no other call and no other list (Frame,          *)
(* Affects); a time-out or a reset takes one thread off a list (Evicts).   *)
(* The invariants of the other objects are kept by what such steps leave   *)
(* alone, so that each invariant meets only its own steps in detail.       *)
(*                                                                         *)
(* Rings are related to sequences: Bytes and Queued read a ring from its   *)
(* get index, and a put appends, a get takes a prefix and a push over a    *)
(* full buffer drops the head.  The refinements of Stream and              *)
(* BoundedQueue follow from that and the invariants.                       *)
(*                                                                         *)
(* A call on the SPI bus is a sequence of steps, proved to be a path       *)
(* (Path) through what its thread may rely on (Stage): every step may be   *)
(* taken at its stage, and the last stage holds nothing.  The invariant    *)
(* SpiInv ties the bus and the chip to the stage of every thread.          *)
(*                                                                         *)
(* The theorems speak of applications that are Orderly, the use that the   *)
(* drivers were written for: an object has one waiter or writer of a       *)
(* kind, and a pusher waits without limit.  The objects resume one         *)
(* thread at a time and keep one mark for it, so with more of them they    *)
(* promise less.                                                           *)
(***************************************************************************)
EXTENDS Drivers, IpcWaitProofs

-----------------------------------------------------------------------------
(* Waiting at the end of a list.                                            *)

\* SuspendLast, field by field.
LEMMA SuspendLastFields ==
    ASSUME NEW s \in Waits, NEW q \in Queue, NEW t \in Thread, NEW timed \in BOOLEAN
    PROVE  /\ SuspendLast(s, q, t, timed) \in Waits
           /\ SuspendLast(s, q, t, timed).app = s.app
           /\ \A u \in Thread :
                 LET r == SuspendLast(s, q, t, timed)
                 IN  /\ r.stat[u] = IF u = t THEN "SUSPEND" ELSE s.stat[u]
                     /\ r.error[u] = IF u = t THEN "EOK" ELSE s.error[u]
                     /\ r.timer[u] <=> IF u = t THEN timed ELSE s.timer[u]
           /\ \A p \in Queue :
                 SuspendLast(s, q, t, timed).list[p]
                    = IF p = q THEN Append(s.list[q], t) ELSE s.list[p]
<1>1. Append(s.list[q], t) \in Seq(Thread)
  BY ListType
<1>2. s.timer \in [Thread -> BOOLEAN]
  BY DEF Waits
<1>3. [s.timer EXCEPT ![t] = timed] \in [Thread -> BOOLEAN]
  BY <1>2, Zenon
<1>4. \A u \in Thread : [s.timer EXCEPT ![t] = timed][u] <=> IF u = t THEN timed ELSE s.timer[u]
  BY <1>2, Zenon
<1> DEFINE timer == [s.timer EXCEPT ![t] = timed]
           stat == [s.stat EXCEPT ![t] = "SUSPEND"]
           error == [s.error EXCEPT ![t] = "EOK"]
           list == [s.list EXCEPT ![q] = Append(s.list[q], t)]
           r == [s EXCEPT !.stat = stat, !.error = error, !.timer = timer, !.list = list]
<1>5. SuspendLast(s, q, t, timed) = r
  BY DEF SuspendLast, Waits
<1>6. /\ stat \in [Thread -> {"READY", "SUSPEND"}]
      /\ error \in [Thread -> {"EOK", "ETIMEOUT", "ERROR"}]
      /\ list \in [Queue -> Seq(Thread)]
  BY <1>1 DEF Waits
<1>7. /\ \A u \in Thread : /\ stat[u] = IF u = t THEN "SUSPEND" ELSE s.stat[u]
                           /\ error[u] = IF u = t THEN "EOK" ELSE s.error[u]
      /\ \A p \in Queue : list[p] = IF p = q THEN Append(s.list[q], t) ELSE s.list[p]
  BY DEF Waits
<1>8. timer \in [Thread -> BOOLEAN]
  BY <1>3
<1> HIDE DEF timer, stat, error, list
<1>9. /\ r \in Waits /\ r.app = s.app
      /\ r.stat = stat /\ r.error = error /\ r.timer = timer /\ r.list = list
  BY <1>6, <1>8, ZenonT(40) DEF Waits
<1> HIDE DEF r
<1> QED  BY <1>4, <1>5, <1>7, <1>9, Zenon DEF timer

\* A ready thread suspends itself in a call that waits on the list.
LEMMA WaitInvLast ==
    ASSUME NEW s, NEW d, WaitInv(s, d), NEW q \in Queue, NEW t \in Thread, s.stat[t] = "READY",
           NEW timed \in BOOLEAN, NEW e, WaitsIn(e, q)
    PROVE  WaitInv(SuspendLast(s, q, t, timed), [d EXCEPT ![t] = e])
<1> DEFINE r == SuspendLast(s, q, t, timed)
           d2 == [d EXCEPT ![t] = e]
<1>0. s \in Waits /\ Linked(s)
  BY DEF WaitInv
<1>1. t \in Caller /\ t \notin Isr
  BY ThreadAssumption DEF Caller
<1>2. WaitInv(s, d2)
  BY <1>1, WaitInvStay
<1>3. WaitsIn(d2[t], q)
  BY <1>1 DEF WaitInv
<1>4. /\ r \in Waits
      /\ \A p \in Queue : r.list[p] = IF p = q THEN Append(s.list[q], t) ELSE s.list[p]
  BY <1>0, SuspendLastFields
<1>5. \A u \in Thread : /\ r.stat[u] = IF u = t THEN "SUSPEND" ELSE s.stat[u]
                        /\ r.error[u] = IF u = t THEN "EOK" ELSE s.error[u]
  BY <1>0, SuspendLastFields
<1>6. \A u \in Thread : r.timer[u] => u = t \/ s.timer[u]
  BY <1>0, SuspendLastFields
<1>7. \A p \in Queue : t \notin ToSet(s.list[p])
  BY <1>0 DEF Linked
<1>8. s.list[q] \in Seq(Thread)
  BY <1>0, ListType
<1>9. ToSet(Append(s.list[q], t)) = ToSet(s.list[q]) \cup {t} /\ IsInjective(Append(s.list[q], t))
  BY <1>0, <1>7, <1>8, AppendSet DEF Linked
<1> HIDE DEF r, d2
<1>10. /\ \A p \in Queue : IsInjective(r.list[p])
       /\ \A p \in Queue : ToSet(r.list[p]) = IF p = q THEN ToSet(s.list[q]) \cup {t} ELSE ToSet(s.list[p])
  BY <1>0, <1>4, <1>9 DEF Linked
<1>11. \A p, p2 \in Queue : \A u \in Thread :
          u \in ToSet(r.list[p]) /\ u \in ToSet(r.list[p2]) => p = p2
  BY <1>0, <1>7, <1>10 DEF Linked
<1>12. \A u \in Thread : r.stat[u] = "SUSPEND" <=> \E p \in Queue : u \in ToSet(r.list[p])
  BY <1>0, <1>5, <1>10 DEF Linked
<1>13. \A u \in Thread : r.timer[u] => r.stat[u] = "SUSPEND"
  BY <1>0, <1>5, <1>6 DEF Linked
<1>14. \A u \in Thread : r.stat[u] = "SUSPEND" => r.error[u] = "EOK"
  BY <1>0, <1>5 DEF Linked
<1>15. Linked(r)
  BY <1>10, <1>11, <1>12, <1>13, <1>14 DEF Linked
<1>16. \A p \in Queue : \A u \in ToSet(r.list[p]) : WaitsIn(d2[u], p)
  BY <1>2, <1>3, <1>10 DEF WaitInv
<1> QED  BY <1>2, <1>4, <1>15, <1>16 DEF WaitInv, r, d2

-----------------------------------------------------------------------------
(* What every step keeps.                                                   *)

\* What a call goes on with.
CallOK(e) ==
    /\ "op" \in DOMAIN e
    /\ e.op = "done" => "op" \in DOMAIN e.back /\ e.back.op \in {"idle", "int_tx"}
    /\ e.op = "dq_push" => e.mail \in Mail /\ e.back \in {Idle, DmaCheck(e.mail)}
    /\ e.op = "pipe_rd" => e.size \in 1..MaxWrite
    /\ e.op = "pipe_wr" => e.string \in Strings

LEMMA PlainCall ==
    ASSUME NEW e, "op" \in DOMAIN e, e.op \notin {"done", "dq_push", "pipe_rd", "pipe_wr"}
    PROVE  CallOK(e)
BY DEF CallOK

\* A list has the threads that wait on it; only a wait for a completion or for data
\* has a timeout.
BaseOK(s, d) ==
    /\ WaitInv(s, d)
    /\ \A u \in Thread : CallOK(d[u])
    /\ \A u \in Thread : s.timer[u] => d[u].op \in {"done", "dq_pop"}

\* A step that concerns threads in the calls ops, and the lists qs.
Frame(s, c, r, d, ops, qs) == BaseOK(r, d) /\ Affects(s, c, r, d, ops, qs)

LEMMA DriverQueues == DriverQueue \subseteq Queue /\ DriverQueue \cap Mutexes = {} /\ "mq" \notin DriverQueue
BY MutexesAssumption DEF Queue, DriverQueue

LEMMA DriverWaits == ASSUME NEW q \in DriverQueue, NEW e PROVE (WaitsIn(e, q) <=> e.op = q) /\ OpOf(q) = q
BY DriverQueues DEF WaitsIn, OpOf

\* Two changes in one section.
LEMMA FrameTrans ==
    ASSUME NEW s1, NEW c1, NEW s2, NEW c2, NEW s3, NEW c3, NEW ops, NEW qs,
           Affects(s1, c1, s2, c2, ops, qs), Frame(s2, c2, s3, c3, ops, qs)
    PROVE  Frame(s1, c1, s3, c3, ops, qs)
BY AffectsTrans DEF Frame

LEMMA FrameNone ==
    ASSUME NEW s, NEW d, BaseOK(s, d), NEW ops, NEW qs
    PROVE  Frame(s, d, s, d, ops, qs)
BY DEF Frame, Affects

\* A ready thread gets on with its call.
LEMMA FrameStay ==
    ASSUME NEW s, NEW d, BaseOK(s, d), NEW t \in Thread, s.stat[t] = "READY", NEW e,
           CallOK(e), NEW ops, NEW qs, d[t].op \in ops, e.op \in ops
    PROVE  Frame(s, d, s, [d EXCEPT ![t] = e], ops, qs)
<1> DEFINE d2 == [d EXCEPT ![t] = e]
<1>0. WaitInv(s, d) /\ t \in Caller /\ t \notin Isr
  BY ThreadAssumption DEF BaseOK, Caller
<1>1. WaitInv(s, d2)
  BY <1>0, WaitInvStay
<1>2. Affects(s, d, s, d2, ops, qs)
  BY <1>0, AffectsStay
<1>3. \A u \in Thread : d2[u] = IF u = t THEN e ELSE d[u]
  BY <1>0 DEF WaitInv, Caller
<1>4. ~s.timer[t]
  BY <1>0 DEF WaitInv, Linked
<1> HIDE DEF d2
<1> QED  BY <1>1, <1>2, <1>3, <1>4 DEF Frame, BaseOK, d2

\* A ready thread suspends itself.
LEMMA FrameSuspend ==
    ASSUME NEW s, NEW d, BaseOK(s, d), NEW t \in Thread, s.stat[t] = "READY", NEW e,
           NEW q \in DriverQueue, CallOK(e), e.op = q, NEW timed \in BOOLEAN,
           timed => q \in {"done", "dq_pop"}, NEW ops, NEW qs, d[t].op \in ops, q \in ops, q \in qs
    PROVE  /\ Frame(s, d, SuspendLast(s, q, t, timed), [d EXCEPT ![t] = e], ops, qs)
           /\ SuspendLast(s, q, t, timed).list[q] = Append(s.list[q], t)
           /\ SuspendLast(s, q, t, timed).app = s.app
           /\ \A p \in Queue : p # q => SuspendLast(s, q, t, timed).list[p] = s.list[p]
           /\ \A u \in Thread :
                 /\ SuspendLast(s, q, t, timed).stat[u] = IF u = t THEN "SUSPEND" ELSE s.stat[u]
                 /\ SuspendLast(s, q, t, timed).error[u] = IF u = t THEN "EOK" ELSE s.error[u]
<1> DEFINE d2 == [d EXCEPT ![t] = e]
           r == SuspendLast(s, q, t, timed)
<1>0. WaitInv(s, d) /\ s \in Waits /\ q \in Queue /\ WaitsIn(e, q)
  BY DriverQueues, DriverWaits DEF BaseOK, WaitInv
<1>1. WaitInv(r, d2)
  BY <1>0, WaitInvLast
<1>2. /\ r.app = s.app
      /\ \A p \in Queue : r.list[p] = IF p = q THEN Append(s.list[q], t) ELSE s.list[p]
  BY <1>0, SuspendLastFields
<1>3. \A u \in Thread : /\ r.stat[u] = IF u = t THEN "SUSPEND" ELSE s.stat[u]
                        /\ r.error[u] = IF u = t THEN "EOK" ELSE s.error[u]
  BY <1>0, SuspendLastFields
<1>4. \A u \in Thread : r.timer[u] => (u = t /\ timed) \/ (u # t /\ s.timer[u])
  BY <1>0, SuspendLastFields
<1>5. \A u \in Thread : d2[u] = IF u = t THEN e ELSE d[u]
  BY <1>0 DEF WaitInv, Caller
<1> HIDE DEF r, d2
<1>6. Affects(s, d, r, d2, ops, qs)
  BY <1>0, <1>2, <1>3, <1>5 DEF Affects
<1>7. BaseOK(r, d2)
  BY <1>1, <1>4, <1>5 DEF BaseOK
<1> QED  BY <1>0, <1>2, <1>3, <1>6, <1>7 DEF Frame, r, d2

\* The first waiter of a list is resumed.
LEMMA FrameResume ==
    ASSUME NEW s, NEW d, BaseOK(s, d), NEW q \in DriverQueue, NEW ops, NEW qs, q \in ops, q \in qs
    PROVE  Frame(s, d, ResumeFirst(s, q), d, ops, qs)
<1> DEFINE r == ResumeFirst(s, q)
<1>0. WaitInv(s, d) /\ s \in Waits /\ q \in Queue /\ OpOf(q) \in ops
  BY DriverQueues, DriverWaits DEF BaseOK, WaitInv
<1>1. WaitInv(r, d)
  BY <1>0, WaitInvResumeFirst
<1>2. Affects(s, d, r, d, ops, qs)
  BY <1>0, AffectsResumeFirst
<1>3. \A u \in Thread : r.timer[u] => s.timer[u]
  <2>1. CASE s.list[q] = <<>>
    BY <2>1 DEF ResumeFirst
  <2>2. CASE s.list[q] # <<>>
    <3>1. Head(s.list[q]) \in Thread
      BY <1>0, <2>2, FirstWaits
    <3>2. r = Resume(s, Head(s.list[q]))
      BY <2>2 DEF ResumeFirst
    <3> QED  BY <1>0, <3>1, <3>2, ResumeFields
  <2> QED  BY <2>1, <2>2
<1> HIDE DEF r
<1> QED  BY <1>1, <1>2, <1>3 DEF Frame, BaseOK, r

\* A thread goes on and the first waiter of a list is resumed.
LEMMA FrameStayResume ==
    ASSUME NEW s, NEW d, BaseOK(s, d), NEW t \in Thread, s.stat[t] = "READY", NEW e,
           CallOK(e), NEW ops, NEW qs, d[t].op \in ops, e.op \in ops,
           NEW q \in DriverQueue, q \in ops, q \in qs
    PROVE  Frame(s, d, ResumeFirst(s, q), [d EXCEPT ![t] = e], ops, qs)
<1>1. Frame(s, d, s, [d EXCEPT ![t] = e], ops, qs)
  BY FrameStay
<1>2. Frame(s, [d EXCEPT ![t] = e], ResumeFirst(s, q), [d EXCEPT ![t] = e], ops, qs)
  BY <1>1, FrameResume DEF Frame
<1> QED  BY <1>1, <1>2, FrameTrans DEF Frame

\* A waiter is resumed with an error.
Evicts(s, d, r, t) ==
    /\ BaseOK(r, d) /\ r.app = s.app
    /\ \A u \in Thread : u # t => r.stat[u] = s.stat[u] /\ r.error[u] = s.error[u]
    /\ \A op : Woke(r, d, op) = Woke(s, d, op)
    /\ \A q \in Queue : ToSet(r.list[q]) = ToSet(s.list[q]) \ {t}
                        /\ Len(r.list[q]) <= Len(s.list[q])

LEMMA EvictsWaiter ==
    ASSUME NEW s, NEW d, BaseOK(s, d), NEW t \in Thread, s.stat[t] = "SUSPEND",
           NEW e \in {"ETIMEOUT", "ERROR"}, NEW r, r = Evict(s, t, e)
    PROVE  Evicts(s, d, r, t)
<1> DEFINE a == Resume(s, t)
<1>0. WaitInv(s, d) /\ s \in Waits /\ Linked(s)
  BY DEF BaseOK, WaitInv
<1>1. WaitInv(r, d) /\ r.app = s.app
  BY <1>0, Evicted
<1>7. ASSUME NEW op PROVE Woke(r, d, op) = Woke(s, d, op)
  BY <1>0, Evicted
<1>2. a \in Waits /\ a.error = s.error
  BY <1>0, ResumeFields
<1>3. \A u \in Thread : a.stat[u] = IF u = t THEN "READY" ELSE s.stat[u]
  BY <1>0, ResumeFields
<1>4. \A u \in Thread : a.timer[u] => s.timer[u]
  BY <1>0, ResumeFields
<1>8. \A q \in Queue : /\ ToSet(a.list[q]) = ToSet(s.list[q]) \ {t}
                       /\ t \notin ToSet(s.list[q]) => a.list[q] = s.list[q]
                       /\ t \in ToSet(s.list[q]) => Len(a.list[q]) = Len(s.list[q]) - 1
  BY <1>0, ResumeLists
<1>9. \A q \in Queue : Len(s.list[q]) \in Nat
  BY <1>0, ListType
<1> HIDE DEF a
<1>5. r.stat = a.stat /\ r.list = a.list /\ r.timer = a.timer /\ \A u \in Thread : u # t => r.error[u] = s.error[u]
  BY <1>2 DEF Waits, Evict, a
<1>6. BaseOK(r, d)
  BY <1>1, <1>4, <1>5 DEF BaseOK
<1> QED  BY <1>1, <1>3, <1>5, <1>6, <1>7, <1>8, <1>9 DEF Evicts

\* A step that does not concern the calls ops and the lists qs.
Foreign(ops, qs) ==
    /\ w'.app = w.app
    /\ \A q \in qs : w'.list[q] = w.list[q]
    /\ \A u \in Thread : call[u].op \in ops \/ call'[u].op \in ops =>
          call'[u] = call[u] /\ w'.stat[u] = w.stat[u] /\ w'.error[u] = w.error[u]

LEMMA AffectsOthers ==
    ASSUME NEW ops, NEW qs, Affects(w, call, w', call', ops, qs),
           NEW mine, NEW lists, mine \cap ops = {}, lists \subseteq Queue, lists \cap qs = {}
    PROVE  Foreign(mine, lists)
BY DEF Affects, Foreign

\* A list of which only one thread can be a member.
LEMMA OnlyOne ==
    ASSUME NEW s, NEW d, BaseOK(s, d), NEW q \in DriverQueue, NEW S, One(S),
           \A u \in Thread : d[u].op = q => u \in S
    PROVE  /\ ResumeFirst(s, q).list[q] = <<>>
           /\ \A t \in S \cap Thread : s.stat[t] = "READY" => s.list[q] = <<>>
<1>0. WaitInv(s, d) /\ q \in Queue /\ s.list[q] \in Seq(Thread) /\ s \in Waits
  BY DriverQueues, ListType DEF BaseOK, WaitInv
<1>1. \A u \in ToSet(s.list[q]) : u \in S /\ u \in Thread /\ s.stat[u] = "SUSPEND"
  BY <1>0, DriverWaits, ListType DEF WaitInv, Linked
<1>2. s.list[q] # <<>> => Head(s.list[q]) \in ToSet(s.list[q])
  BY <1>0, HeadTailSet
<1>3. CASE s.list[q] = <<>>
  BY <1>3 DEF ResumeFirst
<1>4. CASE s.list[q] # <<>>
  <2> DEFINE r == ResumeFirst(s, q)
  <2>1. ToSet(r.list[q]) = ToSet(s.list[q]) \ {Head(s.list[q])}
    BY <1>0, <1>4, ResumeFirstFields
  <2>2. ToSet(r.list[q]) = {}
    BY <1>1, <1>2, <1>4, <2>1 DEF One
  <2>3. r.list[q] \in Seq(Thread)
    BY <1>0, WaitInvResumeFirst, ListType DEF WaitInv
  <2> HIDE DEF r
  <2>4. r.list[q] = <<>>
    BY <2>2, <2>3, HeadTailSet
  <2> QED  BY <1>1, <1>2, <1>4, <2>4 DEF r, One
<1> QED  BY <1>3, <1>4

\* The threads that ran application code, or a call, are ready.
LEMMA RunningFacts ==
    ASSUME NEW t \in Thread
    PROVE  /\ Running(t) => t \in w.app.threads /\ w.stat[t] = "READY"
           /\ Free(t) => t \in w.app.threads /\ w.stat[t] = "READY" /\ call[t] = Idle /\ call[t].op = "idle"
           /\ \A op : Woken(t, op) => t \in w.app.threads /\ w.stat[t] = "READY" /\ call[t].op = op
BY DEF Running, Free, Woken, Idle

LEMMA IdleOp == CallOK(Idle) /\ Idle.op = "idle"
BY DEF Idle, CallOK

-----------------------------------------------------------------------------
(* The completion.                                                          *)

DoneOps == {"idle", "done", "complete", "int_tx", "int_wait"}

DoneCalls(a, d) ==
    \A u \in Thread : d[u].op = "done" =>
        u \in DoneWaiters(a)

DoneInv ==
    /\ DoneCalls(w.app, call)
    /\ flag \in BOOLEAN /\ crowded = FALSE
    /\ w.list["done"] # <<>> => ~flag

\* What a step of the completion shows.
DoneGoal ==
    /\ Frame(w, call, w', call', DoneOps, {"done"})
    /\ DoneInv /\ Orderly(w.app) => DoneInv'

LEMMA DoneQueue == "done" \in DriverQueue /\ "done" \in Queue /\ "done" \in DoneOps
BY DriverQueues DEF DriverQueue, DoneOps

\* rt_completion_wait up to rt_schedule.
LEMMA WaitDoneStep ==
    ASSUME BaseOK(w, call), NEW t \in Thread, w.stat[t] = "READY",
           t \in DoneWaiters(w.app), call[t].op \in DoneOps,
           NEW back, "op" \in DOMAIN back, back.op \in {"idle", "int_tx"},
           NEW time, WaitDone(t, time, back)
    PROVE  DoneGoal
<1>0. \A e : \A u \in Thread : [call EXCEPT ![t] = e][u] = IF u = t THEN e ELSE call[u]
  BY DEF BaseOK, WaitInv, Caller
<1>1. DoneInv /\ Orderly(w.app) => w.list["done"] = <<>>
  <2>1. DoneInv /\ Orderly(w.app) =>
          One(DoneWaiters(w.app)) /\ \A u \in Thread : call[u].op = "done" => u \in DoneWaiters(w.app)
    BY DEF DoneInv, DoneCalls, Orderly
  <2> QED  BY <2>1, DoneQueue, OnlyOne
<1>2. back.op \in DoneOps /\ CallOK(back)
  BY PlainCall DEF DoneOps
<1>3. CASE flag' \in {FALSE, flag} /\ call' = [call EXCEPT ![t] = back] /\ w' = w /\ crowded' = crowded
  <2>1. Frame(w, call, w, call', DoneOps, {"done"})
    BY <1>2, <1>3, FrameStay
  <2>2. DoneCalls(w.app, call) => DoneCalls(w.app, call')
    BY <1>0, <1>3 DEF DoneCalls
  <2> QED  BY <1>1, <1>3, <2>1, <2>2 DEF DoneGoal, DoneInv
<1>4. CASE w.list["done"] # <<>> /\ w' = w /\ call' = call
  BY <1>1, <1>4, FrameNone DEF DoneGoal
<1>5. CASE ~flag /\ time # "none" /\ w' = SuspendLast(w, "done", t, time = "timed")
           /\ call' = [call EXCEPT ![t] = [op |-> "done", back |-> back]] /\ UNCHANGED doneVars
  <2> DEFINE e == [op |-> "done", back |-> back]
  <2>1. CallOK(e) /\ e.op = "done"
    BY DEF CallOK
  <2>2. PICK timed \in BOOLEAN : timed = (time = "timed")
    OBVIOUS
  <2>3. call' = [call EXCEPT ![t] = e] /\ w' = SuspendLast(w, "done", t, timed)
    BY <1>5, <2>2
  <2>4. DoneCalls(w.app, call) => DoneCalls(w.app, call')
    BY <1>0, <2>1, <2>3 DEF DoneCalls
  <2> HIDE DEF e
  <2>5. Frame(w, call, SuspendLast(w, "done", t, timed), [call EXCEPT ![t] = e], DoneOps, {"done"})
    BY <2>1, DoneQueue, FrameSuspend
  <2>6. Frame(w, call, w', call', DoneOps, {"done"}) /\ w'.app = w.app
    BY <2>3, <2>5 DEF Frame, Affects
  <2> QED  BY <1>5, <2>4, <2>6 DEF DoneGoal, DoneInv, doneVars
<1> QED  BY <1>3, <1>4, <1>5 DEF WaitDone, Waiter, doneVars

\* The section of rt_completion_done, by a thread or by a handler.
LEMMA SectionStep ==
    ASSUME BaseOK(w, call'), Affects(w, call, w, call', DoneOps, {"done"}),
           DoneCalls(w.app, call) => DoneCalls(w.app, call'), DoneSection
    PROVE  DoneGoal
<1>1. Frame(w, call', w', call', DoneOps, {"done"})
  BY DoneQueue, FrameResume DEF DoneSection
<1>2. Frame(w, call, w', call', DoneOps, {"done"})
  BY <1>1, FrameTrans
<1>3. DoneInv /\ Orderly(w.app) => w'.list["done"] = <<>>
  <2>1. DoneInv /\ Orderly(w.app) =>
          One(DoneWaiters(w.app)) /\ \A u \in Thread : call'[u].op = "done" => u \in DoneWaiters(w.app)
    BY DEF DoneInv, DoneCalls, Orderly
  <2>2. DoneInv /\ Orderly(w.app) => ResumeFirst(w, "done").list["done"] = <<>>
    BY <2>1, DoneQueue, OnlyOne
  <2> QED  BY <2>2 DEF DoneSection
<1>4. w'.app = w.app
  BY <1>2 DEF Frame, Affects
<1> QED  BY <1>2, <1>3, <1>4 DEF DoneGoal, DoneInv, DoneSection

\* A handler signals the completion.
LEMMA IsrDoneStep ==
    ASSUME BaseOK(w, call), IsrDone
    PROVE  DoneGoal
<1>1. CASE ~flag /\ DoneSection /\ UNCHANGED call
  <2>1. Affects(w, call, w, call', DoneOps, {"done"})
    BY <1>1, FrameNone DEF Frame
  <2>2. call' = call
    BY <1>1
  <2> QED  BY <1>1, <2>1, <2>2, SectionStep
<1>2. CASE flag /\ UNCHANGED <<w, call, doneVars>>
  <2>1. w' = w /\ call' = call /\ flag' = flag /\ crowded' = crowded
    BY <1>2 DEF doneVars
  <2>2. DoneInv => DoneInv'
    BY <2>1 DEF DoneInv
  <2> QED  BY <2>1, <2>2, FrameNone DEF DoneGoal
<1> QED  BY <1>1, <1>2 DEF IsrDone

\* A thread goes on that neither waits nor is resumed.
LEMMA DoneStayStep ==
    ASSUME BaseOK(w, call), NEW t \in Thread, w.stat[t] = "READY", call[t].op \in DoneOps,
           NEW e, "op" \in DOMAIN e, e.op \in DoneOps \ {"done"}, call' = [call EXCEPT ![t] = e],
           w' = w, flag' \in {FALSE, flag}, crowded' = crowded
    PROVE  DoneGoal
<1>0. \A u \in Thread : call'[u] = IF u = t THEN e ELSE call[u]
  BY DEF BaseOK, WaitInv, Caller
<1>1. e.op \in DoneOps /\ e.op \notin {"done", "dq_push", "pipe_rd", "pipe_wr"}
  BY DEF DoneOps
<1>2. CallOK(e)
  BY <1>1, PlainCall
<1>3. Frame(w, call, w, call', DoneOps, {"done"})
  BY <1>1, <1>2, FrameStay
<1>4. DoneCalls(w.app, call) => DoneCalls(w.app, call')
  BY <1>0, <1>1 DEF DoneCalls
<1>5. DoneInv => flag' \in BOOLEAN /\ (w.list["done"] # <<>> => ~flag')
  <2>1. CASE flag' = flag
    BY <2>1 DEF DoneInv
  <2>2. CASE flag' = FALSE
    BY <2>2
  <2> QED  BY <2>1, <2>2
<1> QED  BY <1>3, <1>4, <1>5 DEF DoneGoal, DoneInv

\* The end of rt_completion_wait.
LEMMA WokenWaitStep ==
    ASSUME BaseOK(w, call), NEW t \in Thread, WokenWait(t)
    PROVE  DoneGoal
<1>1. w.stat[t] = "READY" /\ call[t].op = "done" /\ flag' = FALSE /\ w' = w /\ crowded' = crowded
      /\ call' = [call EXCEPT ![t] = call[t].back]
  BY RunningFacts DEF WokenWait, BaseOK, WaitInv, Caller
<1>2. "op" \in DOMAIN call[t].back /\ call[t].back.op \in DoneOps \ {"done"}
  BY <1>1 DEF BaseOK, CallOK, DoneOps
<1> QED  BY <1>1, <1>2, DoneQueue, DoneStayStep

LEMMA CompletionOwn ==
    ASSUME BaseOK(w, call), CompletionStep
    PROVE  DoneGoal
<1>0. Uses("done") /\ DoneNext
  BY DEF CompletionStep
<1>1. CASE IsrDone
  BY <1>1, IsrDoneStep
<1>2. ASSUME NEW t \in Thread, t \notin w.app.senders, NEW time, rt_completion_wait(t, time)
      PROVE  DoneGoal
  <2>1. t \in DoneWaiters(w.app) /\ w.stat[t] = "READY" /\ call[t].op \in DoneOps
    BY <1>0, <1>2, RunningFacts DEF rt_completion_wait, DoneWaiters, DoneOps, Uses
  <2> QED  BY <1>2, <2>1, IdleOp, WaitDoneStep DEF rt_completion_wait, CallOK
<1>3. ASSUME NEW t \in Thread, WokenWait(t)
      PROVE  DoneGoal
  BY <1>3, WokenWaitStep
<1>4. ASSUME NEW t \in Thread, rt_completion_done(t)
      PROVE  DoneGoal
  <2> DEFINE e == [op |-> "complete"]
  <2>1. w.stat[t] = "READY" /\ call[t].op \in DoneOps /\ w' = w /\ flag' = flag /\ crowded' = crowded
    BY <1>4, RunningFacts DEF rt_completion_done, DoneOps, doneVars
  <2>2. call' = [call EXCEPT ![t] = e] /\ "op" \in DOMAIN e /\ e.op \in DoneOps \ {"done"}
    BY <1>4 DEF rt_completion_done, DoneOps
  <2> HIDE DEF e
  <2> QED  BY <2>1, <2>2, DoneStayStep
<1>5. ASSUME NEW t \in Thread, CompleteDone(t)
      PROVE  DoneGoal
  <2>1. w.stat[t] = "READY" /\ call[t].op \in DoneOps /\ DoneSection /\ call' = [call EXCEPT ![t] = Idle]
    BY <1>5, RunningFacts DEF CompleteDone, Return, DoneOps
  <2>2. Idle.op \in DoneOps
    BY IdleOp DEF DoneOps
  <2>3. Frame(w, call, w, call', DoneOps, {"done"})
    BY <2>1, <2>2, IdleOp, FrameStay
  <2>4. \A u \in Thread : call'[u] = IF u = t THEN Idle ELSE call[u]
    BY <2>1 DEF BaseOK, WaitInv, Caller
  <2>5. DoneCalls(w.app, call) => DoneCalls(w.app, call')
    BY <2>4, IdleOp DEF DoneCalls
  <2> QED  BY <2>1, <2>3, <2>5, SectionStep DEF Frame
<1> QED  BY <1>0, <1>1, <1>2, <1>3, <1>4, <1>5 DEF DoneNext

\* Transmission by interrupt uses the completion.
LEMMA IntTxOwn ==
    ASSUME BaseOK(w, call), SerialIntTxStep
    PROVE  DoneGoal
<1>0. Uses("int_tx") /\ IntTxNext
  BY DEF SerialIntTxStep
<1>1. CASE TxDone
  BY <1>1, IsrDoneStep DEF TxDone
<1>2. ASSUME NEW t \in Thread, NEW text, WriteInt(t, text)
      PROVE  DoneGoal
  <2> DEFINE e == IntTx(text)
  <2>1. w.stat[t] = "READY" /\ call[t].op \in DoneOps /\ w' = w /\ flag' = flag /\ crowded' = crowded
    BY <1>2, RunningFacts DEF WriteInt, DoneOps, doneVars
  <2>2. call' = [call EXCEPT ![t] = e] /\ "op" \in DOMAIN e /\ e.op \in DoneOps \ {"done"}
    BY <1>2 DEF WriteInt, IntTx, DoneOps
  <2> HIDE DEF e
  <2> QED  BY <2>1, <2>2, DoneStayStep
<1>3. ASSUME NEW t \in Thread, PutChar(t)
      PROVE  DoneGoal
  <2>1. w.stat[t] = "READY" /\ call[t].op \in DoneOps /\ w' = w /\ flag' = flag /\ crowded' = crowded
    BY <1>3, RunningFacts DEF PutChar, DoneOps, doneVars
  <2>2. "op" \in DOMAIN call[t] /\ t \in DOMAIN call
    BY DEF BaseOK, CallOK, WaitInv, Caller
  <2>3. PICK e : call' = [call EXCEPT ![t] = e] /\ "op" \in DOMAIN e /\ e.op \in DoneOps \ {"done"}
    <3> DEFINE wait == [call[t] EXCEPT !.op = "int_wait"]
               rest == IF Len(call[t].text) = 1 THEN Idle ELSE IntTx(Tail(call[t].text))
    <3>1. "op" \in DOMAIN wait /\ wait.op \in DoneOps \ {"done"}
      BY <2>2 DEF DoneOps
    <3>2. "op" \in DOMAIN rest /\ rest.op \in DoneOps \ {"done"}
      BY IdleOp DEF DoneOps, IntTx, CallOK
    <3>3. call' = [call EXCEPT ![t] = wait] \/ call' = [call EXCEPT ![t] = rest]
      BY <1>3, <2>2 DEF PutChar
    <3> HIDE DEF wait, rest
    <3> QED  BY <3>1, <3>2, <3>3
  <2> QED  BY <2>1, <2>3, DoneStayStep
<1>4. ASSUME NEW t \in Thread, WaitSent(t)
      PROVE  DoneGoal
  <2>1. t \in DoneWaiters(w.app) /\ w.stat[t] = "READY" /\ call[t].op \in DoneOps
    BY <1>0, <1>4, RunningFacts DEF WaitSent, DoneWaiters, DoneOps, Uses
  <2> DEFINE back == IntTx(call[t].text)
  <2>2. "op" \in DOMAIN back /\ back.op \in {"idle", "int_tx"} /\ WaitDone(t, "forever", back)
    BY <1>4 DEF IntTx, WaitSent
  <2> HIDE DEF back
  <2> QED  BY <2>1, <2>2, WaitDoneStep
<1>5. ASSUME NEW t \in Thread, WokenWait(t)
      PROVE  DoneGoal
  BY <1>5, WokenWaitStep
<1> QED  BY <1>0, <1>1, <1>2, <1>3, <1>4, <1>5 DEF IntTxNext

\* What other objects do leaves the completion alone.
LEMMA DoneForeign ==
    ASSUME DoneInv, Foreign({"done"}, {"done"}), UNCHANGED doneVars
    PROVE  DoneInv'
BY DEF DoneInv, DoneCalls, Foreign, doneVars

\* A list with fewer threads.
LEMMA FewerWait ==
    ASSUME NEW s, NEW d, BaseOK(s, d), NEW t, NEW r, Evicts(s, d, r, t), NEW q \in Queue,
           r.list[q] # <<>>
    PROVE  s.list[q] # <<>>
<1>1. s.list[q] \in Seq(Thread) /\ r.list[q] \in Seq(Thread)
  BY ListType DEF BaseOK, WaitInv, Evicts
<1>2. Len(r.list[q]) <= Len(s.list[q])
  BY DEF Evicts
<1> QED  BY <1>1, <1>2

LEMMA DoneEvicts ==
    ASSUME BaseOK(w, call), DoneInv, NEW t, Evicts(w, call, w', t), call' = call, UNCHANGED doneVars
    PROVE  DoneInv'
<1>1. w'.list["done"] # <<>> => w.list["done"] # <<>>
  BY FewerWait, DoneQueue
<1>2. w'.app = w.app
  BY DEF Evicts
<1> QED  BY <1>1, <1>2 DEF DoneInv, doneVars

-----------------------------------------------------------------------------
(* The work queue.                                                          *)

WorkOps == {"idle", "kick"}

\* The worker runs above the one thread that submits work: while that thread runs the
\* worker sleeps, and what the thread has submitted is there until it has called it.
WorkInv ==
    /\ work_list \in Seq(Work)
    /\ work # "head"
    /\ worker = "take" => work_list # <<>>
    /\ worker = "suspend" => work_list = <<>>
    /\ worker = "asleep" /\ work_list # <<>> => \E t \in Thread : call[t].op = "kick"
    /\ \A t \in Thread : call[t].op = "kick" =>
          /\ "work" \in w.app.uses /\ t \in w.app.threads
          /\ worker = "asleep" /\ work_list # <<>>

WorkGoal ==
    /\ Frame(w, call, w', call', WorkOps, {})
    /\ WorkInv /\ Orderly(w.app) => WorkInv'

\* The frame of a step of a thread.
LEMMA WorkFrame ==
    ASSUME BaseOK(w, call), NEW t \in Thread, w.stat[t] = "READY", call[t].op \in WorkOps,
           NEW e, CallOK(e), e.op \in WorkOps
    PROVE  /\ Frame(w, call, w, [call EXCEPT ![t] = e], WorkOps, {})
           /\ \A u \in Thread : [call EXCEPT ![t] = e][u] = IF u = t THEN e ELSE call[u]
<1>1. Frame(w, call, w, [call EXCEPT ![t] = e], WorkOps, {})
  BY FrameStay
<1> QED  BY <1>1 DEF BaseOK, WaitInv, Caller

LEMMA WorkOwn ==
    ASSUME BaseOK(w, call), WorkQueueStep
    PROVE  WorkGoal
<1>0. Uses("work") /\ WorkNext
  BY DEF WorkQueueStep
<1>t. Orderly(w.app) => Uses("top") /\ One(w.app.threads)
  BY <1>0 DEF Orderly, Uses
<1>1. CASE WorkerStep /\ UNCHANGED <<w, call>>
  <2>0. w' = w /\ call' = call
    BY <1>1
  <2>1. CASE WorkerTest
    BY <2>0, <2>1, FrameNone DEF WorkerTest, WorkGoal, WorkInv
  <2>2. CASE WorkerSuspend
    BY <2>0, <2>2, FrameNone DEF WorkerSuspend, WorkGoal, WorkInv
  <2>3. CASE WorkerTake
    <3> SUFFICES ASSUME WorkInv PROVE WorkInv'
      BY <2>0, FrameNone DEF WorkGoal
    <3>1. work_list # <<>> /\ work' = Head(work_list) /\ work_list' = Tail(work_list) /\ worker' = "run"
      BY <2>3 DEF WorkerTake, WorkInv
    <3>2. Head(work_list) \in Work /\ Tail(work_list) \in Seq(Work)
      BY <3>1, HeadTailSet DEF WorkInv
    <3>3. \A t \in Thread : call[t].op # "kick"
      BY <2>3 DEF WorkerTake, WorkInv
    <3> QED  BY <2>0, <3>1, <3>2, <3>3, WorkAssumption DEF WorkInv
  <2>4. CASE WorkerRun
    <3>1. worker' = "test" /\ work' # "head" /\ work_list' = work_list /\ worker = "run"
      BY <2>4, WorkAssumption DEF WorkerRun
    <3> QED  BY <2>0, <3>1, FrameNone DEF WorkGoal, WorkInv
  <2> QED  BY <1>1, <2>1, <2>2, <2>3, <2>4 DEF WorkerStep
<1>2. ASSUME NEW t \in Thread, NEW x \in Work, rt_workqueue_dowork(t, x)
      PROVE  WorkGoal
  <2>1. /\ t \in w.app.threads /\ w.stat[t] = "READY" /\ call[t].op = "idle"
        /\ w' = w /\ worker' = worker /\ work' = work
        /\ work_list' = Append(RemoveFirst(work_list, x), x)
        /\ Uses("top") => worker = "asleep"
    BY <1>2, RunningFacts DEF rt_workqueue_dowork, MayRun
  <2> DEFINE e == [op |-> "kick"]
  <2>2. /\ worker = "asleep" => call' = [call EXCEPT ![t] = e]
        /\ worker # "asleep" => call' = call
        /\ "op" \in DOMAIN e /\ e.op = "kick" /\ e.op \in WorkOps /\ call[t].op \in WorkOps
    BY <1>2, <2>1 DEF rt_workqueue_dowork, WorkOps
  <2> HIDE DEF e
  <2>3. CallOK(e)
    BY <2>2, PlainCall
  <2>4. /\ Frame(w, call, w, [call EXCEPT ![t] = e], WorkOps, {})
        /\ \A u \in Thread : [call EXCEPT ![t] = e][u] = IF u = t THEN e ELSE call[u]
    BY <2>1, <2>2, <2>3, WorkFrame
  <2>5. Frame(w, call, w', call', WorkOps, {})
    BY <2>1, <2>2, <2>4, FrameNone
  <2> SUFFICES ASSUME WorkInv, Orderly(w.app) PROVE WorkInv'
    BY <2>5 DEF WorkGoal
  <2>6. RemoveFirst(work_list, x) \in Seq(Work)
    BY RemoveFirstProperties DEF WorkInv
  <2>7. work_list' \in Seq(Work) /\ work_list' # <<>>
    BY <2>1, <2>6
  <2> QED  BY <1>0, <1>t, <2>1, <2>2, <2>4, <2>7 DEF WorkInv, Uses
<1>3. ASSUME NEW t \in Thread, NEW x \in Work, rt_workqueue_cancel_work(t, x)
      PROVE  WorkGoal
  <2>1. /\ t \in w.app.threads /\ call[t].op = "idle" /\ w' = w /\ call' = call
        /\ worker' = worker /\ work' = work
        /\ work_list' = RemoveFirst(work_list, x)
        /\ Uses("top") => worker = "asleep"
    BY <1>3, RunningFacts DEF rt_workqueue_cancel_work, MayRun
  <2> SUFFICES ASSUME WorkInv, Orderly(w.app) PROVE WorkInv'
    BY <2>1, FrameNone DEF WorkGoal
  <2>2. \A u \in Thread : call[u].op # "kick"
    BY <1>t, <2>1 DEF WorkInv, One
  <2>3. work_list = <<>>
    BY <1>t, <2>1, <2>2 DEF WorkInv
  <2>4. work_list' = <<>>
    <3>1. x \notin ToSet(work_list)
      BY <2>3 DEF ToSet
    <3> QED  BY <2>1, <2>3, <3>1, RemoveFirstIsRemoveAt DEF WorkInv
  <2>5. worker = "asleep" /\ <<>> \in Seq(Work)
    BY <1>t, <2>1
  <2> QED  BY <2>1, <2>2, <2>4, <2>5 DEF WorkInv
<1>4. ASSUME NEW t \in Thread, Kick(t)
      PROVE  WorkGoal
  <2>1. /\ t \in w.app.threads /\ w.stat[t] = "READY" /\ call[t].op = "kick" /\ w' = w
        /\ call' = [call EXCEPT ![t] = Idle] /\ work_list' = work_list /\ work' = work
    BY <1>4, RunningFacts DEF Kick, Return
  <2>2. Idle.op \in WorkOps /\ call[t].op \in WorkOps
    BY <2>1, IdleOp DEF WorkOps
  <2>3. /\ Frame(w, call, w', call', WorkOps, {})
        /\ \A u \in Thread : call'[u] = IF u = t THEN Idle ELSE call[u]
    BY <2>1, <2>2, IdleOp, WorkFrame, ZenonT(60)
  <2> SUFFICES ASSUME WorkInv, Orderly(w.app) PROVE WorkInv'
    BY <2>3 DEF WorkGoal
  <2>4. worker = "asleep" /\ work_list # <<>> /\ worker' = "take"
    BY <1>4, <2>1 DEF Kick, WorkInv
  <2>5. \A u \in Thread : call'[u].op # "kick"
    BY <1>t, <2>1, <2>3, IdleOp DEF WorkInv, One
  <2> QED  BY <2>1, <2>4, <2>5 DEF WorkInv
<1> QED  BY <1>0, <1>1, <1>2, <1>3, <1>4 DEF WorkNext

LEMMA WorkForeign ==
    ASSUME WorkInv, Foreign({"kick"}, {}), UNCHANGED workVars
    PROVE  WorkInv'
BY DEF WorkInv, Foreign, workVars

LEMMA WorkEvicts ==
    ASSUME WorkInv, NEW t, Evicts(w, call, w', t), call' = call, UNCHANGED workVars
    PROVE  WorkInv'
BY DEF WorkInv, Evicts, workVars

-----------------------------------------------------------------------------
(* The pipe.                                                                *)

PipeOps == {"idle", "pipe_rd", "pipe_wr"}
PipeLists == {"pipe_rd", "pipe_wr"}

PipeCalls(a, d) ==
    \A u \in Thread : /\ d[u].op = "pipe_rd" => u \in a.threads \ a.senders
                      /\ d[u].op = "pipe_wr" => u \in a.threads \cap a.senders

\* With one reader and one writer, who waits was not resumed.
PipeInv ==
    /\ PipeCalls(w.app, call)
    /\ w.list["pipe_rd"] # <<>> => rt_ringbuffer_data_len(ring) = 0
    /\ w.list["pipe_wr"] # <<>> => rt_ringbuffer_space_len(ring) = 0

PipeGoal ==
    /\ Frame(w, call, w', call', PipeOps, PipeLists)
    /\ PipeInv /\ Orderly(w.app) => PipeInv'

LEMMA PipeQueues ==
    /\ "pipe_rd" \in DriverQueue /\ "pipe_rd" \in Queue /\ "pipe_rd" \in PipeOps /\ "pipe_rd" \in PipeLists
    /\ "pipe_wr" \in DriverQueue /\ "pipe_wr" \in Queue /\ "pipe_wr" \in PipeOps /\ "pipe_wr" \in PipeLists
    /\ Idle.op \in PipeOps
BY DriverQueues, IdleOp DEF DriverQueue, PipeOps, PipeLists

\* A resume empties the list of the readers, or of the writers.
LEMMA PipeAlone ==
    ASSUME BaseOK(w, call), PipeInv, Orderly(w.app), Uses("pipe")
    PROVE  /\ \A d : BaseOK(w, d) /\ PipeCalls(w.app, d) =>
                 /\ ResumeFirst(w, "pipe_rd").list["pipe_rd"] = <<>>
                 /\ ResumeFirst(w, "pipe_wr").list["pipe_wr"] = <<>>
           /\ \A t \in w.app.threads \ w.app.senders : 
                 t \in Thread /\ w.stat[t] = "READY" => w.list["pipe_rd"] = <<>>
           /\ \A t \in w.app.threads \cap w.app.senders :
                 t \in Thread /\ w.stat[t] = "READY" => w.list["pipe_wr"] = <<>>
<1> DEFINE R == w.app.threads \ w.app.senders
           W == w.app.threads \cap w.app.senders
<1>1. One(R) /\ One(W)
  BY DEF Orderly, Uses
<1>2. PipeCalls(w.app, call)
  BY DEF PipeInv
<1> HIDE DEF R, W
<1>3. ASSUME NEW d, BaseOK(w, d), PipeCalls(w.app, d)
      PROVE  /\ ResumeFirst(w, "pipe_rd").list["pipe_rd"] = <<>>
             /\ ResumeFirst(w, "pipe_wr").list["pipe_wr"] = <<>>
             /\ \A t \in R \cap Thread : w.stat[t] = "READY" => w.list["pipe_rd"] = <<>>
             /\ \A t \in W \cap Thread : w.stat[t] = "READY" => w.list["pipe_wr"] = <<>>
  <2>1. \A u \in Thread : d[u].op = "pipe_rd" => u \in R
    BY <1>3 DEF PipeCalls, R
  <2>2. \A u \in Thread : d[u].op = "pipe_wr" => u \in W
    BY <1>3 DEF PipeCalls, W
  <2>3. /\ ResumeFirst(w, "pipe_rd").list["pipe_rd"] = <<>>
        /\ \A t \in R \cap Thread : w.stat[t] = "READY" => w.list["pipe_rd"] = <<>>
    BY <1>1, <1>3, <2>1, PipeQueues, OnlyOne
  <2>4. /\ ResumeFirst(w, "pipe_wr").list["pipe_wr"] = <<>>
        /\ \A t \in W \cap Thread : w.stat[t] = "READY" => w.list["pipe_wr"] = <<>>
    BY <1>1, <1>3, <2>2, PipeQueues, OnlyOne
  <2> QED  BY <2>3, <2>4
<1> QED  BY <1>2, <1>3 DEF R, W

\* A section that resumes the first thread of the other list.
LEMMA PipeSection ==
    ASSUME BaseOK(w, call), NEW t \in Thread, w.stat[t] = "READY", call[t].op \in PipeOps,
           NEW q \in PipeLists, w' = ResumeFirst(w, q), Return(t), Uses("pipe"),
           PipeInv => /\ q = "pipe_wr" => t \in w.app.threads \ w.app.senders
                      /\ q = "pipe_rd" => t \in w.app.threads \cap w.app.senders
    PROVE  PipeGoal
<1>1. q \in DriverQueue /\ q \in Queue /\ q \in PipeOps /\ q \in {"pipe_rd", "pipe_wr"}
  BY PipeQueues DEF PipeLists
<1>2. call' = [call EXCEPT ![t] = Idle]
  BY DEF Return
<1>3. Frame(w, call, w, call', PipeOps, PipeLists)
  BY <1>2, IdleOp, PipeQueues, FrameStay
<1>4. Frame(w, call, w', call', PipeOps, PipeLists)
  BY <1>1, <1>2, IdleOp, PipeQueues, FrameStayResume
<1>5. \A u \in Thread : call'[u] = IF u = t THEN Idle ELSE call[u]
  BY <1>2 DEF BaseOK, WaitInv, Caller
<1>6. PipeCalls(w.app, call) => PipeCalls(w.app, call')
  BY <1>5, IdleOp DEF PipeCalls
<1> SUFFICES ASSUME PipeInv, Orderly(w.app) PROVE PipeInv'
  BY <1>4 DEF PipeGoal
<1>7. BaseOK(w, call') /\ w'.app = w.app /\ PipeCalls(w.app, call')
  BY <1>3, <1>4, <1>6 DEF Frame, Affects, PipeInv
<1>8. /\ ResumeFirst(w, "pipe_rd").list["pipe_rd"] = <<>>
      /\ ResumeFirst(w, "pipe_wr").list["pipe_wr"] = <<>>
  BY <1>7, PipeAlone
<1>9. /\ q = "pipe_wr" => w.list["pipe_rd"] = <<>>
      /\ q = "pipe_rd" => w.list["pipe_wr"] = <<>>
  BY PipeAlone
<1>10. \A p \in Queue : p # q => w'.list[p] = w.list[p]
  BY <1>1, ResumeFirstFields DEF BaseOK
<1>11. w'.list["pipe_rd"] = <<>> /\ w'.list["pipe_wr"] = <<>>
  BY <1>1, <1>8, <1>9, <1>10, PipeQueues
<1> QED  BY <1>7, <1>11 DEF PipeInv

\* A thread waits.
LEMMA PipeSuspend ==
    ASSUME BaseOK(w, call), NEW t \in Thread, w.stat[t] = "READY", call[t].op \in PipeOps,
           NEW q \in PipeLists, NEW e, e.op = q, CallOK(e),
           w' = SuspendLast(w, q, t, FALSE), call' = [call EXCEPT ![t] = e], UNCHANGED pipeVars,
           q = "pipe_rd" => rt_ringbuffer_data_len(ring) = 0,
           q = "pipe_wr" => rt_ringbuffer_space_len(ring) = 0,
           PipeInv => /\ q = "pipe_rd" => t \in w.app.threads \ w.app.senders
                      /\ q = "pipe_wr" => t \in w.app.threads \cap w.app.senders
    PROVE  PipeGoal
<1>1. q \in DriverQueue /\ q \in Queue /\ q \in PipeOps /\ q \in {"pipe_rd", "pipe_wr"}
  BY PipeQueues DEF PipeLists
<1>2. FALSE \in BOOLEAN /\ (FALSE => q \in {"done", "dq_pop"})
  OBVIOUS
<1> DEFINE r == SuspendLast(w, q, t, FALSE)
<1>f. Frame(w, call, r, [call EXCEPT ![t] = e], PipeOps, PipeLists)
  BY <1>1, <1>2, FrameSuspend
<1>w. w \in Waits
  BY DEF BaseOK, WaitInv
<1>h. \A p \in Queue : r.list[p] = IF p = q THEN Append(w.list[q], t) ELSE w.list[p]
  BY <1>1, <1>w DEF SuspendLast, Waits
<1>g. r.app = w.app /\ \A p \in Queue : p # q => r.list[p] = w.list[p]
  BY <1>1, <1>f, <1>h DEF Frame, Affects
<1>3. /\ Frame(w, call, w', call', PipeOps, PipeLists)
      /\ w'.app = w.app
      /\ \A p \in Queue : p # q => w'.list[p] = w.list[p]
  BY <1>f, <1>g
<1>4. \A u \in Thread : call'[u] = IF u = t THEN e ELSE call[u]
  BY DEF BaseOK, WaitInv, Caller
<1> SUFFICES ASSUME PipeInv, Orderly(w.app) PROVE PipeInv'
  BY <1>3 DEF PipeGoal
<1>5. PipeCalls(w.app, call')
  BY <1>1, <1>4 DEF PipeCalls, PipeInv
<1>6. ring' = ring
  BY DEF pipeVars
<1> QED  BY <1>1, <1>3, <1>5, <1>6, PipeQueues DEF PipeInv

LEMMA PipeReturns ==
    ASSUME BaseOK(w, call), NEW t \in Thread, w.stat[t] = "READY", call[t].op \in PipeOps,
           w' = w, Return(t), UNCHANGED pipeVars
    PROVE  PipeGoal
<1>2. call' = [call EXCEPT ![t] = Idle] /\ ring' = ring
  BY DEF Return, pipeVars
<1>3. Frame(w, call, w, call', PipeOps, PipeLists)
  BY <1>2, IdleOp, PipeQueues, FrameStay
<1>5. \A u \in Thread : call'[u] = IF u = t THEN Idle ELSE call[u]
  BY <1>2 DEF BaseOK, WaitInv, Caller
<1>6. PipeCalls(w.app, call) => PipeCalls(w.app, call')
  BY <1>5, IdleOp DEF PipeCalls
<1> QED  BY <1>2, <1>3, <1>6 DEF PipeGoal, PipeInv

\* One evaluation of the loop of rt_pipe_read, and of rt_pipe_write.
LEMMA TryReadStep ==
    ASSUME BaseOK(w, call), NEW t \in Thread, w.stat[t] = "READY", call[t].op \in PipeOps,
           Uses("pipe"), PipeInv => t \in w.app.threads \ w.app.senders,
           NEW size \in 1..MaxWrite, TryRead(t, size)
    PROVE  PipeGoal
<1>1. CASE ReadSection(size) /\ Return(t)
  <2>1. w' = ResumeFirst(w, "pipe_wr")
    BY <1>1 DEF ReadSection
  <2> QED  BY <1>1, <2>1, PipeQueues, PipeSection
<1>2. CASE /\ rt_ringbuffer_data_len(ring) = 0 /\ w' = SuspendLast(w, "pipe_rd", t, FALSE)
           /\ call' = [call EXCEPT ![t] = [op |-> "pipe_rd", size |-> size]] /\ UNCHANGED pipeVars
  <2> DEFINE e == [op |-> "pipe_rd", size |-> size]
  <2>1. e.op = "pipe_rd" /\ CallOK(e) /\ call' = [call EXCEPT ![t] = e]
    BY <1>2 DEF CallOK
  <2> HIDE DEF e
  <2> QED  BY <1>2, <2>1, PipeQueues, PipeSuspend
<1>3. CASE w' = w /\ Return(t) /\ UNCHANGED pipeVars
  BY <1>3, PipeReturns
<1> QED  BY <1>1, <1>2, <1>3 DEF TryRead

LEMMA TryWriteStep ==
    ASSUME BaseOK(w, call), NEW t \in Thread, w.stat[t] = "READY", call[t].op \in PipeOps,
           Uses("pipe"), PipeInv => t \in w.app.threads \cap w.app.senders,
           NEW s \in Strings, TryWrite(t, s)
    PROVE  PipeGoal
<1>1. CASE (ForceSection(s) \/ WriteSection(s)) /\ Return(t)
  <2>1. w' = ResumeFirst(w, "pipe_rd")
    BY <1>1 DEF ForceSection, WriteSection
  <2> QED  BY <1>1, <2>1, PipeQueues, PipeSection
<1>2. CASE /\ PutLength(ring, s) = 0 /\ w' = SuspendLast(w, "pipe_wr", t, FALSE)
           /\ call' = [call EXCEPT ![t] = [op |-> "pipe_wr", string |-> s]] /\ UNCHANGED pipeVars
  <2> DEFINE e == [op |-> "pipe_wr", string |-> s]
  <2>1. e.op = "pipe_wr" /\ CallOK(e) /\ call' = [call EXCEPT ![t] = e]
    BY <1>2 DEF CallOK
  <2>2. PICK k \in 1..MaxWrite : s \in [1..k -> Byte]
    BY DEF Strings
  <2>3. Len(s) > 0
    BY <2>2, PipeAssumption
  <2>4. rt_ringbuffer_space_len(ring) = 0
    BY <1>2, <2>3 DEF PutLength, Least
  <2> HIDE DEF e
  <2> QED  BY <1>2, <2>1, <2>4, PipeQueues, PipeSuspend
<1> QED  BY <1>1, <1>2 DEF TryWrite

LEMMA PipeOwn ==
    ASSUME BaseOK(w, call), PipeStep
    PROVE  PipeGoal
<1>0. Uses("pipe") /\ PipeNext
  BY DEF PipeStep
<1>1. ASSUME NEW t \in Thread, t \in w.app.senders, NEW s \in Strings, rt_pipe_write(t, s)
      PROVE  PipeGoal
  <2>1. t \in w.app.threads \cap w.app.senders /\ w.stat[t] = "READY" /\ call[t].op \in PipeOps /\ TryWrite(t, s)
    BY <1>1, RunningFacts DEF rt_pipe_write, PipeOps
  <2> QED  BY <1>0, <2>1, TryWriteStep
<1>2. ASSUME NEW t \in Thread, t \notin w.app.senders, NEW size \in 1..MaxWrite, rt_pipe_read(t, size)
      PROVE  PipeGoal
  <2>1. t \in w.app.threads \ w.app.senders /\ w.stat[t] = "READY" /\ call[t].op \in PipeOps /\ TryRead(t, size)
    BY <1>2, RunningFacts DEF rt_pipe_read, PipeOps
  <2> QED  BY <1>0, <2>1, TryReadStep
<1>3. ASSUME NEW t \in Thread, WokenRead(t)
      PROVE  PipeGoal
  <2>1. w.stat[t] = "READY" /\ call[t].op = "pipe_rd" /\ TryRead(t, call[t].size)
    BY <1>3, RunningFacts DEF WokenRead
  <2>2. call[t].size \in 1..MaxWrite /\ (PipeInv => t \in w.app.threads \ w.app.senders)
    BY <2>1 DEF BaseOK, CallOK, PipeInv, PipeCalls
  <2> QED  BY <1>0, <2>1, <2>2, PipeQueues, TryReadStep
<1>4. ASSUME NEW t \in Thread, WokenWrite(t)
      PROVE  PipeGoal
  <2>1. w.stat[t] = "READY" /\ call[t].op = "pipe_wr" /\ TryWrite(t, call[t].string)
    BY <1>4, RunningFacts DEF WokenWrite
  <2>2. call[t].string \in Strings /\ (PipeInv => t \in w.app.threads \cap w.app.senders)
    BY <2>1 DEF BaseOK, CallOK, PipeInv, PipeCalls
  <2> QED  BY <1>0, <2>1, <2>2, PipeQueues, TryWriteStep
<1> QED  BY <1>0, <1>1, <1>2, <1>3, <1>4 DEF PipeNext

LEMMA PipeForeign ==
    ASSUME PipeInv, Foreign(PipeLists, PipeLists), UNCHANGED pipeVars
    PROVE  PipeInv'
BY DEF PipeInv, PipeCalls, PipeLists, Foreign, pipeVars

LEMMA PipeEvicts ==
    ASSUME BaseOK(w, call), PipeInv, NEW t, Evicts(w, call, w', t), call' = call, UNCHANGED pipeVars
    PROVE  PipeInv'
<1>1. /\ w'.list["pipe_rd"] # <<>> => w.list["pipe_rd"] # <<>>
      /\ w'.list["pipe_wr"] # <<>> => w.list["pipe_wr"] # <<>>
  BY FewerWait, PipeQueues
<1>2. w'.app = w.app
  BY DEF Evicts
<1> QED  BY <1>1, <1>2 DEF PipeInv, pipeVars

-----------------------------------------------------------------------------
(* Indices of a ring.                                                       *)

LEMMA Quotient ==
    ASSUME NEW B \in Nat \ {0}, NEW x \in Int
    PROVE  \E k \in Int : x = B * k + (x % B) /\ x % B \in 0..B - 1
<1>1. x = B * (x \div B) + (x % B) /\ x \div B \in Int /\ x % B \in 0..B - 1
  OBVIOUS
<1> QED  BY <1>1

LEMMA Remainder ==
    ASSUME NEW B \in Nat \ {0}, NEW k \in Int, NEW r \in 0..B - 1
    PROVE  (B * k + r) % B = r
<1> DEFINE x == B * k + r
<1>0. x \in Int /\ B * k \in Int
  OBVIOUS
<1>1. PICK j \in Int : x = B * j + (x % B) /\ x % B \in 0..B - 1
  BY <1>0, Quotient
<1>2. B * (k - j) = (x % B) - r /\ k - j \in Int
  BY <1>1
<1>3. CASE k - j = 0
  BY <1>1, <1>2, <1>3
<1>4. CASE k - j >= 1
  <2>1. B * (k - j) >= B
    BY <1>4
  <2> QED  BY <1>1, <1>2, <2>1
<1>5. CASE k - j <= -1
  <2>1. B * (k - j) <= -B
    BY <1>5
  <2> QED  BY <1>1, <1>2, <2>1
<1> QED  BY <1>2, <1>3, <1>4, <1>5

\* An index goes round the end at most once.
LEMMA GoesRound ==
    ASSUME NEW B \in Nat \ {0}, NEW x \in 0..2 * B - 1
    PROVE  x % B = IF x < B THEN x ELSE x - B
<1>1. CASE x < B
  <2>1. x = B * 0 + x
    OBVIOUS
  <2> QED  BY <1>1, <2>1, Remainder
<1>2. CASE x >= B
  <2>1. x = B * 1 + (x - B) /\ x - B \in 0..B - 1
    BY <1>2
  <2> QED  BY <1>2, <2>1, Remainder
<1> QED  BY <1>1, <1>2

\* Indices less than one round apart are different places.
LEMMA OtherPlace ==
    ASSUME NEW B \in Nat \ {0}, NEW i \in Int, NEW j \in Int, i < j, j - i < B
    PROVE  i % B # j % B
<1>1. PICK k \in Int : i = B * k + (i % B) /\ i % B \in 0..B - 1
  BY Quotient
<1>2. PICK l \in Int : j = B * l + (j % B) /\ j % B \in 0..B - 1
  BY Quotient
<1> SUFFICES ASSUME i % B = j % B PROVE FALSE
  OBVIOUS
<1>3. B * (l - k) = j - i
  BY <1>1, <1>2
<1>4. CASE l - k >= 1
  <2>1. B * (l - k) >= B
    BY <1>4
  <2> QED  BY <1>3, <2>1
<1>5. CASE l - k <= 0
  <2>1. B * (l - k) <= 0
    BY <1>5
  <2> QED  BY <1>3, <2>1
<1> QED  BY <1>4, <1>5

-----------------------------------------------------------------------------
(* The ring buffer.                                                         *)

\* The mirror bits say on which side of the other an index is.
RingOK(rb) ==
    /\ rb \in Buffers
    /\ IF rb.read_mirror = rb.write_mirror THEN rb.read_index <= rb.write_index
                                           ELSE rb.write_index <= rb.read_index

\* The place of the i-th byte.
Place(rb, i) ==
    IF rb.read_index + i - 1 < BufferSize THEN rb.read_index + i - 1
                                          ELSE rb.read_index + i - 1 - BufferSize

LEMMA PlaceIs ==
    ASSUME NEW rb \in Buffers, NEW i \in 1..BufferSize
    PROVE  (rb.read_index + i - 1) % BufferSize = Place(rb, i) /\ Place(rb, i) \in Places
<1>1. rb.read_index \in 0..BufferSize - 1 /\ BufferSize \in Nat \ {0}
  BY BufferAssumption DEF Buffers, Places
<1>2. PICK x \in 0..2 * BufferSize - 1 : x = rb.read_index + i - 1
  BY <1>1
<1>3. x % BufferSize = IF x < BufferSize THEN x ELSE x - BufferSize
  BY <1>1, GoesRound
<1>4. Place(rb, i) = IF x < BufferSize THEN x ELSE x - BufferSize
  BY <1>1, <1>2 DEF Place
<1>5. Place(rb, i) \in 0..BufferSize - 1
  BY <1>1, <1>4
<1> QED  BY <1>2, <1>3, <1>4, <1>5 DEF Places

LEMMA RingLength ==
    ASSUME NEW rb, RingOK(rb)
    PROVE  /\ rt_ringbuffer_data_len(rb) \in 0..BufferSize
           /\ rb.write_index = IF rb.read_index + rt_ringbuffer_data_len(rb) < BufferSize
                               THEN rb.read_index + rt_ringbuffer_data_len(rb)
                               ELSE rb.read_index + rt_ringbuffer_data_len(rb) - BufferSize
           /\ rb.read_mirror = rb.write_mirror <=>
                 rb.read_index + rt_ringbuffer_data_len(rb) < BufferSize
<1>1. rb.read_index \in 0..BufferSize - 1 /\ rb.write_index \in 0..BufferSize - 1
      /\ BufferSize \in Nat \ {0}
  BY BufferAssumption DEF RingOK, Buffers, Places
<1> QED  BY <1>1 DEF RingOK, rt_ringbuffer_data_len

LEMMA RingContents ==
    ASSUME NEW rb, RingOK(rb)
    PROVE  /\ Contents(rb) \in Seq(Byte \cup {NoByte})
           /\ Len(Contents(rb)) = rt_ringbuffer_data_len(rb)
           /\ \A i \in 1..rt_ringbuffer_data_len(rb) : Contents(rb)[i] = rb.buffer[Place(rb, i)]
<1> DEFINE n == rt_ringbuffer_data_len(rb)
<1>1. n \in 0..BufferSize /\ BufferSize \in Nat /\ rb \in Buffers
  BY RingLength, BufferAssumption DEF RingOK
<1>2. Least(BufferSize, n) = n
  BY <1>1 DEF Least
<1> HIDE DEF n
<1>3. Contents(rb) = [i \in 1..n |-> rb.buffer[(rb.read_index + i - 1) % BufferSize]]
  BY <1>2 DEF Contents, Got, n
<1>4. \A i \in 1..n : (rb.read_index + i - 1) % BufferSize = Place(rb, i) /\ Place(rb, i) \in Places
  BY <1>1, PlaceIs
<1>5. \A i \in 1..n : rb.buffer[Place(rb, i)] \in Byte \cup {NoByte}
  BY <1>1, <1>4 DEF Buffers
<1> QED  BY <1>1, <1>3, <1>4, <1>5 DEF n

\* A byte goes to the place that follows the ones in use.
LEMMA WrittenIs ==
    ASSUME NEW buffer, NEW index \in Places, NEW s, NEW p \in Places
    PROVE  \E k \in Int :
              /\ k = IF index <= p THEN p - index ELSE p - index + BufferSize
              /\ Written(buffer, index, s)[p] = IF k + 1 <= Len(s) THEN s[k + 1] ELSE buffer[p]
<1>1. BufferSize \in Nat \ {0} /\ p \in 0..BufferSize - 1 /\ index \in 0..BufferSize - 1
  BY BufferAssumption DEF Places
<1>2. PICK x \in 0..2 * BufferSize - 1 : x = p - index + BufferSize
  BY <1>1
<1>3. x % BufferSize = IF x < BufferSize THEN x ELSE x - BufferSize
  BY <1>1, GoesRound
<1>4. PICK k \in Int : k = x % BufferSize /\ k = IF index <= p THEN p - index ELSE p - index + BufferSize
  BY <1>1, <1>2, <1>3
<1>5. Written(buffer, index, s)[p] = IF k + 1 <= Len(s) THEN s[k + 1] ELSE buffer[p]
  BY <1>2, <1>4 DEF Written
<1> QED  BY <1>4, <1>5

LEMMA WrittenAt ==
    ASSUME NEW buffer, NEW index \in Places, NEW s, Len(s) \in 0..BufferSize, NEW p \in Places,
           NEW i \in 1..Len(s),
           (index <= p /\ p - index = i - 1) \/ (p < index /\ p - index + BufferSize = i - 1)
    PROVE  Written(buffer, index, s)[p] = s[i]
<1>1. BufferSize \in Nat \ {0} /\ p \in 0..BufferSize - 1 /\ index \in 0..BufferSize - 1
  BY BufferAssumption DEF Places
<1>2. PICK k \in Int : /\ k = IF index <= p THEN p - index ELSE p - index + BufferSize
                       /\ Written(buffer, index, s)[p] = IF k + 1 <= Len(s) THEN s[k + 1] ELSE buffer[p]
  BY WrittenIs
<1>3. k + 1 = i
  BY <1>1, <1>2
<1> QED  BY <1>2, <1>3

LEMMA WrittenBeside ==
    ASSUME NEW buffer, NEW index \in Places, NEW s, Len(s) \in 0..BufferSize, NEW p \in Places,
           index <= p => p - index >= Len(s), p < index => p - index + BufferSize >= Len(s)
    PROVE  Written(buffer, index, s)[p] = buffer[p]
<1>1. BufferSize \in Nat \ {0} /\ p \in 0..BufferSize - 1 /\ index \in 0..BufferSize - 1
  BY BufferAssumption DEF Places
<1>2. PICK k \in Int : /\ k = IF index <= p THEN p - index ELSE p - index + BufferSize
                       /\ Written(buffer, index, s)[p] = IF k + 1 <= Len(s) THEN s[k + 1] ELSE buffer[p]
  BY WrittenIs
<1>3. ~(k + 1 <= Len(s))
  BY <1>1, <1>2
<1> QED  BY <1>2, <1>3

-----------------------------------------------------------------------------

LEMMA PutFields ==
    ASSUME NEW rb, RingOK(rb), NEW s \in Seq(Byte), NEW n, n = PutLength(rb, s), n # 0,
           NEW r, r = rt_ringbuffer_put(rb, s)
    PROVE  /\ r \in Buffers
           /\ r.read_index = rb.read_index
           /\ r.write_index = (rb.write_index + n) % BufferSize
           /\ r.buffer = Written(rb.buffer, rb.write_index, SubSeq(s, 1, n))
           /\ (r.read_mirror = r.write_mirror <=> rb.read_mirror = rb.write_mirror)
                 <=> BufferSize - rb.write_index > n
<1>1. rb \in Buffers /\ BufferSize \in Nat \ {0} /\ rt_ringbuffer_data_len(rb) \in 0..BufferSize
  BY RingLength, BufferAssumption DEF RingOK
<1>2. n \in 1..BufferSize /\ n <= Len(s)
  BY <1>1 DEF PutLength, Least, rt_ringbuffer_space_len
<1> DEFINE sub == SubSeq(s, 1, n)
           buf == Written(rb.buffer, rb.write_index, sub)
           wi == (rb.write_index + n) % BufferSize
           wm == IF BufferSize - rb.write_index > n THEN rb.write_mirror ELSE ~rb.write_mirror
<1>3. sub \in Seq(Byte) /\ Len(sub) = n
  BY <1>2
<1>4. buf \in [Places -> Byte \cup {NoByte}]
  <2>1. rb.buffer \in [Places -> Byte \cup {NoByte}] /\ rb.write_index \in Places
    BY <1>1 DEF Buffers
  <2>2. ASSUME NEW p \in Places PROVE buf[p] \in Byte \cup {NoByte}
    <3> HIDE DEF sub
    <3>1. PICK x \in Int : x = p - rb.write_index + BufferSize
      BY <1>1, <2>1 DEF Places
    <3>2. x % BufferSize \in 0..BufferSize - 1
      BY <1>1
    <3>3. buf[p] = IF (x % BufferSize) + 1 <= Len(sub) THEN sub[(x % BufferSize) + 1] ELSE rb.buffer[p]
      BY <3>1 DEF Written
    <3> QED  BY <1>1, <1>2, <1>3, <2>1, <3>2, <3>3
  <2>3. buf = [p \in Places |-> buf[p]]
    BY DEF Written
  <2> HIDE DEF buf
  <2> QED  BY <2>2, <2>3
<1>5. wi \in Places
  <2>1. rb.write_index + n \in Int
    BY <1>1, <1>2 DEF Buffers, Places
  <2> QED  BY <1>1, <2>1 DEF Places
<1>6. rb.write_mirror \in BOOLEAN /\ rb.read_mirror \in BOOLEAN
  BY <1>1, Zenon DEF Buffers
<1>7. wm \in BOOLEAN
  BY <1>6
<1>8. (rb.read_mirror = wm <=> rb.read_mirror = rb.write_mirror) <=> BufferSize - rb.write_index > n
  BY <1>6
<1>9. r = [[rb EXCEPT !.buffer = buf] EXCEPT !.write_index = wi, !.write_mirror = wm]
  BY <1>1 DEF rt_ringbuffer_put, Advance, Buffers
<1> HIDE DEF buf, wi, wm
<1>10. r \in Buffers /\ r.read_index = rb.read_index /\ r.write_index = wi /\ r.buffer = buf
       /\ r.read_mirror = rb.read_mirror /\ r.write_mirror = wm
  BY <1>1, <1>4, <1>5, <1>7, <1>9, ZenonT(40) DEF Buffers
<1>11. r.read_mirror = r.write_mirror <=> rb.read_mirror = wm
  BY <1>10
<1> QED  BY <1>8, <1>10, <1>11 DEF buf, wi

LEMMA Joined ==
    ASSUME NEW S, NEW a \in Seq(S), NEW b \in Seq(S), NEW c \in Seq(S),
           Len(a) = Len(b) + Len(c),
           \A i \in 1..Len(b) : a[i] = b[i], \A i \in 1..Len(c) : a[Len(b) + i] = c[i]
    PROVE  a = b \o c
<1>1. b \o c \in Seq(S) /\ Len(b \o c) = Len(b) + Len(c)
  BY ConcatProperties
<1>2. \A i \in 1..Len(b) + Len(c) : (b \o c)[i] = IF i <= Len(b) THEN b[i] ELSE c[i - Len(b)]
  BY ConcatProperties
<1>3. \A i \in 1..Len(b) + Len(c) : (b \o c)[i] = a[i]
  <2>1. ASSUME NEW i \in 1..Len(b) + Len(c), i > Len(b) PROVE c[i - Len(b)] = a[i]
    <3>1. i - Len(b) \in 1..Len(c) /\ Len(b) + (i - Len(b)) = i
      BY <2>1
    <3> QED  BY <3>1
  <2> QED  BY <1>2, <2>1
<1> DEFINE d == b \o c
<1> HIDE DEF d
<1>4. d \in Seq(S) /\ Len(d) = Len(a) /\ \A i \in 1..Len(a) : d[i] = a[i]
  BY <1>1, <1>3 DEF d
<1>5. d = a
  BY <1>4
<1> QED  BY <1>5 DEF d

\* A ring with k bytes.
LEMMA RingIs ==
    ASSUME NEW rb \in Buffers, NEW k \in 0..BufferSize,
           rb.write_index = IF rb.read_index + k < BufferSize THEN rb.read_index + k
                                                              ELSE rb.read_index + k - BufferSize,
           rb.read_mirror = rb.write_mirror <=> rb.read_index + k < BufferSize
    PROVE  RingOK(rb) /\ rt_ringbuffer_data_len(rb) = k
<1>1. BufferSize \in Nat /\ rb.read_index \in Int /\ rb.write_index \in Int
      /\ rb.read_index >= 0 /\ rb.read_index < BufferSize
  BY BufferAssumption DEF Buffers, Places
<1>2. PICK ri \in Int, wi \in Int, B \in Nat : ri = rb.read_index /\ wi = rb.write_index /\ B = BufferSize
  BY <1>1
<1>3. CASE rb.read_mirror = rb.write_mirror
  <2>1. wi = ri + k
    BY <1>2, <1>3
  <2>2. rt_ringbuffer_data_len(rb) = IF ri = wi THEN 0 ELSE IF wi > ri THEN wi - ri ELSE B - (ri - wi)
    BY <1>2, <1>3 DEF rt_ringbuffer_data_len
  <2> QED  BY <1>2, <1>3, <2>1, <2>2 DEF RingOK
<1>4. CASE rb.read_mirror # rb.write_mirror
  <2>1. wi = ri + k - B /\ k <= B
    BY <1>1, <1>2, <1>4
  <2>2. rt_ringbuffer_data_len(rb) = IF ri = wi THEN B ELSE IF wi > ri THEN wi - ri ELSE B - (ri - wi)
    BY <1>2, <1>4 DEF rt_ringbuffer_data_len
  <2> QED  BY <1>2, <1>4, <2>1, <2>2 DEF RingOK
<1> QED  BY <1>3, <1>4

\* The n places that follow the len places from ri on.
LEMMA NextPlaces ==
    ASSUME NEW B \in Nat \ {0}, NEW ri \in 0..B - 1, NEW wi \in 0..B - 1, NEW len \in 0..B,
           NEW n \in 1..B - len, wi = IF ri + len < B THEN ri + len ELSE ri + len - B
    PROVE  /\ (wi + n) % B = IF ri + len + n < B THEN ri + len + n ELSE ri + len + n - B
           /\ B - wi > n <=> (ri + len < B <=> ri + len + n < B)
           /\ \A i \in 1..len : \A p \in Int :
                 p = (IF ri + i - 1 < B THEN ri + i - 1 ELSE ri + i - 1 - B) =>
                    (wi <= p => p - wi >= n) /\ (p < wi => p - wi + B >= n)
           /\ \A i \in 1..n : \A p \in Int :
                 p = (IF ri + (len + i) - 1 < B THEN ri + (len + i) - 1 ELSE ri + (len + i) - 1 - B) =>
                    (wi <= p /\ p - wi = i - 1) \/ (p < wi /\ p - wi + B = i - 1)
<1>0. n <= B /\ wi <= B - 1 /\ n \in Nat /\ wi \in Nat
  OBVIOUS
<1>01. wi + n \in 0..2 * B - 1
  BY <1>0
<1>1. PICK x \in 0..2 * B - 1 : x = wi + n
  BY <1>01
<1>2. x % B = IF x < B THEN x ELSE x - B
  BY GoesRound
<1>3. (wi + n) % B = IF ri + len + n < B THEN ri + len + n ELSE ri + len + n - B
  BY <1>1, <1>2
<1>4. B - wi > n <=> (ri + len < B <=> ri + len + n < B)
  OBVIOUS
<1>5. \A i \in 1..len : \A p \in Int :
         p = (IF ri + i - 1 < B THEN ri + i - 1 ELSE ri + i - 1 - B) =>
            (wi <= p => p - wi >= n) /\ (p < wi => p - wi + B >= n)
  OBVIOUS
<1>6. \A i \in 1..n : \A p \in Int :
         p = (IF ri + (len + i) - 1 < B THEN ri + (len + i) - 1 ELSE ri + (len + i) - 1 - B) =>
            (wi <= p /\ p - wi = i - 1) \/ (p < wi /\ p - wi + B = i - 1)
  OBVIOUS
<1> QED  BY <1>3, <1>4, <1>5, <1>6

\* What rt_ringbuffer_put accepted follows what was there.
LEMMA PutAppends ==
    ASSUME NEW rb, RingOK(rb), NEW s \in Seq(Byte), PutLength(rb, s) # 0,
           NEW r, r = rt_ringbuffer_put(rb, s)
    PROVE  /\ RingOK(r)
           /\ Contents(r) = Contents(rb) \o SubSeq(s, 1, PutLength(rb, s))
<1>0. BufferSize \in Nat \ {0} /\ rb \in Buffers
  BY BufferAssumption DEF RingOK
<1>1. PICK len \in 0..BufferSize : len = rt_ringbuffer_data_len(rb)
  BY RingLength
<1>2. PICK n \in 1..BufferSize - len : n = PutLength(rb, s) /\ n <= Len(s) /\ n # 0
  BY <1>0, <1>1 DEF PutLength, Least, rt_ringbuffer_space_len
<1>3. PICK ri \in 0..BufferSize - 1, wi \in 0..BufferSize - 1 : ri = rb.read_index /\ wi = rb.write_index
  BY <1>0 DEF Buffers, Places
<1>4. PICK sub : sub = SubSeq(s, 1, n)
  OBVIOUS
<1>5. wi = IF ri + len < BufferSize THEN ri + len ELSE ri + len - BufferSize
  BY <1>1, <1>3, RingLength
<1>6. rb.read_mirror = rb.write_mirror <=> ri + len < BufferSize
  BY <1>1, <1>3, RingLength
<1>7. r \in Buffers /\ r.read_index = ri /\ r.buffer = Written(rb.buffer, wi, sub)
      /\ r.write_index = (wi + n) % BufferSize
  BY <1>2, <1>3, <1>4, PutFields
<1>8. (r.read_mirror = r.write_mirror <=> rb.read_mirror = rb.write_mirror) <=> BufferSize - wi > n
  BY <1>2, <1>3, PutFields
<1>9. sub \in Seq(Byte) /\ Len(sub) = n
  BY <1>0, <1>2, <1>4
<1>10. (wi + n) % BufferSize = IF ri + len + n < BufferSize THEN ri + len + n ELSE ri + len + n - BufferSize
  BY <1>0, <1>5, NextPlaces
<1>11. BufferSize - wi > n <=> (ri + len < BufferSize <=> ri + len + n < BufferSize)
  BY <1>0, <1>5, NextPlaces
<1>12. PICK k \in 0..BufferSize : k = len + n /\ ri + k = ri + len + n
  BY <1>0
<1>13. r.write_index = IF r.read_index + k < BufferSize THEN r.read_index + k ELSE r.read_index + k - BufferSize
  <2>1. (wi + n) % BufferSize = IF ri + k < BufferSize THEN ri + k ELSE ri + k - BufferSize
    BY <1>0, <1>10, <1>12
  <2> QED  BY <1>7, <2>1
<1>14. r.read_mirror = r.write_mirror <=> r.read_index + k < BufferSize
  <2>1. (r.read_mirror = r.write_mirror <=> ri + len < BufferSize) <=> (ri + len < BufferSize <=> ri + k < BufferSize)
    BY <1>6, <1>8, <1>11, <1>12
  <2> QED  BY <1>7, <2>1
<1>15. RingOK(r) /\ rt_ringbuffer_data_len(r) = k
  BY <1>7, <1>13, <1>14, RingIs
<1>16. /\ Contents(r) \in Seq(Byte \cup {NoByte}) /\ Len(Contents(r)) = k
       /\ \A i \in 1..k : Contents(r)[i] = r.buffer[Place(r, i)]
  BY <1>15, RingContents
<1>17. /\ Contents(rb) \in Seq(Byte \cup {NoByte}) /\ Len(Contents(rb)) = len
       /\ \A i \in 1..len : Contents(rb)[i] = rb.buffer[Place(rb, i)]
  BY <1>1, RingContents
<1>18. \A i \in 1..k : /\ Place(r, i) = Place(rb, i) /\ Place(rb, i) \in Places
                        /\ Place(rb, i) = IF ri + i - 1 < BufferSize THEN ri + i - 1 ELSE ri + i - 1 - BufferSize
  BY <1>0, <1>3, <1>7, PlaceIs DEF Place
<1>19. wi \in Places /\ Len(sub) \in 0..BufferSize
  BY <1>0, <1>9 DEF Places
<1>20. ASSUME NEW i \in 1..len
       PROVE  Contents(r)[i] = Contents(rb)[i]
  <2>1. i \in 1..k
    BY <1>0, <1>12
  <2>2. PICK p \in Places : p = Place(rb, i)
    BY <1>18, <2>1
  <2>3. p \in Int /\ p = (IF ri + i - 1 < BufferSize THEN ri + i - 1 ELSE ri + i - 1 - BufferSize)
    BY <1>0, <1>18, <2>1, <2>2 DEF Places
  <2>4. (wi <= p => p - wi >= n) /\ (p < wi => p - wi + BufferSize >= n)
    BY <1>0, <1>5, <2>3, NextPlaces
  <2>5. Written(rb.buffer, wi, sub)[p] = rb.buffer[p]
    <3>1. (wi <= p => p - wi >= Len(sub)) /\ (p < wi => p - wi + BufferSize >= Len(sub))
      BY <1>9, <2>4
    <3> QED  BY <1>19, <3>1, WrittenBeside
  <2> QED  BY <1>7, <1>16, <1>17, <1>18, <2>1, <2>2, <2>5
<1>21. ASSUME NEW i \in 1..n
       PROVE  Contents(r)[len + i] = sub[i]
  <2>1. len + i \in 1..k
    BY <1>0, <1>12
  <2>2. PICK p \in Places : p = Place(rb, len + i)
    BY <1>18, <2>1
  <2>3. p \in Int /\ p = (IF ri + (len + i) - 1 < BufferSize THEN ri + (len + i) - 1 ELSE ri + (len + i) - 1 - BufferSize)
    BY <1>0, <1>18, <2>1, <2>2 DEF Places
  <2>4. (wi <= p /\ p - wi = i - 1) \/ (p < wi /\ p - wi + BufferSize = i - 1)
    BY <1>0, <1>5, <2>3, NextPlaces
  <2>5. Written(rb.buffer, wi, sub)[p] = sub[i]
    <3>1. i \in 1..Len(sub)
      BY <1>9
    <3>2. PICK buffer : buffer = rb.buffer
      OBVIOUS
    <3>3. Written(buffer, wi, sub)[p] = sub[i]
      BY <1>19, <2>4, <3>1, WrittenAt, SMTT(40)
    <3> QED  BY <3>2, <3>3
  <2> QED  BY <1>7, <1>16, <1>18, <2>1, <2>2, <2>5
<1>22. Contents(r) = Contents(rb) \o sub
  <2>1. PICK a, b, S : a = Contents(r) /\ b = Contents(rb) /\ S = Byte \cup {NoByte}
    OBVIOUS
  <2>2. a \in Seq(S) /\ b \in Seq(S) /\ sub \in Seq(S)
    BY <1>9, <1>16, <1>17, <2>1
  <2>3. Len(a) = Len(b) + Len(sub) /\ Len(b) = len /\ Len(sub) = n
    BY <1>9, <1>12, <1>16, <1>17, <2>1
  <2>4. \A i \in 1..Len(b) : a[i] = b[i]
    BY <1>20, <2>1, <2>3
  <2>5. \A i \in 1..Len(sub) : a[Len(b) + i] = sub[i]
    BY <1>21, <2>1, <2>3
  <2>6. a = b \o sub
    BY <2>2, <2>3, <2>4, <2>5, Joined
  <2> QED  BY <2>1, <2>6
<1> QED  BY <1>2, <1>4, <1>15, <1>22

LEMMA GetFields ==
    ASSUME NEW rb, RingOK(rb), NEW n \in 1..BufferSize, NEW size, n = Len(Got(rb, size)),
           NEW r, r = rt_ringbuffer_get(rb, size)
    PROVE  /\ r \in Buffers
           /\ r.read_index = (rb.read_index + n) % BufferSize
           /\ r.write_index = rb.write_index /\ r.buffer = rb.buffer
           /\ (r.read_mirror = r.write_mirror <=> rb.read_mirror = rb.write_mirror)
                 <=> BufferSize - rb.read_index > n
<1>1. rb \in Buffers /\ BufferSize \in Nat \ {0} /\ n \in Int /\ n # 0
  BY BufferAssumption DEF RingOK
<1> DEFINE ri == (rb.read_index + n) % BufferSize
           rm == IF BufferSize - rb.read_index > n THEN rb.read_mirror ELSE ~rb.read_mirror
<1>2. ri \in Places
  <2>1. rb.read_index + n \in Int
    BY <1>1 DEF Buffers, Places
  <2> QED  BY <1>1, <2>1 DEF Places
<1>3. rb.write_mirror \in BOOLEAN /\ rb.read_mirror \in BOOLEAN
  BY <1>1, Zenon DEF Buffers
<1>4. rm \in BOOLEAN
  BY <1>3
<1>5. (rm = rb.write_mirror <=> rb.read_mirror = rb.write_mirror) <=> BufferSize - rb.read_index > n
  BY <1>3
<1>6. r = [rb EXCEPT !.read_index = ri, !.read_mirror = rm]
  BY <1>1 DEF rt_ringbuffer_get, Buffers
<1> HIDE DEF ri, rm
<1>7. r \in Buffers /\ r.read_index = ri /\ r.write_index = rb.write_index /\ r.buffer = rb.buffer
      /\ r.read_mirror = rm /\ r.write_mirror = rb.write_mirror
  BY <1>1, <1>2, <1>4, <1>6, ZenonT(40) DEF Buffers
<1> QED  BY <1>5, <1>7 DEF ri

\* The places from the n-th on.
LEMMA LaterPlaces ==
    ASSUME NEW B \in Nat \ {0}, NEW ri \in 0..B - 1, NEW wi \in 0..B - 1, NEW len \in 0..B,
           NEW n \in 1..len, NEW rj, rj = (ri + n) % B, NEW k, k = len - n,
           wi = IF ri + len < B THEN ri + len ELSE ri + len - B
    PROVE  /\ rj \in 0..B - 1 /\ k \in 0..B
           /\ wi = IF rj + k < B THEN rj + k ELSE rj + k - B
           /\ (ri + len < B <=> rj + k < B) <=> B - ri > n
           /\ \A i \in 1..k : (IF rj + i - 1 < B THEN rj + i - 1 ELSE rj + i - 1 - B)
                 = IF ri + (n + i) - 1 < B THEN ri + (n + i) - 1 ELSE ri + (n + i) - 1 - B
<1>0. n <= B /\ ri <= B - 1 /\ n \in Nat /\ ri \in Nat
  OBVIOUS
<1>1. ri + n \in 0..2 * B - 1
  BY <1>0
<1>2. PICK x \in 0..2 * B - 1 : x = ri + n
  BY <1>1
<1>3. x % B = IF x < B THEN x ELSE x - B
  BY GoesRound
<1>4. rj = IF ri + n < B THEN ri + n ELSE ri + n - B
  BY <1>2, <1>3
<1>5. rj \in 0..B - 1 /\ k \in 0..B
  BY <1>4
<1>6. wi = IF rj + k < B THEN rj + k ELSE rj + k - B
  BY <1>4
<1>7. (ri + len < B <=> rj + k < B) <=> B - ri > n
  BY <1>4
<1>8. \A i \in 1..k : (IF rj + i - 1 < B THEN rj + i - 1 ELSE rj + i - 1 - B)
         = IF ri + (n + i) - 1 < B THEN ri + (n + i) - 1 ELSE ri + (n + i) - 1 - B
  BY <1>4
<1> QED  BY <1>5, <1>6, <1>7, <1>8

LEMMA Later ==
    ASSUME NEW S, NEW a \in Seq(S), NEW b \in Seq(S), NEW n \in 0..Len(a), Len(b) = Len(a) - n,
           \A i \in 1..Len(b) : b[i] = a[n + i]
    PROVE  b = SubSeq(a, n + 1, Len(a))
<1>1. n + 1 \in 1..Len(a) + 1 /\ Len(a) \in n..Len(a)
  OBVIOUS
<1>2. SubSeq(a, n + 1, Len(a)) = [i \in 1..Len(b) |-> a[n + i]]
  <2>1. SubSeq(a, n + 1, Len(a)) = [i \in 1..Len(a) - (n + 1) + 1 |-> a[i + (n + 1) - 1]]
    BY <1>1
  <2>2. Len(a) - (n + 1) + 1 = Len(b)
    OBVIOUS
  <2>3. \A i \in 1..Len(b) : i + (n + 1) - 1 = n + i
    OBVIOUS
  <2> QED  BY <2>1, <2>2, <2>3
<1>3. b = [i \in 1..Len(b) |-> b[i]]
  OBVIOUS
<1> QED  BY <1>2, <1>3

\* rt_ringbuffer_get takes the oldest bytes.
LEMMA GetTakes ==
    ASSUME NEW rb, RingOK(rb), NEW size \in Nat \ {0}, rt_ringbuffer_data_len(rb) > 0,
           NEW r, r = rt_ringbuffer_get(rb, size)
    PROVE  /\ RingOK(r)
           /\ \E n \in 1..BufferSize :
                 /\ n <= Len(Contents(rb))
                 /\ Got(rb, size) = SubSeq(Contents(rb), 1, n)
                 /\ Contents(r) = SubSeq(Contents(rb), n + 1, Len(Contents(rb)))
<1>0. BufferSize \in Nat \ {0} /\ rb \in Buffers
  BY BufferAssumption DEF RingOK
<1>1. PICK len \in 0..BufferSize : len = rt_ringbuffer_data_len(rb) /\ len > 0
  BY RingLength
<1>2. PICK n \in 1..len : n = Least(size, len)
  BY <1>0, <1>1 DEF Least
<1>3. PICK ri \in 0..BufferSize - 1, wi \in 0..BufferSize - 1 : ri = rb.read_index /\ wi = rb.write_index
  BY <1>0 DEF Buffers, Places
<1>n. n \in 1..BufferSize /\ n \in Nat /\ len \in Nat /\ n <= len
  BY <1>0
<1>4. Got(rb, size) = [i \in 1..n |-> rb.buffer[(rb.read_index + i - 1) % BufferSize]]
  BY <1>1, <1>2 DEF Got
<1>5. n = Len(Got(rb, size))
  BY <1>4, <1>n
<1>6. wi = IF ri + len < BufferSize THEN ri + len ELSE ri + len - BufferSize
  BY <1>1, <1>3, RingLength
<1>7. rb.read_mirror = rb.write_mirror <=> ri + len < BufferSize
  BY <1>1, <1>3, RingLength
<1>8. PICK rj, k : rj = (ri + n) % BufferSize /\ k = len - n
  OBVIOUS
<1>9. r \in Buffers /\ r.read_index = rj /\ r.write_index = wi /\ r.buffer = rb.buffer
  BY <1>3, <1>5, <1>8, <1>n, GetFields
<1>10. (r.read_mirror = r.write_mirror <=> rb.read_mirror = rb.write_mirror) <=> BufferSize - ri > n
  BY <1>3, <1>5, <1>n, GetFields
<1>11. rj \in 0..BufferSize - 1 /\ k \in 0..BufferSize /\ wi = IF rj + k < BufferSize THEN rj + k ELSE rj + k - BufferSize
  BY <1>0, <1>6, <1>8, LaterPlaces
<1>12. (ri + len < BufferSize <=> rj + k < BufferSize) <=> BufferSize - ri > n
  BY <1>0, <1>6, <1>8, LaterPlaces
<1>13. \A i \in 1..k : (IF rj + i - 1 < BufferSize THEN rj + i - 1 ELSE rj + i - 1 - BufferSize)
         = IF ri + (n + i) - 1 < BufferSize THEN ri + (n + i) - 1 ELSE ri + (n + i) - 1 - BufferSize
  BY <1>0, <1>6, <1>8, LaterPlaces
<1>14. r.read_mirror = r.write_mirror <=> rj + k < BufferSize
  BY <1>7, <1>10, <1>12
<1>15. RingOK(r) /\ rt_ringbuffer_data_len(r) = k
  BY <1>9, <1>11, <1>14, RingIs
<1>16. /\ Contents(r) \in Seq(Byte \cup {NoByte}) /\ Len(Contents(r)) = k
       /\ \A i \in 1..k : Contents(r)[i] = r.buffer[Place(r, i)]
  BY <1>15, RingContents
<1>17. /\ Contents(rb) \in Seq(Byte \cup {NoByte}) /\ Len(Contents(rb)) = len
       /\ \A i \in 1..len : Contents(rb)[i] = rb.buffer[Place(rb, i)]
  BY <1>1, RingContents
<1>18. \A i \in 1..k : Place(r, i) = Place(rb, n + i)
  BY <1>3, <1>9, <1>13 DEF Place
<1>19. PICK a, b, S : a = Contents(rb) /\ b = Contents(r) /\ S = Byte \cup {NoByte}
  OBVIOUS
<1>20. a \in Seq(S) /\ b \in Seq(S) /\ Len(a) = len /\ Len(b) = k
  BY <1>16, <1>17, <1>19
<1>21. \A i \in 1..k : b[i] = a[n + i]
  <2>1. \A i \in 1..k : n + i \in 1..len
    BY <1>8, <1>n
  <2> QED  BY <1>9, <1>16, <1>17, <1>18, <1>19, <2>1
<1>22. b = SubSeq(a, n + 1, Len(a))
  BY <1>8, <1>n, <1>20, <1>21, Later
<1>23. Got(rb, size) = SubSeq(a, 1, n)
  <2>1. \A i \in 1..n : i \in 1..len /\ i \in 1..BufferSize
    BY <1>n, <1>0
  <2>2. \A i \in 1..n : rb.buffer[(rb.read_index + i - 1) % BufferSize] = a[i]
    BY <1>0, <1>17, <1>19, <2>1, PlaceIs
  <2>3. PICK g : g = Got(rb, size)
    OBVIOUS
  <2>4. g = [i \in 1..n |-> a[i]]
    BY <1>4, <2>2, <2>3
  <2>5. SubSeq(a, 1, n) = [i \in 1..n |-> a[i]]
    BY <1>n, <1>20
  <2> QED  BY <2>3, <2>4, <2>5
<1> QED  BY <1>15, <1>19, <1>20, <1>22, <1>23, <1>n

-----------------------------------------------------------------------------
(* The pipe is a stream.                                                    *)

RingInv == ~Forces => RingOK(ring)

\* What a step of the pipe does to the ring.
LEMMA PipeEffects ==
    ASSUME BaseOK(w, call), PipeStep
    PROVE  \/ UNCHANGED pipeVars
           \/ Forces
           \/ \E size \in Nat \ {0} :
                 /\ rt_ringbuffer_data_len(ring) > 0
                 /\ pipe_got' = Got(ring, size) /\ ring' = rt_ringbuffer_get(ring, size)
           \/ \E s \in Strings : ring' = rt_ringbuffer_put(ring, s) /\ pipe_got' = pipe_got
<1> DEFINE Goal == \/ UNCHANGED pipeVars
                   \/ Forces
                   \/ \E size \in Nat \ {0} :
                         /\ rt_ringbuffer_data_len(ring) > 0
                         /\ pipe_got' = Got(ring, size) /\ ring' = rt_ringbuffer_get(ring, size)
                   \/ \E s \in Strings : ring' = rt_ringbuffer_put(ring, s) /\ pipe_got' = pipe_got
<1>1. ASSUME NEW t, NEW size \in 1..MaxWrite, TryRead(t, size) PROVE Goal
  <2>1. size \in Nat \ {0}
    BY PipeAssumption
  <2> QED  BY <1>1, <2>1 DEF TryRead, ReadSection
<1>2. ASSUME NEW t, NEW s \in Strings, TryWrite(t, s) PROVE Goal
  BY <1>2 DEF TryWrite, WriteSection
<1>3. ASSUME NEW t \in Thread, WokenRead(t) PROVE Goal
  <2>1. call[t].size \in 1..MaxWrite
    BY <1>3, RunningFacts DEF WokenRead, BaseOK, CallOK
  <2> HIDE DEF Goal
  <2> QED  BY <1>1, <1>3, <2>1 DEF WokenRead
<1>4. ASSUME NEW t \in Thread, WokenWrite(t) PROVE Goal
  <2>1. call[t].string \in Strings
    BY <1>4, RunningFacts DEF WokenWrite, BaseOK, CallOK
  <2> HIDE DEF Goal
  <2> QED  BY <1>2, <1>4, <2>1 DEF WokenWrite
<1>5. ASSUME NEW t \in Thread, NEW s \in Strings, rt_pipe_write(t, s) PROVE Goal
  <2> HIDE DEF Goal
  <2> QED  BY <1>2, <1>5 DEF rt_pipe_write
<1>6. ASSUME NEW t \in Thread, NEW size \in 1..MaxWrite, rt_pipe_read(t, size) PROVE Goal
  <2> HIDE DEF Goal
  <2> QED  BY <1>1, <1>6 DEF rt_pipe_read
<1>7. Goal
  <2> HIDE DEF Goal
  <2> QED  BY <1>3, <1>4, <1>5, <1>6 DEF PipeStep, PipeNext
<1> QED  BY <1>7

LEMMA PipeStreamStep ==
    ASSUME BaseOK(w, call), RingInv, PipeStep, w'.app = w.app
    PROVE  /\ RingInv'
           /\ PipeStream!Next \/ (Piped(Contents(ring))' = Piped(Contents(ring)) /\ Piped(pipe_got)' = Piped(pipe_got))
<1>0. Forces' <=> Forces
  BY DEF Forces
<1>1. CASE Forces
  BY <1>0, <1>1 DEF RingInv, Piped
<1>2. CASE ~Forces
  <2>1. RingOK(ring) /\ BufferSize \in Nat
    BY <1>2, BufferAssumption DEF RingInv
  <2>2. /\ Piped(Contents(ring)) = Contents(ring) /\ Piped(pipe_got) = pipe_got
        /\ Piped(Contents(ring))' = Contents(ring') /\ Piped(pipe_got)' = pipe_got'
    BY <1>0, <1>2 DEF Piped
  <2>3. CASE UNCHANGED pipeVars
    BY <1>0, <2>1, <2>2, <2>3 DEF RingInv, pipeVars
  <2>4. ASSUME NEW size \in Nat \ {0}, rt_ringbuffer_data_len(ring) > 0,
               pipe_got' = Got(ring, size), ring' = rt_ringbuffer_get(ring, size)
        PROVE  RingInv' /\ PipeStream!Next
    <3>1. RingOK(ring')
      BY <2>1, <2>4, GetTakes, ZenonT(60)
    <3>2. PICK n \in 1..BufferSize :
                 /\ n <= Len(Contents(ring))
                 /\ Got(ring, size) = SubSeq(Contents(ring), 1, n)
                 /\ Contents(ring') = SubSeq(Contents(ring), n + 1, Len(Contents(ring)))
      BY <2>1, <2>4, GetTakes, ZenonT(60)
    <3>3. PipeStream!Read(n)
      BY <2>2, <2>4, <3>2 DEF PipeStream!Read
    <3> QED  BY <3>1, <3>3 DEF RingInv, PipeStream!Next
  <2>5. ASSUME NEW s \in Strings, ring' = rt_ringbuffer_put(ring, s), pipe_got' = pipe_got
        PROVE  RingInv' /\ (PipeStream!Next \/ Contents(ring') = Contents(ring))
    <3>1. PICK k \in 1..MaxWrite : s \in [1..k -> Byte]
      BY DEF Strings
    <3>2. s \in Seq(Byte)
      BY <3>1, PipeAssumption
    <3>3. CASE PutLength(ring, s) = 0
      BY <2>1, <2>5, <3>3 DEF rt_ringbuffer_put, RingInv
    <3>4. CASE PutLength(ring, s) # 0
      <4>1. RingOK(ring')
        BY <2>1, <2>5, <3>2, <3>4, PutAppends
      <4>2. Contents(ring') = Contents(ring) \o SubSeq(s, 1, PutLength(ring, s))
        BY <2>1, <2>5, <3>2, <3>4, PutAppends
      <4>3. Len(Contents(ring)) = rt_ringbuffer_data_len(ring)
        BY <2>1, RingContents
      <4>4. PipeStream!Accepts(s) = SubSeq(s, 1, PutLength(ring, s))
        BY <2>2, <4>3 DEF PipeStream!Accepts, PutLength, Least, rt_ringbuffer_space_len
      <4>5. PipeStream!Write(s)
        BY <2>2, <2>5, <4>2, <4>4 DEF PipeStream!Write
      <4> QED  BY <3>1, <4>1, <4>5 DEF RingInv, PipeStream!Next
    <3> QED  BY <3>3, <3>4
  <2> QED  BY <1>2, <2>2, <2>3, <2>4, <2>5, PipeEffects
<1> QED  BY <1>1, <1>2

-----------------------------------------------------------------------------
(* The receive buffer of a serial device is a stream that loses the oldest  *)
(* bytes.                                                                   *)

Index == 0..Bufsz - 1

FifoInv ==
    fifo \in [buffer : [Index -> Char \cup {NoMail}], put : Index, get : Index]

RxLen(put, get) == IF put >= get THEN put - get ELSE Bufsz - (get - put)
RxPlace(get, i) == IF get + i - 1 < Bufsz THEN get + i - 1 ELSE get + i - 1 - Bufsz

\* The bytes are in the places from get to put.
LEMMA RxPlaces ==
    ASSUME NEW put \in Index, NEW get \in Index, NEW n, n = RxLen(put, get)
    PROVE  /\ n \in 0..Bufsz - 1
           /\ \A i \in 1..Bufsz : RxPlace(get, i) \in Index
           /\ RxPlace(get, n + 1) = put /\ \A i \in 1..n : RxPlace(get, i) # put
           /\ \A i \in 1..Bufsz - 1 : RxPlace(Following(get), i) = RxPlace(get, i + 1)
           /\ Following(put) \in Index /\ Following(get) \in Index
           /\ Following(put) = get => n = Bufsz - 1 /\ RxLen(Following(put), Following(get)) = n
           /\ Following(put) # get => n < Bufsz - 1 /\ RxLen(Following(put), get) = n + 1
           /\ put # get => n > 0 /\ RxLen(put, Following(get)) = n - 1
<1>0. Bufsz \in Nat /\ Bufsz > 1
  BY SerialAssumption
<1>1. n \in 0..Bufsz - 1
  BY <1>0 DEF Index, RxLen
<1>2. \A i \in 1..Bufsz : RxPlace(get, i) \in Index
  BY <1>0 DEF Index, RxPlace
<1>3. RxPlace(get, n + 1) = put
  BY <1>0 DEF Index, RxLen, RxPlace
<1>4. \A i \in 1..n : RxPlace(get, i) # put
  BY <1>0 DEF Index, RxLen, RxPlace
<1>5. \A i \in 1..Bufsz - 1 : RxPlace(Following(get), i) = RxPlace(get, i + 1)
  BY <1>0 DEF Index, RxPlace, Following
<1>6. Following(put) \in Index /\ Following(get) \in Index
  BY <1>0 DEF Index, Following
<1>7. Following(put) = get => n = Bufsz - 1 /\ RxLen(Following(put), Following(get)) = n
  BY <1>0 DEF Index, RxLen, Following
<1>8. Following(put) # get => n < Bufsz - 1 /\ RxLen(Following(put), get) = n + 1
  BY <1>0 DEF Index, RxLen, Following
<1>9. put # get => n > 0 /\ RxLen(put, Following(get)) = n - 1
  BY <1>0 DEF Index, RxLen, Following
<1> QED  BY <1>1, <1>2, <1>3, <1>4, <1>5, <1>6, <1>7, <1>8, <1>9

LEMMA RxOneLess ==
    ASSUME NEW put \in Index, NEW get \in Index, put # get
    PROVE  RxLen(put, get) > 0 /\ RxLen(put, Following(get)) = RxLen(put, get) - 1
BY RxPlaces

\* The bytes of a buffer, given by its parts.
Bytes(buffer, get, n) == [i \in 1..n |-> buffer[RxPlace(get, i)]]

LEMMA RxBytesAre ==
    ASSUME NEW buffer, NEW put \in Index, NEW get \in Index
    PROVE  LET n == IF put >= get THEN put - get ELSE Bufsz - (get - put)
           IN  [i \in 1..n |-> buffer[(get + i - 1) % Bufsz]] = Bytes(buffer, get, RxLen(put, get))
<1>0. Bufsz \in Nat \ {0}
  BY SerialAssumption
<1>1. PICK n \in 0..Bufsz - 1 : n = RxLen(put, get)
  BY RxPlaces
<1>2. ASSUME NEW i \in 1..n PROVE (get + i - 1) % Bufsz = RxPlace(get, i)
  <2>1. get + i - 1 \in 0..2 * Bufsz - 1
    BY <1>0 DEF Index
  <2>2. PICK x \in 0..2 * Bufsz - 1 : x = get + i - 1
    BY <2>1
  <2>3. x % Bufsz = IF x < Bufsz THEN x ELSE x - Bufsz
    BY <1>0, GoesRound
  <2>4. RxPlace(get, i) = IF x < Bufsz THEN x ELSE x - Bufsz
    BY <1>0, <2>2 DEF RxPlace, Index
  <2>5. (get + i - 1) % Bufsz = x % Bufsz
    BY <2>2
  <2> QED  BY <2>3, <2>4, <2>5
<1>3. [i \in 1..n |-> buffer[(get + i - 1) % Bufsz]] = Bytes(buffer, get, n)
  BY <1>2 DEF Bytes
<1> QED  BY <1>1, <1>3 DEF RxLen

LEMMA RxBytesIs ==
    /\ FifoInv => RxBytes = Bytes(fifo.buffer, fifo.get, RxLen(fifo.put, fifo.get))
    /\ FifoInv' => RxBytes' = Bytes(fifo.buffer, fifo.get, RxLen(fifo.put, fifo.get))'
<1>1. ASSUME FifoInv PROVE RxBytes = Bytes(fifo.buffer, fifo.get, RxLen(fifo.put, fifo.get))
  <2>1. fifo.put \in Index /\ fifo.get \in Index
    BY <1>1 DEF FifoInv
  <2> QED  BY <2>1, RxBytesAre, ZenonT(60) DEF RxBytes
<1>2. ASSUME FifoInv' PROVE RxBytes' = Bytes(fifo.buffer, fifo.get, RxLen(fifo.put, fifo.get))'
  <2>1. fifo'.put \in Index /\ fifo'.get \in Index
    BY <1>2 DEF FifoInv
  <2> QED  BY <2>1, RxBytesAre, ZenonT(60) DEF RxBytes
<1> QED  BY <1>1, <1>2

LEMMA BytesSeq ==
    ASSUME NEW S, NEW buffer \in [Index -> S], NEW get \in Index, NEW n \in 0..Bufsz
    PROVE  /\ Bytes(buffer, get, n) \in Seq(S) /\ Len(Bytes(buffer, get, n)) = n
           /\ \A i \in 1..n : Bytes(buffer, get, n)[i] = buffer[RxPlace(get, i)]
<1>0. Bufsz \in Nat
  BY SerialAssumption
<1>1. \A i \in 1..n : RxPlace(get, i) \in Index
  BY <1>0 DEF RxPlace, Index
<1>2. \A i \in 1..n : buffer[RxPlace(get, i)] \in S
  BY <1>1
<1>3. [i \in 1..n |-> buffer[RxPlace(get, i)]] \in Seq(S)
  BY <1>0, <1>2
<1>4. Len([i \in 1..n |-> buffer[RxPlace(get, i)]]) = n
  BY <1>0
<1> QED  BY <1>3, <1>4 DEF Bytes

LEMMA BytesIn ==
    ASSUME NEW S, NEW buffer \in [Index -> S], NEW get \in Index, NEW n \in 0..Bufsz
    PROVE  Bytes(buffer, get, n) \in Seq(S)
BY BytesSeq

LEMMA BytesLen ==
    ASSUME NEW S, NEW buffer \in [Index -> S], NEW get \in Index, NEW n \in 0..Bufsz
    PROVE  Len(Bytes(buffer, get, n)) = n
BY BytesSeq

LEMMA BytesAt ==
    ASSUME NEW buffer, NEW get, NEW n, NEW i \in 1..n
    PROVE  Bytes(buffer, get, n)[i] = buffer[RxPlace(get, i)]
BY DEF Bytes

Stored(buffer, put, ch) == [buffer EXCEPT ![put] = ch]
Behind(bytes, ch) == bytes \o <<ch>>
OneMore(n) == n + 1

\* A byte is stored behind the others.
LEMMA StoreAppends ==
    ASSUME NEW S, NEW buffer \in [Index -> S], NEW put \in Index, NEW get \in Index, NEW ch \in S,
           NEW n \in 0..Bufsz - 1, n = RxLen(put, get)
    PROVE  Bytes(Stored(buffer, put, ch), get, OneMore(n)) = Behind(Bytes(buffer, get, n), ch)
<1>n. n \in 0..Bufsz - 1
  OBVIOUS
<1>b. PICK buf : buf = Stored(buffer, put, ch)
  OBVIOUS
<1>0. Bufsz \in Nat /\ n \in 0..Bufsz
  BY <1>n, SerialAssumption
<1>m. PICK m \in 0..Bufsz : m = n + 1
  BY <1>n, <1>0
<1>1. buf \in [Index -> S] /\ buf = [buffer EXCEPT ![put] = ch]
  BY <1>b DEF Stored
<1>2. PICK a, b, c : a = Bytes(buf, get, m) /\ b = Bytes(buffer, get, n) /\ c = <<ch>>
  OBVIOUS
<1>3. a \in Seq(S) /\ Len(a) = m /\ \A i \in 1..m : a[i] = buf[RxPlace(get, i)]
  <2>1. Bytes(buf, get, m) \in Seq(S)
    BY <1>1, BytesIn
  <2>2. Len(Bytes(buf, get, m)) = m
    BY <1>1, BytesLen
  <2>3. \A i \in 1..m : Bytes(buf, get, m)[i] = buf[RxPlace(get, i)]
    BY BytesAt
  <2> QED  BY <1>2, <2>1, <2>2, <2>3
<1>4. b \in Seq(S) /\ Len(b) = n /\ \A i \in 1..n : b[i] = buffer[RxPlace(get, i)]
  <2>1. Bytes(buffer, get, n) \in Seq(S)
    BY <1>0, BytesIn
  <2>2. Len(Bytes(buffer, get, n)) = n
    BY <1>0, BytesLen
  <2>3. \A i \in 1..n : Bytes(buffer, get, n)[i] = buffer[RxPlace(get, i)]
    BY BytesAt
  <2> QED  BY <1>2, <2>1, <2>2, <2>3
<1>5. c \in Seq(S) /\ Len(c) = 1 /\ c[1] = ch
  BY <1>2
<1>6. RxPlace(get, m) = put
  BY <1>m, RxPlaces
<1>t. \A i \in 1..n : RxPlace(get, i) # put
  BY RxPlaces
<1>u. \A i \in 1..Bufsz : RxPlace(get, i) \in Index
  BY RxPlaces
<1>7. \A i \in 1..Len(b) : a[i] = b[i]
  <2>1. ASSUME NEW i \in 1..n PROVE a[i] = b[i]
    <3>1. i \in 1..m /\ i \in 1..Bufsz
      BY <1>0, <1>m
    <3> QED  BY <1>1, <1>3, <1>4, <1>t, <1>u, <3>1
  <2> QED  BY <1>4, <2>1
<1>8. \A i \in 1..Len(c) : a[Len(b) + i] = c[i]
  <2>1. m \in 1..m /\ Len(b) + 1 = m
    BY <1>0, <1>m, <1>4
  <2>2. a[m] = ch
    BY <1>1, <1>3, <1>6, <2>1
  <2> QED  BY <1>5, <2>1, <2>2
<1>9. Len(a) = Len(b) + Len(c)
  BY <1>0, <1>m, <1>3, <1>4, <1>5
<1>10. a = b \o c
  BY <1>3, <1>4, <1>5, <1>7, <1>8, <1>9, Joined
<1> QED  BY <1>m, <1>b, <1>2, <1>10 DEF OneMore, Behind

\* Without the oldest byte.
LEMMA OneLater ==
    ASSUME NEW S, NEW buffer \in [Index -> S], NEW get \in Index, NEW n \in 1..Bufsz
    PROVE  /\ Following(get) \in Index
           /\ Bytes(buffer, Following(get), n - 1)
                 = SubSeq(Bytes(buffer, get, n), 2, Len(Bytes(buffer, get, n)))
<1>0. Bufsz \in Nat /\ n - 1 \in 0..Bufsz /\ n \in 0..Bufsz
  BY SerialAssumption
<1>1. Following(get) \in Index /\ \A i \in 1..Bufsz - 1 : RxPlace(Following(get), i) = RxPlace(get, i + 1)
  BY RxPlaces
<1>2. PICK a, b : a = Bytes(buffer, get, n) /\ b = Bytes(buffer, Following(get), n - 1)
  OBVIOUS
<1>3. a \in Seq(S) /\ Len(a) = n /\ \A i \in 1..n : a[i] = buffer[RxPlace(get, i)]
  BY <1>0, <1>2, BytesSeq
<1>m. PICK m \in 0..Bufsz, g \in Index : m = n - 1 /\ g = Following(get)
  BY <1>0, <1>1
<1>4. b \in Seq(S) /\ Len(b) = n - 1 /\ \A i \in 1..n - 1 : b[i] = buffer[RxPlace(Following(get), i)]
  <2>1. b = Bytes(buffer, g, m)
    BY <1>2, <1>m
  <2>2. b \in Seq(S) /\ Len(b) = m /\ \A i \in 1..m : b[i] = buffer[RxPlace(g, i)]
    BY <2>1, BytesSeq
  <2> QED  BY <1>m, <2>2
<1>5. \A i \in 1..Len(b) : b[i] = a[1 + i]
  <2>1. ASSUME NEW i \in 1..n - 1 PROVE b[i] = a[1 + i]
    <3>1. i + 1 = 1 + i /\ i + 1 \in 1..n /\ i \in 1..Bufsz - 1
      BY <1>0
    <3> QED  BY <1>1, <1>3, <1>4, <3>1
  <2> QED  BY <1>4, <2>1
<1>6. 1 \in 0..Len(a) /\ Len(b) = Len(a) - 1
  BY <1>3, <1>4
<1>7. b = SubSeq(a, 1 + 1, Len(a))
  BY <1>3, <1>4, <1>5, <1>6, Later
<1>8. 1 + 1 = 2
  OBVIOUS
<1> QED  BY <1>1, <1>2, <1>7, <1>8

\* What a step of reception does.
LEMMA RxEffects ==
    ASSUME SerialRxStep
    PROVE  \/ UNCHANGED rxVars
           \/ \E ch \in Char : RxInd(ch)
           \/ /\ fifo.get # fifo.put
              /\ rx_got' = <<fifo.buffer[fifo.get]>>
              /\ fifo' = [fifo EXCEPT !.get = Following(@)]
BY DEF SerialRxStep, RxNext, rt_serial_read, IntRx, ReadByte, rxVars

LEMMA RxStreamStep ==
    ASSUME FifoInv, SerialRxStep
    PROVE  /\ FifoInv'
           /\ RxStream!Next \/ (RxBytes' = RxBytes /\ rx_got' = rx_got)
<1>0. Bufsz \in Nat /\ Bufsz > 1
  BY SerialAssumption
<1>s. PICK S : S = Char \cup {NoMail}
  OBVIOUS
<1>1. PICK buffer \in [Index -> S], put \in Index, get \in Index :
         buffer = fifo.buffer /\ put = fifo.put /\ get = fifo.get
  BY <1>s DEF FifoInv
<1>2. PICK n \in 0..Bufsz - 1 : n = RxLen(put, get)
  BY RxPlaces
<1>3. RxBytes = Bytes(buffer, get, n)
  BY <1>1, <1>2, RxBytesIs
<1>4. PICK q : q = RxBytes /\ q \in Seq(S) /\ Len(q) = n
  <2>1. n \in 0..Bufsz
    BY <1>0
  <2> QED  BY <1>3, <2>1, BytesSeq
<1>5. CASE UNCHANGED rxVars
  <2>1. fifo' = fifo /\ rx_got' = rx_got
    BY <1>5 DEF rxVars
  <2>2. FifoInv'
    BY <2>1 DEF FifoInv
  <2> QED  BY <2>1, <2>2 DEF RxBytes
<1>6. ASSUME NEW ch \in Char, RxInd(ch)
      PROVE  FifoInv' /\ RxStream!Next
  <2> DEFINE b == [buffer EXCEPT ![put] = ch]
             p == Following(put)
             g == IF p = get THEN Following(get) ELSE get
  <2>1. fifo' = [buffer |-> b, put |-> p, get |-> g] /\ rx_got' = rx_got
    BY <1>1, <1>6 DEF RxInd
  <2>2. p \in Index /\ Following(get) \in Index
    BY RxPlaces
  <2>3. b \in [Index -> S] /\ g \in Index
    BY <1>s, <2>2
  <2> HIDE DEF b, p, g
  <2>4. FifoInv' /\ fifo'.buffer = b /\ fifo'.put = p /\ fifo'.get = g
    BY <1>s, <2>1, <2>2, <2>3 DEF FifoInv
  <2>5. RxBytes' = Bytes(b, g, RxLen(p, g))
    BY <2>4, RxBytesIs
  <2>c. ch \in S /\ <<ch>> \in Seq(S) /\ Len(<<ch>>) = 1
    BY <1>s
  <2>6. Bytes(b, get, n + 1) = q \o <<ch>>
    <3>1. ch \in S
      BY <2>c
    <3>2. Bytes(Stored(buffer, put, ch), get, OneMore(n)) = Behind(Bytes(buffer, get, n), ch)
      BY <1>2, <3>1, StoreAppends
    <3>3. b = Stored(buffer, put, ch)
      BY DEF b, Stored
    <3> QED  BY <1>3, <1>4, <3>2, <3>3 DEF OneMore, Behind
  <2>d. q \o <<ch>> \in Seq(S) /\ Len(q \o <<ch>>) = Len(q) + Len(<<ch>>)
    BY <1>4, <2>c, ConcatProperties
  <2>7. PICK a : a = q \o <<ch>> /\ Len(a) = n + 1 /\ a \in Seq(S)
    BY <1>4, <2>c, <2>d
  <2>8. RxStream!Drops(a) = RxBytes'
    <3>1. CASE p = get
      <4>1. n = Bufsz - 1 /\ RxLen(p, Following(get)) = n
        BY <1>2, <3>1, RxPlaces DEF p
      <4>2. g = Following(get) /\ Len(a) > Bufsz - 1 /\ Len(a) - (Bufsz - 1) + 1 = 2
        BY <1>0, <2>7, <3>1, <4>1 DEF g
      <4>3. RxStream!Drops(a) = SubSeq(a, 2, Len(a))
        BY <4>2 DEF RxStream!Drops
      <4>4. PICK m \in 1..Bufsz : m = n + 1 /\ m - 1 = n
        BY <1>0, <4>1
      <4>5. Bytes(b, Following(get), m - 1) = SubSeq(Bytes(b, get, m), 2, Len(Bytes(b, get, m)))
        BY <2>3, OneLater
      <4> QED  BY <2>5, <2>6, <2>7, <4>1, <4>2, <4>3, <4>4, <4>5
    <3>2. CASE p # get
      <4>1. n < Bufsz - 1 /\ RxLen(p, get) = n + 1
        BY <1>2, <3>2, RxPlaces DEF p
      <4>2. g = get /\ ~(Len(a) > Bufsz - 1)
        BY <1>0, <2>7, <3>2, <4>1 DEF g
      <4>3. RxStream!Drops(a) = a
        BY <4>2 DEF RxStream!Drops
      <4> QED  BY <2>5, <2>6, <2>7, <4>1, <4>2, <4>3
    <3> QED  BY <3>1, <3>2
  <2>9. RxStream!Write(<<ch>>)
    BY <1>4, <2>1, <2>7, <2>8 DEF RxStream!Write
  <2>10. 1 \in 1..1 /\ <<ch>> \in [1..1 -> Char]
    OBVIOUS
  <2> QED  BY <2>4, <2>9, <2>10 DEF RxStream!Next
<1>7. ASSUME fifo.get # fifo.put, rx_got' = <<fifo.buffer[fifo.get]>>,
             fifo' = [fifo EXCEPT !.get = Following(@)]
      PROVE  FifoInv' /\ RxStream!Next
  <2>1. Following(get) \in Index /\ n > 0 /\ RxLen(put, Following(get)) = n - 1
    <3>1. put # get
      BY <1>1, <1>7
    <3>2. n > 0 /\ RxLen(put, Following(get)) = n - 1
      BY <1>2, <3>1, RxOneLess
    <3>3. Following(get) \in Index
      BY RxPlaces
    <3> QED  BY <3>2, <3>3
  <2>2. FifoInv' /\ fifo'.buffer = buffer /\ fifo'.put = put /\ fifo'.get = Following(get)
    BY <1>s, <1>1, <1>7, <2>1 DEF FifoInv
  <2>3. RxBytes' = Bytes(buffer, Following(get), n - 1)
    BY <2>1, <2>2, RxBytesIs
  <2>4. n \in 1..Bufsz /\ n \in 0..Bufsz /\ 1 \in 1..n
    BY <1>0, <2>1
  <2>5. RxBytes' = SubSeq(q, 1 + 1, Len(q))
    <3>1. Bytes(buffer, Following(get), n - 1) = SubSeq(Bytes(buffer, get, n), 2, Len(Bytes(buffer, get, n)))
      BY <2>4, OneLater
    <3>2. 1 + 1 = 2
      OBVIOUS
    <3> QED  BY <1>3, <1>4, <2>3, <3>1, <3>2
  <2>6. rx_got' = SubSeq(q, 1, 1)
    <3>1. q[1] = buffer[RxPlace(get, 1)]
      BY <1>3, <1>4, <2>4, BytesSeq
    <3>2. RxPlace(get, 1) = get
      BY <1>0 DEF RxPlace, Index
    <3>3. SubSeq(q, 1, 1) = <<q[1]>>
      <4>1. SubSeq(q, 1, 1) \in Seq(S) /\ Len(SubSeq(q, 1, 1)) = 1 /\ SubSeq(q, 1, 1)[1] = q[1]
        BY <1>4, <2>4
      <4>2. PICK c : c = SubSeq(q, 1, 1)
        OBVIOUS
      <4>3. c = [i \in 1..1 |-> q[1]] /\ <<q[1]>> = [i \in 1..1 |-> q[1]]
        BY <4>1, <4>2
      <4> QED  BY <4>2, <4>3
    <3> QED  BY <1>1, <1>7, <3>1, <3>2, <3>3
  <2>7. RxStream!Read(1)
    BY <1>4, <2>4, <2>5, <2>6 DEF RxStream!Read
  <2>8. 1 \in 1..Bufsz - 1
    BY <1>0
  <2> QED  BY <2>2, <2>7, <2>8 DEF RxStream!Next
<1> QED  BY <1>5, <1>6, <1>7, RxEffects

-----------------------------------------------------------------------------
(* The ring of a data queue.                                                *)

Held(q) == q.put - q.get

\* What is in the ring was pushed, and the indices are less than one round apart.
DqRing(q) ==
    /\ q \in [item : [0..DqSize - 1 -> Mail \cup {NoMail}], put : 0..MaxIndex, get : 0..MaxIndex,
              waiting_lwm : BOOLEAN]
    /\ q.get <= q.put /\ Held(q) <= DqSize
    /\ \A i \in q.get..q.put - 1 : At(q, i) \in Mail

Queued(q) == [i \in 1..Held(q) |-> At(q, q.get + i - 1)]

Pushed(q, m) == [q EXCEPT !.item[q.put % DqSize] = m, !.put = (@ + 1) % IndexMod]
Popped(q, low) == [q EXCEPT !.get = (@ + 1) % IndexMod, !.waiting_lwm = @ /\ ~low]
Marked(q) == [q EXCEPT !.waiting_lwm = TRUE]

LEMMA NoWrap ==
    ASSUME MaxIndex < IndexMod, NEW i \in 0..MaxIndex, i # MaxIndex
    PROVE  (i + 1) % IndexMod = i + 1
<1>1. MaxIndex \in Nat /\ IndexMod \in Nat \ {0} /\ i + 1 \in 0..IndexMod - 1
  BY DqAssumption
<1>2. i + 1 = IndexMod * 0 + (i + 1)
  BY <1>1
<1> QED  BY <1>1, <1>2, Remainder

LEMMA DqPlace ==
    ASSUME NEW i \in Nat
    PROVE  i % DqSize \in 0..DqSize - 1
BY DqAssumption, Quotient

LEMMA QueuedSeq ==
    ASSUME NEW q, DqRing(q)
    PROVE  /\ Held(q) \in 0..DqSize /\ q.get \in Nat /\ q.put \in Nat
           /\ Queued(q) \in Seq(Mail) /\ Len(Queued(q)) = Held(q)
           /\ \A i \in 1..Held(q) : Queued(q)[i] = At(q, q.get + i - 1)
<1>1. q.get \in Nat /\ q.put \in Nat /\ Held(q) \in 0..DqSize
  BY DqAssumption DEF DqRing, Held
<1>2. PICK n \in Nat : n = Held(q)
  BY <1>1
<1>3. ASSUME NEW i \in 1..n PROVE At(q, q.get + i - 1) \in Mail
  <2>1. q.get + i - 1 \in q.get..q.put - 1
    BY <1>1, <1>2 DEF Held
  <2> QED  BY <2>1 DEF DqRing
<1>4. [i \in 1..n |-> At(q, q.get + i - 1)] \in Seq(Mail)
  BY <1>3
<1> QED  BY <1>1, <1>2, <1>4 DEF Queued

\* A push puts its item behind the others and overwrites none of them.
LEMMA PushRing ==
    ASSUME MaxIndex < IndexMod, NEW q, DqRing(q), NEW m \in Mail, q.put # MaxIndex, Held(q) # DqSize,
           NEW p, p = Pushed(q, m)
    PROVE  /\ DqRing(p) /\ Held(p) = Held(q) + 1 /\ p.waiting_lwm = q.waiting_lwm
           /\ Queued(p) = Append(Queued(q), m)
<1>0. MaxIndex \in Nat /\ DqSize \in Nat \ {0}
  BY DqAssumption
<1>1. PICK put \in 0..MaxIndex, get \in 0..MaxIndex, n \in 0..DqSize :
         put = q.put /\ get = q.get /\ get <= put /\ n = put - get /\ n = Held(q) /\ n # DqSize /\ put # MaxIndex
  BY <1>0 DEF DqRing, Held
<1>2. put % DqSize \in 0..DqSize - 1
  BY DqPlace
<1>3. (put + 1) % IndexMod = put + 1
  BY <1>1, NoWrap
<1> DEFINE item == [q.item EXCEPT ![put % DqSize] = m]
<1>4. p = [q EXCEPT !.item = item, !.put = put + 1]
  BY <1>1, <1>3 DEF Pushed, DqRing
<1>5. item \in [0..DqSize - 1 -> Mail \cup {NoMail}]
  BY <1>2 DEF DqRing
<1>6. item[put % DqSize] = m /\ \A j \in 0..DqSize - 1 : j # put % DqSize => item[j] = q.item[j]
  BY <1>2 DEF DqRing
<1> HIDE DEF item
<1>7. put + 1 \in 0..MaxIndex
  BY <1>0, <1>1
<1>8. /\ p \in [item : [0..DqSize - 1 -> Mail \cup {NoMail}], put : 0..MaxIndex, get : 0..MaxIndex,
                waiting_lwm : BOOLEAN]
      /\ p.item = item /\ p.put = put + 1 /\ p.get = get /\ p.waiting_lwm = q.waiting_lwm
  BY <1>1, <1>4, <1>5, <1>7 DEF DqRing
<1>9. At(p, put) = m
  BY <1>6, <1>8 DEF At
<1>10. ASSUME NEW i \in get..put - 1 PROVE At(p, i) = At(q, i) /\ At(q, i) \in Mail
  <2>1. i \in Nat /\ i \in Int /\ put \in Int /\ i < put /\ put - i < DqSize
    BY <1>0, <1>1
  <2>2. i % DqSize # put % DqSize
    BY <1>0, <2>1, OtherPlace
  <2>3. i % DqSize \in 0..DqSize - 1
    BY <2>1, DqPlace
  <2>4. At(q, i) \in Mail
    BY <1>1 DEF DqRing
  <2> QED  BY <1>6, <1>8, <2>2, <2>3, <2>4 DEF At
<1>11. Held(p) = n + 1 /\ n + 1 <= DqSize
  <2>1. Held(p) = put + 1 - get
    BY <1>8 DEF Held
  <2>2. put + 1 - get = n + 1 /\ n + 1 <= DqSize
    BY <1>0, <1>1
  <2> QED  BY <2>1, <2>2
<1>12. \A i \in get..(put + 1) - 1 : At(p, i) \in Mail
  <2>1. ASSUME NEW i \in get..(put + 1) - 1 PROVE At(p, i) \in Mail
    <3>1. i = put \/ i \in get..put - 1
      BY <1>1
    <3> QED  BY <1>9, <1>10, <3>1
  <2> QED  BY <2>1
<1>13. DqRing(p)
  <2>1. get <= put + 1
    BY <1>1
  <2>2. p.get <= p.put /\ Held(p) <= DqSize
    BY <1>8, <1>11, <2>1
  <2>3. \A i \in p.get..p.put - 1 : At(p, i) \in Mail
    BY <1>8, <1>12
  <2> QED  BY <1>8, <2>2, <2>3, ZenonT(30) DEF DqRing
<1>14. Queued(p) = Append(Queued(q), m)
  <2>1. PICK a, b : a = Queued(p) /\ b = Queued(q)
    OBVIOUS
  <2>2. a \in Seq(Mail) /\ Len(a) = n + 1 /\ \A i \in 1..n + 1 : a[i] = At(p, get + i - 1)
    BY <1>8, <1>11, <1>13, <2>1, QueuedSeq
  <2>3. b \in Seq(Mail) /\ Len(b) = n /\ \A i \in 1..n : b[i] = At(q, get + i - 1)
    BY <1>1, <2>1, QueuedSeq
  <2>4. Append(b, m) \in Seq(Mail) /\ Len(Append(b, m)) = n + 1 /\ Append(b, m)[n + 1] = m
        /\ \A i \in 1..n : Append(b, m)[i] = b[i]
    BY <1>0, <2>3
  <2>5. a[n + 1] = m
    <3>1. get + (n + 1) - 1 = put /\ n + 1 \in 1..n + 1
      BY <1>1
    <3> QED  BY <1>9, <2>2, <3>1
  <2>6. ASSUME NEW i \in 1..n PROVE a[i] = Append(b, m)[i]
    <3>1. get + i - 1 \in get..put - 1 /\ i \in 1..n + 1
      BY <1>1
    <3> QED  BY <1>10, <2>2, <2>3, <2>4, <3>1
  <2>7. PICK c : c = Append(b, m)
    OBVIOUS
  <2>8. c \in Seq(Mail) /\ Len(c) = n + 1 /\ \A i \in 1..n + 1 : a[i] = c[i]
    <3>1. \A i \in 1..n + 1 : i \in 1..n \/ i = n + 1
      BY <1>1
    <3> QED  BY <2>4, <2>5, <2>6, <2>7, <3>1
  <2>9. a = c
    BY <1>1, <2>2, <2>8
  <2> QED  BY <2>1, <2>7, <2>9
<1> QED  BY <1>1, <1>8, <1>11, <1>13, <1>14

\* A pop takes the oldest item.
LEMMA PopRing ==
    ASSUME MaxIndex < IndexMod, NEW q, DqRing(q), q.get # q.put, NEW low \in BOOLEAN,
           NEW p, p = Popped(q, low)
    PROVE  /\ DqRing(p) /\ Held(p) = Held(q) - 1 /\ Held(q) > 0 /\ (p.waiting_lwm <=> q.waiting_lwm /\ ~low)
           /\ Queued(q) # <<>> /\ Head(Queued(q)) = At(q, q.get) /\ At(q, q.get) \in Mail
           /\ Queued(p) = Tail(Queued(q))
           /\ p.item = q.item /\ p.get = q.get + 1 /\ p.put = q.put
<1>0. MaxIndex \in Nat /\ DqSize \in Nat \ {0}
  BY DqAssumption
<1>1. PICK put \in 0..MaxIndex, get \in 0..MaxIndex, n \in 1..DqSize :
         put = q.put /\ get = q.get /\ get < put /\ n = put - get /\ n = Held(q) /\ get # MaxIndex
  BY <1>0 DEF DqRing, Held
<1>2. (get + 1) % IndexMod = get + 1 /\ get + 1 \in 0..MaxIndex
  BY <1>0, <1>1, NoWrap
<1>3. q.waiting_lwm \in BOOLEAN
  BY Zenon DEF DqRing
<1> DEFINE mark == q.waiting_lwm /\ ~low
           g == get + 1
<1>4. mark \in BOOLEAN
  BY <1>3
<1>5. p = [q EXCEPT !.get = g, !.waiting_lwm = mark]
  BY <1>1, <1>2 DEF Popped, DqRing
<1>6. q \in [item : [0..DqSize - 1 -> Mail \cup {NoMail}], put : 0..MaxIndex, get : 0..MaxIndex,
             waiting_lwm : BOOLEAN] /\ g \in 0..MaxIndex
  BY <1>2 DEF DqRing
<1> HIDE DEF mark, g
<1>7. /\ p \in [item : [0..DqSize - 1 -> Mail \cup {NoMail}], put : 0..MaxIndex, get : 0..MaxIndex,
                waiting_lwm : BOOLEAN]
      /\ p.item = q.item /\ p.put = q.put /\ p.get = g /\ p.waiting_lwm = mark
  BY <1>4, <1>5, <1>6, ZenonT(40)
<1>8. \A i : At(p, i) = At(q, i)
  BY <1>7 DEF At
<1>9. Held(p) = n - 1 /\ p.get = get + 1 /\ p.put = put
  BY <1>1, <1>7 DEF Held, g
<1>10. \A i \in get..put - 1 : At(q, i) \in Mail
  BY <1>1 DEF DqRing
<1>11. \A i \in get + 1..put - 1 : At(p, i) \in Mail
  BY <1>1, <1>8, <1>10
<1>12. DqRing(p)
  <2>1. get + 1 <= put /\ n - 1 <= DqSize
    BY <1>0, <1>1
  <2> QED  BY <1>7, <1>9, <1>11, <2>1 DEF DqRing
<1>13. PICK a, b : a = Queued(q) /\ b = Queued(p)
  OBVIOUS
<1>14. a \in Seq(Mail) /\ Len(a) = n /\ \A i \in 1..n : a[i] = At(q, get + i - 1)
  BY <1>1, <1>13, QueuedSeq
<1>15. b \in Seq(Mail) /\ Len(b) = n - 1 /\ \A i \in 1..n - 1 : b[i] = At(p, get + 1 + i - 1)
  BY <1>9, <1>12, <1>13, QueuedSeq
<1>16. a # <<>> /\ Head(a) = a[1] /\ a[1] = At(q, get)
  <2>1. 1 \in 1..n /\ get + 1 - 1 = get
    BY <1>1
  <2> QED  BY <1>14, <2>1
<1>17. Tail(a) \in Seq(Mail) /\ Len(Tail(a)) = n - 1 /\ \A i \in 1..n - 1 : Tail(a)[i] = a[i + 1]
  BY <1>14, <1>16
<1>18. b = Tail(a)
  <2>1. PICK c : c = Tail(a)
    OBVIOUS
  <2>2. ASSUME NEW i \in 1..n - 1 PROVE b[i] = c[i]
    <3>1. i + 1 \in 1..n /\ get + (i + 1) - 1 = get + 1 + i - 1
      BY <1>1
    <3> QED  BY <1>8, <1>14, <1>15, <1>17, <2>1, <3>1
  <2>3. b \in Seq(Mail) /\ c \in Seq(Mail) /\ Len(b) = Len(c)
    BY <1>15, <1>17, <2>1
  <2>4. \A i \in 1..Len(b) : b[i] = c[i]
    BY <1>15, <2>2
  <2>5. b = c
    BY <2>3, <2>4, SeqEqual
  <2> QED  BY <2>1, <2>5
<1>19. At(q, get) \in Mail
  BY <1>1, <1>10
<1>20. p.waiting_lwm <=> q.waiting_lwm /\ ~low
  BY <1>7 DEF mark
<1> QED  BY <1>1, <1>7, <1>9, <1>12, <1>13, <1>16, <1>18, <1>19, <1>20

\* Only the mark changes.
LEMMA MarkRing ==
    ASSUME NEW q, DqRing(q), NEW p, p = Marked(q)
    PROVE  /\ DqRing(p) /\ Held(p) = Held(q) /\ p.waiting_lwm /\ Queued(p) = Queued(q)
           /\ p.get = q.get /\ p.put = q.put /\ p.item = q.item
<1>1. p.item = q.item /\ p.put = q.put /\ p.get = q.get /\ p.waiting_lwm = TRUE
      /\ p \in [item : [0..DqSize - 1 -> Mail \cup {NoMail}], put : 0..MaxIndex, get : 0..MaxIndex,
                waiting_lwm : BOOLEAN]
  BY DEF DqRing, Marked
<1>2. Held(p) = Held(q) /\ \A i : At(p, i) = At(q, i)
  BY <1>1 DEF Held, At
<1> QED  BY <1>1, <1>2 DEF DqRing, Queued

-----------------------------------------------------------------------------
(* The data queue and its waiters.                                          *)

DqOps == {"idle", "dq_push", "dq_pop", "dma_check", "dma_start"}
DqLists == {"dq_push", "dq_pop"}

\* Who pushes waits without limit.
DqCalls(a, d) ==
    \A u \in Thread : d[u].op = "dq_push" => u \in Pushers(a) /\ d[u].timeout = "forever"

\* A thread was resumed for each of n items, or nobody waits for one.
WakePop(s, d, n) == s.list["dq_pop"] # <<>> => n <= Cardinality(Woke(s, d, "dq_pop"))

\* A pop is still to reach the low water mark for who waits to push ...
WakePush(s, q) == s.list["dq_push"] # <<>> => q.waiting_lwm /\ Held(q) > Lwm

\* ... and when it does, unless the queue is reset, there is somebody.
Found(s, q, m) ==
    "reset" \notin s.app.uses => ~m /\ (q.waiting_lwm => s.list["dq_push"] # <<>>)

DqInv ==
    /\ DqRing(dq) /\ masked \in BOOLEAN
    /\ DqCalls(w.app, call)
    /\ WakePop(w, call, Held(dq)) /\ WakePush(w, dq) /\ Found(w, dq, masked)

\* What a step does to the items.
DqMove ==
    \/ \E m \in Mail : Queued(dq') = Append(Queued(dq), m) /\ Held(dq) < DqSize /\ dq_got' = dq_got
    \/ Queued(dq) # <<>> /\ dq_got' = Head(Queued(dq)) /\ Queued(dq') = Tail(Queued(dq))
    \/ Queued(dq') = Queued(dq) /\ dq_got' = dq_got

DqGoal == Frame(w, call, w', call', DqOps, DqLists) /\ DqInv' /\ DqMove

LEMMA DqQueues ==
    /\ "dq_push" \in DriverQueue /\ "dq_push" \in Queue /\ "dq_push" \in DqOps /\ "dq_push" \in DqLists
    /\ "dq_pop" \in DriverQueue /\ "dq_pop" \in Queue /\ "dq_pop" \in DqOps /\ "dq_pop" \in DqLists
    /\ Idle.op \in DqOps /\ OpOf("dq_push") = "dq_push" /\ OpOf("dq_pop") = "dq_pop"
BY DriverQueues, DriverWaits, IdleOp DEF DriverQueue, DqOps, DqLists

\* A thread that neither was nor becomes one of those that were resumed.
LEMMA WokeSame ==
    ASSUME NEW s, NEW d, NEW r, NEW c, NEW t, NEW op, d[t].op # op, c[t].op # op,
           \A u \in Thread : u # t => c[u] = d[u] /\ r.stat[u] = s.stat[u] /\ r.error[u] = s.error[u]
    PROVE  Woke(r, c, op) = Woke(s, d, op)
BY DEF Woke

\* Resuming a pusher.
LEMMA ResumePusher ==
    ASSUME NEW s, NEW d, BaseOK(s, d)
    PROVE  /\ ResumeFirst(s, "dq_push").app = s.app
           /\ ResumeFirst(s, "dq_push").list["dq_pop"] = s.list["dq_pop"]
           /\ Woke(ResumeFirst(s, "dq_push"), d, "dq_pop") = Woke(s, d, "dq_pop")
<1>1. WaitInv(s, d) /\ "dq_push" # "dq_pop"
  BY DEF BaseOK
<1> QED  BY <1>1, DqQueues, ResumeFirstFields, WokeResumeFirst

\* Resuming a thread that waits to pop.
LEMMA ResumePopper ==
    ASSUME NEW s, NEW d, BaseOK(s, d)
    PROVE  /\ ResumeFirst(s, "dq_pop").app = s.app
           /\ ResumeFirst(s, "dq_pop").list["dq_push"] = s.list["dq_push"]
           /\ s.list["dq_pop"] = <<>> => ResumeFirst(s, "dq_pop").list["dq_pop"] = <<>>
           /\ s.list["dq_pop"] # <<>> =>
                 Cardinality(Woke(ResumeFirst(s, "dq_pop"), d, "dq_pop")) = Cardinality(Woke(s, d, "dq_pop")) + 1
<1>1. WaitInv(s, d) /\ "dq_push" # "dq_pop"
  BY DEF BaseOK
<1>2. /\ ResumeFirst(s, "dq_pop").app = s.app
      /\ ResumeFirst(s, "dq_pop").list["dq_push"] = s.list["dq_push"]
      /\ s.list["dq_pop"] = <<>> => ResumeFirst(s, "dq_pop") = s
  BY <1>1, DqQueues, ResumeFirstFields
<1>3. ASSUME s.list["dq_pop"] # <<>>
      PROVE  Cardinality(Woke(ResumeFirst(s, "dq_pop"), d, "dq_pop")) = Cardinality(Woke(s, d, "dq_pop")) + 1
  <2>1. PICK h : /\ Woke(ResumeFirst(s, "dq_pop"), d, "dq_pop") = Woke(s, d, "dq_pop") \cup {h}
                 /\ h \notin Woke(s, d, "dq_pop")
    BY <1>1, <1>3, DqQueues, WokeResumeFirst
  <2> QED  BY <2>1, WokeFinite, FS_AddElement
<1> QED  BY <1>2, <1>3

LEMMA PushWakes ==
    ASSUME NEW s, NEW d, BaseOK(s, d), NEW q, NEW p, NEW m, NEW n \in Nat,
           WakePop(s, d, n), WakePush(s, q), Found(s, q, m),
           Held(q) = n, Held(p) = n + 1, p.waiting_lwm = q.waiting_lwm
    PROVE  LET r == ResumeFirst(s, "dq_pop")
           IN  WakePop(r, d, n + 1) /\ WakePush(r, p) /\ Found(r, p, m)
<1> DEFINE r == ResumeFirst(s, "dq_pop")
<1>1. /\ r.app = s.app /\ r.list["dq_push"] = s.list["dq_push"]
      /\ s.list["dq_pop"] = <<>> => r.list["dq_pop"] = <<>>
      /\ s.list["dq_pop"] # <<>> => Cardinality(Woke(r, d, "dq_pop")) = Cardinality(Woke(s, d, "dq_pop")) + 1
  BY ResumePopper
<1> HIDE DEF r
<1>2. Cardinality(Woke(s, d, "dq_pop")) \in Nat
  BY WokeFinite
<1>3. WakePop(r, d, n + 1)
  BY <1>1, <1>2 DEF WakePop
<1>4. WakePush(r, p)
  BY <1>1, DqAssumption DEF WakePush
<1>5. Found(r, p, m)
  BY <1>1 DEF Found
<1> QED  BY <1>3, <1>4, <1>5 DEF r

LEMMA PopWakes ==
    ASSUME NEW s, NEW d, BaseOK(s, d), DqCalls(s.app, d), One(Pushers(s.app)),
           NEW q, NEW p, NEW m, NEW m2, NEW n \in Nat \ {0}, NEW low \in BOOLEAN,
           Held(q) = n, Held(p) = n - 1,
           low <=> q.waiting_lwm /\ n - 1 <= Lwm, p.waiting_lwm <=> q.waiting_lwm /\ ~low,
           m2 <=> m \/ (low /\ s.list["dq_push"] = <<>>),
           WakePop(s, d, n - 1), WakePush(s, q), Found(s, q, m),
           NEW r, r = IF low THEN ResumeFirst(s, "dq_push") ELSE s
    PROVE  WakePop(r, d, n - 1) /\ WakePush(r, p) /\ Found(r, p, m2)
<1>1. /\ r.app = s.app /\ r.list["dq_pop"] = s.list["dq_pop"]
      /\ Woke(r, d, "dq_pop") = Woke(s, d, "dq_pop")
  BY ResumePusher
<1>2. low => r.list["dq_push"] = <<>>
  <2>1. \A u \in Thread : d[u].op = "dq_push" => u \in Pushers(s.app)
    BY DEF DqCalls
  <2> QED  BY <2>1, DqQueues, OnlyOne
<1>3. ~low => r = s
  OBVIOUS
<1>4. WakePop(r, d, n - 1)
  BY <1>1 DEF WakePop
<1>5. WakePush(r, p)
  <2>1. CASE low
    BY <1>2, <2>1 DEF WakePush
  <2>2. CASE ~low
    BY <1>3, <2>2, DqAssumption DEF WakePush
  <2> QED  BY <2>1, <2>2
<1>6. Found(r, p, m2)
  <2>1. CASE low
    BY <1>1, <2>1 DEF Found
  <2>2. CASE ~low
    BY <1>3, <2>2 DEF Found
  <2> QED  BY <2>1, <2>2
<1> QED  BY <1>4, <1>5, <1>6

LEMMA WokeLess ==
    ASSUME NEW s, NEW d, BaseOK(s, d), NEW t \in Thread, NEW e, e.op # "dq_pop"
    PROVE  Woke(s, [d EXCEPT ![t] = e], "dq_pop") = Woke(s, d, "dq_pop") \ {t}
BY WokeStay DEF BaseOK

\* The threads that were resumed to pop, after one of them, or another, changed its call.
LEMMA WakePopLess ==
    ASSUME BaseOK(w, call), NEW t \in Thread, NEW e, e.op # "dq_pop", NEW n \in Nat \ {0},
           WakePop(w, call, n)
    PROVE  /\ WakePop(w, [call EXCEPT ![t] = e], n - 1)
           /\ call[t].op # "dq_pop" => WakePop(w, [call EXCEPT ![t] = e], n)
<1> DEFINE d == [call EXCEPT ![t] = e]
<1>1. Woke(w, d, "dq_pop") = Woke(w, call, "dq_pop") \ {t}
  BY WokeStay DEF BaseOK
<1>2. call[t].op # "dq_pop" => t \notin Woke(w, call, "dq_pop")
  BY DEF Woke
<1>4. Cardinality(Woke(w, call, "dq_pop")) \in Nat /\ Cardinality(Woke(w, d, "dq_pop")) \in Nat
  BY WokeFinite
<1>3. Cardinality(Woke(w, d, "dq_pop")) >= Cardinality(Woke(w, call, "dq_pop")) - 1
  <2>1. PICK S, T : S = Woke(w, call, "dq_pop") /\ T = Woke(w, d, "dq_pop") /\ T = S \ {t}
    BY <1>1
  <2>2. IsFiniteSet(S)
    BY <2>1, WokeFinite
  <2>3. Cardinality(T) = IF t \in S THEN Cardinality(S) - 1 ELSE Cardinality(S)
    BY <2>1, <2>2, FS_RemoveElement, ZenonT(60)
  <2> QED  BY <1>4, <2>1, <2>3
<1>5. call[t].op # "dq_pop" => Woke(w, d, "dq_pop") = Woke(w, call, "dq_pop")
  BY <1>1, <1>2
<1> HIDE DEF d
<1>6. WakePop(w, d, n - 1)
  BY <1>3, <1>4 DEF WakePop
<1>7. call[t].op # "dq_pop" => WakePop(w, d, n)
  BY <1>5 DEF WakePop
<1> QED  BY <1>6, <1>7 DEF d

LEMMA DqCallsStay ==
    ASSUME BaseOK(w, call), DqCalls(w.app, call), NEW t \in Thread, NEW e, e.op # "dq_push"
    PROVE  DqCalls(w.app, [call EXCEPT ![t] = e])
<1>1. \A u \in Thread : [call EXCEPT ![t] = e][u] = IF u = t THEN e ELSE call[u]
  BY DEF BaseOK, WaitInv, Caller
<1> QED  BY <1>1 DEF DqCalls

\* A thread goes on, and leaves the data queue alone.
LEMMA DqStayStep ==
    ASSUME BaseOK(w, call), DqInv, NEW t \in Thread, w.stat[t] = "READY", call[t].op \in DqOps,
           NEW e, CallOK(e), e.op \in DqOps \ DqLists, call' = [call EXCEPT ![t] = e],
           w' = w, UNCHANGED dqVars, call[t].op = "dq_pop" => Held(dq) = 0 \/ w.error[t] # "EOK"
    PROVE  DqGoal
<1>0. e.op \in DqOps /\ e.op # "dq_push" /\ e.op # "dq_pop"
  BY DEF DqLists
<1>1. Frame(w, call, w, call', DqOps, DqLists)
  BY <1>0, FrameStay
<1>2. DqCalls(w.app, call')
  BY <1>0, DqCallsStay DEF DqInv
<1>3. dq' = dq /\ masked' = masked /\ dq_got' = dq_got
  BY DEF dqVars
<1>4. WakePop(w, call', Held(dq))
  <2>1. CASE Held(dq) = 0
    <3>1. Cardinality(Woke(w, call', "dq_pop")) \in Nat
      BY WokeFinite
    <3> QED  BY <2>1, <3>1 DEF WakePop
  <2>2. CASE call[t].op # "dq_pop" \/ w.error[t] # "EOK"
    <3>0. Woke(w, [call EXCEPT ![t] = e], "dq_pop") = Woke(w, call, "dq_pop") \ {t}
      BY <1>0, WokeLess
    <3>1. Woke(w, call', "dq_pop") = Woke(w, call, "dq_pop") \ {t}
      BY <3>0
    <3>2. t \notin Woke(w, call, "dq_pop")
      BY <2>2 DEF Woke
    <3> QED  BY <3>1, <3>2 DEF WakePop, DqInv
  <2> QED  BY <2>1, <2>2
<1> QED  BY <1>1, <1>2, <1>3, <1>4 DEF DqGoal, DqInv, DqMove

\* The section of a push.
LEMMA PushStep ==
    ASSUME MaxIndex < IndexMod, BaseOK(w, call), DqInv,
           NEW t \in Thread, w.stat[t] = "READY", call[t].op \in DqOps, call[t].op # "dq_pop",
           NEW e, CallOK(e), e.op \in DqOps \ DqLists, call' = [call EXCEPT ![t] = e],
           NEW m \in Mail, ~Full, dq.put # MaxIndex, PushSection(m)
    PROVE  DqGoal /\ dq' = Pushed(dq, m)
<1>0. e.op \in DqOps /\ e.op # "dq_push" /\ e.op # "dq_pop"
  BY DEF DqLists
<1>1. DqRing(dq) /\ Held(dq) # DqSize /\ dq' = Pushed(dq, m)
      /\ w' = ResumeFirst(w, "dq_pop") /\ masked' = masked /\ dq_got' = dq_got
  BY DEF DqInv, Full, Used, Held, PushSection, Pushed
<1>2. DqRing(dq') /\ Held(dq') = Held(dq) + 1 /\ dq'.waiting_lwm = dq.waiting_lwm
      /\ Queued(dq') = Append(Queued(dq), m)
  BY <1>1, PushRing
<1>3. PICK n \in 0..DqSize : n = Held(dq)
  BY <1>1, QueuedSeq
<1>4. n \in Nat /\ n < DqSize
  BY <1>1, <1>3, DqAssumption
<1>5. Frame(w, call, w', call', DqOps, DqLists)
  BY <1>0, <1>1, DqQueues, FrameStayResume
<1>6. Frame(w, call, w, call', DqOps, DqLists)
  BY <1>0, FrameStay
<1>7. DqCalls(w.app, call') /\ w'.app = w.app
  BY <1>0, <1>5, DqCallsStay DEF DqInv, Frame, Affects
<1>8. WakePop(w, call', n)
  <2>0. Woke(w, [call EXCEPT ![t] = e], "dq_pop") = Woke(w, call, "dq_pop") \ {t}
    BY <1>0, WokeLess
  <2>1. Woke(w, call', "dq_pop") = Woke(w, call, "dq_pop") \ {t}
    BY <2>0
  <2>2. t \notin Woke(w, call, "dq_pop")
    BY DEF Woke
  <2> QED  BY <1>3, <2>1, <2>2 DEF WakePop, DqInv
<1>9. WakePop(w', call', n + 1) /\ WakePush(w', dq') /\ Found(w', dq', masked)
  <2>1. BaseOK(w, call') /\ Held(dq') = n + 1
    BY <1>2, <1>3, <1>6 DEF Frame
  <2>2. WakePush(w, dq) /\ Found(w, dq, masked)
    BY DEF DqInv
  <2>3. PICK p, q, o : p = dq' /\ q = dq /\ o = masked
    OBVIOUS
  <2>4. PICK d : d = call'
    OBVIOUS
  <2>5. LET r == ResumeFirst(w, "dq_pop")
        IN  WakePop(r, d, n + 1) /\ WakePush(r, p) /\ Found(r, p, o)
    BY <1>2, <1>3, <1>4, <1>8, <2>1, <2>2, <2>3, <2>4, PushWakes
  <2> QED  BY <1>1, <2>3, <2>4, <2>5
<1> QED  BY <1>1, <1>2, <1>3, <1>4, <1>5, <1>7, <1>9 DEF DqGoal, DqInv, DqMove

\* The section of a pop, in a thread or in a handler.
LEMMA PopStep ==
    ASSUME MaxIndex < IndexMod, BaseOK(w, call'), Affects(w, call, w, call', DqOps, DqLists),
           DqInv, Orderly(w.app), DqCalls(w.app, call'), WakePop(w, call', Held(dq) - 1),
           ~Empty, PopSection
    PROVE  /\ DqGoal /\ dq' = Popped(dq, dq.waiting_lwm /\ Used - 1 <= Lwm)
           /\ dq_got' = At(dq, dq.get)
<1>l. PICK low \in BOOLEAN : low <=> dq.waiting_lwm /\ Used - 1 <= Lwm
  OBVIOUS
<1>1. DqRing(dq) /\ dq.get # dq.put /\ masked \in BOOLEAN
  BY DEF DqInv, Empty
<1>2. dq' = Popped(dq, low) /\ dq_got' = At(dq, dq.get)
      /\ w' = IF low THEN ResumeFirst(w, "dq_push") ELSE w
  BY <1>l DEF PopSection, Popped
<1>3. masked' = (masked \/ (low /\ w.list["dq_push"] = <<>>))
  BY <1>l DEF PopSection
<1>4. /\ DqRing(dq') /\ Held(dq') = Held(dq) - 1 /\ Held(dq) > 0
      /\ (dq'.waiting_lwm <=> dq.waiting_lwm /\ ~low)
      /\ Queued(dq) # <<>> /\ Head(Queued(dq)) = At(dq, dq.get)
      /\ Queued(dq') = Tail(Queued(dq))
  BY <1>1, <1>2, PopRing
<1>5. PICK n \in Nat \ {0} : n = Held(dq) /\ Held(dq') = n - 1
  BY <1>1, <1>4, QueuedSeq
<1>6. Frame(w, call', w', call', DqOps, DqLists)
  BY <1>2, DqQueues, FrameResume, FrameNone
<1>7. Frame(w, call, w', call', DqOps, DqLists)
  BY <1>6, FrameTrans
<1>8. w'.app = w.app
  BY <1>7 DEF Frame, Affects
<1>9. masked' \in BOOLEAN /\ (masked' <=> masked \/ (low /\ w.list["dq_push"] = <<>>))
  BY <1>3
<1>10. WakePop(w', call', n - 1) /\ WakePush(w', dq') /\ Found(w', dq', masked')
  <2>1. One(Pushers(w.app)) /\ WakePush(w, dq) /\ Found(w, dq, masked) /\ WakePop(w, call', n - 1)
    BY <1>5 DEF Orderly, DqInv
  <2>2. low <=> dq.waiting_lwm /\ n - 1 <= Lwm
    BY <1>l, <1>5 DEF Used, Held
  <2>3. PICK p, q, m, m2, r, d : /\ p = dq' /\ q = dq /\ m = masked /\ r = w' /\ d = call'
                                 /\ m2 = masked'
    OBVIOUS
  <2>4. m2 <=> m \/ (low /\ w.list["dq_push"] = <<>>)
    BY <1>9, <2>3
  <2>5. WakePop(r, d, n - 1) /\ WakePush(r, p) /\ Found(r, p, m2)
    BY <1>2, <1>4, <1>5, <2>1, <2>2, <2>3, <2>4, PopWakes
  <2> QED  BY <2>3, <2>5
<1>11. dq' = Popped(dq, dq.waiting_lwm /\ Used - 1 <= Lwm)
  BY DEF PopSection, Popped
<1> QED  BY <1>2, <1>4, <1>5, <1>7, <1>8, <1>9, <1>10, <1>11 DEF DqGoal, DqInv, DqMove

\* A thread suspends itself.
Suspends(t, q, e) ==
    /\ Frame(w, call, w', call', DqOps, DqLists) /\ w'.app = w.app
    /\ \A p \in Queue : w'.list[p] = IF p = q THEN Append(w.list[q], t) ELSE w.list[p]
    /\ \A u \in Thread : w'.stat[u] = IF u = t THEN "SUSPEND" ELSE w.stat[u]
    /\ \A u \in Thread : w'.error[u] = IF u = t THEN "EOK" ELSE w.error[u]
    /\ \A u \in Thread : call'[u] = IF u = t THEN e ELSE call[u]

LEMMA DqSuspend ==
    ASSUME BaseOK(w, call), NEW t \in Thread, w.stat[t] = "READY", call[t].op \in DqOps,
           NEW q \in DqLists, NEW e, CallOK(e), e.op = q, NEW timed \in BOOLEAN, timed => q = "dq_pop",
           w' = SuspendLast(w, q, t, timed), call' = [call EXCEPT ![t] = e]
    PROVE  Suspends(t, q, e)
<1>1. q \in DriverQueue /\ q \in Queue /\ q \in DqOps /\ (timed => q \in {"done", "dq_pop"})
  BY DqQueues DEF DqLists
<1>2. Frame(w, call, SuspendLast(w, q, t, timed), [call EXCEPT ![t] = e], DqOps, DqLists)
  BY <1>1, FrameSuspend
<1>3. w \in Waits
  BY DEF BaseOK, WaitInv
<1>4. /\ SuspendLast(w, q, t, timed).app = w.app
      /\ \A p \in Queue : SuspendLast(w, q, t, timed).list[p] = IF p = q THEN Append(w.list[q], t) ELSE w.list[p]
  BY <1>1, <1>3, SuspendLastFields
<1>5. \A u \in Thread : /\ SuspendLast(w, q, t, timed).stat[u] = IF u = t THEN "SUSPEND" ELSE w.stat[u]
                        /\ SuspendLast(w, q, t, timed).error[u] = IF u = t THEN "EOK" ELSE w.error[u]
  BY <1>1, <1>3, SuspendLastFields
<1>6. \A u \in Thread : call'[u] = IF u = t THEN e ELSE call[u]
  BY DEF BaseOK, WaitInv, Caller
<1> QED  BY <1>2, <1>4, <1>5, <1>6 DEF Suspends

\* A thread waits to push ...
LEMMA PushWaits ==
    ASSUME BaseOK(w, call), DqInv, NEW t \in Thread, w.stat[t] = "READY",
           call[t].op \in DqOps, call[t].op # "dq_pop", t \in Pushers(w.app),
           NEW m \in Mail, NEW back \in {Idle, DmaCheck(m)}, Full, dq' = Marked(dq),
           WaitOn(t, "dq_push", m, "forever", back)
    PROVE  DqGoal
<1> DEFINE e == [op |-> "dq_push", mail |-> m, timeout |-> "forever", back |-> back]
<1>0. CallOK(e) /\ e.op = "dq_push" /\ e.timeout = "forever" /\ e.op # "dq_pop"
  BY DEF CallOK
<1>1. PICK timed \in BOOLEAN : timed = ("forever" = "timed") /\ ~timed
  OBVIOUS
<1>2. w' = SuspendLast(w, "dq_push", t, timed) /\ call' = [call EXCEPT ![t] = e]
      /\ masked' = masked /\ dq_got' = dq_got
  BY <1>1 DEF WaitOn
<1> HIDE DEF e
<1>3. /\ Frame(w, call, w', call', DqOps, DqLists) /\ w'.app = w.app
      /\ w'.list["dq_push"] = Append(w.list["dq_push"], t)
      /\ w'.list["dq_pop"] = w.list["dq_pop"]
      /\ \A u \in Thread : w'.stat[u] = IF u = t THEN "SUSPEND" ELSE w.stat[u]
      /\ \A u \in Thread : w'.error[u] = IF u = t THEN "EOK" ELSE w.error[u]
      /\ \A u \in Thread : call'[u] = IF u = t THEN e ELSE call[u]
  <2>1. PICK q \in DqLists : q = "dq_push"
    BY DqQueues
  <2>2. e.op = q /\ (timed => q = "dq_pop") /\ w' = SuspendLast(w, q, t, timed) /\ CallOK(e)
        /\ call' = [call EXCEPT ![t] = e]
    BY <1>0, <1>1, <1>2, <2>1
  <2>3. Suspends(t, q, e)
    BY <2>2, DqSuspend
  <2>4. "dq_push" # "dq_pop"
    OBVIOUS
  <2> QED  BY <2>1, <2>3, <2>4, DqQueues DEF Suspends
<1>4. \A u \in Thread : call'[u] = IF u = t THEN e ELSE call[u]
  BY <1>3
<1>5. DqCalls(w'.app, call')
  BY <1>0, <1>3, <1>4 DEF DqCalls, DqInv
<1>6. Woke(w', call', "dq_pop") = Woke(w, call, "dq_pop")
  BY <1>0, <1>3, <1>4, Zenon DEF Woke
<1>7. DqRing(dq') /\ Held(dq') = Held(dq) /\ dq'.waiting_lwm /\ Queued(dq') = Queued(dq)
  BY MarkRing DEF DqInv
<1>8. Held(dq) = DqSize /\ DqSize > Lwm
  BY DqAssumption DEF Full, Used, Held
<1>9. w'.list["dq_push"] # <<>>
  <2>1. w.list["dq_push"] \in Seq(Thread)
    BY DqQueues, ListType DEF BaseOK, WaitInv
  <2> QED  BY <1>3, <2>1
<1>10. WakePop(w', call', Held(dq'))
  BY <1>3, <1>6, <1>7 DEF WakePop, DqInv
<1>11. WakePush(w', dq')
  BY <1>7, <1>8 DEF WakePush
<1>12. Found(w', dq', masked')
  BY <1>2, <1>3, <1>9 DEF Found, DqInv
<1>13. masked' \in BOOLEAN
  BY <1>2 DEF DqInv
<1> QED  BY <1>2, <1>3, <1>5, <1>7, <1>10, <1>11, <1>12, <1>13 DEF DqGoal, DqInv, DqMove

\* ... or to pop.
LEMMA PopWaits ==
    ASSUME BaseOK(w, call), DqInv, NEW t \in Thread, w.stat[t] = "READY", call[t].op \in DqOps,
           NEW time, Empty, dq' = dq, WaitOn(t, "dq_pop", NoMail, time, Idle)
    PROVE  DqGoal
<1> DEFINE e == [op |-> "dq_pop", mail |-> NoMail, timeout |-> time, back |-> Idle]
<1>0. "op" \in DOMAIN e /\ e.op = "dq_pop" /\ e.op # "dq_push"
  OBVIOUS
<1>1. PICK timed \in BOOLEAN : timed = (time = "timed")
  OBVIOUS
<1>2. w' = SuspendLast(w, "dq_pop", t, timed) /\ call' = [call EXCEPT ![t] = e]
      /\ masked' = masked /\ dq_got' = dq_got
  BY <1>1 DEF WaitOn
<1> HIDE DEF e
<1>c. CallOK(e)
  BY <1>0, PlainCall
<1>3. /\ Frame(w, call, w', call', DqOps, DqLists) /\ w'.app = w.app
      /\ w'.list["dq_push"] = w.list["dq_push"]
      /\ \A u \in Thread : call'[u] = IF u = t THEN e ELSE call[u]
  <2>1. PICK q \in DqLists : q = "dq_pop"
    BY DqQueues
  <2>2. e.op = q /\ (timed => q = "dq_pop") /\ w' = SuspendLast(w, q, t, timed) /\ CallOK(e)
        /\ call' = [call EXCEPT ![t] = e]
    BY <1>c, <1>0, <1>1, <1>2, <2>1
  <2>3. Suspends(t, q, e)
    BY <2>2, DqSuspend
  <2>4. "dq_push" # "dq_pop"
    OBVIOUS
  <2> QED  BY <2>1, <2>3, <2>4, DqQueues DEF Suspends
<1>4. \A u \in Thread : call'[u] = IF u = t THEN e ELSE call[u]
  BY <1>3
<1>5. DqCalls(w'.app, call')
  BY <1>0, <1>3, <1>4 DEF DqCalls, DqInv
<1>6. Held(dq) = 0
  BY QueuedSeq DEF DqInv, Empty, Held
<1>7. WakePop(w', call', Held(dq'))
  <2>1. Cardinality(Woke(w', call', "dq_pop")) \in Nat
    BY WokeFinite
  <2> QED  BY <1>6, <2>1 DEF WakePop
<1>8. WakePush(w', dq') /\ Found(w', dq', masked')
  BY <1>2, <1>3 DEF WakePush, Found, DqInv
<1>9. masked' \in BOOLEAN
  BY <1>2 DEF DqInv
<1> QED  BY <1>2, <1>3, <1>5, <1>7, <1>8, <1>9 DEF DqGoal, DqInv, DqMove

LEMMA BackOK ==
    ASSUME NEW m \in Mail, NEW back \in {Idle, DmaCheck(m)}
    PROVE  CallOK(back) /\ back.op \in DqOps \ DqLists
<1>1. CASE back = Idle
  BY <1>1, IdleOp DEF DqOps, DqLists
<1>2. CASE back = DmaCheck(m)
  <2>1. "op" \in DOMAIN back /\ back.op = "dma_check"
    BY <1>2 DEF DmaCheck
  <2> QED  BY <2>1, PlainCall DEF DqOps, DqLists
<1> QED  BY <1>1, <1>2

\* One evaluation of the loop of rt_data_queue_push, and of rt_data_queue_pop.
LEMMA TryPushStep ==
    ASSUME MaxIndex < IndexMod, BaseOK(w, call), DqInv, NEW t \in Thread, w.stat[t] = "READY",
           call[t].op \in DqOps, call[t].op # "dq_pop", t \in Pushers(w.app),
           NEW m \in Mail, NEW back \in {Idle, DmaCheck(m)}, dq.put # MaxIndex,
           TryPush(t, m, "forever", back)
    PROVE  DqGoal
<1>1. CASE ~Full /\ PushSection(m) /\ call' = [call EXCEPT ![t] = back]
  BY <1>1, BackOK, PushStep
<1>2. CASE Full /\ dq' = Marked(dq) /\ WaitOn(t, "dq_push", m, "forever", back)
  BY <1>2, PushWaits
<1> QED  BY <1>1, <1>2 DEF TryPush, Marked

LEMMA TryPopStep ==
    ASSUME MaxIndex < IndexMod, BaseOK(w, call), DqInv, Orderly(w.app),
           NEW t \in Thread, w.stat[t] = "READY", call[t].op \in DqOps,
           NEW time, TryPop(t, time)
    PROVE  DqGoal
<1>i. CallOK(Idle) /\ Idle.op \in DqOps \ DqLists /\ Idle.op # "dq_pop" /\ Idle.op # "dq_push" /\ Idle.op \in DqOps
  BY IdleOp DEF DqOps, DqLists
<1>1. CASE ~Empty /\ PopSection /\ Return(t)
  <2>1. call' = [call EXCEPT ![t] = Idle]
    BY <1>1 DEF Return
  <2>2. Frame(w, call, w, call', DqOps, DqLists)
    BY <1>i, <2>1, FrameStay
  <2>3. DqCalls(w.app, [call EXCEPT ![t] = Idle])
    BY <1>i, DqCallsStay DEF DqInv
  <2>4. PICK n \in Nat \ {0} : n = Held(dq)
    BY <1>1, QueuedSeq DEF DqInv, Empty, Held
  <2>5. WakePop(w, [call EXCEPT ![t] = Idle], n - 1)
    <3>1. WakePop(w, call, n)
      BY <2>4 DEF DqInv
    <3> QED  BY <1>i, <3>1, WakePopLess
  <2>6. BaseOK(w, call') /\ DqCalls(w.app, call') /\ WakePop(w, call', Held(dq) - 1)
        /\ Affects(w, call, w, call', DqOps, DqLists)
    BY <2>1, <2>2, <2>3, <2>4, <2>5 DEF Frame
  <2> QED  BY <1>1, <2>6, PopStep
<1>2. CASE Empty /\ WaitOn(t, "dq_pop", NoMail, time, Idle) /\ UNCHANGED dq
  BY <1>2, PopWaits
<1>3. CASE Empty /\ Return(t) /\ UNCHANGED <<w, dqVars>>
  <2>1. Held(dq) = 0
    BY <1>3, QueuedSeq DEF DqInv, Empty, Held
  <2>2. call' = [call EXCEPT ![t] = Idle] /\ w' = w /\ UNCHANGED dqVars
    BY <1>3 DEF Return
  <2> QED  BY <1>i, <2>1, <2>2, DqStayStep
<1> QED  BY <1>1, <1>2, <1>3 DEF TryPop

\* After rt_schedule in rt_data_queue_push.
LEMMA WokenPushStep ==
    ASSUME MaxIndex < IndexMod, BaseOK(w, call), DqInv, NEW t \in Thread, WokenPush(t)
    PROVE  DqGoal
<1>1. w.stat[t] = "READY" /\ call[t].op = "dq_push" /\ call[t].op \in DqOps /\ call[t].op # "dq_pop"
  BY RunningFacts, DqQueues DEF WokenPush
<1>2. t \in Pushers(w.app) /\ call[t].timeout = "forever"
  BY <1>1 DEF DqInv, DqCalls
<1>3. call[t].mail \in Mail /\ call[t].back \in {Idle, DmaCheck(call[t].mail)}
  BY <1>1 DEF BaseOK, CallOK
<1>4. CASE Return(t) /\ UNCHANGED <<w, dqVars>>
  <2>1. call' = [call EXCEPT ![t] = Idle] /\ w' = w /\ UNCHANGED dqVars
    BY <1>4 DEF Return
  <2>2. CallOK(Idle) /\ Idle.op \in DqOps \ DqLists
    BY IdleOp DEF DqOps, DqLists
  <2> QED  BY <1>1, <2>1, <2>2, DqStayStep
<1>5. CASE dq.put # MaxIndex /\ TryPush(t, call[t].mail, call[t].timeout, call[t].back)
  BY <1>1, <1>2, <1>3, <1>5, TryPushStep
<1> QED  BY <1>4, <1>5 DEF WokenPush

LEMMA DataQueueOwn ==
    ASSUME MaxIndex < IndexMod, BaseOK(w, call), DqInv, Orderly(w.app), DataQueueStep
    PROVE  DqGoal
<1>0. Uses("dq") /\ DqNext
  BY DEF DataQueueStep
<1>1. ASSUME NEW t \in Thread, t \in w.app.senders, NEW m \in Mail, NEW time \in w.app.timeouts,
             rt_data_queue_push(t, m, time, Idle)
      PROVE  DqGoal
  <2>1. /\ t \in w.app.threads /\ w.stat[t] = "READY" /\ call[t].op \in DqOps /\ call[t].op # "dq_pop"
        /\ dq.put # MaxIndex /\ TryPush(t, m, time, Idle)
    BY <1>1, RunningFacts DEF rt_data_queue_push, DqOps
  <2>2. t \in Pushers(w.app) /\ time = "forever"
    BY <1>0, <1>1, <2>1 DEF Pushers, Orderly, Uses
  <2> QED  BY <2>1, <2>2, TryPushStep
<1>2. ASSUME NEW t \in Thread, NEW time, rt_data_queue_pop(t, time)
      PROVE  DqGoal
  <2>1. w.stat[t] = "READY" /\ call[t].op \in DqOps /\ TryPop(t, time)
    BY <1>2, RunningFacts DEF rt_data_queue_pop, DqOps
  <2> QED  BY <2>1, TryPopStep
<1>3. ASSUME NEW t \in Thread, WokenPush(t) PROVE DqGoal
  BY <1>3, WokenPushStep
<1>4. ASSUME NEW t \in Thread, WokenPop(t) PROVE DqGoal
  <2>1. w.stat[t] = "READY" /\ call[t].op = "dq_pop" /\ call[t].op \in DqOps
    BY <1>4, RunningFacts, DqQueues DEF WokenPop
  <2>2. CASE w.error[t] # "EOK" /\ Return(t) /\ UNCHANGED <<w, dqVars>>
    <3>1. call' = [call EXCEPT ![t] = Idle] /\ w' = w /\ UNCHANGED dqVars
      BY <2>2 DEF Return
    <3>2. CallOK(Idle) /\ Idle.op \in DqOps \ DqLists
      BY IdleOp DEF DqOps, DqLists
    <3> QED  BY <2>1, <2>2, <3>1, <3>2, DqStayStep
  <2>3. CASE TryPop(t, call[t].timeout)
    BY <2>1, <2>3, TryPopStep
  <2> QED  BY <1>4, <2>2, <2>3 DEF WokenPop
<1>5. CASE IsrPop
  <2>1. Affects(w, call, w, call', DqOps, DqLists) /\ call' = call
    BY <1>5, FrameNone DEF IsrPop, Frame
  <2>2. PICK n \in Nat \ {0} : n = Held(dq)
    BY <1>5, QueuedSeq DEF DqInv, Empty, Held, IsrPop
  <2>3. WakePop(w, call', Held(dq) - 1)
    <3>1. Cardinality(Woke(w, call, "dq_pop")) \in Nat
      BY WokeFinite
    <3> QED  BY <2>1, <2>2, <3>1 DEF WakePop, DqInv
  <2> QED  BY <1>5, <2>1, <2>3, PopStep DEF IsrPop, DqInv
<1> QED  BY <1>0, <1>1, <1>2, <1>3, <1>4, <1>5 DEF DqNext

LEMMA DqForeign ==
    ASSUME DqInv, Foreign(DqLists, DqLists), UNCHANGED dqVars
    PROVE  DqInv'
<1>1. dq' = dq /\ masked' = masked /\ w'.app = w.app
      /\ w'.list["dq_push"] = w.list["dq_push"] /\ w'.list["dq_pop"] = w.list["dq_pop"]
  BY DEF Foreign, DqLists, dqVars
<1>2. Woke(w', call', "dq_pop") = Woke(w, call, "dq_pop")
  BY DEF Foreign, DqLists, Woke
<1>3. DqCalls(w.app, call')
  BY DEF Foreign, DqLists, DqCalls, DqInv
<1> QED  BY <1>1, <1>2, <1>3 DEF DqInv, WakePop, WakePush, Found

LEMMA DqEvicts ==
    ASSUME BaseOK(w, call), DqInv, NEW t, Evicts(w, call, w', t), call' = call, UNCHANGED dqVars,
           call[t].op # "dq_push" \/ Uses("reset")
    PROVE  DqInv'
<1>1. dq' = dq /\ masked' = masked /\ w'.app = w.app
      /\ Woke(w', call', "dq_pop") = Woke(w, call, "dq_pop")
  BY DEF Evicts, dqVars
<1>2. /\ w'.list["dq_push"] # <<>> => w.list["dq_push"] # <<>>
      /\ w'.list["dq_pop"] # <<>> => w.list["dq_pop"] # <<>>
  BY FewerWait, DqQueues
<1>3. ~Uses("reset") /\ w.list["dq_push"] # <<>> => w'.list["dq_push"] # <<>>
  <2> SUFFICES ASSUME ~Uses("reset"), w.list["dq_push"] # <<>> PROVE w'.list["dq_push"] # <<>>
    OBVIOUS
  <2>1. w.list["dq_push"] \in Seq(Thread)
    BY DqQueues, ListType DEF BaseOK, WaitInv
  <2>2. PICK u : u \in ToSet(w.list["dq_push"])
    BY <2>1, HeadTailSet
  <2>3. u # t
    BY <2>2, DqQueues, DriverWaits DEF BaseOK, WaitInv
  <2>4. u \in ToSet(w'.list["dq_push"])
    BY <2>2, <2>3, DqQueues DEF Evicts
  <2> QED  BY <2>4 DEF ToSet
<1> QED  BY <1>1, <1>2, <1>3 DEF DqInv, WakePop, WakePush, Found, Uses

-----------------------------------------------------------------------------
(* Transmission by DMA, with respect to the data queue.                     *)

\* The pushes of one thread: what one evaluation of the loop does.
LEMMA TryPushEffect ==
    ASSUME MaxIndex < IndexMod, DqRing(dq), NEW t, NEW m \in Mail, NEW time, NEW back,
           dq.put # MaxIndex, TryPush(t, m, time, back)
    PROVE  \/ call' = [call EXCEPT ![t] = back] /\ Queued(dq') = Append(Queued(dq), m)
           \/ /\ Queued(dq') = Queued(dq)
              /\ \/ call' = [call EXCEPT ![t] = [op |-> "dq_push", mail |-> m, timeout |-> time, back |-> back]]
                 \/ call' = [call EXCEPT ![t] = Idle]
<1>1. CASE ~Full /\ PushSection(m) /\ call' = [call EXCEPT ![t] = back]
  <2>1. dq' = Pushed(dq, m) /\ Held(dq) # DqSize
    BY <1>1 DEF PushSection, Pushed, Full, Used, Held
  <2> QED  BY <1>1, <2>1, PushRing
<1>2. CASE Full /\ dq' = Marked(dq) /\ (WaitOn(t, "dq_push", m, time, back) \/ Return(t))
  BY <1>2, MarkRing DEF WaitOn, Return
<1> QED  BY <1>1, <1>2 DEF TryPush, Marked

\* An end of transfer is counted for the writers that have not looked at activated.
LEMMA CountsFrame ==
    ASSUME BaseOK(w, call),
           call' = [c \in Caller |-> IF c \in Waiting THEN [call[c] EXCEPT !.ends = @ + 1] ELSE call[c]]
    PROVE  /\ Frame(w, call, w, call', DqOps, DqLists)
           /\ \A u \in Thread : /\ call[u].op # "dma_check" => call'[u] = call[u]
                                /\ call[u].op = "dma_check" => call'[u] = [call[u] EXCEPT !.ends = @ + 1]
                                /\ call'[u].op = call[u].op
<1>1. WaitInv(w, call) /\ Thread \subseteq Caller
  BY DEF BaseOK, Caller
<1>2. \A u \in Thread : "op" \in DOMAIN call[u]
  BY DEF BaseOK, CallOK
<1>3. \A u \in Thread : /\ call[u].op # "dma_check" => call'[u] = call[u]
                        /\ call[u].op = "dma_check" => call'[u] = [call[u] EXCEPT !.ends = @ + 1]
  BY <1>1 DEF Waiting
<1>4. \A u \in Thread : call'[u].op = call[u].op /\ "op" \in DOMAIN call'[u]
  <2>2. ASSUME NEW u \in Thread, call[u].op = "dma_check"
        PROVE  call'[u].op = call[u].op /\ "op" \in DOMAIN call'[u]
    <3>1. PICK e : e = call[u] /\ "op" \in DOMAIN e
      BY <1>2
    <3>2. PICK x : x = e.ends + 1
      OBVIOUS
    <3>3. call'[u] = [e EXCEPT !.ends = x]
      BY <1>3, <2>2, <3>1, <3>2
    <3>4. [e EXCEPT !.ends = x].op = e.op /\ "op" \in DOMAIN [e EXCEPT !.ends = x]
      BY <3>1
    <3> QED  BY <3>1, <3>3, <3>4
  <2> QED  BY <1>2, <1>3, <2>2
<1>5. \A c \in Isr : call'[c] = call[c]
  BY <1>1, ThreadAssumption DEF Waiting, Caller
<1>6. DOMAIN call' = Caller
  OBVIOUS
<1>7. \A q \in Queue : \A t \in ToSet(w.list[q]) : t \in Thread /\ WaitsIn(call[t], q)
  BY <1>1, ListType DEF WaitInv
<1>8. \A q \in Queue : \A t \in Thread : WaitsIn(call[t], q) => call[t].op # "dma_check"
  BY MutexesAssumption DEF WaitsIn, Queue, IpcQueue, DriverQueue
<1>9. \A q \in Queue : \A t \in ToSet(w.list[q]) : WaitsIn(call'[t], q)
  BY <1>3, <1>7, <1>8
<1>10. WaitInv(w, call')
  BY <1>1, <1>5, <1>6, <1>9 DEF WaitInv
<1>11. \A u \in Thread : CallOK(call'[u])
  <2>1. ASSUME NEW u \in Thread PROVE CallOK(call'[u])
    <3>1. CASE call[u].op = "dma_check"
      BY <1>4, <3>1, PlainCall
    <3>2. CASE call[u].op # "dma_check"
      BY <1>3, <3>2 DEF BaseOK
    <3> QED  BY <3>1, <3>2
  <2> QED  BY <2>1
<1>12. BaseOK(w, call')
  BY <1>4, <1>10, <1>11 DEF BaseOK
<1>13. Affects(w, call, w, call', DqOps, DqLists)
  BY <1>3, <1>4 DEF Affects, DqOps
<1> QED  BY <1>3, <1>4, <1>12, <1>13 DEF Frame

\* The end of a transfer.
LEMMA TxDmaDoneStep ==
    ASSUME MaxIndex < IndexMod, BaseOK(w, call), DqInv, Orderly(w.app), TxDmaDone
    PROVE  DqGoal
<1>1. /\ Frame(w, call, w, call', DqOps, DqLists)
      /\ \A u \in Thread : /\ call[u].op # "dma_check" => call'[u] = call[u]
                           /\ call'[u].op = call[u].op
  BY CountsFrame DEF TxDmaDone
<1>2. DqCalls(w.app, call')
  BY <1>1 DEF DqCalls, DqInv
<1>3. Woke(w, call', "dq_pop") = Woke(w, call, "dq_pop")
  BY <1>1 DEF Woke
<1>4. CASE Empty /\ UNCHANGED <<w, dqVars>>
  <2>1. dq' = dq /\ masked' = masked /\ dq_got' = dq_got /\ w' = w
    BY <1>4 DEF dqVars
  <2>2. Frame(w, call, w', call', DqOps, DqLists)
    BY <1>1, <2>1
  <2>3. DqInv'
    BY <1>2, <1>3, <2>1 DEF DqInv, WakePop
  <2> QED  BY <2>1, <2>2, <2>3 DEF DqGoal, DqMove
<1>5. CASE ~Empty /\ PopSection
  <2>1. PICK n \in Nat \ {0} : n = Held(dq)
    BY <1>5, QueuedSeq DEF DqInv, Empty, Held
  <2>2. WakePop(w, call', Held(dq) - 1)
    <3>1. Cardinality(Woke(w, call', "dq_pop")) \in Nat
      BY WokeFinite
    <3> QED  BY <1>3, <2>1, <3>1 DEF WakePop, DqInv
  <2>3. BaseOK(w, call') /\ Affects(w, call, w, call', DqOps, DqLists)
    BY <1>1 DEF Frame
  <2> QED  BY <1>2, <1>5, <2>2, <2>3, PopStep
<1> QED  BY <1>4, <1>5 DEF TxDmaDone

LEMMA DmaTxOwn ==
    ASSUME MaxIndex < IndexMod, BaseOK(w, call), DqInv, Orderly(w.app), SerialDmaTxStep
    PROVE  DqGoal
<1>0. Uses("dma_tx") /\ DmaTxNext
  BY DEF SerialDmaTxStep
<1>1. ASSUME NEW t \in Thread, NEW m \in Mail, WriteDma(t, m) PROVE DqGoal
  <2>1. /\ t \in w.app.threads /\ w.stat[t] = "READY" /\ call[t].op \in DqOps /\ call[t].op # "dq_pop"
        /\ dq.put # MaxIndex /\ TryPush(t, m, "forever", DmaCheck(m))
    BY <1>1, RunningFacts DEF WriteDma, rt_data_queue_push, DqOps
  <2>2. t \in Pushers(w.app) /\ DmaCheck(m) \in {Idle, DmaCheck(m)}
    BY <1>0, <2>1 DEF Pushers, Uses
  <2> QED  BY <2>1, <2>2, TryPushStep
<1>2. ASSUME NEW t \in Thread, WokenPush(t) PROVE DqGoal
  BY <1>2, WokenPushStep
<1>3. ASSUME NEW t \in Thread, CheckActive(t) \/ StartTransfer(t) PROVE DqGoal
  <2>1. w.stat[t] = "READY" /\ call[t].op \in DqOps /\ call[t].op # "dq_pop" /\ w' = w /\ UNCHANGED dqVars
    BY <1>3, RunningFacts DEF CheckActive, StartTransfer, DqOps
  <2>2. "op" \in DOMAIN call[t] /\ t \in DOMAIN call
    BY DEF BaseOK, CallOK, WaitInv, Caller
  <2> DEFINE start == [call[t] EXCEPT !.op = "dma_start"]
  <2>3. "op" \in DOMAIN start /\ start.op = "dma_start"
    BY <2>2
  <2>4. call' = [call EXCEPT ![t] = start] \/ call' = [call EXCEPT ![t] = Idle]
    BY <1>3, <2>2 DEF CheckActive, StartTransfer, Return
  <2> HIDE DEF start
  <2>5. CallOK(start) /\ start.op \in DqOps \ DqLists
    BY <2>3, PlainCall DEF DqOps, DqLists
  <2>6. CallOK(Idle) /\ Idle.op \in DqOps \ DqLists
    BY IdleOp DEF DqOps, DqLists
  <2> QED  BY <2>1, <2>4, <2>5, <2>6, DqStayStep
<1>4. CASE TxDmaDone
  BY <1>4, TxDmaDoneStep
<1> QED  BY <1>0, <1>1, <1>2, <1>3, <1>4 DEF DmaTxNext

-----------------------------------------------------------------------------
(* Transmission by DMA: activated, the channel and the data queue.          *)

DmaCalls == {"dma_check", "dma_start"}

\* With one writer: a channel that runs sends the head of the queue, and activated says
\* so, except while the writer is about to start it; and what is in the queue is on its
\* way, except while the writer is about to look.
DmaCore(d, q, act, dm) ==
    /\ dm # NoMail => act /\ q # <<>> /\ dm = Head(q)
    /\ (\A u \in Thread : d[u].op \notin DmaCalls) => (act => dm # NoMail) /\ (q # <<>> => dm # NoMail)
    /\ \A u \in Thread : d[u].op = "dma_check" =>
          /\ d[u] \in [op : {"dma_check"}, mail : Mail, ends : Nat]
          /\ d[u].ends = 0 => /\ act => dm # NoMail
                              /\ dm # NoMail => Len(q) >= 2
                              /\ dm = NoMail => q = <<d[u].mail>>
          /\ d[u].ends # 0 => dm # NoMail
    /\ \A u \in Thread : d[u].op = "dma_start" =>
          act /\ dm = NoMail /\ d[u].mail \in Mail /\ q = <<d[u].mail>>

DmaInv ==
    Uses("dma_tx") =>
        /\ \A u \in Thread : call[u].op \in DmaCalls => u \in Pushers(w.app)
        /\ \A u \in Thread : call[u].op = "dq_push" => call[u].back = DmaCheck(call[u].mail)
        /\ completed \subseteq sent
        /\ DmaCore(call, Queued(dq), activated, dma)

\* A writer that is not in the two sections, and no other thread is either.
LEMMA DmaQuiet ==
    ASSUME DqInv, DmaInv, Uses("dma_tx"), Orderly(w.app),
           NEW t \in Thread, t \in Pushers(w.app)
    PROVE  \A u \in Thread : u # t => call[u].op \notin DmaCalls
BY DEF DmaInv, Orderly, One

\* A push.
LEMMA DmaPushed ==
    ASSUME NEW d, NEW q \in Seq(Mail), NEW act, NEW dm, DmaCore(d, q, act, dm), NEW t \in Thread,
           \A u \in Thread : d[u].op \notin DmaCalls, NEW m \in Mail, NEW c,
           \A u \in Thread : c[u] = IF u = t THEN DmaCheck(m) ELSE d[u],
           NEW p, p = Append(q, m)
    PROVE  DmaCore(c, p, act, dm)
<1>1. DmaCheck(m) \in [op : {"dma_check"}, mail : Mail, ends : Nat]
      /\ DmaCheck(m).op = "dma_check" /\ DmaCheck(m).mail = m /\ DmaCheck(m).ends = 0
  BY DEF DmaCheck
<1>2. (act => dm # NoMail) /\ (q # <<>> => dm # NoMail) /\ (dm # NoMail => act /\ q # <<>> /\ dm = Head(q))
  BY DEF DmaCore
<1>3. p # <<>> /\ (q # <<>> => Head(p) = Head(q) /\ Len(p) >= 2) /\ (q = <<>> => p = <<m>>)
  <2>1. p \in Seq(Mail) /\ Len(p) = Len(q) + 1 /\ Len(q) \in Nat
    OBVIOUS
  <2>2. ASSUME q # <<>> PROVE Head(p) = Head(q) /\ Len(p) >= 2
    <3>1. Len(q) >= 1
      BY <2>2
    <3>2. p[1] = q[1] /\ Head(p) = p[1] /\ Head(q) = q[1]
      BY <2>1, <2>2, <3>1
    <3> QED  BY <2>1, <3>1, <3>2
  <2>3. ASSUME q = <<>> PROVE p = <<m>>
    BY <2>3
  <2>4. p # <<>>
    BY <2>1
  <2> QED  BY <2>2, <2>3, <2>4
<1>4. \A u \in Thread : u # t => c[u].op \notin DmaCalls
  OBVIOUS
<1>5. c[t] = DmaCheck(m)
  OBVIOUS
<1>6. "dma_check" \in DmaCalls /\ "dma_start" \in DmaCalls /\ "dma_check" # "dma_start"
  BY DEF DmaCalls
<1> QED  BY <1>1, <1>2, <1>3, <1>4, <1>5, <1>6 DEF DmaCore

\* A step of a thread that is not in the two sections and does not enter them.
LEMMA DmaBeside ==
    ASSUME NEW d, NEW q, NEW act, NEW dm, DmaCore(d, q, act, dm), NEW c,
           \A u \in Thread : c[u] = d[u] \/ (c[u].op \notin DmaCalls /\ d[u].op \notin DmaCalls)
    PROVE  DmaCore(c, q, act, dm)
<1>1. \A u \in Thread : c[u].op \in DmaCalls \/ d[u].op \in DmaCalls => c[u] = d[u]
  OBVIOUS
<1>2. (\A u \in Thread : c[u].op \notin DmaCalls) => (\A u \in Thread : d[u].op \notin DmaCalls)
  BY <1>1
<1>3. \A u \in Thread : c[u].op = "dma_check" \/ c[u].op = "dma_start" => c[u] = d[u]
  BY <1>1 DEF DmaCalls
<1> QED  BY <1>2, <1>3 DEF DmaCore

Starting(e) == [e EXCEPT !.op = "dma_start"]

\* The two sections of the writer.
LEMMA DmaStays ==
    ASSUME NEW d, NEW q, NEW act, NEW dm, DmaCore(d, q, act, dm), NEW t \in Thread,
           \A u \in Thread : u # t => d[u].op \notin DmaCalls, NEW c,
           \A u \in Thread : c[u] = IF u = t THEN Idle ELSE d[u],
           d[t].op = "dma_check", act, NEW act2, act2
    PROVE  DmaCore(c, q, act2, dm)
<1>1. d[t] \in [op : {"dma_check"}, mail : Mail, ends : Nat]
  BY DEF DmaCore
<1>2. dm # NoMail
  BY <1>1 DEF DmaCore
<1>3. \A u \in Thread : c[u].op \notin DmaCalls
  BY IdleOp DEF DmaCalls
<1> QED  BY <1>2, <1>3 DEF DmaCore, DmaCalls

LEMMA DmaStarts ==
    ASSUME NEW d, NEW q, NEW act, NEW dm, DmaCore(d, q, act, dm), NEW t \in Thread,
           \A u \in Thread : u # t => d[u].op \notin DmaCalls, NEW c,
           \A u \in Thread : u # t => c[u] = d[u],
           c[t].op = "dma_start", c[t].mail = d[t].mail, d[t].op = "dma_check", dm = NoMail, NEW act2, act2
    PROVE  DmaCore(c, q, act2, dm)
<1>1. d[t] \in [op : {"dma_check"}, mail : Mail, ends : Nat]
  BY DEF DmaCore
<1>3. q = <<d[t].mail>> /\ d[t].mail \in Mail
  BY <1>1 DEF DmaCore
<1>5. \A u \in Thread : c[u].op \in DmaCalls => u = t /\ c[u].op = "dma_start" /\ c[u].mail = d[t].mail
  OBVIOUS
<1>6. c[t].op \in DmaCalls /\ "dma_check" \in DmaCalls /\ "dma_start" \in DmaCalls
  BY DEF DmaCalls
<1> QED  BY <1>3, <1>5, <1>6 DEF DmaCore

LEMMA DmaRunning ==
    ASSUME NEW d, NEW q, NEW act, NEW dm, DmaCore(d, q, act, dm), NEW t \in Thread,
           \A u \in Thread : u # t => d[u].op \notin DmaCalls, NEW c,
           \A u \in Thread : c[u] = IF u = t THEN Idle ELSE d[u],
           d[t].op = "dma_start"
    PROVE  DmaCore(c, q, act, d[t].mail)
<1>1. act /\ d[t].mail \in Mail /\ q = <<d[t].mail>>
  BY DEF DmaCore
<1>2. q # <<>> /\ Head(q) = d[t].mail /\ d[t].mail # NoMail
  BY <1>1, MailAssumption
<1>3. \A u \in Thread : c[u].op \notin DmaCalls
  BY IdleOp DEF DmaCalls
<1> QED  BY <1>1, <1>2, <1>3 DEF DmaCore, DmaCalls

\* The end of a transfer: the next item is sent, if there is one.
LEMMA DmaEnds ==
    ASSUME NEW d, NEW q \in Seq(Mail), NEW act, NEW dm, DmaCore(d, q, act, dm), dm # NoMail, NEW c,
           \A u \in Thread : /\ d[u].op # "dma_check" => c[u] = d[u]
                             /\ d[u].op = "dma_check" => c[u] = [d[u] EXCEPT !.ends = @ + 1],
           \A u \in Thread : d[u].op = "dma_check" => d[u].ends < MaxEnds, MaxEnds <= 1,
           NEW p, p = Tail(q), NEW act2, NEW dm2,
           (p # <<>> /\ act2 /\ dm2 = Head(p)) \/ (p = <<>> /\ ~act2 /\ dm2 = NoMail)
    PROVE  DmaCore(c, p, act2, dm2)
<1>1. q # <<>> /\ p \in Seq(Mail) /\ Len(p) = Len(q) - 1
  BY DEF DmaCore
<1>2. p # <<>> => dm2 # NoMail
  <2>1. p # <<>> => Head(p) \in Mail
    BY <1>1
  <2> QED  BY <2>1, MailAssumption
<1>3. ASSUME NEW u \in Thread, c[u].op = "dma_check" \/ c[u].op = "dma_start"
      PROVE  /\ c[u].op = "dma_check" /\ c[u] \in [op : {"dma_check"}, mail : Mail, ends : Nat]
             /\ c[u].ends # 0 /\ p # <<>>
  <2>1. d[u].op # "dma_start"
    BY DEF DmaCore
  <2>2. d[u].op = "dma_check"
    BY <1>3, <2>1
  <2>3. d[u] \in [op : {"dma_check"}, mail : Mail, ends : Nat] /\ d[u].ends < MaxEnds
    BY <2>2 DEF DmaCore
  <2>4. d[u].ends = 0
    BY <2>3, SerialAssumption
  <2>5. Len(q) >= 2
    BY <2>2, <2>4 DEF DmaCore
  <2>6. p # <<>>
    BY <1>1, <2>5
  <2>7. PICK e \in [op : {"dma_check"}, mail : Mail, ends : Nat] : e = d[u] /\ c[u] = [e EXCEPT !.ends = @ + 1]
    BY <2>2, <2>3
  <2>8. [e EXCEPT !.ends = @ + 1].op = "dma_check" /\ [e EXCEPT !.ends = @ + 1].ends = e.ends + 1
        /\ [e EXCEPT !.ends = @ + 1] \in [op : {"dma_check"}, mail : Mail, ends : Nat]
    BY <2>7
  <2>9. e.ends + 1 # 0
    BY <2>7
  <2> QED  BY <2>6, <2>7, <2>8, <2>9
<1>4. p = <<>> => ~act2 /\ dm2 = NoMail
  OBVIOUS
<1>5. p # <<>> => act2 /\ dm2 = Head(p)
  OBVIOUS
<1> QED  BY <1>2, <1>3, <1>4, <1>5 DEF DmaCore

\* One evaluation of the loop of rt_data_queue_push, for a write.
LEMMA DmaTryPush ==
    ASSUME MaxIndex < IndexMod, BaseOK(w, call), DqInv, DmaInv, Uses("dma_tx"), Orderly(w.app),
           NEW t \in Thread, t \in Pushers(w.app), call[t].op \notin DmaCalls,
           NEW m \in Mail, dq.put # MaxIndex, TryPush(t, m, "forever", DmaCheck(m)),
           UNCHANGED dmaVars, w'.app = w.app
    PROVE  DmaInv'
<1>1. \A u \in Thread : call[u].op \notin DmaCalls
  BY DmaQuiet
<1>2. PICK q \in Seq(Mail) : q = Queued(dq)
  BY QueuedSeq DEF DqInv
<1>3. activated' = activated /\ dma' = dma /\ sent' = sent /\ completed' = completed /\ Uses("dma_tx")'
  BY DEF dmaVars, Uses
<1>4. \A e : call' = [call EXCEPT ![t] = e] => \A u \in Thread : call'[u] = IF u = t THEN e ELSE call[u]
  BY DEF BaseOK, WaitInv, Caller
<1>5. DmaCore(call, q, activated, dma)
  BY <1>2 DEF DmaInv
<1>6. CASE call' = [call EXCEPT ![t] = DmaCheck(m)] /\ Queued(dq') = Append(Queued(dq), m)
  <2>1. \A u \in Thread : call'[u] = IF u = t THEN DmaCheck(m) ELSE call[u]
    BY <1>4, <1>6
  <2>2. PICK c, d, p : c = call' /\ d = call /\ p = Append(q, m)
    OBVIOUS
  <2>3. DmaCore(c, p, activated, dma)
    BY <1>1, <1>5, <2>1, <2>2, DmaPushed
  <2>4. DmaCore(call, Queued(dq), activated, dma)'
    BY <1>2, <1>3, <1>6, <2>2, <2>3
  <2>5. DmaCheck(m).op = "dma_check" /\ DmaCheck(m).op # "dq_push"
    BY DEF DmaCheck
  <2> QED  BY <1>3, <2>1, <2>4, <2>5 DEF DmaInv
<1>7. ASSUME Queued(dq') = Queued(dq), NEW e, call' = [call EXCEPT ![t] = e], e.op \notin DmaCalls,
             e.op = "dq_push" => e.back = DmaCheck(e.mail)
      PROVE  DmaInv'
  <2>1. \A u \in Thread : call'[u] = IF u = t THEN e ELSE call[u]
    BY <1>4, <1>7
  <2>2. PICK c, d : c = call' /\ d = call
    OBVIOUS
  <2>a. \A u \in Thread : c[u] = d[u] \/ (c[u].op \notin DmaCalls /\ d[u].op \notin DmaCalls)
    BY <1>1, <1>7, <2>1, <2>2
  <2>b. DmaCore(d, q, activated, dma)
    BY <1>5, <2>2
  <2>3. DmaCore(c, q, activated, dma)
    BY <2>a, <2>b, DmaBeside
  <2>4. DmaCore(call, Queued(dq), activated, dma)'
    BY <1>2, <1>3, <1>7, <2>2, <2>3
  <2> QED  BY <1>3, <1>7, <2>1, <2>4 DEF DmaInv
<1>8. CASE Queued(dq') = Queued(dq)
           /\ call' = [call EXCEPT ![t] = [op |-> "dq_push", mail |-> m, timeout |-> "forever", back |-> DmaCheck(m)]]
  <2> DEFINE e == [op |-> "dq_push", mail |-> m, timeout |-> "forever", back |-> DmaCheck(m)]
  <2>1. e.op \notin DmaCalls /\ e.back = DmaCheck(e.mail) /\ call' = [call EXCEPT ![t] = e]
    BY <1>8 DEF DmaCalls
  <2> HIDE DEF e
  <2> QED  BY <1>7, <1>8, <2>1
<1>9. CASE Queued(dq') = Queued(dq) /\ call' = [call EXCEPT ![t] = Idle]
  <2>1. Idle.op \notin DmaCalls /\ Idle.op # "dq_push"
    BY IdleOp DEF DmaCalls
  <2> QED  BY <1>7, <1>9, <2>1
<1> QED
  <2>1. DqRing(dq)
    BY DEF DqInv
  <2> QED  BY <1>6, <1>8, <1>9, <2>1, TryPushEffect

LEMMA DmaOwn ==
    ASSUME MaxIndex < IndexMod, MaxEnds <= 1, BaseOK(w, call), DqInv, DmaInv, Orderly(w.app),
           SerialDmaTxStep
    PROVE  DmaInv'
<1>0. Uses("dma_tx") /\ DmaTxNext
  BY DEF SerialDmaTxStep
<1>a. w'.app = w.app
  BY DmaTxOwn DEF DqGoal, Frame, Affects
<1>q. PICK q \in Seq(Mail) : q = Queued(dq)
  BY QueuedSeq DEF DqInv
<1>u. Uses("dma_tx")'
  BY <1>0, <1>a DEF Uses
<1>d. DmaCore(call, q, activated, dma)
  BY <1>0, <1>q DEF DmaInv
<1>c. \A t \in Thread : \A e : call' = [call EXCEPT ![t] = e] => \A u \in Thread : call'[u] = IF u = t THEN e ELSE call[u]
  BY DEF BaseOK, WaitInv, Caller
<1>1. ASSUME NEW t \in Thread, NEW m \in Mail, WriteDma(t, m) PROVE DmaInv'
  <2>1. t \in w.app.threads /\ call[t].op \notin DmaCalls /\ UNCHANGED dmaVars
        /\ dq.put # MaxIndex /\ TryPush(t, m, "forever", DmaCheck(m))
    BY <1>1, RunningFacts DEF WriteDma, rt_data_queue_push, DmaCalls
  <2>2. t \in Pushers(w.app)
    BY <1>0, <2>1 DEF Pushers, Uses
  <2> QED  BY <1>0, <1>a, <2>1, <2>2, DmaTryPush
<1>2. ASSUME NEW t \in Thread, WokenPush(t), UNCHANGED dmaVars PROVE DmaInv'
  <2>1. call[t].op = "dq_push" /\ call[t].op \notin DmaCalls
    BY <1>2, RunningFacts DEF WokenPush, DmaCalls
  <2>2. t \in Pushers(w.app) /\ call[t].timeout = "forever" /\ call[t].mail \in Mail
        /\ call[t].back = DmaCheck(call[t].mail)
    BY <1>0, <2>1 DEF DqInv, DqCalls, DmaInv, BaseOK, CallOK
  <2>3. CASE Return(t) /\ UNCHANGED <<w, dqVars>>
    <3>1. \A u \in Thread : call'[u] = IF u = t THEN Idle ELSE call[u]
      BY <1>c, <2>3 DEF Return
    <3>2. Idle.op \notin DmaCalls /\ Idle.op # "dq_push"
      BY IdleOp DEF DmaCalls
    <3>3. PICK c, d : c = call' /\ d = call
      OBVIOUS
    <3>4. DmaCore(c, q, activated, dma)
      BY <1>d, <2>1, <3>1, <3>2, <3>3, DmaBeside
    <3>5. dq' = dq /\ activated' = activated /\ dma' = dma /\ sent' = sent /\ completed' = completed
      BY <1>2, <2>3 DEF dqVars, dmaVars
    <3>6. DmaCore(call, Queued(dq), activated, dma)'
      BY <1>q, <3>3, <3>4, <3>5
    <3> QED  BY <1>0, <1>a, <3>1, <3>2, <3>5, <3>6 DEF DmaInv
  <2>4. CASE dq.put # MaxIndex /\ TryPush(t, call[t].mail, call[t].timeout, call[t].back)
    <3>1. PICK m \in Mail : m = call[t].mail
      BY <2>2
    <3>2. TryPush(t, m, "forever", DmaCheck(m))
      BY <2>2, <2>4, <3>1
    <3> QED  BY <1>0, <1>2, <1>a, <2>1, <2>2, <2>4, <3>2, DmaTryPush
  <2> QED  BY <1>2, <2>3, <2>4 DEF WokenPush
<1>3. ASSUME NEW t \in Thread, CheckActive(t) PROVE DmaInv'
  <2>1. call[t].op = "dma_check" /\ t \in Pushers(w.app)
    BY <1>0, <1>3, RunningFacts DEF CheckActive, DmaInv, DmaCalls
  <2>2. \A u \in Thread : u # t => call[u].op \notin DmaCalls
    BY <1>0, <2>1, DmaQuiet
  <2>3. PICK e : /\ call' = [call EXCEPT ![t] = e]
                 /\ (activated => e = Idle) /\ (~activated => e = Starting(call[t]))
    BY <1>3, <2>1 DEF CheckActive, BaseOK, WaitInv, Caller, Starting
  <2>4. \A u \in Thread : call'[u] = IF u = t THEN e ELSE call[u]
    BY <1>c, <2>3
  <2>5. PICK c, d, act, act2 : c = call' /\ d = call /\ act = activated /\ act2 = activated'
    OBVIOUS
  <2>a. (act => e = Idle) /\ (~act => e = Starting(d[t]))
    BY <2>3, <2>5
  <2>b. \A u \in Thread : c[u] = IF u = t THEN e ELSE d[u]
    BY <2>4, <2>5
  <2>c. d[t].op = "dma_check" /\ \A u \in Thread : u # t => d[u].op \notin DmaCalls
    BY <2>1, <2>2, <2>5
  <2>d. DmaCore(d, q, act, dma)
    BY <1>d, <2>5 DEF DmaCore
  <2>7. activated' = TRUE /\ dq' = dq /\ dma' = dma /\ sent' = sent /\ completed' = completed
    BY <1>3 DEF CheckActive, dqVars
  <2>6. DmaCore(c, q, act2, dma)
    <3>1. act2
      BY <2>5, <2>7
    <3>2. PICK dm : dm = dma
      OBVIOUS
    <3>3. CASE act
      <4>1. \A u \in Thread : c[u] = IF u = t THEN Idle ELSE d[u]
        BY <2>a, <2>b, <3>3
      <4> QED  BY <2>c, <2>d, <3>1, <3>2, <3>3, <4>1, DmaStays
    <3>4. CASE ~act
      <4>1. e.op = "dma_start" /\ e.mail = d[t].mail
        <5>1. d[t] \in [op : {"dma_check"}, mail : Mail, ends : Nat]
          BY <2>c, <2>d DEF DmaCore
        <5> QED  BY <2>a, <3>4, <5>1 DEF Starting
      <4>2. DmaCore(d, q, act, dm)
        BY <2>d, <3>2
      <4>3. DmaCore(c, q, act2, dm)
        <5>1. d[t].op = "dma_check"
          BY <2>c
        <5>2. \A u \in Thread : u # t => d[u].op \notin DmaCalls
          BY <2>c
        <5>3. c[t].op = "dma_start" /\ c[t].mail = d[t].mail
          BY <2>b, <4>1
        <5>4. \A u \in Thread : u # t => c[u] = d[u]
          BY <2>b
        <5>5. dm = NoMail
          BY <3>4, <4>2 DEF DmaCore
        <5> QED  BY <3>1, <4>2, <5>1, <5>2, <5>3, <5>4, <5>5, DmaStarts
      <4> QED  BY <3>2, <4>3
    <3> QED  BY <3>3, <3>4
  <2>8. DmaCore(call, Queued(dq), activated, dma)'
    BY <1>q, <2>5, <2>6, <2>7
  <2>9. e.op # "dq_push"
    <3>1. call[t] \in [op : {"dma_check"}, mail : Mail, ends : Nat]
      BY <1>d, <2>1 DEF DmaCore
    <3> QED  BY <2>3, <3>1, IdleOp DEF Starting
  <2> QED  BY <1>0, <1>a, <2>1, <2>4, <2>7, <2>8, <2>9 DEF DmaInv
<1>4. ASSUME NEW t \in Thread, StartTransfer(t) PROVE DmaInv'
  <2>1. call[t].op = "dma_start" /\ t \in Pushers(w.app)
    BY <1>0, <1>4, RunningFacts DEF StartTransfer, DmaInv, DmaCalls
  <2>2. \A u \in Thread : u # t => call[u].op \notin DmaCalls
    BY <1>0, <2>1, DmaQuiet
  <2>3. \A u \in Thread : call'[u] = IF u = t THEN Idle ELSE call[u]
    BY <1>4, <1>c DEF StartTransfer, Return
  <2>4. PICK c, d : c = call' /\ d = call
    OBVIOUS
  <2>5. DmaCore(c, q, activated, d[t].mail)
    BY <1>d, <2>1, <2>2, <2>3, <2>4, DmaRunning
  <2>6. activated' = activated /\ dq' = dq /\ dma' = call[t].mail /\ sent' = sent /\ completed' = completed
    BY <1>4 DEF StartTransfer, dqVars
  <2>7. DmaCore(call, Queued(dq), activated, dma)'
    BY <1>q, <2>4, <2>5, <2>6
  <2>8. Idle.op \notin DmaCalls /\ Idle.op # "dq_push"
    BY IdleOp DEF DmaCalls
  <2> QED  BY <1>0, <1>a, <2>3, <2>6, <2>7, <2>8 DEF DmaInv
<1>5. CASE TxDmaDone
  <2>1. \A u \in Thread : /\ call[u].op # "dma_check" => call'[u] = call[u]
                          /\ call[u].op = "dma_check" => call'[u] = [call[u] EXCEPT !.ends = @ + 1]
                          /\ call'[u].op = call[u].op
    BY <1>5, CountsFrame DEF TxDmaDone
  <2>2. dma # NoMail /\ q # <<>> /\ dma = Head(q) /\ sent' = sent \cup {dma}
    BY <1>5, <1>d DEF TxDmaDone, DmaCore
  <2>3. DqRing(dq) /\ ~Empty
    <3>1. DqRing(dq) /\ Len(q) # 0
      BY <1>q, <2>2 DEF DqInv
    <3> QED  BY <1>q, <3>1, QueuedSeq DEF Empty, Held
  <2>4. PopSection /\ completed' = completed \cup {dq_got'}
    BY <1>5, <2>3 DEF TxDmaDone
  <2>5. PICK low \in BOOLEAN : dq' = Popped(dq, low) /\ dq_got' = At(dq, dq.get)
    BY <2>4 DEF PopSection, Popped
  <2>6. DqRing(dq') /\ Queued(dq') = Tail(q) /\ Head(q) = At(dq, dq.get)
    BY <1>q, <2>3, <2>5, PopRing DEF Empty
  <2>7. completed' \subseteq sent'
    BY <1>0, <2>2, <2>4, <2>5, <2>6 DEF DmaInv
  <2>8. PICK p \in Seq(Mail) : p = Queued(dq') /\ p = Tail(q)
    BY <2>6, QueuedSeq
  <2>9. (dq'.get # dq'.put <=> p # <<>>) /\ (p # <<>> => Head(p) = At(dq', dq'.get))
    <3>1. Held(dq') \in 0..DqSize /\ dq'.get \in Nat /\ dq'.put \in Nat /\ Len(p) = Held(dq')
          /\ \A i \in 1..Held(dq') : p[i] = At(dq', dq'.get + i - 1)
      BY <2>6, <2>8, QueuedSeq
    <3>2. dq'.get # dq'.put <=> Len(p) # 0
      BY <3>1 DEF Held
    <3>3. Len(p) # 0 <=> p # <<>>
      OBVIOUS
    <3>4. p # <<>> => 1 \in 1..Held(dq') /\ dq'.get + 1 - 1 = dq'.get
      BY <3>1, <3>3
    <3>5. ASSUME p # <<>> PROVE Head(p) = At(dq', dq'.get)
      <4>1. p[1] = At(dq', dq'.get + 1 - 1)
        BY <3>1, <3>4, <3>5
      <4>2. Head(p) = p[1]
        BY <3>5
      <4> QED  BY <3>4, <3>5, <4>1, <4>2
    <3> QED  BY <3>2, <3>3, <3>5
  <2>10. (p # <<>> /\ activated' /\ dma' = Head(p)) \/ (p = <<>> /\ ~activated' /\ dma' = NoMail)
    BY <1>5, <2>9 DEF TxDmaDone
  <2>11. \A u \in Thread : call[u].op = "dma_check" => call[u].ends < MaxEnds
    BY <1>5 DEF TxDmaDone, Waiting
  <2>12. PICK c, d, act2, dm2 : c = call' /\ d = call /\ act2 = activated' /\ dm2 = dma'
    OBVIOUS
  <2>13. (p # <<>> /\ act2 /\ dm2 = Head(p)) \/ (p = <<>> /\ ~act2 /\ dm2 = NoMail)
    BY <2>10, <2>12
  <2>14. DmaCore(c, p, act2, dm2)
    BY <1>d, <2>1, <2>2, <2>8, <2>11, <2>12, <2>13, DmaEnds
  <2>15. DmaCore(call, Queued(dq), activated, dma)'
    BY <2>8, <2>12, <2>14
  <2>16. \A u \in Thread : call'[u].op = "dq_push" => call'[u] = call[u]
    BY <2>1
  <2> QED  BY <1>0, <1>a, <2>1, <2>7, <2>15, <2>16 DEF DmaInv
<1> QED  BY <1>0, <1>1, <1>2, <1>3, <1>4, <1>5 DEF DmaTxNext

LEMMA DmaForeign ==
    ASSUME DmaInv, Foreign(DmaCalls \cup {"dq_push"}, {}), UNCHANGED dmaVars,
           Uses("dma_tx") => Queued(dq') = Queued(dq)
    PROVE  DmaInv'
<1> SUFFICES ASSUME Uses("dma_tx")' PROVE DmaInv'
  BY DEF DmaInv
<1>1. w'.app = w.app /\ Uses("dma_tx")
  BY DEF Foreign, Uses
<1>2. \A u \in Thread : call'[u] = call[u] \/ (call'[u].op \notin DmaCalls /\ call[u].op \notin DmaCalls)
  BY DEF Foreign
<1>3. \A u \in Thread : call'[u].op = "dq_push" => call'[u] = call[u]
  BY DEF Foreign
<1>4. PICK c, d, q : c = call' /\ d = call /\ q = Queued(dq)
  OBVIOUS
<1>5. DmaCore(c, q, activated, dma)
  <2>1. DmaCore(d, q, activated, dma)
    BY <1>1, <1>4 DEF DmaInv
  <2> QED  BY <1>2, <1>4, <2>1, DmaBeside
<1>6. DmaCore(call, Queued(dq), activated, dma)'
  BY <1>1, <1>4, <1>5 DEF dmaVars
<1>7. \A u \in Thread : call'[u].op \in DmaCalls => call'[u] = call[u]
  BY <1>2
<1> QED  BY <1>1, <1>3, <1>6, <1>7 DEF DmaInv, dmaVars

-----------------------------------------------------------------------------
(* Serial reception and the SPI bus suspend nobody.                         *)

RxOps == {"idle", "rx"}
SpiOps == {"idle", "spi"}

LEMMA RxOwn ==
    ASSUME BaseOK(w, call), SerialRxStep
    PROVE  Frame(w, call, w', call', RxOps, {})
<1>0. RxNext
  BY DEF SerialRxStep
<1>1. ASSUME NEW ch \in Char, RxInd(ch) PROVE Frame(w, call, w', call', RxOps, {})
  <2>1. w' = w /\ call' = call
    BY <1>1 DEF RxInd
  <2> QED  BY <2>1, FrameNone
<1>2. ASSUME NEW t \in Thread, w.stat[t] = "READY", call[t].op \in RxOps, w' = w,
             NEW e, CallOK(e), e.op \in RxOps, call' = [call EXCEPT ![t] = e]
      PROVE  Frame(w, call, w', call', RxOps, {})
  <2>1. Frame(w, call, w, [call EXCEPT ![t] = e], RxOps, {})
    BY <1>2, FrameStay
  <2> QED  BY <1>2, <2>1
<1>3. ASSUME NEW t \in Thread, NEW size, rt_serial_read(t, size)
      PROVE  Frame(w, call, w', call', RxOps, {})
  <2> DEFINE e == [op |-> "rx", size |-> size]
  <2>1. w.stat[t] = "READY" /\ call[t].op \in RxOps /\ w' = w /\ call' = [call EXCEPT ![t] = e]
    BY <1>3, RunningFacts DEF rt_serial_read, RxOps
  <2>2. "op" \in DOMAIN e /\ e.op = "rx"
    OBVIOUS
  <2> HIDE DEF e
  <2>3. CallOK(e) /\ e.op \in RxOps
    BY <2>2, PlainCall DEF RxOps
  <2> QED  BY <1>2, <2>1, <2>3
<1>4. ASSUME NEW t \in Thread, IntRx(t) PROVE Frame(w, call, w', call', RxOps, {})
  <2> DEFINE less == [op |-> "rx", size |-> call[t].size - 1]
  <2>1. w.stat[t] = "READY" /\ call[t].op = "rx" /\ w' = w
    BY <1>4, RunningFacts DEF IntRx, ReadByte
  <2>2. "op" \in DOMAIN call[t] /\ t \in DOMAIN call
    BY DEF BaseOK, CallOK, WaitInv, Caller
  <2>3. "op" \in DOMAIN less /\ less.op = "rx"
    BY <2>1, <2>2
  <2>4. call' = [call EXCEPT ![t] = less] \/ call' = [call EXCEPT ![t] = Idle]
    <3>1. CASE call[t].size = 1
      BY <1>4, <2>2, <3>1 DEF IntRx, Return
    <3>2. CASE call[t].size # 1
      BY <1>4, <2>2, <3>2 DEF IntRx, Return
    <3> QED  BY <3>1, <3>2
  <2> HIDE DEF less
  <2>5. CallOK(less) /\ less.op \in RxOps
    BY <2>3, PlainCall DEF RxOps
  <2>6. CallOK(Idle) /\ Idle.op \in RxOps /\ call[t].op \in RxOps
    BY <2>1, IdleOp DEF RxOps
  <2>7. CASE call' = [call EXCEPT ![t] = less]
    BY <1>2, <2>1, <2>5, <2>6, <2>7
  <2>8. CASE call' = [call EXCEPT ![t] = Idle]
    BY <1>2, <2>1, <2>6, <2>8
  <2> QED  BY <2>4, <2>7, <2>8
<1> QED  BY <1>0, <1>1, <1>3, <1>4 DEF RxNext

\* A call is the sequence of the steps that are left.
LEMMA SpiGoesOn ==
    ASSUME BaseOK(w, call), NEW t \in Thread, w.stat[t] = "READY", call[t].op \in SpiOps,
           w' = w, NEW todo, GoOn(t, todo)
    PROVE  Frame(w, call, w', call', SpiOps, {})
<1> DEFINE e == IF todo = <<>> THEN Idle ELSE [op |-> "spi", todo |-> todo]
<1>1. call' = [call EXCEPT ![t] = e]
  BY DEF GoOn
<1>2. "op" \in DOMAIN e /\ e.op \in SpiOps
  BY IdleOp DEF SpiOps, Idle
<1> HIDE DEF e
<1>3. CallOK(e)
  BY <1>2, PlainCall DEF SpiOps
<1>4. Frame(w, call, w, [call EXCEPT ![t] = e], SpiOps, {})
  BY <1>2, <1>3, FrameStay
<1> QED  BY <1>1, <1>4

LEMMA SpiOwn ==
    ASSUME BaseOK(w, call), SpiStep
    PROVE  Frame(w, call, w', call', SpiOps, {})
<1>0. SpiNext /\ w' = w
  BY DEF SpiStep, SpiNext
<1>1. ASSUME NEW t \in Thread, Free(t), NEW todo, GoOn(t, todo)
      PROVE  Frame(w, call, w', call', SpiOps, {})
  <2>1. w.stat[t] = "READY" /\ call[t].op \in SpiOps
    BY <1>1, RunningFacts DEF SpiOps
  <2> QED  BY <1>0, <1>1, <2>1, SpiGoesOn
<1>2. ASSUME NEW t \in Thread, NEW do, Begins(t, do), NEW todo, GoOn(t, todo)
      PROVE  Frame(w, call, w', call', SpiOps, {})
  <2>1. w.stat[t] = "READY" /\ call[t].op \in SpiOps
    BY <1>2, RunningFacts DEF SpiOps, Begins
  <2> QED  BY <1>0, <1>2, <2>1, SpiGoesOn
<1>3. CASE call' = call
  BY <1>0, <1>3, FrameNone
<1>4. ASSUME NEW t \in Thread,
             \/ LockBus(t) \/ UnlockBus(t) \/ OwnBus(t) \/ SetConfig(t) \/ Configure(t)
             \/ XferEnd(t) \/ LockFlash(t) \/ UnlockFlash(t) \/ Register(t)
      PROVE  Frame(w, call, w', call', SpiOps, {})
  <2>1. GoOn(t, Tail(call[t].todo)) /\ \E do : Begins(t, do)
    BY <1>4 DEF LockBus, UnlockBus, OwnBus, SetConfig, Configure, XferEnd, LockFlash, UnlockFlash,
                Register, Continue
  <2> QED  BY <1>2, <2>1
<1>5. ASSUME NEW t \in Thread, XferBegin(t) \/ IfBusy(t) \/ FromCard(t)
      PROVE  Frame(w, call, w', call', SpiOps, {})
  <2>1. (\E todo : GoOn(t, todo)) /\ \E do : Begins(t, do)
    BY <1>5 DEF XferBegin, IfBusy, FromCard, Continue
  <2> QED  BY <1>2, <2>1
<1>6. CASE DmaComplete \/ DmaError \/ ChipDone
  BY <1>3, <1>6 DEF DmaComplete, DmaError, ChipDone
<1> QED  BY <1>0, <1>1, <1>4, <1>5, <1>6 DEF SpiNext

-----------------------------------------------------------------------------
(* Time-outs and resets.                                                    *)

\* A suspended thread leaves its list with an error.
LEMMA EvictsFirst ==
    ASSUME BaseOK(w, call), NEW q \in Queue, w.list[q] # <<>>, NEW t, t = Head(w.list[q])
    PROVE  t \in Thread /\ w.stat[t] = "SUSPEND"
<1>1. w.list[q] \in Seq(Thread) /\ Linked(w)
  BY ListType DEF BaseOK, WaitInv
<1>2. t \in ToSet(w.list[q]) /\ t \in Thread
  BY <1>1, HeadTailSet
<1> QED  BY <1>1, <1>2 DEF Linked

LEMMA TimeoutEvicts ==
    ASSUME BaseOK(w, call), NEW t \in Thread, TimeoutOf(t)
    PROVE  Evicts(w, call, w', t) /\ call[t].op \in {"done", "dq_pop"}
<1>1. w.timer[t] /\ w' = TimedOut(w, t)
  BY DEF TimeoutOf
<1>2. call[t].op \in {"done", "dq_pop"} /\ w.stat[t] = "SUSPEND"
  BY <1>1 DEF BaseOK, WaitInv, Linked
<1>3. PICK e \in {"ETIMEOUT", "ERROR"} : e = "ETIMEOUT"
  OBVIOUS
<1>4. w' = Evict(w, t, e)
  BY <1>1, <1>3 DEF Evict, TimedOut
<1> QED  BY <1>2, <1>4, EvictsWaiter

DrainOK ==
    /\ drain \in [by : {"nobody", "reset"}, at : {"no", "test", "take", "gone", "wild"},
                  todo : Seq(Queue)]
    /\ drain.at \in {"test", "take"} => drain.todo # <<>>

LEMMA ResetEvicts ==
    ASSUME BaseOK(w, call), DrainOK, ResetStep
    PROVE  w' = w \/ \E t \in Thread : Evicts(w, call, w', t)
<1>1. CASE rt_data_queue_reset \/ DrainTest
  BY <1>1 DEF rt_data_queue_reset, Begin, DrainTest
<1>2. CASE DrainTake
  <2>1. PICK q \in Queue : q = Head(drain.todo)
    <3>1. drain.todo \in Seq(Queue) /\ drain.todo # <<>>
      BY <1>2 DEF DrainTake, DrainOK
    <3>2. PICK d \in Seq(Queue) : d = drain.todo /\ d # <<>>
      BY <3>1
    <3>3. Head(d) \in Queue
      BY <3>2
    <3> QED  BY <3>2, <3>3, SMTT(30)
  <2>2. CASE w.list[q] = <<>>
    BY <1>2, <2>1, <2>2 DEF DrainTake
  <2>3. CASE w.list[q] # <<>>
    <3>1. PICK t : t = Head(w.list[q])
      OBVIOUS
    <3>2. t \in Thread /\ w.stat[t] = "SUSPEND"
      BY <2>3, <3>1, EvictsFirst
    <3>3. PICK e \in {"ETIMEOUT", "ERROR"} : e = "ERROR"
      OBVIOUS
    <3>4. w' = Evict(w, t, e)
      BY <1>2, <2>1, <2>3, <3>1, <3>3 DEF DrainTake, Evict
    <3> QED  BY <3>2, <3>3, <3>4, EvictsWaiter
  <2> QED  BY <2>2, <2>3
<1> QED  BY <1>1, <1>2 DEF ResetStep

LEMMA ResetDrain ==
    ASSUME DrainOK, ResetStep
    PROVE  DrainOK'
<1>1. CASE rt_data_queue_reset
  <2>1. drain' = [by |-> "reset", at |-> "test", todo |-> <<"dq_pop", "dq_push">>]
    BY <1>1 DEF rt_data_queue_reset, Begin
  <2>2. <<"dq_pop", "dq_push">> \in Seq(Queue) /\ <<"dq_pop", "dq_push">> # <<>>
    BY DqQueues
  <2> QED  BY <2>1, <2>2 DEF DrainOK
<1>2. CASE DrainTest
  <2>1. drain.todo \in Seq(Queue) /\ drain.todo # <<>>
    BY <1>2 DEF DrainTest, DrainOK
  <2>2. CASE drain' = [drain EXCEPT !.at = "take"]
    BY <2>1, <2>2 DEF DrainOK
  <2>3. CASE Len(drain.todo) > 1 /\ drain' = [drain EXCEPT !.todo = Tail(@)]
    <3>1. Tail(drain.todo) \in Seq(Queue) /\ Len(Tail(drain.todo)) > 0
      BY <2>1, <2>3
    <3>2. Tail(drain.todo) # <<>>
      <4>1. PICK x \in Seq(Queue) : x = Tail(drain.todo)
        BY <3>1
      <4>2. Len(x) > 0
        BY <3>1, <4>1
      <4>3. x # <<>>
        BY <4>2
      <4> QED  BY <4>1, <4>3
    <3> QED  BY <2>3, <3>1, <3>2 DEF DrainOK
  <2>4. CASE drain' = NoDrain
    BY <2>4 DEF DrainOK, NoDrain
  <2>5. CASE drain' = [drain EXCEPT !.at = "gone"]
    BY <2>5 DEF DrainOK
  <2> QED  BY <1>2, <2>2, <2>3, <2>4, <2>5 DEF DrainTest
<1>3. CASE DrainTake
  <2>1. drain.todo # <<>> /\ (drain' = [drain EXCEPT !.at = "test"] \/ drain' = [drain EXCEPT !.at = "wild"])
    BY <1>3 DEF DrainTake, DrainOK
  <2>2. CASE drain' = [drain EXCEPT !.at = "test"]
    BY <2>1, <2>2 DEF DrainOK
  <2>3. CASE drain' = [drain EXCEPT !.at = "wild"]
    BY <2>3 DEF DrainOK
  <2> QED  BY <2>1, <2>2, <2>3, SMTT(30)
<1> QED  BY <1>1, <1>2, <1>3 DEF ResetStep

-----------------------------------------------------------------------------
(* A step of one object keeps what is true of the others.                   *)

LEMMA KeepsDone ==
    ASSUME DoneInv, NEW ops, NEW qs, Affects(w, call, w', call', ops, qs),
           "done" \notin ops, "done" \notin qs, UNCHANGED doneVars
    PROVE  DoneInv'
<1>1. {"done"} \cap ops = {} /\ {"done"} \subseteq Queue /\ {"done"} \cap qs = {}
  BY DoneQueue
<1>2. Foreign({"done"}, {"done"})
  BY <1>1, AffectsOthers
<1> QED  BY <1>2, DoneForeign

LEMMA KeepsWork ==
    ASSUME WorkInv, NEW ops, NEW qs, Affects(w, call, w', call', ops, qs),
           "kick" \notin ops, UNCHANGED workVars
    PROVE  WorkInv'
<1>1. {"kick"} \cap ops = {} /\ {} \subseteq Queue /\ {} \cap qs = {}
  OBVIOUS
<1>2. Foreign({"kick"}, {})
  BY <1>1, AffectsOthers
<1> QED  BY <1>2, WorkForeign

LEMMA KeepsPipe ==
    ASSUME PipeInv, NEW ops, NEW qs, Affects(w, call, w', call', ops, qs),
           PipeLists \cap ops = {}, PipeLists \cap qs = {}, UNCHANGED pipeVars
    PROVE  PipeInv'
<1>1. PipeLists \subseteq Queue
  BY PipeQueues DEF PipeLists
<1>2. Foreign(PipeLists, PipeLists)
  BY <1>1, AffectsOthers
<1> QED  BY <1>2, PipeForeign

LEMMA KeepsDq ==
    ASSUME DqInv, NEW ops, NEW qs, Affects(w, call, w', call', ops, qs),
           DqLists \cap ops = {}, DqLists \cap qs = {}, UNCHANGED dqVars
    PROVE  DqInv'
<1>1. DqLists \subseteq Queue
  BY DqQueues DEF DqLists
<1>2. Foreign(DqLists, DqLists)
  BY <1>1, AffectsOthers
<1> QED  BY <1>2, DqForeign

LEMMA KeepsDma ==
    ASSUME DmaInv, NEW ops, NEW qs, Affects(w, call, w', call', ops, qs),
           (DmaCalls \cup {"dq_push"}) \cap ops = {}, UNCHANGED <<dqVars, dmaVars>>
    PROVE  DmaInv'
<1>1. {} \subseteq Queue /\ {} \cap qs = {}
  OBVIOUS
<1>2. Foreign(DmaCalls \cup {"dq_push"}, {})
  BY <1>1, AffectsOthers
<1>3. Queued(dq') = Queued(dq) /\ UNCHANGED dmaVars
  BY DEF dqVars
<1> QED  BY <1>2, <1>3, DmaForeign

\* The calls and the lists of the objects have nothing in common.
LEMMA OpsApart ==
    /\ \A ops \in {WorkOps, PipeOps, DqOps, RxOps, SpiOps, {}} : "done" \notin ops
    /\ \A ops \in {DoneOps, PipeOps, DqOps, RxOps, SpiOps, {}} : "kick" \notin ops
    /\ \A ops \in {DoneOps, WorkOps, DqOps, RxOps, SpiOps, {}} : PipeLists \cap ops = {}
    /\ \A ops \in {DoneOps, WorkOps, PipeOps, RxOps, SpiOps, {}} :
          DqLists \cap ops = {} /\ (DmaCalls \cup {"dq_push"}) \cap ops = {}
    /\ "done" \notin PipeLists /\ "done" \notin DqLists
    /\ PipeLists \cap {"done"} = {} /\ DqLists \cap {"done"} = {} /\ PipeLists \cap DqLists = {}
<1> USE DEF DoneOps, WorkOps, PipeOps, DqOps, RxOps, SpiOps, PipeLists, DqLists, DmaCalls
<1>1. \A ops \in {WorkOps, PipeOps, DqOps, RxOps, SpiOps, {}} : "done" \notin ops
  OBVIOUS
<1>2. \A ops \in {DoneOps, PipeOps, DqOps, RxOps, SpiOps, {}} : "kick" \notin ops
  OBVIOUS
<1>3. ASSUME NEW ops \in {DoneOps, WorkOps, DqOps, RxOps, SpiOps, {}} PROVE PipeLists \cap ops = {}
  OBVIOUS
<1>4. ASSUME NEW ops \in {DoneOps, WorkOps, PipeOps, RxOps, SpiOps, {}}
      PROVE  DqLists \cap ops = {} /\ (DmaCalls \cup {"dq_push"}) \cap ops = {}
  OBVIOUS
<1>5. /\ "done" \notin PipeLists /\ "done" \notin DqLists
      /\ PipeLists \cap {"done"} = {} /\ DqLists \cap {"done"} = {} /\ PipeLists \cap DqLists = {}
  OBVIOUS
<1> QED  BY <1>1, <1>2, <1>3, <1>4, <1>5

-----------------------------------------------------------------------------
(* The inductive invariant.                                                 *)

\* What is true of every object, whichever of them the application uses.
DriversInv ==
    /\ BaseOK(w, call) /\ DrainOK
    /\ DoneInv /\ WorkInv /\ PipeInv /\ DqInv

LEMMA InitCalls ==
    ASSUME Init
    PROVE  /\ BaseOK(w, call) /\ DrainOK
           /\ \A u \in Thread : call[u] = Idle /\ call[u].op = "idle"
           /\ \A q \in Queue : w.list[q] = <<>>
<1>1. PICK a \in Apps :
          w = [app   |-> a,
               prio  |-> Priority,
               stat  |-> [t \in Thread |-> "READY"],
               error |-> [t \in Thread |-> "EOK"],
               timer |-> [t \in Thread |-> FALSE],
               list  |-> [q \in Queue |-> <<>>]]
  BY DEF Init, WaitsInit
<1>2. WaitInv(w, call)
  <2>1. call = [c \in Caller |-> Idle]
    BY DEF Init, WaitsInit
  <2>2. w \in Waits
    <3>1. Priority \in [Thread -> 0..255]
      BY PriorityAssumption
    <3>2. [t \in Thread |-> FALSE] \in [Thread -> BOOLEAN]
      OBVIOUS
    <3>3. [q \in Queue |-> <<>>] \in [Queue -> Seq(Thread)]
      OBVIOUS
    <3> QED  BY <1>1, <3>1, <3>2, <3>3 DEF Waits
  <2>3. /\ \A q \in Queue : w.list[q] = <<>>
        /\ \A t \in Thread : w.stat[t] = "READY" /\ w.error[t] = "EOK" /\ ~w.timer[t]
    BY <1>1
  <2>4. ToSet(<<>>) = {} /\ IsInjective(<<>>)
    BY DEF ToSet, IsInjective
  <2>5. Linked(w)
    BY <2>3, <2>4 DEF Linked
  <2>6. DOMAIN call = Caller
    BY <2>1
  <2>7. \A c \in Isr : ~WaitsIn(call[c], "mq")
    <3>1. "mq" \notin Mutexes
      BY MutexesAssumption DEF IpcQueue
    <3>2. \A c \in Isr : call[c] = Idle
      BY <2>1 DEF Caller
    <3> QED  BY <3>1, <3>2 DEF WaitsIn, Idle
  <2> QED  BY <2>2, <2>3, <2>4, <2>5, <2>6, <2>7 DEF WaitInv
<1>3. \A u \in Thread : ~w.timer[u]
  BY <1>1
<1>4. \A u \in Thread : call[u] = Idle
  BY DEF Init, WaitsInit, Caller
<1>5. \A u \in Thread : CallOK(call[u]) /\ call[u].op = "idle"
  BY <1>4, IdleOp
<1>6. DrainOK
  <2>1. drain = NoDrain
    BY DEF Init, WaitsInit
  <2> QED  BY <2>1 DEF NoDrain, DrainOK
<1>7. \A q \in Queue : w.list[q] = <<>>
  BY <1>1
<1> QED  BY <1>2, <1>3, <1>4, <1>5, <1>6, <1>7 DEF BaseOK

LEMMA InitDriversInv == Init => DriversInv
<1> SUFFICES ASSUME Init PROVE DriversInv
  OBVIOUS
<1>1. BaseOK(w, call) /\ DrainOK
  BY InitCalls
<1>2. \A u \in Thread : call[u].op = "idle"
  BY InitCalls
<1>3. /\ w.list["done"] = <<>> /\ w.list["dq_push"] = <<>> /\ w.list["dq_pop"] = <<>>
      /\ w.list["pipe_rd"] = <<>> /\ w.list["pipe_wr"] = <<>>
  BY InitCalls, DoneQueue, DqQueues, PipeQueues
<1>4. DoneInv
  BY <1>2, <1>3 DEF Init, DoneInit, DoneInv, DoneCalls
<1>5. WorkInv
  <2>1. work_list = <<>> /\ worker = "test" /\ work = Null
    BY DEF Init, WorkInit
  <2>2. work_list \in Seq(Work) /\ work # "head"
    BY <2>1, WorkAssumption
  <2> QED  BY <1>2, <2>1, <2>2 DEF WorkInv
<1>6. PipeInv
  BY <1>2, <1>3 DEF PipeInv, PipeCalls
<1>7. DqInv
  <2>1. dq = [item |-> [i \in 0..DqSize - 1 |-> NoMail], put |-> 0, get |-> 0, waiting_lwm |-> FALSE]
        /\ masked = FALSE
    BY DEF Init, DqInit
  <2>2. DqRing(dq)
    BY <2>1, DqAssumption DEF DqRing, Held
  <2> QED  BY <1>2, <1>3, <2>1, <2>2 DEF DqInv, DqCalls, WakePop, WakePush, Found
<1> QED  BY <1>1, <1>4, <1>5, <1>6, <1>7 DEF DriversInv

\* The hypotheses of the drivers on an application, and what they say of this one.
LEMMA AppOrderly ==
    ASSUME \A a \in Apps : Orderly(a), BaseOK(w, call)
    PROVE  Orderly(w.app)
<1>1. w.app \in Apps
  BY DEF BaseOK, WaitInv, Waits
<1> QED  BY <1>1

LEMMA KeepsDrain == ASSUME DrainOK, UNCHANGED drain PROVE DrainOK'
BY DEF DrainOK

\* Nothing but variables of no interest changes.
LEMMA KeepsAll ==
    ASSUME DriversInv, w' = w, call' = call, DrainOK', UNCHANGED <<doneVars, dqVars, workVars, pipeVars>>
    PROVE  DriversInv' /\ w'.app = w.app
<1>0. BaseOK(w, call) /\ DoneInv /\ WorkInv /\ PipeInv /\ DqInv
  BY DEF DriversInv
<1>1. PICK none : none = {}
  OBVIOUS
<1>2. Frame(w, call, w', call', none, none)
  BY <1>0, FrameNone
<1>3. BaseOK(w, call)' /\ Affects(w, call, w', call', none, none)
  BY <1>2 DEF Frame
<1>4. "done" \notin none /\ "kick" \notin none /\ PipeLists \cap none = {} /\ DqLists \cap none = {}
  BY <1>1
<1>5. UNCHANGED doneVars /\ UNCHANGED dqVars /\ UNCHANGED workVars /\ UNCHANGED pipeVars
  OBVIOUS
<1>6. DoneInv'
  BY <1>0, <1>3, <1>4, <1>5, KeepsDone
<1>7. WorkInv'
  BY <1>0, <1>3, <1>4, <1>5, KeepsWork
<1>8. PipeInv'
  BY <1>0, <1>3, <1>4, <1>5, KeepsPipe
<1>9. DqInv'
  BY <1>0, <1>3, <1>4, <1>5, KeepsDq
<1> QED  BY <1>3, <1>6, <1>7, <1>8, <1>9 DEF DriversInv

\* A waiter leaves its list with an error.
LEMMA EvictKeeps ==
    ASSUME DriversInv, NEW t, Evicts(w, call, w', t), call' = call, DrainOK',
           call[t].op # "dq_push" \/ Uses("reset"), UNCHANGED <<doneVars, dqVars, workVars, pipeVars>>
    PROVE  DriversInv' /\ w'.app = w.app
<1>0. BaseOK(w, call) /\ DoneInv /\ WorkInv /\ PipeInv /\ DqInv
  BY DEF DriversInv
<1>1. BaseOK(w, call)' /\ w'.app = w.app
  BY DEF Evicts
<1>5. UNCHANGED doneVars /\ UNCHANGED dqVars /\ UNCHANGED workVars /\ UNCHANGED pipeVars
  OBVIOUS
<1>6. DoneInv'
  BY <1>0, <1>5, DoneEvicts
<1>7. WorkInv'
  BY <1>0, <1>5, WorkEvicts
<1>8. PipeInv'
  BY <1>0, <1>5, PipeEvicts
<1>9. DqInv'
  BY <1>0, <1>5, DqEvicts
<1> QED  BY <1>1, <1>6, <1>7, <1>8, <1>9 DEF DriversInv

\* The steps of the objects that suspend nobody.
LEMMA QuietKeeps ==
    ASSUME DriversInv, NEW ops \in {RxOps, SpiOps}, Frame(w, call, w', call', ops, {}),
           UNCHANGED <<drain, doneVars, dqVars, workVars, pipeVars>>
    PROVE  DriversInv' /\ w'.app = w.app
<1>0. BaseOK(w, call) /\ DoneInv /\ WorkInv /\ PipeInv /\ DqInv /\ DrainOK
  BY DEF DriversInv
<1>1. BaseOK(w, call)' /\ Affects(w, call, w', call', ops, {})
  BY DEF Frame
<1>2. w'.app = w.app
  BY <1>1 DEF Affects
<1>3. UNCHANGED drain /\ UNCHANGED doneVars /\ UNCHANGED dqVars /\ UNCHANGED workVars /\ UNCHANGED pipeVars
  OBVIOUS
<1>4. "done" \notin ops /\ "kick" \notin ops /\ PipeLists \cap ops = {} /\ DqLists \cap ops = {}
  BY OpsApart
<1>5. PICK none : none = {}
  OBVIOUS
<1>6. "done" \notin none /\ PipeLists \cap none = {} /\ DqLists \cap none = {}
      /\ Affects(w, call, w', call', ops, none)
  BY <1>1, <1>5
<1>7. DoneInv'
  BY <1>0, <1>3, <1>4, <1>6, KeepsDone
<1>8. WorkInv'
  BY <1>0, <1>3, <1>4, <1>6, KeepsWork
<1>9. PipeInv'
  BY <1>0, <1>3, <1>4, <1>6, KeepsPipe
<1>10. DqInv'
  BY <1>0, <1>3, <1>4, <1>6, KeepsDq
<1>11. DrainOK'
  BY <1>0, <1>3, KeepsDrain
<1> QED  BY <1>1, <1>2, <1>7, <1>8, <1>9, <1>10, <1>11 DEF DriversInv

LEMMA DoneKeeps ==
    ASSUME DriversInv, Orderly(w.app), DoneGoal, UNCHANGED <<drain, dqVars, workVars, pipeVars>>
    PROVE  DriversInv' /\ w'.app = w.app
<1>0. BaseOK(w, call) /\ DoneInv /\ WorkInv /\ PipeInv /\ DqInv /\ DrainOK
  BY DEF DriversInv
<1>1. PICK ops, qs : ops = DoneOps /\ qs = {"done"}
  OBVIOUS
<1>2. BaseOK(w, call)' /\ Affects(w, call, w', call', ops, qs) /\ DoneInv'
  BY <1>0, <1>1 DEF DoneGoal, Frame
<1>3. w'.app = w.app
  BY <1>2 DEF Affects
<1>4. UNCHANGED drain /\ UNCHANGED dqVars /\ UNCHANGED workVars /\ UNCHANGED pipeVars
  OBVIOUS
<1>5. "kick" \notin ops /\ PipeLists \cap ops = {} /\ DqLists \cap ops = {}
      /\ PipeLists \cap qs = {} /\ DqLists \cap qs = {}
  BY <1>1, OpsApart
<1>6. WorkInv'
  BY <1>0, <1>2, <1>4, <1>5, KeepsWork
<1>7. PipeInv'
  BY <1>0, <1>2, <1>4, <1>5, KeepsPipe
<1>8. DqInv'
  BY <1>0, <1>2, <1>4, <1>5, KeepsDq
<1>9. DrainOK'
  BY <1>0, <1>4, KeepsDrain
<1> QED  BY <1>2, <1>3, <1>6, <1>7, <1>8, <1>9 DEF DriversInv

LEMMA WorkKeeps ==
    ASSUME DriversInv, Orderly(w.app), WorkGoal, UNCHANGED <<drain, doneVars, dqVars, pipeVars>>
    PROVE  DriversInv' /\ w'.app = w.app
<1>0. BaseOK(w, call) /\ DoneInv /\ WorkInv /\ PipeInv /\ DqInv /\ DrainOK
  BY DEF DriversInv
<1>1. PICK ops, qs : ops = WorkOps /\ qs = {}
  OBVIOUS
<1>2. BaseOK(w, call)' /\ Affects(w, call, w', call', ops, qs) /\ WorkInv'
  BY <1>0, <1>1 DEF WorkGoal, Frame
<1>3. w'.app = w.app
  BY <1>2 DEF Affects
<1>4. UNCHANGED drain /\ UNCHANGED doneVars /\ UNCHANGED dqVars /\ UNCHANGED pipeVars
  OBVIOUS
<1>5. "done" \notin ops /\ PipeLists \cap ops = {} /\ DqLists \cap ops = {}
      /\ "done" \notin qs /\ PipeLists \cap qs = {} /\ DqLists \cap qs = {}
  BY <1>1, OpsApart
<1>6. DoneInv'
  BY <1>0, <1>2, <1>4, <1>5, KeepsDone
<1>7. PipeInv'
  BY <1>0, <1>2, <1>4, <1>5, KeepsPipe
<1>8. DqInv'
  BY <1>0, <1>2, <1>4, <1>5, KeepsDq
<1>9. DrainOK'
  BY <1>0, <1>4, KeepsDrain
<1> QED  BY <1>2, <1>3, <1>6, <1>7, <1>8, <1>9 DEF DriversInv

LEMMA PipeKeeps ==
    ASSUME DriversInv, Orderly(w.app), PipeGoal, UNCHANGED <<drain, doneVars, dqVars, workVars>>
    PROVE  DriversInv' /\ w'.app = w.app
<1>0. BaseOK(w, call) /\ DoneInv /\ WorkInv /\ PipeInv /\ DqInv /\ DrainOK
  BY DEF DriversInv
<1>1. PICK ops, qs : ops = PipeOps /\ qs = PipeLists
  OBVIOUS
<1>2. BaseOK(w, call)' /\ Affects(w, call, w', call', ops, qs) /\ PipeInv'
  BY <1>0, <1>1 DEF PipeGoal, Frame
<1>3. w'.app = w.app
  BY <1>2 DEF Affects
<1>4. UNCHANGED drain /\ UNCHANGED doneVars /\ UNCHANGED dqVars /\ UNCHANGED workVars
  OBVIOUS
<1>5. "done" \notin ops /\ "kick" \notin ops /\ DqLists \cap ops = {}
      /\ "done" \notin qs /\ DqLists \cap qs = {}
  BY <1>1, OpsApart
<1>6. DoneInv'
  BY <1>0, <1>2, <1>4, <1>5, KeepsDone
<1>7. WorkInv'
  BY <1>0, <1>2, <1>4, <1>5, KeepsWork
<1>8. DqInv'
  BY <1>0, <1>2, <1>4, <1>5, KeepsDq
<1>9. DrainOK'
  BY <1>0, <1>4, KeepsDrain
<1> QED  BY <1>2, <1>3, <1>6, <1>7, <1>8, <1>9 DEF DriversInv

LEMMA DqKeeps ==
    ASSUME DriversInv, DqGoal, UNCHANGED <<drain, doneVars, workVars, pipeVars>>
    PROVE  DriversInv' /\ w'.app = w.app
<1>0. BaseOK(w, call) /\ DoneInv /\ WorkInv /\ PipeInv /\ DqInv /\ DrainOK
  BY DEF DriversInv
<1>1. PICK ops, qs : ops = DqOps /\ qs = DqLists
  OBVIOUS
<1>2. BaseOK(w, call)' /\ Affects(w, call, w', call', ops, qs) /\ DqInv'
  BY <1>1 DEF DqGoal, Frame
<1>3. w'.app = w.app
  BY <1>2 DEF Affects
<1>4. UNCHANGED drain /\ UNCHANGED doneVars /\ UNCHANGED workVars /\ UNCHANGED pipeVars
  OBVIOUS
<1>5. "done" \notin ops /\ "kick" \notin ops /\ PipeLists \cap ops = {}
      /\ "done" \notin qs /\ PipeLists \cap qs = {}
  BY <1>1, OpsApart
<1>6. DoneInv'
  BY <1>0, <1>2, <1>4, <1>5, KeepsDone
<1>7. WorkInv'
  BY <1>0, <1>2, <1>4, <1>5, KeepsWork
<1>8. PipeInv'
  BY <1>0, <1>2, <1>4, <1>5, KeepsPipe
<1>9. DrainOK'
  BY <1>0, <1>4, KeepsDrain
<1> QED  BY <1>2, <1>3, <1>6, <1>7, <1>8, <1>9 DEF DriversInv

\* Every step keeps the invariant.
LEMMA NextDriversInv ==
    ASSUME \A a \in Apps : Orderly(a), MaxIndex < IndexMod, DriversInv, Next
    PROVE  DriversInv' /\ w'.app = w.app
<1>0. BaseOK(w, call) /\ DoneInv /\ WorkInv /\ PipeInv /\ DqInv /\ DrainOK
  BY DEF DriversInv
<1>1. Orderly(w.app)
  BY <1>0, AppOrderly
<1>2. ASSUME NEW t \in Thread, TimeoutOf(t) PROVE DriversInv' /\ w'.app = w.app
  <2>1. Evicts(w, call, w', t) /\ call[t].op # "dq_push"
    BY <1>0, <1>2, TimeoutEvicts
  <2>2. call' = call /\ UNCHANGED drain /\ UNCHANGED <<doneVars, dqVars, workVars, pipeVars>>
    BY <1>2 DEF TimeoutOf
  <2>3. DrainOK'
    BY <1>0, <2>2, KeepsDrain
  <2> QED  BY <2>1, <2>2, <2>3, EvictKeeps
<1>3. CASE CompletionStep
  <2>1. UNCHANGED <<drain, dqVars, workVars, pipeVars>>
    BY <1>3 DEF CompletionStep
  <2> QED  BY <1>0, <1>1, <1>3, <2>1, CompletionOwn, DoneKeeps
<1>4. CASE DataQueueStep
  <2>1. UNCHANGED <<drain, doneVars, workVars, pipeVars>>
    BY <1>4 DEF DataQueueStep
  <2> QED  BY <1>0, <1>1, <1>4, <2>1, DataQueueOwn, DqKeeps
<1>5. CASE ResetStep
  <2>1. call' = call /\ Uses("reset") /\ UNCHANGED <<doneVars, dqVars, workVars, pipeVars>>
    BY <1>5 DEF ResetStep, rt_data_queue_reset, Begin, DrainTest, DrainTake
  <2>2. DrainOK'
    BY <1>0, <1>5, ResetDrain
  <2>3. w' = w \/ \E t \in Thread : Evicts(w, call, w', t)
    BY <1>0, <1>5, ResetEvicts
  <2> QED  BY <2>1, <2>2, <2>3, KeepsAll, EvictKeeps, SMTT(40)
<1>6. CASE PipeStep
  <2>1. UNCHANGED <<drain, doneVars, dqVars, workVars>>
    BY <1>6 DEF PipeStep
  <2> QED  BY <1>0, <1>1, <1>6, <2>1, PipeOwn, PipeKeeps
<1>7. CASE WorkQueueStep
  <2>1. UNCHANGED <<drain, doneVars, dqVars, pipeVars>>
    BY <1>7 DEF WorkQueueStep
  <2> QED  BY <1>0, <1>1, <1>7, <2>1, WorkOwn, WorkKeeps
<1>8. CASE SerialRxStep
  <2>1. UNCHANGED <<drain, doneVars, dqVars, workVars, pipeVars>>
    BY <1>8 DEF SerialRxStep
  <2> QED  BY <1>0, <1>8, <2>1, RxOwn, QuietKeeps
<1>9. CASE SerialIntTxStep
  <2>1. UNCHANGED <<drain, dqVars, workVars, pipeVars>>
    BY <1>9 DEF SerialIntTxStep
  <2> QED  BY <1>0, <1>1, <1>9, <2>1, IntTxOwn, DoneKeeps
<1>10. CASE SerialDmaTxStep
  <2>1. UNCHANGED <<drain, doneVars, workVars, pipeVars>>
    BY <1>10 DEF SerialDmaTxStep
  <2> QED  BY <1>0, <1>1, <1>10, <2>1, DmaTxOwn, DqKeeps
<1>11. CASE SpiStep
  <2>1. UNCHANGED <<drain, doneVars, dqVars, workVars, pipeVars>>
    BY <1>11 DEF SpiStep
  <2> QED  BY <1>0, <1>11, <2>1, SpiOwn, QuietKeeps
<1> QED  BY <1>2, <1>3, <1>4, <1>5, <1>6, <1>7, <1>8, <1>9, <1>10, <1>11 DEF Next

LEMMA StutterDriversInv == ASSUME DriversInv, UNCHANGED vars PROVE DriversInv' /\ w'.app = w.app
<1>1. w' = w /\ call' = call /\ UNCHANGED drain /\ UNCHANGED <<doneVars, dqVars, workVars, pipeVars>>
  BY DEF vars
<1>2. DrainOK'
  BY <1>1, KeepsDrain DEF DriversInv
<1> QED  BY <1>1, <1>2, KeepsAll

\* The transfers by DMA, beside every other step.
LEMMA KeepsDmaStill ==
    ASSUME DmaInv, call' = call, w'.app = w.app, UNCHANGED <<dqVars, dmaVars>>
    PROVE  DmaInv'
<1>1. /\ activated' = activated /\ dma' = dma /\ sent' = sent /\ completed' = completed /\ dq' = dq
      /\ (Uses("dma_tx")' <=> Uses("dma_tx"))
  BY DEF dqVars, dmaVars, Uses
<1> QED  BY <1>1 DEF DmaInv

LEMMA NextDmaInv ==
    ASSUME \A a \in Apps : Orderly(a), MaxIndex < IndexMod, MaxEnds <= 1,
           DriversInv, DmaInv, Next
    PROVE  DmaInv'
<1>0. BaseOK(w, call) /\ DqInv /\ w'.app = w.app
  BY NextDriversInv DEF DriversInv
<1>1. Orderly(w.app)
  BY <1>0, AppOrderly
<1>2. ASSUME NEW ops \in {DoneOps, WorkOps, PipeOps, RxOps, SpiOps}, NEW qs,
             Frame(w, call, w', call', ops, qs), UNCHANGED <<dqVars, dmaVars>>
      PROVE  DmaInv'
  <2>1. Affects(w, call, w', call', ops, qs) /\ (DmaCalls \cup {"dq_push"}) \cap ops = {}
    BY <1>2, OpsApart DEF Frame
  <2> QED  BY <1>2, <2>1, KeepsDma
<1>3. CASE (\E t \in Thread : TimeoutOf(t)) \/ ResetStep
  <2>1. call' = call /\ UNCHANGED <<dqVars, dmaVars>>
    BY <1>3 DEF TimeoutOf, ResetStep, rt_data_queue_reset, Begin, DrainTest, DrainTake, serialVars
  <2> QED  BY <1>0, <2>1, KeepsDmaStill, SMTT(40)
<1>4. CASE CompletionStep \/ SerialIntTxStep
  <2>1. UNCHANGED <<dqVars, dmaVars>>
    BY <1>4 DEF CompletionStep, SerialIntTxStep, serialVars
  <2>2. Frame(w, call, w', call', DoneOps, {"done"})
    BY <1>0, <1>4, CompletionOwn, IntTxOwn DEF DoneGoal
  <2> QED  BY <1>2, <2>1, <2>2
<1>5. CASE DataQueueStep
  <2>1. "dq" \in w.app.uses
    BY <1>5 DEF DataQueueStep, Uses
  <2>2. ~Uses("dma_tx")'
    BY <1>0, <1>1, <2>1 DEF Uses, Orderly
  <2> QED  BY <2>2 DEF DmaInv
<1>6. CASE PipeStep
  <2>1. UNCHANGED <<dqVars, dmaVars>>
    BY <1>6 DEF PipeStep, serialVars
  <2>2. Frame(w, call, w', call', PipeOps, PipeLists)
    BY <1>0, <1>6, PipeOwn DEF PipeGoal
  <2> QED  BY <1>2, <2>1, <2>2
<1>7. CASE WorkQueueStep
  <2>1. UNCHANGED <<dqVars, dmaVars>>
    BY <1>7 DEF WorkQueueStep, serialVars
  <2>2. Frame(w, call, w', call', WorkOps, {})
    BY <1>0, <1>7, WorkOwn DEF WorkGoal
  <2> QED  BY <1>2, <2>1, <2>2
<1>8. CASE SerialRxStep
  <2>1. UNCHANGED <<dqVars, dmaVars>>
    BY <1>8 DEF SerialRxStep
  <2>2. Frame(w, call, w', call', RxOps, {})
    BY <1>0, <1>8, RxOwn
  <2> QED  BY <1>2, <2>1, <2>2
<1>9. CASE SpiStep
  <2>1. UNCHANGED <<dqVars, dmaVars>>
    BY <1>9 DEF SpiStep, serialVars
  <2>2. Frame(w, call, w', call', SpiOps, {})
    BY <1>0, <1>9, SpiOwn
  <2> QED  BY <1>2, <2>1, <2>2
<1>10. CASE SerialDmaTxStep
  BY <1>0, <1>1, <1>10, DmaOwn
<1> QED  BY <1>3, <1>4, <1>5, <1>6, <1>7, <1>8, <1>9, <1>10 DEF Next

LEMMA InitDmaInv == Init => DmaInv
<1> SUFFICES ASSUME Init PROVE DmaInv
  OBVIOUS
<1>1. \A u \in Thread : call[u].op = "idle"
  BY InitCalls
<1>2. completed = {} /\ dma = NoMail /\ activated = FALSE
  BY DEF Init, SerialInit
<1>3. Queued(dq) = <<>>
  <2>1. dq.put = 0 /\ dq.get = 0
    BY DEF Init, DqInit
  <2>2. DqInv
    BY InitDriversInv DEF DriversInv
  <2>3. Queued(dq) \in Seq(Mail) /\ Len(Queued(dq)) = Held(dq)
    BY <2>2, QueuedSeq DEF DqInv
  <2>4. Len(Queued(dq)) = 0
    BY <2>1, <2>3 DEF Held
  <2> QED  BY <2>3, <2>4
<1>4. DmaCore(call, Queued(dq), activated, dma)
  BY <1>1, <1>2, <1>3 DEF DmaCore, DmaCalls
<1> QED  BY <1>1, <1>2, <1>4 DEF DmaInv, DmaCalls

-----------------------------------------------------------------------------
(* The theorems.                                                            *)

\* The inductive invariant of the driver objects, for any threads, sizes and
\* applications that ask of the drivers what they were written for, and indices of
\* the data queue that do not wrap.
THEOREM DriversInvariance ==
    ASSUME \A a \in Apps : Orderly(a), MaxIndex < IndexMod
    PROVE  Spec => []DriversInv
<1>1. Init => DriversInv
  BY InitDriversInv
<1>2. DriversInv /\ [Next]_vars => DriversInv'
  BY NextDriversInv, StutterDriversInv
<1> QED  BY <1>1, <1>2, PTL DEF Spec

\* No wake-up is lost: nobody waits for a completion that is done (completion.c), for
\* data or room in a data queue (dataqueue.c) or a pipe (pipe.c), and the worker
\* (workqueue.c) does not sleep on work, unless the thread that was resumed for it
\* has not run yet.
THEOREM NoLostWakeupInvariance ==
    ASSUME \A a \in Apps : Orderly(a), MaxIndex < IndexMod
    PROVE  Spec => []NoLostWakeup
<1>1. DriversInv => NoLostWakeup
  <2> SUFFICES ASSUME DriversInv PROVE NoLostWakeup
    OBVIOUS
  <2>1. DoneInv /\ WorkInv /\ PipeInv /\ DqInv
    BY DEF DriversInv
  <2>2. DoneWakes
    BY <2>1 DEF DoneWakes, DoneInv, Waiter
  <2>3. DataWakes
    <3>1. Resumed("dq_pop") = Woke(w, call, "dq_pop")
      BY DEF Resumed, Woke
    <3> QED  BY <2>1, <3>1 DEF DataWakes, DqInv, WakePop, WakePush, Held, Used
  <2>4. PipeWakes
    BY <2>1 DEF PipeWakes, PipeInv
  <2>5. WorkerCalled
    BY <2>1 DEF WorkerCalled, WorkInv
  <2> QED  BY <2>2, <2>3, <2>4, <2>5 DEF NoLostWakeup
<1> QED  BY <1>1, DriversInvariance, PTL

\* What the worker takes is work and never the list head, the one place of the
\* completion is free for its waiter, and a pop that reaches the low water mark of a
\* queue that is not reset finds a pusher and enables interrupts again.
THEOREM NothingWildInvariance ==
    ASSUME \A a \in Apps : Orderly(a), MaxIndex < IndexMod
    PROVE  Spec => []NothingWild
<1>1. DriversInv => NothingWild
  <2> SUFFICES ASSUME DriversInv PROVE NothingWild
    OBVIOUS
  <2>1. DoneInv /\ WorkInv /\ DqInv
    BY DEF DriversInv
  <2>2. TakesWork /\ ~crowded
    BY <2>1 DEF TakesWork, WorkInv, DoneInv
  <2>3. Uses("reset") \/ InterruptsEnabled
    BY <2>1 DEF DqInv, Found, Uses, InterruptsEnabled
  <2> QED  BY <2>2, <2>3 DEF NothingWild
<1> QED  BY <1>1, DriversInvariance, PTL

\* With one writer the DMA channel sends the head of the data queue, is started for
\* what is in the queue, and tx_complete gets buffers that were sent (serial.c), when
\* no two transfers end between a push and its test of activated.
THEOREM DmaFollowsQueueInvariance ==
    ASSUME \A a \in Apps : Orderly(a), MaxIndex < IndexMod, MaxEnds <= 1
    PROVE  Spec => []DmaFollowsQueue
<1>1. Init => DmaInv
  BY InitDmaInv
<1>2. DriversInv /\ DmaInv /\ [Next]_vars => DmaInv'
  <2>1. ASSUME DriversInv, DmaInv, UNCHANGED vars PROVE DmaInv'
    <3>1. call' = call /\ w'.app = w.app /\ UNCHANGED <<dqVars, dmaVars>>
      BY <2>1 DEF vars, serialVars
    <3> QED  BY <2>1, <3>1, KeepsDmaStill
  <2> QED  BY <2>1, NextDmaInv
<1>3. DriversInv /\ DmaInv => DmaFollowsQueue
  <2> SUFFICES ASSUME DriversInv, DmaInv, Uses("dma_tx")
               PROVE  CompletesSent /\ DmaSendsHead /\ DmaRuns
    BY DEF DmaFollowsQueue
  <2>1. DqRing(dq) /\ DmaCore(call, Queued(dq), activated, dma)
    BY DEF DriversInv, DqInv, DmaInv
  <2>2. PICK q \in Seq(Mail) : q = Queued(dq) /\ Len(q) = Held(dq)
    BY <2>1, QueuedSeq
  <2>3. dq.get \in Nat /\ dq.put \in Nat /\ \A i \in 1..Len(q) : q[i] = At(dq, dq.get + i - 1)
    BY <2>1, <2>2, QueuedSeq
  <2>4. dq.get # dq.put <=> Len(q) # 0
    BY <2>2, <2>3 DEF Held
  <2>5. Len(q) # 0 <=> q # <<>>
    OBVIOUS
  <2>6. CompletesSent
    BY DEF DmaInv, CompletesSent
  <2>7. DmaSendsHead
    <3> SUFFICES ASSUME dma # NoMail PROVE dq.get # dq.put /\ At(dq, dq.get) = dma
      BY DEF DmaSendsHead
    <3>1. q # <<>> /\ dma = Head(q)
      BY <2>1, <2>2 DEF DmaCore
    <3>2. Head(q) = q[1] /\ 1 \in 1..Len(q) /\ dq.get + 1 - 1 = dq.get
      BY <2>3, <3>1
    <3>3. q[1] = At(dq, dq.get + 1 - 1)
      BY <2>3, <3>2
    <3> QED  BY <2>4, <2>5, <3>1, <3>2, <3>3
  <2>8. DmaRuns
    BY <2>1, <2>2, <2>4, <2>5 DEF DmaRuns, DmaCore, DmaCalls
  <2> QED  BY <2>6, <2>7, <2>8
<1> QED  BY <1>1, <1>2, <1>3, DriversInvariance, PTL DEF Spec

LEMMA InitRing ==
    ASSUME NEW rb, rb = rt_ringbuffer_init
    PROVE  RingOK(rb) /\ rt_ringbuffer_data_len(rb) = 0
<1>1. 0 \in Places
  BY BufferAssumption DEF Places
<1>2. [i \in Places |-> NoByte] \in [Places -> Byte \cup {NoByte}]
  OBVIOUS
<1>3. rb \in Buffers
  BY <1>1, <1>2 DEF rt_ringbuffer_init, Buffers
<1>4. rb.read_index = 0 /\ rb.write_index = 0 /\ rb.read_mirror = rb.write_mirror
  BY DEF rt_ringbuffer_init
<1>5. rb.read_index <= rb.write_index
  BY <1>4
<1> QED  BY <1>3, <1>4, <1>5, Zenon DEF RingOK, rt_ringbuffer_data_len

\* The ring of a data queue of any size is a first-in first-out queue: no push
\* overwrites data that was not popped, and a pop gets the oldest
\* (rt_data_queue_push, rt_data_queue_pop), by the threads and by the transmitter.
THEOREM DataQueueRefinesQueue ==
    ASSUME \A a \in Apps : Orderly(a), MaxIndex < IndexMod
    PROVE  Spec => DataQueueIsQueue
<1>1. Init => DqQ!Init
  <2> SUFFICES ASSUME Init PROVE DqQ!Init
    OBVIOUS
  <2>1. dq.put = 0 /\ dq.get = 0 /\ dq_got = NoMail
    BY DEF Init, DqInit
  <2>2. DqRing(dq)
    BY InitDriversInv DEF DriversInv, DqInv
  <2>3. Queued(dq) \in Seq(Mail) /\ Len(Queued(dq)) = 0
    BY <2>1, <2>2, QueuedSeq DEF Held
  <2>4. Queued(dq) = <<>>
    BY <2>3
  <2> QED  BY <2>1, <2>4 DEF DqQ!Init, Queued, Held, Used
<1>2. DriversInv /\ [Next]_vars =>
         [DqQ!Next]_<<[i \in 1..Used |-> At(dq, dq.get + i - 1)], dq_got>>
  <2> SUFFICES ASSUME DriversInv, [Next]_vars
               PROVE  DqQ!Next \/ (Queued(dq') = Queued(dq) /\ dq_got' = dq_got)
    BY DEF Queued, Held, Used
  <2>1. BaseOK(w, call) /\ DqInv /\ DqRing(dq) /\ Orderly(w.app)
    BY AppOrderly DEF DriversInv, DqInv
  <2>2. CASE UNCHANGED dqVars
    BY <2>2 DEF dqVars
  <2>3. CASE DqMove
    <3>1. ASSUME NEW m \in Mail, Queued(dq') = Append(Queued(dq), m), Held(dq) < DqSize, dq_got' = dq_got
          PROVE  DqQ!Next
      <4>1. Len(Queued(dq)) = Held(dq)
        BY <2>1, QueuedSeq
      <4>2. DqQ!Send(m)
        BY <3>1, <4>1 DEF DqQ!Send, Queued, Held, Used
      <4> QED  BY <4>2 DEF DqQ!Next
    <3>2. ASSUME Queued(dq) # <<>>, dq_got' = Head(Queued(dq)), Queued(dq') = Tail(Queued(dq))
          PROVE  DqQ!Next
      <4>1. DqQ!Receive
        BY <3>2 DEF DqQ!Receive, Queued, Held, Used
      <4> QED  BY <4>1 DEF DqQ!Next
    <3> QED  BY <2>3, <3>1, <3>2 DEF DqMove
  <2>4. CASE DataQueueStep
    BY <2>1, <2>3, <2>4, DataQueueOwn DEF DqGoal
  <2>5. CASE SerialDmaTxStep
    BY <2>1, <2>3, <2>5, DmaTxOwn DEF DqGoal
  <2>6. DataQueueStep \/ SerialDmaTxStep \/ UNCHANGED dqVars
    BY DEF Next, vars, TimeoutOf, CompletionStep, ResetStep, PipeStep, WorkQueueStep, SerialRxStep,
           SerialIntTxStep, SpiStep
  <2> QED  BY <2>2, <2>4, <2>5, <2>6
<1> QED  BY <1>1, <1>2, DriversInvariance, PTL DEF Spec, DataQueueIsQueue, DqQ!Spec

\* Bytes come out of a pipe whose writes do not overwrite in the order they went in,
\* none twice and none lost, over every wrap of the two mirrored indices of a ring of
\* any size (rt_ringbuffer_put, rt_ringbuffer_get, rt_pipe_read, rt_pipe_write).
THEOREM PipeRefinesStream ==
    ASSUME \A a \in Apps : Orderly(a), MaxIndex < IndexMod
    PROVE  Spec => PipeIsStream
<1>1. Init => RingInv /\ PipeStream!Init
  <2> SUFFICES ASSUME Init PROVE RingInv /\ PipeStream!Init
    OBVIOUS
  <2>1. ring = rt_ringbuffer_init /\ pipe_got = <<>> /\ BufferSize \in Nat \ {0}
    BY BufferAssumption DEF Init, PipeInit
  <2>2. RingOK(ring) /\ rt_ringbuffer_data_len(ring) = 0
    BY <2>1, InitRing
  <2>3. Contents(ring) = <<>>
    <3>1. PICK s \in Seq(Byte \cup {NoByte}) : s = Contents(ring) /\ Len(s) = 0
      BY <2>2, RingContents
    <3>2. s = <<>>
      BY <3>1
    <3> QED  BY <3>1, <3>2
  <2> QED  BY <2>1, <2>2, <2>3 DEF RingInv, PipeStream!Init, Piped
<1>2. RingInv /\ DriversInv /\ [Next]_vars =>
         RingInv' /\ [PipeStream!Next]_<<Piped(Contents(ring)), Piped(pipe_got)>>
  <2> SUFFICES ASSUME RingInv, DriversInv, [Next]_vars
               PROVE  /\ RingInv'
                      /\ PipeStream!Next \/ (Piped(Contents(ring))' = Piped(Contents(ring))
                                             /\ Piped(pipe_got)' = Piped(pipe_got))
    OBVIOUS
  <2>1. BaseOK(w, call) /\ w'.app = w.app
    BY NextDriversInv, StutterDriversInv DEF DriversInv
  <2>2. CASE UNCHANGED pipeVars
    <3>1. ring' = ring /\ pipe_got' = pipe_got /\ (Forces' <=> Forces)
      BY <2>1, <2>2 DEF pipeVars, Forces
    <3> QED  BY <3>1 DEF RingInv, Piped
  <2>3. CASE PipeStep
    BY <2>1, <2>3, PipeStreamStep
  <2>4. PipeStep \/ UNCHANGED pipeVars
    BY DEF Next, vars, TimeoutOf, CompletionStep, ResetStep, DataQueueStep, WorkQueueStep, SerialRxStep,
           SerialIntTxStep, SerialDmaTxStep, SpiStep
  <2> QED  BY <2>2, <2>3, <2>4
<1> QED  BY <1>1, <1>2, DriversInvariance, PTL DEF Spec, PipeIsStream, PipeStream!Spec

\* Received bytes are read in the order they came, for a receive buffer of any size;
\* when rt_hw_serial_isr is faster than the reader it is the oldest byte that is lost,
\* and only that one.
THEOREM RxRefinesStream == Spec => RxIsStream
<1>1. Init => FifoInv /\ RxStream!Init
  <2> SUFFICES ASSUME Init PROVE FifoInv /\ RxStream!Init
    OBVIOUS
  <2>1. fifo = [buffer |-> [i \in 0..Bufsz - 1 |-> NoMail], put |-> 0, get |-> 0] /\ rx_got = <<>>
    BY DEF Init, SerialInit
  <2>2. FifoInv
    BY <2>1, SerialAssumption DEF FifoInv, Index
  <2>3. RxBytes = <<>>
    <3>1. RxBytes = Bytes(fifo.buffer, fifo.get, RxLen(fifo.put, fifo.get)) /\ RxLen(fifo.put, fifo.get) = 0
      BY <2>1, <2>2, RxBytesIs DEF RxLen
    <3>2. PICK s : s = RxBytes /\ s \in Seq(Char \cup {NoMail}) /\ Len(s) = 0
      <4>1. PICK buffer \in [Index -> Char \cup {NoMail}], get \in Index, n \in 0..Bufsz :
                buffer = fifo.buffer /\ get = fifo.get /\ n = RxLen(fifo.put, fifo.get)
        BY <2>2, <3>1, SerialAssumption DEF FifoInv
      <4> QED  BY <3>1, <4>1, BytesIn, BytesLen
    <3>3. s = <<>>
      BY <3>2
    <3> QED  BY <3>2, <3>3
  <2> QED  BY <2>1, <2>2, <2>3 DEF RxStream!Init
<1>2. FifoInv /\ [Next]_vars => FifoInv' /\ [RxStream!Next]_<<RxBytes, rx_got>>
  <2> SUFFICES ASSUME FifoInv, [Next]_vars
               PROVE  FifoInv' /\ (RxStream!Next \/ (RxBytes' = RxBytes /\ rx_got' = rx_got))
    OBVIOUS
  <2>1. CASE UNCHANGED rxVars
    <3>1. fifo' = fifo /\ rx_got' = rx_got
      BY <2>1 DEF rxVars
    <3> QED  BY <3>1 DEF FifoInv, RxBytes
  <2>2. CASE SerialRxStep
    BY <2>2, RxStreamStep
  <2>3. SerialRxStep \/ UNCHANGED rxVars
    BY DEF Next, vars, serialVars, TimeoutOf, CompletionStep, ResetStep, PipeStep, DataQueueStep,
           WorkQueueStep, SerialIntTxStep, SerialDmaTxStep, SpiStep
  <2> QED  BY <2>1, <2>2, <2>3
<1> QED  BY <1>1, <1>2, PTL DEF Spec, RxIsStream, RxStream!Spec

-----------------------------------------------------------------------------
(* What a thread on the SPI bus may rely on between two steps of its call.  *)

\* How often it has locked the bus, the device it owns the bus for, the devices it
\* has selected, what it knows of the flash chip it has locked, and whether the mode
\* of the flash is set.
St(hold, own, cs, flash, set) ==
    [hold |-> hold, own |-> own, cs |-> cs, flash |-> flash, set |-> set]

Stage == [hold : 0..2, own : SpiDevice \cup {Null}, cs : SUBSET SpiDevice,
          flash : {"free", "any", "read", "quiet", "wel"}, set : {"yes", "no"}]

\* The flash before and after a command: "read" is after a look at its status.
MaySend(f, cmd) ==
    /\ f # "free"
    /\ cmd \in {"ERASE", "PP", "WRSR"} => f = "wel"
    /\ cmd \in {"READ", "ID", "WREN", "WRDI"} => f \in {"quiet", "wel"}
Sent(f, cmd) ==
    IF cmd = "WREN" THEN "wel"
    ELSE IF cmd = "WRDI" THEN "quiet"
    ELSE IF cmd = "RDSR" THEN "read"
    ELSE IF cmd \in {"ERASE", "PP", "WRSR"} THEN "any" ELSE f

ModeOf(d) == IF d = Flash THEN 3 ELSE 0
Chosen(x, cs) == IF x.take THEN {x.dev} ELSE cs

\* The step x may be taken at stage s and leads to stage r.
Leads(s, x, r) ==
    \/ /\ x.do = "lock" /\ s.hold < 2
       /\ r = St(s.hold + 1, s.own, s.cs, s.flash, s.set)
    \/ /\ x.do = "unlock" /\ s.hold = 2
       /\ r = St(1, s.own, s.cs, s.flash, s.set)
    \/ /\ x.do = "unlock" /\ s.hold = 1 /\ s.cs = {}
       /\ r = St(0, Null, {}, s.flash, s.set)
    \/ /\ x.do = "own" /\ s.hold > 0 /\ (x.dev = Flash => s.set = "yes")
       /\ r = St(s.hold, x.dev, s.cs, s.flash, s.set)
    \/ /\ x.do = "set" /\ x.cfg.mode = ModeOf(x.dev)
       /\ r = St(s.hold, s.own, s.cs, s.flash, IF x.dev = Flash THEN "yes" ELSE s.set)
    \/ /\ x.do = "configure" /\ r = s
    \/ /\ x.do \in {"xfer", "end"} /\ s.hold > 0 /\ s.own = x.dev /\ s.cs \subseteq {x.dev}
       /\ x.do = "end" => x.data # "none" /\ Chosen(x, s.cs) = s.cs
       /\ x.dev = Flash => x.data # "none" /\ Chosen(x, s.cs) = {Flash} /\ s.flash # "free"
       /\ x.dev = Flash /\ x.release => MaySend(s.flash, x.data)
       /\ r = St(s.hold, s.own, IF x.release THEN {} ELSE Chosen(x, s.cs),
                 IF x.dev = Flash /\ x.release THEN Sent(s.flash, x.data) ELSE s.flash, s.set)
    \/ /\ x.do = "flash_lock" /\ s.flash = "free"
       /\ r = St(s.hold, s.own, s.cs, "quiet", s.set)
    \/ /\ x.do = "flash_unlock" /\ s.flash \in {"quiet", "wel"}
       /\ r = St(s.hold, s.own, s.cs, "free", s.set)
    \/ /\ x.do = "if_busy" /\ s = St(0, Null, {}, "read", "yes")
       /\ r = St(0, Null, {}, "quiet", "yes")
    \/ /\ x.do = "register" /\ (x.dev = Flash => s.set = "yes") /\ r = s

\* The steps, without and with those that wait for an answer of the card.
SpiData == {"none", "command", "clocks", "block", "reset", "ID", "WREN", "WRDI", "WRSR", "RDSR", "READ",
            "ERASE", "PP"}
Messages == [do : {"xfer"}, dev : SpiDevice, take : BOOLEAN, release : BOOLEAN, data : SpiData]
Plain ==
    [do : {"lock", "unlock", "flash_lock", "flash_unlock", "if_busy"}]
    \cup [do : {"own", "configure", "register"}, dev : SpiDevice]
    \cup [do : {"set"}, dev : SpiDevice, cfg : {FlashConfig, SlowConfig, FastConfig}]
    \cup Messages
Ended == [do : {"end"}, dev : SpiDevice, take : BOOLEAN, release : BOOLEAN, data : SpiData]
Answers == [do : {"answer"}, again : Seq(Plain), rest : Seq(Plain)]

\* A sequence of steps leads from stage s to stage r, by the moves M.
Path(M, s, todo, r) ==
    \E a \in [1..Len(todo) + 1 -> Stage] :
        /\ a[1] = s /\ a[Len(todo) + 1] = r
        /\ \A i \in 1..Len(todo) : <<a[i], todo[i], a[i + 1]>> \in M

PlainMoves == {m \in Stage \X Plain \X Stage : Leads(m[1], m[2], m[3])}

Over(r) == r.hold = 0 /\ r.own = Null /\ r.cs = {} /\ r.flash = "free"

\* The card may have a step repeated, or the call ended, where it is asked.
AskMoves ==
    {m \in Stage \X Answers \X Stage :
        /\ m[3] = m[1] /\ Path(PlainMoves, m[1], m[2].again, m[1])
        /\ \E r \in Stage : Over(r) /\ Path(PlainMoves, m[1], m[2].rest, r)}
AllMoves == PlainMoves \cup AskMoves

LEMMA PathOne ==
    ASSUME NEW M, NEW s \in Stage, NEW r \in Stage, NEW x, <<s, x, r>> \in M
    PROVE  Path(M, s, <<x>>, r)
<1> DEFINE a == [i \in 1..2 |-> IF i = 1 THEN s ELSE r]
<1>1. a \in [1..2 -> Stage] /\ a[1] = s /\ a[2] = r
  OBVIOUS
<1>2. Len(<<x>>) = 1 /\ <<x>>[1] = x
  OBVIOUS
<1> HIDE DEF a
<1>3. \A i \in 1..Len(<<x>>) : <<a[i], <<x>>[i], a[i + 1]>> \in M
  BY <1>1, <1>2
<1> QED  BY <1>1, <1>2, <1>3 DEF Path

LEMMA PathNone ==
    ASSUME NEW M, NEW s \in Stage
    PROVE  Path(M, s, <<>>, s)
<1> DEFINE a == [i \in 1..1 |-> s]
<1>1. a \in [1..1 -> Stage] /\ a[1] = s /\ Len(<<>>) = 0
  OBVIOUS
<1> HIDE DEF a
<1> QED  BY <1>1 DEF Path

\* One path after the other.
LEMMA PathThen ==
    ASSUME NEW M, NEW X, NEW p \in Seq(X), NEW q \in Seq(X), NEW s, NEW m, NEW r,
           Path(M, s, p, m), Path(M, m, q, r)
    PROVE  Path(M, s, p \o q, r) /\ p \o q \in Seq(X)
<1>1. PICK k \in Nat, n \in Nat : k = Len(p) /\ n = Len(q)
  OBVIOUS
<1>2. PICK a \in [1..k + 1 -> Stage] :
         a[1] = s /\ a[k + 1] = m /\ \A i \in 1..k : <<a[i], p[i], a[i + 1]>> \in M
  BY <1>1 DEF Path
<1>3. PICK b \in [1..n + 1 -> Stage] :
         b[1] = m /\ b[n + 1] = r /\ \A i \in 1..n : <<b[i], q[i], b[i + 1]>> \in M
  BY <1>1 DEF Path
<1>4. PICK u \in Seq(X) : u = p \o q
  <2>1. p \o q \in Seq(X)
    OBVIOUS
  <2> QED  BY <2>1
<1>5. Len(u) = k + n /\ (\A i \in 1..k : u[i] = p[i]) /\ \A i \in 1..n : u[k + i] = q[i]
  BY <1>1, <1>4
<1> DEFINE c == [i \in 1..k + n + 1 |-> IF i <= k THEN a[i] ELSE b[i - k]]
<1>6. c \in [1..k + n + 1 -> Stage]
  <2>1. \A i \in 1..k + n + 1 : i <= k => i \in 1..k + 1
    BY <1>1
  <2>2. \A i \in 1..k + n + 1 : ~(i <= k) => i - k \in 1..n + 1
    BY <1>1
  <2> QED  BY <1>2, <1>3, <2>1, <2>2
<1>7. (\A i \in 1..k + 1 : c[i] = a[i]) /\ \A i \in 1..n + 1 : c[k + i] = b[i]
  <2>1. ASSUME NEW i \in 1..k + 1 PROVE c[i] = a[i]
    <3>1. CASE i <= k
      BY <1>1, <3>1
    <3>2. CASE i = k + 1
      <4>1. i \in 1..k + n + 1 /\ ~(i <= k) /\ i - k = 1
        BY <1>1, <3>2
      <4> QED  BY <1>2, <1>3, <3>2, <4>1
    <3> QED  BY <1>1, <3>1, <3>2
  <2>2. ASSUME NEW i \in 1..n + 1 PROVE c[k + i] = b[i]
    <3>1. k + i \in 1..k + n + 1 /\ ~(k + i <= k) /\ (k + i) - k = i
      BY <1>1
    <3> QED  BY <3>1
  <2> QED  BY <2>1, <2>2
<1> HIDE DEF c
<1>8. c[1] = s /\ c[k + n + 1] = r
  <2>1. 1 \in 1..k + 1 /\ n + 1 \in 1..n + 1 /\ k + (n + 1) = k + n + 1
    BY <1>1
  <2> QED  BY <1>2, <1>3, <1>7, <2>1
<1>9. ASSUME NEW i \in 1..k + n PROVE <<c[i], u[i], c[i + 1]>> \in M
  <2>1. CASE i <= k
    <3>1. i \in 1..k /\ i \in 1..k + 1 /\ i + 1 \in 1..k + 1
      BY <1>1, <2>1
    <3>2. c[i] = a[i] /\ c[i + 1] = a[i + 1] /\ u[i] = p[i]
      BY <1>5, <1>7, <3>1
    <3> QED  BY <1>2, <3>1, <3>2
  <2>2. CASE ~(i <= k)
    <3>1. PICK j \in 1..n : i = k + j
      <4>1. i - k \in 1..n /\ i = k + (i - k)
        BY <1>1, <2>2
      <4> QED  BY <4>1
    <3>2. j \in 1..n + 1 /\ j + 1 \in 1..n + 1 /\ i + 1 = k + (j + 1)
      BY <1>1, <3>1
    <3>3. c[i] = b[j] /\ c[i + 1] = b[j + 1] /\ u[i] = q[j]
      BY <1>5, <1>7, <3>1, <3>2
    <3> QED  BY <1>3, <3>1, <3>3
  <2> QED  BY <2>1, <2>2
<1>10. Path(M, s, u, r)
  BY <1>5, <1>6, <1>8, <1>9 DEF Path
<1> QED  BY <1>4, <1>10

\* What is left of a path after its first step.
LEMMA PathTail ==
    ASSUME NEW M, NEW X, NEW p \in Seq(X), p # <<>>, NEW s, NEW r, Path(M, s, p, r)
    PROVE  /\ Tail(p) \in Seq(X) /\ Head(p) \in X
           /\ \E m \in Stage : <<s, Head(p), m>> \in M /\ Path(M, m, Tail(p), r)
<1>1. PICK n \in Nat : Len(p) = n + 1
  <2>1. Len(p) \in Nat /\ Len(p) # 0
    OBVIOUS
  <2>2. Len(p) - 1 \in Nat /\ Len(p) = (Len(p) - 1) + 1
    BY <2>1
  <2> QED  BY <2>2
<1>2. PICK a \in [1..(n + 1) + 1 -> Stage] :
         a[1] = s /\ a[(n + 1) + 1] = r /\ \A i \in 1..n + 1 : <<a[i], p[i], a[i + 1]>> \in M
  BY <1>1 DEF Path
<1>3. PICK u \in Seq(X) : u = Tail(p)
  <2>1. Tail(p) \in Seq(X)
    OBVIOUS
  <2> QED  BY <2>1
<1>4. Len(u) = n /\ (\A i \in 1..n : u[i] = p[i + 1]) /\ Head(p) = p[1]
  BY <1>1, <1>3
<1> DEFINE b == [i \in 1..n + 1 |-> a[i + 1]]
<1>5. b \in [1..n + 1 -> Stage]
  <2>1. \A i \in 1..n + 1 : i + 1 \in 1..(n + 1) + 1
    BY <1>1
  <2> QED  BY <1>2, <2>1
<1>6. b[1] = a[2] /\ b[n + 1] = r /\ \A i \in 1..n : b[i] = a[i + 1] /\ b[i + 1] = a[(i + 1) + 1]
  <2>1. 1 \in 1..n + 1 /\ n + 1 \in 1..n + 1 /\ \A i \in 1..n : i \in 1..n + 1 /\ i + 1 \in 1..n + 1
    BY <1>1
  <2> QED  BY <1>2, <2>1
<1> HIDE DEF b
<1>7. ASSUME NEW i \in 1..n PROVE <<b[i], u[i], b[i + 1]>> \in M
  <2>1. i + 1 \in 1..n + 1
    BY <1>1
  <2> QED  BY <1>2, <1>4, <1>6, <2>1
<1>8. Path(M, a[2], u, r)
  BY <1>4, <1>5, <1>6, <1>7 DEF Path
<1>9. <<s, p[1], a[2]>> \in M /\ a[2] \in Stage
  <2>1. 1 \in 1..n + 1 /\ 2 \in 1..(n + 1) + 1 /\ 1 + 1 = 2
    BY <1>1
  <2> QED  BY <1>2, <2>1
<1>10. p[1] \in X
  BY <1>1
<1> QED  BY <1>3, <1>4, <1>8, <1>9, <1>10

LEMMA PathMore ==
    ASSUME NEW M, NEW N, M \subseteq N, NEW s, NEW p, NEW r, Path(M, s, p, r)
    PROVE  Path(N, s, p, r)
BY DEF Path

LEMMA PathFour ==
    ASSUME NEW M, NEW s1 \in Stage, NEW s2 \in Stage, NEW s3 \in Stage, NEW s4 \in Stage, NEW s5 \in Stage,
           NEW x1, NEW x2, NEW x3, NEW x4, <<s1, x1, s2>> \in M, <<s2, x2, s3>> \in M,
           <<s3, x3, s4>> \in M, <<s4, x4, s5>> \in M
    PROVE  Path(M, s1, <<x1, x2, x3, x4>>, s5)
<1> DEFINE a == [i \in 1..5 |-> CASE i = 1 -> s1 [] i = 2 -> s2 [] i = 3 -> s3 [] i = 4 -> s4 [] OTHER -> s5]
           p == <<x1, x2, x3, x4>>
<1>1. a \in [1..5 -> Stage] /\ a[1] = s1 /\ a[2] = s2 /\ a[3] = s3 /\ a[4] = s4 /\ a[5] = s5
  OBVIOUS
<1>2. Len(p) = 4 /\ p[1] = x1 /\ p[2] = x2 /\ p[3] = x3 /\ p[4] = x4
  OBVIOUS
<1> HIDE DEF a, p
<1>3. \A i \in 1..Len(p) : <<a[i], p[i], a[i + 1]>> \in M
  <2>1. \A i \in 1..4 : i = 1 \/ i = 2 \/ i = 3 \/ i = 4
    OBVIOUS
  <2>2. 1 + 1 = 2 /\ 2 + 1 = 3 /\ 3 + 1 = 4 /\ 4 + 1 = 5
    OBVIOUS
  <2> QED  BY <1>1, <1>2, <2>1, <2>2
<1>4. Path(M, s1, p, s5)
  <2>1. Len(p) + 1 = 5
    BY <1>2
  <2> QED  BY <1>1, <1>3, <2>1 DEF Path
<1> QED  BY <1>4 DEF p

\* What FlattenSeq computes.
Flattens(ps, h, m) == h = [i \in 1..m |-> IF i = 1 THEN ps[i] ELSE h[i - 1] \o ps[i]]
CanFlatten(ps, m) == \E h : Flattens(ps, h, m)

\* The same path any number of times.
LEMMA PathAgain ==
    ASSUME NEW M, NEW X, NEW p \in Seq(X), NEW s, Path(M, s, p, s), NEW n \in Nat \ {0}
    PROVE  /\ FlattenSeq([i \in 1..n |-> p]) \in Seq(X)
           /\ Path(M, s, FlattenSeq([i \in 1..n |-> p]), s)
<1> DEFINE ps == [i \in 1..n |-> p]
           f == CHOOSE h : h = [i \in 1..Len(ps) |-> IF i = 1 THEN ps[i] ELSE h[i - 1] \o ps[i]]
<1>1. ps \in Seq(Seq(X)) /\ Len(ps) = n /\ \A i \in 1..n : ps[i] = p
  OBVIOUS
<1>2. FlattenSeq(ps) = f[n]
  BY <1>1 DEF FlattenSeq
<1> HIDE DEF ps
<1>3. \A m \in Nat : m <= n => CanFlatten(ps, m)
  <2> DEFINE T == {m \in Nat : m <= n => CanFlatten(ps, m)}
  <2>1. 0 \in T
    <3>1. Flattens(ps, [i \in 1..0 |-> p], 0)
      BY DEF Flattens
    <3> QED  BY <3>1 DEF CanFlatten
  <2>2. ASSUME NEW m \in Nat, m \in T PROVE m + 1 \in T
    <3> SUFFICES ASSUME m + 1 <= n PROVE CanFlatten(ps, m + 1)
      OBVIOUS
    <3>0. CanFlatten(ps, m)
      BY <2>2
    <3>1. PICK h : Flattens(ps, h, m)
      BY <3>0 DEF CanFlatten
    <3>2. \A i \in 1..m : h[i] = IF i = 1 THEN ps[i] ELSE h[i - 1] \o ps[i]
      BY <3>1 DEF Flattens
    <3>3. PICK last : last = IF m + 1 = 1 THEN ps[m + 1] ELSE h[m] \o ps[m + 1]
      OBVIOUS
    <3> DEFINE g == [i \in 1..m + 1 |-> IF i <= m THEN h[i] ELSE last]
    <3>4. (\A i \in 1..m : g[i] = h[i]) /\ g[m + 1] = last
      <4>1. m + 1 \in 1..m + 1 /\ ~(m + 1 <= m) /\ \A i \in 1..m : i \in 1..m + 1 /\ i <= m
        OBVIOUS
      <4> QED  BY <4>1
    <3>5. g = [i \in 1..m + 1 |-> g[i]]
      OBVIOUS
    <3> HIDE DEF g
    <3>6. ASSUME NEW i \in 1..m + 1 PROVE g[i] = IF i = 1 THEN ps[i] ELSE g[i - 1] \o ps[i]
      <4>1. CASE i = m + 1
        <5>1. i # 1 => m \in 1..m /\ i - 1 = m
          BY <4>1
        <5> QED  BY <3>3, <3>4, <4>1, <5>1
      <4>2. CASE i # m + 1
        <5>1. i \in 1..m /\ (i # 1 => i - 1 \in 1..m)
          BY <4>2
        <5> QED  BY <3>2, <3>4, <5>1
      <4> QED  BY <4>1, <4>2
    <3>7. Flattens(ps, g, m + 1)
      BY <3>5, <3>6 DEF Flattens
    <3> QED  BY <3>7 DEF CanFlatten
  <2>3. Nat \subseteq T
    BY <2>1, <2>2, SetInduction, Zenon
  <2> QED  BY <2>3
<1>4. f = [i \in 1..n |-> IF i = 1 THEN ps[i] ELSE f[i - 1] \o ps[i]]
  <2>1. CanFlatten(ps, n)
    BY <1>3
  <2>2. \E h : h = [i \in 1..Len(ps) |-> IF i = 1 THEN ps[i] ELSE h[i - 1] \o ps[i]]
    BY <1>1, <2>1 DEF CanFlatten, Flattens
  <2> QED  BY <1>1, <2>2, Zenon
<1> HIDE DEF f
<1>5. \A i \in 1..n : f[i] = IF i = 1 THEN p ELSE f[i - 1] \o p
  BY <1>1, <1>4
<1>6. \A m \in Nat : m + 1 <= n => f[m + 1] \in Seq(X) /\ Path(M, s, f[m + 1], s)
  <2> DEFINE T == {m \in Nat : m + 1 <= n => f[m + 1] \in Seq(X) /\ Path(M, s, f[m + 1], s)}
  <2>1. 0 \in T
    <3>1. 0 + 1 = 1 /\ 1 \in 1..n
      OBVIOUS
    <3> QED  BY <1>5, <3>1
  <2>2. ASSUME NEW m \in Nat, m \in T PROVE m + 1 \in T
    <3> SUFFICES ASSUME (m + 1) + 1 <= n
                 PROVE  f[(m + 1) + 1] \in Seq(X) /\ Path(M, s, f[(m + 1) + 1], s)
      OBVIOUS
    <3>1. m + 1 <= n /\ (m + 1) + 1 \in 1..n /\ (m + 1) + 1 # 1 /\ ((m + 1) + 1) - 1 = m + 1
      OBVIOUS
    <3>2. PICK q \in Seq(X) : q = f[m + 1] /\ Path(M, s, q, s)
      BY <2>2, <3>1
    <3>3. f[(m + 1) + 1] = q \o p
      BY <1>5, <3>1, <3>2
    <3> QED  BY <3>2, <3>3, PathThen
  <2>3. Nat \subseteq T
    BY <2>1, <2>2, SetInduction, Zenon
  <2> QED  BY <2>3
<1>7. f[n] \in Seq(X) /\ Path(M, s, f[n], s)
  <2>1. n - 1 \in Nat /\ (n - 1) + 1 = n
    OBVIOUS
  <2> QED  BY <1>6, <2>1
<1> QED  BY <1>2, <1>7 DEF ps

LEMMA StepsPlain ==
    /\ Lock \in Plain /\ Unlock \in Plain /\ flash_lock \in Plain /\ flash_unlock \in Plain
    /\ [do |-> "if_busy"] \in Plain
    /\ \A d \in SpiDevice : Own(d) \in Plain /\ [do |-> "configure", dev |-> d] \in Plain
                            /\ [do |-> "register", dev |-> d] \in Plain
    /\ \A d \in SpiDevice : \A cfg \in {FlashConfig, SlowConfig, FastConfig} :
          [do |-> "set", dev |-> d, cfg |-> cfg] \in Plain
    /\ \A d \in SpiDevice : \A take, release \in BOOLEAN : \A data \in SpiData :
          Xfer(d, take, release, data) \in Plain
    /\ Flash \in SpiDevice /\ Card \in SpiDevice /\ Flash # Card
BY DEF Plain, Messages, Lock, Unlock, flash_lock, flash_unlock, Own, Xfer, SpiDevice, Flash, Card

LEMMA MoveIn ==
    ASSUME NEW s \in Stage, NEW x \in Plain, NEW r \in Stage, Leads(s, x, r)
    PROVE  <<s, x, r>> \in PlainMoves
BY DEF PlainMoves

LEMMA StIn ==
    ASSUME NEW hold \in 0..2, NEW own \in SpiDevice \cup {Null}, NEW cs \in SUBSET SpiDevice,
           NEW f \in {"free", "any", "read", "quiet", "wel"}, NEW set \in {"yes", "no"}
    PROVE  /\ St(hold, own, cs, f, set) \in Stage
           /\ St(hold, own, cs, f, set).hold = hold /\ St(hold, own, cs, f, set).own = own
           /\ St(hold, own, cs, f, set).cs = cs /\ St(hold, own, cs, f, set).flash = f
           /\ St(hold, own, cs, f, set).set = set
BY DEF St, Stage

LockedFlash == {"any", "read", "quiet", "wel"}
Out(f) == St(0, Null, {}, f, "yes")

LEMMA SentIn ==
    ASSUME NEW f \in LockedFlash, NEW cmd
    PROVE  Sent(f, cmd) \in LockedFlash /\ f # "free"
           /\ f \in {"free", "any", "read", "quiet", "wel"} /\ Sent(f, cmd) \in {"free", "any", "read", "quiet", "wel"}
BY DEF Sent, LockedFlash

\* rt_spi_transfer of a command to the flash.
LEMMA SendPath ==
    ASSUME NEW f \in LockedFlash, NEW cmd \in SpiData, cmd # "none", MaySend(f, cmd),
           NEW g, g = Sent(f, cmd)
    PROVE  Send(cmd) \in Seq(Plain) /\ Path(PlainMoves, Out(f), Send(cmd), Out(g))
<1> DEFINE s1 == Out(f)
           s2 == St(1, Null, {}, f, "yes")
           s3 == St(1, Flash, {}, f, "yes")
           s4 == St(1, Flash, {}, g, "yes")
           s5 == Out(g)
           x3 == Xfer(Flash, TRUE, TRUE, cmd)
<1>1. /\ Lock \in Plain /\ Own(Flash) \in Plain /\ x3 \in Plain /\ Unlock \in Plain
      /\ Flash \in SpiDevice \cup {Null}
  BY StepsPlain
<1>2. f \in {"free", "any", "read", "quiet", "wel"} /\ g \in {"free", "any", "read", "quiet", "wel"}
  BY SentIn
<1>3. s1 \in Stage /\ s2 \in Stage /\ s3 \in Stage /\ s4 \in Stage /\ s5 \in Stage
  BY <1>1, <1>2, StIn DEF Out
<1>4. <<s1, Lock, s2>> \in PlainMoves
  <2>1. Leads(s1, Lock, s2)
    BY DEF Leads, Lock, St, Out
  <2> QED  BY <1>1, <1>3, <2>1, MoveIn
<1>5. <<s2, Own(Flash), s3>> \in PlainMoves
  <2>1. Leads(s2, Own(Flash), s3)
    BY DEF Leads, Own, St
  <2> QED  BY <1>1, <1>3, <2>1, MoveIn
<1>6. <<s3, x3, s4>> \in PlainMoves
  <2>1. Leads(s3, x3, s4)
    BY SentIn DEF Leads, Xfer, St, Chosen
  <2> QED  BY <1>1, <1>3, <2>1, MoveIn
<1>7. <<s4, Unlock, s5>> \in PlainMoves
  <2>1. Leads(s4, Unlock, s5)
    BY DEF Leads, Unlock, St, Out
  <2> QED  BY <1>1, <1>3, <2>1, MoveIn
<1>8. Send(cmd) = <<Lock, Own(Flash), x3, Unlock>>
  BY DEF Send, rt_spi_transfer
<1> HIDE DEF s1, s2, s3, s4, s5, x3
<1>9. <<Lock, Own(Flash), x3, Unlock>> \in Seq(Plain)
  BY <1>1
<1>10. Path(PlainMoves, s1, <<Lock, Own(Flash), x3, Unlock>>, s5)
  BY <1>3, <1>4, <1>5, <1>6, <1>7, PathFour
<1> QED  BY <1>8, <1>9, <1>10 DEF s1, s5

LEMMA PathFive ==
    ASSUME NEW M, NEW X, NEW s1 \in Stage, NEW s2 \in Stage, NEW s3 \in Stage, NEW s4 \in Stage,
           NEW s5 \in Stage, NEW s6 \in Stage,
           NEW x1 \in X, NEW x2 \in X, NEW x3 \in X, NEW x4 \in X, NEW x5 \in X,
           <<s1, x1, s2>> \in M, <<s2, x2, s3>> \in M, <<s3, x3, s4>> \in M, <<s4, x4, s5>> \in M,
           <<s5, x5, s6>> \in M
    PROVE  <<x1, x2, x3, x4, x5>> \in Seq(X) /\ Path(M, s1, <<x1, x2, x3, x4, x5>>, s6)
<1> DEFINE a == [i \in 1..6 |-> CASE i = 1 -> s1 [] i = 2 -> s2 [] i = 3 -> s3 [] i = 4 -> s4
                                [] i = 5 -> s5 [] OTHER -> s6]
           p == <<x1, x2, x3, x4, x5>>
<1>1. a \in [1..6 -> Stage] /\ a[1] = s1 /\ a[2] = s2 /\ a[3] = s3 /\ a[4] = s4 /\ a[5] = s5 /\ a[6] = s6
  OBVIOUS
<1>2. p \in Seq(X) /\ Len(p) = 5 /\ p[1] = x1 /\ p[2] = x2 /\ p[3] = x3 /\ p[4] = x4 /\ p[5] = x5
  OBVIOUS
<1> HIDE DEF a, p
<1>3. \A i \in 1..Len(p) : <<a[i], p[i], a[i + 1]>> \in M
  <2>1. \A i \in 1..5 : i = 1 \/ i = 2 \/ i = 3 \/ i = 4 \/ i = 5
    OBVIOUS
  <2>2. 1 + 1 = 2 /\ 2 + 1 = 3 /\ 3 + 1 = 4 /\ 4 + 1 = 5 /\ 5 + 1 = 6
    OBVIOUS
  <2> QED  BY <1>1, <1>2, <2>1, <2>2
<1>4. Path(M, s1, p, s6)
  <2>1. Len(p) + 1 = 6
    BY <1>2
  <2> QED  BY <1>1, <1>3, <2>1 DEF Path
<1> QED  BY <1>2, <1>4 DEF p

\* A two-part message to the flash.
LEMMA SendThenPath ==
    ASSUME NEW f \in LockedFlash, NEW cmd \in SpiData, cmd # "none", MaySend(f, cmd),
           NEW g, g = Sent(f, cmd)
    PROVE  /\ rt_spi_send_then(Flash, cmd) \in Seq(Plain)
           /\ Path(PlainMoves, Out(f), rt_spi_send_then(Flash, cmd), Out(g))
<1> DEFINE s1 == Out(f)
           s2 == St(1, Null, {}, f, "yes")
           s3 == St(1, Flash, {}, f, "yes")
           s4 == St(1, Flash, {Flash}, f, "yes")
           s5 == St(1, Flash, {}, g, "yes")
           s6 == Out(g)
           x3 == Xfer(Flash, TRUE, FALSE, "command")
           x4 == Xfer(Flash, FALSE, TRUE, cmd)
<1>1. /\ Lock \in Plain /\ Own(Flash) \in Plain /\ x3 \in Plain /\ x4 \in Plain /\ Unlock \in Plain
      /\ Flash \in SpiDevice \cup {Null} /\ {Flash} \in SUBSET SpiDevice
  <2>1. "command" \in SpiData /\ Flash \in SpiDevice
    BY StepsPlain DEF SpiData
  <2> QED  BY <2>1, StepsPlain
<1>2. f \in {"free", "any", "read", "quiet", "wel"} /\ g \in {"free", "any", "read", "quiet", "wel"}
  BY SentIn
<1>3. s1 \in Stage /\ s2 \in Stage /\ s3 \in Stage /\ s4 \in Stage /\ s5 \in Stage /\ s6 \in Stage
  BY <1>1, <1>2, StIn DEF Out
<1>4. <<s1, Lock, s2>> \in PlainMoves
  <2>1. Leads(s1, Lock, s2)
    BY DEF Leads, Lock, St, Out
  <2> QED  BY <1>1, <1>3, <2>1, MoveIn
<1>5. <<s2, Own(Flash), s3>> \in PlainMoves
  <2>1. Leads(s2, Own(Flash), s3)
    BY DEF Leads, Own, St
  <2> QED  BY <1>1, <1>3, <2>1, MoveIn
<1>6. <<s3, x3, s4>> \in PlainMoves
  <2>1. Leads(s3, x3, s4)
    BY SentIn DEF Leads, Xfer, St, Chosen
  <2> QED  BY <1>1, <1>3, <2>1, MoveIn
<1>7. <<s4, x4, s5>> \in PlainMoves
  <2>1. Leads(s4, x4, s5)
    BY SentIn DEF Leads, Xfer, St, Chosen
  <2> QED  BY <1>1, <1>3, <2>1, MoveIn
<1>8. <<s5, Unlock, s6>> \in PlainMoves
  <2>1. Leads(s5, Unlock, s6)
    BY DEF Leads, Unlock, St, Out
  <2> QED  BY <1>1, <1>3, <2>1, MoveIn
<1>9. rt_spi_send_then(Flash, cmd) = <<Lock, Own(Flash), x3, x4, Unlock>>
  BY DEF rt_spi_send_then
<1> HIDE DEF s1, s2, s3, s4, s5, s6, x3, x4
<1>10. /\ <<Lock, Own(Flash), x3, x4, Unlock>> \in Seq(Plain)
       /\ Path(PlainMoves, s1, <<Lock, Own(Flash), x3, x4, Unlock>>, s6)
  BY <1>1, <1>3, <1>4, <1>5, <1>6, <1>7, <1>8, PathFive
<1> QED  BY <1>9, <1>10 DEF s1, s6

\* A new configuration, also by who has the bus.
LEMMA ConfigurePath ==
    ASSUME NEW hold \in {0, 1}, NEW own \in SpiDevice \cup {Null}, NEW cs \in SUBSET SpiDevice,
           hold = 0 => own = Null /\ cs = {},
           NEW set \in {"yes", "no"}, NEW d \in SpiDevice,
           NEW cfg \in {FlashConfig, SlowConfig, FastConfig}, cfg.mode = ModeOf(d),
           NEW also, also = IF d = Flash THEN "yes" ELSE set
    PROVE  /\ rt_spi_configure(d, cfg) \in Seq(Plain)
           /\ Path(PlainMoves, St(hold, own, cs, "free", set), rt_spi_configure(d, cfg),
                   St(hold, own, cs, "free", also))
<1> DEFINE s1 == St(hold, own, cs, "free", set)
           s2 == St(hold, own, cs, "free", also)
           s3 == St(hold + 1, own, cs, "free", also)
           x1 == [do |-> "set", dev |-> d, cfg |-> cfg]
           x3 == [do |-> "configure", dev |-> d]
<1>1. Lock \in Plain /\ x1 \in Plain /\ x3 \in Plain /\ Unlock \in Plain
  BY StepsPlain
<1>2. hold \in 0..2 /\ hold + 1 \in 0..2 /\ also \in {"yes", "no"}
  OBVIOUS
<1>3. s1 \in Stage /\ s2 \in Stage /\ s3 \in Stage
  <2>1. ASSUME NEW n \in 0..2, NEW e \in {"yes", "no"} PROVE St(n, own, cs, "free", e) \in Stage
    BY DEF St, Stage
  <2> QED  BY <1>2, <2>1
<1>4. <<s1, x1, s2>> \in PlainMoves
  <2>1. Leads(s1, x1, s2)
    BY DEF Leads, St
  <2> QED  BY <1>1, <1>3, <2>1, MoveIn
<1>5. <<s2, Lock, s3>> \in PlainMoves
  <2>1. Leads(s2, Lock, s3)
    BY DEF Leads, Lock, St
  <2> QED  BY <1>1, <1>3, <2>1, MoveIn
<1>6. <<s3, x3, s3>> \in PlainMoves
  <2>1. Leads(s3, x3, s3)
    BY DEF Leads
  <2> QED  BY <1>1, <1>3, <2>1, MoveIn
<1>7. <<s3, Unlock, s2>> \in PlainMoves
  <2>1. Leads(s3, Unlock, s2)
    BY DEF Leads, Unlock, St
  <2> QED  BY <1>1, <1>3, <2>1, MoveIn
<1>8. rt_spi_configure(d, cfg) = <<x1, Lock, x3, Unlock>>
  BY DEF rt_spi_configure
<1> HIDE DEF s1, s2, s3, x1, x3
<1>9. <<x1, Lock, x3, Unlock>> \in Seq(Plain)
  BY <1>1
<1>10. Path(PlainMoves, s1, <<x1, Lock, x3, Unlock>>, s2)
  BY <1>3, <1>4, <1>5, <1>6, <1>7, PathFour
<1> QED  BY <1>8, <1>9, <1>10 DEF s1, s2

\* One step alone.
LEMMA StepPath ==
    ASSUME NEW s \in Stage, NEW x \in Plain, NEW r \in Stage, Leads(s, x, r)
    PROVE  <<x>> \in Seq(Plain) /\ Path(PlainMoves, s, <<x>>, r)
<1>1. <<s, x, r>> \in PlainMoves
  BY MoveIn
<1> QED  BY <1>1, PathOne

LEMMA FlashSteps ==
    /\ \A f \in {"free", "any", "read", "quiet", "wel"} : Out(f) \in Stage
    /\ <<flash_lock>> \in Seq(Plain) /\ Path(PlainMoves, Out("free"), <<flash_lock>>, Out("quiet"))
    /\ <<flash_unlock>> \in Seq(Plain) /\ Path(PlainMoves, Out("quiet"), <<flash_unlock>>, Out("free"))
    /\ \A f \in LockedFlash :
          w25qxx_wait_busy \in Seq(Plain) /\ Path(PlainMoves, Out(f), w25qxx_wait_busy, Out("quiet"))
<1>1. \A f \in {"free", "any", "read", "quiet", "wel"} : Out(f) \in Stage
  <2>1. 0 \in 0..2 /\ Null \in SpiDevice \cup {Null} /\ {} \in SUBSET SpiDevice /\ "yes" \in {"yes", "no"}
    OBVIOUS
  <2> QED  BY <2>1, StIn DEF Out
<1>2. Leads(Out("free"), flash_lock, Out("quiet"))
  BY DEF Leads, flash_lock, Out, St
<1>3. Leads(Out("quiet"), flash_unlock, Out("free"))
  BY DEF Leads, flash_unlock, Out, St
<1>4. Leads(Out("read"), [do |-> "if_busy"], Out("quiet"))
  BY DEF Leads, Out, St
<1>5. ASSUME NEW f \in LockedFlash
      PROVE  w25qxx_wait_busy \in Seq(Plain) /\ Path(PlainMoves, Out(f), w25qxx_wait_busy, Out("quiet"))
  <2>1. MaySend(f, "RDSR") /\ "read" = Sent(f, "RDSR") /\ "RDSR" \in SpiData
    <3>1. f # "free"
      BY SentIn
    <3>2. "RDSR" \notin {"ERASE", "PP", "WRSR"} /\ "RDSR" \notin {"READ", "ID", "WREN", "WRDI"}
      OBVIOUS
    <3>3. "RDSR" \in SpiData /\ Sent(f, "RDSR") = "read"
      BY DEF Sent, SpiData
    <3> QED  BY <3>1, <3>2, <3>3 DEF MaySend
  <2>2. /\ rt_spi_send_then(Flash, "RDSR") \in Seq(Plain)
        /\ Path(PlainMoves, Out(f), rt_spi_send_then(Flash, "RDSR"), Out("read"))
    BY <2>1, SendThenPath
  <2>3. <<[do |-> "if_busy"]>> \in Seq(Plain) /\ Path(PlainMoves, Out("read"), <<[do |-> "if_busy"]>>, Out("quiet"))
    BY <1>1, <1>4, StepsPlain, StepPath
  <2> QED  BY <2>2, <2>3, PathThen DEF w25qxx_wait_busy
<1> QED  BY <1>1, <1>2, <1>3, <1>5, StepsPlain, StepPath

Runs(p, s, r) == p \in Seq(Plain) /\ Path(PlainMoves, s, p, r)

LEMMA RunsThen ==
    ASSUME NEW p, NEW q, NEW s, NEW m, NEW r, Runs(p, s, m), Runs(q, m, r)
    PROVE  Runs(p \o q, s, r)
BY PathThen DEF Runs

LEMMA FlashRuns ==
    /\ Runs(<<flash_lock>>, Out("free"), Out("quiet"))
    /\ Runs(<<flash_unlock>>, Out("quiet"), Out("free"))
    /\ \A f \in LockedFlash : Runs(w25qxx_wait_busy, Out(f), Out("quiet"))
    /\ Runs(Send("reset"), Out("quiet"), Out("quiet")) /\ Runs(Send("WRDI"), Out("quiet"), Out("quiet"))
    /\ Runs(Send("WREN"), Out("quiet"), Out("wel"))
    /\ Runs(Send("WRSR"), Out("wel"), Out("any")) /\ Runs(Send("ERASE"), Out("wel"), Out("any"))
    /\ Runs(rt_spi_send_then(Flash, "ID"), Out("quiet"), Out("quiet"))
    /\ Runs(rt_spi_send_then(Flash, "READ"), Out("quiet"), Out("quiet"))
    /\ Runs(rt_spi_send_then(Flash, "PP"), Out("wel"), Out("any"))
    /\ "any" \in LockedFlash /\ "quiet" \in LockedFlash
<1>0. "any" \in LockedFlash /\ "quiet" \in LockedFlash /\ "wel" \in LockedFlash
  BY DEF LockedFlash
<1>1. ASSUME NEW f \in LockedFlash, NEW cmd \in SpiData, cmd # "none", MaySend(f, cmd), NEW g, g = Sent(f, cmd)
      PROVE  Runs(Send(cmd), Out(f), Out(g)) /\ Runs(rt_spi_send_then(Flash, cmd), Out(f), Out(g))
  BY <1>1, SendPath, SendThenPath DEF Runs
<1>2. /\ MaySend("quiet", "reset") /\ MaySend("quiet", "WRDI") /\ MaySend("quiet", "WREN")
      /\ MaySend("wel", "WRSR") /\ MaySend("wel", "ERASE") /\ MaySend("wel", "PP")
      /\ MaySend("quiet", "ID") /\ MaySend("quiet", "READ")
  BY DEF MaySend
<1>3. /\ Sent("quiet", "reset") = "quiet" /\ Sent("quiet", "WRDI") = "quiet" /\ Sent("quiet", "WREN") = "wel"
      /\ Sent("wel", "WRSR") = "any" /\ Sent("wel", "ERASE") = "any" /\ Sent("wel", "PP") = "any"
      /\ Sent("quiet", "ID") = "quiet" /\ Sent("quiet", "READ") = "quiet"
  BY DEF Sent
<1>4. \A cmd \in {"reset", "WRDI", "WREN", "WRSR", "ERASE", "PP", "ID", "READ"} : cmd \in SpiData /\ cmd # "none"
  BY DEF SpiData
<1>5. Runs(Send("reset"), Out("quiet"), Out("quiet")) /\ Runs(Send("WRDI"), Out("quiet"), Out("quiet"))
  BY <1>0, <1>1, <1>2, <1>3, <1>4
<1>6. Runs(Send("WREN"), Out("quiet"), Out("wel"))
  BY <1>0, <1>1, <1>2, <1>3, <1>4
<1>7. Runs(Send("WRSR"), Out("wel"), Out("any")) /\ Runs(Send("ERASE"), Out("wel"), Out("any"))
  BY <1>0, <1>1, <1>2, <1>3, <1>4
<1>8. /\ Runs(rt_spi_send_then(Flash, "ID"), Out("quiet"), Out("quiet"))
      /\ Runs(rt_spi_send_then(Flash, "READ"), Out("quiet"), Out("quiet"))
  BY <1>0, <1>1, <1>2, <1>3, <1>4
<1>9. Runs(rt_spi_send_then(Flash, "PP"), Out("wel"), Out("any"))
  BY <1>0, <1>1, <1>2, <1>3, <1>4
<1>10. /\ Runs(<<flash_lock>>, Out("free"), Out("quiet"))
       /\ Runs(<<flash_unlock>>, Out("quiet"), Out("free"))
       /\ \A f \in LockedFlash : Runs(w25qxx_wait_busy, Out(f), Out("quiet"))
  BY FlashSteps DEF Runs
<1> QED  BY <1>0, <1>5, <1>6, <1>7, <1>8, <1>9, <1>10

\* Two steps.
LEMMA TwoSteps == ASSUME NEW X, NEW x \in X, NEW y \in X PROVE <<x>> \o <<y>> = <<x, y>>
<1>1. PICK p : p = <<x>> \o <<y>>
  OBVIOUS
<1>2. PICK q : q = <<x, y>>
  OBVIOUS
<1>3. <<x>> \in Seq(X) /\ <<y>> \in Seq(X) /\ Len(<<x>>) = 1 /\ Len(<<y>>) = 1
  OBVIOUS
<1>4. p \in Seq(X) /\ Len(p) = 2 /\ p[1] = x /\ p[2] = y
  BY <1>1, <1>3
<1>5. q \in Seq(X) /\ Len(q) = 2 /\ q[1] = x /\ q[2] = y
  BY <1>2
<1>6. Len(p) = Len(q) /\ \A i \in 1..Len(p) : p[i] = q[i]
  <2>1. \A i \in 1..2 : i = 1 \/ i = 2
    OBVIOUS
  <2> QED  BY <1>4, <1>5, <2>1
<1>7. p = q
  BY <1>4, <1>5, <1>6, SeqEqual
<1> QED  BY <1>1, <1>2, <1>7

\* w25qxx_init
LEMMA InitRuns == Runs(w25qxx_init, St(0, Null, {}, "free", "no"), Out("free"))
<1> DEFINE p1 == rt_spi_configure(Flash, FlashConfig)
           p2 == p1 \o <<flash_lock>>
           p3 == p2 \o Send("reset")
           p4 == p3 \o Send("WRDI")
           p5 == p4 \o rt_spi_send_then(Flash, "ID")
           last == [do |-> "register", dev |-> Flash]
           s0 == St(0, Null, {}, "free", "no")
<1>1. Runs(p1, s0, Out("free"))
  <2>1. 0 \in {0, 1} /\ Null \in SpiDevice \cup {Null} /\ {} \in SUBSET SpiDevice /\ "no" \in {"yes", "no"}
        /\ FlashConfig \in {FlashConfig, SlowConfig, FastConfig}
    OBVIOUS
  <2>2. Flash \in SpiDevice /\ FlashConfig.mode = ModeOf(Flash)
    BY StepsPlain DEF FlashConfig, ModeOf
  <2>3. "yes" = IF Flash = Flash THEN "yes" ELSE "no"
    OBVIOUS
  <2> QED  BY <2>1, <2>2, <2>3, ConfigurePath DEF Runs, Out
<1>6. Runs(<<flash_unlock, last>>, Out("quiet"), Out("free"))
  <2>1. Leads(Out("free"), last, Out("free"))
    BY DEF Leads, Out, St
  <2>2. Out("free") \in Stage /\ last \in Plain
    BY FlashSteps, StepsPlain
  <2>3. Runs(<<last>>, Out("free"), Out("free"))
    BY <2>1, <2>2, StepPath DEF Runs
  <2>4. Runs(<<flash_unlock>> \o <<last>>, Out("quiet"), Out("free"))
    BY <2>3, FlashRuns, RunsThen
  <2>5. <<flash_unlock>> \o <<last>> = <<flash_unlock, last>>
    BY <2>2, StepsPlain, TwoSteps
  <2> QED  BY <2>4, <2>5
<1>7. w25qxx_init = p5 \o <<flash_unlock, last>>
  BY DEF w25qxx_init
<1> HIDE DEF s0, last, p1
<1>2. Runs(p2, s0, Out("quiet"))
  BY <1>1, FlashRuns, RunsThen
<1> HIDE DEF p2
<1>3. Runs(p3, s0, Out("quiet"))
  BY <1>2, FlashRuns, RunsThen
<1> HIDE DEF p3
<1>4. Runs(p4, s0, Out("quiet"))
  BY <1>3, FlashRuns, RunsThen
<1> HIDE DEF p4
<1>5. Runs(p5, s0, Out("quiet"))
  BY <1>4, FlashRuns, RunsThen
<1> HIDE DEF p5
<1>8. Runs(p5 \o <<flash_unlock, last>>, s0, Out("free"))
  BY <1>5, <1>6, RunsThen
<1> QED  BY <1>7, <1>8 DEF s0

\* w25qxx_flash_open
LEMMA OpenRuns == Runs(w25qxx_flash_open, Out("free"), Out("free"))
<1> DEFINE p1 == <<flash_lock>>
           p2 == p1 \o Send("WREN")
           p3 == p2 \o Send("WRSR")
           p4 == p3 \o w25qxx_wait_busy
<1>1. w25qxx_flash_open = p4 \o <<flash_unlock>> /\ Runs(p1, Out("free"), Out("quiet"))
  BY FlashRuns DEF w25qxx_flash_open
<1> HIDE DEF p1
<1>2. Runs(p2, Out("free"), Out("wel"))
  BY <1>1, FlashRuns, RunsThen
<1> HIDE DEF p2
<1>3. Runs(p3, Out("free"), Out("any"))
  BY <1>2, FlashRuns, RunsThen
<1> HIDE DEF p3
<1>4. Runs(p4, Out("free"), Out("quiet"))
  BY <1>3, FlashRuns, RunsThen
<1> HIDE DEF p4
<1>5. Runs(p4 \o <<flash_unlock>>, Out("free"), Out("free"))
  BY <1>4, FlashRuns, RunsThen
<1> QED  BY <1>1, <1>5

\* w25qxx_flash_read
LEMMA ReadRuns == Runs(w25qxx_flash_read, Out("free"), Out("free"))
<1>1. Runs(w25qxx_read, Out("quiet"), Out("quiet"))
  BY FlashRuns, RunsThen DEF w25qxx_read
<1>2. Runs(<<flash_lock>> \o w25qxx_read, Out("free"), Out("quiet"))
  BY <1>1, FlashRuns, RunsThen
<1>3. Runs((<<flash_lock>> \o w25qxx_read) \o <<flash_unlock>>, Out("free"), Out("free"))
  BY <1>2, FlashRuns, RunsThen
<1> QED  BY <1>3 DEF w25qxx_flash_read

\* w25qxx_flash_write
LEMMA WriteRuns == Runs(w25qxx_flash_write, Out("free"), Out("free"))
<1> DEFINE p1 == Send("WREN")
           p2 == p1 \o Send("ERASE")
           p3 == p2 \o w25qxx_wait_busy
           pages == FlattenSeq([i \in 1..Pages |-> PageProgram])
           p4 == p3 \o pages
           q1 == Send("WREN") \o rt_spi_send_then(Flash, "PP")
<1>1. Runs(q1, Out("quiet"), Out("any"))
  BY FlashRuns, RunsThen
<1>2. Runs(PageProgram, Out("quiet"), Out("quiet"))
  <2>1. PageProgram = q1 \o w25qxx_wait_busy
    BY DEF PageProgram
  <2> HIDE DEF q1
  <2>2. Runs(q1 \o w25qxx_wait_busy, Out("quiet"), Out("quiet"))
    BY <1>1, FlashRuns, RunsThen
  <2> QED  BY <2>1, <2>2
<1>3. Runs(pages, Out("quiet"), Out("quiet"))
  <2>1. PageProgram \in Seq(Plain) /\ Path(PlainMoves, Out("quiet"), PageProgram, Out("quiet"))
    BY <1>2 DEF Runs
  <2>2. PICK n \in Nat \ {0} : n = Pages
    BY PagesAssumption
  <2>3. PICK p \in Seq(Plain) : p = PageProgram
    BY <2>1
  <2>4. Runs(FlattenSeq([i \in 1..n |-> p]), Out("quiet"), Out("quiet"))
    BY <2>1, <2>3, PathAgain DEF Runs
  <2> QED  BY <2>2, <2>3, <2>4
<1>4. w25qxx_page_write = p4 \o Send("WRDI") /\ Runs(p1, Out("quiet"), Out("wel"))
  BY FlashRuns DEF w25qxx_page_write
<1> HIDE DEF p1, pages
<1>5. Runs(p2, Out("quiet"), Out("any"))
  BY <1>4, FlashRuns, RunsThen
<1> HIDE DEF p2
<1>6. Runs(p3, Out("quiet"), Out("quiet"))
  BY <1>5, FlashRuns, RunsThen
<1> HIDE DEF p3
<1>7. Runs(p4, Out("quiet"), Out("quiet"))
  BY <1>3, <1>6, RunsThen
<1> HIDE DEF p4
<1>8. Runs(w25qxx_page_write, Out("quiet"), Out("quiet"))
  BY <1>4, <1>7, FlashRuns, RunsThen
<1>9. Runs(<<flash_lock>> \o w25qxx_page_write, Out("free"), Out("quiet"))
  BY <1>8, FlashRuns, RunsThen
<1>10. Runs((<<flash_lock>> \o w25qxx_page_write) \o <<flash_unlock>>, Out("free"), Out("free"))
  BY <1>9, FlashRuns, RunsThen
<1> QED  BY <1>10 DEF w25qxx_flash_write

Steps == Plain \cup Answers
CallPath(p, s, r) == p \in Seq(Steps) /\ Path(AllMoves, s, p, r)

LEMMA GoesThen ==
    ASSUME NEW p, NEW q, NEW s, NEW m, NEW r, CallPath(p, s, m), CallPath(q, m, r)
    PROVE  CallPath(p \o q, s, r)
BY PathThen DEF CallPath

LEMMA RunsGoes == ASSUME NEW p, NEW s, NEW r, Runs(p, s, r) PROVE CallPath(p, s, r)
<1>1. PlainMoves \subseteq AllMoves /\ Seq(Plain) \subseteq Seq(Steps)
  BY DEF AllMoves, Steps
<1> QED  BY <1>1, PathMore DEF Runs, CallPath

LEMMA AnswerGoes ==
    ASSUME NEW again, NEW rest, NEW s \in Stage, Runs(again, s, s), NEW r \in Stage, Over(r), Runs(rest, s, r)
    PROVE  Answer(again, rest) \in Steps /\ CallPath(<<Answer(again, rest)>>, s, s)
<1>1. Answer(again, rest) \in Answers
  BY DEF Answer, Answers, Runs
<1>2. PICK x \in Answers : x = Answer(again, rest) /\ x.again = again /\ x.rest = rest
  BY <1>1 DEF Answer
<1>3. <<s, x, s>> \in AskMoves
  <2>1. Path(PlainMoves, s, x.again, s) /\ Path(PlainMoves, s, x.rest, r)
    BY <1>2 DEF Runs
  <2> QED  BY <2>1 DEF AskMoves
<1>4. x \in Steps /\ <<s, x, s>> \in AllMoves
  BY <1>3 DEF AllMoves, Steps
<1>5. <<x>> \in Seq(Steps) /\ Path(AllMoves, s, <<x>>, s)
  BY <1>4, PathOne
<1> QED  BY <1>2, <1>4, <1>5 DEF CallPath

\* The card: nothing locked, and the bus locked with the devices cs selected.
Off == St(0, Null, {}, "free", "no")
In(cs) == St(1, Card, cs, "free", "no")

LEMMA CardStages ==
    /\ Off \in Stage /\ Over(Off) /\ In({}) \in Stage /\ In({Card}) \in Stage
    /\ {} \in {{}, {Card}} /\ {Card} \in {{}, {Card}}
<1>1. 0 \in 0..2 /\ 1 \in 0..2 /\ "free" \in {"free", "any", "read", "quiet", "wel"} /\ "no" \in {"yes", "no"}
  OBVIOUS
<1>2. Null \in SpiDevice \cup {Null} /\ Card \in SpiDevice \cup {Null} /\ {} \in SUBSET SpiDevice
  BY StepsPlain
<1>3. {Card} \in SUBSET SpiDevice
  BY StepsPlain
<1>4. Off \in Stage /\ Over(Off)
  BY <1>1, <1>2, StIn DEF Off, Over
<1>5. In({}) \in Stage
  BY <1>1, <1>2, StIn DEF In
<1>6. In({Card}) \in Stage
  BY <1>1, <1>2, <1>3, StIn DEF In
<1> QED  BY <1>4, <1>5, <1>6

LEMMA CardRuns ==
    /\ Runs(MSD_take_owner, Off, In({}))
    /\ Runs(<<MSD_take_cs>>, In({}), In({Card}))
    /\ \A cs \in {{}, {Card}} :
          /\ Runs(<<MSD_release_cs>>, In(cs), In({})) /\ Runs(Exit, In(cs), Off)
          /\ \A d \in {"command", "clocks", "block"} : Runs(<<Data(d)>>, In(cs), In(cs))
          /\ Runs(_send_cmd, In(cs), In(cs))
    /\ \A cfg \in {SlowConfig, FastConfig} :
          Runs(rt_spi_configure(Card, cfg), Off, Off) /\ Runs(rt_spi_configure(Card, cfg), In({}), In({}))
    /\ Runs(<<[do |-> "register", dev |-> Card]>>, In({}), In({}))
<1>1. ASSUME NEW s \in Stage, NEW x \in Plain, NEW r \in Stage, Leads(s, x, r) PROVE Runs(<<x>>, s, r)
  BY <1>1, StepPath DEF Runs
<1>2. Runs(MSD_take_owner, Off, In({}))
  <2>1. St(1, Null, {}, "free", "no") \in Stage
    <3>1. 1 \in 0..2 /\ "free" \in {"free", "any", "read", "quiet", "wel"} /\ "no" \in {"yes", "no"}
          /\ Null \in SpiDevice \cup {Null} /\ {} \in SUBSET SpiDevice
      OBVIOUS
    <3> QED  BY <3>1, StIn
  <2>2. Leads(Off, Lock, St(1, Null, {}, "free", "no"))
    BY DEF Leads, Off, St, Lock
  <2>3. Leads(St(1, Null, {}, "free", "no"), Own(Card), In({}))
    BY StepsPlain DEF Leads, In, St, Own
  <2>4. Lock \in Plain /\ Own(Card) \in Plain
    BY StepsPlain
  <2>5. Runs(<<Lock>>, Off, St(1, Null, {}, "free", "no")) /\ Runs(<<Own(Card)>>, St(1, Null, {}, "free", "no"), In({}))
    BY <1>1, <2>1, <2>2, <2>3, <2>4, CardStages
  <2>6. Runs(<<Lock>> \o <<Own(Card)>>, Off, In({}))
    BY <2>5, RunsThen
  <2> QED  BY <2>4, <2>6, TwoSteps DEF MSD_take_owner
<1>3. Runs(<<MSD_take_cs>>, In({}), In({Card}))
  <2>1. Leads(In({}), MSD_take_cs, In({Card}))
    BY StepsPlain DEF Leads, In, St, MSD_take_cs, Xfer, Chosen
  <2>2. MSD_take_cs \in Plain
    BY StepsPlain DEF MSD_take_cs, SpiData
  <2> QED  BY <1>1, <2>1, <2>2, CardStages
<1>4. ASSUME NEW cs \in {{}, {Card}} PROVE Runs(<<MSD_release_cs>>, In(cs), In({}))
  <2>1. Leads(In(cs), MSD_release_cs, In({}))
    BY StepsPlain DEF Leads, In, St, MSD_release_cs, Xfer, Chosen
  <2>2. MSD_release_cs \in Plain
    BY StepsPlain DEF MSD_release_cs, SpiData
  <2> QED  BY <1>1, <2>1, <2>2, CardStages
<1>5. ASSUME NEW cs \in {{}, {Card}} PROVE Runs(Exit, In(cs), Off)
  <2>1. Leads(In({}), Unlock, Off)
    BY DEF Leads, Off, In, St, Unlock
  <2>2. Unlock \in Plain /\ MSD_release_cs \in Plain
    BY StepsPlain DEF MSD_release_cs, SpiData
  <2>3. Runs(<<Unlock>>, In({}), Off)
    BY <1>1, <2>1, <2>2, CardStages
  <2>4. Runs(<<MSD_release_cs>> \o <<Unlock>>, In(cs), Off)
    BY <1>4, <2>3, RunsThen
  <2> QED  BY <2>2, <2>4, TwoSteps DEF Exit
<1>6. ASSUME NEW cs \in {{}, {Card}}, NEW d \in {"command", "clocks", "block"}
      PROVE  Runs(<<Data(d)>>, In(cs), In(cs))
  <2>1. Leads(In(cs), Data(d), In(cs))
    BY StepsPlain DEF Leads, In, St, Data, Xfer, Chosen
  <2>2. Data(d) \in Plain
    BY StepsPlain DEF Data, SpiData
  <2> QED  BY <1>1, <2>1, <2>2, CardStages
<1>7. ASSUME NEW cs \in {{}, {Card}} PROVE Runs(_send_cmd, In(cs), In(cs))
  BY <1>6 DEF _send_cmd
<1>8. ASSUME NEW cfg \in {SlowConfig, FastConfig}
      PROVE  Runs(rt_spi_configure(Card, cfg), Off, Off) /\ Runs(rt_spi_configure(Card, cfg), In({}), In({}))
  <2>1. /\ 0 \in {0, 1} /\ 1 \in {0, 1} /\ Null \in SpiDevice \cup {Null} /\ {} \in SUBSET SpiDevice
        /\ "no" \in {"yes", "no"} /\ cfg \in {FlashConfig, SlowConfig, FastConfig}
    OBVIOUS
  <2>2. /\ Card \in SpiDevice \cup {Null} /\ Card \in SpiDevice /\ cfg.mode = ModeOf(Card)
        /\ "no" = IF Card = Flash THEN "yes" ELSE "no"
    BY StepsPlain DEF SlowConfig, FastConfig, ModeOf
  <2>3. Runs(rt_spi_configure(Card, cfg), Off, Off)
    BY <2>1, <2>2, ConfigurePath DEF Runs, Off
  <2>4. Runs(rt_spi_configure(Card, cfg), In({}), In({}))
    BY <2>1, <2>2, ConfigurePath DEF Runs, In
  <2> QED  BY <2>3, <2>4
<1>9. Runs(<<[do |-> "register", dev |-> Card]>>, In({}), In({}))
  <2>1. Leads(In({}), [do |-> "register", dev |-> Card], In({}))
    BY StepsPlain DEF Leads
  <2>2. [do |-> "register", dev |-> Card] \in Plain
    BY StepsPlain
  <2> QED  BY <1>1, <2>1, <2>2, CardStages
<1> QED  BY <1>2, <1>3, <1>4, <1>5, <1>6, <1>7, <1>8, <1>9

\* rt_msd_init
LEMMA CardInitGoes == CallPath(rt_msd_init, Off, Off)
<1> DEFINE sel == <<MSD_take_cs>> \o _send_cmd \o <<MSD_release_cs>>
           ask == <<Answer(sel, Exit)>>
           clocks == <<MSD_release_cs, Data("clocks")>>
           reg == <<[do |-> "register", dev |-> Card]>>
           p1 == rt_spi_configure(Card, SlowConfig)
           p2 == p1 \o MSD_take_owner
           p3 == p2 \o clocks
           p4 == p3 \o sel
           p5 == p4 \o ask
           p6 == p5 \o rt_spi_configure(Card, FastConfig)
           p7 == p6 \o reg
<1>1. rt_msd_init = p7 \o Exit
  BY DEF rt_msd_init
<1>2. Runs(sel, In({}), In({}))
  <2>1. Runs(<<MSD_take_cs>> \o _send_cmd, In({}), In({Card}))
    BY CardRuns, CardStages, RunsThen
  <2> QED  BY <2>1, CardRuns, CardStages, RunsThen
<1> HIDE DEF sel
<1>3. CallPath(ask, In({}), In({}))
  <2>1. Runs(Exit, In({}), Off)
    BY CardRuns, CardStages
  <2> QED  BY <1>2, <2>1, CardStages, AnswerGoes
<1>4. Runs(clocks, In({}), In({}))
  <2>1. Runs(<<MSD_release_cs>> \o <<Data("clocks")>>, In({}), In({}))
    BY CardRuns, CardStages, RunsThen
  <2>2. MSD_release_cs \in Plain /\ Data("clocks") \in Plain
    BY StepsPlain DEF MSD_release_cs, Data, SpiData
  <2> QED  BY <2>1, <2>2, TwoSteps
<1>5. Runs(p1, Off, Off)
  BY CardRuns
<1> HIDE DEF ask, clocks, p1
<1>6. Runs(p2, Off, In({}))
  BY <1>5, CardRuns, RunsThen
<1> HIDE DEF p2
<1>7. Runs(p3, Off, In({}))
  BY <1>4, <1>6, RunsThen
<1> HIDE DEF p3
<1>8. Runs(p4, Off, In({}))
  BY <1>2, <1>7, RunsThen
<1> HIDE DEF p4
<1>9. CallPath(p5, Off, In({}))
  BY <1>3, <1>8, RunsGoes, GoesThen
<1> HIDE DEF p5
<1>10. CallPath(p6, Off, In({}))
  <2>1. CallPath(rt_spi_configure(Card, FastConfig), In({}), In({}))
    BY CardRuns, RunsGoes
  <2> QED  BY <1>9, <2>1, GoesThen
<1> HIDE DEF p6
<1>11. CallPath(p7, Off, In({}))
  <2>1. CallPath(reg, In({}), In({}))
    BY CardRuns, RunsGoes
  <2> QED  BY <1>10, <2>1, GoesThen
<1> HIDE DEF p7
<1>12. CallPath(Exit, In({}), Off)
  BY CardRuns, CardStages, RunsGoes
<1>13. CallPath(p7 \o Exit, Off, Off)
  BY <1>11, <1>12, GoesThen
<1> QED  BY <1>1, <1>13

\* rt_msd_read
LEMMA CardReadGoes == ASSUME NEW several \in BOOLEAN PROVE CallPath(rt_msd_read(several), Off, Off)
<1> DEFINE block == _send_cmd \o <<Data("block")>>
           stop == (IF several THEN _send_cmd ELSE <<>>) \o Exit
           ask1 == <<Answer(<<>>, Exit)>>
           ask2 == <<Answer(<<>>, stop), Data("block")>>
           ask3 == IF several THEN <<Answer(block, stop)>> ELSE <<>>
           p1 == MSD_take_owner
           p2 == p1 \o rt_spi_configure(Card, FastConfig)
           p3 == p2 \o <<MSD_take_cs>>
           p4 == p3 \o _send_cmd
           p5 == p4 \o ask1
           p6 == p5 \o _send_cmd
           p7 == p6 \o ask2
           p8 == p7 \o ask3
<1>1. rt_msd_read(several) = p8 \o stop
  BY DEF rt_msd_read
<1>c. In({Card}) \in Stage /\ {Card} \in {{}, {Card}} /\ Off \in Stage /\ Over(Off)
  BY CardStages
<1>0. Runs(<<>>, In({Card}), In({Card}))
  <2>1. <<>> \in Seq(Plain)
    OBVIOUS
  <2> QED  BY <1>c, <2>1, PathNone DEF Runs
<1>2. Runs(block, In({Card}), In({Card}))
  BY <1>c, CardRuns, RunsThen
<1>3. Runs(stop, In({Card}), Off)
  <2>1. Runs(IF several THEN _send_cmd ELSE <<>>, In({Card}), In({Card}))
    <3>1. CASE several
      BY <1>c, <3>1, CardRuns
    <3>2. CASE ~several
      BY <1>0, <3>2
    <3> QED  BY <3>1, <3>2
  <2> QED  BY <1>c, <2>1, CardRuns, RunsThen
<1> HIDE DEF block, stop
<1>4. CallPath(ask1, In({Card}), In({Card}))
  <2>1. Runs(Exit, In({Card}), Off)
    BY <1>c, CardRuns
  <2> QED  BY <1>0, <1>c, <2>1, AnswerGoes
<1>5. CallPath(ask2, In({Card}), In({Card}))
  <2>1. Answer(<<>>, stop) \in Steps /\ CallPath(<<Answer(<<>>, stop)>>, In({Card}), In({Card}))
    BY <1>0, <1>3, <1>c, AnswerGoes
  <2>2. CallPath(<<Data("block")>>, In({Card}), In({Card}))
    BY <1>c, CardRuns, RunsGoes
  <2>3. Data("block") \in Steps
    BY StepsPlain DEF Data, SpiData, Steps
  <2>4. CallPath(<<Answer(<<>>, stop)>> \o <<Data("block")>>, In({Card}), In({Card}))
    BY <2>1, <2>2, GoesThen
  <2> QED  BY <2>1, <2>3, <2>4, TwoSteps
<1>6. CallPath(ask3, In({Card}), In({Card}))
  <2>1. CASE several
    <3>1. CallPath(<<Answer(block, stop)>>, In({Card}), In({Card}))
      BY <1>2, <1>3, <1>c, AnswerGoes
    <3> QED  BY <2>1, <3>1
  <2>2. CASE ~several
    BY <1>0, <2>2, RunsGoes
  <2> QED  BY <2>1, <2>2
<1> HIDE DEF ask1, ask2, ask3
<1>7. Runs(p2, Off, In({}))
  BY CardRuns, RunsThen
<1> HIDE DEF p2
<1>8. Runs(p3, Off, In({Card}))
  BY <1>7, CardRuns, RunsThen
<1> HIDE DEF p3
<1>9. Runs(p4, Off, In({Card}))
  BY <1>8, <1>c, CardRuns, RunsThen
<1> HIDE DEF p4
<1>10. CallPath(p5, Off, In({Card}))
  BY <1>4, <1>9, RunsGoes, GoesThen
<1> HIDE DEF p5
<1>11. CallPath(p6, Off, In({Card}))
  <2>1. CallPath(_send_cmd, In({Card}), In({Card}))
    BY <1>c, CardRuns, RunsGoes
  <2> QED  BY <1>10, <2>1, GoesThen
<1> HIDE DEF p6
<1>12. CallPath(p7, Off, In({Card}))
  BY <1>5, <1>11, GoesThen
<1> HIDE DEF p7
<1>13. CallPath(p8, Off, In({Card}))
  BY <1>6, <1>12, GoesThen
<1> HIDE DEF p8
<1>14. CallPath(p8 \o stop, Off, Off)
  BY <1>3, <1>13, RunsGoes, GoesThen
<1> QED  BY <1>1, <1>14

-----------------------------------------------------------------------------
(* The invariant of the SPI bus.                                            *)

\* A transfer that has begun is in front of its call.
Taken(s, x, r) == <<s, x, r>> \in AllMoves \/ (x \in Ended /\ Leads(s, x, r))

\* The call goes on from stage s and ends with everything given back.
Follows(e, s) ==
    IF e.op = "spi"
    THEN /\ e.todo \in Seq(Steps \cup Ended) /\ e.todo # <<>>
         /\ \E m, r \in Stage : /\ Taken(s, Head(e.todo), m) /\ Over(r)
                                /\ CallPath(Tail(e.todo), m, r)
    ELSE Over(s)

\* The bus b and the chip c are as the thread t knows them.
FitsBus(b, t, s) ==
    /\ b.lock = t <=> s.hold > 0
    /\ s.hold > 0 => b.hold = s.hold /\ b.cs = s.cs /\ (s.own # Null => b.owner = s.own)
    /\ s.hold = 0 => s.cs = {} /\ s.own = Null
    /\ s.set = "yes" => b.config[Flash].mode = 3
FitsChip(c, t, s) ==
    /\ c.lock = t <=> s.flash # "free"
    /\ s.flash \in {"quiet", "wel"} => ~c.busy
    /\ s.flash = "wel" => c.wel
    /\ s.flash = "read" /\ c.busy => c.status

\* The bus at rest, and with the call e of the thread that has locked it.
Still(b) == b.moving = Null /\ b.dma = "off" /\ b.sem = 0
Ending(e) == e.op = "spi" /\ Head(e.todo).do = "end"
Transfers(b, e) ==
    IF Ending(e)
    THEN /\ b.moving = Head(e.todo).dev
         /\ b.sem = IF Long(Head(e.todo).data) /\ b.dma = "off" THEN 1 ELSE 0
         /\ Long(Head(e.todo).data) \/ b.dma = "off"
    ELSE Still(b)

\* The controller is in the mode of the owner of the bus.
Modes(b) ==
    /\ b.config[Card].mode = 0
    /\ b.owner # Null => /\ b.hw.mode = b.config[b.owner].mode
                         /\ b.owner = Flash => b.config[Flash].mode = 3

BusOK(b, d) ==
    /\ b.lock = Null => b.hold = 0 /\ b.cs = {} /\ Still(b)
    /\ b.lock # Null => Transfers(b, d[b.lock])
    /\ Modes(b)

Config == {NoConfig, FlashConfig, SlowConfig, FastConfig}
Bus == [lock : Thread \cup {Null}, hold : 0..2, owner : SpiDevice \cup {Null}, hw : Config,
        config : [SpiDevice -> Config], cs : SUBSET SpiDevice, moving : SpiDevice \cup {Null},
        dma : {"off", "run", "failed"}, sem : Nat]
Chip == [lock : Thread \cup {Null}, wel : BOOLEAN, busy : BOOLEAN, status : BOOLEAN]

SpiThreads == \A u \in Thread : \E s \in Stage : FitsBus(bus, u, s) /\ FitsChip(chip, u, s) /\ Follows(call[u], s)

SpiInv ==
    /\ bus \in Bus /\ chip \in Chip
    /\ SpiThreads
    /\ BusOK(bus, call)
    /\ chip.lock = Null => ~chip.busy
    /\ Flash \in ready => bus.config[Flash].mode = 3
    /\ lost = FALSE

LEMMA PathEmpty == ASSUME NEW M, NEW s, NEW r, Path(M, s, <<>>, r) PROVE s = r
<1>1. Len(<<>>) = 0 /\ 0 + 1 = 1
  OBVIOUS
<1> QED  BY <1>1 DEF Path

\* A call that goes on with the steps of a path.
LEMMA GoesOn ==
    ASSUME BaseOK(w, call), NEW t \in Thread, NEW todo, GoOn(t, todo), NEW s \in Stage, NEW r \in Stage,
           CallPath(todo, s, r), Over(r)
    PROVE  /\ Follows(call'[t], s) /\ ~Ending(call'[t])
           /\ call' = [call EXCEPT ![t] = call'[t]] /\ \A u \in Thread \ {t} : call'[u] = call[u]
<1> DEFINE e == IF todo = <<>> THEN Idle ELSE [op |-> "spi", todo |-> todo]
<1>1. call' = [call EXCEPT ![t] = e]
  BY DEF GoOn
<1>2. t \in DOMAIN call
  BY DEF BaseOK, WaitInv, Caller
<1>3. call'[t] = e /\ call' = [call EXCEPT ![t] = call'[t]] /\ \A u \in Thread \ {t} : call'[u] = call[u]
  BY <1>1, <1>2
<1>4. CASE todo = <<>>
  <2>1. s = r
    BY <1>4, PathEmpty DEF CallPath
  <2>2. e.op = "idle"
    BY <1>4 DEF Idle
  <2> QED  BY <1>3, <2>1, <2>2 DEF Follows, Ending
<1>5. CASE todo # <<>>
  <2>1. e.op = "spi" /\ e.todo = todo
    BY <1>5
  <2>2. todo \in Seq(Steps) /\ Path(AllMoves, s, todo, r)
    BY DEF CallPath
  <2>3. /\ Tail(todo) \in Seq(Steps) /\ Head(todo) \in Steps
        /\ \E m \in Stage : <<s, Head(todo), m>> \in AllMoves /\ Path(AllMoves, m, Tail(todo), r)
    BY <1>5, <2>2, PathTail
  <2>4. todo \in Seq(Steps \cup Ended)
    BY <2>2
  <2>5. Head(todo).do # "end"
    BY <2>3 DEF Steps, Plain, Messages, Answers
  <2> HIDE DEF e
  <2> QED  BY <1>3, <1>5, <2>1, <2>3, <2>4, <2>5 DEF Follows, Ending, Taken, CallPath
<1> QED  BY <1>3, <1>4, <1>5

\* The step in front of a call.
LEMMA OneStep ==
    ASSUME BaseOK(w, call), SpiInv, NEW t \in Thread, NEW do, Begins(t, do)
    PROVE  \E s, m, r \in Stage : \E x \in Steps \cup Ended : \E q \in Seq(Steps) :
              /\ x = First(t) /\ x.do = do /\ q = Tail(call[t].todo)
              /\ FitsBus(bus, t, s) /\ FitsChip(chip, t, s)
              /\ Taken(s, x, m) /\ CallPath(q, m, r) /\ Over(r)
              /\ call[t].op = "spi"
<1>1. call[t].op = "spi" /\ First(t).do = do
  BY DEF Begins, Woken
<1>2. PICK s \in Stage : FitsBus(bus, t, s) /\ FitsChip(chip, t, s) /\ Follows(call[t], s)
  BY DEF SpiInv, SpiThreads
<1>3. PICK todo \in Seq(Steps \cup Ended) : todo = call[t].todo /\ todo # <<>>
  BY <1>1, <1>2 DEF Follows
<1>4. PICK m \in Stage, r \in Stage : Taken(s, Head(todo), m) /\ Over(r) /\ CallPath(Tail(todo), m, r)
  BY <1>1, <1>2, <1>3 DEF Follows
<1>5. Head(todo) \in Steps \cup Ended
  BY <1>3
<1>6. First(t) = Head(todo)
  BY <1>3 DEF First
<1> QED  BY <1>1, <1>2, <1>3, <1>4, <1>5, <1>6 DEF CallPath

\* A step that is not a question leads on.
LEMMA TakenLeads ==
    ASSUME NEW s \in Stage, NEW m \in Stage, NEW x \in Steps \cup Ended, Taken(s, x, m), x.do # "answer"
    PROVE  Leads(s, x, m) /\ x \in Plain \cup Ended
<1>1. x \notin Answers
  BY DEF Answers
<1>2. x \in Plain \cup Ended
  BY <1>1 DEF Steps
<1>3. CASE <<s, x, m>> \in AllMoves
  BY <1>1, <1>3 DEF AllMoves, PlainMoves, AskMoves
<1> QED  BY <1>2, <1>3 DEF Taken

\* What a step of thread t leaves to the others.
BusKept(b, c, t) ==
    /\ c.lock # b.lock => {b.lock, c.lock} \subseteq {t, Null}
    /\ b.lock \notin {t, Null} => c.hold = b.hold /\ c.cs = b.cs /\ c.owner = b.owner
    /\ b.config[Flash].mode = 3 => c.config[Flash].mode = 3
ChipKept(b, c, t) ==
    /\ c.lock # b.lock => {b.lock, c.lock} \subseteq {t, Null}
    /\ b.lock \notin {t, Null} => c = b

LEMMA OthersKeep ==
    ASSUME SpiThreads, NEW t \in Thread, BusKept(bus, bus', t), ChipKept(chip, chip', t),
           \A u \in Thread \ {t} : call'[u] = call[u],
           NEW m \in Stage, FitsBus(bus', t, m), FitsChip(chip', t, m), Follows(call'[t], m)
    PROVE  SpiThreads'
<1> SUFFICES ASSUME NEW u \in Thread
             PROVE  \E s \in Stage : FitsBus(bus', u, s) /\ FitsChip(chip', u, s) /\ Follows(call'[u], s)
  BY DEF SpiThreads
<1>1. CASE u = t
  BY <1>1
<1>2. CASE u # t
  <2>1. PICK s \in Stage : FitsBus(bus, u, s) /\ FitsChip(chip, u, s) /\ Follows(call[u], s)
    BY DEF SpiThreads
  <2>2. call'[u] = call[u] /\ u # Null
    BY <1>2, ThreadAssumption
  <2>3. PICK b, c : b = bus /\ c = bus'
    OBVIOUS
  <2>4. PICK k, n : k = chip /\ n = chip'
    OBVIOUS
  <2>5. FitsBus(c, u, s)
    <3>1. c.lock = u <=> b.lock = u
      BY <1>2, <2>2, <2>3 DEF BusKept
    <3> QED  BY <1>2, <2>1, <2>2, <2>3, <3>1 DEF BusKept, FitsBus
  <2>6. FitsChip(n, u, s)
    <3>1. n.lock = u <=> k.lock = u
      BY <1>2, <2>2, <2>4 DEF ChipKept
    <3>2. k.lock = u => n = k
      BY <1>2, <2>2, <2>4 DEF ChipKept
    <3>3. CASE k.lock = u
      BY <2>1, <2>4, <3>2, <3>3
    <3>4. CASE k.lock # u
      <4>1. s.flash = "free" /\ n.lock # u
        BY <2>1, <2>4, <3>1, <3>4 DEF FitsChip
      <4> QED  BY <4>1 DEF FitsChip
    <3> QED  BY <3>3, <3>4
  <2> QED  BY <2>1, <2>2, <2>3, <2>4, <2>5, <2>6
<1> QED  BY <1>1, <1>2

\* A step of the thread t of which the rest is as it should be.
LEMMA StepKeeps ==
    ASSUME SpiInv, NEW t \in Thread, BusKept(bus, bus', t), ChipKept(chip, chip', t),
           \A u \in Thread \ {t} : call'[u] = call[u],
           NEW m \in Stage, FitsBus(bus', t, m), FitsChip(chip', t, m), Follows(call'[t], m),
           bus' \in Bus, chip' \in Chip, BusOK(bus', call'),
           chip'.lock = Null => ~chip'.busy, Flash \in ready' => bus'.config[Flash].mode = 3, lost' = lost
    PROVE  SpiInv'
<1>1. SpiThreads'
  BY OthersKeep DEF SpiInv
<1> QED  BY <1>1 DEF SpiInv

\* Steps that leave the chip, or the bus, alone.
LEMMA BusStepKeeps ==
    ASSUME BaseOK(w, call), SpiInv, NEW t \in Thread, BusKept(bus, bus', t),
           NEW todo, GoOn(t, todo), NEW m \in Stage, NEW r \in Stage, CallPath(todo, m, r), Over(r),
           FitsBus(bus', t, m), FitsChip(chip, t, m), bus' \in Bus, BusOK(bus', call'),
           UNCHANGED <<chip, ready, lost>>
    PROVE  SpiInv'
<1>1. Follows(call'[t], m) /\ \A u \in Thread \ {t} : call'[u] = call[u]
  BY GoesOn
<1>2. chip' = chip /\ ready' = ready /\ lost' = lost
  OBVIOUS
<1>3. ChipKept(chip, chip', t) /\ FitsChip(chip', t, m)
  BY <1>2 DEF ChipKept
<1>4. chip' \in Chip /\ (chip'.lock = Null => ~chip'.busy)
  BY <1>2 DEF SpiInv
<1>5. Flash \in ready' => bus'.config[Flash].mode = 3
  BY <1>2 DEF SpiInv, BusKept
<1> QED  BY <1>1, <1>2, <1>3, <1>4, <1>5, StepKeeps

LEMMA ChipStepKeeps ==
    ASSUME BaseOK(w, call), SpiInv, NEW t \in Thread, ChipKept(chip, chip', t),
           NEW todo, GoOn(t, todo), NEW m \in Stage, NEW r \in Stage, CallPath(todo, m, r), Over(r),
           FitsBus(bus, t, m), FitsChip(chip', t, m), chip' \in Chip, chip'.lock = Null => ~chip'.busy,
           BusOK(bus, call'), UNCHANGED <<bus, lost>>,
           Flash \in ready' => bus.config[Flash].mode = 3
    PROVE  SpiInv'
<1>1. Follows(call'[t], m) /\ \A u \in Thread \ {t} : call'[u] = call[u]
  BY GoesOn
<1>2. bus' = bus /\ lost' = lost
  OBVIOUS
<1>3. BusKept(bus, bus', t) /\ FitsBus(bus', t, m)
  BY <1>2 DEF BusKept
<1>4. bus' \in Bus /\ BusOK(bus', call')
  BY <1>2 DEF SpiInv
<1> QED  BY <1>1, <1>2, <1>3, <1>4, StepKeeps

\* The transfer, when the call of a thread goes on that neither ends one nor begins one.
LEMMA TransfersOn ==
    ASSUME BaseOK(w, call), SpiInv, NEW t \in Thread, NEW todo, GoOn(t, todo), NEW m \in Stage, NEW r \in Stage,
           CallPath(todo, m, r), Over(r), ~Ending(call[t])
    PROVE  /\ bus.lock # Null => Transfers(bus, call'[bus.lock])
           /\ bus.lock \in {t, Null} => Still(bus)
           /\ BusOK(bus, call')
<1>1. ~Ending(call'[t]) /\ \A u \in Thread \ {t} : call'[u] = call[u]
  BY GoesOn
<1>2. PICK l \in Thread \cup {Null} : l = bus.lock
  BY DEF SpiInv, Bus
<1>3. BusOK(bus, call)
  BY DEF SpiInv
<1>4. CASE l = Null
  BY <1>2, <1>3, <1>4 DEF BusOK
<1>5. CASE l = t
  <2>1. Still(bus) /\ l # Null
    BY <1>2, <1>3, <1>5, ThreadAssumption DEF BusOK, Transfers
  <2>2. Transfers(bus, call'[l])
    BY <1>1, <1>5, <2>1 DEF Transfers
  <2> QED  BY <1>2, <1>3, <2>1, <2>2 DEF BusOK
<1>6. CASE l \in Thread \ {t}
  <2>1. call'[l] = call[l] /\ l # Null /\ l # t
    BY <1>1, <1>6, ThreadAssumption
  <2>2. Transfers(bus, call'[l])
    BY <1>2, <1>3, <2>1 DEF BusOK
  <2> QED  BY <1>2, <1>3, <2>1, <2>2 DEF BusOK
<1> QED  BY <1>2, <1>4, <1>5, <1>6

LEMMA MineOK ==
    ASSUME NEW b, NEW d, NEW t \in Thread, ~Ending(d[t]), b.lock \in {t, Null}, Still(b),
           b.lock = Null => b.hold = 0 /\ b.cs = {}, Modes(b)
    PROVE  BusOK(b, d)
BY ThreadAssumption DEF BusOK, Transfers

\* The step x is in front of the call of t, and leads on to stage m.
InFront(t, do, s, x, m, q, r) ==
    /\ s \in Stage /\ m \in Stage /\ r \in Stage
    /\ x = First(t) /\ x.do = do /\ q = Tail(call[t].todo) /\ x \in Plain \cup Ended
    /\ FitsBus(bus, t, s) /\ FitsChip(chip, t, s) /\ Leads(s, x, m) /\ CallPath(q, m, r) /\ Over(r)
    /\ Ending(call[t]) <=> do = "end"

LEMMA StepInFront ==
    ASSUME BaseOK(w, call), SpiInv, NEW t \in Thread, NEW do, do # "answer", Begins(t, do)
    PROVE  \E s, x, m, q, r : InFront(t, do, s, x, m, q, r)
<1>1. PICK s \in Stage, m \in Stage, r \in Stage, x \in Steps \cup Ended, q \in Seq(Steps) :
         /\ x = First(t) /\ x.do = do /\ q = Tail(call[t].todo)
         /\ FitsBus(bus, t, s) /\ FitsChip(chip, t, s) /\ Taken(s, x, m) /\ CallPath(q, m, r) /\ Over(r)
         /\ call[t].op = "spi"
  BY OneStep
<1>2. Leads(s, x, m) /\ x \in Plain \cup Ended
  BY <1>1, TakenLeads
<1>3. Ending(call[t]) <=> do = "end"
  BY <1>1 DEF Ending, First
<1>4. InFront(t, do, s, x, m, q, r)
  BY <1>1, <1>2, <1>3 DEF InFront
<1> QED  BY <1>4

LEMMA LockBusKeeps == ASSUME BaseOK(w, call), SpiInv, NEW t \in Thread, LockBus(t) PROVE SpiInv'
<1>1. Begins(t, "lock") /\ bus.lock \in {Null, t} /\ GoOn(t, Tail(call[t].todo)) /\ UNCHANGED <<chip, ready, lost>>
  BY DEF LockBus, Continue
<1>2. PICK s, x, m, q, r : InFront(t, "lock", s, x, m, q, r)
  BY <1>1, StepInFront
<1>3. s \in Stage /\ m \in Stage /\ r \in Stage
      /\ FitsBus(bus, t, s) /\ FitsChip(chip, t, s) /\ CallPath(q, m, r) /\ Over(r) /\ GoOn(t, q) /\ ~Ending(call[t])
  BY <1>1, <1>2 DEF InFront
<1>4. m = St(s.hold + 1, s.own, s.cs, s.flash, s.set) /\ s.hold < 2
  BY <1>2 DEF InFront, Leads
<1>5. m.hold = s.hold + 1 /\ m.own = s.own /\ m.cs = s.cs /\ m.flash = s.flash /\ m.set = s.set
  BY <1>4 DEF St
<1>6. s.hold \in 0..1 /\ m.hold \in 1..2
  BY <1>3, <1>4, <1>5 DEF Stage
<1>8. Still(bus) /\ ~Ending(call'[t])
  BY <1>1, <1>3, TransfersOn, GoesOn
<1>9. PICK b, c : b = bus /\ c = bus' /\ c = [b EXCEPT !.lock = t, !.hold = @ + 1]
  BY DEF LockBus
<1>10. b \in Bus /\ BusOK(b, call) /\ b.lock \in {Null, t} /\ FitsBus(b, t, s) /\ Still(b)
  BY <1>1, <1>3, <1>8, <1>9 DEF SpiInv
<1>11. b.hold = s.hold /\ b.cs = s.cs
  <2>1. CASE b.lock = Null
    <3>1. b.hold = 0 /\ b.cs = {} /\ s.hold = 0
      BY <1>6, <1>10, <2>1, ThreadAssumption DEF BusOK, FitsBus
    <3> QED  BY <1>10, <3>1 DEF FitsBus
  <2>2. CASE b.lock = t
    BY <1>10, <2>2 DEF FitsBus
  <2> QED  BY <1>10, <2>1, <2>2
<1>12. /\ c.lock = t /\ c.hold = b.hold + 1 /\ c.cs = b.cs /\ c.owner = b.owner /\ c.config = b.config
       /\ c.hw = b.hw /\ c.moving = b.moving /\ c.dma = b.dma /\ c.sem = b.sem
  BY <1>9, <1>10 DEF Bus
<1>13. c \in Bus
  <2>1. b.hold + 1 \in 0..2
    BY <1>6, <1>11
  <2> QED  BY <1>9, <1>10, <2>1 DEF Bus
<1>14. FitsBus(c, t, m)
  <2>1. s.own # Null => b.owner = s.own
    BY <1>6, <1>10 DEF FitsBus
  <2>2. s.set = "yes" => b.config[Flash].mode = 3
    BY <1>10 DEF FitsBus
  <2> QED  BY <1>5, <1>6, <1>11, <1>12, <2>1, <2>2 DEF FitsBus
<1>15. FitsChip(chip, t, m)
  BY <1>3, <1>5 DEF FitsChip
<1>16. BusKept(b, c, t)
  BY <1>10, <1>12 DEF BusKept
<1>17. BusOK(c, call')
  <2>1. Modes(c) /\ Still(c)
    BY <1>10, <1>12 DEF BusOK, Modes, Still
  <2>2. c.lock # Null
    BY <1>12, ThreadAssumption
  <2> QED  BY <1>8, <1>12, <2>1, <2>2, MineOK
<1> QED  BY <1>1, <1>3, <1>9, <1>13, <1>14, <1>15, <1>16, <1>17, BusStepKeeps

LEMMA UnlockBusKeeps == ASSUME BaseOK(w, call), SpiInv, NEW t \in Thread, UnlockBus(t) PROVE SpiInv'
<1>1. Begins(t, "unlock") /\ GoOn(t, Tail(call[t].todo)) /\ UNCHANGED <<chip, ready, lost>>
  BY DEF UnlockBus, Continue
<1>2. PICK s, x, m, q, r : InFront(t, "unlock", s, x, m, q, r)
  BY <1>1, StepInFront
<1>3. s \in Stage /\ m \in Stage /\ r \in Stage
      /\ FitsBus(bus, t, s) /\ FitsChip(chip, t, s) /\ CallPath(q, m, r) /\ Over(r) /\ GoOn(t, q) /\ ~Ending(call[t])
  BY <1>1, <1>2 DEF InFront
<1>4. \/ s.hold = 2 /\ m = St(1, s.own, s.cs, s.flash, s.set)
      \/ s.hold = 1 /\ s.cs = {} /\ m = St(0, Null, {}, s.flash, s.set)
  BY <1>2 DEF InFront, Leads
<1>5. PICK b, c : b = bus /\ c = bus' /\ c = [b EXCEPT !.hold = @ - 1, !.lock = IF b.hold = 1 THEN Null ELSE @]
  BY DEF UnlockBus
<1>6. b \in Bus /\ BusOK(b, call) /\ FitsBus(b, t, s)
  BY <1>3, <1>5 DEF SpiInv
<1>7. b.lock = t /\ b.hold = s.hold /\ b.cs = s.cs /\ (s.own # Null => b.owner = s.own)
      /\ (s.set = "yes" => b.config[Flash].mode = 3)
  BY <1>4, <1>6 DEF FitsBus
<1>8. Still(b) /\ ~Ending(call'[t])
  BY <1>3, <1>5, <1>7, TransfersOn, GoesOn
<1>9. /\ c.lock = (IF b.hold = 1 THEN Null ELSE t) /\ c.hold = b.hold - 1 /\ c.cs = b.cs
      /\ c.owner = b.owner /\ c.config = b.config
      /\ c.hw = b.hw /\ c.moving = b.moving /\ c.dma = b.dma /\ c.sem = b.sem
  BY <1>5, <1>6, <1>7 DEF Bus
<1>10. c \in Bus
  <2>1. b.hold - 1 \in 0..2
    BY <1>4, <1>7
  <2> QED  BY <1>5, <1>6, <2>1 DEF Bus
<1>11. FitsBus(c, t, m) /\ m.flash = s.flash
  <2>1. t # Null
    BY ThreadAssumption
  <2>2. CASE s.hold = 2
    <3>1. m.hold = 1 /\ m.own = s.own /\ m.cs = s.cs /\ m.flash = s.flash /\ m.set = s.set
      BY <1>4, <2>2 DEF St
    <3> QED  BY <1>7, <1>9, <2>1, <2>2, <3>1 DEF FitsBus
  <2>3. CASE s.hold = 1
    <3>1. m.hold = 0 /\ m.own = Null /\ m.cs = {} /\ m.flash = s.flash /\ m.set = s.set
      BY <1>4, <2>3 DEF St
    <3> QED  BY <1>7, <1>9, <2>1, <2>3, <3>1 DEF FitsBus
  <2> QED  BY <1>4, <2>2, <2>3
<1>12. FitsChip(chip, t, m)
  BY <1>3, <1>11 DEF FitsChip
<1>13. BusKept(b, c, t)
  BY <1>7, <1>9 DEF BusKept
<1>14. BusOK(c, call')
  <2>1. Modes(c) /\ Still(c)
    BY <1>6, <1>8, <1>9 DEF BusOK, Modes, Still
  <2>2. c.lock = Null => c.hold = 0 /\ c.cs = {}
    BY <1>4, <1>7, <1>9, ThreadAssumption
  <2>3. c.lock \in {t, Null}
    BY <1>9
  <2> QED  BY <1>8, <2>1, <2>2, <2>3, MineOK
<1> QED  BY <1>1, <1>3, <1>5, <1>10, <1>11, <1>12, <1>13, <1>14, BusStepKeeps

LEMMA OwnBusKeeps == ASSUME BaseOK(w, call), SpiInv, NEW t \in Thread, OwnBus(t) PROVE SpiInv'
<1>1. Begins(t, "own") /\ GoOn(t, Tail(call[t].todo)) /\ UNCHANGED <<chip, ready, lost>>
  BY DEF OwnBus, Continue
<1>2. PICK s, x, m, q, r : InFront(t, "own", s, x, m, q, r)
  BY <1>1, StepInFront
<1>3. s \in Stage /\ m \in Stage /\ r \in Stage
      /\ FitsBus(bus, t, s) /\ FitsChip(chip, t, s) /\ CallPath(q, m, r) /\ Over(r) /\ GoOn(t, q) /\ ~Ending(call[t])
  BY <1>1, <1>2 DEF InFront
<1>4. s.hold > 0 /\ m = St(s.hold, x.dev, s.cs, s.flash, s.set) /\ x = First(t) /\ (x.dev = Flash => s.set = "yes")
  BY <1>2 DEF InFront, Leads
<1>5. m.hold = s.hold /\ m.own = x.dev /\ m.cs = s.cs /\ m.flash = s.flash /\ m.set = s.set
  BY <1>4 DEF St
<1>6. PICK d \in SpiDevice : d = x.dev
  BY <1>2 DEF InFront, Plain, Messages, Ended
<1>7. PICK b, c : b = bus /\ c = bus'
  OBVIOUS
<1>8. b \in Bus /\ BusOK(b, call) /\ FitsBus(b, t, s)
  BY <1>3, <1>7 DEF SpiInv
<1>9. b.lock = t /\ b.hold = s.hold /\ b.cs = s.cs /\ (s.set = "yes" => b.config[Flash].mode = 3)
  BY <1>4, <1>8 DEF FitsBus
<1>10. Still(b) /\ ~Ending(call'[t])
  BY <1>3, <1>7, <1>9, TransfersOn, GoesOn
<1>11. PICK h \in Config : h = stm32_spi_dma_configure(d) /\ h.mode = b.config[d].mode
  <2>1. b.config[d] \in Config /\ b.hw \in Config
    BY <1>8 DEF Bus
  <2>2. b.owner # Null => b.hw.mode = b.config[b.owner].mode
    BY <1>8 DEF BusOK, Modes
  <2> QED  BY <1>7, <2>1, <2>2 DEF stm32_spi_dma_configure
<1>12. c = IF b.owner = d THEN b ELSE [b EXCEPT !.hw = h, !.owner = d]
  BY <1>4, <1>6, <1>7, <1>11 DEF OwnBus
<1>13. /\ c.lock = t /\ c.hold = b.hold /\ c.cs = b.cs /\ c.owner = d /\ c.config = b.config
       /\ c.moving = b.moving /\ c.dma = b.dma /\ c.sem = b.sem
       /\ (c.hw = b.hw /\ b.owner = d) \/ c.hw = h
  BY <1>8, <1>9, <1>12 DEF Bus
<1>14. c \in Bus
  BY <1>8, <1>12 DEF Bus
<1>15. FitsBus(c, t, m)
  BY <1>4, <1>5, <1>6, <1>9, <1>13 DEF FitsBus
<1>16. FitsChip(chip, t, m)
  BY <1>3, <1>5 DEF FitsChip
<1>17. BusKept(b, c, t)
  BY <1>9, <1>13 DEF BusKept
<1>18. BusOK(c, call')
  <2>1. Still(c) /\ c.lock # Null
    BY <1>10, <1>13, ThreadAssumption DEF Still
  <2>2. Modes(b)
    BY <1>8 DEF BusOK
  <2>3. d = Flash => b.config[Flash].mode = 3
    BY <1>4, <1>6, <1>9
  <2>4. Modes(c)
    <3>1. CASE b.owner = d
      BY <1>12, <2>2, <3>1
    <3>2. CASE b.owner # d
      <4>1. c.hw = h
        BY <1>8, <1>12, <3>2 DEF Bus
      <4> QED  BY <1>11, <1>13, <2>2, <2>3, <4>1 DEF Modes
    <3> QED  BY <3>1, <3>2
  <2> QED  BY <1>10, <1>13, <2>1, <2>4, MineOK
<1> QED  BY <1>1, <1>3, <1>7, <1>14, <1>15, <1>16, <1>17, <1>18, BusStepKeeps

LEMMA BusSame ==
    ASSUME NEW b, NEW c, NEW d, BusOK(b, d), Modes(c), c.lock = b.lock, c.hold = b.hold, c.cs = b.cs,
           c.moving = b.moving, c.dma = b.dma, c.sem = b.sem
    PROVE  BusOK(c, d)
BY DEF BusOK, Transfers, Still

LEMMA SetConfigKeeps == ASSUME BaseOK(w, call), SpiInv, NEW t \in Thread, SetConfig(t) PROVE SpiInv'
<1>1. Begins(t, "set") /\ GoOn(t, Tail(call[t].todo)) /\ UNCHANGED <<chip, ready, lost>>
  BY DEF SetConfig, Continue
<1>2. PICK s, x, m, q, r : InFront(t, "set", s, x, m, q, r)
  BY <1>1, StepInFront
<1>3. s \in Stage /\ m \in Stage /\ r \in Stage
      /\ FitsBus(bus, t, s) /\ FitsChip(chip, t, s) /\ CallPath(q, m, r) /\ Over(r) /\ GoOn(t, q) /\ ~Ending(call[t])
  BY <1>1, <1>2 DEF InFront
<1>4. /\ x.cfg.mode = ModeOf(x.dev) /\ x = First(t)
      /\ m = St(s.hold, s.own, s.cs, s.flash, IF x.dev = Flash THEN "yes" ELSE s.set)
  BY <1>2 DEF InFront, Leads
<1>5. m.hold = s.hold /\ m.own = s.own /\ m.cs = s.cs /\ m.flash = s.flash
      /\ m.set = IF x.dev = Flash THEN "yes" ELSE s.set
  BY <1>4 DEF St
<1>6. PICK d \in SpiDevice, cfg \in Config : d = x.dev /\ cfg = x.cfg
  BY <1>2 DEF InFront, Plain, Messages, Ended, Config
<1>7. PICK b, c : b = bus /\ c = bus' /\ c = [b EXCEPT !.config[d] = cfg]
  BY <1>4, <1>6 DEF SetConfig
<1>8. b \in Bus /\ BusOK(b, call) /\ FitsBus(b, t, s) /\ Modes(b)
  BY <1>3, <1>7 DEF SpiInv, BusOK
<1>9. /\ c.lock = b.lock /\ c.hold = b.hold /\ c.cs = b.cs /\ c.owner = b.owner /\ c.hw = b.hw
      /\ c.moving = b.moving /\ c.dma = b.dma /\ c.sem = b.sem
  BY <1>7, <1>8 DEF Bus
<1>10. c.config = [b.config EXCEPT ![d] = cfg] /\ b.config \in [SpiDevice -> Config]
  BY <1>7, <1>8 DEF Bus
<1>11. c.config[d] = cfg /\ \A o \in SpiDevice \ {d} : c.config[o] = b.config[o]
  BY <1>6, <1>10
<1>12. c \in Bus
  BY <1>6, <1>7, <1>8 DEF Bus
<1>13. Flash \in SpiDevice /\ Card \in SpiDevice /\ Flash # Card
  BY StepsPlain
<1>14. cfg.mode = ModeOf(d)
  BY <1>4, <1>6
<1>15. (b.config[Flash].mode = 3 \/ d = Flash) => c.config[Flash].mode = 3
  BY <1>11, <1>13, <1>14 DEF ModeOf
<1>16. FitsBus(c, t, m)
  BY <1>5, <1>6, <1>8, <1>9, <1>15 DEF FitsBus
<1>17. FitsChip(chip, t, m)
  BY <1>3, <1>5 DEF FitsChip
<1>18. BusKept(b, c, t)
  BY <1>9, <1>15 DEF BusKept
<1>19. Modes(c)
  <2>1. c.config[Card].mode = 0
    BY <1>8, <1>11, <1>13, <1>14 DEF Modes, ModeOf
  <2>2. c.owner # Null => c.hw.mode = c.config[c.owner].mode
    <3> SUFFICES ASSUME b.owner # Null PROVE b.hw.mode = c.config[b.owner].mode
      BY <1>9
    <3>1. b.hw.mode = b.config[b.owner].mode /\ b.owner \in SpiDevice
      BY <1>8 DEF Modes, Bus
    <3>2. CASE b.owner # d
      BY <1>11, <3>1, <3>2
    <3>3. CASE b.owner = d
      <4>1. b.config[d].mode = ModeOf(d)
        BY <1>8, <1>13, <3>3 DEF Modes, ModeOf, SpiDevice
      <4> QED  BY <1>11, <1>14, <3>1, <3>3, <4>1
    <3> QED  BY <3>2, <3>3
  <2>3. c.owner # Null /\ c.owner = Flash => c.config[Flash].mode = 3
    BY <1>8, <1>9, <1>15 DEF Modes
  <2> QED  BY <2>1, <2>2, <2>3 DEF Modes
<1>20. BusOK(c, call')
  <2>1. BusOK(b, call')
    BY <1>3, <1>7, TransfersOn
  <2>2. PICK e : e = call'
    OBVIOUS
  <2> QED  BY <1>9, <1>19, <2>1, <2>2, BusSame
<1> QED  BY <1>1, <1>3, <1>7, <1>12, <1>16, <1>17, <1>18, <1>20, BusStepKeeps

LEMMA ConfigureKeeps == ASSUME BaseOK(w, call), SpiInv, NEW t \in Thread, Configure(t) PROVE SpiInv'
<1>1. Begins(t, "configure") /\ GoOn(t, Tail(call[t].todo)) /\ UNCHANGED <<chip, ready, lost>>
  BY DEF Configure, Continue
<1>2. PICK s, x, m, q, r : InFront(t, "configure", s, x, m, q, r)
  BY <1>1, StepInFront
<1>3. s \in Stage /\ m \in Stage /\ r \in Stage
      /\ FitsBus(bus, t, s) /\ FitsChip(chip, t, s) /\ CallPath(q, m, r) /\ Over(r) /\ GoOn(t, q) /\ ~Ending(call[t])
  BY <1>1, <1>2 DEF InFront
<1>4. m = s /\ x = First(t)
  BY <1>2 DEF InFront, Leads
<1>5. PICK d \in SpiDevice : d = x.dev
  BY <1>2 DEF InFront, Plain, Messages, Ended
<1>6. PICK b, c : b = bus /\ c = bus'
  OBVIOUS
<1>7. b \in Bus /\ BusOK(b, call) /\ FitsBus(b, t, s) /\ Modes(b)
  BY <1>3, <1>6 DEF SpiInv, BusOK
<1>8. PICK h \in Config : h = (IF b.owner = d THEN stm32_spi_dma_configure(d) ELSE b.hw)
                         /\ (b.owner = d => h.mode = b.config[d].mode) /\ (b.owner # d => h = b.hw)
  <2>1. b.config[d] \in Config /\ b.hw \in Config
    BY <1>7 DEF Bus
  <2>2. b.owner # Null => b.hw.mode = b.config[b.owner].mode
    BY <1>7 DEF Modes
  <2> QED  BY <1>6, <2>1, <2>2 DEF stm32_spi_dma_configure
<1>9. c = [b EXCEPT !.hw = h]
  BY <1>4, <1>5, <1>6, <1>8 DEF Configure
<1>10. /\ c.lock = b.lock /\ c.hold = b.hold /\ c.cs = b.cs /\ c.owner = b.owner /\ c.hw = h
       /\ c.moving = b.moving /\ c.dma = b.dma /\ c.sem = b.sem /\ c.config = b.config
  BY <1>7, <1>9 DEF Bus
<1>11. c \in Bus
  BY <1>7, <1>9 DEF Bus
<1>12. FitsBus(c, t, m)
  BY <1>4, <1>7, <1>10 DEF FitsBus
<1>13. BusKept(b, c, t)
  BY <1>10 DEF BusKept
<1>14. Modes(c)
  BY <1>7, <1>8, <1>10 DEF Modes
<1>15. BusOK(c, call')
  <2>1. BusOK(b, call')
    BY <1>3, <1>6, TransfersOn
  <2>2. PICK e : e = call'
    OBVIOUS
  <2> QED  BY <1>10, <1>14, <2>1, <2>2, BusSame
<1> QED  BY <1>1, <1>3, <1>4, <1>6, <1>11, <1>12, <1>13, <1>15, BusStepKeeps

LEMMA LockFlashKeeps == ASSUME BaseOK(w, call), SpiInv, NEW t \in Thread, LockFlash(t) PROVE SpiInv'
<1>1. Begins(t, "flash_lock") /\ GoOn(t, Tail(call[t].todo)) /\ UNCHANGED <<bus, ready, lost>> /\ chip.lock = Null
  BY DEF LockFlash, Continue
<1>2. PICK s, x, m, q, r : InFront(t, "flash_lock", s, x, m, q, r)
  BY <1>1, StepInFront
<1>3. s \in Stage /\ m \in Stage /\ r \in Stage
      /\ FitsBus(bus, t, s) /\ FitsChip(chip, t, s) /\ CallPath(q, m, r) /\ Over(r) /\ GoOn(t, q) /\ ~Ending(call[t])
  BY <1>1, <1>2 DEF InFront
<1>4. m = St(s.hold, s.own, s.cs, "quiet", s.set)
  BY <1>2 DEF InFront, Leads
<1>5. m.hold = s.hold /\ m.own = s.own /\ m.cs = s.cs /\ m.flash = "quiet" /\ m.set = s.set
  BY <1>4 DEF St
<1>6. PICK k, n : k = chip /\ n = chip' /\ n = [k EXCEPT !.lock = t]
  BY DEF LockFlash
<1>7. k \in Chip /\ k.lock = Null /\ ~k.busy
  BY <1>1, <1>6 DEF SpiInv
<1>8. n \in Chip /\ n.lock = t /\ ~n.busy
  BY <1>6, <1>7, Zenon DEF Chip
<1>9. FitsChip(n, t, m)
  BY <1>5, <1>8 DEF FitsChip
<1>10. ChipKept(k, n, t)
  BY <1>7, <1>8 DEF ChipKept
<1>11. FitsBus(bus, t, m)
  BY <1>3, <1>5 DEF FitsBus
<1>12. BusOK(bus, call')
  BY <1>3, TransfersOn
<1>13. Flash \in ready' => bus.config[Flash].mode = 3
  BY <1>1 DEF SpiInv
<1> QED  BY <1>1, <1>3, <1>6, <1>8, <1>9, <1>10, <1>11, <1>12, <1>13, ChipStepKeeps, ThreadAssumption

LEMMA UnlockFlashKeeps == ASSUME BaseOK(w, call), SpiInv, NEW t \in Thread, UnlockFlash(t) PROVE SpiInv'
<1>1. Begins(t, "flash_unlock") /\ GoOn(t, Tail(call[t].todo)) /\ UNCHANGED <<bus, ready, lost>>
  BY DEF UnlockFlash, Continue
<1>2. PICK s, x, m, q, r : InFront(t, "flash_unlock", s, x, m, q, r)
  BY <1>1, StepInFront
<1>3. s \in Stage /\ m \in Stage /\ r \in Stage
      /\ FitsBus(bus, t, s) /\ FitsChip(chip, t, s) /\ CallPath(q, m, r) /\ Over(r) /\ GoOn(t, q) /\ ~Ending(call[t])
  BY <1>1, <1>2 DEF InFront
<1>4. s.flash \in {"quiet", "wel"} /\ m = St(s.hold, s.own, s.cs, "free", s.set)
  BY <1>2 DEF InFront, Leads
<1>5. m.hold = s.hold /\ m.own = s.own /\ m.cs = s.cs /\ m.flash = "free" /\ m.set = s.set
  BY <1>4 DEF St
<1>6. PICK k, n : k = chip /\ n = chip' /\ n = [k EXCEPT !.lock = Null]
  BY DEF UnlockFlash
<1>7. k \in Chip /\ k.lock = t /\ ~k.busy
  BY <1>3, <1>4, <1>6 DEF SpiInv, FitsChip
<1>8. n \in Chip /\ n.lock = Null /\ ~n.busy
  BY <1>6, <1>7, Zenon DEF Chip
<1>9. FitsChip(n, t, m)
  BY <1>5, <1>8, ThreadAssumption DEF FitsChip
<1>10. ChipKept(k, n, t)
  BY <1>7, <1>8 DEF ChipKept
<1>11. FitsBus(bus, t, m)
  BY <1>3, <1>5 DEF FitsBus
<1>12. BusOK(bus, call')
  BY <1>3, TransfersOn
<1>13. Flash \in ready' => bus.config[Flash].mode = 3
  BY <1>1 DEF SpiInv
<1> QED  BY <1>1, <1>3, <1>6, <1>8, <1>9, <1>10, <1>11, <1>12, <1>13, ChipStepKeeps

\* A step that changes the call and at most what is ready.
LEMMA CallStepKeeps ==
    ASSUME BaseOK(w, call), SpiInv, NEW t \in Thread, NEW todo, GoOn(t, todo), ~Ending(call[t]),
           NEW m \in Stage, NEW r \in Stage, CallPath(todo, m, r), Over(r),
           FitsBus(bus, t, m), FitsChip(chip, t, m), UNCHANGED <<bus, chip, lost>>,
           Flash \in ready' => bus.config[Flash].mode = 3
    PROVE  SpiInv'
<1>1. PICK k, n : k = chip /\ n = chip' /\ n = k
  OBVIOUS
<1>2. n \in Chip /\ (n.lock = Null => ~n.busy)
  BY <1>1 DEF SpiInv
<1>3. ChipKept(k, n, t) /\ FitsChip(n, t, m)
  BY <1>1 DEF ChipKept
<1>4. BusOK(bus, call')
  BY TransfersOn
<1> QED  BY <1>1, <1>2, <1>3, <1>4, ChipStepKeeps

LEMMA RegisterKeeps == ASSUME BaseOK(w, call), SpiInv, NEW t \in Thread, Register(t) PROVE SpiInv'
<1>1. Begins(t, "register") /\ GoOn(t, Tail(call[t].todo)) /\ UNCHANGED <<bus, chip, lost>>
  BY DEF Register, Continue
<1>2. PICK s, x, m, q, r : InFront(t, "register", s, x, m, q, r)
  BY <1>1, StepInFront
<1>3. s \in Stage /\ m \in Stage /\ r \in Stage
      /\ FitsBus(bus, t, s) /\ FitsChip(chip, t, s) /\ CallPath(q, m, r) /\ Over(r) /\ GoOn(t, q) /\ ~Ending(call[t])
  BY <1>1, <1>2 DEF InFront
<1>4. m = s /\ x = First(t) /\ (x.dev = Flash => s.set = "yes")
  BY <1>2 DEF InFront, Leads
<1>5. Flash \in ready' => bus.config[Flash].mode = 3
  <2>1. Flash \in ready => bus.config[Flash].mode = 3
    BY DEF SpiInv
  <2>2. s.set = "yes" => bus.config[Flash].mode = 3
    BY <1>3 DEF FitsBus
  <2> QED  BY <1>4, <2>1, <2>2 DEF Register
<1> QED  BY <1>1, <1>3, <1>4, <1>5, CallStepKeeps

LEMMA IfBusyKeeps == ASSUME BaseOK(w, call), SpiInv, NEW t \in Thread, IfBusy(t) PROVE SpiInv'
<1>1. /\ Begins(t, "if_busy") /\ UNCHANGED <<bus, chip, ready, lost>>
      /\ GoOn(t, (IF chip.status THEN w25qxx_wait_busy ELSE <<>>) \o Tail(call[t].todo))
  BY DEF IfBusy, spiVars
<1>2. PICK s, x, m, q, r : InFront(t, "if_busy", s, x, m, q, r)
  BY <1>1, StepInFront
<1>3. s \in Stage /\ m \in Stage /\ r \in Stage /\ q = Tail(call[t].todo)
      /\ FitsBus(bus, t, s) /\ FitsChip(chip, t, s) /\ CallPath(q, m, r) /\ Over(r) /\ ~Ending(call[t])
  BY <1>1, <1>2 DEF InFront
<1>4. s = Out("read") /\ m = Out("quiet")
  BY <1>2 DEF InFront, Leads, Out
<1>5. Flash \in ready' => bus.config[Flash].mode = 3
  BY <1>1 DEF SpiInv
<1>6. CASE chip.status
  <2>1. GoOn(t, w25qxx_wait_busy \o q)
    BY <1>1, <1>3, <1>6
  <2>2. Runs(w25qxx_wait_busy, s, m)
    <3>1. "read" \in LockedFlash
      BY DEF LockedFlash
    <3> QED  BY <1>4, <3>1, FlashRuns
  <2>3. CallPath(w25qxx_wait_busy \o q, s, r)
    BY <1>3, <2>2, RunsGoes, GoesThen
  <2> QED  BY <1>1, <1>3, <1>5, <2>1, <2>3, CallStepKeeps
<1>7. CASE ~chip.status
  <2>1. GoOn(t, q)
    <3>1. (IF chip.status THEN w25qxx_wait_busy ELSE <<>>) = <<>>
      BY <1>7
    <3>2. q \in Seq(Steps)
      BY <1>3 DEF CallPath
    <3>3. <<>> \o q = q
      BY <3>2
    <3> QED  BY <1>1, <1>3, <3>1, <3>3
  <2>2. s.flash = "read" /\ m.flash = "quiet" /\ m.hold = s.hold /\ m.own = s.own /\ m.cs = s.cs /\ m.set = s.set
    BY <1>4 DEF Out, St
  <2>3. FitsChip(chip, t, m)
    <3>1. chip.lock = t /\ ~chip.busy
      BY <1>3, <1>7, <2>2 DEF FitsChip
    <3> QED  BY <2>2, <3>1 DEF FitsChip
  <2>4. FitsBus(bus, t, m)
    BY <1>3, <2>2 DEF FitsBus
  <2> QED  BY <1>1, <1>3, <1>5, <2>1, <2>3, <2>4, CallStepKeeps
<1> QED  BY <1>6, <1>7

LEMMA HeadThenTail == ASSUME NEW X, NEW p \in Seq(X), p # <<>> PROVE p = <<Head(p)>> \o Tail(p)
<1>1. PICK n \in Nat : Len(p) = n /\ n # 0
  OBVIOUS
<1>2. PICK q \in Seq(X) : q = <<Head(p)>> \o Tail(p)
  <2>1. <<Head(p)>> \in Seq(X) /\ Tail(p) \in Seq(X)
    OBVIOUS
  <2>2. <<Head(p)>> \o Tail(p) \in Seq(X)
    BY <2>1
  <2> QED  BY <2>2
<1>3. Len(q) = n /\ q[1] = p[1]
  BY <1>1, <1>2
<1>4. ASSUME NEW i \in 1..n, i # 1 PROVE q[i] = p[i]
  BY <1>1, <1>2, <1>4
<1>5. Len(p) = Len(q) /\ \A i \in 1..Len(p) : p[i] = q[i]
  BY <1>1, <1>3, <1>4
<1>6. p = q
  BY <1>5, SeqEqual
<1> QED  BY <1>2, <1>6

LEMMA FromCardKeeps == ASSUME BaseOK(w, call), SpiInv, NEW t \in Thread, FromCard(t) PROVE SpiInv'
<1>1. Begins(t, "answer") /\ UNCHANGED <<bus, chip, ready, lost>>
  BY DEF FromCard, spiVars
<1>2. PICK s \in Stage, m \in Stage, r \in Stage, x \in Steps \cup Ended, q \in Seq(Steps) :
         /\ x = First(t) /\ x.do = "answer" /\ q = Tail(call[t].todo)
         /\ FitsBus(bus, t, s) /\ FitsChip(chip, t, s) /\ Taken(s, x, m) /\ CallPath(q, m, r) /\ Over(r)
         /\ call[t].op = "spi"
  BY <1>1, OneStep
<1>3. ~Ending(call[t])
  BY <1>2 DEF Ending, First
<1>4. x \in Answers /\ <<s, x, m>> \in AskMoves
  <2>1. x \notin Plain /\ x \notin Ended
    BY <1>2 DEF Plain, Messages, Ended
  <2> QED  BY <1>2, <2>1 DEF Steps, Taken, AllMoves, PlainMoves
<1>5. m = s /\ Path(PlainMoves, s, x.again, s) /\ \E o \in Stage : Over(o) /\ Path(PlainMoves, s, x.rest, o)
  BY <1>4 DEF AskMoves
<1>6. x.again \in Seq(Plain) /\ x.rest \in Seq(Plain)
  BY <1>4 DEF Answers
<1>7. CallPath(x.again, s, s) /\ \E o \in Stage : Over(o) /\ CallPath(x.rest, s, o)
  BY <1>5, <1>6, RunsGoes DEF Runs
<1>8. Flash \in ready' => bus.config[Flash].mode = 3
  BY <1>1 DEF SpiInv
<1>9. ASSUME NEW todo, GoOn(t, todo), NEW o \in Stage, Over(o), CallPath(todo, s, o) PROVE SpiInv'
  BY <1>1, <1>2, <1>3, <1>8, <1>9, CallStepKeeps
<1>10. CASE Continue(t)
  BY <1>2, <1>5, <1>9, <1>10 DEF Continue
<1>11. CASE GoOn(t, First(t).again \o call[t].todo)
  <2>1. CallPath(call[t].todo, s, r) /\ call[t].todo \in Seq(Steps)
    <3>1. PICK todo \in Seq(Steps \cup Ended) : todo = call[t].todo /\ todo # <<>>
      BY <1>2 DEF SpiInv, SpiThreads, Follows
    <3>2. todo = <<x>> \o q
      <4>1. Head(todo) = x /\ Tail(todo) = q
        BY <1>2, <3>1 DEF First
      <4> QED  BY <3>1, <4>1, HeadThenTail
    <3>3. CallPath(<<x>>, s, s)
      <4>1. <<s, x, s>> \in AllMoves /\ x \in Steps
        BY <1>4, <1>5 DEF AllMoves, Steps
      <4> QED  BY <4>1, PathOne DEF CallPath
    <3>4. CallPath(<<x>> \o q, s, r)
      BY <1>2, <1>5, <3>3, GoesThen
    <3> QED  BY <3>1, <3>2, <3>4 DEF CallPath
  <2>2. CallPath(x.again \o call[t].todo, s, r)
    BY <1>7, <2>1, GoesThen
  <2> QED  BY <1>2, <1>9, <1>11, <2>2
<1>12. CASE GoOn(t, First(t).rest)
  BY <1>2, <1>7, <1>9, <1>12
<1> QED  BY <1>10, <1>11, <1>12 DEF FromCard

LEMMA ConsHeadTail == ASSUME NEW X, NEW y \in X, NEW q \in Seq(X)
                      PROVE  <<y>> \o q \in Seq(X) /\ <<y>> \o q # <<>> /\ Head(<<y>> \o q) = y /\ Tail(<<y>> \o q) = q
<1>1. PICK p \in Seq(X) : p = <<y>> \o q
  <2>1. <<y>> \in Seq(X)
    OBVIOUS
  <2>2. <<y>> \o q \in Seq(X)
    BY <2>1
  <2> QED  BY <2>2
<1>2. PICK n \in Nat : n = Len(q)
  OBVIOUS
<1>3. Len(p) = n + 1 /\ p[1] = y /\ \A i \in 1..n : p[i + 1] = q[i]
  BY <1>1, <1>2
<1>4. p # <<>> /\ Head(p) = y
  BY <1>2, <1>3
<1>5. PICK u \in Seq(X) : u = Tail(p)
  <2>1. Tail(p) \in Seq(X)
    BY <1>4
  <2> QED  BY <2>1
<1>6. Len(u) = n /\ \A i \in 1..n : u[i] = p[i + 1]
  BY <1>2, <1>3, <1>4, <1>5
<1>7. Len(u) = Len(q) /\ \A i \in 1..Len(u) : u[i] = q[i]
  BY <1>2, <1>3, <1>6
<1>8. u = q
  BY <1>7, SeqEqual
<1> QED  BY <1>1, <1>4, <1>5, <1>8

\* A transfer begins.
LEMMA BeginsTransfer ==
    ASSUME BaseOK(w, call), NEW t \in Thread, NEW y \in Ended, NEW q, GoOn(t, <<y>> \o q),
           NEW s \in Stage, NEW m \in Stage, NEW r \in Stage, Leads(s, y, m), CallPath(q, m, r), Over(r)
    PROVE  /\ Follows(call'[t], s) /\ Ending(call'[t]) /\ Head(call'[t].todo) = y
           /\ \A u \in Thread \ {t} : call'[u] = call[u]
<1>1. y \in Steps \cup Ended /\ q \in Seq(Steps \cup Ended)
  BY DEF CallPath
<1>2. PICK p \in Seq(Steps \cup Ended) : p = <<y>> \o q /\ p # <<>> /\ Head(p) = y /\ Tail(p) = q
  BY <1>1, ConsHeadTail
<1>3. t \in DOMAIN call
  BY DEF BaseOK, WaitInv, Caller
<1>4. call' = [call EXCEPT ![t] = [op |-> "spi", todo |-> p]]
  BY <1>2 DEF GoOn
<1>5. /\ call'[t].op = "spi" /\ call'[t].todo = p
      /\ \A u \in Thread \ {t} : call'[u] = call[u]
  BY <1>3, <1>4
<1>6. Taken(s, y, m)
  BY DEF Taken
<1>7. Follows(call'[t], s)
  BY <1>2, <1>5, <1>6 DEF Follows
<1>8. y.do = "end"
  BY DEF Ended
<1> QED  BY <1>2, <1>5, <1>7, <1>8 DEF Ending

LEMMA XferBeginKeeps == ASSUME BaseOK(w, call), SpiInv, NEW t \in Thread, XferBegin(t) PROVE SpiInv'
<1>1. Begins(t, "xfer") /\ UNCHANGED <<chip, ready, lost>>
  BY DEF XferBegin
<1>2. PICK s, x, m, q, r : InFront(t, "xfer", s, x, m, q, r)
  BY <1>1, StepInFront
<1>3. s \in Stage /\ m \in Stage /\ r \in Stage /\ q = Tail(call[t].todo) /\ x = First(t)
      /\ FitsBus(bus, t, s) /\ FitsChip(chip, t, s) /\ CallPath(q, m, r) /\ Over(r) /\ ~Ending(call[t])
  BY <1>1, <1>2 DEF InFront
<1>4. x \in Messages
  BY <1>2 DEF InFront, Plain, Ended
<1>5. PICK d \in SpiDevice : d = x.dev
  BY <1>4 DEF Messages
<1>6. PICK cs \in SUBSET SpiDevice : cs = Chosen(x, s.cs)
  BY <1>3, <1>4 DEF Messages, Chosen, Stage
<1>7. /\ s.hold > 0 /\ s.own = d /\ s.cs \subseteq {d}
      /\ d = Flash => x.data # "none" /\ cs = {Flash} /\ s.flash # "free"
      /\ d = Flash /\ x.release => MaySend(s.flash, x.data)
      /\ m = St(s.hold, s.own, IF x.release THEN {} ELSE cs,
                IF d = Flash /\ x.release THEN Sent(s.flash, x.data) ELSE s.flash, s.set)
  BY <1>2, <1>5, <1>6 DEF InFront, Leads
<1>8. PICK b, c : b = bus /\ c = bus'
  OBVIOUS
<1>9. b \in Bus /\ BusOK(b, call) /\ FitsBus(b, t, s) /\ Modes(b)
  BY <1>3, <1>8 DEF SpiInv, BusOK
<1>10. b.lock = t /\ b.hold = s.hold /\ b.cs = s.cs /\ (s.own # Null => b.owner = s.own)
       /\ (s.set = "yes" => b.config[Flash].mode = 3)
  BY <1>7, <1>9 DEF FitsBus
<1>11. Still(b)
  <2>1. b.lock # Null
    BY <1>10, ThreadAssumption
  <2> QED  BY <1>3, <1>9, <1>10, <2>1 DEF BusOK, Transfers
<1>12. (IF x.take THEN b.cs \cup {d} ELSE b.cs) = cs
  BY <1>6, <1>5, <1>7, <1>10 DEF Chosen
<1>13. CASE x.data = "none"
  <2>1. GoOn(t, q) /\ c = [b EXCEPT !.cs = IF x.release THEN cs \ {d} ELSE cs]
    BY <1>3, <1>5, <1>8, <1>12, <1>13 DEF XferBegin, Continue
  <2>2. d # Flash /\ cs \subseteq {d}
    BY <1>5, <1>6, <1>7, <1>13 DEF Chosen
  <2>3. m.hold = s.hold /\ m.own = s.own /\ m.flash = s.flash /\ m.set = s.set
        /\ m.cs = IF x.release THEN cs \ {d} ELSE cs
    BY <1>7, <2>2 DEF St
  <2>4. /\ c.lock = b.lock /\ c.hold = b.hold /\ c.cs = m.cs /\ c.owner = b.owner /\ c.hw = b.hw
        /\ c.moving = b.moving /\ c.dma = b.dma /\ c.sem = b.sem /\ c.config = b.config
    BY <1>9, <2>1, <2>3 DEF Bus
  <2>5. c \in Bus
    BY <1>9, <2>1 DEF Bus
  <2>6. FitsBus(c, t, m)
    BY <1>7, <1>10, <2>3, <2>4 DEF FitsBus
  <2>7. FitsChip(chip, t, m)
    BY <1>3, <2>3 DEF FitsChip
  <2>8. BusKept(b, c, t)
    BY <1>10, <2>4 DEF BusKept
  <2>9. BusOK(c, call')
    <3>1. Modes(c) /\ Still(c) /\ c.lock # Null
      BY <1>9, <1>10, <1>11, <2>4, ThreadAssumption DEF Modes, Still
    <3>2. ~Ending(call'[t])
      BY <1>3, <2>1, GoesOn
    <3> QED  BY <1>10, <2>4, <3>1, <3>2, MineOK
  <2> QED  BY <1>1, <1>3, <1>8, <2>1, <2>5, <2>6, <2>7, <2>8, <2>9, BusStepKeeps
<1>14. CASE x.data # "none"
  <2>1. PICK y : y = [x EXCEPT !.do = "end"]
    OBVIOUS
  <2>2. y \in Ended /\ y.do = "end" /\ y.dev = d /\ y.data = x.data
    BY <1>4, <1>5, <2>1 DEF Messages, Ended
  <2>3. (y.take <=> x.take) /\ (y.release <=> x.release)
    BY <1>4, <2>1, Zenon DEF Messages
  <2>4. PICK n : n = St(s.hold, s.own, cs, s.flash, s.set)
    OBVIOUS
  <2>5. n \in Stage /\ n.hold = s.hold /\ n.own = s.own /\ n.cs = cs /\ n.flash = s.flash /\ n.set = s.set
    BY <1>3, <2>4 DEF St, Stage
  <2>6. Chosen(y, cs) = cs /\ cs \subseteq {d}
    BY <1>5, <1>6, <1>7, <2>2, <2>3 DEF Chosen
  <2>7. Leads(n, y, m)
    <3>1. m = St(n.hold, n.own, IF y.release THEN {} ELSE Chosen(y, n.cs),
                 IF y.dev = Flash /\ y.release THEN Sent(n.flash, y.data) ELSE n.flash, n.set)
      BY <1>7, <2>2, <2>3, <2>5, <2>6
    <3>2. y.dev = Flash => y.data # "none" /\ Chosen(y, n.cs) = {Flash} /\ n.flash # "free"
      BY <1>7, <2>2, <2>5, <2>6
    <3>3. y.dev = Flash /\ y.release => MaySend(n.flash, y.data)
      BY <1>7, <2>2, <2>3, <2>5
    <3>4. n.hold > 0 /\ n.own = y.dev /\ n.cs \subseteq {y.dev} /\ y.do = "end" /\ y.data # "none"
          /\ Chosen(y, n.cs) = n.cs
      BY <1>7, <1>14, <2>2, <2>5, <2>6
    <3> QED  BY <3>1, <3>2, <3>3, <3>4 DEF Leads
  <2>8. GoOn(t, <<y>> \o q)
    BY <1>3, <1>14, <2>1 DEF XferBegin
  <2>9. /\ Follows(call'[t], n) /\ Ending(call'[t]) /\ Head(call'[t].todo) = y
        /\ \A u \in Thread \ {t} : call'[u] = call[u]
    BY <1>3, <2>2, <2>5, <2>7, <2>8, BeginsTransfer
  <2>10. c = [b EXCEPT !.cs = cs, !.moving = d, !.dma = IF Long(x.data) THEN "run" ELSE @]
    BY <1>3, <1>5, <1>8, <1>12, <1>14 DEF XferBegin
  <2>11. /\ c.lock = t /\ c.hold = b.hold /\ c.cs = cs /\ c.owner = b.owner /\ c.hw = b.hw
         /\ c.moving = d /\ c.dma = (IF Long(x.data) THEN "run" ELSE "off") /\ c.sem = 0 /\ c.config = b.config
    BY <1>9, <1>10, <1>11, <2>10 DEF Bus, Still
  <2>12. c \in Bus
    BY <1>9, <2>10 DEF Bus
  <2>13. FitsBus(c, t, n)
    BY <1>7, <1>10, <2>5, <2>11 DEF FitsBus
  <2>14. FitsChip(chip, t, n)
    BY <1>3, <2>5 DEF FitsChip
  <2>15. BusKept(b, c, t)
    BY <1>10, <2>11 DEF BusKept
  <2>16. BusOK(c, call')
    <3>1. Transfers(c, call'[t])
      BY <2>2, <2>9, <2>11 DEF Transfers
    <3>2. Modes(c) /\ c.lock # Null
      BY <1>9, <2>11, ThreadAssumption DEF Modes
    <3> QED  BY <2>11, <3>1, <3>2 DEF BusOK
  <2>17. Flash \in ready' => c.config[Flash].mode = 3
    BY <1>1, <1>8, <2>11 DEF SpiInv
  <2>18. PICK k, l : k = chip /\ l = chip' /\ l = k
    BY <1>1
  <2>19. l \in Chip /\ (l.lock = Null => ~l.busy) /\ ChipKept(k, l, t) /\ FitsChip(l, t, n)
    BY <2>14, <2>18 DEF SpiInv, ChipKept
  <2> QED  BY <1>1, <1>8, <2>5, <2>9, <2>12, <2>13, <2>15, <2>16, <2>17, <2>18, <2>19, StepKeeps
<1> QED  BY <1>13, <1>14

\* What a command does to the chip that its thread has locked.
LEMMA CommandTaken ==
    ASSUME chip \in Chip, NEW t \in Thread, NEW f \in LockedFlash, NEW s, s.flash = f, FitsChip(chip, t, s),
           NEW cmd \in SpiData, MaySend(f, cmd), NEW m, m.flash = Sent(f, cmd)
    PROVE  Takes(cmd) /\ Command(cmd) \in Chip /\ Command(cmd).lock = t /\ FitsChip(Command(cmd), t, m)
<1>0. f # "free" /\ chip.lock = t
  BY DEF FitsChip, LockedFlash
<1>1. PICK on \in BOOLEAN, working \in BOOLEAN, told \in BOOLEAN :
         chip = [lock |-> t, wel |-> on, busy |-> working, status |-> told]
  BY <1>0, Zenon DEF Chip
<1>2. /\ f \in {"quiet", "wel"} => ~working
      /\ f = "wel" => on
      /\ f = "read" /\ working => told
  <2>1. (chip.wel <=> on) /\ (chip.busy <=> working) /\ (chip.status <=> told)
    BY <1>1, Zenon
  <2> QED  BY <2>1 DEF FitsChip
<1>3. Takes(cmd)
  <2>1. (chip.wel <=> on) /\ (chip.busy <=> working)
    BY <1>1, Zenon
  <2> QED  BY <1>2, <2>1 DEF Takes, MaySend
<1>4. PICK on2 \in BOOLEAN, working2 \in BOOLEAN, told2 \in BOOLEAN :
         /\ on2 <=> (on \/ cmd = "WREN") /\ cmd # "WRDI"
         /\ working2 <=> working \/ cmd \in {"ERASE", "PP", "WRSR"}
         /\ told2 <=> (IF cmd = "RDSR" THEN working ELSE told)
  OBVIOUS
<1>5. PICK k : k = Command(cmd)
  OBVIOUS
<1>6. k \in Chip /\ k.lock = t /\ (k.wel <=> on2) /\ (k.busy <=> working2) /\ (k.status <=> told2)
  <2>1. /\ ((chip.wel \/ cmd = "WREN") /\ cmd # "WRDI") = on2
        /\ (chip.busy \/ cmd \in {"ERASE", "PP", "WRSR"}) = working2
        /\ (IF cmd = "RDSR" THEN chip.busy ELSE chip.status) = told2
    BY <1>1, <1>4, Zenon
  <2>2. k = [chip EXCEPT !.wel = on2, !.busy = working2, !.status = told2]
    BY <1>5, <2>1, Zenon DEF Command
  <2>3. k = [lock |-> t, wel |-> on2, busy |-> working2, status |-> told2]
    BY <1>1, <2>2
  <2> QED  BY <2>3 DEF Chip
<1>7. FitsChip(k, t, m)
  <2>1. Sent(f, cmd) # "free"
    BY SentIn DEF LockedFlash
  <2>2. Sent(f, cmd) \in {"quiet", "wel"} => ~working2
    BY <1>2, <1>4 DEF Sent, MaySend
  <2>3. Sent(f, cmd) = "wel" => on2
    BY <1>2, <1>4 DEF Sent, MaySend
  <2>4. Sent(f, cmd) = "read" /\ working2 => told2
    BY <1>2, <1>4 DEF Sent, MaySend
  <2> QED  BY <1>6, <2>1, <2>2, <2>3, <2>4 DEF FitsChip
<1> QED  BY <1>3, <1>5, <1>6, <1>7

LEMMA XferEndKeeps == ASSUME BaseOK(w, call), SpiInv, NEW t \in Thread, XferEnd(t) PROVE SpiInv'
<1>1. Begins(t, "end") /\ GoOn(t, Tail(call[t].todo)) /\ ready' = ready
  BY DEF XferEnd, Continue
<1>2. PICK s, x, m, q, r : InFront(t, "end", s, x, m, q, r)
  BY <1>1, StepInFront
<1>3. s \in Stage /\ m \in Stage /\ r \in Stage /\ x = First(t)
      /\ FitsBus(bus, t, s) /\ FitsChip(chip, t, s) /\ CallPath(q, m, r) /\ Over(r) /\ GoOn(t, q) /\ Ending(call[t])
  BY <1>1, <1>2 DEF InFront
<1>4. x \in Ended
  BY <1>2 DEF InFront, Plain, Messages
<1>5. PICK d \in SpiDevice : d = x.dev
  BY <1>4 DEF Ended
<1>6. PICK cmd \in SpiData : cmd = x.data
  BY <1>4 DEF Ended
<1>7. /\ s.hold > 0 /\ s.own = d /\ s.cs \subseteq {d} /\ Chosen(x, s.cs) = s.cs
      /\ d = Flash => s.flash # "free"
      /\ d = Flash /\ x.release => MaySend(s.flash, cmd)
      /\ m = St(s.hold, s.own, IF x.release THEN {} ELSE s.cs,
                IF d = Flash /\ x.release THEN Sent(s.flash, cmd) ELSE s.flash, s.set)
  BY <1>2, <1>5, <1>6 DEF InFront, Leads
<1>8. m.hold = s.hold /\ m.own = s.own /\ m.cs = (IF x.release THEN {} ELSE s.cs) /\ m.set = s.set
      /\ m.flash = IF d = Flash /\ x.release THEN Sent(s.flash, cmd) ELSE s.flash
  BY <1>7 DEF St
<1>9. PICK b, c : b = bus /\ c = bus'
  OBVIOUS
<1>10. b \in Bus /\ BusOK(b, call) /\ FitsBus(b, t, s) /\ Modes(b)
  BY <1>3, <1>9 DEF SpiInv, BusOK
<1>11. b.lock = t /\ b.hold = s.hold /\ b.cs = s.cs /\ (s.own # Null => b.owner = s.own)
       /\ (s.set = "yes" => b.config[Flash].mode = 3)
  BY <1>7, <1>10 DEF FitsBus
<1>12. b.dma = "off" /\ b.sem = (IF Long(cmd) THEN 1 ELSE 0)
  <2>1. Transfers(b, call[t]) /\ Head(call[t].todo) = x
    BY <1>3, <1>10, <1>11, ThreadAssumption DEF BusOK, First
  <2>2. Long(cmd) => b.sem > 0
    BY <1>3, <1>6, <1>9 DEF XferEnd
  <2> QED  BY <1>3, <1>6, <2>1, <2>2 DEF Transfers
<1>13. PICK cs : cs = IF x.release THEN {} ELSE s.cs
  OBVIOUS
<1>14. c = [b EXCEPT !.moving = Null, !.cs = cs, !.sem = 0]
  <2>1. Deselect(x) = cs
    BY <1>5, <1>7, <1>9, <1>11, <1>13 DEF Deselect
  <2>2. (IF Long(x.data) THEN b.sem - 1 ELSE b.sem) = 0
    BY <1>6, <1>12
  <2>3. c = [b EXCEPT !.moving = Null, !.cs = Deselect(x), !.sem = IF Long(x.data) THEN b.sem - 1 ELSE b.sem]
    BY <1>3, <1>9, <1>10 DEF XferEnd, Bus
  <2> QED  BY <2>1, <2>2, <2>3
<1>15. /\ c.lock = t /\ c.hold = b.hold /\ c.cs = cs /\ c.owner = b.owner /\ c.hw = b.hw
       /\ c.moving = Null /\ c.dma = "off" /\ c.sem = 0 /\ c.config = b.config
  BY <1>10, <1>11, <1>12, <1>14 DEF Bus
<1>16. c \in Bus
  <2>1. cs \in SUBSET SpiDevice
    BY <1>3, <1>13 DEF Stage
  <2> QED  BY <1>10, <1>14, <2>1 DEF Bus
<1>17. FitsBus(c, t, m)
  BY <1>7, <1>8, <1>11, <1>13, <1>15 DEF FitsBus
<1>18. BusKept(b, c, t)
  BY <1>11, <1>15 DEF BusKept
<1>19. /\ Follows(call'[t], m) /\ ~Ending(call'[t])
       /\ \A u \in Thread \ {t} : call'[u] = call[u]
  BY <1>3, GoesOn
<1>20. BusOK(c, call')
  <2>1. Modes(c) /\ Still(c) /\ c.lock # Null
    BY <1>10, <1>15, ThreadAssumption DEF Modes, Still
  <2> QED  BY <1>15, <1>19, <2>1, MineOK
<1>21. Flash \in ready' => c.config[Flash].mode = 3
  BY <1>1, <1>9, <1>15 DEF SpiInv
<1>22. PICK k, n : k = chip /\ n = chip'
  OBVIOUS
<1>23. k \in Chip /\ FitsChip(k, t, s) /\ (k.lock = Null => ~k.busy) /\ ~lost
  BY <1>3, <1>22 DEF SpiInv
<1>24. n \in Chip /\ (n.lock = Null => ~n.busy) /\ ChipKept(k, n, t) /\ FitsChip(n, t, m) /\ lost' = lost
  <2>1. CASE d = Flash /\ x.release
    <3>1. s.flash \in LockedFlash
      BY <1>3, <1>7, <2>1 DEF Stage, LockedFlash
    <3>2. Takes(cmd) /\ Command(cmd) \in Chip /\ Command(cmd).lock = t /\ FitsChip(Command(cmd), t, m)
      BY <1>7, <1>8, <1>22, <1>23, <2>1, <3>1, CommandTaken
    <3>3. n = Command(cmd)
      BY <1>3, <1>5, <1>6, <1>22, <2>1, <3>2 DEF XferEnd
    <3>4. lost' = lost
      <4>1. lost' = (lost \/ bus.dma # "off" \/ ((x.dev = Flash /\ x.release) /\ ~Takes(x.data)))
        BY <1>3, Zenon DEF XferEnd
      <4>2. lost' = FALSE
        BY <1>6, <1>9, <1>12, <1>23, <3>2, <4>1, Zenon
      <4>3. lost = FALSE
        BY DEF SpiInv
      <4> QED  BY <4>2, <4>3
    <3>5. k.lock = t
      BY <1>7, <1>23, <2>1 DEF FitsChip
    <3>6. ChipKept(k, n, t)
      BY <3>2, <3>3, <3>5 DEF ChipKept
    <3> QED  BY <3>2, <3>3, <3>4, <3>6, ThreadAssumption
  <2>2. CASE ~(d = Flash /\ x.release)
    <3>1. n = k
      BY <1>3, <1>5, <1>22, <2>2 DEF XferEnd
    <3>2. FitsChip(n, t, m)
      BY <1>8, <1>23, <2>2, <3>1 DEF FitsChip
    <3>3. lost' = lost
      <4>1. lost' = (lost \/ bus.dma # "off" \/ ((x.dev = Flash /\ x.release) /\ ~Takes(x.data)))
        BY <1>3, Zenon DEF XferEnd
      <4>2. lost' = FALSE
        BY <1>5, <1>9, <1>12, <1>23, <2>2, <4>1, Zenon
      <4>3. lost = FALSE
        BY DEF SpiInv
      <4> QED  BY <4>2, <4>3
    <3> QED  BY <1>23, <3>1, <3>2, <3>3 DEF ChipKept
  <2> QED  BY <2>1, <2>2
<1> QED  BY <1>3, <1>9, <1>16, <1>17, <1>18, <1>19, <1>20, <1>21, <1>22, <1>24, StepKeeps

\* The end of a transfer by DMA, or its failure.
LEMMA DmaKeeps == ASSUME SpiInv, DmaComplete \/ DmaError PROVE SpiInv'
<1>1. PICK b, c : b = bus /\ c = bus'
  OBVIOUS
<1>2. b \in Bus /\ BusOK(b, call) /\ Modes(b) /\ b.dma = "run" /\ UNCHANGED <<call, chip, ready, lost>>
  BY <1>1 DEF SpiInv, BusOK, DmaComplete, DmaError
<1>3. c = [b EXCEPT !.dma = "off", !.sem = @ + 1] \/ c = [b EXCEPT !.dma = "failed"]
  BY <1>1 DEF DmaComplete, DmaError
<1>4. /\ c.lock = b.lock /\ c.hold = b.hold /\ c.cs = b.cs /\ c.owner = b.owner /\ c.hw = b.hw
      /\ c.moving = b.moving /\ c.config = b.config
      /\ (c.dma = "off" /\ c.sem = b.sem + 1) \/ (c.dma = "failed" /\ c.sem = b.sem)
  <2>1. CASE c = [b EXCEPT !.dma = "off", !.sem = @ + 1]
    BY <1>2, <2>1 DEF Bus
  <2>2. CASE c = [b EXCEPT !.dma = "failed"]
    BY <1>2, <2>2 DEF Bus
  <2> QED  BY <1>3, <2>1, <2>2
<1>5. c \in Bus
  <2>1. b.sem + 1 \in Nat
    BY <1>2 DEF Bus
  <2>2. c = [b EXCEPT !.dma = "off", !.sem = b.sem + 1] \/ c = [b EXCEPT !.dma = "failed"]
    BY <1>2, <1>3 DEF Bus
  <2>3. CASE c = [b EXCEPT !.dma = "off", !.sem = b.sem + 1]
    BY <1>2, <2>1, <2>3 DEF Bus
  <2>4. CASE c = [b EXCEPT !.dma = "failed"]
    BY <1>2, <2>4 DEF Bus
  <2> QED  BY <2>2, <2>3, <2>4
<1>6. PICK d : d = call /\ d = call'
  BY <1>2
<1>7. BusOK(c, d)
  <2>1. BusOK(b, d)
    BY <1>2, <1>6
  <2>2. b.lock # Null /\ Transfers(b, d[b.lock])
    BY <1>2, <2>1 DEF BusOK, Still
  <2>3. Ending(d[b.lock])
    BY <1>2, <2>2 DEF Transfers, Still
  <2>4. PICK e : e = d[b.lock]
    OBVIOUS
  <2>5. b.moving = Head(e.todo).dev /\ b.sem = 0 /\ Long(Head(e.todo).data)
    BY <1>2, <2>2, <2>3, <2>4 DEF Transfers
  <2>6. Transfers(c, e)
    BY <1>4, <2>3, <2>4, <2>5 DEF Transfers
  <2>7. Modes(c)
    BY <1>2, <1>4 DEF Modes
  <2> QED  BY <1>4, <2>2, <2>4, <2>6, <2>7 DEF BusOK
<1>8. SpiThreads'
  <2> SUFFICES ASSUME NEW u \in Thread
               PROVE  \E s \in Stage : FitsBus(c, u, s) /\ FitsChip(chip', u, s) /\ Follows(call'[u], s)
    BY <1>1 DEF SpiThreads
  <2>1. PICK s \in Stage : FitsBus(b, u, s) /\ FitsChip(chip, u, s) /\ Follows(call[u], s)
    BY <1>1 DEF SpiInv, SpiThreads
  <2>2. FitsBus(c, u, s)
    BY <1>4, <2>1 DEF FitsBus
  <2> QED  BY <1>2, <2>1, <2>2
<1>9. Flash \in ready => c.config[Flash].mode = 3
  BY <1>1, <1>4 DEF SpiInv
<1> QED  BY <1>1, <1>2, <1>5, <1>6, <1>7, <1>8, <1>9 DEF SpiInv

LEMMA ChipDoneKeeps == ASSUME SpiInv, ChipDone PROVE SpiInv'
<1>1. chip.busy /\ UNCHANGED <<call, bus, ready, lost>>
  BY DEF ChipDone
<1>2. PICK n : n = chip' /\ n = [chip EXCEPT !.busy = FALSE, !.wel = FALSE]
  BY DEF ChipDone
<1>3. n \in Chip /\ n.lock = chip.lock /\ ~n.busy
  <2>1. chip \in Chip
    BY DEF SpiInv
  <2> QED  BY <1>2, <2>1, Zenon DEF Chip
<1>4. SpiThreads'
  <2> SUFFICES ASSUME NEW u \in Thread
               PROVE  \E s \in Stage : FitsBus(bus', u, s) /\ FitsChip(n, u, s) /\ Follows(call'[u], s)
    BY <1>2 DEF SpiThreads
  <2>1. PICK s \in Stage : FitsBus(bus, u, s) /\ FitsChip(chip, u, s) /\ Follows(call[u], s)
    BY DEF SpiInv, SpiThreads
  <2>2. FitsChip(n, u, s)
    BY <1>1, <1>3, <2>1 DEF FitsChip
  <2> QED  BY <1>1, <2>1, <2>2
<1>5. BusOK(bus', call')
  BY <1>1 DEF SpiInv
<1> QED  BY <1>1, <1>2, <1>3, <1>4, <1>5 DEF SpiInv

\* A thread that is in no call begins one.
LEMMA StartKeeps ==
    ASSUME BaseOK(w, call), SpiInv, NEW t \in Thread, Free(t), NEW todo \in Calls(t), GoOn(t, todo), UNCHANGED spiVars
    PROVE  SpiInv'
<1>1. call[t].op = "idle" /\ ~Ending(call[t])
  BY RunningFacts DEF Ending
<1>2. PICK s \in Stage : FitsBus(bus, t, s) /\ FitsChip(chip, t, s) /\ Over(s)
  BY <1>1 DEF SpiInv, SpiThreads, Follows
<1>3. s.hold = 0 /\ s.own = Null /\ s.cs = {} /\ s.flash = "free"
  BY <1>2 DEF Over
<1>4. /\ Off \in Stage /\ Off.hold = 0 /\ Off.own = Null /\ Off.cs = {} /\ Off.flash = "free" /\ Off.set = "no"
      /\ Out("free") \in Stage /\ Out("free").hold = 0 /\ Out("free").own = Null /\ Out("free").cs = {}
      /\ Out("free").flash = "free" /\ Out("free").set = "yes"
  BY DEF Off, Out, St, Stage
<1>5. Over(Off) /\ Over(Out("free"))
  BY <1>4 DEF Over
<1>6. FitsBus(bus, t, Off) /\ FitsChip(chip, t, Off)
  BY <1>2, <1>3, <1>4 DEF FitsBus, FitsChip
<1>7. Flash \in ready => FitsBus(bus, t, Out("free")) /\ FitsChip(chip, t, Out("free"))
  <2>1. Flash \in ready => bus.config[Flash].mode = 3
    BY DEF SpiInv
  <2> QED  BY <1>2, <1>3, <1>4, <2>1 DEF FitsBus, FitsChip
<1>8. UNCHANGED <<bus, chip, lost>> /\ (Flash \in ready' => bus.config[Flash].mode = 3)
  BY DEF spiVars, SpiInv
<1>9. \/ CallPath(todo, Off, Off)
      \/ CallPath(todo, Off, Out("free"))
      \/ Flash \in ready /\ CallPath(todo, Out("free"), Out("free"))
  <2>1. CASE t \in w.app.senders
    <3>1. todo = rt_msd_init \/ \E several \in BOOLEAN : todo = rt_msd_read(several)
      BY <2>1 DEF Calls
    <3> QED  BY <3>1, CardInitGoes, CardReadGoes
  <2>2. CASE t \notin w.app.senders
    <3>1. \/ todo = w25qxx_init
          \/ Flash \in ready /\ todo \in {w25qxx_flash_open, w25qxx_flash_read, w25qxx_flash_write}
      BY <2>2 DEF Calls
    <3>2. CallPath(w25qxx_init, Off, Out("free"))
      BY InitRuns, RunsGoes DEF Off
    <3>3. /\ CallPath(w25qxx_flash_open, Out("free"), Out("free"))
          /\ CallPath(w25qxx_flash_read, Out("free"), Out("free"))
          /\ CallPath(w25qxx_flash_write, Out("free"), Out("free"))
      BY OpenRuns, ReadRuns, WriteRuns, RunsGoes
    <3> QED  BY <3>1, <3>2, <3>3
  <2> QED  BY <2>1, <2>2
<1>10. CASE CallPath(todo, Off, Off)
  BY <1>1, <1>4, <1>5, <1>6, <1>8, <1>10, CallStepKeeps
<1>11. CASE CallPath(todo, Off, Out("free"))
  BY <1>1, <1>4, <1>5, <1>6, <1>8, <1>11, CallStepKeeps
<1>12. CASE Flash \in ready /\ CallPath(todo, Out("free"), Out("free"))
  BY <1>1, <1>4, <1>5, <1>7, <1>8, <1>12, CallStepKeeps
<1> QED  BY <1>9, <1>10, <1>11, <1>12

LEMMA SpiStepKeeps == ASSUME BaseOK(w, call), SpiInv, SpiStep PROVE SpiInv'
<1>1. SpiNext
  BY DEF SpiStep
<1>2. ASSUME NEW t \in Thread, Free(t), \E todo \in Calls(t) : GoOn(t, todo), UNCHANGED spiVars PROVE SpiInv'
  BY <1>2, StartKeeps
<1>3. ASSUME NEW t \in Thread,
             \/ LockBus(t) \/ UnlockBus(t) \/ OwnBus(t) \/ SetConfig(t) \/ Configure(t)
             \/ XferBegin(t) \/ XferEnd(t)
             \/ LockFlash(t) \/ UnlockFlash(t) \/ IfBusy(t) \/ Register(t) \/ FromCard(t)
      PROVE  SpiInv'
  BY <1>3, LockBusKeeps, UnlockBusKeeps, OwnBusKeeps, SetConfigKeeps, ConfigureKeeps, XferBeginKeeps,
     XferEndKeeps, LockFlashKeeps, UnlockFlashKeeps, IfBusyKeeps, RegisterKeeps, FromCardKeeps
<1> QED  BY <1>1, <1>2, <1>3, DmaKeeps, ChipDoneKeeps DEF SpiNext

\* The steps of the other objects.
LEMMA KeepsSpi ==
    ASSUME SpiInv, UNCHANGED spiVars,
           \A u \in Thread : call[u].op = "spi" \/ call'[u].op = "spi" => call'[u] = call[u]
    PROVE  SpiInv'
<1>1. bus' = bus /\ chip' = chip /\ ready' = ready /\ lost' = lost
  BY DEF spiVars
<1>2. ASSUME NEW u \in Thread, NEW s \in Stage, Follows(call[u], s)
      PROVE  Follows(call'[u], s)
  BY <1>2 DEF Follows
<1>3. SpiThreads'
  BY <1>1, <1>2 DEF SpiInv, SpiThreads
<1>4. BusOK(bus, call')
  <2>1. PICK l \in Thread \cup {Null} : l = bus.lock
    BY DEF SpiInv, Bus
  <2>2. CASE l = Null
    BY <2>1, <2>2 DEF SpiInv, BusOK
  <2>3. CASE l \in Thread
    <3>1. PICK s \in Stage : FitsBus(bus, l, s) /\ Follows(call[l], s)
      BY <2>3 DEF SpiInv, SpiThreads
    <3>2. s.hold > 0
      BY <2>1, <3>1 DEF FitsBus
    <3>3. call[l].op = "spi"
      BY <3>1, <3>2 DEF Follows, Over
    <3>4. call'[l] = call[l]
      BY <2>3, <3>3
    <3> QED  BY <2>1, <3>4 DEF SpiInv, BusOK
  <2> QED  BY <2>2, <2>3
<1> QED  BY <1>1, <1>3, <1>4 DEF SpiInv

LEMMA NextSpiInv ==
    ASSUME \A a \in Apps : Orderly(a), MaxIndex < IndexMod, DriversInv, SpiInv, Next
    PROVE  SpiInv'
<1>0. BaseOK(w, call)
  BY DEF DriversInv
<1>1. Orderly(w.app)
  BY <1>0, AppOrderly
<1>2. ASSUME NEW ops \in {DoneOps, WorkOps, PipeOps, DqOps, RxOps}, NEW qs,
             Frame(w, call, w', call', ops, qs), UNCHANGED spiVars
      PROVE  SpiInv'
  <2>1. {"spi"} \cap ops = {}
    BY <1>2 DEF DoneOps, WorkOps, PipeOps, DqOps, RxOps
  <2>2. {} \subseteq Queue /\ {} \cap qs = {} /\ Affects(w, call, w', call', ops, qs)
    BY <1>2 DEF Frame
  <2>3. Foreign({"spi"}, {})
    BY <2>1, <2>2, AffectsOthers
  <2> QED  BY <1>2, <2>3, KeepsSpi DEF Foreign
<1>3. CASE (\E t \in Thread : TimeoutOf(t)) \/ ResetStep
  <2>1. call' = call /\ UNCHANGED spiVars
    BY <1>3, Zenon DEF TimeoutOf, ResetStep, rt_data_queue_reset, Begin, DrainTest, DrainTake
  <2>2. \A u \in Thread : call'[u] = call[u]
    BY <2>1
  <2> QED  BY <2>1, <2>2, KeepsSpi
<1>4. CASE CompletionStep \/ SerialIntTxStep
  <2>1. UNCHANGED spiVars
    BY <1>4 DEF CompletionStep, SerialIntTxStep
  <2>2. Frame(w, call, w', call', DoneOps, {"done"})
    BY <1>0, <1>1, <1>4, CompletionOwn, IntTxOwn DEF DriversInv, DoneGoal
  <2> QED  BY <1>2, <2>1, <2>2
<1>5. CASE DataQueueStep \/ SerialDmaTxStep
  <2>1. UNCHANGED spiVars
    BY <1>5 DEF DataQueueStep, SerialDmaTxStep
  <2>2. Frame(w, call, w', call', DqOps, DqLists)
    BY <1>0, <1>1, <1>5, DataQueueOwn, DmaTxOwn DEF DriversInv, DqGoal
  <2> QED  BY <1>2, <2>1, <2>2
<1>6. CASE PipeStep
  <2>1. UNCHANGED spiVars
    BY <1>6 DEF PipeStep
  <2>2. Frame(w, call, w', call', PipeOps, PipeLists)
    BY <1>0, <1>1, <1>6, PipeOwn DEF DriversInv, PipeGoal
  <2> QED  BY <1>2, <2>1, <2>2
<1>7. CASE WorkQueueStep
  <2>1. UNCHANGED spiVars
    BY <1>7 DEF WorkQueueStep
  <2>2. Frame(w, call, w', call', WorkOps, {})
    BY <1>0, <1>1, <1>7, WorkOwn DEF DriversInv, WorkGoal
  <2> QED  BY <1>2, <2>1, <2>2
<1>8. CASE SerialRxStep
  <2>1. UNCHANGED spiVars
    BY <1>8 DEF SerialRxStep
  <2>2. Frame(w, call, w', call', RxOps, {})
    BY <1>0, <1>8, RxOwn
  <2> QED  BY <1>2, <2>1, <2>2
<1>9. CASE SpiStep
  BY <1>0, <1>9, SpiStepKeeps
<1> QED  BY <1>3, <1>4, <1>5, <1>6, <1>7, <1>8, <1>9 DEF Next

LEMMA InitSpiInv == Init => SpiInv
<1> SUFFICES ASSUME Init PROVE SpiInv
  OBVIOUS
<1>1. /\ bus = [lock |-> Null, hold |-> 0, owner |-> Null, hw |-> NoConfig,
                config |-> [d \in SpiDevice |-> NoConfig], cs |-> {}, moving |-> Null,
                dma |-> "off", sem |-> 0]
      /\ chip = [lock |-> Null, wel |-> FALSE, busy |-> FALSE, status |-> FALSE]
      /\ ready = {} /\ lost = FALSE
  BY DEF Init, SpiInit
<1>2. bus \in Bus
  BY <1>1 DEF Bus, Config
<1>3. chip \in Chip /\ chip.lock = Null /\ ~chip.busy
  BY <1>1 DEF Chip
<1>4. SpiThreads
  <2> SUFFICES ASSUME NEW u \in Thread
               PROVE  \E s \in Stage : FitsBus(bus, u, s) /\ FitsChip(chip, u, s) /\ Follows(call[u], s)
    BY DEF SpiThreads
  <2>1. call[u].op = "idle"
    BY InitCalls
  <2>2. /\ Off \in Stage /\ Off.hold = 0 /\ Off.own = Null /\ Off.cs = {} /\ Off.flash = "free" /\ Off.set = "no"
    BY DEF Off, St, Stage
  <2>3. Follows(call[u], Off)
    BY <2>1, <2>2 DEF Follows, Over
  <2>4. u # Null
    BY ThreadAssumption
  <2>5. FitsBus(bus, u, Off)
    BY <1>1, <2>2, <2>4 DEF FitsBus
  <2>6. FitsChip(chip, u, Off)
    BY <1>3, <2>2, <2>4 DEF FitsChip
  <2> QED  BY <2>2, <2>3, <2>5, <2>6
<1>5. BusOK(bus, call)
  <2>1. Card \in SpiDevice /\ bus.owner = Null /\ bus.config = [d \in SpiDevice |-> NoConfig] /\ Still(bus)
        /\ bus.lock = Null /\ bus.hold = 0 /\ bus.cs = {}
    BY <1>1, StepsPlain DEF Still
  <2>2. bus.config[Card].mode = 0
    BY <2>1 DEF NoConfig
  <2>3. Modes(bus)
    BY <2>1, <2>2 DEF Modes
  <2> QED  BY <2>1, <2>3 DEF BusOK
<1> QED  BY <1>1, <1>2, <1>3, <1>4, <1>5 DEF SpiInv

\* What the invariant says of the bus.
LEMMA SpiInvReady == SpiInv => BusReady
<1> SUFFICES ASSUME SpiInv PROVE BusShared /\ ~lost
  BY DEF BusReady
<1>1. bus \in Bus /\ BusOK(bus, call) /\ ~lost
  BY DEF SpiInv
<1>2. ASSUME bus.moving # Null
      PROVE  /\ bus.lock # Null /\ bus.cs \subseteq {bus.moving}
             /\ bus.hw.mode = bus.config[bus.moving].mode
             /\ bus.moving = Flash => bus.cs = {Flash}
  <2>1. PICK l \in Thread : l = bus.lock
    BY <1>1, <1>2 DEF Bus, BusOK, Still
  <2>2. Transfers(bus, call[l])
    BY <1>1, <2>1, ThreadAssumption DEF BusOK
  <2>3. Ending(call[l]) /\ bus.moving = Head(call[l].todo).dev
    BY <1>2, <2>2 DEF Transfers, Still
  <2>4. PICK s \in Stage : FitsBus(bus, l, s) /\ Follows(call[l], s)
    BY DEF SpiInv, SpiThreads
  <2>5. PICK x : x = Head(call[l].todo) /\ x.do = "end" /\ \E m \in Stage : Leads(s, x, m)
    <3>1. call[l].op = "spi" /\ Head(call[l].todo).do = "end"
      BY <2>3 DEF Ending
    <3>2. PICK todo \in Seq(Steps \cup Ended) : todo = call[l].todo /\ todo # <<>>
      BY <2>4, <3>1 DEF Follows
    <3>3. PICK m \in Stage : Taken(s, Head(todo), m)
      BY <2>4, <3>1, <3>2 DEF Follows
    <3>4. Head(todo) \in Steps \cup Ended
      BY <3>2
    <3>5. Leads(s, Head(todo), m)
      BY <3>1, <3>2, <3>3, <3>4, TakenLeads
    <3> QED  BY <3>1, <3>2, <3>5
  <2>6. /\ s.hold > 0 /\ s.own = x.dev /\ s.cs \subseteq {x.dev} /\ Chosen(x, s.cs) = s.cs
        /\ x.dev = Flash => Chosen(x, s.cs) = {Flash}
    BY <2>5 DEF Leads
  <2>7. bus.cs = s.cs /\ bus.owner = s.own
    BY <1>2, <2>3, <2>4, <2>5, <2>6 DEF FitsBus
  <2>8. bus.hw.mode = bus.config[bus.owner].mode
    BY <1>1, <1>2, <2>3, <2>5, <2>6, <2>7 DEF BusOK, Modes
  <2> QED  BY <2>1, <2>3, <2>5, <2>6, <2>7, <2>8, ThreadAssumption
<1>3. bus.lock = Null => bus.cs = {} /\ bus.moving = Null /\ bus.sem = 0
  BY <1>1 DEF BusOK, Still
<1> QED  BY <1>1, <1>2, <1>3 DEF BusShared

\* The inductive invariant of the SPI bus, for any threads, pages and applications:
\* every thread is at a stage of its call from which the rest of the call, as
\* spi_core.c, spi_flash_w25qxx.c and msd.c put it together, can go on and gives
\* everything back.
THEOREM SpiInvariance ==
    ASSUME \A a \in Apps : Orderly(a), MaxIndex < IndexMod
    PROVE  Spec => []SpiInv
<1>1. Init => SpiInv
  BY InitSpiInv
<1>2. DriversInv /\ SpiInv /\ [Next]_vars => SpiInv'
  <2>1. ASSUME DriversInv, SpiInv, Next PROVE SpiInv'
    BY <2>1, NextSpiInv
  <2>2. ASSUME SpiInv, UNCHANGED vars PROVE SpiInv'
    <3>1. call' = call /\ UNCHANGED spiVars
      BY <2>2 DEF vars
    <3> QED  BY <2>2, <3>1, KeepsSpi
  <2> QED  BY <2>1, <2>2
<1> QED  BY <1>1, <1>2, DriversInvariance, PTL DEF Spec

\* The devices share the bus: data moves in the mode of the one device selected, a free
\* bus is at rest, every command meets a chip that takes it, and every transfer is
\* complete before the device is deselected (spi_core.c, spi.c, spi_flash_w25qxx.c,
\* msd.c).
THEOREM BusReadyInvariance ==
    ASSUME \A a \in Apps : Orderly(a), MaxIndex < IndexMod
    PROVE  Spec => []BusReady
BY SpiInvReady, SpiInvariance, PTL

=============================================================================
