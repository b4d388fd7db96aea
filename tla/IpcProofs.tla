----------------------------- MODULE IpcProofs ------------------------------
(***************************************************************************)
(* Proofs about Ipc, for any threads, handlers, mutexes, sizes and         *)
(* applications.  First what a step of one object leaves alone: timeouts,  *)
(* detaches and the steps of the other objects are calm for it             *)
(* (CalmSteps).  Then an inductive invariant for every object, and the     *)
(* theorems: about waiting, mutexes and event sets, then about the objects *)
(* that count, whose permits, mails, messages and blocks are conserved.    *)
(*                                                                         *)
(* For message queues the invariant names the lists that the pointers      *)
(* make: a free list F and a message list M, without a common slot, whose  *)
(* other slots are each in the hand of one call.  Every section of a call  *)
(* takes a slot off one end or puts one on, and that keeps a list a list.  *)
(***************************************************************************)
EXTENDS Ipc, IpcWaitProofs

SemOps == {"idle", "sem"}
MutexOps == {"idle", "mutex"}
EventOps == {"idle", "event"}
MbOps == {"idle", "mb_send", "mb_recv"}
MqOps == {"idle", "mq"}
MpOps == {"idle", "mp"}

\* A step of the system on the wait state, with the priorities left alone.
WaitStep(ops, qs) == Step(w, call, w', call', ops, qs)

\* The lists of the objects.
LEMMA Queues == {"sem", "event", "mb_recv", "mb_send", "mq", "mp"} \cup Mutexes \subseteq Queue
BY DEF Queue, IpcQueue

\* The names of the objects are no mutexes.
LEMMA Names ==
    /\ \A q \in {"sem", "event", "mb_recv", "mb_send", "mq", "mp"} :
          q \notin Mutexes /\ OpOf(q) = q
    /\ \A m \in Mutexes : OpOf(m) = "mutex"
BY MutexesAssumption DEF IpcQueue, OpOf

\* A thread that runs is ready, and outside any call or in the one it was in.
LEMMA Runs ==
    ASSUME NEW t \in Thread
    PROVE  /\ Free(t) => w.stat[t] = "READY" /\ call[t].op = "idle"
           /\ \A op : Woken(t, op) => w.stat[t] = "READY" /\ call[t].op = op
           /\ t \in Caller /\ t \notin Isr
BY ThreadAssumption DEF Free, Woken, Running, Idle, Caller

\* What the calls record: the mutex of rt_mutex_take, the mail of
\* rt_mb_send_wait, and all fields of a message queue call.
CallOK(d) ==
    \A c \in Caller :
        /\ d[c].op = "mutex" => d[c].mutex \in Mutexes
        /\ d[c].op = "mb_send" => d[c].mail \in Mail
        /\ d[c].op = "mq" => DOMAIN d[c] = {"op", "at", "slot", "mail", "timeout"}

\* A call record is replaced.
LEMMA CallOKChange ==
    ASSUME NEW d, DOMAIN d = Caller, CallOK(d), NEW c \in Caller, NEW e,
           /\ e.op = "mutex" => e.mutex \in Mutexes
           /\ e.op = "mb_send" => e.mail \in Mail
           /\ e.op = "mq" => DOMAIN e = {"op", "at", "slot", "mail", "timeout"}
    PROVE  CallOK([d EXCEPT ![c] = e])
<1>1. \A u \in Caller : [d EXCEPT ![c] = e][u] = IF u = c THEN e ELSE d[u]
  OBVIOUS
<1> QED  BY <1>1 DEF CallOK

\* A thread or a handler returns from its call.
LEMMA StepReturn ==
    ASSUME WaitInv(w, call), CallOK(call), NEW c \in Caller, NEW ops, NEW qs,
           c \in Thread => w.stat[c] = "READY" /\ call[c].op \in ops, "idle" \in ops,
           Return(c), w' = w
    PROVE  WaitStep(ops, qs) /\ CallOK(call')
<1>1. Idle.op \in ops /\ ~WaitsIn(Idle, "mq")
  BY Names DEF Idle, WaitsIn
<1>2. Step(w, call, w, [call EXCEPT ![c] = Idle], ops, qs)
  BY <1>1, StepStay
<1>3. CallOK([call EXCEPT ![c] = Idle])
  BY CallOKChange DEF Idle, WaitInv
<1> QED  BY <1>2, <1>3 DEF WaitStep, Return

\* It resumes the first waiter of a list and returns.
LEMMA StepResumeReturn ==
    ASSUME WaitInv(w, call), CallOK(call), NEW c \in Caller, NEW ops, NEW qs, NEW q \in Queue,
           c \in Thread => w.stat[c] = "READY" /\ call[c].op \in ops, "idle" \in ops,
           OpOf(q) \in ops, q \in qs,
           Return(c), w' = ResumeFirst(w, q)
    PROVE  WaitStep(ops, qs) /\ CallOK(call')
<1>1. Idle.op \in ops /\ ~WaitsIn(Idle, "mq")
  BY Names DEF Idle, WaitsIn
<1> DEFINE r == ResumeFirst(w, q)
<1>2. Step(w, call, r, call, ops, qs)
  BY StepResumeFirst
<1>3. c \in Thread => r.stat[c] = "READY"
  BY ResumeFirstFields
<1> HIDE DEF r
<1>4. WaitInv(r, call)
  BY <1>2 DEF Step
<1>5. Step(r, call, r, [call EXCEPT ![c] = Idle], ops, qs)
  BY <1>1, <1>3, <1>4, StepStay
<1>6. CallOK([call EXCEPT ![c] = Idle])
  BY CallOKChange DEF Idle, WaitInv
<1> QED  BY <1>2, <1>5, <1>6, StepTrans DEF WaitStep, Return, r

-----------------------------------------------------------------------------

\* Semaphores: the operations of rt_sem_*.
LEMMA SemWaits ==
    ASSUME WaitInv(w, call), CallOK(call), SemNext
    PROVE  WaitStep(SemOps, {"sem"}) /\ CallOK(call')
<1>0. "sem" \in Queue /\ OpOf("sem") = "sem" /\ "sem" \notin Mutexes
  BY Queues, Names
<1>1. ASSUME NEW t \in Thread, NEW time, rt_sem_take(t, time)
      PROVE  WaitStep(SemOps, {"sem"}) /\ CallOK(call')
  <2>1. CASE UNCHANGED <<w, call>>
    BY <2>1, StepNone DEF WaitStep
  <2>2. CASE /\ w' = SuspendOn(w, "sem", t, time = "timed")
             /\ call' = [call EXCEPT ![t] = [op |-> "sem"]]
    <3> DEFINE e == [op |-> "sem"]
    <3>1. WaitsIn(e, "sem") /\ e.op \in SemOps /\ (time = "timed") \in BOOLEAN
      BY <1>0 DEF WaitsIn, SemOps
    <3>2. w.stat[t] = "READY" /\ call[t].op \in SemOps
      BY <1>1, Runs DEF rt_sem_take, SemOps
    <3>3. CallOK([call EXCEPT ![t] = e])
      BY Runs, CallOKChange DEF WaitInv
    <3> QED  BY <1>0, <2>2, <3>1, <3>2, <3>3, StepSuspend DEF WaitStep
  <2> QED  BY <1>1, <2>1, <2>2 DEF rt_sem_take
<1>2. ASSUME NEW t \in Thread, SemTaken(t)
      PROVE  WaitStep(SemOps, {"sem"}) /\ CallOK(call')
  BY <1>2, Runs, StepReturn DEF SemTaken, SemOps
<1>3. ASSUME rt_sem_release
      PROVE  WaitStep(SemOps, {"sem"}) /\ CallOK(call')
  <2>1. call' = call /\ (w' = w \/ w' = ResumeFirst(w, "sem"))
    BY <1>3 DEF rt_sem_release
  <2>2. Step(w, call, ResumeFirst(w, "sem"), call, SemOps, {"sem"})
    BY <1>0, StepResumeFirst DEF SemOps
  <2> QED  BY <2>1, <2>2, StepNone DEF WaitStep
<1>4. ASSUME NEW v, rt_sem_control(v)
      PROVE  WaitStep(SemOps, {"sem"}) /\ CallOK(call')
  <2>1. Step(w, call, ResumeAll(w, "sem"), call, SemOps, {"sem"})
    BY <1>0, StepResumeAll DEF SemOps
  <2> QED  BY <1>4, <2>1 DEF WaitStep, rt_sem_control
<1> QED  BY <1>1, <1>2, <1>3, <1>4 DEF SemNext

-----------------------------------------------------------------------------

\* Mailboxes: one evaluation of the loop of rt_mb_send_wait or rt_mb_recv.
LEMMA MbTryWaits ==
    ASSUME WaitInv(w, call), CallOK(call), NEW t \in Thread, w.stat[t] = "READY",
           call[t].op \in MbOps, NEW to,
           MbTryRecv(t, to) \/ \E m \in Mail : MbTrySend(t, m, to)
    PROVE  WaitStep(MbOps, {"mb_send", "mb_recv"}) /\ CallOK(call')
<1>0. t \in Caller /\ {"mb_send", "mb_recv"} \subseteq Queue
  BY Runs, Queues
<1>1. \A q \in {"mb_send", "mb_recv"} : q \notin Mutexes /\ OpOf(q) = q
  BY Names
<1>2. CASE Return(t) /\ w' = w
  BY <1>0, <1>2, StepReturn DEF MbOps
<1>3. ASSUME NEW q \in {"mb_send", "mb_recv"}, Return(t), w' = ResumeFirst(w, q)
      PROVE  WaitStep(MbOps, {"mb_send", "mb_recv"}) /\ CallOK(call')
  <2>1. q \in Queue /\ OpOf(q) \in MbOps
    BY <1>0, <1>1 DEF MbOps
  <2> QED  BY <1>0, <1>3, <2>1, StepResumeReturn DEF MbOps
<1>4. ASSUME NEW q \in {"mb_send", "mb_recv"}, NEW m, q = "mb_send" => m \in Mail,
             WaitSection(t, q, m, to)
      PROVE  WaitStep(MbOps, {"mb_send", "mb_recv"}) /\ CallOK(call')
  <2> DEFINE e == [op |-> q, mail |-> m, timeout |-> to]
  <2>1. e.op = q /\ e.mail = m
    OBVIOUS
  <2>2. w' = SuspendOn(w, q, t, to = "timed") /\ call' = [call EXCEPT ![t] = e]
    BY <1>4 DEF WaitSection
  <2>3. (to = "timed") \in BOOLEAN /\ q \in Queue
    BY <1>0
  <2> HIDE DEF e
  <2>4. WaitsIn(e, q) /\ e.op \in MbOps
    BY <1>1, <2>1 DEF WaitsIn, MbOps
  <2>5. CallOK([call EXCEPT ![t] = e])
    BY <1>0, <1>4, <2>1, CallOKChange DEF WaitInv
  <2>6. Step(w, call, w', call', MbOps, {"mb_send", "mb_recv"})
    BY <2>2, <2>3, <2>4, StepSuspend
  <2> QED  BY <2>2, <2>5, <2>6 DEF WaitStep
<1>5. CASE MbTryRecv(t, to)
  <2>1. \/ Return(t) /\ (w' = w \/ w' = ResumeFirst(w, "mb_send"))
        \/ WaitSection(t, "mb_recv", NoMail, to)
    BY <1>5 DEF MbTryRecv, RecvSection
  <2> QED  BY <1>2, <1>3, <1>4, <2>1
<1>6. ASSUME NEW m \in Mail, MbTrySend(t, m, to)
      PROVE  WaitStep(MbOps, {"mb_send", "mb_recv"}) /\ CallOK(call')
  <2>1. \/ Return(t) /\ (w' = w \/ w' = ResumeFirst(w, "mb_recv"))
        \/ WaitSection(t, "mb_send", m, to)
    BY <1>6 DEF MbTrySend, SendSection
  <2> QED  BY <1>2, <1>3, <1>4, <2>1
<1> QED  BY <1>5, <1>6

\* The operations of rt_mb_*.
LEMMA MbWaits ==
    ASSUME WaitInv(w, call), CallOK(call), MbNext
    PROVE  WaitStep(MbOps, {"mb_send", "mb_recv"}) /\ CallOK(call')
<1> DEFINE Goal == WaitStep(MbOps, {"mb_send", "mb_recv"}) /\ CallOK(call')
<1>0. /\ "mb_send" \in Queue /\ OpOf("mb_send") \in MbOps
      /\ "mb_recv" \in Queue /\ OpOf("mb_recv") \in MbOps
  BY Queues, Names DEF MbOps
<1>1. ASSUME NEW t \in Thread, NEW to, rt_mb_recv(t, to) \/ \E m \in Mail : rt_mb_send_wait(t, m, to)
      PROVE  Goal
  <2>1. Free(t) /\ (MbTryRecv(t, to) \/ \E m \in Mail : MbTrySend(t, m, to))
    BY <1>1 DEF rt_mb_recv, rt_mb_send_wait
  <2> QED  BY <2>1, Runs, MbTryWaits DEF MbOps
<1>2. ASSUME NEW t \in Thread, MbWokenSend(t) \/ MbWokenRecv(t)
      PROVE  Goal
  <2>1. t \in Caller /\ w.stat[t] = "READY" /\ call[t].op \in MbOps
    BY <1>2, Runs DEF MbWokenSend, MbWokenRecv, MbOps
  <2>2. CASE w' = w /\ Return(t)
    BY <2>1, <2>2, StepReturn DEF MbOps
  <2>3. CASE \E to : MbTryRecv(t, to)
    BY <2>1, <2>3, MbTryWaits
  <2>4. CASE call[t].op = "mb_send" /\ \E to : MbTrySend(t, call[t].mail, to)
    <3>1. call[t].mail \in Mail
      BY <2>1, <2>4 DEF CallOK
    <3> QED  BY <2>1, <2>4, <3>1, MbTryWaits
  <2>5. \/ w' = w /\ Return(t)
        \/ \E to : MbTryRecv(t, to)
        \/ call[t].op = "mb_send" /\ \E to : MbTrySend(t, call[t].mail, to)
    BY <1>2 DEF MbWokenSend, MbWokenRecv, Woken
  <2> QED  BY <2>2, <2>3, <2>4, <2>5
<1>3. ASSUME IsrRecv \/ \E m \in Mail : IsrSend(m)
      PROVE  Goal
  <2>1. call' = call /\ (w' = ResumeFirst(w, "mb_send") \/ w' = ResumeFirst(w, "mb_recv"))
    BY <1>3 DEF IsrRecv, IsrSend, RecvSection, SendSection
  <2> QED  BY <1>0, <2>1, StepResumeFirst DEF WaitStep
<1>4. ASSUME rt_mb_control
      PROVE  Goal
  <2> DEFINE r == ResumeAll(w, "mb_recv")
  <2>1. call' = call /\ w' = ResumeAll(r, "mb_send")
    BY <1>4 DEF rt_mb_control
  <2>2. Step(w, call, r, call, MbOps, {"mb_send", "mb_recv"})
    BY <1>0, StepResumeAll
  <2> HIDE DEF r
  <2>3. WaitInv(r, call)
    BY <2>2 DEF Step
  <2>4. Step(r, call, ResumeAll(r, "mb_send"), call, MbOps, {"mb_send", "mb_recv"})
    BY <1>0, <2>3, StepResumeAll
  <2> QED  BY <2>1, <2>2, <2>4, StepTrans DEF WaitStep
<1> QED  BY <1>1, <1>2, <1>3, <1>4 DEF MbNext

-----------------------------------------------------------------------------

\* Message queues: a caller, which may be a handler, between the sections of its
\* call.
LEMMA MqStayWaits ==
    ASSUME WaitInv(w, call), CallOK(call), NEW c \in Caller,
           c \in Thread => w.stat[c] = "READY" /\ call[c].op \in MqOps,
           NEW e, e.op = "mq", DOMAIN e = {"op", "at", "slot", "mail", "timeout"}, e.at # "wait",
           w' = w, call' = [call EXCEPT ![c] = e]
    PROVE  WaitStep(MqOps, {"mq"}) /\ CallOK(call')
<1>1. CallOK(call')
  BY CallOKChange DEF WaitInv
<1>2. e.op \in MqOps /\ ~WaitsIn(e, "mq")
  BY Names DEF WaitsIn, MqOps
<1> QED  BY <1>1, <1>2, StepStay DEF WaitStep

\* One evaluation of the loop of rt_mq_recv.
LEMMA MqTryWaits ==
    ASSUME WaitInv(w, call), CallOK(call), NEW c \in Caller,
           c \in Thread => w.stat[c] = "READY" /\ call[c].op \in MqOps,
           NEW to, c \in Isr => to = "none", MqTryRecv(c, to)
    PROVE  WaitStep(MqOps, {"mq"}) /\ CallOK(call')
<1>0. "mq" \in Queue /\ "mq" \notin Mutexes
  BY Queues, Names
<1>1. CASE Take(c)
  <2> DEFINE e == InCall("copy", msg_queue_head, text[msg_queue_head], "none")
  <2>1. /\ e.op = "mq" /\ DOMAIN e = {"op", "at", "slot", "mail", "timeout"}
        /\ e.at # "wait"
    BY DEF InCall
  <2>2. w' = w /\ call' = [call EXCEPT ![c] = e]
    BY <1>1 DEF Take
  <2> HIDE DEF e
  <2> QED  BY <2>1, <2>2, MqStayWaits
<1>2. CASE /\ to # "none"
           /\ w' = SuspendOn(w, "mq", c, to = "timed")
           /\ call' = [call EXCEPT ![c] = InCall("wait", Null, NoMail, to)]
  <2> DEFINE e == InCall("wait", Null, NoMail, to)
  <2>1. /\ e.op = "mq" /\ DOMAIN e = {"op", "at", "slot", "mail", "timeout"}
        /\ e.at = "wait"
    BY DEF InCall
  <2>2. w' = SuspendOn(w, "mq", c, to = "timed") /\ call' = [call EXCEPT ![c] = e]
    BY <1>2
  <2> HIDE DEF e
  <2>3. c \in Thread /\ (to = "timed") \in BOOLEAN
    BY <1>2 DEF Caller
  <2>4. WaitsIn(e, "mq") /\ e.op \in MqOps
    BY <1>0, <2>1 DEF WaitsIn, MqOps
  <2>5. CallOK([call EXCEPT ![c] = e])
    BY <2>1, CallOKChange DEF WaitInv
  <2>6. Step(w, call, w', call', MqOps, {"mq"})
    BY <1>0, <2>2, <2>3, <2>4, StepSuspend
  <2> QED  BY <2>2, <2>5, <2>6 DEF WaitStep
<1>3. CASE Return(c) /\ w' = w
  BY <1>3, StepReturn DEF MqOps
<1> QED  BY <1>1, <1>2, <1>3 DEF MqTryRecv

\* The operations of rt_mq_*.
LEMMA MqWaits ==
    ASSUME WaitInv(w, call), CallOK(call), MqNext
    PROVE  WaitStep(MqOps, {"mq"}) /\ CallOK(call')
<1> DEFINE Goal == WaitStep(MqOps, {"mq"}) /\ CallOK(call')
<1>0. "mq" \in Queue /\ OpOf("mq") \in MqOps
  BY Queues, Names DEF MqOps
<1>1. ASSUME NEW c \in Caller, MqFree(c)
      PROVE  c \in Thread => w.stat[c] = "READY" /\ call[c].op \in MqOps
  BY <1>1, Runs DEF MqFree, MqOps
<1>2. ASSUME NEW c \in Caller, NEW place, MqAt(c, place)
      PROVE  c \in Thread => w.stat[c] = "READY" /\ call[c].op \in MqOps
  BY <1>2 DEF MqAt, MqOps, Running
<1>3. ASSUME NEW c \in Caller, NEW m, rt_mq_send(c, m) \/ rt_mq_urgent(c, m)
      PROVE  Goal
  <2>1. PICK place \in {"fill", "fill_urgent"} : Alloc(c, m, place)
    BY <1>3 DEF rt_mq_send, rt_mq_urgent
  <2> DEFINE e == InCall(place, msg_queue_free, m, "none")
  <2>2. /\ e.op = "mq" /\ DOMAIN e = {"op", "at", "slot", "mail", "timeout"}
        /\ e.at # "wait"
    BY DEF InCall
  <2>3. w' = w /\ call' = [call EXCEPT ![c] = e] /\ MqFree(c)
    BY <2>1 DEF Alloc
  <2> HIDE DEF e
  <2> QED  BY <1>1, <2>2, <2>3, MqStayWaits
<1>4. ASSUME NEW c \in Caller, NEW to, rt_mq_recv(c, to)
      PROVE  Goal
  BY <1>1, <1>4, MqTryWaits DEF rt_mq_recv
<1>5. ASSUME NEW c \in Caller, Fill(c) \/ Copy(c)
      PROVE  Goal
  <2>1. PICK place \in {"link", "link_urgent", "free"} : Goto(c, place)
    BY <1>5 DEF Fill, Copy
  <2>2. w' = w /\ call[c].op = "mq" /\ \E at : MqAt(c, at)
    BY <1>5 DEF Fill, Copy, MqAt
  <2> DEFINE e == [call[c] EXCEPT !.at = place]
  <2>3. DOMAIN call[c] = {"op", "at", "slot", "mail", "timeout"}
    BY <2>2 DEF CallOK
  <2>4. /\ e.op = "mq" /\ DOMAIN e = {"op", "at", "slot", "mail", "timeout"}
        /\ e.at # "wait"
    BY <2>2, <2>3
  <2>5. call' = [call EXCEPT ![c] = e]
    BY <2>1 DEF Goto
  <2> HIDE DEF e
  <2> QED  BY <1>2, <2>2, <2>4, <2>5, MqStayWaits
<1>6. ASSUME NEW c \in Caller, Link(c) \/ LinkUrgent(c)
      PROVE  Goal
  <2>1. w' = ResumeFirst(w, "mq") /\ Return(c) /\ \E at : MqAt(c, at)
    BY <1>6 DEF Link, LinkUrgent
  <2> QED  BY <1>0, <1>2, <2>1, StepResumeReturn DEF MqOps
<1>7. ASSUME NEW c \in Caller, MqWokenRecv(c)
      PROVE  Goal
  <2>1. MqAt(c, "wait") /\ "mq" \notin Mutexes
    BY <1>7, Names DEF MqWokenRecv
  <2>2. c \in Thread
    BY <2>1 DEF MqAt, WaitInv, WaitsIn, Caller
  <2>3. c \notin Isr
    BY <2>2, Runs
  <2>4. CASE Return(c) /\ w' = w
    BY <1>2, <2>1, <2>4, StepReturn DEF MqOps
  <2>5. CASE \E to : MqTryRecv(c, to)
    BY <1>2, <2>1, <2>3, <2>5, MqTryWaits
  <2> QED  BY <1>7, <2>4, <2>5 DEF MqWokenRecv
<1>8. ASSUME NEW c \in Caller, FreeSlot(c)
      PROVE  Goal
  <2>1. w' = w /\ Return(c) /\ MqAt(c, "free")
    BY <1>8 DEF FreeSlot
  <2> QED  BY <1>2, <2>1, StepReturn DEF MqOps
<1>9. ASSUME rt_mq_control
      PROVE  Goal
  <2>1. w' = ResumeAll(w, "mq") /\ call' = call
    BY <1>9 DEF rt_mq_control
  <2> QED  BY <1>0, <2>1, StepResumeAll DEF WaitStep
<1> QED  BY <1>3, <1>4, <1>5, <1>6, <1>7, <1>8, <1>9 DEF MqNext

-----------------------------------------------------------------------------

\* Memory pools: one evaluation of the loop of rt_mp_alloc.
LEMMA MpTryWaits ==
    ASSUME WaitInv(w, call), CallOK(call), NEW t \in Thread, w.stat[t] = "READY",
           call[t].op \in MpOps, NEW time, TryAlloc(t, time)
    PROVE  WaitStep(MpOps, {"mp"}) /\ CallOK(call')
<1>0. t \in Caller /\ "mp" \in Queue /\ "mp" \notin Mutexes
  BY Runs, Queues, Names
<1>1. CASE Return(t) /\ w' = w
  BY <1>0, <1>1, StepReturn DEF MpOps
<1>2. CASE MpWait(t, time)
  <2> DEFINE e == [op |-> "mp", timeout |-> time]
             timed == time = "timed"
             r == SuspendOn(w, "mp", t, timed)
             l == <<t>> \o w.list["mp"]
             d == [call EXCEPT ![t] = e]
  <2>1. w' = [r EXCEPT !.list["mp"] = l] /\ call' = d
    BY <1>2 DEF MpWait, MpWaiters
  <2>2. WaitsIn(e, "mp") /\ e.op \in MpOps /\ timed \in BOOLEAN
    BY <1>0 DEF WaitsIn, MpOps
  <2> HIDE DEF timed
  <2>3. CallOK(d)
    BY <1>0, CallOKChange DEF WaitInv
  <2>4. Step(w, call, r, d, MpOps, {"mp"})
    BY <1>0, <2>2, StepSuspend
  <2>5. w \in Waits /\ w.list["mp"] \in Seq(Thread) /\ IsInjective(w.list["mp"])
    BY <1>0, ListType DEF WaitInv, Linked
  <2>6. t \notin ToSet(w.list["mp"])
    BY <1>0 DEF WaitInv, Linked
  <2>7. l \in Seq(Thread) /\ ToSet(l) = ToSet(w.list["mp"]) \cup {t} /\ IsInjective(l)
    BY <2>5, <2>6, ConsSet
  <2>8. ToSet(r.list["mp"]) = ToSet(w.list["mp"]) \cup {t}
    <3>1. \A p \in Queue : r.list[p] = IF p = "mp" THEN Enqueue(w, "mp", t) ELSE w.list[p]
      BY <1>0, <2>2, <2>5, SuspendOnFields
    <3> QED  BY <1>0, <2>5, <3>1, EnqueueProperties
  <2> HIDE DEF r, l, d
  <2>9. WaitInv(r, d)
    BY <2>4 DEF Step
  <2>10. Step(r, d, [r EXCEPT !.list["mp"] = l], d, MpOps, {"mp"})
    BY <1>0, <2>7, <2>8, <2>9, StepReorder
  <2> QED  BY <2>1, <2>3, <2>4, <2>10, StepTrans DEF WaitStep
<1> QED  BY <1>1, <1>2 DEF TryAlloc, Pop

\* The operations of rt_mp_*.
LEMMA MpWaits ==
    ASSUME WaitInv(w, call), CallOK(call), MpNext
    PROVE  WaitStep(MpOps, {"mp"}) /\ CallOK(call')
<1> DEFINE Goal == WaitStep(MpOps, {"mp"}) /\ CallOK(call')
<1>0. "mp" \in Queue /\ OpOf("mp") \in MpOps
  BY Queues, Names DEF MpOps
<1>1. ASSUME NEW t \in Thread, NEW time, rt_mp_alloc(t, time) PROVE Goal
  BY <1>1, Runs, MpTryWaits DEF rt_mp_alloc, MpOps
<1>2. ASSUME NEW t \in Thread, WokenAlloc(t) PROVE Goal
  <2>1. t \in Caller /\ w.stat[t] = "READY" /\ call[t].op \in MpOps
    BY <1>2, Runs DEF WokenAlloc, MpOps
  <2>2. CASE w' = w /\ Return(t)
    BY <2>1, <2>2, StepReturn DEF MpOps
  <2> QED  BY <1>2, <2>1, <2>2, MpTryWaits DEF WokenAlloc
<1>3. ASSUME IsrAlloc PROVE Goal
  BY <1>3, StepNone DEF IsrAlloc, Pop, WaitStep
<1>4. ASSUME NEW b, rt_mp_free(b) PROVE Goal
  <2>1. call' = call /\ (w' = w \/ w' = ResumeFirst(w, "mp"))
    BY <1>4 DEF rt_mp_free
  <2> QED  BY <1>0, <2>1, StepNone, StepResumeFirst DEF WaitStep
<1> QED  BY <1>1, <1>2, <1>3, <1>4 DEF MpNext

-----------------------------------------------------------------------------

\* s with another priority of o.
Priorities == 0..255
WithPriority(s, o, p) == [s EXCEPT !.prio[o] = p]

\* The fields after a change of the priority of o.
LEMMA PriorityFields ==
    ASSUME NEW s \in Waits, NEW o, NEW p \in Priorities
    PROVE  LET r == WithPriority(s, o, p)
           IN  /\ r \in Waits /\ r.app = s.app /\ r.stat = s.stat /\ r.timer = s.timer
               /\ r.list = s.list /\ r.error = s.error
               /\ \A u \in Thread : r.prio[u] = IF u = o THEN p ELSE s.prio[u]
<1> DEFINE r == WithPriority(s, o, p)
<1>1. r \in Waits
  BY ZenonT(40) DEF Waits, WithPriority, Priorities
<1>2. /\ r.app = s.app /\ r.stat = s.stat /\ r.timer = s.timer
      /\ r.list = s.list /\ r.error = s.error
  BY DEF Waits, WithPriority
<1>3. \A u \in Thread : r.prio[u] = IF u = o THEN p ELSE s.prio[u]
  BY DEF Waits, WithPriority
<1> HIDE DEF r
<1> QED  BY <1>1, <1>2, <1>3, Zenon DEF r

\* Mutexes: the priority of a thread changes.
LEMMA PriorityChange ==
    ASSUME NEW s, NEW d, WaitInv(s, d), NEW o, NEW p \in Priorities, NEW ops, NEW qs
    PROVE  LET r == WithPriority(s, o, p)
           IN  WaitInv(r, d) /\ Affects(s, d, r, d, ops, qs) /\ r.stat = s.stat
<1> DEFINE r == WithPriority(s, o, p)
<1>1. s \in Waits
  BY DEF WaitInv
<1>2. /\ r \in Waits /\ r.app = s.app /\ r.stat = s.stat /\ r.timer = s.timer
      /\ r.list = s.list /\ r.error = s.error
  BY <1>1, PriorityFields
<1> HIDE DEF r
<1>3. WaitInv(r, d)
  BY <1>2, WaitInvFields
<1>4. Affects(s, d, r, d, ops, qs)
  BY <1>2, AffectsFields
<1> QED  BY <1>2, <1>3, <1>4 DEF r

\* The operations of rt_mutex_*.
LEMMA MutexWaits ==
    ASSUME WaitInv(w, call), CallOK(call), MtxTypeOK, MtxNext
    PROVE  /\ WaitInv(w', call') /\ CallOK(call')
           /\ Affects(w, call, w', call', MutexOps, Mutexes)
<1> DEFINE Goal == /\ WaitInv(w', call') /\ CallOK(call')
                   /\ Affects(w, call, w', call', MutexOps, Mutexes)
<1>0. /\ Mutexes \subseteq Queue /\ \A m \in Mutexes : OpOf(m) \in MutexOps
      /\ w.app.mutexes \subseteq Mutexes
  BY Queues, Names, AppsAssumption DEF MutexOps, WaitInv, Waits
<1>a. ASSUME NEW t \in Thread, NEW e \in {"EOK", "ETIMEOUT", "ERROR"}, Free(t),
             w' = [w EXCEPT !.error[t] = e], call' = call
      PROVE  Goal
  <2>1. call[t].op \in MutexOps /\ w.stat[t] = "READY"
    BY <1>a, Runs DEF MutexOps
  <2> QED  BY <1>a, <2>1, StepError DEF Step
<1>1. ASSUME NEW m \in Mutexes, NEW t \in Thread, NEW time, rt_mutex_take(m, t, time)
      PROVE  Goal
  <2>1. CASE TakeAgain(m, t) \/ TakeFree(m, t)
    BY <1>1, <1>a, <2>1 DEF rt_mutex_take, TakeAgain, TakeFree, NoError
  <2>2. CASE w' = [w EXCEPT !.error[t] = "ETIMEOUT"] /\ call' = call
    BY <1>1, <1>a, <2>2 DEF rt_mutex_take
  <2>3. CASE /\ w' = SuspendOn(Inherit(w, owner[m], t), m, t, time = "timed")
             /\ call' = [call EXCEPT ![t] = [op |-> "mutex", mutex |-> m]]
    <3> DEFINE s == Inherit(w, owner[m], t)
               e == [op |-> "mutex", mutex |-> m]
    <3>0. s = w \/ s = WithPriority(w, owner[m], w.prio[t])
      BY DEF Inherit, WithPriority
    <3> HIDE DEF s
    <3>1. WaitInv(s, call) /\ Affects(w, call, s, call, MutexOps, Mutexes) /\ s.stat = w.stat
      <4>1. CASE s = w
        BY <4>1 DEF Affects
      <4>2. CASE s = WithPriority(w, owner[m], w.prio[t])
        <5>1. w.prio[t] \in Priorities
          BY DEF WaitInv, Waits, Priorities
        <5> QED  BY <4>2, <5>1, PriorityChange, Zenon
      <4> QED  BY <3>0, <4>1, <4>2
    <3>2. WaitsIn(e, m) /\ e.op \in MutexOps /\ (time = "timed") \in BOOLEAN
      BY <1>0 DEF WaitsIn, MutexOps
    <3>3. t \in Caller /\ w.stat[t] = "READY" /\ call[t].op \in MutexOps
      BY <1>1, Runs DEF rt_mutex_take, MutexOps
    <3>4. CallOK([call EXCEPT ![t] = e])
      BY <3>3, CallOKChange DEF WaitInv
    <3>5. Step(s, call, SuspendOn(s, m, t, time = "timed"), [call EXCEPT ![t] = e], MutexOps, Mutexes)
      BY <1>0, <3>1, <3>2, <3>3, StepSuspend
    <3> QED  BY <2>3, <3>1, <3>4, <3>5, AffectsTrans DEF Step, s
  <2> QED  BY <1>1, <2>1, <2>2, <2>3 DEF rt_mutex_take, TakeWait
<1>2. ASSUME NEW m \in Mutexes, NEW t \in Thread, rt_mutex_release(m, t)
      PROVE  Goal
  <2>1. CASE w' = [w EXCEPT !.error[t] = "ERROR"] /\ call' = call
    BY <1>2, <1>a, <2>1 DEF rt_mutex_release
  <2>2. CASE w' = w /\ call' = call
    BY <2>2 DEF Affects
  <2>3. CASE ReleaseLast(m) /\ call' = call
    <3> DEFINE s == Restore(w, m)
    <3>1. WaitInv(s, call) /\ Affects(w, call, s, call, MutexOps, Mutexes)
      <4>1. s = WithPriority(w, owner[m], original_priority[m]) /\ original_priority[m] \in Priorities
        BY DEF Restore, WithPriority, MtxTypeOK, Priorities
      <4> QED  BY <4>1, PriorityChange, Zenon
    <3>2. w' = s \/ w' = ResumeFirst(s, m)
      BY <2>3 DEF ReleaseLast
    <3> HIDE DEF s
    <3>3. Step(s, call, ResumeFirst(s, m), call, MutexOps, Mutexes)
      BY <1>0, <3>1, StepResumeFirst
    <3> QED  BY <2>3, <3>1, <3>2, <3>3, AffectsTrans DEF Step
  <2> QED  BY <1>2, <2>1, <2>2, <2>3 DEF rt_mutex_release
<1>3. ASSUME NEW t \in Thread, Taken(t)
      PROVE  Goal
  <2>1. t \in Caller /\ w.stat[t] = "READY" /\ call[t].op \in MutexOps
    BY <1>3, Runs DEF Taken, MutexOps
  <2>2. WaitStep(MutexOps, Mutexes) /\ CallOK(call')
    BY <1>3, <2>1, StepReturn DEF MutexOps, Taken
  <2> QED  BY <2>2 DEF WaitStep, Step
<1> QED  BY <1>0, <1>1, <1>2, <1>3 DEF MtxNext

-----------------------------------------------------------------------------

\* The thread timer of any wait: whatever call the thread is in.
LEMMA TimeoutWaits ==
    ASSUME WaitInv(w, call), NEW t \in Thread, TimeoutOf(t), NEW ops, call[t].op \in ops
    PROVE  WaitStep(ops, Queue) /\ call' = call
<1>1. Step(w, call, [Resume(w, t) EXCEPT !.error[t] = "ETIMEOUT"], call, ops, Queue)
  BY StepResumeError
<1> QED  BY <1>1 DEF TimeoutOf, TimedOut, WaitStep

\* The loop of a detach: its list is one of the queues.
DrainOK ==
    /\ drain \in [by   : {"nobody", "detach", "reset"},
                  at   : {"no", "test", "take", "gone", "wild"},
                  todo : Seq(Queue)]
    /\ drain.at \in {"test", "take"} => drain.todo # <<>>

\* The call of a detach or a reset has not touched the lists yet.
LEMMA BeginWaits ==
    ASSUME NEW by \in {"detach", "reset"}, NEW qs \in Seq(Queue), qs # <<>>, Begin(by, qs)
    PROVE  DrainOK' /\ w' = w /\ call' = call
BY DEF Begin, DrainOK

\* rt_ipc_list_resume_all, step by step.
LEMMA DrainWaits ==
    ASSUME WaitInv(w, call), DrainOK, DrainTest \/ DrainTake
    PROVE  /\ DrainOK' /\ call' = call
           /\ w' = w \/ \E t \in ToSet(w.list[Head(drain.todo)]) :
                           /\ w' = [Resume(w, t) EXCEPT !.error[t] = "ERROR"]
                           /\ WaitsIn(call[t], Head(drain.todo)) /\ t \in Thread
<1>1. CASE DrainTest
  <2>1. drain.todo \in Seq(Queue) /\ drain.todo # <<>> /\ w' = w /\ call' = call
    BY <1>1 DEF DrainTest, DrainOK
  <2>2. CASE drain' = NoDrain
    BY <2>1, <2>2 DEF NoDrain, DrainOK
  <2>3. CASE drain' = [drain EXCEPT !.at = "gone"] \/ drain' = [drain EXCEPT !.at = "take"]
    BY <1>1, <2>1, <2>3 DEF DrainOK, DrainTest
  <2>4. CASE Len(drain.todo) > 1 /\ drain' = [drain EXCEPT !.todo = Tail(@)]
    <3>1. Tail(drain.todo) \in Seq(Queue) /\ Len(Tail(drain.todo)) = Len(drain.todo) - 1
      BY <2>1, HeadTailSet
    <3>2. Tail(drain.todo) # <<>>
      <4> DEFINE l == drain.todo
                 r == Tail(l)
      <4>1. Len(l) > 1 /\ Len(l) \in Nat /\ Len(r) = Len(l) - 1
        BY <2>1, <2>4, <3>1
      <4> HIDE DEF l, r
      <4>2. r # <<>>
        BY <4>1
      <4> QED  BY <4>2 DEF l, r
    <3> QED  BY <2>1, <2>4, <3>1, <3>2 DEF DrainOK
  <2> QED  BY <1>1, <2>1, <2>2, <2>3, <2>4 DEF DrainTest
<1>2. CASE DrainTake
  <2> DEFINE q == Head(drain.todo)
  <2>0. drain.todo \in Seq(Queue) /\ drain.todo # <<>> /\ call' = call
    BY <1>2 DEF DrainTake, DrainOK
  <2>1. q \in Queue /\ call' = call
    BY <2>0
  <2>2. DrainOK'
    BY <1>2 DEF DrainTake, DrainOK
  <2>3. CASE w.list[q] # <<>>
    <3> DEFINE t == Head(w.list[q])
    <3>1. t \in Thread /\ t \in ToSet(w.list[q]) /\ WaitsIn(call[t], q)
      BY <2>1, <2>3, FirstWaits
    <3>2. w' = [Resume(w, t) EXCEPT !.error[t] = "ERROR"]
      BY <1>2, <2>3 DEF DrainTake
    <3> QED  BY <2>1, <2>2, <3>1, <3>2
  <2>4. CASE w.list[q] = <<>>
    BY <1>2, <2>1, <2>2, <2>4 DEF DrainTake
  <2> QED  BY <2>3, <2>4
<1> QED  BY <1>1, <1>2

-----------------------------------------------------------------------------

\* The loop of rt_event_send is well defined: it starts with the events added and
\* visits the waiters one after the other.
LEMMA WalkSteps ==
    ASSUME NEW es, w.list["event"] \in Seq(Thread)
    PROVE  /\ Walk(es)[0] = [set |-> set \cup es, event_set |-> event_set, w |-> w]
           /\ \A k \in 1..Len(w.list["event"]) :
                 Walk(es)[k] = Visit(Walk(es)[k - 1], w.list["event"][k])
<1> DEFINE l == w.list["event"]
           first == [set |-> set \cup es, event_set |-> event_set, w |-> w]
           IsWalk(f, m) ==
              f = [k \in 0..m |-> IF k = 0 THEN first ELSE Visit(f[k - 1], l[k])]
           T == {m \in Nat : \E f : IsWalk(f, m)}
<1>0. Len(l) \in Nat
  OBVIOUS
<1> HIDE DEF l, first
<1>1. 0 \in T
  <2> DEFINE f == [k \in 0..0 |-> first]
  <2>1. IsWalk(f, 0)
    OBVIOUS
  <2> QED  BY <2>1
<1>2. ASSUME NEW m \in Nat, m \in T PROVE m + 1 \in T
  <2>1. PICK f : IsWalk(f, m)
    BY <1>2
  <2> DEFINE g == [k \in 0..m + 1 |-> IF k = m + 1 THEN Visit(f[m], l[k]) ELSE f[k]]
  <2>2. \A k \in 0..m : f[k] = IF k = 0 THEN first ELSE Visit(f[k - 1], l[k])
    BY <2>1
  <2>3. \A k \in 0..m : g[k] = f[k]
    OBVIOUS
  <2>4. g[m + 1] = Visit(g[m], l[m + 1])
    BY <2>3
  <2>5. DOMAIN g = 0..m + 1 /\ g = [k \in 0..m + 1 |-> g[k]]
    OBVIOUS
  <2> HIDE DEF g
  <2>6. \A k \in 0..m + 1 : g[k] = IF k = 0 THEN first ELSE Visit(g[k - 1], l[k])
    <3> TAKE k \in 0..m + 1
    <3>1. CASE k = m + 1
      BY <2>4, <3>1
    <3>2. CASE k # m + 1
      <4>1. k \in 0..m /\ (k # 0 => k - 1 \in 0..m)
        BY <3>2
      <4> QED  BY <2>2, <2>3, <4>1
    <3> QED  BY <3>1, <3>2
  <2>7. IsWalk(g, m + 1)
    BY <2>5, <2>6
  <2> QED  BY <2>7
<1>3. \E f : IsWalk(f, Len(l))
  <2>1. Nat \subseteq T
    BY <1>1, <1>2, SetInduction, Zenon
  <2> QED  BY <1>0, <2>1
<1>4. IsWalk(Walk(es), Len(l))
  BY <1>3 DEF Walk, l, first
<1> HIDE DEF IsWalk
<1>5. \A k \in 0..Len(l) : Walk(es)[k] = IF k = 0 THEN first ELSE Visit(Walk(es)[k - 1], l[k])
  BY <1>4 DEF IsWalk
<1>6. Walk(es)[0] = first
  <2>1. 0 \in 0..Len(l)
    BY <1>0
  <2> QED  BY <1>5, <2>1
<1>7. \A k \in 1..Len(l) : Walk(es)[k] = Visit(Walk(es)[k - 1], l[k])
  <2> TAKE k \in 1..Len(l)
  <2>1. k \in 0..Len(l) /\ k # 0
    BY <1>0
  <2> QED  BY <1>5, <2>1
<1> QED  BY <1>6, <1>7 DEF l, first

WalkStates == [set : SUBSET Bit, event_set : [Thread -> SUBSET Bit], w : Waits]

\* The body of the loop, field by field: an unmet waiter is passed over, and a met
\* one is resumed with the events that are set, which RT_EVENT_FLAG_CLEAR clears.
LEMMA VisitFields ==
    ASSUME NEW s \in WalkStates, NEW t \in Thread
    PROVE  /\ Visit(s, t) \in WalkStates
           /\ ~Meets(s.event_set[t], event_info[t], s.set) => Visit(s, t) = s
           /\ Meets(s.event_set[t], event_info[t], s.set) =>
                 /\ Visit(s, t).w = Resume(s.w, t)
                 /\ Visit(s, t).event_set[t] = s.event_set[t] \cap s.set
                 /\ \A u \in Thread : u # t => Visit(s, t).event_set[u] = s.event_set[u]
                 /\ Visit(s, t).set \subseteq s.set
                 /\ event_info[t].clear => Visit(s, t).set = s.set \ (s.event_set[t] \cap s.set)
<1>1. CASE ~Meets(s.event_set[t], event_info[t], s.set)
  BY <1>1 DEF Visit
<1>2. CASE Meets(s.event_set[t], event_info[t], s.set)
  <2> DEFINE es == s.event_set[t] \cap s.set
             evs == [s.event_set EXCEPT ![t] = es]
             st == IF event_info[t].clear THEN s.set \ es ELSE s.set
             r == Resume(s.w, t)
  <2>1. es \subseteq Bit /\ s.event_set \in [Thread -> SUBSET Bit] /\ s.set \subseteq Bit /\ s.w \in Waits
    BY DEF WalkStates
  <2>2. evs \in [Thread -> SUBSET Bit] /\ evs[t] = es /\ \A u \in Thread : u # t => evs[u] = s.event_set[u]
    BY <2>1
  <2>3. st \subseteq s.set /\ st \subseteq Bit /\ (event_info[t].clear => st = s.set \ es)
    BY <2>1
  <2>4. r \in Waits
    BY <2>1, ResumeFields
  <2>5. Visit(s, t) = [s EXCEPT !.event_set = evs, !.set = st, !.w = r]
    BY <1>2 DEF Visit, WalkStates
  <2> HIDE DEF evs, st, r
  <2>6. /\ Visit(s, t) \in WalkStates
        /\ Visit(s, t).event_set = evs /\ Visit(s, t).set = st /\ Visit(s, t).w = r
    BY <2>2, <2>3, <2>4, <2>5 DEF WalkStates
  <2> QED  BY <1>2, <2>2, <2>3, <2>6 DEF r
<1> QED  BY <1>1, <1>2

\* A condition that is not met is not met by fewer events.
LEMMA MeetsMonotone ==
    ASSUME NEW es, NEW o, NEW less, NEW more, less \subseteq more, Meets(es, o, less)
    PROVE  Meets(es, o, more)
BY DEF Meets

\* What is true of the waiters, and of the threads that were resumed.
EventInv ==
    /\ EvtTypeOK /\ EventsDelivered
    /\ \A t \in ToSet(w.list["event"]) : event_set[t] = wanted[t] /\ wanted[t] # {}

\* The waiters that the walk has resumed in s.
Delivered(s) == ToSet(w.list["event"]) \ ToSet(s.w.list["event"])

\* What is true of rt_event_send(es) in s, when it has visited k waiters.
WalkInv(s, k, es) ==
    LET l == w.list["event"]
    IN  /\ s \in WalkStates
        /\ Step(w, call, s.w, call, EventOps, {"event"})
        /\ s.w.error = w.error
        /\ \A u \in Thread : s.w.timer[u] => w.timer[u]
        /\ ToSet(s.w.list["event"]) \subseteq ToSet(l)
        /\ \A i \in 1..Len(l) : i > k => l[i] \in ToSet(s.w.list["event"])
        /\ \A u \in Thread : u \notin Delivered(s) => s.event_set[u] = event_set[u]
        /\ \A i \in 1..Len(l) : i <= k /\ l[i] \in ToSet(s.w.list["event"]) =>
              ~Meets(event_set[l[i]], event_info[l[i]], s.set)
        /\ \A u \in Delivered(s) :
              /\ s.event_set[u] \subseteq event_set[u] /\ s.event_set[u] # {}
              /\ event_info[u].mode = "AND" => s.event_set[u] = event_set[u]
              /\ s.event_set[u] \subseteq set \cup es
              /\ event_info[u].clear => s.event_set[u] \cap s.set = {}
        /\ \A t, u \in Delivered(s) : t # u /\ event_info[t].clear /\ event_info[u].clear =>
              s.event_set[t] \cap s.event_set[u] = {}
        /\ s.set \subseteq set \cup es

\* One more waiter is visited.
LEMMA VisitWalk ==
    ASSUME WaitInv(w, call), EventInv, NEW es \in SUBSET Bit, NEW k \in Nat,
           k < Len(w.list["event"]), NEW s, WalkInv(s, k, es)
    PROVE  WalkInv(Visit(s, w.list["event"][k + 1]), k + 1, es)
<1> DEFINE l == w.list["event"]
           n == Len(l)
           t == l[k + 1]
           r == Visit(s, t)
<1>0. "event" \in Queue /\ OpOf("event") = "event" /\ "event" \in EventOps
  BY Queues, Names DEF EventOps
<1>1. l \in Seq(Thread) /\ n \in Nat /\ DOMAIN l = 1..n /\ IsInjective(l) /\ w \in Waits
  BY <1>0, ListType DEF WaitInv, Linked
<1>2. k + 1 \in 1..n /\ t \in Thread /\ t \in ToSet(l)
  BY <1>1 DEF ToSet
<1>3. s \in WalkStates /\ WaitInv(s.w, call) /\ s.w \in Waits /\ Linked(s.w)
  BY DEF WalkInv, Step, WaitInv
<1>4. t \in ToSet(s.w.list["event"])
  BY <1>1, <1>2 DEF WalkInv
<1>5. s.event_set[t] = event_set[t] /\ event_set[t] # {}
  BY <1>2, <1>4 DEF WalkInv, Delivered, EventInv
<1>6. \A i \in 1..n : i # k + 1 => l[i] # t
  BY <1>1, <1>2 DEF IsInjective
<1>7. CASE ~Meets(s.event_set[t], event_info[t], s.set)
  <2>1. r = s
    BY <1>2, <1>3, <1>7, VisitFields
  <2> HIDE DEF r
  <2>2. \A i \in 1..n : i > k + 1 => l[i] \in ToSet(s.w.list["event"])
    BY <1>1 DEF WalkInv
  <2>3. \A i \in 1..n : i <= k + 1 /\ l[i] \in ToSet(s.w.list["event"]) =>
              ~Meets(event_set[l[i]], event_info[l[i]], s.set)
    <3> SUFFICES ASSUME NEW i \in 1..n, i <= k + 1, l[i] \in ToSet(s.w.list["event"])
                 PROVE  ~Meets(event_set[l[i]], event_info[l[i]], s.set)
      OBVIOUS
    <3>1. CASE i = k + 1
      BY <1>5, <1>7, <3>1
    <3>2. CASE i # k + 1
      <4>1. i <= k
        BY <1>1, <3>2
      <4> QED  BY <4>1 DEF WalkInv
    <3> QED  BY <3>1, <3>2
  <2> HIDE DEF t
  <2>4. WalkInv(s, k + 1, es)
    BY <2>2, <2>3 DEF WalkInv
  <2> QED  BY <2>1, <2>4 DEF r, t
<1>8. CASE Meets(s.event_set[t], event_info[t], s.set)
  <2> DEFINE a == r.w.list["event"]
             b == s.w.list["event"]
  <2>1. /\ r \in WalkStates /\ r.w = Resume(s.w, t) /\ r.event_set[t] = s.event_set[t] \cap s.set
        /\ \A u \in Thread : u # t => r.event_set[u] = s.event_set[u]
        /\ r.set \subseteq s.set
        /\ event_info[t].clear => r.set = s.set \ (s.event_set[t] \cap s.set)
    <3>1. r \in WalkStates
      BY <1>2, <1>3, VisitFields
    <3>2. r.w = Resume(s.w, t) /\ r.event_set[t] = s.event_set[t] \cap s.set
      BY <1>2, <1>3, <1>8, VisitFields
    <3>3. \A u \in Thread : u # t => r.event_set[u] = s.event_set[u]
      BY <1>2, <1>3, <1>8, VisitFields
    <3>5. r.set \subseteq s.set
      BY <1>2, <1>3, <1>8, VisitFields
    <3>4. event_info[t].clear => r.set = s.set \ (s.event_set[t] \cap s.set)
      BY <1>2, <1>3, <1>8, VisitFields
    <3> HIDE DEF r, t
    <3> QED  BY <3>1, <3>2, <3>3, <3>4, <3>5
  <2> HIDE DEF r
  <2>2. ToSet(a) = ToSet(b) \ {t}
    <3> HIDE DEF t
    <3>1. ToSet(Resume(s.w, t).list["event"]) = ToSet(s.w.list["event"]) \ {t}
      BY <1>0, <1>2, <1>3, ResumeLists
    <3> QED  BY <2>1, <3>1
  <2>3. r.w.error = s.w.error
    BY <1>2, <1>3, <2>1, ResumeFields
  <2>t. \A u \in Thread : r.w.timer[u] => w.timer[u]
    <3>1. \A u \in Thread : Resume(s.w, t).timer[u] <=> u # t /\ s.w.timer[u]
      BY <1>2, <1>3, ResumeFields
    <3> HIDE DEF t
    <3> QED  BY <2>1, <3>1 DEF WalkInv
  <2>4. Step(s.w, call, r.w, call, EventOps, {"event"})
    <3>1. WaitsIn(call[t], "event")
      BY <1>0, <1>2 DEF WaitInv
    <3>2. call[t].op \in EventOps /\ \A q \in Queue : WaitsIn(call[t], q) => q \in {"event"}
      BY <1>0, <3>1, OneQueue
    <3>3. WaitInv(r.w, call) /\ Affects(s.w, call, r.w, call, EventOps, {"event"})
      BY <1>2, <1>3, <2>1, <3>2, WaitInvResume, AffectsResume
    <3>4. r.w.prio = s.w.prio
      BY <1>2, <1>3, <2>1, ResumeFields
    <3> QED  BY <3>3, <3>4 DEF Step
  <2>5. Step(w, call, r.w, call, EventOps, {"event"}) /\ r.w.error = w.error
    BY <2>3, <2>4, StepTrans DEF WalkInv
  <2> HIDE DEF a, b, t, l, n
  <2>6. ToSet(b) \subseteq ToSet(l) /\ \A i \in 1..n : i > k => l[i] \in ToSet(b)
    BY DEF WalkInv, l, n, b
  <2>7. Delivered(r) = Delivered(s) \cup {t} /\ t \notin Delivered(s)
    BY <1>2, <1>4, <2>2, <2>6 DEF Delivered, a, b, l
  <2>8. Delivered(s) \subseteq Thread
    BY <1>1 DEF Delivered, l, ToSet
  <2>9. \A i \in 1..n : i > k + 1 => l[i] \in ToSet(a)
    BY <1>1, <1>6, <2>2, <2>6
  <2>10. \A u \in Thread : u \notin Delivered(r) => r.event_set[u] = event_set[u]
    BY <2>1, <2>7 DEF WalkInv
  <2>11. \A i \in 1..n : i <= k + 1 /\ l[i] \in ToSet(a) =>
              ~Meets(event_set[l[i]], event_info[l[i]], r.set)
    <3> SUFFICES ASSUME NEW i \in 1..n, i <= k + 1, l[i] \in ToSet(a)
                 PROVE  ~Meets(event_set[l[i]], event_info[l[i]], r.set)
      OBVIOUS
    <3>1. l[i] # t /\ l[i] \in ToSet(b)
      BY <2>2
    <3>2. i <= k
      BY <1>1, <3>1 DEF t
    <3>3. ~Meets(event_set[l[i]], event_info[l[i]], s.set)
      BY <3>1, <3>2 DEF WalkInv, l, n, b
    <3> QED  BY <2>1, <3>3, MeetsMonotone
  <2>12. s.set \subseteq set \cup es /\ r.set \subseteq set \cup es
    BY <2>1 DEF WalkInv
  <2>13. \A u \in Delivered(r) :
            /\ r.event_set[u] \subseteq event_set[u] /\ r.event_set[u] # {}
            /\ event_info[u].mode = "AND" => r.event_set[u] = event_set[u]
            /\ r.event_set[u] \subseteq set \cup es
            /\ event_info[u].clear => r.event_set[u] \cap r.set = {}
    <3> SUFFICES ASSUME NEW u \in Delivered(r)
                 PROVE  /\ r.event_set[u] \subseteq event_set[u] /\ r.event_set[u] # {}
                        /\ event_info[u].mode = "AND" => r.event_set[u] = event_set[u]
                        /\ r.event_set[u] \subseteq set \cup es
                        /\ event_info[u].clear => r.event_set[u] \cap r.set = {}
      OBVIOUS
    <3>1. CASE u = t
      BY <1>5, <1>8, <2>1, <2>12, <3>1 DEF Meets
    <3>2. CASE u # t
      <4>1. u \in Delivered(s) /\ r.event_set[u] = s.event_set[u]
        BY <2>1, <2>7, <2>8, <3>2
      <4> QED  BY <2>1, <4>1 DEF WalkInv
    <3> QED  BY <3>1, <3>2
  <2>14. \A x, u \in Delivered(r) : x # u /\ event_info[x].clear /\ event_info[u].clear =>
              r.event_set[x] \cap r.event_set[u] = {}
    <3>1. ASSUME NEW u \in Delivered(s), event_info[u].clear
          PROVE  r.event_set[u] \cap r.event_set[t] = {}
      <4>1. r.event_set[u] = s.event_set[u] /\ s.event_set[u] \cap s.set = {}
        BY <2>1, <2>7, <2>8, <3>1 DEF WalkInv
      <4> QED  BY <2>1, <4>1
    <3>2. ASSUME NEW x \in Delivered(s), NEW u \in Delivered(s), x # u,
                 event_info[x].clear, event_info[u].clear
          PROVE  r.event_set[x] \cap r.event_set[u] = {}
      <4>1. r.event_set[u] = s.event_set[u] /\ r.event_set[x] = s.event_set[x]
        BY <2>1, <2>7, <2>8
      <4> QED  BY <3>2, <4>1 DEF WalkInv
    <3> QED  BY <2>7, <3>1, <3>2
  <2>15. WalkInv(r, k + 1, es)
    BY <2>1, <2>2, <2>5, <2>t, <2>6, <2>9, <2>10, <2>11, <2>12, <2>13, <2>14 DEF WalkInv, l, n, a, b
  <2> QED  BY <2>15 DEF r, t, l
<1> QED  BY <1>7, <1>8

\* The whole of rt_event_send.
LEMMA SendWalk ==
    ASSUME WaitInv(w, call), EventInv, NEW es \in SUBSET Bit, rt_event_send(es)
    PROVE  \E s : /\ WalkInv(s, Len(w.list["event"]), es)
                  /\ set' = s.set /\ event_set' = s.event_set /\ w' = s.w
<1> DEFINE l == w.list["event"]
           n == Len(l)
           T == {k \in Nat : k <= n => WalkInv(Walk(es)[k], k, es)}
<1>1. w \in Waits /\ l \in Seq(Thread) /\ n \in Nat /\ DOMAIN l = 1..n
  BY Queues, ListType DEF WaitInv
<1>2. 0 \in T
  <2> DEFINE first == [set |-> set \cup es, event_set |-> event_set, w |-> w]
  <2>1. Walk(es)[0] = first
    BY <1>1, WalkSteps
  <2>2. first \in WalkStates /\ first.w = w /\ first.set = set \cup es /\ first.event_set = event_set
    BY <1>1 DEF WalkStates, EventInv, EvtTypeOK
  <2> HIDE DEF first
  <2>3. Delivered(first) = {}
    BY <2>2 DEF Delivered
  <2>4. Step(w, call, w, call, EventOps, {"event"})
    BY StepNone
  <2>5. \A i \in 1..n : l[i] \in ToSet(l) /\ ~(i <= 0)
    BY <1>1 DEF ToSet
  <2>6. WalkInv(first, 0, es)
    BY <2>2, <2>3, <2>4, <2>5 DEF WalkInv
  <2> QED  BY <2>1, <2>6
<1>3. ASSUME NEW k \in Nat, k \in T PROVE k + 1 \in T
  <2> SUFFICES ASSUME k + 1 <= n PROVE WalkInv(Walk(es)[k + 1], k + 1, es)
    OBVIOUS
  <2>1. WalkInv(Walk(es)[k], k, es) /\ k < n /\ k + 1 \in 1..n /\ k + 1 - 1 = k
    BY <1>1, <1>3
  <2>2. Walk(es)[k + 1] = Visit(Walk(es)[k], l[k + 1])
    <3>1. \A j \in 1..n : Walk(es)[j] = Visit(Walk(es)[j - 1], l[j])
      BY <1>1, WalkSteps
    <3> HIDE DEF n, l
    <3> QED  BY <2>1, <3>1
  <2> QED  BY <2>1, <2>2, VisitWalk
<1>4. Nat \subseteq T
  BY <1>2, <1>3, SetInduction, Zenon
<1>5. WalkInv(Walk(es)[n], n, es)
  BY <1>1, <1>4
<1> QED  BY <1>5 DEF rt_event_send

\* The operations of rt_event_*.
LEMMA EventWaits ==
    ASSUME WaitInv(w, call), CallOK(call), EventInv, EvtNext
    PROVE  WaitStep(EventOps, {"event"}) /\ CallOK(call')
<1> DEFINE Goal == WaitStep(EventOps, {"event"}) /\ CallOK(call')
<1>0. "event" \in Queue /\ OpOf("event") \in EventOps /\ "event" \notin Mutexes
  BY Queues, Names DEF EventOps
<1>1. ASSUME NEW es \in SUBSET Bit, rt_event_send(es) PROVE Goal
  <2>1. call' = call
    BY <1>1 DEF rt_event_send
  <2> QED  BY <1>1, <2>1, SendWalk DEF WalkInv, WaitStep
<1>2. ASSUME NEW t \in Thread, NEW es, NEW o, NEW time, rt_event_recv(t, es, o, time) PROVE Goal
  <2>1. t \in Caller /\ w.stat[t] = "READY" /\ call[t].op \in EventOps
    BY <1>2, Runs DEF rt_event_recv, EventOps
  <2>2. ASSUME NEW e \in {"EOK", "ETIMEOUT"}, w' = [w EXCEPT !.error[t] = e], call' = call
        PROVE  Goal
    BY <2>1, <2>2, StepError DEF WaitStep
  <2>3. CASE /\ w' = SuspendOn(w, "event", t, time = "timed")
             /\ call' = [call EXCEPT ![t] = [op |-> "event"]]
    <3> DEFINE e == [op |-> "event"]
    <3>1. WaitsIn(e, "event") /\ e.op \in EventOps /\ (time = "timed") \in BOOLEAN
      BY <1>0 DEF WaitsIn, EventOps
    <3>2. CallOK([call EXCEPT ![t] = e])
      BY <2>1, CallOKChange DEF WaitInv
    <3> QED  BY <1>0, <2>1, <2>3, <3>1, <3>2, StepSuspend DEF WaitStep
  <2> QED  BY <1>2, <2>2, <2>3 DEF rt_event_recv
<1>3. ASSUME NEW t \in Thread, ReceivedEvents(t) PROVE Goal
  BY <1>3, Runs, StepReturn DEF ReceivedEvents, EventOps
<1>4. ASSUME rt_event_control PROVE Goal
  <2>1. w' = ResumeAll(w, "event") /\ call' = call
    BY <1>4 DEF rt_event_control
  <2> QED  BY <1>0, <2>1, StepResumeAll DEF WaitStep
<1> QED  BY <1>1, <1>2, <1>3, <1>4 DEF EvtNext

-----------------------------------------------------------------------------
(* A step of the system, seen from an object that it is not a step of.       *)

\* The lists, the calls and a detach.
BaseInv == WaitInv(w, call) /\ CallOK(call) /\ DrainOK

\* Seen from the calls op and their list q: nobody is resumed but with an error,
\* nobody runs, nobody begins to wait.
Calm(op, q) ==
    /\ Resumed(op)' = Resumed(op)
    /\ \A t \in Resumed(op) : call'[t] = call[t]
    /\ ToSet(w'.list[q]) \subseteq ToSet(w.list[q])
    /\ Len(w'.list[q]) <= Len(w.list[q])
    /\ w'.list[q] = w.list[q] \/ \E t : w'.list[q] = RemoveFirst(w.list[q], t)

\* A timeout or a detach: a waiter is resumed with an error.
Evicts ==
    /\ call' = call
    /\ \E t \in Thread, e \in {"ETIMEOUT", "ERROR"} :
          w.stat[t] = "SUSPEND" /\ w' = Evict(w, t, e)

\* Resumed of the model, for the state before and after a step.
LEMMA ResumedIsWoke ==
    ASSUME NEW op
    PROVE  Resumed(op) = Woke(w, call, op) /\ Resumed(op)' = Woke(w', call', op)
BY DEF Resumed, Woke

\* A step on other queues is calm on this one.
LEMMA CalmForeign ==
    ASSUME WaitInv(w, call), NEW ops, NEW qs, Affects(w, call, w', call', ops, qs),
           NEW op, op \notin ops, NEW q \in Queue, q \notin qs
    PROVE  Calm(op, q)
<1>1. Woke(w', call', op) = Woke(w, call, op) /\ \A t \in Woke(w, call, op) : call'[t] = call[t]
  BY WokeForeign
<1>2. w'.list[q] = w.list[q] /\ Len(w.list[q]) \in Nat
  BY ListType DEF Affects, WaitInv
<1> QED  BY <1>1, <1>2, ResumedIsWoke DEF Calm

\* A thread that is made ready without being served is calm on every queue.
LEMMA CalmEvicts ==
    ASSUME WaitInv(w, call), Evicts, NEW op, NEW q \in Queue
    PROVE  Calm(op, q) /\ WaitInv(w', call') /\ w'.prio = w.prio /\ w'.app = w.app
<1>1. PICK t \in Thread, e \in {"ETIMEOUT", "ERROR"} :
         w.stat[t] = "SUSPEND" /\ w' = Evict(w, t, e)
  BY DEF Evicts
<1>2. /\ WaitInv(w', call) /\ w'.prio = w.prio /\ w'.app = w.app
      /\ Woke(w', call, op) = Woke(w, call, op)
      /\ ToSet(w'.list[q]) = ToSet(w.list[q]) \ {t} /\ Len(w'.list[q]) <= Len(w.list[q])
  <2>1. WaitInv(w', call) /\ w'.prio = w.prio /\ w'.app = w.app
    BY <1>1, Evicted
  <2>2. Woke(w', call, op) = Woke(w, call, op)
    BY <1>1, Evicted
  <2>3. ToSet(w'.list[q]) = ToSet(w.list[q]) \ {t}
    BY <1>1, Evicted
  <2>4. Len(w'.list[q]) <= Len(w.list[q])
    BY <1>1, Evicted
  <2> QED  BY <2>1, <2>2, <2>3, <2>4
<1>l. w'.list[q] = RemoveFirst(w.list[q], t)
  BY <1>1, Evicted
<1>3. call' = call
  BY DEF Evicts
<1> QED  BY <1>2, <1>l, <1>3, ResumedIsWoke DEF Calm

\* Nothing changes.
LEMMA CalmStutter ==
    ASSUME WaitInv(w, call), w' = w, call' = call, NEW op, NEW q \in Queue
    PROVE  Calm(op, q)
<1>1. Len(w.list[q]) \in Nat
  BY ListType DEF WaitInv
<1> QED  BY <1>1, ResumedIsWoke DEF Calm

\* rt_thread_timeout serves nobody.
LEMMA TimeoutEvicts ==
    ASSUME WaitInv(w, call), NEW t \in Thread, TimeoutOf(t)
    PROVE  Evicts
<1>1. w.stat[t] = "SUSPEND"
  BY DEF WaitInv, Linked, TimeoutOf
<1> QED  BY <1>1 DEF Evicts, Evict, TimeoutOf, TimedOut

\* A detach begins, or a step of its loop.
LEMMA DetachEvicts ==
    ASSUME BaseInv, DetachStep
    PROVE  /\ DrainOK' /\ call' = call /\ (w' = w \/ Evicts)
           /\ UNCHANGED <<semVars, mutexVars, eventVars, mbVars, mqVars>>
           /\ UNCHANGED <<block_list, block_free_count, used, wild>>
           /\ UNCHANGED suspend_thread_count \/ MpDrainTake
<1>1. CASE Detach
  <2>1. \E qs \in Seq(Queue) : qs # <<>> /\ Begin("detach", qs)
    <3>1. w.app.mutexes \subseteq Mutexes
      BY AppsAssumption DEF BaseInv, WaitInv, Waits
    <3>2. ASSUME NEW m \in w.app.mutexes, rt_mutex_detach(m)
          PROVE  \E qs \in Seq(Queue) : qs # <<>> /\ Begin("detach", qs)
      <4>1. <<m>> \in Seq(Queue) /\ <<m>> # <<>>
        BY <3>1, Queues
      <4> QED  BY <3>2, <4>1 DEF rt_mutex_detach
    <3>3. \A q \in {"sem", "event", "mq", "mp"} : <<q>> \in Seq(Queue) /\ <<q>> # <<>>
      BY Queues
    <3>4. <<"mb_recv", "mb_send">> \in Seq(Queue) /\ <<"mb_recv", "mb_send">> # <<>>
      BY Queues
    <3> QED  BY <1>1, <3>2, <3>3, <3>4
             DEF Detach, rt_sem_detach, rt_event_detach, rt_mb_detach, rt_mq_detach, rt_mp_detach
  <2>2. DrainOK' /\ w' = w /\ call' = call
    BY <2>1, BeginWaits
  <2> QED  BY <1>1, <2>2 DEF Detach, mpVars
<1>2. CASE DrainTest \/ DrainTake
  <2>1. /\ DrainOK' /\ call' = call
        /\ w' = w \/ \E t \in ToSet(w.list[Head(drain.todo)]) :
                        /\ w' = [Resume(w, t) EXCEPT !.error[t] = "ERROR"]
                        /\ WaitsIn(call[t], Head(drain.todo)) /\ t \in Thread
    BY <1>2, DrainWaits DEF BaseInv
  <2>2. w' # w => Head(drain.todo) \in Queue
    <3>1. w' # w => DrainTake
      BY <1>2 DEF DrainTest
    <3>2. DrainTake => drain.todo \in Seq(Queue) /\ drain.todo # <<>>
      BY DEF DrainTake, BaseInv, DrainOK
    <3> QED  BY <3>1, <3>2
  <2>3. ASSUME NEW t \in Thread, NEW q \in Queue, t \in ToSet(w.list[q])
        PROVE  w.stat[t] = "SUSPEND"
    BY <2>3 DEF BaseInv, WaitInv, Linked
  <2>4. w' = w \/ Evicts
    BY <2>1, <2>2, <2>3 DEF Evicts, Evict
  <2>5. /\ UNCHANGED <<semVars, mutexVars, eventVars, mbVars, mqVars>>
        /\ UNCHANGED <<block_list, block_free_count, used, wild>>
        /\ UNCHANGED suspend_thread_count \/ MpDrainTake
    BY <1>2 DEF DetachStep, Detach, MpDrainTake, mpVars
  <2> QED  BY <2>1, <2>4, <2>5
<1> QED  BY <1>1, <1>2 DEF DetachStep, MpDrainTake

CalmMailbox == Calm("mb_send", "mb_send") /\ Calm("mb_recv", "mb_recv")
CalmMutexes == (\A m \in Mutexes : Calm("mutex", m)) /\ w'.prio = w.prio
CalmPool ==
    /\ Calm("mp", "mp") /\ UNCHANGED <<block_list, block_free_count, used, wild>>
    /\ UNCHANGED suspend_thread_count \/ MpDrainTake

\* Every step keeps the lists and the calls; from an object that it is not a step
\* of, it is calm.
LEMMA CalmSteps ==
    ASSUME BaseInv, MtxTypeOK, EventInv, [Next]_vars
    PROVE  /\ BaseInv' /\ w'.app = w.app
           /\ SemStep \/ (Calm("sem", "sem") /\ UNCHANGED semVars)
           /\ MutexStep \/ (CalmMutexes /\ UNCHANGED mutexVars)
           /\ EventStep \/ (Calm("event", "event") /\ UNCHANGED eventVars)
           /\ MailboxStep \/ (CalmMailbox /\ UNCHANGED mbVars)
           /\ MessageQueueStep \/ (Calm("mq", "mq") /\ UNCHANGED mqVars)
           /\ (MemPoolStep /\ drain' = drain) \/ CalmPool
<1> DEFINE Goal ==
           /\ BaseInv' /\ w'.app = w.app
           /\ SemStep \/ (Calm("sem", "sem") /\ UNCHANGED semVars)
           /\ MutexStep \/ (CalmMutexes /\ UNCHANGED mutexVars)
           /\ EventStep \/ (Calm("event", "event") /\ UNCHANGED eventVars)
           /\ MailboxStep \/ (CalmMailbox /\ UNCHANGED mbVars)
           /\ MessageQueueStep \/ (Calm("mq", "mq") /\ UNCHANGED mqVars)
           /\ (MemPoolStep /\ drain' = drain) \/ CalmPool
<1>0. WaitInv(w, call) /\ CallOK(call) /\ DrainOK
  BY DEF BaseInv
<1>q. /\ "sem" \in Queue /\ "event" \in Queue /\ "mb_send" \in Queue /\ "mb_recv" \in Queue
      /\ "mq" \in Queue /\ "mp" \in Queue /\ Mutexes \subseteq Queue
      /\ "sem" \notin Mutexes /\ "event" \notin Mutexes /\ "mb_send" \notin Mutexes
      /\ "mb_recv" \notin Mutexes /\ "mq" \notin Mutexes /\ "mp" \notin Mutexes
  BY Queues, Names
<1>d. ASSUME drain' = drain PROVE DrainOK'
  BY <1>0, <1>d DEF DrainOK
<1>a. ASSUME NEW ops, NEW qs, WaitStep(ops, qs)
      PROVE  /\ WaitInv(w', call') /\ w'.app = w.app /\ w'.prio = w.prio
             /\ \A op, q : op \notin ops /\ q \in Queue /\ q \notin qs => Calm(op, q)
  <2>1. WaitInv(w', call') /\ Affects(w, call, w', call', ops, qs) /\ w'.prio = w.prio
    BY <1>a DEF WaitStep, Step
  <2> QED  BY <1>0, <2>1, CalmForeign DEF Affects
<1>1. ASSUME SemStep PROVE Goal
  <2>1. WaitStep(SemOps, {"sem"}) /\ CallOK(call')
    BY <1>0, <1>1, SemWaits DEF SemStep
  <2>2. BaseInv' /\ w'.app = w.app
    BY <1>1, <1>a, <1>d, <2>1 DEF BaseInv, SemStep
  <2> QED  BY <1>1, <1>q, <1>a, <2>1, <2>2 DEF CalmMutexes, CalmMailbox, CalmPool, SemOps, SemStep, mpVars
<1>2. ASSUME MutexStep PROVE Goal
  <2>1. WaitInv(w', call') /\ CallOK(call') /\ Affects(w, call, w', call', MutexOps, Mutexes)
    BY <1>0, <1>2, MutexWaits DEF MutexStep
  <2>2. BaseInv' /\ w'.app = w.app
    BY <1>2, <1>d, <2>1 DEF BaseInv, MutexStep, Affects
  <2>3. \A op, q : op \notin MutexOps /\ q \in Queue /\ q \notin Mutexes => Calm(op, q)
    BY <1>0, <2>1, CalmForeign
  <2> QED  BY <1>2, <1>q, <2>2, <2>3 DEF CalmMailbox, CalmPool, MutexOps, MutexStep, mpVars
<1>3. ASSUME EventStep PROVE Goal
  <2>1. WaitStep(EventOps, {"event"}) /\ CallOK(call')
    BY <1>0, <1>3, EventWaits DEF EventStep
  <2>2. BaseInv' /\ w'.app = w.app
    BY <1>3, <1>a, <1>d, <2>1 DEF BaseInv, EventStep
  <2> QED  BY <1>3, <1>q, <1>a, <2>1, <2>2 DEF CalmMutexes, CalmMailbox, CalmPool, EventOps, EventStep, mpVars
<1>4. ASSUME MailboxStep PROVE Goal
  <2>1. WaitStep(MbOps, {"mb_send", "mb_recv"}) /\ CallOK(call')
    BY <1>0, <1>4, MbWaits DEF MailboxStep
  <2>2. BaseInv' /\ w'.app = w.app
    BY <1>4, <1>a, <1>d, <2>1 DEF BaseInv, MailboxStep
  <2> QED  BY <1>4, <1>q, <1>a, <2>1, <2>2 DEF CalmMutexes, CalmPool, MbOps, MailboxStep, mpVars
<1>5. ASSUME MessageQueueStep PROVE Goal
  <2>1. WaitStep(MqOps, {"mq"}) /\ CallOK(call')
    BY <1>0, <1>5, MqWaits DEF MessageQueueStep
  <2>2. BaseInv' /\ w'.app = w.app
    BY <1>5, <1>a, <1>d, <2>1 DEF BaseInv, MessageQueueStep
  <2> QED  BY <1>5, <1>q, <1>a, <2>1, <2>2
           DEF CalmMutexes, CalmMailbox, CalmPool, MqOps, MessageQueueStep, mpVars
<1>6. ASSUME MemPoolStep PROVE Goal
  <2>1. WaitStep(MpOps, {"mp"}) /\ CallOK(call')
    BY <1>0, <1>6, MpWaits DEF MemPoolStep
  <2>2. BaseInv' /\ w'.app = w.app /\ drain' = drain
    BY <1>6, <1>a, <1>d, <2>1 DEF BaseInv, MemPoolStep
  <2> QED  BY <1>6, <1>q, <1>a, <2>1, <2>2 DEF CalmMutexes, CalmMailbox, MpOps, MemPoolStep
<1>7. ASSUME Evicts \/ (w' = w /\ call' = call), DrainOK',
             UNCHANGED <<semVars, mutexVars, eventVars, mbVars, mqVars>>,
             UNCHANGED <<block_list, block_free_count, used, wild>>,
             UNCHANGED suspend_thread_count \/ MpDrainTake
      PROVE  Goal
  <2>1. \A op : \A q \in Queue : Calm(op, q)
    BY <1>0, <1>7, CalmEvicts, CalmStutter
  <2>2. WaitInv(w', call') /\ w'.prio = w.prio /\ w'.app = w.app
    BY <1>0, <1>7, <1>q, CalmEvicts
  <2>3. call' = call
    BY <1>7 DEF Evicts
  <2> QED  BY <1>0, <1>7, <1>q, <2>1, <2>2, <2>3 DEF BaseInv, CalmMutexes, CalmMailbox, CalmPool
<1>8. ASSUME NEW t \in Thread, TimeoutOf(t) PROVE Goal
  BY <1>0, <1>7, <1>8, <1>d, TimeoutEvicts DEF TimeoutOf, mpVars
<1>9. ASSUME DetachStep PROVE Goal
  BY <1>7, <1>9, DetachEvicts
<1>10. ASSUME UNCHANGED vars PROVE Goal
  BY <1>7, <1>10, <1>d DEF vars, mpVars
<1> QED  BY <1>1, <1>2, <1>3, <1>4, <1>5, <1>6, <1>8, <1>9, <1>10 DEF Next

-----------------------------------------------------------------------------

\* A thread that is in a call and READY is in no list.
LEMMA ReadyIsFree ==
    ASSUME WaitInv(w, call), NEW t \in Thread, w.stat[t] = "READY"
    PROVE  \A q \in Queue : t \notin ToSet(w.list[q])
BY DEF WaitInv, Linked

\* Being idle is no call.
LEMMA IdleIsNoCall ==
    \A op \in {"sem", "mutex", "event", "mb_send", "mb_recv", "mq", "mp"} : Idle.op # op
BY DEF Idle

\* A thread that waits in a call of a list is in the list.
LEMMA WaiterIsListed ==
    ASSUME WaitInv(w, call), NEW t \in Thread, w.stat[t] # "READY",
           NEW q \in Queue, q \notin Mutexes, call[t].op = q
    PROVE  t \in ToSet(w.list[q])
<1>1. w.stat[t] = "SUSPEND"
  BY DEF WaitInv, Waits
<1>2. PICK p \in Queue : t \in ToSet(w.list[p])
  BY <1>1 DEF WaitInv, Linked
<1>3. WaitsIn(call[t], p)
  BY <1>2 DEF WaitInv
<1>4. p = q
  BY <1>3, MutexesAssumption DEF WaitsIn, Queue, IpcQueue, DriverQueue
<1> QED  BY <1>2, <1>4

-----------------------------------------------------------------------------

\* Event sets: the steps of others.
LEMMA EventCalm ==
    ASSUME EventInv, Calm("event", "event"), UNCHANGED eventVars
    PROVE  EventInv'
BY DEF EventInv, EvtTypeOK, EventsDelivered, NoMissedEvent, ReceivesWanted, Calm, eventVars

\* rt_event_send keeps the invariant.
LEMMA SendKeepsEvents ==
    ASSUME WaitInv(w, call), EventInv, NEW es \in SUBSET Bit, rt_event_send(es)
    PROVE  EventInv'
<1> DEFINE l == w.list["event"]
           n == Len(l)
<1>1. PICK s : /\ WalkInv(s, n, es)
               /\ set' = s.set /\ event_set' = s.event_set /\ w' = s.w
  BY SendWalk
<1>2. event_info' = event_info /\ wanted' = wanted /\ call' = call
  BY DEF rt_event_send
<1>q. "event" \in Queue /\ "event" \notin Mutexes
  BY Queues, Names
<1>3. l \in Seq(Thread) /\ n \in Nat /\ ToSet(l) = {l[i] : i \in 1..n} /\ ToSet(l) \subseteq Thread
  BY <1>q, ListType DEF WaitInv, ToSet
<1>4. s \in WalkStates /\ WaitInv(s.w, call) /\ s.w.error = w.error
      /\ ToSet(s.w.list["event"]) \subseteq ToSet(l)
  BY <1>1 DEF WalkInv, Step
<1>5. EvtTypeOK'
  BY <1>1, <1>2, <1>4 DEF WalkStates, EventInv, EvtTypeOK
<1>6. \A t \in ToSet(s.w.list["event"]) : t \in Thread /\ s.event_set[t] = event_set[t]
  BY <1>1, <1>3, <1>4 DEF WalkInv, Delivered
<1>7. NoMissedEvent'
  <2>1. \A i \in 1..n : l[i] \in ToSet(s.w.list["event"]) =>
           ~Meets(event_set[l[i]], event_info[l[i]], s.set)
    BY <1>1, <1>3 DEF WalkInv
  <2>2. \A t \in ToSet(s.w.list["event"]) : ~Meets(s.event_set[t], event_info[t], s.set)
    BY <1>3, <1>4, <1>6, <2>1
  <2> QED  BY <1>1, <1>2, <2>2 DEF NoMissedEvent
<1>8. \A t \in ToSet(s.w.list["event"]) : s.event_set[t] = wanted[t] /\ wanted[t] # {}
  BY <1>4, <1>6 DEF EventInv
<1>9. ASSUME NEW t \in Thread, call[t].op = "event", s.w.stat[t] = "READY", w.error[t] = "EOK"
      PROVE  /\ s.event_set[t] \subseteq wanted[t] /\ s.event_set[t] # {}
             /\ event_info[t].mode = "AND" => s.event_set[t] = wanted[t]
  <2>1. CASE w.stat[t] = "READY"
    <3>1. t \notin ToSet(l) /\ t \in Resumed("event")
      BY <1>9, <1>q, <2>1, ReadyIsFree DEF Resumed
    <3>2. s.event_set[t] = event_set[t]
      BY <1>1, <3>1 DEF WalkInv, Delivered
    <3> QED  BY <3>1, <3>2 DEF EventInv, EventsDelivered, ReceivesWanted
  <2>2. CASE w.stat[t] # "READY"
    <3>1. t \in ToSet(l)
      BY <1>9, <1>q, <2>2, WaiterIsListed
    <3>2. t \notin ToSet(s.w.list["event"])
      BY <1>4, <1>9, <1>q DEF WaitInv, Linked
    <3>3. t \in Delivered(s) /\ event_set[t] = wanted[t]
      BY <3>1, <3>2 DEF Delivered, EventInv
    <3> QED  BY <1>1, <3>3 DEF WalkInv
  <2> QED  BY <2>1, <2>2
<1>10. ReceivesWanted'
  BY <1>1, <1>2, <1>4, <1>9 DEF ReceivesWanted, Resumed
<1> QED  BY <1>1, <1>2, <1>5, <1>7, <1>8, <1>10 DEF EventInv, EventsDelivered

\* The operations of rt_event_* keep the invariant.
LEMMA EventKept ==
    ASSUME WaitInv(w, call), EventInv, EvtNext
    PROVE  EventInv'
<1>q. "event" \in Queue /\ "event" \notin Mutexes /\ OpOf("event") = "event" /\ w \in Waits
  BY Queues, Names DEF WaitInv
<1>1. ASSUME NEW t \in Thread, NEW es \in SUBSET Bit, NEW o \in Option, NEW time,
             rt_event_recv(t, es, o, time)
      PROVE  EventInv'
  <2>0. w.stat[t] = "READY" /\ call[t].op = "idle"
    BY <1>1, Runs DEF rt_event_recv
  <2>r. t \notin Resumed("event") /\ t \notin ToSet(w.list["event"])
    BY <1>q, <2>0, ReadyIsFree DEF Resumed
  <2>1. ASSUME NEW e \in {"EOK", "ETIMEOUT"}, w' = [w EXCEPT !.error[t] = e], call' = call,
               set' \subseteq set, UNCHANGED <<event_set, event_info, wanted>>
        PROVE  EventInv'
    <3>1. w'.list = w.list /\ w'.stat = w.stat /\ \A u \in Thread : u # t => w'.error[u] = w.error[u]
      BY <1>q, <2>1 DEF Waits
    <3>2. Resumed("event")' = Resumed("event")
      BY <2>0, <2>1, <3>1 DEF Resumed
    <3>3. \A u \in ToSet(w.list["event"]) : ~Meets(event_set[u], event_info[u], set')
      BY <2>1, MeetsMonotone DEF EventInv, EventsDelivered, NoMissedEvent
    <3>4. EvtTypeOK'
      BY <2>1 DEF EventInv, EvtTypeOK
    <3> QED  BY <2>1, <3>1, <3>2, <3>3, <3>4 DEF EventInv, EventsDelivered, NoMissedEvent, ReceivesWanted
  <2>2. CASE /\ ~Meets(es, o, set)
             /\ event_set' = [event_set EXCEPT ![t] = es]
             /\ event_info' = [event_info EXCEPT ![t] = o]
             /\ w' = SuspendOn(w, "event", t, time = "timed")
             /\ call' = [call EXCEPT ![t] = [op |-> "event"]]
             /\ wanted' = [wanted EXCEPT ![t] = es]
             /\ UNCHANGED set
    <3> DEFINE timed == time = "timed"
               r == SuspendOn(w, "event", t, timed)
    <3>0. timed \in BOOLEAN
      OBVIOUS
    <3>w. w' = r
      BY <2>2
    <3> HIDE DEF timed
    <3>1. Woke(r, [call EXCEPT ![t] = [op |-> "event"]], "event") = Woke(w, call, "event") \ {t}
      BY <1>q, <3>0, WokeSuspend
    <3>2. \A p \in Queue : r.list[p] = IF p = "event" THEN Enqueue(w, "event", t) ELSE w.list[p]
      BY <1>q, <3>0, SuspendOnFields
    <3>3. ToSet(Enqueue(w, "event", t)) = ToSet(w.list["event"]) \cup {t}
      BY <1>q, EnqueueProperties
    <3> HIDE DEF r
    <3>4. ToSet(w'.list["event"]) = ToSet(w.list["event"]) \cup {t}
      BY <1>q, <3>w, <3>2, <3>3
    <3>5. Resumed("event")' = Resumed("event")
      BY <2>2, <2>r, <3>w, <3>1, ResumedIsWoke
    <3>6. /\ EvtTypeOK' /\ event_set'[t] = es /\ event_info'[t] = o /\ wanted'[t] = es
          /\ \A u \in Thread : u # t => /\ event_set'[u] = event_set[u]
                                        /\ event_info'[u] = event_info[u] /\ wanted'[u] = wanted[u]
      BY <2>2 DEF EventInv, EvtTypeOK
    <3>7. es # {} /\ Resumed("event") \subseteq Thread /\ ToSet(w.list["event"]) \subseteq Thread
      BY <1>1, <1>q, ListType DEF rt_event_recv, Resumed
    <3>8. NoMissedEvent'
      BY <2>2, <3>4, <3>6, <3>7 DEF EventInv, EventsDelivered, NoMissedEvent
    <3>9. ReceivesWanted'
      BY <2>r, <3>5, <3>6, <3>7 DEF EventInv, EventsDelivered, ReceivesWanted
    <3> QED  BY <3>4, <3>6, <3>7, <3>8, <3>9 DEF EventInv, EventsDelivered
  <2> QED  BY <1>1, <2>1, <2>2 DEF rt_event_recv
<1>2. ASSUME NEW t \in Thread, ReceivedEvents(t)
      PROVE  EventInv'
  <2>0. w.stat[t] = "READY"
    BY <1>2, Runs DEF ReceivedEvents
  <2>1. w' = w /\ call' = [call EXCEPT ![t] = Idle] /\ wanted' = [wanted EXCEPT ![t] = {}]
        /\ UNCHANGED <<set, event_set, event_info>>
    BY <1>2 DEF ReceivedEvents, Return
  <2>2. Woke(w, [call EXCEPT ![t] = Idle], "event") = Woke(w, call, "event") \ {t}
    BY IdleIsNoCall, WokeStay
  <2>3. Resumed("event")' = Resumed("event") \ {t}
    BY <2>1, <2>2, ResumedIsWoke
  <2>4. t \notin ToSet(w.list["event"]) /\ ToSet(w.list["event"]) \subseteq Thread
    BY <1>q, <2>0, ListType, ReadyIsFree
  <2>5. EvtTypeOK' /\ \A u \in Thread : u # t => wanted'[u] = wanted[u]
    BY <2>1 DEF EventInv, EvtTypeOK
  <2>6. Resumed("event") \subseteq Thread
    BY DEF Resumed
  <2> QED  BY <2>1, <2>3, <2>4, <2>5, <2>6 DEF EventInv, EventsDelivered, NoMissedEvent, ReceivesWanted
<1>3. ASSUME rt_event_control
      PROVE  EventInv'
  <2>1. w' = ResumeAll(w, "event") /\ call' = call /\ set' = {}
        /\ UNCHANGED <<event_set, event_info, wanted>>
    BY <1>3 DEF rt_event_control
  <2>2. Resumed("event")' = Resumed("event")
    BY <1>q, <2>1, WokeResumeAll, ResumedIsWoke
  <2>3. \A p \in Queue : ResumeAll(w, "event").list[p] = IF p = "event" THEN <<>> ELSE w.list[p]
    BY <1>q, ResumeAllFields
  <2>4. ToSet(w'.list["event"]) = {}
    BY <1>q, <2>1, <2>3 DEF ToSet
  <2>5. EvtTypeOK'
    BY <2>1 DEF EventInv, EvtTypeOK
  <2> QED  BY <2>1, <2>2, <2>4, <2>5
           DEF EventInv, EventsDelivered, NoMissedEvent, ReceivesWanted
<1> QED  BY <1>1, <1>2, <1>3, SendKeepsEvents DEF EvtNext

-----------------------------------------------------------------------------

\* Mutexes.  OwnerConsistent, with sets for lists.
OwnerOK ==
    \A m \in Mutexes :
        /\ mvalue[m] = 1 <=> owner[m] = Null
        /\ mvalue[m] = 1 <=> hold[m] = 0
        /\ ToSet(w.list[m]) # {} => owner[m] # Null
        /\ owner[m] \notin ToSet(w.list[m])

MutexInv == MtxTypeOK /\ OwnerHolds /\ OwnerOK

\* A list is empty when nobody is in it.
LEMMA EmptyList ==
    ASSUME NEW S, NEW l \in Seq(S)
    PROVE  l = <<>> <=> ToSet(l) = {}
<1>1. ASSUME l # <<>> PROVE ToSet(l) # {}
  <2>1. l[1] \in ToSet(l)
    BY <1>1 DEF ToSet
  <2> QED  BY <2>1
<1>2. ToSet(<<>>) = {}
  BY DEF ToSet
<1> QED  BY <1>1, <1>2

\* The owner part of the invariant is what the model states of owners.
LEMMA OwnerOKIsConsistent ==
    ASSUME WaitInv(w, call)
    PROVE  OwnerOK <=> OwnerConsistent
<1>1. \A m \in Mutexes : w.list[m] \in Seq(Thread)
  BY Queues, ListType DEF WaitInv
<1>2. \A m \in Mutexes : /\ w.list[m] = <<>> <=> ToSet(w.list[m]) = {}
                         /\ \A x : Contains(w.list[m], x) <=> x \in ToSet(w.list[m])
  BY <1>1, EmptyList, ContainsIsToSet
<1> QED  BY <1>2 DEF OwnerOK, OwnerConsistent

\* Mutexes: the steps of others.
LEMMA MutexCalm ==
    ASSUME MutexInv, CalmMutexes, UNCHANGED mutexVars
    PROVE  MutexInv'
<1>1. MtxTypeOK'
  BY DEF MutexInv, MtxTypeOK, mutexVars
<1>2. OwnerOK'
  BY DEF MutexInv, OwnerOK, mutexVars, CalmMutexes, Calm
<1>3. \A m \in Mutexes, t \in Thread : Granted(m, t)' <=> Granted(m, t)
  BY DEF Granted, CalmMutexes, Calm
<1>4. OwnerHolds'
  BY <1>3 DEF MutexInv, OwnerHolds, mutexVars
<1> QED  BY <1>1, <1>2, <1>4 DEF MutexInv

\* rt_mutex_take with the mutex free or its own, and calls that only set an error.
LEMMA TakeKeepsMutex ==
    ASSUME WaitInv(w, call), MutexInv, NEW m \in Mutexes, NEW t \in Thread, Free(t),
           NEW e \in {"EOK", "ETIMEOUT", "ERROR"}, w' = [w EXCEPT !.error[t] = e], call' = call,
           TakeAgain(m, t) \/ TakeFree(m, t) \/ UNCHANGED mutexVars
    PROVE  MutexInv'
<1>0. w \in Waits /\ w.stat[t] = "READY" /\ call[t].op = "idle" /\ Mutexes \subseteq Queue
  BY Runs, Queues DEF WaitInv
<1>1. w'.list = w.list /\ w'.stat = w.stat /\ w'.prio = w.prio
      /\ \A u \in Thread : u # t => w'.error[u] = w.error[u]
  BY <1>0 DEF Waits
<1>2. Resumed("mutex")' = Resumed("mutex") /\ t \notin Resumed("mutex")
  BY <1>0, <1>1 DEF Resumed
<1>3. \A n \in Mutexes, u \in Thread : Granted(n, u)' <=> Granted(n, u)
  BY <1>2 DEF Granted
<1>4. \A n \in Mutexes : ~Granted(n, t) /\ t \notin ToSet(w.list[n])
  BY <1>0, <1>2, ReadyIsFree DEF Granted
<1>5. w.prio[t] \in 0..255
  BY <1>0 DEF Waits
<1>6. CASE TakeAgain(m, t)
  <2>1. /\ hold' = [hold EXCEPT ![m] = @ + 1] /\ nest' = [nest EXCEPT ![t][m] = @ + 1]
        /\ owner[m] = t /\ hold[m] < MaxHold /\ UNCHANGED <<mvalue, owner, original_priority>>
    BY <1>6 DEF TakeAgain
  <2>2. hold[m] = nest[t][m] /\ hold[m] \in 0..MaxHold /\ hold[m] # 0
    BY <1>4, <2>1, ThreadAssumption DEF MutexInv, OwnerHolds, OwnerOK, MtxTypeOK
  <2>3. hold[m] + 1 \in 0..MaxHold /\ nest[t][m] + 1 \in 0..MaxHold
    BY <2>1, <2>2, MaxHoldAssumption
  <2>4. MtxTypeOK'
    BY <2>1, <2>3 DEF MutexInv, MtxTypeOK
  <2>5. /\ hold'[m] = hold[m] + 1 /\ \A n \in Mutexes : n # m => hold'[n] = hold[n]
        /\ \A u \in Thread, n \in Mutexes :
              nest'[u][n] = IF u = t /\ n = m THEN nest[u][n] + 1 ELSE nest[u][n]
    BY <2>1 DEF MutexInv, MtxTypeOK
  <2>6. OwnerHolds'
    BY <1>3, <1>4, <2>1, <2>2, <2>5 DEF MutexInv, OwnerHolds
  <2>7. hold'[m] # 0
    BY <2>2, <2>5
  <2>8. OwnerOK'
    BY <1>1, <2>1, <2>2, <2>5, <2>7 DEF MutexInv, OwnerOK
  <2> QED  BY <2>4, <2>6, <2>8 DEF MutexInv
<1>7. CASE TakeFree(m, t)
  <2>1. /\ owner[m] # t /\ mvalue[m] > 0
        /\ mvalue' = [mvalue EXCEPT ![m] = @ - 1] /\ owner' = [owner EXCEPT ![m] = t]
        /\ original_priority' = [original_priority EXCEPT ![m] = w.prio[t]]
        /\ hold' = [hold EXCEPT ![m] = @ + 1] /\ nest' = [nest EXCEPT ![t][m] = @ + 1]
    BY <1>7 DEF TakeFree
  <2>2. mvalue[m] = 1 /\ owner[m] = Null /\ hold[m] = 0
    BY <2>1 DEF MutexInv, OwnerOK, MtxTypeOK
  <2>3. \A u \in Thread : nest[u][m] = 0 /\ ~Granted(m, u)
    BY <2>2, ThreadAssumption DEF MutexInv, OwnerHolds, MtxTypeOK
  <2>4. MtxTypeOK'
    <3>1. 1 \in 0..MaxHold /\ hold[m] + 1 = 1 /\ nest[t][m] + 1 = 1 /\ mvalue[m] - 1 = 0
      BY <2>2, <2>3, MaxHoldAssumption
    <3>2. owner' \in [Mutexes -> Thread \cup {Null}] /\ original_priority' \in [Mutexes -> 0..255]
      BY <1>5, <2>1 DEF MutexInv, MtxTypeOK
    <3>3. mvalue' \in [Mutexes -> 0..1] /\ hold' \in [Mutexes -> 0..MaxHold]
      BY <2>1, <3>1 DEF MutexInv, MtxTypeOK
    <3>4. nest' \in [Thread -> [Mutexes -> 0..MaxHold]]
      BY <2>1, <3>1 DEF MutexInv, MtxTypeOK
    <3> QED  BY <3>2, <3>3, <3>4 DEF MtxTypeOK
  <2>5. /\ hold'[m] = 1 /\ mvalue'[m] = 0 /\ owner'[m] = t
        /\ \A n \in Mutexes : n # m =>
              hold'[n] = hold[n] /\ mvalue'[n] = mvalue[n] /\ owner'[n] = owner[n]
        /\ \A u \in Thread, n \in Mutexes :
              nest'[u][n] = IF u = t /\ n = m THEN 1 ELSE nest[u][n]
    BY <2>1, <2>2, <2>3 DEF MutexInv, MtxTypeOK
  <2>6. OwnerHolds'
    <3> SUFFICES ASSUME NEW n \in Mutexes, NEW u \in Thread
                 PROVE  /\ Granted(n, u)' => owner'[n] = u
                        /\ nest'[u][n] + (IF Granted(n, u)' THEN 1 ELSE 0)
                              = IF owner'[n] = u THEN hold'[n] ELSE 0
      BY DEF OwnerHolds
    <3>1. CASE n = m
      BY <1>3, <2>3, <2>5, <3>1
    <3>2. CASE n # m
      BY <1>3, <2>5, <3>2 DEF MutexInv, OwnerHolds
    <3> QED  BY <3>1, <3>2
  <2>7. OwnerOK'
    BY <1>1, <1>4, <2>5, ThreadAssumption DEF MutexInv, OwnerOK
  <2> QED  BY <2>4, <2>6, <2>7 DEF MutexInv
<1>8. CASE UNCHANGED mutexVars
  <2>1. MtxTypeOK' /\ OwnerOK'
    BY <1>1, <1>8 DEF MutexInv, MtxTypeOK, OwnerOK, mutexVars
  <2>2. OwnerHolds'
    BY <1>3, <1>8 DEF MutexInv, OwnerHolds, mutexVars
  <2> QED  BY <2>1, <2>2 DEF MutexInv
<1> QED  BY <1>6, <1>7, <1>8

\* A priority is all that inheritance changes.
LEMMA InheritFields ==
    ASSUME NEW s, NEW d, WaitInv(s, d), NEW t \in Thread, NEW o
    PROVE  LET r == Inherit(s, o, t)
           IN  /\ r \in Waits /\ r.list = s.list /\ r.stat = s.stat /\ r.error = s.error
               /\ r.timer = s.timer /\ WaitInv(r, d)
               /\ \A u \in Thread :
                     r.prio[u] = IF u = o /\ s.prio[t] < s.prio[o] THEN s.prio[t] ELSE s.prio[u]
<1> DEFINE r == Inherit(s, o, t)
           p == s.prio[t]
<1>0. s \in Waits /\ p \in Priorities
  BY DEF WaitInv, Waits, Priorities
<1>1. r = IF p < s.prio[o] THEN WithPriority(s, o, p) ELSE s
  BY DEF Inherit, WithPriority
<1> HIDE DEF r, p
<1>2. /\ r \in Waits /\ r.list = s.list /\ r.stat = s.stat /\ r.error = s.error
      /\ r.timer = s.timer
  BY <1>0, <1>1, PriorityFields
<1>3. \A u \in Thread : r.prio[u] = IF u = o /\ p < s.prio[o] THEN p ELSE s.prio[u]
  BY <1>0, <1>1, PriorityFields
<1>4. WaitInv(r, d)
  BY <1>2, WaitInvFields
<1> QED  BY <1>2, <1>3, <1>4 DEF r, p

\* rt_mutex_take of another thread's mutex: the caller waits.
LEMMA WaitKeepsMutex ==
    ASSUME WaitInv(w, call), MutexInv, NEW m \in Mutexes, NEW t \in Thread, Free(t),
           owner[m] # t, mvalue[m] = 0, NEW timed \in BOOLEAN,
           w' = SuspendOn(Inherit(w, owner[m], t), m, t, timed),
           call' = [call EXCEPT ![t] = [op |-> "mutex", mutex |-> m]], UNCHANGED mutexVars
    PROVE  MutexInv'
<1> DEFINE s == Inherit(w, owner[m], t)
           e == [op |-> "mutex", mutex |-> m]
           r == SuspendOn(s, m, t, timed)
           d == [call EXCEPT ![t] = e]
<1>0. w \in Waits /\ w.stat[t] = "READY" /\ call[t].op = "idle" /\ m \in Queue /\ Mutexes \subseteq Queue
  BY Runs, Queues DEF WaitInv
<1>1. /\ s \in Waits /\ s.list = w.list /\ s.stat = w.stat /\ s.error = w.error
      /\ s.timer = w.timer /\ WaitInv(s, call)
  BY <1>0, InheritFields
<1> HIDE DEF s, e
<1>2. \A u \in Thread : /\ r.stat[u] = IF u = t THEN "SUSPEND" ELSE s.stat[u]
                        /\ r.error[u] = IF u = t THEN "EOK" ELSE s.error[u]
  BY <1>0, <1>1, SuspendOnFields
<1>3. \A u \in Thread : d[u] = IF u = t THEN e ELSE call[u]
  BY DEF WaitInv, Caller
<1>4. t \notin Resumed("mutex")
  BY <1>0 DEF Resumed
<1>5. \A p \in Queue : r.list[p] = IF p = m THEN Enqueue(s, m, t) ELSE s.list[p]
  BY <1>0, <1>1, SuspendOnFields
<1>6. ToSet(Enqueue(s, m, t)) = ToSet(s.list[m]) \cup {t}
  BY <1>0, <1>1, EnqueueProperties
<1>w. w' = r /\ call' = d
  BY DEF s, e
<1> HIDE DEF r, d
<1>7. Resumed("mutex")' = Resumed("mutex")
  BY <1>1, <1>2, <1>3, <1>4, <1>w DEF Resumed
<1>8. \A u \in Thread : u # t => call'[u] = call[u]
  BY <1>3, <1>w
<1>9. \A n \in Mutexes, u \in Thread : Granted(n, u)' <=> Granted(n, u)
  BY <1>4, <1>7, <1>8 DEF Granted
<1>10. ToSet(w'.list[m]) = ToSet(w.list[m]) \cup {t}
       /\ \A n \in Mutexes : n # m => w'.list[n] = w.list[n]
  BY <1>0, <1>1, <1>5, <1>6, <1>w
<1>11. MtxTypeOK'
  BY DEF MutexInv, MtxTypeOK, mutexVars
<1>12. OwnerHolds'
  BY <1>9 DEF MutexInv, OwnerHolds, mutexVars
<1>13. OwnerOK'
  BY <1>10 DEF MutexInv, OwnerOK, mutexVars
<1> QED  BY <1>11, <1>12, <1>13 DEF MutexInv

\* A thread goes on after rt_schedule in rt_mutex_take.
LEMMA TakenKeepsMutex ==
    ASSUME WaitInv(w, call), CallOK(call), MutexInv, NEW t \in Thread, Taken(t)
    PROVE  MutexInv'
<1> DEFINE m == call[t].mutex
<1>0. w.stat[t] = "READY" /\ call[t].op = "mutex" /\ t \in Caller
  BY Runs DEF Taken
<1>1. m \in Mutexes
  BY <1>0 DEF CallOK
<1>2. /\ w' = w /\ call' = [call EXCEPT ![t] = Idle]
      /\ UNCHANGED <<mvalue, owner, hold, original_priority>>
      /\ nest' = IF w.error[t] = "EOK" THEN [nest EXCEPT ![t][m] = @ + 1] ELSE nest
  BY DEF Taken, Return
<1>3. Resumed("mutex")' = Resumed("mutex") \ {t}
  <2>1. Woke(w, [call EXCEPT ![t] = Idle], "mutex") = Woke(w, call, "mutex") \ {t}
    BY IdleIsNoCall, WokeStay
  <2> QED  BY <1>2, <2>1, ResumedIsWoke
<1>4. \A u \in Thread : u # t => call'[u] = call[u]
  BY <1>2 DEF WaitInv, Caller
<1>5. \A n \in Mutexes, u \in Thread : Granted(n, u)' <=> u # t /\ Granted(n, u)
  BY <1>3, <1>4 DEF Granted
<1> HIDE DEF m
<1>6. \A n \in Mutexes : Granted(n, t) <=> w.error[t] = "EOK" /\ n = m
  BY <1>0, <1>1 DEF Granted, Resumed, m
<1>7. OwnerOK'
  BY <1>2 DEF MutexInv, OwnerOK
<1>8. CASE w.error[t] = "EOK"
  <2>1. owner[m] = t /\ nest[t][m] + 1 = hold[m]
    BY <1>1, <1>6, <1>8 DEF MutexInv, OwnerHolds
  <2>2. nest[t][m] + 1 \in 0..MaxHold
    BY <1>1, <2>1 DEF MutexInv, MtxTypeOK
  <2>3. MtxTypeOK'
    BY <1>2, <1>8, <2>2 DEF MutexInv, MtxTypeOK
  <2>4. \A u \in Thread, n \in Mutexes :
           nest'[u][n] = IF u = t /\ n = m THEN nest[u][n] + 1 ELSE nest[u][n]
    BY <1>1, <1>2, <1>8 DEF MutexInv, MtxTypeOK
  <2>5. OwnerHolds'
    <3> SUFFICES ASSUME NEW n \in Mutexes, NEW u \in Thread
                 PROVE  /\ Granted(n, u)' => owner'[n] = u
                        /\ nest'[u][n] + (IF Granted(n, u)' THEN 1 ELSE 0)
                              = IF owner'[n] = u THEN hold'[n] ELSE 0
      BY DEF OwnerHolds
    <3>0. nest[u][n] \in Nat /\ hold[n] \in Nat
      BY DEF MutexInv, MtxTypeOK
    <3>1. CASE u = t /\ n = m
      BY <1>2, <1>5, <2>1, <2>4, <3>0, <3>1
    <3>2. CASE ~(u = t /\ n = m)
      <4>1. nest'[u][n] = nest[u][n] /\ (Granted(n, u)' <=> Granted(n, u))
        BY <1>5, <1>6, <2>4, <3>2
      <4> QED  BY <1>2, <4>1 DEF MutexInv, OwnerHolds
    <3> QED  BY <3>1, <3>2
  <2> QED  BY <1>7, <2>3, <2>5 DEF MutexInv
<1>9. CASE w.error[t] # "EOK"
  <2>1. \A n \in Mutexes, u \in Thread : Granted(n, u)' <=> Granted(n, u)
    BY <1>5, <1>6, <1>9
  <2>2. MtxTypeOK' /\ OwnerHolds'
    BY <1>2, <1>9, <2>1 DEF MutexInv, OwnerHolds, MtxTypeOK
  <2> QED  BY <1>7, <2>2 DEF MutexInv
<1> QED  BY <1>8, <1>9

\* The last release: the mutex goes to the first waiter, or is free.
LEMMA ReleaseKeepsMutex ==
    ASSUME WaitInv(w, call), MutexInv, NEW m \in Mutexes, NEW t \in Thread, Free(t),
           owner[m] = t, hold[m] = 1, nest' = [nest EXCEPT ![t][m] = @ - 1],
           ReleaseLast(m), call' = call
    PROVE  MutexInv'
<1> DEFINE s == Restore(w, m)
           l == w.list[m]
           h == Head(l)
<1>0. w \in Waits /\ w.stat[t] = "READY" /\ call[t].op = "idle" /\ m \in Queue /\ Mutexes \subseteq Queue
      /\ OpOf(m) = "mutex"
  BY Runs, Queues, Names DEF WaitInv
<1>1. /\ s \in Waits /\ s.list = w.list /\ s.stat = w.stat /\ s.error = w.error
      /\ s.timer = w.timer /\ WaitInv(s, call)
  <2>1. s = WithPriority(w, t, original_priority[m]) /\ original_priority[m] \in Priorities
    BY DEF Restore, WithPriority, Priorities, MutexInv, MtxTypeOK
  <2> HIDE DEF s
  <2>2. /\ s \in Waits /\ s.list = w.list /\ s.stat = w.stat /\ s.error = w.error
        /\ s.timer = w.timer
    BY <1>0, <2>1, PriorityFields
  <2> QED  BY <2>2, WaitInvFields
<1>2. l \in Seq(Thread) /\ (l = <<>> <=> ToSet(l) = {})
  BY <1>0, ListType, EmptyList
<1>3. nest[t][m] = 1 /\ mvalue[m] = 0 /\ \A n \in Mutexes : ~Granted(n, t)
  <2>1. \A n \in Mutexes : ~Granted(n, t)
    BY <1>0 DEF Granted, Resumed
  <2>2. nest[t][m] = 1
    BY <2>1 DEF MutexInv, OwnerHolds, MtxTypeOK
  <2>3. mvalue[m] = 0
    BY ThreadAssumption DEF MutexInv, OwnerOK, MtxTypeOK
  <2> QED  BY <2>1, <2>2, <2>3
<1>4. /\ \A u \in Thread, n \in Mutexes : nest'[u][n] = IF u = t /\ n = m THEN 0 ELSE nest[u][n]
      /\ nest' \in [Thread -> [Mutexes -> 0..MaxHold]]
  <2>1. 0 \in 0..MaxHold
    BY MaxHoldAssumption
  <2>2. nest' = [nest EXCEPT ![t][m] = 0]
    BY <1>3
  <2> QED  BY <2>1, <2>2 DEF MutexInv, MtxTypeOK
<1>5. CASE l # <<>>
  <2>1. /\ owner' = [owner EXCEPT ![m] = h] /\ hold' = [hold EXCEPT ![m] = 1] /\ mvalue' = mvalue
        /\ original_priority' = [original_priority EXCEPT ![m] = s.prio[h]]
        /\ w' = ResumeFirst(s, m)
    BY <1>5 DEF ReleaseLast
  <2> HIDE DEF s
  <2>2. h \in Thread /\ h \in ToSet(l) /\ WaitsIn(call[h], m)
    BY <1>0, <1>5, FirstWaits
  <2>3. call[h].op = "mutex" /\ call[h].mutex = m /\ h # t
    <3>1. t \notin ToSet(l)
      BY <1>0, ReadyIsFree
    <3> QED  BY <2>2, <3>1 DEF WaitsIn
  <2>4. Woke(w', call, "mutex") = Woke(s, call, "mutex") \cup {h}
    BY <1>0, <1>1, <1>5, <2>1, WokeResumeFirst
  <2>5. Resumed("mutex")' = Resumed("mutex") \cup {h}
    <3>1. Woke(s, call, "mutex") = Woke(w, call, "mutex")
      BY <1>1 DEF Woke
    <3> QED  BY <2>4, <3>1, ResumedIsWoke
  <2>6. /\ \A p \in Queue : p # m => w'.list[p] = w.list[p]
        /\ ToSet(w'.list[m]) = ToSet(l) \ {h}
    <3>1. \A p \in Queue : p # m => ResumeFirst(s, m).list[p] = s.list[p]
      BY <1>0, <1>1, ResumeFirstFields
    <3>2. s.list[m] # <<>> => ToSet(ResumeFirst(s, m).list[m]) = ToSet(s.list[m]) \ {Head(s.list[m])}
      BY <1>0, <1>1, ResumeFirstFields
    <3> QED  BY <1>1, <1>5, <2>1, <3>1, <3>2
  <2> HIDE DEF h, l
  <2>7. \A n \in Mutexes, u \in Thread : Granted(n, u)' <=> Granted(n, u) \/ (u = h /\ n = m)
    BY <2>2, <2>3, <2>5 DEF Granted
  <2>8. s.prio[h] \in 0..255 /\ 1 \in 0..MaxHold
    <3>1. s.prio \in [Thread -> 0..255]
      BY <1>1 DEF Waits
    <3> QED  BY <2>2, <3>1, MaxHoldAssumption
  <2>9. MtxTypeOK'
    BY <1>4, <2>1, <2>2, <2>8 DEF MutexInv, MtxTypeOK
  <2>10. /\ owner'[m] = h /\ hold'[m] = 1
         /\ \A n \in Mutexes : n # m => owner'[n] = owner[n] /\ hold'[n] = hold[n]
    BY <2>1 DEF MutexInv, MtxTypeOK
  <2>11. OwnerHolds'
    <3> SUFFICES ASSUME NEW n \in Mutexes, NEW u \in Thread
                 PROVE  /\ Granted(n, u)' => owner'[n] = u
                        /\ nest'[u][n] + (IF Granted(n, u)' THEN 1 ELSE 0)
                              = IF owner'[n] = u THEN hold'[n] ELSE 0
      BY DEF OwnerHolds
    <3>1. CASE n # m
      <4>1. nest'[u][n] = nest[u][n] /\ (Granted(n, u)' <=> Granted(n, u))
        BY <1>4, <2>7, <3>1
      <4> QED  BY <2>10, <3>1, <4>1 DEF MutexInv, OwnerHolds
    <3>2. CASE n = m
      <4>1. u # t => nest[u][m] = 0 /\ ~Granted(m, u)
        BY DEF MutexInv, OwnerHolds, MtxTypeOK
      <4>2. nest'[u][m] = 0
        BY <1>4, <4>1
      <4>3. Granted(m, u)' <=> u = h
        BY <1>3, <2>7, <4>1
      <4> QED  BY <2>10, <3>2, <4>2, <4>3
    <3> QED  BY <3>1, <3>2
  <2>12. OwnerOK'
    <3> SUFFICES ASSUME NEW n \in Mutexes
                 PROVE  /\ mvalue'[n] = 1 <=> owner'[n] = Null
                        /\ mvalue'[n] = 1 <=> hold'[n] = 0
                        /\ ToSet(w'.list[n]) # {} => owner'[n] # Null
                        /\ owner'[n] \notin ToSet(w'.list[n])
      BY DEF OwnerOK
    <3>1. CASE n = m
      BY <1>3, <2>1, <2>2, <2>6, <2>10, <3>1, ThreadAssumption
    <3>2. CASE n # m
      BY <1>0, <2>1, <2>6, <2>10, <3>2 DEF MutexInv, OwnerOK
    <3> QED  BY <3>1, <3>2
  <2> QED  BY <2>9, <2>11, <2>12 DEF MutexInv
<1>6. CASE l = <<>>
  <2>1. /\ owner' = [owner EXCEPT ![m] = Null] /\ hold' = [hold EXCEPT ![m] = 0]
        /\ mvalue' = [mvalue EXCEPT ![m] = @ + 1]
        /\ original_priority' = [original_priority EXCEPT ![m] = NoPriority]
        /\ w' = s
    BY <1>6 DEF ReleaseLast
  <2> HIDE DEF s
  <2>2. w'.list = w.list /\ Resumed("mutex")' = Resumed("mutex")
    BY <1>1, <2>1 DEF Resumed
  <2>3. \A n \in Mutexes, u \in Thread : Granted(n, u)' <=> Granted(n, u)
    BY <2>2 DEF Granted
  <2>4. /\ owner'[m] = Null /\ hold'[m] = 0 /\ mvalue'[m] = 1
        /\ \A n \in Mutexes : n # m =>
              owner'[n] = owner[n] /\ hold'[n] = hold[n] /\ mvalue'[n] = mvalue[n]
    BY <1>3, <2>1 DEF MutexInv, MtxTypeOK
  <2>5. MtxTypeOK'
    <3>1. 0 \in 0..MaxHold /\ mvalue[m] + 1 = 1
      BY <1>3, MaxHoldAssumption
    <3> QED  BY <1>4, <2>1, <3>1 DEF MutexInv, MtxTypeOK, NoPriority
  <2>6. OwnerHolds'
    <3> SUFFICES ASSUME NEW n \in Mutexes, NEW u \in Thread
                 PROVE  /\ Granted(n, u)' => owner'[n] = u
                        /\ nest'[u][n] + (IF Granted(n, u)' THEN 1 ELSE 0)
                              = IF owner'[n] = u THEN hold'[n] ELSE 0
      BY DEF OwnerHolds
    <3>1. CASE n # m
      <4>1. nest'[u][n] = nest[u][n] /\ (Granted(n, u)' <=> Granted(n, u))
        BY <1>4, <2>3, <3>1
      <4> QED  BY <2>4, <3>1, <4>1 DEF MutexInv, OwnerHolds
    <3>2. CASE n = m
      <4>1. u # t => nest[u][m] = 0 /\ ~Granted(m, u)
        BY DEF MutexInv, OwnerHolds, MtxTypeOK
      <4>2. nest'[u][m] = 0 /\ ~Granted(m, u)'
        BY <1>3, <1>4, <2>3, <4>1
      <4> QED  BY <2>4, <3>2, <4>2, ThreadAssumption
    <3> QED  BY <3>1, <3>2
  <2>7. Null \notin ToSet(w.list[m])
    BY <1>2, ThreadAssumption DEF ToSet
  <2>8. OwnerOK'
    BY <1>2, <1>6, <2>2, <2>4, <2>7 DEF MutexInv, OwnerOK
  <2> QED  BY <2>5, <2>6, <2>8 DEF MutexInv
<1> QED  BY <1>5, <1>6

\* The operations of rt_mutex_* keep the invariant.
LEMMA MutexKept ==
    ASSUME WaitInv(w, call), CallOK(call), MutexInv, MtxNext
    PROVE  MutexInv'
<1>0. w.app.mutexes \subseteq Mutexes
  BY AppsAssumption DEF WaitInv, Waits
<1>1. ASSUME NEW m \in Mutexes, NEW t \in Thread, NEW time, rt_mutex_take(m, t, time)
      PROVE  MutexInv'
  <2>1. CASE TakeAgain(m, t) \/ TakeFree(m, t)
    <3>1. Free(t) /\ w' = [w EXCEPT !.error[t] = "EOK"] /\ call' = call
      BY <1>1, <2>1 DEF rt_mutex_take, TakeAgain, TakeFree, NoError
    <3> QED  BY <2>1, <3>1, TakeKeepsMutex
  <2>2. CASE TakeWait(m, t, time)
    <3> DEFINE timed == time = "timed"
    <3>1. timed \in BOOLEAN /\ Free(t) /\ owner[m] # t /\ mvalue[m] = 0 /\ UNCHANGED mutexVars
      BY <1>1, <2>2 DEF TakeWait, rt_mutex_take
    <3>2. \/ w' = [w EXCEPT !.error[t] = "ETIMEOUT"] /\ call' = call
          \/ /\ w' = SuspendOn(Inherit(w, owner[m], t), m, t, timed)
             /\ call' = [call EXCEPT ![t] = [op |-> "mutex", mutex |-> m]]
      BY <2>2 DEF TakeWait
    <3> HIDE DEF timed
    <3>3. CASE w' = [w EXCEPT !.error[t] = "ETIMEOUT"] /\ call' = call
      BY <3>1, <3>3, TakeKeepsMutex
    <3>4. CASE /\ w' = SuspendOn(Inherit(w, owner[m], t), m, t, timed)
               /\ call' = [call EXCEPT ![t] = [op |-> "mutex", mutex |-> m]]
      BY <3>1, <3>4, WaitKeepsMutex
    <3> QED  BY <3>2, <3>3, <3>4
  <2> QED  BY <1>1, <2>1, <2>2 DEF rt_mutex_take
<1>2. ASSUME NEW m \in Mutexes, NEW t \in Thread, rt_mutex_release(m, t)
      PROVE  MutexInv'
  <2>0. Free(t) /\ call' = call
    BY <1>2 DEF rt_mutex_release
  <2>1. CASE w' = [w EXCEPT !.error[t] = "ERROR"] /\ UNCHANGED mutexVars
    BY <2>0, <2>1, TakeKeepsMutex
  <2>2. CASE /\ owner[m] = t /\ nest' = [nest EXCEPT ![t][m] = @ - 1]
             /\ hold[m] > 1 /\ hold' = [hold EXCEPT ![m] = @ - 1]
             /\ UNCHANGED <<w, mvalue, owner, original_priority>>
    <3>1. \A n \in Mutexes : ~Granted(n, t)
      BY <2>0, Runs DEF Granted, Resumed
    <3>2. nest[t][m] = hold[m] /\ hold[m] \in 0..MaxHold
      BY <2>2, <3>1 DEF MutexInv, OwnerHolds, MtxTypeOK
    <3>3. hold[m] - 1 \in 0..MaxHold /\ hold[m] - 1 # 0 /\ nest[t][m] - 1 \in 0..MaxHold
      BY <2>2, <3>2, MaxHoldAssumption
    <3>4. MtxTypeOK'
      BY <2>2, <3>3 DEF MutexInv, MtxTypeOK
    <3>5. /\ hold'[m] = hold[m] - 1 /\ \A n \in Mutexes : n # m => hold'[n] = hold[n]
          /\ \A u \in Thread, n \in Mutexes :
                nest'[u][n] = IF u = t /\ n = m THEN nest[u][n] - 1 ELSE nest[u][n]
      BY <2>2 DEF MutexInv, MtxTypeOK
    <3>6. \A n \in Mutexes, u \in Thread : Granted(n, u)' <=> Granted(n, u)
      BY <2>0, <2>2 DEF Granted, Resumed
    <3>7. OwnerHolds'
      BY <2>2, <3>1, <3>2, <3>5, <3>6 DEF MutexInv, OwnerHolds
    <3>8. OwnerOK'
      BY <2>2, <3>3, <3>5 DEF MutexInv, OwnerOK
    <3> QED  BY <3>4, <3>7, <3>8 DEF MutexInv
  <2>3. CASE owner[m] = t /\ nest' = [nest EXCEPT ![t][m] = @ - 1] /\ hold[m] = 1 /\ ReleaseLast(m)
    BY <2>0, <2>3, ReleaseKeepsMutex
  <2> QED  BY <1>2, <2>1, <2>2, <2>3 DEF rt_mutex_release
<1> QED  BY <1>0, <1>1, <1>2, TakenKeepsMutex DEF MtxNext

-----------------------------------------------------------------------------

\* The initial states.
LEMMA InitWaits ==
    ASSUME Init
    PROVE  BaseInv /\ MutexInv /\ EventInv
<1>1. PICK a \in Apps :
          w = [app   |-> a,
               prio  |-> Priority,
               stat  |-> [t \in Thread |-> "READY"],
               error |-> [t \in Thread |-> "EOK"],
               timer |-> [t \in Thread |-> FALSE],
               list  |-> [q \in Queue |-> <<>>]]
  BY DEF Init, WaitsInit
<1>2. call = [c \in Caller |-> Idle] /\ drain = NoDrain
  BY DEF Init, WaitsInit
<1>3. w \in Waits
  <2>1. Priority \in [Thread -> 0..255]
    BY PriorityAssumption
  <2>2. [t \in Thread |-> FALSE] \in [Thread -> BOOLEAN]
    OBVIOUS
  <2>3. [q \in Queue |-> <<>>] \in [Queue -> Seq(Thread)]
    OBVIOUS
  <2> QED  BY <1>1, <2>1, <2>2, <2>3 DEF Waits
<1>4. /\ \A q \in Queue : w.list[q] = <<>>
      /\ \A t \in Thread : w.stat[t] = "READY" /\ w.error[t] = "EOK" /\ ~w.timer[t]
  BY <1>1
<1>5. ToSet(<<>>) = {} /\ IsInjective(<<>>)
  BY DEF ToSet, IsInjective
<1>6. Linked(w)
  BY <1>4, <1>5 DEF Linked
<1>7. \A c \in Caller : call[c] = Idle
  BY <1>2
<1>8. WaitInv(w, call)
  <2>1. DOMAIN call = Caller
    BY <1>2
  <2>2. \A c \in Isr : ~WaitsIn(call[c], "mq")
    BY <1>7, Names DEF WaitsIn, Idle, Caller
  <2> QED  BY <1>3, <1>4, <1>5, <1>6, <2>1, <2>2 DEF WaitInv
<1>9. CallOK(call)
  BY <1>7 DEF CallOK, Idle
<1>10. DrainOK
  BY <1>2 DEF DrainOK, NoDrain
<1>11. \A op \in {"mutex", "event"} : Resumed(op) = {}
  BY <1>7 DEF Resumed, Idle, Caller
<1>12. MutexInv
  <2>1. MtxTypeOK
    BY MaxHoldAssumption DEF Init, MtxInit, MtxTypeOK, NoPriority
  <2>2. OwnerHolds
    BY <1>11, ThreadAssumption DEF Init, MtxInit, OwnerHolds, Granted
  <2>3. OwnerOK
    BY <1>4, <1>5, Queues DEF Init, MtxInit, OwnerOK
  <2> QED  BY <2>1, <2>2, <2>3 DEF MutexInv
<1>13. EventInv
  <2>1. ToSet(w.list["event"]) = {}
    BY <1>4, <1>5, Queues
  <2>2. EvtTypeOK
    BY DEF Init, EvtInit, EvtTypeOK, Option
  <2> QED  BY <1>11, <2>1, <2>2 DEF EventInv, EventsDelivered, NoMissedEvent, ReceivesWanted
<1> QED  BY <1>8, <1>9, <1>10, <1>12, <1>13 DEF BaseInv

CoreInv == BaseInv /\ MutexInv /\ EventInv

\* The lists, the calls, the mutexes and the event set, in every reachable state.
THEOREM CoreInvariance == Spec => []CoreInv
<1>1. Init => CoreInv
  BY InitWaits DEF CoreInv
<1>2. CoreInv /\ [Next]_vars => CoreInv'
  <2> SUFFICES ASSUME CoreInv, [Next]_vars PROVE CoreInv'
    OBVIOUS
  <2>1. BaseInv /\ MtxTypeOK /\ EventInv /\ WaitInv(w, call) /\ CallOK(call) /\ MutexInv
    BY DEF CoreInv, MutexInv, BaseInv
  <2>2. /\ BaseInv'
        /\ MutexStep \/ (CalmMutexes /\ UNCHANGED mutexVars)
        /\ EventStep \/ (Calm("event", "event") /\ UNCHANGED eventVars)
    BY <2>1, CalmSteps
  <2>3. MutexInv'
    BY <2>1, <2>2, MutexCalm, MutexKept DEF MutexStep
  <2>4. EventInv'
    BY <2>1, <2>2, EventCalm, EventKept DEF EventStep
  <2> QED  BY <2>2, <2>3, <2>4 DEF CoreInv
<1> QED  BY <1>1, <1>2, PTL DEF Spec

\* Mutual exclusion with nesting and direct hand-over holds for any number of
\* threads and mutexes, timeouts and detaches included (rt_mutex_take,
\* rt_mutex_release).
THEOREM MutualExclusionInvariance == Spec => []MutualExclusion
<1>1. CoreInv => MutualExclusion
  BY OwnerOKIsConsistent DEF CoreInv, BaseInv, MutexInv, MutualExclusion
<1> QED  BY <1>1, CoreInvariance, PTL

\* No event is missed and every receiver gets what it asked for, for any event
\* set and any number of waiters (rt_event_send, rt_event_recv).
THEOREM EventsDeliveredInvariance == Spec => []EventsDelivered
<1>1. CoreInv => EventsDelivered
  BY DEF CoreInv, EventInv
<1> QED  BY <1>1, CoreInvariance, PTL

\* The suspend lists say who waits.
LEMMA WaitsAreConsistent ==
    ASSUME WaitInv(w, call)
    PROVE  ListsConsistent
<1>1. ASSUME NEW t \in Thread
      PROVE  /\ w.timer[t] => w.stat[t] = "SUSPEND"
             /\ w.stat[t] = "SUSPEND" => call[t] # Idle
             /\ Cardinality({q \in Queue : Contains(w.list[q], t)})
                   = IF w.stat[t] = "SUSPEND" THEN 1 ELSE 0
  <2> DEFINE in == {q \in Queue : Contains(w.list[q], t)}
  <2>1. \A q \in Queue : Contains(w.list[q], t) <=> t \in ToSet(w.list[q])
    BY ListType, ContainsIsToSet DEF WaitInv
  <2>2. CASE w.stat[t] = "SUSPEND"
    <3>1. PICK q \in Queue : t \in ToSet(w.list[q])
      BY <2>2 DEF WaitInv, Linked
    <3>2. in = {q}
      BY <2>1, <3>1 DEF WaitInv, Linked
    <3>3. WaitsIn(call[t], q)
      BY <3>1 DEF WaitInv
    <3>4. call[t] # Idle
      BY <3>3 DEF WaitsIn, Idle, Queue, IpcQueue, DriverQueue
    <3> HIDE DEF in
    <3>5. Cardinality(in) = 1
      BY <3>2, FS_Singleton
    <3> QED  BY <2>2, <3>4, <3>5 DEF in
  <2>3. CASE w.stat[t] # "SUSPEND"
    <3>1. in = {}
      BY <2>1, <2>3 DEF WaitInv, Linked
    <3> HIDE DEF in
    <3>2. Cardinality(in) = 0
      BY <3>1, FS_EmptySet
    <3>3. w.timer[t] => w.stat[t] = "SUSPEND"
      BY DEF WaitInv, Linked
    <3> QED  BY <2>3, <3>2, <3>3 DEF in
  <2> QED  BY <2>2, <2>3
<1>2. ASSUME NEW q \in Queue
      PROVE  Cardinality(ToSet(w.list[q])) = Len(w.list[q])
  BY ListType, LenIsCardinality DEF WaitInv, Linked
<1> QED  BY <1>1, <1>2 DEF ListsConsistent

\* Whatever the threads, the timeouts and a detach do: a thread is in a suspend
\* list exactly while it is suspended, in one and once (rt_ipc_list_suspend,
\* rt_ipc_list_resume, rt_thread_timeout).
THEOREM ListsConsistentInvariance == Spec => []ListsConsistent
<1>1. CoreInv => ListsConsistent
  BY WaitsAreConsistent DEF CoreInv, BaseInv
<1> QED  BY <1>1, CoreInvariance, PTL

\* What a send gives to its waiters, when the walk is over.
LEMMA SendGives ==
    ASSUME WaitInv(w, call), EventInv, NEW es \in SUBSET Bit, rt_event_send(es),
           NEW t \in Thread, ResumedBySend(t)
    PROVE  /\ event_set'[t] \subseteq set \cup es
           /\ event_info[t].clear => event_set'[t] \cap set' = {}
           /\ \A u \in Thread :
                 ResumedBySend(u) /\ t # u /\ event_info[t].clear /\ event_info[u].clear =>
                     event_set'[t] \cap event_set'[u] = {}
<1>1. PICK s : /\ WalkInv(s, Len(w.list["event"]), es)
               /\ set' = s.set /\ event_set' = s.event_set /\ w' = s.w
  BY SendWalk
<1>2. "event" \in Queue /\ w \in Waits /\ WaitInv(s.w, call)
  BY <1>1, Queues DEF WalkInv, Step, WaitInv
<1>3. ASSUME NEW u \in Thread, ResumedBySend(u) PROVE u \in Delivered(s)
  <2>1. u \in ToSet(w.list["event"])
    BY <1>2, <1>3, ListType, ContainsIsToSet DEF ResumedBySend
  <2>2. s.w.stat[u] = "READY"
    BY <1>1, <1>3 DEF ResumedBySend
  <2>3. u \notin ToSet(s.w.list["event"])
    BY <1>2, <2>2 DEF WaitInv, Linked
  <2> QED  BY <2>1, <2>3 DEF Delivered
<1> QED  BY <1>1, <1>3 DEF WalkInv

\* What a send gives away was set, and what a waiter with RT_EVENT_FLAG_CLEAR
\* takes nobody else gets, for any event set and any waiters (rt_event_send).
THEOREM EventsTakenProperty == Spec => EventsTaken
<1>1. CoreInv =>
        \A es \in SUBSET Bit : rt_event_send(es) =>
          \A t, u \in Thread : ResumedBySend(t) =>
              /\ event_set[t]' \subseteq set \cup es
              /\ event_info[t].clear => event_set[t]' \cap set' = {}
              /\ (ResumedBySend(u) /\ t # u /\ event_info[t].clear /\ event_info[u].clear) =>
                    event_set[t]' \cap event_set[u]' = {}
  BY SendGives DEF CoreInv, BaseInv
<1> QED  BY <1>1, CoreInvariance, PTL DEF EventsTaken

-----------------------------------------------------------------------------
(* Priority inheritance, in an application with one mutex m and with       *)
(* RT_IPC_FLAG_PRIO.  A waiter owns nothing, so it has its own priority:   *)
(* the list is in the order of the priorities that threads start with.     *)

Inherits(m) ==
    /\ \A n \in Mutexes : n # m => owner[n] = Null
    /\ owner[m] # Null => original_priority[m] = Priority[owner[m]]
    /\ \A t \in Thread : t # owner[m] => w.prio[t] = Priority[t]
    /\ Ordered(w.list[m], Priority)
    /\ \A t \in ToSet(w.list[m]) : w.prio[owner[m]] <= Priority[t]

InheritInv == \A m \in Mutexes : w.app.mutexes = {m} => Inherits(m)

\* rt_ipc_list_suspend with RT_IPC_FLAG_PRIO keeps the order.
LEMMA EnqueueOrdered ==
    ASSUME NEW s \in Waits, NEW q \in Queue, NEW t \in Thread, Flag = "PRIO",
           s.prio[t] = Priority[t], \A u \in ToSet(s.list[q]) : s.prio[u] = Priority[u],
           Ordered(s.list[q], Priority)
    PROVE  Ordered(Enqueue(s, q, t), Priority)
<1> DEFINE l == s.list[q]
           worse == {i \in DOMAIN l : s.prio[t] < s.prio[l[i]]}
           pos == IF Flag = "FIFO" \/ worse = {} THEN Len(l) + 1 ELSE Min(worse)
<1>1. l \in Seq(Thread) /\ Len(l) \in Nat /\ DOMAIN l = 1..Len(l)
  BY ListType
<1>2. \A i \in 1..Len(l) : l[i] \in Thread /\ s.prio[l[i]] = Priority[l[i]]
  BY <1>1 DEF ToSet
<1>3. Enqueue(s, q, t) = InsertAt(l, pos, t) /\ Ordered(l, Priority)
  BY DEF Enqueue
<1> HIDE DEF l
<1>4. worse = {i \in 1..Len(l) : Priority[t] < Priority[l[i]]} /\ worse \subseteq Nat
  BY <1>1, <1>2
<1>5. Priority \in [Thread -> Int]
  BY PriorityAssumption
<1> HIDE DEF worse
<1>6. /\ pos \in 1..Len(l) + 1
      /\ \A j \in 1..Len(l) : j < pos => Priority[l[j]] <= Priority[t]
      /\ pos <= Len(l) => Priority[t] <= Priority[l[pos]]
  <2>0. \A j \in 1..Len(l) : Priority[l[j]] \in Int /\ Priority[t] \in Int
    BY <1>2, <1>5
  <2>1. CASE worse = {}
    BY <1>1, <1>4, <2>0, <2>1
  <2>2. CASE worse # {}
    <3>1. pos = Min(worse)
      BY <2>2
    <3> HIDE DEF pos
    <3>2. pos \in worse /\ \A n \in worse : pos <= n
      BY <1>4, <2>2, <3>1, MinProperties, Zenon
    <3>3. \A j \in 1..Len(l) : j < pos => j \notin worse
      BY <1>1, <1>4, <3>2
    <3> QED  BY <1>1, <1>4, <2>0, <3>2, <3>3
  <2> QED  BY <2>1, <2>2
<1> HIDE DEF pos
<1>7. Ordered(InsertAt(l, pos, t), Priority)
  BY <1>1, <1>3, <1>5, <1>6, InsertOrdered
<1> QED  BY <1>3, <1>7

\* Nothing that matters for the inheritance changes but the list, which gets shorter.
LEMMA InheritsStay ==
    ASSUME WaitInv(w, call), NEW m \in Mutexes, Inherits(m), w'.prio = w.prio,
           UNCHANGED <<owner, original_priority>>,
           w'.list[m] = w.list[m] \/ \E t : w'.list[m] = RemoveFirst(w.list[m], t)
    PROVE  Inherits(m)'
<1>1. w.list[m] \in Seq(Thread)
  BY Queues, ListType DEF WaitInv
<1>2. Ordered(w'.list[m], Priority) /\ ToSet(w'.list[m]) \subseteq ToSet(w.list[m])
  <2>1. CASE w'.list[m] = w.list[m]
    BY <2>1 DEF Inherits
  <2>2. CASE \E t : w'.list[m] = RemoveFirst(w.list[m], t)
    <3>1. PICK t : w'.list[m] = RemoveFirst(w.list[m], t)
      BY <2>2
    <3>2. Ordered(RemoveFirst(w.list[m], t), Priority)
      BY <1>1, RemoveOrdered DEF Inherits
    <3>3. ToSet(RemoveFirst(w.list[m], t)) \subseteq ToSet(w.list[m])
      BY <1>1, RemoveFirstProperties
    <3> QED  BY <3>1, <3>2, <3>3
  <2> QED  BY <2>1, <2>2
<1> QED  BY <1>2 DEF Inherits

\* rt_mutex_take of a free mutex: nobody waits for it, and the priority that it
\* records is the one the thread started with.
LEMMA TakeInherits ==
    ASSUME WaitInv(w, call), MutexInv, NEW m \in Mutexes, Inherits(m), NEW t \in Thread,
           TakeFree(m, t)
    PROVE  Inherits(m)'
<1>1. /\ owner[m] # t /\ mvalue[m] > 0 /\ owner' = [owner EXCEPT ![m] = t]
      /\ original_priority' = [original_priority EXCEPT ![m] = w.prio[t]]
      /\ w' = [w EXCEPT !.error[t] = "EOK"]
  BY DEF TakeFree, NoError
<1>2. w'.prio = w.prio /\ w'.list = w.list
  BY <1>1 DEF WaitInv, Waits
<1>3. owner[m] = Null /\ ToSet(w.list[m]) = {}
  <2>1. mvalue[m] = 1
    BY <1>1 DEF MutexInv, MtxTypeOK
  <2> QED  BY <2>1 DEF MutexInv, OwnerOK
<1>4. /\ owner'[m] = t /\ \A n \in Mutexes : n # m => owner'[n] = owner[n]
      /\ original_priority'[m] = Priority[t]
  BY <1>1 DEF MutexInv, MtxTypeOK, Inherits
<1> QED  BY <1>2, <1>3, <1>4, ThreadAssumption DEF Inherits

\* rt_mutex_take of another thread's mutex: the caller has its own priority, and
\* the owner gets it when it is more urgent.
LEMMA WaitInherits ==
    ASSUME WaitInv(w, call), MutexInv, Flag = "PRIO", NEW m \in Mutexes, Inherits(m),
           NEW t \in Thread, owner[m] # t, mvalue[m] = 0, NEW timed \in BOOLEAN,
           w' = SuspendOn(Inherit(w, owner[m], t), m, t, timed), UNCHANGED mutexVars
    PROVE  Inherits(m)'
<1> DEFINE o == owner[m]
           s == Inherit(w, o, t)
<1>0. m \in Queue /\ o \in Thread /\ o # t /\ w \in Waits
  BY Queues DEF MutexInv, OwnerOK, MtxTypeOK, WaitInv
<1>1. s \in Waits /\ s.list = w.list
      /\ \A u \in Thread : s.prio[u] = IF u = o /\ w.prio[t] < w.prio[o] THEN w.prio[t] ELSE w.prio[u]
  BY <1>0, InheritFields
<1>2. w' = SuspendOn(s, m, t, timed)
  OBVIOUS
<1> HIDE DEF s
<1>3. w'.prio = s.prio /\ w'.list[m] = Enqueue(s, m, t)
  BY <1>0, <1>1, <1>2, SuspendOnFields
<1>4. ToSet(w'.list[m]) = ToSet(w.list[m]) \cup {t}
  BY <1>0, <1>1, <1>3, EnqueueProperties
<1>5. o \notin ToSet(w.list[m]) /\ ToSet(w.list[m]) \subseteq Thread
  BY <1>0, ListType DEF MutexInv, OwnerOK
<1>6. w.prio[t] = Priority[t] /\ \A u \in Thread : u # o => s.prio[u] = Priority[u]
  BY <1>0, <1>1 DEF Inherits
<1>7. Ordered(Enqueue(s, m, t), Priority)
  <2>1. s.prio[t] = Priority[t] /\ \A u \in ToSet(s.list[m]) : s.prio[u] = Priority[u]
    BY <1>0, <1>1, <1>5, <1>6
  <2>2. Ordered(s.list[m], Priority)
    BY <1>1 DEF Inherits
  <2> QED  BY <1>0, <1>1, <2>1, <2>2, EnqueueOrdered
<1>8. \A u \in ToSet(w'.list[m]) : s.prio[o] <= Priority[u]
  <2> DEFINE a == Priority[t]
             b == w.prio[o]
             c == s.prio[o]
  <2>1. Priority \in [Thread -> Int] /\ a \in Int
    BY PriorityAssumption
  <2>2. b \in Int
    <3>1. w.prio \in [Thread -> 0..255]
      BY <1>0 DEF Waits
    <3>2. w.prio[o] \in 0..255
      BY <1>0, <3>1
    <3> QED  BY <3>2
  <2>3. \A u \in ToSet(w.list[m]) : b <= Priority[u] /\ Priority[u] \in Int
    BY <1>5, <2>1 DEF Inherits
  <2>4. c = IF a < b THEN a ELSE b
    BY <1>0, <1>1, <1>6
  <2> HIDE DEF a, b, c
  <2>5. c \in Int /\ c <= a /\ c <= b
    BY <2>1, <2>2, <2>4
  <2>6. \A u \in ToSet(w.list[m]) : c <= Priority[u]
    BY <2>2, <2>3, <2>5
  <2> QED  BY <1>4, <2>5, <2>6 DEF a, c
<1> QED  BY <1>3, <1>6, <1>7, <1>8 DEF Inherits, mutexVars

\* The last release: the owner gets its own priority back, so that everybody has
\* it, and the first waiter is the most urgent one.
LEMMA ReleaseInherits ==
    ASSUME WaitInv(w, call), MutexInv, NEW m \in Mutexes, Inherits(m), NEW t \in Thread,
           owner[m] = t, ReleaseLast(m)
    PROVE  Inherits(m)'
<1> DEFINE s == Restore(w, m)
           l == w.list[m]
           h == Head(l)
<1>0. w \in Waits /\ m \in Queue /\ t # Null
  BY Queues, ThreadAssumption DEF WaitInv
<1>1. /\ s \in Waits /\ s.list = w.list /\ WaitInv(s, call)
      /\ \A u \in Thread : s.prio[u] = Priority[u]
  <2>1. s = WithPriority(w, t, original_priority[m]) /\ original_priority[m] = Priority[t]
        /\ original_priority[m] \in Priorities
    BY <1>0 DEF Restore, WithPriority, Priorities, MutexInv, MtxTypeOK, Inherits
  <2> HIDE DEF s
  <2>2. /\ s \in Waits /\ s.list = w.list /\ s.stat = w.stat /\ s.error = w.error
        /\ s.timer = w.timer
        /\ \A u \in Thread : s.prio[u] = IF u = t THEN Priority[t] ELSE w.prio[u]
    BY <1>0, <2>1, PriorityFields
  <2>3. WaitInv(s, call)
    BY <2>2, WaitInvFields
  <2> QED  BY <2>2, <2>3 DEF Inherits
<1>2. CASE l # <<>>
  <2>1. /\ owner' = [owner EXCEPT ![m] = h]
        /\ original_priority' = [original_priority EXCEPT ![m] = s.prio[h]]
        /\ w' = ResumeFirst(s, m)
    BY <1>2 DEF ReleaseLast
  <2>2. h \in Thread /\ h = l[1] /\ l \in Seq(Thread)
    BY <1>0, <1>2, FirstWaits, ListType
  <2> HIDE DEF s
  <2>3. w' = Resume(s, h)
    BY <1>1, <1>2, <2>1 DEF ResumeFirst
  <2> HIDE DEF h
  <2>4. w'.prio = s.prio /\ w'.list[m] = RemoveFirst(l, h)
    <3>1. w'.prio = s.prio /\ w'.list[m] = RemoveFirst(s.list[m], h)
      BY <1>0, <1>1, <2>2, <2>3, ResumeFields, SMTT(30)
    <3> QED  BY <1>1, <3>1
  <2> HIDE DEF l
  <2>5. Ordered(RemoveFirst(l, h), Priority) /\ ToSet(RemoveFirst(l, h)) \subseteq ToSet(l)
    <3>1. Ordered(l, Priority)
      BY DEF Inherits, l
    <3>2. ToSet(RemoveFirst(l, h)) \subseteq ToSet(l)
      BY <2>2, RemoveFirstProperties
    <3> QED  BY <2>2, <3>1, <3>2, RemoveOrdered
  <2>6. \A u \in ToSet(l) : u \in Thread /\ Priority[h] <= Priority[u]
    <3>1. Ordered(l, Priority) /\ Priority[h] \in 0..254
      BY <2>2, PriorityAssumption DEF Inherits, l
    <3>2. \A j \in 1..Len(l) : j = 1 \/ 1 < j
      BY <2>2
    <3>3. \A j \in 1..Len(l) : Priority[h] <= Priority[l[j]]
      <4> TAKE j \in 1..Len(l)
      <4>1. 1 \in DOMAIN l /\ j \in DOMAIN l
        BY <2>2
      <4>2. 1 < j => Priority[l[1]] <= Priority[l[j]]
        BY <3>1, <4>1 DEF Ordered
      <4>3. j = 1 => Priority[l[j]] = Priority[h]
        BY <2>2
      <4>4. Priority[h] <= Priority[h]
        <5> DEFINE p == Priority[h]
        <5>1. p \in 0..254
          BY <3>1
        <5> HIDE DEF p
        <5>2. p <= p
          BY <5>1
        <5> QED  BY <5>2 DEF p
      <4> QED  BY <2>2, <3>2, <4>2, <4>3, <4>4
    <3> QED  BY <2>2, <3>3 DEF ToSet
  <2>7. /\ owner'[m] = h /\ \A n \in Mutexes : n # m => owner'[n] = owner[n]
        /\ original_priority'[m] = Priority[h]
    BY <1>1, <2>1, <2>2 DEF MutexInv, MtxTypeOK
  <2>8. \A u \in ToSet(w'.list[m]) : w'.prio[h] <= Priority[u]
    BY <1>1, <2>2, <2>4, <2>5, <2>6
  <2> QED  BY <1>1, <2>4, <2>5, <2>7, <2>8 DEF Inherits
<1>3. CASE l = <<>>
  <2>1. owner' = [owner EXCEPT ![m] = Null] /\ w' = s
    BY <1>3 DEF ReleaseLast
  <2>2. owner'[m] = Null /\ \A n \in Mutexes : n # m => owner'[n] = owner[n]
    BY <2>1 DEF MutexInv, MtxTypeOK
  <2>3. w'.list[m] = l /\ ToSet(l) = {}
    BY <1>0, <1>1, <1>3, <2>1, ListType, EmptyList
  <2> HIDE DEF s
  <2> QED  BY <1>1, <2>1, <2>2, <2>3 DEF Inherits
<1> QED  BY <1>2, <1>3

\* The steps of the mutex of the application.
LEMMA MutexInherits ==
    ASSUME WaitInv(w, call), MutexInv, Flag = "PRIO", NEW m \in Mutexes, w.app.mutexes = {m},
           Inherits(m), MtxNext
    PROVE  Inherits(m)'
<1>0. w \in Waits
  BY DEF WaitInv
<1>1. ASSUME NEW t \in Thread, NEW e, w' = [w EXCEPT !.error[t] = e],
             UNCHANGED <<owner, original_priority>>
      PROVE  Inherits(m)'
  <2>1. w'.prio = w.prio /\ w'.list = w.list
    BY <1>0, <1>1 DEF Waits
  <2> QED  BY <1>1, <2>1, InheritsStay
<1>2. ASSUME NEW t \in Thread, NEW time, rt_mutex_take(m, t, time) PROVE Inherits(m)'
  <2>1. CASE TakeAgain(m, t)
    BY <1>1, <2>1 DEF TakeAgain, NoError
  <2>2. CASE TakeFree(m, t)
    BY <2>2, TakeInherits
  <2>3. CASE TakeWait(m, t, time)
    <3> DEFINE timed == time = "timed"
    <3>1. timed \in BOOLEAN /\ owner[m] # t /\ mvalue[m] = 0 /\ UNCHANGED mutexVars
      BY <2>3 DEF TakeWait
    <3>2. \/ w' = [w EXCEPT !.error[t] = "ETIMEOUT"]
          \/ w' = SuspendOn(Inherit(w, owner[m], t), m, t, timed)
      BY <2>3 DEF TakeWait
    <3> HIDE DEF timed
    <3>3. CASE w' = [w EXCEPT !.error[t] = "ETIMEOUT"]
      BY <1>1, <3>1, <3>3 DEF mutexVars
    <3>4. CASE w' = SuspendOn(Inherit(w, owner[m], t), m, t, timed)
      BY <3>1, <3>4, WaitInherits
    <3> QED  BY <3>2, <3>3, <3>4
  <2> QED  BY <1>2, <2>1, <2>2, <2>3 DEF rt_mutex_take
<1>3. ASSUME NEW t \in Thread, rt_mutex_release(m, t) PROVE Inherits(m)'
  <2>1. CASE w' = [w EXCEPT !.error[t] = "ERROR"] /\ UNCHANGED mutexVars
    BY <1>1, <2>1 DEF mutexVars
  <2>2. CASE UNCHANGED <<w, owner, original_priority>>
    BY <2>2, InheritsStay
  <2>3. CASE owner[m] = t /\ ReleaseLast(m)
    BY <2>3, ReleaseInherits
  <2> QED  BY <1>3, <2>1, <2>2, <2>3 DEF rt_mutex_release
<1>4. ASSUME NEW t \in Thread, Taken(t) PROVE Inherits(m)'
  BY <1>4, InheritsStay DEF Taken
<1> QED  BY <1>2, <1>3, <1>4 DEF MtxNext

\* Priority inheritance, with RT_IPC_FLAG_PRIO and one mutex: whatever timeouts,
\* hand-overs and detaches there are, the owner has at least the priority of
\* every waiter, and a thread without the mutex is back at its own priority
\* (rt_mutex_take, rt_mutex_release, rt_ipc_list_suspend).
THEOREM InheritanceInvariance == Flag = "PRIO" => (Spec => []Inheritance)
<1> SUFFICES ASSUME Flag = "PRIO" PROVE Spec => []Inheritance
  OBVIOUS
<1>1. Init => InheritInv
  <2> SUFFICES ASSUME Init, NEW m \in Mutexes PROVE Inherits(m)
    BY DEF InheritInv
  <2>1. /\ w.prio = Priority /\ w.list = [q \in Queue |-> <<>>]
        /\ owner = [n \in Mutexes |-> Null]
    BY DEF Init, WaitsInit, MtxInit
  <2>2. w.list[m] = <<>> /\ ToSet(<<>>) = {} /\ Ordered(<<>>, Priority)
    BY <2>1, Queues DEF ToSet, Ordered
  <2> QED  BY <2>1, <2>2 DEF Inherits
<1>2. CoreInv /\ InheritInv /\ [Next]_vars => InheritInv'
  <2> SUFFICES ASSUME CoreInv, InheritInv, [Next]_vars PROVE InheritInv'
    OBVIOUS
  <2>1. /\ w'.app = w.app
        /\ MutexStep \/ (CalmMutexes /\ UNCHANGED mutexVars)
    BY CalmSteps DEF CoreInv, MutexInv
  <2>2. SUFFICES ASSUME NEW m \in Mutexes, w.app.mutexes = {m}, Inherits(m) PROVE Inherits(m)'
    BY <2>1 DEF InheritInv
  <2>3. CASE MutexStep
    BY <2>2, <2>3, MutexInherits DEF MutexStep, CoreInv, BaseInv
  <2>4. CASE CalmMutexes /\ UNCHANGED mutexVars
    <3>1. /\ w'.prio = w.prio /\ UNCHANGED <<owner, original_priority>>
          /\ w'.list[m] = w.list[m] \/ \E t : w'.list[m] = RemoveFirst(w.list[m], t)
      BY <2>4 DEF CalmMutexes, Calm, mutexVars
    <3> QED  BY <2>2, <3>1, InheritsStay DEF CoreInv, BaseInv
  <2> QED  BY <2>1, <2>3, <2>4
<1>3. CoreInv /\ InheritInv => Inheritance
  <2> SUFFICES ASSUME CoreInv, InheritInv, Cardinality(w.app.mutexes) = 1
               PROVE  NoInversion /\ PriorityRestored
    BY DEF Inheritance
  <2>0. w.app.mutexes \subseteq Mutexes /\ w \in Waits
    BY AppsAssumption DEF CoreInv, BaseInv, WaitInv, Waits
  <2>1. PICK m \in Mutexes : w.app.mutexes = {m}
    <3>1. IsFiniteSet(w.app.mutexes)
      BY <2>0, MutexesAssumption, FS_Subset
    <3>2. \E m : w.app.mutexes = {m}
      BY <3>1, FS_Singleton
    <3> QED  BY <2>0, <3>2
  <2>2. Inherits(m)
    BY <2>1 DEF InheritInv
  <2>3. \A n \in Mutexes : ToSet(w.list[n]) \subseteq Thread /\ owner[n] \notin ToSet(w.list[n])
    BY <2>0, Queues, ListType DEF CoreInv, MutexInv, OwnerOK
  <2>4. \A n \in Mutexes : n # m => ToSet(w.list[n]) = {}
    BY <2>2 DEF Inherits, CoreInv, MutexInv, OwnerOK
  <2>5. NoInversion
    BY <2>2, <2>3, <2>4 DEF Inherits, NoInversion
  <2>6. PriorityRestored
    BY <2>1, <2>2 DEF Inherits, PriorityRestored
  <2> QED  BY <2>5, <2>6
<1> QED  BY <1>1, <1>2, <1>3, CoreInvariance, PTL DEF Spec

-----------------------------------------------------------------------------
(* The detach of an object, step by step.  Between the test and the body of *)
(* rt_ipc_list_resume_all, a timeout may take the last waiter off the list, *)
(* and so may a thread or a handler that is inside a call of a mailbox or   *)
(* of a message queue.  Without those, the loop resumes waiters only.       *)

SafeDetach ==
    \A a \in Apps : "detach" \in a.uses => "timed" \notin a.timeouts /\ a.uses \cap {"mb", "mq"} = {}

NoTimers(s) == \A t \in Thread : ~s.timer[t]

DetachInv ==
    /\ drain.at # "wild" /\ (drain.at # "no" => Uses("detach"))
    /\ drain.at = "take" => w.list[Head(drain.todo)] # <<>>
    /\ Uses("detach") =>
          /\ NoTimers(w)
          /\ \A t \in Thread : call[t].op = "mp" => call[t].timeout # "timed"

\* Without a timeout to start, no timer runs, whoever is resumed.
LEMMA NoTimersKept ==
    ASSUME NEW s, NEW d, WaitInv(s, d), NoTimers(s)
    PROVE  /\ \A t \in Thread : NoTimers(Resume(s, t))
           /\ \A q \in Queue : NoTimers(ResumeFirst(s, q)) /\ NoTimers(ResumeAll(s, q))
           /\ \A q \in Queue, t \in Thread : NoTimers(SuspendOn(s, q, t, FALSE))
<1>0. s \in Waits
  BY DEF WaitInv
<1>1. ASSUME NEW t \in Thread PROVE NoTimers(Resume(s, t))
  <2>1. \A u \in Thread : Resume(s, t).timer[u] <=> u # t /\ s.timer[u]
    BY <1>0, ResumeFields
  <2> QED  BY <2>1 DEF NoTimers
<1>2. ASSUME NEW q \in Queue PROVE NoTimers(ResumeFirst(s, q))
  <2>1. s.list[q] # <<>> => Head(s.list[q]) \in Thread
    BY FirstWaits
  <2> QED  BY <1>1, <2>1 DEF ResumeFirst
<1>3. ASSUME NEW q \in Queue PROVE NoTimers(ResumeAll(s, q))
  <2>1. \A t \in Thread : ResumeAll(s, q).timer[t] <=> s.timer[t] /\ t \notin ToSet(s.list[q])
    BY <1>0, ResumeAllFields
  <2> QED  BY <2>1 DEF NoTimers
<1>4. ASSUME NEW q \in Queue, NEW t \in Thread PROVE NoTimers(SuspendOn(s, q, t, FALSE))
  <2> DEFINE timed == FALSE
  <2>0. timed \in BOOLEAN /\ ~timed
    OBVIOUS
  <2> HIDE DEF timed
  <2>1. \A u \in Thread : SuspendOn(s, q, t, timed).timer[u] <=> IF u = t THEN timed ELSE s.timer[u]
    BY <1>0, <2>0, SuspendOnFields
  <2>2. NoTimers(SuspendOn(s, q, t, timed))
    BY <2>0, <2>1 DEF NoTimers
  <2> QED  BY <2>2 DEF timed
<1> QED  BY <1>1, <1>2, <1>3, <1>4

\* A step of an object, seen from a detach: no timer starts, no call of
\* rt_mp_alloc has a timeout, and nobody leaves a list once the detach began.
Harmless ==
    /\ NoTimers(w')
    /\ \A t \in Thread : call'[t].op = "mp" =>
          call[t] = call'[t] \/ call'[t].timeout # "timed"
    /\ Attached \/ \A q \in Queue : w.list[q] # <<>> => w'.list[q] # <<>>

\* A call other than rt_mp_alloc begins or ends.
LEMMA HarmlessCall ==
    ASSUME WaitInv(w, call), NEW t \in Thread, NEW e, e.op # "mp",
           call' = call \/ call' = [call EXCEPT ![t] = e]
    PROVE  \A u \in Thread : call'[u].op = "mp" => call[u] = call'[u]
<1>1. DOMAIN call = Caller /\ Thread \subseteq Caller
  BY DEF WaitInv, Caller
<1> QED  BY <1>1

\* Semaphores, mutexes and event sets.
LEMMA HarmlessSteps ==
    ASSUME WaitInv(w, call), MtxTypeOK, EventInv, NoTimers(w), "timed" \notin w.app.timeouts,
           SemNext \/ MtxNext \/ EvtNext
    PROVE  Harmless
<1>0. /\ "sem" \in Queue /\ "event" \in Queue /\ Mutexes \subseteq Queue
      /\ w.app.mutexes \subseteq Mutexes /\ w \in Waits
  BY Queues, AppsAssumption DEF WaitInv, Waits
<1>1. ASSUME w' = w, NEW t \in Thread, call' = call \/ Return(t) PROVE Harmless
  <2>1. Idle.op # "mp"
    BY IdleIsNoCall
  <2>2. \A u \in Thread : call'[u].op = "mp" => call[u] = call'[u]
    BY <1>1, <2>1, HarmlessCall DEF Return
  <2> QED  BY <1>1, <2>2 DEF Harmless
<1>2. ASSUME Attached, NoTimers(w'), NEW t \in Thread, NEW e, e.op # "mp",
             call' = call \/ call' = [call EXCEPT ![t] = e]
      PROVE  Harmless
  BY <1>2, HarmlessCall DEF Harmless
<1>3. ASSUME Attached, NoTimers(w'), call' = call PROVE Harmless
  BY <1>3 DEF Harmless
<1>4. ASSUME NEW s, WaitInv(s, call), NoTimers(s), NEW q \in Queue, NEW t \in Thread,
             NEW time \in w.app.timeouts, w' = SuspendOn(s, q, t, time = "timed")
      PROVE  NoTimers(w')
  <2>1. (time = "timed") = FALSE
    OBVIOUS
  <2>2. w' = SuspendOn(s, q, t, FALSE)
    BY <1>4, <2>1
  <2> QED  BY <1>4, <2>2, NoTimersKept
<1>5. ASSUME NEW t \in Thread, NEW e, w' = [w EXCEPT !.error[t] = e] PROVE NoTimers(w')
  <2>1. w'.timer = w.timer
    BY <1>0, <1>5 DEF Waits
  <2> QED  BY <2>1 DEF NoTimers
<1>6. CASE SemNext
  <2>1. ASSUME NEW t \in Thread, NEW time \in w.app.timeouts, rt_sem_take(t, time) PROVE Harmless
    <3>1. Attached
      BY <2>1 DEF rt_sem_take, Free
    <3>2. CASE w' = w /\ call' = call
      BY <1>1, <3>2
    <3>3. CASE /\ w' = SuspendOn(w, "sem", t, time = "timed")
               /\ call' = [call EXCEPT ![t] = [op |-> "sem"]]
      <4>1. NoTimers(w')
        BY <1>0, <1>4, <3>3
      <4> DEFINE e == [op |-> "sem"]
      <4>2. e.op # "mp" /\ call' = [call EXCEPT ![t] = e]
        BY <3>3
      <4> HIDE DEF e
      <4> QED  BY <1>2, <3>1, <4>1, <4>2
    <3> QED  BY <2>1, <3>2, <3>3 DEF rt_sem_take
  <2>2. ASSUME NEW t \in Thread, SemTaken(t) PROVE Harmless
    BY <1>1, <2>2 DEF SemTaken
  <2>3. ASSUME rt_sem_release PROVE Harmless
    BY <1>0, <1>3, <2>3, NoTimersKept DEF rt_sem_release
  <2>4. ASSUME NEW v, rt_sem_control(v) PROVE Harmless
    BY <1>0, <1>3, <2>4, NoTimersKept DEF rt_sem_control
  <2> QED  BY <1>6, <2>1, <2>2, <2>3, <2>4 DEF SemNext
<1>7. CASE MtxNext
  <2>1. ASSUME NEW m \in Mutexes, NEW t \in Thread, NEW time \in w.app.timeouts,
               rt_mutex_take(m, t, time)
        PROVE  Harmless
    <3>0. Attached
      BY <2>1 DEF rt_mutex_take, Free
    <3>1. CASE \E e : w' = [w EXCEPT !.error[t] = e] /\ call' = call
      BY <1>3, <1>5, <3>0, <3>1
    <3>2. CASE /\ w' = SuspendOn(Inherit(w, owner[m], t), m, t, time = "timed")
               /\ call' = [call EXCEPT ![t] = [op |-> "mutex", mutex |-> m]]
      <4> DEFINE s == Inherit(w, owner[m], t)
      <4>1. WaitInv(s, call) /\ s.timer = w.timer
        BY InheritFields
      <4>2. NoTimers(s)
        BY <4>1 DEF NoTimers
      <4> HIDE DEF s
      <4>3. NoTimers(w')
        BY <1>0, <1>4, <3>2, <4>1, <4>2 DEF s
      <4> DEFINE e == [op |-> "mutex", mutex |-> m]
      <4>4. e.op # "mp" /\ call' = [call EXCEPT ![t] = e]
        BY <3>2
      <4> HIDE DEF e
      <4> QED  BY <1>2, <3>0, <4>3, <4>4
    <3> QED  BY <2>1, <3>1, <3>2 DEF rt_mutex_take, TakeAgain, TakeFree, TakeWait, NoError
  <2>2. ASSUME NEW m \in Mutexes, NEW t \in Thread, rt_mutex_release(m, t) PROVE Harmless
    <3>0. Attached /\ call' = call
      BY <2>2 DEF rt_mutex_release, Free
    <3>1. CASE \E e : w' = [w EXCEPT !.error[t] = e]
      BY <1>3, <1>5, <3>0, <3>1
    <3>2. CASE w' = w
      BY <1>1, <3>0, <3>2
    <3>3. CASE owner[m] = t /\ ReleaseLast(m)
      <4> DEFINE s == Restore(w, m)
      <4>1. s = WithPriority(w, t, original_priority[m]) /\ original_priority[m] \in Priorities
        BY <3>3 DEF Restore, WithPriority, Priorities, MtxTypeOK
      <4>2. w' = s \/ w' = ResumeFirst(s, m)
        BY <3>3 DEF ReleaseLast
      <4> HIDE DEF s
      <4>3. /\ s \in Waits /\ s.list = w.list /\ s.stat = w.stat /\ s.error = w.error
            /\ s.timer = w.timer
        BY <1>0, <4>1, PriorityFields
      <4>4. WaitInv(s, call) /\ NoTimers(s)
        BY <4>3, WaitInvFields DEF NoTimers
      <4>5. NoTimers(w')
        BY <1>0, <4>2, <4>4, NoTimersKept
      <4> QED  BY <1>3, <3>0, <4>5
    <3> QED  BY <2>2, <3>1, <3>2, <3>3 DEF rt_mutex_release
  <2>3. ASSUME NEW t \in Thread, Taken(t) PROVE Harmless
    BY <1>1, <2>3 DEF Taken
  <2> QED  BY <1>0, <1>7, <2>1, <2>2, <2>3 DEF MtxNext
<1>8. CASE EvtNext
  <2>1. ASSUME NEW es \in SUBSET Bit, rt_event_send(es) PROVE Harmless
    <3>1. Attached /\ call' = call
      BY <2>1 DEF rt_event_send
    <3>2. NoTimers(w')
      BY <2>1, SendWalk DEF WalkInv, NoTimers
    <3> QED  BY <1>3, <3>1, <3>2
  <2>2. ASSUME NEW t \in Thread, NEW es, NEW o, NEW time \in w.app.timeouts,
               rt_event_recv(t, es, o, time)
        PROVE  Harmless
    <3>0. Attached
      BY <2>2 DEF rt_event_recv, Free
    <3>1. CASE \E e : w' = [w EXCEPT !.error[t] = e] /\ call' = call
      BY <1>3, <1>5, <3>0, <3>1
    <3>2. CASE /\ w' = SuspendOn(w, "event", t, time = "timed")
               /\ call' = [call EXCEPT ![t] = [op |-> "event"]]
      <4>1. NoTimers(w')
        BY <1>0, <1>4, <3>2
      <4> DEFINE e == [op |-> "event"]
      <4>2. e.op # "mp" /\ call' = [call EXCEPT ![t] = e]
        BY <3>2
      <4> HIDE DEF e
      <4> QED  BY <1>2, <3>0, <4>1, <4>2
    <3> QED  BY <2>2, <3>1, <3>2 DEF rt_event_recv
  <2>3. ASSUME NEW t \in Thread, ReceivedEvents(t) PROVE Harmless
    BY <1>1, <2>3 DEF ReceivedEvents
  <2>4. ASSUME rt_event_control PROVE Harmless
    BY <1>0, <1>3, <2>4, NoTimersKept DEF rt_event_control
  <2> QED  BY <1>8, <2>1, <2>2, <2>3, <2>4 DEF EvtNext
<1> QED  BY <1>6, <1>7, <1>8

\* Memory pools: after a detach, a thread that was resumed may wait once more.
LEMMA HarmlessPool ==
    ASSUME WaitInv(w, call), NoTimers(w), "timed" \notin w.app.timeouts,
           \A t \in Thread : call[t].op = "mp" => call[t].timeout # "timed", MpNext
    PROVE  Harmless
<1>0. "mp" \in Queue /\ w \in Waits /\ DOMAIN call = Caller /\ Thread \subseteq Caller
  BY Queues DEF WaitInv, Caller
<1>1. ASSUME w' = w, NEW t \in Thread, call' = call \/ Return(t) PROVE Harmless
  <2>1. Idle.op # "mp"
    BY IdleIsNoCall
  <2>2. \A u \in Thread : call'[u].op = "mp" => call[u] = call'[u]
    BY <1>1, <2>1, HarmlessCall DEF Return
  <2> QED  BY <1>1, <2>2 DEF Harmless
<1>2. ASSUME NEW t \in Thread, NEW time, time # "timed", TryAlloc(t, time) PROVE Harmless
  <2>1. CASE w' = w /\ Return(t)
    BY <1>1, <2>1
  <2>2. CASE MpWait(t, time)
    <3> DEFINE r == SuspendOn(w, "mp", t, FALSE)
               l == <<t>> \o w.list["mp"]
               e == [op |-> "mp", timeout |-> time]
    <3>1. (time = "timed") = FALSE
      BY <1>2
    <3>2. w' = [r EXCEPT !.list["mp"] = l] /\ call' = [call EXCEPT ![t] = e]
      BY <2>2, <3>1 DEF MpWait, MpWaiters
    <3>3. r \in Waits /\ NoTimers(r)
      <4> DEFINE timed == FALSE
      <4>1. timed \in BOOLEAN
        OBVIOUS
      <4> HIDE DEF timed
      <4>2. SuspendOn(w, "mp", t, timed) \in Waits
        BY <1>0, <4>1, SuspendOnFields
      <4>3. r \in Waits
        BY <4>2 DEF timed
      <4> QED  BY <1>0, <4>3, NoTimersKept
    <3>4. \A q \in Queue : q # "mp" => r.list[q] = w.list[q]
      <4> DEFINE timed == FALSE
      <4>1. timed \in BOOLEAN
        OBVIOUS
      <4> HIDE DEF timed
      <4>2. \A q \in Queue : SuspendOn(w, "mp", t, timed).list[q]
                                = IF q = "mp" THEN Enqueue(w, "mp", t) ELSE w.list[q]
        BY <1>0, <4>1, SuspendOnFields
      <4> QED  BY <4>2 DEF timed
    <3>5. l # <<>> /\ l \in Seq(Thread)
      <4>1. w.list["mp"] \in Seq(Thread)
        BY <1>0, ListType
      <4> QED  BY <4>1
    <3> HIDE DEF r, l
    <3>6. w'.timer = r.timer /\ \A q \in Queue : w'.list[q] = IF q = "mp" THEN l ELSE r.list[q]
      BY <1>0, <3>2, <3>3, <3>5 DEF Waits
    <3>7. NoTimers(w') /\ \A q \in Queue : w.list[q] # <<>> => w'.list[q] # <<>>
      BY <3>3, <3>4, <3>5, <3>6 DEF NoTimers
    <3>8. e.timeout # "timed"
      BY <1>2
    <3>9. \A u \in Thread : (u = t /\ call'[u] = e) \/ call'[u] = call[u]
      BY <1>0, <3>2
    <3> QED  BY <3>7, <3>8, <3>9 DEF Harmless
  <2> QED  BY <1>2, <2>1, <2>2 DEF TryAlloc, Pop
<1>3. ASSUME NEW t \in Thread, WokenAlloc(t) PROVE Harmless
  <2>1. call[t].op = "mp"
    BY <1>3 DEF WokenAlloc, Woken
  <2>2. ASSUME NEW left \in Left(call[t].timeout) PROVE left # "timed"
    BY <2>1, <2>2 DEF Left
  <2> QED  BY <1>1, <1>2, <1>3, <2>2 DEF WokenAlloc
<1>4. ASSUME IsrAlloc PROVE Harmless
  <2>1. w' = w /\ call' = call
    BY <1>4 DEF IsrAlloc, Pop
  <2> QED  BY <2>1 DEF Harmless
<1>5. ASSUME NEW b, rt_mp_free(b) PROVE Harmless
  <2>1. Attached /\ call' = call /\ (w' = w \/ w' = ResumeFirst(w, "mp"))
    BY <1>5 DEF rt_mp_free
  <2>2. NoTimers(w')
    BY <1>0, <2>1, NoTimersKept
  <2> QED  BY <2>1, <2>2 DEF Harmless
<1> QED  BY <1>2, <1>3, <1>4, <1>5 DEF MpNext, rt_mp_alloc

\* What a step does to a detach in progress, and who may begin one.
LEMMA DetachKept ==
    ASSUME SafeDetach, CoreInv, DetachInv, Next
    PROVE  DetachInv'
<1>0. /\ BaseInv /\ MtxTypeOK /\ EventInv /\ WaitInv(w, call) /\ DrainOK /\ w \in Waits
      /\ w.app \in Apps
  BY DEF CoreInv, MutexInv, BaseInv, WaitInv, Waits
<1>1. w'.app = w.app /\ WaitInv(w', call')
  BY <1>0, CalmSteps DEF BaseInv
<1>2. Uses("detach")' <=> Uses("detach")
  BY <1>1 DEF Uses
<1>3. Uses("detach") => "timed" \notin w.app.timeouts /\ ~Uses("mb") /\ ~Uses("mq")
  BY <1>0 DEF SafeDetach, Uses
<1>4. ASSUME drain' = drain, Uses("detach") => Harmless PROVE DetachInv'
  <2>1. drain.at = "take" => Head(drain.todo) \in Queue
    BY <1>0 DEF DrainOK
  <2>2. drain.at = "take" => w'.list[Head(drain.todo)] # <<>>
    BY <1>4, <2>1 DEF DetachInv, Harmless, Attached
  <2> QED  BY <1>2, <1>4, <2>2 DEF DetachInv, Harmless
<1>5. ASSUME NEW t \in Thread, TimeoutOf(t) PROVE DetachInv'
  <2>1. drain' = drain /\ ~Uses("detach")
    BY <1>5 DEF TimeoutOf, DetachInv, NoTimers
  <2> QED  BY <1>4, <2>1
<1>6. CASE SemStep \/ MutexStep \/ EventStep
  <2>1. drain' = drain /\ (SemNext \/ MtxNext \/ EvtNext)
    BY <1>6 DEF SemStep, MutexStep, EventStep
  <2> QED  BY <1>0, <1>3, <1>4, <2>1, HarmlessSteps DEF DetachInv
<1>7. CASE MailboxStep \/ MessageQueueStep
  <2>1. drain' = drain /\ ~Uses("detach")
    BY <1>3, <1>7 DEF MailboxStep, MessageQueueStep
  <2> QED  BY <1>4, <2>1
<1>8. CASE MemPoolStep
  <2>1. drain' = drain /\ MpNext
    BY <1>8 DEF MemPoolStep
  <2> QED  BY <1>0, <1>3, <1>4, <2>1, HarmlessPool DEF DetachInv
<1>9. CASE DetachStep
  <2>0. /\ Uses("detach") /\ NoTimers(w)
        /\ \A t \in Thread : call[t].op = "mp" => call[t].timeout # "timed"
    BY <1>9 DEF DetachStep, DetachInv
  <2>1. ASSUME NoTimers(w'), call' = call, drain'.at # "wild",
               drain'.at = "take" => w'.list[Head(drain'.todo)] # <<>>
        PROVE  DetachInv'
    BY <1>2, <2>0, <2>1 DEF DetachInv
  <2>2. ASSUME NEW qs, Begin("detach", qs) PROVE DetachInv'
    <3>1. w' = w /\ call' = call /\ drain'.at = "test"
      BY <2>2 DEF Begin
    <3> QED  BY <2>0, <2>1, <3>1
  <2>3. CASE Detach
    BY <2>2, <2>3 DEF Detach, rt_sem_detach, rt_mutex_detach, rt_event_detach, rt_mb_detach,
                      rt_mq_detach, rt_mp_detach
  <2>4. CASE DrainTest
    <3>1. w' = w /\ call' = call
      BY <2>4 DEF DrainTest
    <3>2. CASE w.list[Head(drain.todo)] # <<>>
      <4>1. drain' = [drain EXCEPT !.at = "take"]
        BY <2>4, <3>2 DEF DrainTest
      <4>2. drain'.at = "take" /\ drain'.todo = drain.todo
        BY <1>0, <4>1 DEF DrainOK
      <4> QED  BY <2>0, <2>1, <3>1, <3>2, <4>2
    <3>3. CASE w.list[Head(drain.todo)] = <<>>
      <4>1. drain.at = "test"
            /\ drain' \in {[drain EXCEPT !.todo = Tail(@)], NoDrain, [drain EXCEPT !.at = "gone"]}
        BY <2>4, <3>3 DEF DrainTest
      <4>2. drain'.at \in {"test", "no", "gone"}
        BY <1>0, <4>1 DEF NoDrain, DrainOK
      <4> QED  BY <2>0, <2>1, <3>1, <4>2
    <3> QED  BY <3>2, <3>3
  <2>5. CASE DrainTake
    <3> DEFINE q == Head(drain.todo)
               t == Head(w.list[q])
    <3>1. w.list[q] # <<>> /\ q \in Queue
      <4>1. drain.at = "take"
        BY <2>5 DEF DrainTake
      <4>2. w.list[q] # <<>>
        BY <4>1 DEF DetachInv
      <4>3. drain.todo \in Seq(Queue) /\ drain.todo # <<>>
        BY <1>0, <4>1 DEF DrainOK
      <4> QED  BY <4>2, <4>3
    <3>2. /\ w' = [Resume(w, t) EXCEPT !.error[t] = "ERROR"] /\ call' = call
          /\ drain' = [drain EXCEPT !.at = "test"]
      BY <2>5, <3>1 DEF DrainTake
    <3>3. t \in Thread
      BY <1>0, <3>1, FirstWaits
    <3> HIDE DEF t, q
    <3>4. NoTimers(Resume(w, t)) /\ Resume(w, t) \in Waits
      BY <1>0, <2>0, <3>3, NoTimersKept, ResumeFields
    <3> DEFINE r == Resume(w, t)
    <3> HIDE DEF r
    <3>5. w'.timer = r.timer
      BY <3>2, <3>4 DEF Waits, r
    <3>6. NoTimers(w')
      BY <3>4, <3>5 DEF NoTimers, r
    <3>7. drain'.at = "test"
      BY <1>0, <3>2 DEF DrainOK
    <3> QED  BY <2>1, <3>2, <3>6, <3>7
  <2> QED  BY <1>9, <2>3, <2>4, <2>5 DEF DetachStep, MpDrainTake
<1> QED  BY <1>5, <1>6, <1>7, <1>8, <1>9 DEF Next

\* A detach or a delete resumes waiters only, and the lists say who waits, in
\* applications that detach semaphores, mutexes, event sets and memory pools
\* without timed waits (rt_ipc_list_resume_all, rt_mp_detach).  With a timed wait the
\* loop may run off the list: run detach_timed.
THEOREM WaitersConsistentInvariance == SafeDetach => (Spec => []WaitersConsistent)
<1> SUFFICES ASSUME SafeDetach PROVE Spec => []WaitersConsistent
  OBVIOUS
<1>1. Init => DetachInv
  <2> SUFFICES ASSUME Init PROVE DetachInv
    OBVIOUS
  <2>1. /\ drain = NoDrain /\ call = [c \in Caller |-> Idle]
        /\ w.timer = [t \in Thread |-> FALSE]
    BY DEF Init, WaitsInit
  <2>2. drain.at = "no" /\ \A t \in Thread : call[t] = Idle /\ ~w.timer[t]
    BY <2>1 DEF NoDrain, Caller
  <2> QED  BY <2>2, IdleIsNoCall DEF DetachInv, NoTimers
<1>2. CoreInv /\ DetachInv /\ [Next]_vars => DetachInv'
  <2>1. DetachInv /\ UNCHANGED vars => DetachInv'
    BY DEF DetachInv, vars, NoTimers, Uses
  <2> QED  BY <2>1, DetachKept
<1>3. CoreInv /\ DetachInv => WaitersConsistent
  BY WaitsAreConsistent DEF CoreInv, BaseInv, DetachInv, WaitersConsistent, ResumesOnlyWaiters
<1> QED  BY <1>1, <1>2, <1>3, CoreInvariance, PTL DEF Spec

-----------------------------------------------------------------------------

\* Counters of ValueMod values: adding ValueMod changes no residue.
LEMMA ModAddsZero ==
    ASSUME NEW x \in Int, x % ValueMod = 0
    PROVE  (x + ValueMod) % ValueMod = 0
<1>1. ValueMod \in Nat \ {0}
  BY ValueModAssumption
<1>2. PICK k \in Int : x = ValueMod * k
  <2>1. x = ValueMod * (x \div ValueMod)
    BY <1>1
  <2>2. x \div ValueMod \in Int
    BY <1>1
  <2> QED  BY <2>1, <2>2, Zenon
<1>3. x + ValueMod = ValueMod * (k + 1)
  BY <1>1, <1>2
<1>4. (ValueMod * (k + 1)) % ValueMod = 0
  BY <1>1
<1> QED  BY <1>3, <1>4

\* The number of threads that were resumed without an error is a number.
LEMMA ResumedFinite ==
    ASSUME NEW op
    PROVE  /\ IsFiniteSet(Resumed(op)) /\ Cardinality(Resumed(op)) \in Nat
           /\ \A t \in Resumed(op) : Cardinality(Resumed(op) \ {t}) = Cardinality(Resumed(op)) - 1
           /\ \A t : t \notin Resumed(op) => Cardinality(Resumed(op) \ {t}) = Cardinality(Resumed(op))
           /\ \A t : t \notin Resumed(op) =>
                 Cardinality(Resumed(op) \cup {t}) = Cardinality(Resumed(op)) + 1
           /\ \A t : Cardinality(Resumed(op) \ {t}) \in Nat
<1>1. IsFiniteSet(Resumed(op)) /\ Cardinality(Resumed(op)) \in Nat
  BY WokeFinite, ResumedIsWoke
<1>2. \A t : Cardinality(Resumed(op) \ {t}) \in Nat
  BY <1>1, FS_RemoveElement, FS_CardinalityType
<1> QED  BY <1>1, <1>2, FS_AddElement, FS_RemoveElement

SemInv == SemTypeOK /\ PermitsConserved /\ NoIdlePermit

\* Semaphores: the steps of others.
LEMMA SemCalm ==
    ASSUME WaitInv(w, call), WaitInv(w', call'), SemInv, Calm("sem", "sem"), UNCHANGED semVars
    PROVE  SemInv'
<1>1. Len(w.list["sem"]) \in Nat /\ Len(w'.list["sem"]) \in Nat
      /\ w.list["sem"] \in Seq(Thread) /\ w'.list["sem"] \in Seq(Thread)
  BY Queues, ListType DEF WaitInv
<1>2. w.list["sem"] = <<>> => w'.list["sem"] = <<>>
  BY <1>1 DEF Calm
<1> QED  BY <1>2 DEF SemInv, SemTypeOK, PermitsConserved, NoIdlePermit, SemWaiters, Calm, semVars

\* The operations of rt_sem_* keep the invariant.
LEMMA SemKept ==
    ASSUME WaitInv(w, call), SemInv, SemNext
    PROVE  SemInv'
<1> DEFINE x == permits - value - Cardinality(Resumed("sem"))
<1>q. "sem" \in Queue /\ "sem" \notin Mutexes /\ OpOf("sem") = "sem" /\ w \in Waits
  BY Queues, Names DEF WaitInv
<1>f. /\ Cardinality(Resumed("sem")) \in Nat
      /\ \A t \in Resumed("sem") : Cardinality(Resumed("sem") \ {t}) = Cardinality(Resumed("sem")) - 1
      /\ \A t : t \notin Resumed("sem") =>
            Cardinality(Resumed("sem") \cup {t}) = Cardinality(Resumed("sem")) + 1
  BY ResumedFinite
<1>t. value \in 0..ValueMod - 1 /\ permits \in Int /\ ValueMod \in Nat \ {0} /\ x % ValueMod = 0
      /\ x \in Int
  BY <1>f, ValueModAssumption DEF SemInv, SemTypeOK, PermitsConserved
<1>1. ASSUME NEW t \in Thread, NEW time, rt_sem_take(t, time)
      PROVE  SemInv'
  <2>1. CASE value > 0 /\ value' = value - 1 /\ permits' = permits - 1 /\ UNCHANGED <<w, call>>
    <3>1. Resumed("sem")' = Resumed("sem") /\ SemWaiters' = SemWaiters
      BY <2>1 DEF Resumed, SemWaiters
    <3>2. permits' - value' - Cardinality(Resumed("sem")') = x
      BY <1>f, <1>t, <2>1, <3>1
    <3>3. value' \in 0..ValueMod - 1 /\ permits' \in Int
      BY <1>t, <2>1
    <3>4. SemWaiters = <<>>
      BY <1>t, <2>1 DEF SemInv, NoIdlePermit
    <3> QED  BY <1>t, <3>1, <3>2, <3>3, <3>4 DEF SemInv, SemTypeOK, PermitsConserved, NoIdlePermit
  <2>2. CASE /\ value = 0 /\ w' = SuspendOn(w, "sem", t, time = "timed")
             /\ call' = [call EXCEPT ![t] = [op |-> "sem"]]
             /\ UNCHANGED <<value, permits>>
    <3> DEFINE timed == time = "timed"
               e == [op |-> "sem"]
    <3>0. timed \in BOOLEAN
      OBVIOUS
    <3>w. w' = SuspendOn(w, "sem", t, timed) /\ call' = [call EXCEPT ![t] = e]
      BY <2>2
    <3> HIDE DEF timed, e
    <3>1. Woke(SuspendOn(w, "sem", t, timed), [call EXCEPT ![t] = e], "sem") = Woke(w, call, "sem") \ {t}
      BY <1>q, <3>0, WokeSuspend
    <3>2. t \notin Resumed("sem")
      BY <1>1, Runs DEF rt_sem_take, Resumed
    <3>3. Resumed("sem")' = Resumed("sem")
      BY <3>w, <3>1, <3>2, ResumedIsWoke
    <3> QED  BY <2>2, <3>3 DEF SemInv, SemTypeOK, PermitsConserved, NoIdlePermit
  <2> QED  BY <1>1, <2>1, <2>2 DEF rt_sem_take
<1>2. ASSUME NEW t \in Thread, SemTaken(t)
      PROVE  SemInv'
  <2>1. w' = w /\ value' = value /\ call' = [call EXCEPT ![t] = Idle]
        /\ permits' = IF w.error[t] = "EOK" THEN permits - 1 ELSE permits
    BY <1>2 DEF SemTaken, Return
  <2>2. Woke(w, [call EXCEPT ![t] = Idle], "sem") = Woke(w, call, "sem") \ {t}
    BY IdleIsNoCall, WokeStay
  <2>3. Resumed("sem")' = Resumed("sem") \ {t}
    BY <2>1, <2>2, ResumedIsWoke
  <2>4. t \in Resumed("sem") <=> w.error[t] = "EOK"
    BY <1>2, Runs DEF SemTaken, Resumed
  <2>5. permits' - value' - Cardinality(Resumed("sem")') = x /\ permits' \in Int
    <3>1. CASE w.error[t] = "EOK"
      BY <1>f, <1>t, <2>1, <2>3, <2>4, <3>1
    <3>2. CASE w.error[t] # "EOK"
      <4>1. Resumed("sem") \ {t} = Resumed("sem")
        BY <2>4, <3>2
      <4> QED  BY <1>f, <1>t, <2>1, <2>3, <3>2, <4>1
    <3> QED  BY <3>1, <3>2
  <2> QED  BY <1>t, <2>1, <2>5 DEF SemInv, SemTypeOK, PermitsConserved, NoIdlePermit, SemWaiters
<1>3. ASSUME rt_sem_release
      PROVE  SemInv'
  <2>0. call' = call /\ permits' = permits + 1
    BY <1>3 DEF rt_sem_release
  <2>1. CASE SemWaiters # <<>>
    <3> DEFINE t == Head(w.list["sem"])
    <3>1. w' = ResumeFirst(w, "sem") /\ value' = value
      BY <1>3, <2>1 DEF rt_sem_release
    <3>2. /\ Woke(ResumeFirst(w, "sem"), call, "sem") = Woke(w, call, "sem") \cup {t}
          /\ t \notin Woke(w, call, "sem")
      BY <1>q, <2>1, WokeResumeFirst DEF SemWaiters
    <3> HIDE DEF t
    <3>3. Resumed("sem")' = Resumed("sem") \cup {t} /\ t \notin Resumed("sem")
      BY <2>0, <3>1, <3>2, ResumedIsWoke
    <3>4. permits' - value' - Cardinality(Resumed("sem")') = x
      BY <1>f, <1>t, <2>0, <3>1, <3>3
    <3>5. value' = 0 /\ permits' \in Int
      BY <1>t, <2>0, <2>1, <3>1 DEF SemInv, NoIdlePermit
    <3> QED  BY <1>t, <3>1, <3>4, <3>5 DEF SemInv, SemTypeOK, PermitsConserved, NoIdlePermit
  <2>2. CASE SemWaiters = <<>>
    <3>1. w' = w /\ value' = (value + 1) % ValueMod
      BY <1>3, <2>2 DEF rt_sem_release
    <3>2. Resumed("sem")' = Resumed("sem") /\ SemWaiters' = <<>>
      BY <2>0, <2>2, <3>1 DEF Resumed, SemWaiters
    <3>3. CASE value + 1 < ValueMod
      <4>1. value' = value + 1
        BY <1>t, <3>1, <3>3
      <4>2. permits' - value' - Cardinality(Resumed("sem")') = x /\ permits' \in Int
        BY <1>f, <1>t, <2>0, <3>2, <4>1
      <4> QED  BY <1>t, <3>2, <3>3, <4>1, <4>2 DEF SemInv, SemTypeOK, PermitsConserved, NoIdlePermit
    <3>4. CASE value = ValueMod - 1
      <4>1. value' = 0
        BY <1>t, <3>1, <3>4
      <4>2. permits' - value' - Cardinality(Resumed("sem")') = x + ValueMod /\ permits' \in Int
        BY <1>f, <1>t, <2>0, <3>2, <3>4, <4>1
      <4>3. (x + ValueMod) % ValueMod = 0
        BY <1>t, ModAddsZero
      <4> QED  BY <1>t, <4>1, <4>2, <4>3 DEF SemInv, SemTypeOK, PermitsConserved, NoIdlePermit
    <3> QED  BY <1>t, <3>3, <3>4
  <2> QED  BY <2>1, <2>2
<1>4. ASSUME NEW v \in 0..ValueMod, rt_sem_control(v)
      PROVE  SemInv'
  <2>1. /\ w' = ResumeAll(w, "sem") /\ call' = call /\ value' = v % ValueMod
        /\ permits' = (v % ValueMod) + Cardinality(Resumed("sem"))
    BY <1>4 DEF rt_sem_control
  <2>2. Resumed("sem")' = Resumed("sem")
    BY <1>q, <2>1, WokeResumeAll, ResumedIsWoke
  <2>3. value' \in 0..ValueMod - 1
    BY <1>t, <2>1
  <2>4. permits' - value' - Cardinality(Resumed("sem")') = 0 /\ permits' \in Int
    BY <1>f, <2>1, <2>2, <2>3
  <2>5. SemWaiters' = <<>>
    BY <1>q, <2>1, ResumeAllFields DEF SemWaiters
  <2>6. 0 % ValueMod = 0
    BY <1>t
  <2> QED  BY <2>3, <2>4, <2>5, <2>6 DEF SemInv, SemTypeOK, PermitsConserved, NoIdlePermit
<1> QED  BY <1>1, <1>2, <1>3, <1>4 DEF SemNext

-----------------------------------------------------------------------------
(* What the sections of the calls do to the threads resumed for a call.      *)

\* A thread or a handler returns, and with it leaves the resumed threads.
LEMMA ReturnWoke ==
    ASSUME WaitInv(w, call), NEW c \in Caller, Return(c), NEW s,
           NEW op \in {"sem", "mutex", "event", "mb_send", "mb_recv", "mq", "mp"}
    PROVE  Woke(s, call', op) = Woke(s, call, op) \ {c}
<1>1. \A u \in Thread : call'[u] = IF u = c THEN Idle ELSE call[u]
  BY DEF WaitInv, Caller, Return
<1>2. Idle.op # op
  BY IdleIsNoCall
<1> QED  BY <1>1, <1>2 DEF Woke

\* The caller begins to wait, again perhaps.
LEMMA SuspendCounts ==
    ASSUME WaitInv(w, call), NEW q \in Queue, NEW t \in Thread, NEW timed \in BOOLEAN, NEW e,
           w' = SuspendOn(w, q, t, timed), call' = [call EXCEPT ![t] = e]
    PROVE  /\ \A op : Resumed(op)' = Resumed(op) \ {t}
           /\ \A p \in Queue : p # q => w'.list[p] = w.list[p]
<1> DEFINE r == SuspendOn(w, q, t, timed)
<1>1. \A u \in Thread : /\ r.stat[u] = IF u = t THEN "SUSPEND" ELSE w.stat[u]
                        /\ r.error[u] = IF u = t THEN "EOK" ELSE w.error[u]
  BY SuspendOnFields DEF WaitInv
<1>2. \A p \in Queue : r.list[p] = IF p = q THEN Enqueue(w, q, t) ELSE w.list[p]
  BY SuspendOnFields DEF WaitInv
<1>3. \A u \in Thread : call'[u] = IF u = t THEN e ELSE call[u]
  BY DEF WaitInv, Caller
<1>w. w' = r
  OBVIOUS
<1> HIDE DEF r
<1>4. \A op : Resumed(op)' = Resumed(op) \ {t}
  BY <1>1, <1>3, <1>w DEF Resumed
<1> QED  BY <1>2, <1>4, <1>w

\* A section that resumes the first waiter of q; its caller may return.
LEMMA ResumeCounts ==
    ASSUME WaitInv(w, call), NEW q \in Queue, w' = ResumeFirst(w, q), NEW t,
           call' = call \/ (t \in Caller /\ Return(t) /\ (t \in Thread => w.stat[t] = "READY")),
           NEW op \in {"sem", "mutex", "event", "mb_send", "mb_recv", "mq", "mp"}
    PROVE  /\ op # OpOf(q) =>
                  \/ Resumed(op)' = Resumed(op)
                  \/ Resumed(op)' = Resumed(op) \ {t}
           /\ op = OpOf(q) /\ w.list[q] # <<>> /\ t \notin Resumed(op) =>
                  \E u \in Thread : u \notin Resumed(op) /\ Resumed(op)' = Resumed(op) \cup {u}
           /\ \A p \in Queue : p # q => w'.list[p] = w.list[p]
           /\ w.list[q] = <<>> => w'.list[q] = <<>>
<1> DEFINE u == Head(w.list[q])
           r == ResumeFirst(w, q)
<1>1. Resumed(op)' = Woke(r, call, op) \/ (t \in Caller /\ Resumed(op)' = Woke(r, call, op) \ {t})
  BY ReturnWoke, ResumedIsWoke
<1>2. op # OpOf(q) => Woke(r, call, op) = Resumed(op)
  BY WokeResumeFirst, ResumedIsWoke
<1>3. ASSUME op = OpOf(q), w.list[q] # <<>>, t \notin Resumed(op)
      PROVE  u \in Thread /\ u \notin Resumed(op) /\ Resumed(op)' = Resumed(op) \cup {u}
  <2>1. u \in Thread /\ w.stat[u] = "SUSPEND"
    BY <1>3, FirstWaits
  <2>2. Woke(r, call, op) = Resumed(op) \cup {u} /\ u \notin Resumed(op)
    BY <1>3, WokeResumeFirst, ResumedIsWoke
  <2> HIDE DEF u, r
  <2>3. CASE call' = call
    BY <2>1, <2>2, <2>3, ResumedIsWoke DEF r
  <2>4. CASE t \in Caller /\ Return(t) /\ (t \in Thread => w.stat[t] = "READY")
    <3>1. t # u
      BY <2>1, <2>4
    <3>2. Resumed(op)' = Woke(r, call, op) \ {t}
      BY <2>4, ReturnWoke, ResumedIsWoke DEF r
    <3> QED  BY <1>3, <2>1, <2>2, <3>1, <3>2
  <2> QED  BY <2>3, <2>4
<1>4. \A p \in Queue : p # q => r.list[p] = w.list[p]
  BY ResumeFirstFields
<1>5. w.list[q] = <<>> => r.list[q] = <<>>
  BY ResumeFirstFields
<1> QED  BY <1>1, <1>2, <1>3, <1>4, <1>5

-----------------------------------------------------------------------------
(* Mailboxes.                                                                *)

MbInv == MbTypeOK /\ RingConsistent /\ MailWakes

\* The mails, oldest first.
Mails == [i \in 1..entry |-> Word(i - 1)]

\* The words of the ring.
LEMMA WordType ==
    ASSUME MbTypeOK, NEW i \in 0..Size
    PROVE  Word(i) \in Mail \cup {NoMail}
<1> DEFINE o == IF out_offset + i < Size THEN out_offset + i ELSE out_offset + i - Size
<1>1. o \in Offset
  BY SizeAssumption DEF MbTypeOK, Offset
<1> QED  BY <1>1 DEF MbTypeOK, Word

\* The mails are a sequence.
LEMMA MailsType ==
    ASSUME MbTypeOK
    PROVE  Mails \in Seq(Mail \cup {NoMail}) /\ Len(Mails) = entry
<1>1. entry \in Nat /\ Size \in Nat
  BY SizeAssumption DEF MbTypeOK
<1>2. \A i \in 1..entry : Word(i - 1) \in Mail \cup {NoMail}
  <2>1. \A i \in 1..entry : i - 1 \in 0..Size
    BY <1>1 DEF MbTypeOK
  <2> QED  BY <2>1, WordType
<1> QED  BY <1>1, <1>2 DEF Mails

\* The end of rt_mb_send_wait appends a mail.
LEMMA PutAppends ==
    ASSUME MbTypeOK, RingConsistent, entry < Size, NEW mail \in Mail, Put(mail), mb_got' = mb_got
    PROVE  MbTypeOK' /\ RingConsistent' /\ entry' = entry + 1 /\ Mails' = Append(Mails, mail)
<1>1. /\ Size \in Nat \ {0} /\ entry \in 0..Size /\ in_offset \in Offset /\ out_offset \in Offset
      /\ msg_pool \in [Offset -> Mail \cup {NoMail}]
  BY SizeAssumption DEF MbTypeOK
<1>2. /\ msg_pool' = [msg_pool EXCEPT ![in_offset] = mail] /\ entry' = entry + 1
      /\ in_offset' = Advance(in_offset) /\ out_offset' = out_offset
  BY DEF Put
<1>3. Advance(in_offset) \in Offset
  BY <1>1 DEF Advance, Offset
<1>4. MbTypeOK'
  BY <1>1, <1>2, <1>3 DEF MbTypeOK
<1>5. RingConsistent'
  BY <1>1, <1>2 DEF RingConsistent, Advance, Offset
<1>6. \A i \in 0..entry : Word(i)' = IF i = entry THEN mail ELSE Word(i)
  <2> SUFFICES ASSUME NEW i \in 0..entry
               PROVE  Word(i)' = IF i = entry THEN mail ELSE Word(i)
    OBVIOUS
  <2> DEFINE o == IF out_offset + i < Size THEN out_offset + i ELSE out_offset + i - Size
  <2>1. o \in Offset /\ (o = in_offset <=> i = entry)
    BY <1>1 DEF RingConsistent, Offset
  <2>2. Word(i)' = msg_pool'[o] /\ Word(i) = msg_pool[o]
    BY <1>2 DEF Word
  <2> HIDE DEF o
  <2> QED  BY <1>1, <1>2, <2>1, <2>2
<1>7. Mails' = Append(Mails, mail)
  <2>1. Mails \in Seq(Mail \cup {NoMail}) /\ Len(Mails) = entry
        /\ Mails' \in Seq(Mail \cup {NoMail}) /\ Len(Mails') = entry + 1
    <3>1. Mails' \in Seq(Mail \cup {NoMail}) /\ Len(Mails') = entry'
      <4>1. entry' \in Nat
        BY <1>1, <1>2
      <4>2. \A i \in 1..entry' : Word(i - 1)' \in Mail \cup {NoMail}
        <5>1. \A i \in 1..entry' : i - 1 \in 0..entry /\ i - 1 \in 0..Size
          BY <1>1, <1>2
        <5> QED  BY <1>6, <5>1, WordType
      <4> QED  BY <4>1, <4>2 DEF Mails
    <3> QED  BY <1>2, <3>1, MailsType
  <2>2. \A i \in 1..entry + 1 : Mails'[i] = IF i = entry + 1 THEN mail ELSE Mails[i]
    <3> SUFFICES ASSUME NEW i \in 1..entry + 1
                 PROVE  Mails'[i] = IF i = entry + 1 THEN mail ELSE Mails[i]
      OBVIOUS
    <3>1. i - 1 \in 0..entry /\ (i - 1 = entry <=> i = entry + 1) /\ (i # entry + 1 => i \in 1..entry)
      BY <1>1
    <3>2. Mails'[i] = Word(i - 1)'
      BY <1>2 DEF Mails
    <3> QED  BY <1>6, <3>1, <3>2 DEF Mails
  <2> HIDE DEF Mails
  <2> QED  BY <1>1, <2>1, <2>2
<1> QED  BY <1>2, <1>4, <1>5, <1>7

\* The end of rt_mb_recv takes the oldest mail.
LEMMA GetTakes ==
    ASSUME MbTypeOK, RingConsistent, entry > 0, Get
    PROVE  /\ MbTypeOK' /\ RingConsistent' /\ entry' = entry - 1
           /\ mb_got' = Head(Mails) /\ Mails' = Tail(Mails) /\ Mails # <<>>
<1>1. /\ Size \in Nat \ {0} /\ entry \in 1..Size /\ in_offset \in Offset /\ out_offset \in Offset
      /\ msg_pool \in [Offset -> Mail \cup {NoMail}]
  BY SizeAssumption DEF MbTypeOK
<1>2. /\ msg_pool' = msg_pool /\ entry' = entry - 1 /\ mb_got' = msg_pool[out_offset]
      /\ in_offset' = in_offset /\ out_offset' = Advance(out_offset)
  BY DEF Get
<1>3. Advance(out_offset) \in Offset
  BY <1>1 DEF Advance, Offset
<1>4. MbTypeOK'
  BY <1>1, <1>2, <1>3 DEF MbTypeOK
<1>5. RingConsistent'
  BY <1>1, <1>2 DEF RingConsistent, Advance, Offset
<1>6. \A i \in 0..entry - 2 : Word(i)' = Word(i + 1)
  <2> SUFFICES ASSUME NEW i \in 0..entry - 2 PROVE Word(i)' = Word(i + 1)
    OBVIOUS
  <2>1. (IF out_offset' + i < Size THEN out_offset' + i ELSE out_offset' + i - Size)
           = IF out_offset + (i + 1) < Size THEN out_offset + (i + 1) ELSE out_offset + (i + 1) - Size
    BY <1>1, <1>2 DEF Advance, Offset
  <2> QED  BY <1>2, <2>1 DEF Word
<1>7. Word(0) = msg_pool[out_offset]
  BY <1>1 DEF Word, Offset
<1>8. /\ Mails \in Seq(Mail \cup {NoMail}) /\ Len(Mails) = entry
      /\ Mails' \in Seq(Mail \cup {NoMail}) /\ Len(Mails') = entry - 1
  <2>1. entry' \in Nat
    BY <1>1, <1>2
  <2>2. \A i \in 1..entry' : Word(i - 1)' \in Mail \cup {NoMail}
    <3>1. \A i \in 1..entry' : i - 1 \in 0..entry - 2 /\ (i - 1) + 1 \in 0..Size
      BY <1>1, <1>2
    <3> QED  BY <1>6, <3>1, WordType
  <2>3. Mails' \in Seq(Mail \cup {NoMail}) /\ Len(Mails') = entry'
    BY <2>1, <2>2 DEF Mails
  <2> QED  BY <1>2, <2>3, MailsType
<1>9. \A i \in 1..entry - 1 : Mails'[i] = Mails[i + 1]
  <2> SUFFICES ASSUME NEW i \in 1..entry - 1 PROVE Mails'[i] = Mails[i + 1]
    OBVIOUS
  <2>1. i - 1 \in 0..entry - 2 /\ i - 1 + 1 = i /\ i + 1 - 1 = i /\ i + 1 \in 1..entry /\ i \in 1..entry'
    BY <1>1, <1>2
  <2>2. Mails'[i] = Word(i - 1)' /\ Mails[i + 1] = Word(i)
    BY <2>1 DEF Mails
  <2> QED  BY <1>6, <2>1, <2>2
<1>10. Mails[1] = msg_pool[out_offset]
  BY <1>1, <1>7 DEF Mails
<1> HIDE DEF Mails
<1>11. Mails # <<>> /\ Head(Mails) = Mails[1]
  BY <1>1, <1>8
<1>12. Mails' = Tail(Mails)
  <2>1. Tail(Mails) \in Seq(Mail \cup {NoMail}) /\ Len(Tail(Mails)) = entry - 1
        /\ \A i \in 1..entry - 1 : Tail(Mails)[i] = Mails[i + 1]
    BY <1>1, <1>8, <1>11
  <2> QED  BY <1>1, <1>8, <1>9, <2>1
<1> QED  BY <1>2, <1>4, <1>5, <1>10, <1>11, <1>12

\* A section that stores or takes a mail ends the call of the thread that runs
\* it, or is a handler's.
MbReturns(op) ==
    call' = call \/ \E t \in Thread : w.stat[t] = "READY" /\ call[t].op \in {"idle", op} /\ Return(t)

\* The sections that the operations of rt_mb_* are made of.
MbSends == \E m \in Mail : entry < Size /\ SendSection(m) /\ MbReturns("mb_send")
MbReceives == entry > 0 /\ RecvSection /\ MbReturns("mb_recv")
MbBlocks(q) ==
    /\ entry = IF q = "mb_send" THEN Size ELSE 0
    /\ \E t \in Thread : \E m, to : /\ w.stat[t] = "READY" /\ call[t].op \in {"idle", q}
                                    /\ WaitSection(t, q, m, to)
MbGivesUp ==
    /\ UNCHANGED <<w, mbVars>>
    /\ \E t \in Thread : /\ Return(t)
                         /\ \/ w.error[t] # "EOK"
                            \/ entry = Size /\ call[t].op \in {"idle", "mb_send"}
                            \/ entry = 0 /\ call[t].op \in {"idle", "mb_recv"}

\* Every operation of rt_mb_* is one of them or a reset.
LEMMA MbSections ==
    ASSUME WaitInv(w, call), CallOK(call), MbNext
    PROVE  \/ MbSends \/ MbReceives \/ MbBlocks("mb_send") \/ MbBlocks("mb_recv")
           \/ MbGivesUp \/ rt_mb_control
<1> DEFINE Goal == \/ MbSends \/ MbReceives \/ MbBlocks("mb_send") \/ MbBlocks("mb_recv")
                   \/ MbGivesUp \/ rt_mb_control
<1>1. ASSUME NEW t \in Thread, w.stat[t] = "READY", call[t].op \in {"idle", "mb_send"},
             NEW m \in Mail, NEW to, MbTrySend(t, m, to)
      PROVE  Goal
  <2>1. CASE entry < Size /\ SendSection(m) /\ Return(t)
    BY <1>1, <2>1 DEF MbSends, MbReturns
  <2>2. CASE entry = Size /\ WaitSection(t, "mb_send", m, to)
    BY <1>1, <2>2 DEF MbBlocks
  <2>3. CASE entry = Size /\ Return(t) /\ UNCHANGED <<w, mbVars>>
    BY <1>1, <2>3 DEF MbGivesUp
  <2> QED  BY <1>1, <2>1, <2>2, <2>3 DEF MbTrySend
<1>2. ASSUME NEW t \in Thread, w.stat[t] = "READY", call[t].op \in {"idle", "mb_recv"},
             NEW to, MbTryRecv(t, to)
      PROVE  Goal
  <2>1. CASE entry > 0 /\ RecvSection /\ Return(t)
    BY <1>2, <2>1 DEF MbReceives, MbReturns
  <2>2. CASE entry = 0 /\ WaitSection(t, "mb_recv", NoMail, to)
    BY <1>2, <2>2 DEF MbBlocks
  <2>3. CASE entry = 0 /\ Return(t) /\ UNCHANGED <<w, mbVars>>
    BY <1>2, <2>3 DEF MbGivesUp
  <2> QED  BY <1>2, <2>1, <2>2, <2>3 DEF MbTryRecv
<1>3. ASSUME NEW t \in Thread, NEW to, rt_mb_recv(t, to) PROVE Goal
  BY <1>2, <1>3, Runs DEF rt_mb_recv
<1>4. ASSUME NEW t \in Thread, NEW m \in Mail, NEW to, rt_mb_send_wait(t, m, to) PROVE Goal
  BY <1>1, <1>4, Runs DEF rt_mb_send_wait
<1>5. ASSUME NEW t \in Thread, MbWokenSend(t) PROVE Goal
  <2>1. w.stat[t] = "READY" /\ call[t].op = "mb_send" /\ t \in Caller
    BY <1>5, Runs DEF MbWokenSend
  <2>2. call[t].mail \in Mail
    BY <2>1 DEF CallOK
  <2>3. CASE w.error[t] # "EOK" /\ Return(t) /\ UNCHANGED <<w, mbVars>>
    BY <2>3 DEF MbGivesUp
  <2>4. CASE \E to : MbTrySend(t, call[t].mail, to)
    BY <1>1, <2>1, <2>2, <2>4
  <2> QED  BY <1>5, <2>3, <2>4 DEF MbWokenSend
<1>6. ASSUME NEW t \in Thread, MbWokenRecv(t) PROVE Goal
  <2>1. w.stat[t] = "READY" /\ call[t].op = "mb_recv"
    BY <1>6, Runs DEF MbWokenRecv
  <2>2. CASE w.error[t] # "EOK" /\ Return(t) /\ UNCHANGED <<w, mbVars>>
    BY <2>2 DEF MbGivesUp
  <2>3. CASE \E to : MbTryRecv(t, to)
    BY <1>2, <2>1, <2>3
  <2> QED  BY <1>6, <2>2, <2>3 DEF MbWokenRecv
<1>7. ASSUME NEW m \in Mail, IsrSend(m) PROVE Goal
  BY <1>7 DEF IsrSend, MbSends, MbReturns
<1>8. ASSUME IsrRecv PROVE Goal
  BY <1>8 DEF IsrRecv, MbReceives, MbReturns
<1> QED  BY <1>3, <1>4, <1>5, <1>6, <1>7, <1>8 DEF MbNext

\* The operations of rt_mb_* keep the invariant.
LEMMA MbKept ==
    ASSUME WaitInv(w, call), CallOK(call), MbInv, MbNext
    PROVE  MbInv'
<1> DEFINE s == Cardinality(Resumed("mb_send"))
           r == Cardinality(Resumed("mb_recv"))
<1>q. /\ "mb_send" \in Queue /\ "mb_recv" \in Queue
      /\ OpOf("mb_send") = "mb_send" /\ OpOf("mb_recv") = "mb_recv"
  BY Queues, Names
<1>t. /\ MbTypeOK /\ RingConsistent /\ Size \in Nat \ {0} /\ entry \in 0..Size
      /\ s \in Nat /\ r \in Nat
      /\ w.list["mb_recv"] # <<>> => entry <= r
      /\ w.list["mb_send"] # <<>> => Size - entry <= s
  BY ResumedFinite, SizeAssumption DEF MbInv, MbTypeOK, MailWakes
<1>f. ASSUME NEW op
      PROVE  /\ \A t : t \notin Resumed(op) => Cardinality(Resumed(op) \ {t}) = Cardinality(Resumed(op))
             /\ \A t : t \notin Resumed(op) =>
                   Cardinality(Resumed(op) \cup {t}) = Cardinality(Resumed(op)) + 1
             /\ \A t : Cardinality(Resumed(op) \ {t}) \in Nat
  BY ResumedFinite
<1>g. ASSUME NEW op, NEW t
      PROVE  Cardinality(Resumed(op) \ {t}) >= Cardinality(Resumed(op)) - 1
  <2>1. Cardinality(Resumed(op)) \in Nat
    BY ResumedFinite
  <2>2. CASE t \in Resumed(op)
    BY <2>1, <2>2, ResumedFinite
  <2>3. CASE t \notin Resumed(op)
    BY <2>1, <1>f, <2>3
  <2> QED  BY <2>2, <2>3
<1>1. CASE MbSends
  <2>1. PICK m \in Mail : entry < Size /\ SendSection(m) /\ MbReturns("mb_send")
    BY <1>1 DEF MbSends
  <2>2. Put(m) /\ mb_got' = mb_got /\ w' = ResumeFirst(w, "mb_recv")
    BY <2>1 DEF SendSection
  <2>3. MbTypeOK' /\ RingConsistent' /\ entry' = entry + 1
    BY <1>t, <2>1, <2>2, PutAppends
  <2>4. PICK t : /\ t \notin Resumed("mb_recv")
                 /\ call' = call \/ (t \in Caller /\ Return(t) /\ (t \in Thread => w.stat[t] = "READY"))
    <3>1. CASE call' = call
      <4>1. \E t : t \notin Resumed("mb_recv")
        BY ThreadAssumption DEF Resumed
      <4> QED  BY <3>1, <4>1
    <3>2. CASE \E t \in Thread : w.stat[t] = "READY" /\ call[t].op \in {"idle", "mb_send"} /\ Return(t)
      BY <3>2 DEF Resumed, Caller
    <3> QED  BY <2>1, <3>1, <3>2 DEF MbReturns
  <2>5. /\ Resumed("mb_send")' = Resumed("mb_send") \/ Resumed("mb_send")' = Resumed("mb_send") \ {t}
        /\ w'.list["mb_send"] = w.list["mb_send"]
    BY <1>q, <2>2, <2>4, ResumeCounts
  <2>6. /\ w.list["mb_recv"] # <<>> =>
              \E u \in Thread : u \notin Resumed("mb_recv")
                                /\ Resumed("mb_recv")' = Resumed("mb_recv") \cup {u}
        /\ w.list["mb_recv"] = <<>> => w'.list["mb_recv"] = <<>>
    BY <1>q, <2>2, <2>4, ResumeCounts
  <2>7. w.list["mb_recv"] # <<>> => Cardinality(Resumed("mb_recv")') = r + 1
    BY <1>f, <2>6
  <2>8. Cardinality(Resumed("mb_send")') \in Nat /\ Cardinality(Resumed("mb_send")') >= s - 1
    <3>1. CASE Resumed("mb_send")' = Resumed("mb_send")
      BY <1>t, <3>1
    <3>2. CASE Resumed("mb_send")' = Resumed("mb_send") \ {t}
      BY <1>f, <1>g, <3>2
    <3> QED  BY <2>5, <3>1, <3>2
  <2> HIDE DEF r, s
  <2>9. MailWakes'
    BY <1>t, <2>3, <2>5, <2>6, <2>7, <2>8 DEF MailWakes
  <2> QED  BY <2>3, <2>9 DEF MbInv
<1>2. CASE MbReceives
  <2>1. entry > 0 /\ Get /\ w' = ResumeFirst(w, "mb_send") /\ MbReturns("mb_recv")
    BY <1>2 DEF MbReceives, RecvSection
  <2>3. MbTypeOK' /\ RingConsistent' /\ entry' = entry - 1
    BY <1>t, <2>1, GetTakes
  <2>4. PICK t : /\ t \notin Resumed("mb_send")
                 /\ call' = call \/ (t \in Caller /\ Return(t) /\ (t \in Thread => w.stat[t] = "READY"))
    <3>1. CASE call' = call
      <4>1. \E t : t \notin Resumed("mb_send")
        BY ThreadAssumption DEF Resumed
      <4> QED  BY <3>1, <4>1
    <3>2. CASE \E t \in Thread : w.stat[t] = "READY" /\ call[t].op \in {"idle", "mb_recv"} /\ Return(t)
      BY <3>2 DEF Resumed, Caller
    <3> QED  BY <2>1, <3>1, <3>2 DEF MbReturns
  <2>5. /\ Resumed("mb_recv")' = Resumed("mb_recv") \/ Resumed("mb_recv")' = Resumed("mb_recv") \ {t}
        /\ w'.list["mb_recv"] = w.list["mb_recv"]
    BY <1>q, <2>1, <2>4, ResumeCounts
  <2>6. /\ w.list["mb_send"] # <<>> =>
              \E u \in Thread : u \notin Resumed("mb_send")
                                /\ Resumed("mb_send")' = Resumed("mb_send") \cup {u}
        /\ w.list["mb_send"] = <<>> => w'.list["mb_send"] = <<>>
    BY <1>q, <2>1, <2>4, ResumeCounts
  <2>7. w.list["mb_send"] # <<>> => Cardinality(Resumed("mb_send")') = s + 1
    BY <1>f, <2>6
  <2>8. Cardinality(Resumed("mb_recv")') \in Nat /\ Cardinality(Resumed("mb_recv")') >= r - 1
    <3>1. CASE Resumed("mb_recv")' = Resumed("mb_recv")
      BY <1>t, <3>1
    <3>2. CASE Resumed("mb_recv")' = Resumed("mb_recv") \ {t}
      BY <1>f, <1>g, <3>2
    <3> QED  BY <2>5, <3>1, <3>2
  <2> HIDE DEF r, s
  <2>9. MailWakes'
    BY <1>t, <2>3, <2>5, <2>6, <2>7, <2>8 DEF MailWakes
  <2> QED  BY <2>3, <2>9 DEF MbInv
<1>3. ASSUME NEW q \in {"mb_send", "mb_recv"}, MbBlocks(q) PROVE MbInv'
  <2>0. PICK t \in Thread : \E m, to : /\ w.stat[t] = "READY" /\ call[t].op \in {"idle", q}
                                       /\ WaitSection(t, q, m, to)
    BY <1>3 DEF MbBlocks
  <2>1. PICK m, to : /\ w.stat[t] = "READY" /\ call[t].op \in {"idle", q}
                     /\ WaitSection(t, q, m, to)
    BY <2>0
  <2>2. entry = (IF q = "mb_send" THEN Size ELSE 0) /\ q \in Queue
    BY <1>3, <1>q DEF MbBlocks
  <2> DEFINE timed == to = "timed"
             e == [op |-> q, mail |-> m, timeout |-> to]
  <2>3. timed \in BOOLEAN /\ w' = SuspendOn(w, q, t, timed) /\ call' = [call EXCEPT ![t] = e]
        /\ UNCHANGED mbVars
    BY <2>1 DEF WaitSection
  <2> HIDE DEF timed, e
  <2>4. /\ \A op : Resumed(op)' = Resumed(op) \ {t}
        /\ \A p \in Queue : p # q => w'.list[p] = w.list[p]
    BY <2>2, <2>3, SuspendCounts
  <2>5. \A op \in {"mb_send", "mb_recv"} : op # q => t \notin Resumed(op)
    BY <2>1 DEF Resumed
  <2>6. q = "mb_send" => Cardinality(Resumed("mb_recv")') = r /\ Cardinality(Resumed("mb_send")') \in Nat
    BY <1>f, <2>4, <2>5
  <2>7. q = "mb_recv" => Cardinality(Resumed("mb_send")') = s /\ Cardinality(Resumed("mb_recv")') \in Nat
    BY <1>f, <2>4, <2>5
  <2> HIDE DEF r, s
  <2>8. MailWakes'
    BY <1>t, <1>q, <2>2, <2>3, <2>4, <2>6, <2>7 DEF MailWakes, mbVars
  <2>9. MbTypeOK' /\ RingConsistent'
    BY <1>t, <2>3 DEF MbTypeOK, RingConsistent, mbVars
  <2> QED  BY <2>8, <2>9 DEF MbInv
<1>4. CASE MbGivesUp
  <2>1. PICK t \in Thread : /\ Return(t)
                            /\ \/ w.error[t] # "EOK"
                               \/ entry = Size /\ call[t].op \in {"idle", "mb_send"}
                               \/ entry = 0 /\ call[t].op \in {"idle", "mb_recv"}
    BY <1>4 DEF MbGivesUp
  <2>2. w' = w /\ UNCHANGED mbVars /\ t \in Caller
    BY <1>4 DEF MbGivesUp, Caller
  <2>3. \A op \in {"mb_send", "mb_recv"} : Resumed(op)' = Resumed(op) \ {t}
    BY <2>1, <2>2, ReturnWoke, ResumedIsWoke
  <2>4. /\ w.error[t] # "EOK" => t \notin Resumed("mb_send") /\ t \notin Resumed("mb_recv")
        /\ call[t].op # "mb_recv" => t \notin Resumed("mb_recv")
        /\ call[t].op # "mb_send" => t \notin Resumed("mb_send")
    BY DEF Resumed
  <2>5. /\ Cardinality(Resumed("mb_send")') \in Nat /\ Cardinality(Resumed("mb_recv")') \in Nat
        /\ entry # Size => Cardinality(Resumed("mb_send")') = s
        /\ entry # 0 => Cardinality(Resumed("mb_recv")') = r
    BY <1>f, <2>1, <2>3, <2>4
  <2> HIDE DEF r, s
  <2>8. MailWakes'
    BY <1>t, <2>2, <2>5 DEF MailWakes, mbVars
  <2>9. MbTypeOK' /\ RingConsistent'
    BY <1>t, <2>2 DEF MbTypeOK, RingConsistent, mbVars
  <2> QED  BY <2>8, <2>9 DEF MbInv
<1>5. CASE rt_mb_control
  <2> DEFINE x == ResumeAll(w, "mb_recv")
  <2>1. w' = ResumeAll(x, "mb_send") /\ entry' = 0 /\ in_offset' = 0 /\ out_offset' = 0
        /\ UNCHANGED <<msg_pool, mb_got>>
    BY <1>5 DEF rt_mb_control
  <2>2. x \in Waits /\ x.list["mb_recv"] = <<>>
    BY <1>q, ResumeAllFields DEF WaitInv
  <2> HIDE DEF x
  <2>3. w'.list["mb_recv"] = <<>> /\ w'.list["mb_send"] = <<>>
    BY <1>q, <2>1, <2>2, ResumeAllFields
  <2>4. MailWakes'
    BY <2>3 DEF MailWakes
  <2>5. MbTypeOK' /\ RingConsistent'
    BY <1>t, <2>1 DEF MbTypeOK, RingConsistent, Offset
  <2> QED  BY <2>4, <2>5 DEF MbInv
<1> QED  BY <1>1, <1>2, <1>3, <1>4, <1>5, MbSections

\* Mailboxes: the steps of others.
LEMMA MbCalm ==
    ASSUME WaitInv(w, call), WaitInv(w', call'), MbInv, CalmMailbox, UNCHANGED mbVars
    PROVE  MbInv'
<1>1. ASSUME NEW q \in {"mb_send", "mb_recv"}, w.list[q] = <<>> PROVE w'.list[q] = <<>>
  <2>1. q \in Queue
    BY <1>1, Queues
  <2>2. w.list[q] \in Seq(Thread) /\ w'.list[q] \in Seq(Thread)
    BY <2>1, ListType DEF WaitInv
  <2>3. Len(w'.list[q]) <= Len(w.list[q])
    BY <1>1 DEF CalmMailbox, Calm
  <2> QED  BY <1>1, <2>2, <2>3
<1>2. Resumed("mb_send")' = Resumed("mb_send") /\ Resumed("mb_recv")' = Resumed("mb_recv")
  BY DEF CalmMailbox, Calm
<1> QED  BY <1>1, <1>2 DEF MbInv, MbTypeOK, RingConsistent, MailWakes, mbVars

-----------------------------------------------------------------------------
(* Memory pools.                                                             *)

\* The blocks: those in the free list, which is a list, and those in use.
BlocksOK ==
    /\ block_list \in Seq(Block) /\ IsInjective(block_list)
    /\ block_free_count = Len(block_list)
    /\ used \subseteq Block /\ wild \in BOOLEAN
    /\ ToSet(block_list) \cap used = {} /\ ToSet(block_list) \cup used = Block

\* suspend_thread_count never says fewer than wait; a timeout leaves it too high.
WaitersCounted ==
    /\ suspend_thread_count \in Nat
    /\ Len(MpWaiters) <= suspend_thread_count
    /\ drain.at = "take" /\ Head(drain.todo) = "mp" => suspend_thread_count > 0

MpInv == BlocksOK /\ WaitersCounted /\ BlockWakes

\* The invariant implies the type and that the blocks are conserved.
LEMMA BlocksOKConserved ==
    ASSUME MpInv
    PROVE  MpTypeOK /\ BlocksConserved
<1>1. IsFiniteSet(ToSet(block_list)) /\ Cardinality(ToSet(block_list)) = Len(block_list)
  BY LenIsCardinality DEF MpInv, BlocksOK
<1>2. ToSet(block_list) \subseteq Block
  BY DEF MpInv, BlocksOK
<1>3. Cardinality(ToSet(block_list)) <= Cardinality(Block) /\ Cardinality(Block) \in Nat
  BY <1>2, BlockAssumption, FS_Subset, FS_CardinalityType
<1>4. block_free_count \in 0..Cardinality(Block)
  BY <1>1, <1>3 DEF MpInv, BlocksOK
<1> QED  BY <1>1, <1>4 DEF MpInv, BlocksOK, WaitersCounted, MpTypeOK, BlocksConserved

\* The end of rt_mp_alloc.
LEMMA PopKeepsBlocks ==
    ASSUME BlocksOK, block_free_count > 0, Pop
    PROVE  BlocksOK' /\ block_free_count' = block_free_count - 1
<1> DEFINE b == Head(block_list)
           l == Tail(block_list)
<1>1. block_list # <<>> /\ Len(block_list) \in Nat /\ block_list \in Seq(Block)
  BY DEF BlocksOK
<1>2. /\ b \in ToSet(block_list) /\ b \in Block /\ l \in Seq(Block) /\ Len(l) = Len(block_list) - 1
      /\ ToSet(block_list) = ToSet(l) \cup {b} /\ IsInjective(l) /\ b \notin ToSet(l)
  BY <1>1, HeadTailSet DEF BlocksOK
<1>3. /\ block_list' = l /\ used' = used \cup {b} /\ block_free_count' = block_free_count - 1
      /\ wild' = wild
  BY DEF Pop
<1> HIDE DEF b, l
<1> QED  BY <1>2, <1>3 DEF BlocksOK

\* rt_mp_free puts the block back.
LEMMA FreeKeepsBlocks ==
    ASSUME BlocksOK, NEW b \in Block, rt_mp_free(b)
    PROVE  BlocksOK' /\ block_free_count' = block_free_count + 1
<1> DEFINE l == <<b>> \o block_list
<1>1. block_list \in Seq(Block) /\ b \in used /\ b \notin ToSet(block_list)
  BY DEF BlocksOK, rt_mp_free
<1>2. /\ l \in Seq(Block) /\ Len(l) = Len(block_list) + 1
      /\ ToSet(l) = ToSet(block_list) \cup {b} /\ IsInjective(l)
  BY <1>1, ConsSet DEF BlocksOK
<1>3. /\ block_list' = l /\ used' = used \ {b} /\ block_free_count' = block_free_count + 1
  BY DEF rt_mp_free
<1>4. wild' \in BOOLEAN
  <2>1. wild \in BOOLEAN
    BY DEF BlocksOK
  <2>2. wild' = wild \/ wild' = (wild \/ MpWaiters = <<>>)
    BY DEF rt_mp_free
  <2> QED  BY <2>1, <2>2
<1> HIDE DEF l
<1> QED  BY <1>1, <1>2, <1>3, <1>4 DEF BlocksOK

\* The wait of rt_mp_alloc: the caller is first in the list.
LEMMA MpWaitCounts ==
    ASSUME WaitInv(w, call), NEW t \in Thread, NEW time, MpWait(t, time)
    PROVE  Resumed("mp")' = Resumed("mp") \ {t} /\ Len(MpWaiters') = Len(MpWaiters) + 1
<1> DEFINE e == [op |-> "mp", timeout |-> time]
           timed == time = "timed"
           r == SuspendOn(w, "mp", t, timed)
           l == <<t>> \o w.list["mp"]
<1>0. "mp" \in Queue /\ w \in Waits /\ w.list["mp"] \in Seq(Thread)
  BY Queues, ListType DEF WaitInv
<1>1. w' = [r EXCEPT !.list["mp"] = l] /\ call' = [call EXCEPT ![t] = e] /\ timed \in BOOLEAN
  BY DEF MpWait, MpWaiters
<1>2. l \in Seq(Thread) /\ Len(l) = Len(w.list["mp"]) + 1
  BY <1>0, ConsSet
<1> HIDE DEF timed, e, l
<1>3. r \in Waits
  BY <1>0, <1>1, SuspendOnFields
<1>4. \A u \in Thread : /\ r.stat[u] = IF u = t THEN "SUSPEND" ELSE w.stat[u]
                        /\ r.error[u] = IF u = t THEN "EOK" ELSE w.error[u]
  BY <1>0, <1>1, SuspendOnFields
<1>5. \A u \in Thread : call'[u] = IF u = t THEN e ELSE call[u]
  BY <1>1 DEF WaitInv, Caller
<1> HIDE DEF r
<1>6. w'.stat = r.stat /\ w'.error = r.error /\ w'.list["mp"] = l
  BY <1>0, <1>1, <1>3 DEF Waits
<1>7. Resumed("mp")' = Resumed("mp") \ {t}
  BY <1>4, <1>5, <1>6 DEF Resumed
<1> QED  BY <1>2, <1>6, <1>7 DEF MpWaiters

\* The operations of rt_mp_* keep the invariant.
LEMMA MpKept ==
    ASSUME WaitInv(w, call), MpInv, MpNext, drain' = drain
    PROVE  MpInv'
<1> DEFINE n == Cardinality(Resumed("mp"))
<1>q. "mp" \in Queue /\ OpOf("mp") = "mp"
  BY Queues, Names
<1>t. /\ BlocksOK /\ block_free_count \in Nat /\ n \in Nat
      /\ suspend_thread_count \in Nat /\ Len(MpWaiters) \in Nat
      /\ Len(MpWaiters) <= suspend_thread_count
      /\ MpWaiters # <<>> => block_free_count <= n
      /\ MpWaiters \in Seq(Thread)
  BY <1>q, ResumedFinite, ListType DEF MpInv, BlocksOK, WaitersCounted, BlockWakes, MpWaiters, WaitInv
<1>f. /\ \A t : t \notin Resumed("mp") => Cardinality(Resumed("mp") \ {t}) = n
      /\ \A t \in Resumed("mp") : Cardinality(Resumed("mp") \ {t}) = n - 1
      /\ \A t : t \notin Resumed("mp") => Cardinality(Resumed("mp") \cup {t}) = n + 1
      /\ \A t : Cardinality(Resumed("mp") \ {t}) \in Nat
  BY ResumedFinite
<1> HIDE DEF n
<1>1. ASSUME block_free_count > 0, Pop,
             call' = call \/ \E t \in Thread : Return(t)
      PROVE  MpInv'
  <2>1. BlocksOK' /\ block_free_count' = block_free_count - 1
    BY <1>1, <1>t, PopKeepsBlocks
  <2>2. w' = w /\ suspend_thread_count' = suspend_thread_count
    BY <1>1 DEF Pop
  <2>3. Cardinality(Resumed("mp")') \in Nat /\ Cardinality(Resumed("mp")') >= n - 1
    <3>1. CASE call' = call
      <4>1. Resumed("mp")' = Resumed("mp")
        BY <2>2, <3>1 DEF Resumed
      <4> QED  BY <1>t, <4>1 DEF n
    <3>2. ASSUME NEW t \in Thread, Return(t)
          PROVE  Cardinality(Resumed("mp")') \in Nat /\ Cardinality(Resumed("mp")') >= n - 1
      <4>1. Resumed("mp")' = Resumed("mp") \ {t}
        BY <2>2, <3>2, ReturnWoke, ResumedIsWoke DEF Caller
      <4>2. CASE t \in Resumed("mp")
        <5> DEFINE c == Cardinality(Resumed("mp") \ {t})
        <5>1. c = n - 1 /\ c \in Nat /\ Cardinality(Resumed("mp")') = c
          BY <1>f, <4>1, <4>2
        <5> HIDE DEF c
        <5> QED  BY <1>t, <5>1
      <4>3. CASE t \notin Resumed("mp")
        BY <1>t, <1>f, <4>1, <4>3
      <4> QED  BY <4>2, <4>3
    <3> QED  BY <1>1, <3>1, <3>2
  <2>4. BlockWakes'
    BY <1>t, <2>1, <2>2, <2>3 DEF BlockWakes, MpWaiters
  <2>5. WaitersCounted'
    BY <2>2 DEF MpInv, WaitersCounted, MpWaiters
  <2> QED  BY <2>1, <2>4, <2>5 DEF MpInv
<1>2. ASSUME NEW t \in Thread, NEW time, block_free_count = 0, MpWait(t, time)
      PROVE  MpInv'
  <2>1. Resumed("mp")' = Resumed("mp") \ {t} /\ Len(MpWaiters') = Len(MpWaiters) + 1
    BY <1>2, MpWaitCounts
  <2>2. /\ suspend_thread_count' = suspend_thread_count + 1
        /\ UNCHANGED <<block_list, block_free_count, used, wild>>
    BY <1>2 DEF MpWait
  <2>3. BlockWakes'
    <3>1. Cardinality(Resumed("mp")') \in Nat
      BY <1>f, <2>1
    <3> QED  BY <1>2, <2>2, <3>1 DEF BlockWakes
  <2>4. WaitersCounted'
    BY <1>t, <2>1, <2>2 DEF MpInv, WaitersCounted
  <2>5. BlocksOK'
    BY <1>t, <2>2 DEF BlocksOK
  <2> QED  BY <2>3, <2>4, <2>5 DEF MpInv
<1>3. ASSUME NEW t \in Thread, Return(t), UNCHANGED <<w, mpVars>>,
             block_free_count = 0 \/ t \notin Resumed("mp")
      PROVE  MpInv'
  <2>1. Resumed("mp")' = Resumed("mp") \ {t}
    BY <1>3, ReturnWoke, ResumedIsWoke DEF Caller
  <2>2. BlockWakes'
    <3>1. Cardinality(Resumed("mp")') \in Nat /\ (block_free_count # 0 => Cardinality(Resumed("mp")') = n)
      BY <1>3, <1>f, <2>1
    <3> QED  BY <1>3, <1>t, <3>1 DEF BlockWakes, MpWaiters, mpVars
  <2>3. BlocksOK' /\ WaitersCounted'
    BY <1>3, <1>t DEF MpInv, BlocksOK, WaitersCounted, MpWaiters, mpVars
  <2> QED  BY <2>2, <2>3 DEF MpInv
<1>4. ASSUME NEW t \in Thread, NEW time, TryAlloc(t, time) PROVE MpInv'
  BY <1>1, <1>2, <1>3, <1>4 DEF TryAlloc
<1>5. ASSUME NEW t \in Thread, WokenAlloc(t) PROVE MpInv'
  <2>1. w.error[t] # "EOK" => t \notin Resumed("mp")
    BY DEF Resumed
  <2> QED  BY <1>3, <1>4, <1>5, <2>1 DEF WokenAlloc
<1>6. ASSUME NEW b \in Block, rt_mp_free(b) PROVE MpInv'
  <2>1. BlocksOK' /\ block_free_count' = block_free_count + 1
    BY <1>6, <1>t, FreeKeepsBlocks
  <2>2. call' = call /\ Attached
    BY <1>6 DEF rt_mp_free
  <2>3. CASE suspend_thread_count > 0 /\ w' = ResumeFirst(w, "mp")
             /\ suspend_thread_count' = suspend_thread_count - 1
    <3>1. CASE MpWaiters = <<>>
      <4>1. w' = w
        BY <2>3, <3>1 DEF ResumeFirst, MpWaiters
      <4>2. BlockWakes'
        BY <3>1, <4>1 DEF BlockWakes, MpWaiters
      <4>3. WaitersCounted'
        BY <1>t, <2>2, <2>3, <3>1, <4>1 DEF WaitersCounted, MpWaiters, Attached
      <4> QED  BY <2>1, <4>2, <4>3 DEF MpInv
    <3>2. CASE MpWaiters # <<>>
      <4>1. Len(ResumeFirst(w, "mp").list["mp"]) = Len(w.list["mp"]) - 1
        BY <1>q, <3>2, ResumeFirstFields DEF MpWaiters
      <4>2. PICK x : x \notin Resumed("mp")
        BY ThreadAssumption DEF Resumed
      <4>3. \E u \in Thread : u \notin Resumed("mp") /\ Resumed("mp")' = Resumed("mp") \cup {u}
        BY <1>q, <2>2, <2>3, <3>2, <4>2, ResumeCounts DEF MpWaiters
      <4>4. Cardinality(Resumed("mp")') = n + 1
        BY <1>f, <4>3
      <4>5. BlockWakes'
        BY <1>t, <2>1, <3>2, <4>4 DEF BlockWakes
      <4>6. WaitersCounted'
        BY <1>t, <2>2, <2>3, <3>2, <4>1 DEF WaitersCounted, MpWaiters, Attached
      <4> QED  BY <2>1, <4>5, <4>6 DEF MpInv
    <3> QED  BY <3>1, <3>2
  <2>4. CASE suspend_thread_count = 0 /\ UNCHANGED <<w, suspend_thread_count>>
    <3>1. MpWaiters = <<>>
      BY <1>t, <2>4
    <3>2. BlockWakes'
      BY <2>4, <3>1 DEF BlockWakes, MpWaiters
    <3>3. WaitersCounted'
      BY <2>4 DEF MpInv, WaitersCounted, MpWaiters
    <3> QED  BY <2>1, <3>2, <3>3 DEF MpInv
  <2> QED  BY <1>6, <2>3, <2>4 DEF rt_mp_free
<1>7. ASSUME IsrAlloc PROVE MpInv'
  BY <1>1, <1>7 DEF IsrAlloc
<1> QED  BY <1>4, <1>5, <1>6, <1>7 DEF MpNext, rt_mp_alloc

\* What a step of the system does to a detach.
LEMMA DrainChange ==
    ASSUME BaseInv, [Next]_vars
    PROVE  \/ drain' = drain
           \/ drain'.at # "take"
           \/ /\ w.list[Head(drain'.todo)] # <<>> /\ w' = w
              /\ UNCHANGED mpVars
<1>0. drain \in [by   : {"nobody", "detach", "reset"},
                 at   : {"no", "test", "take", "gone", "wild"},
                 todo : Seq(Queue)]
  BY DEF BaseInv, DrainOK
<1>1. CASE DrainTest /\ UNCHANGED mpVars
  <2>1. CASE w.list[Head(drain.todo)] # <<>>
    <3>1. drain' = [drain EXCEPT !.at = "take"] /\ w' = w
      BY <1>1, <2>1 DEF DrainTest
    <3>2. drain'.todo = drain.todo
      BY <1>0, <3>1
    <3> QED  BY <1>1, <2>1, <3>1, <3>2
  <2>2. CASE w.list[Head(drain.todo)] = <<>>
    <3>1. drain.at = "test" /\ drain' \in {[drain EXCEPT !.todo = Tail(@)], NoDrain, [drain EXCEPT !.at = "gone"]}
      BY <1>1, <2>2 DEF DrainTest
    <3>2. drain'.at \in {"test", "no", "gone"}
      BY <1>0, <3>1 DEF NoDrain
    <3> QED  BY <3>2
  <2> QED  BY <2>1, <2>2
<1>2. CASE DrainTake
  <2>1. drain' = [drain EXCEPT !.at = "test"] \/ drain' = [drain EXCEPT !.at = "wild"]
    BY <1>2 DEF DrainTake
  <2> QED  BY <1>0, <2>1
<1>3. ASSUME NEW qs, Begin("detach", qs) PROVE drain'.at # "take"
  BY <1>3 DEF Begin
<1>4. CASE Detach
  BY <1>3, <1>4 DEF Detach, rt_sem_detach, rt_mutex_detach, rt_event_detach, rt_mb_detach,
                    rt_mq_detach, rt_mp_detach
<1>5. CASE DetachStep
  BY <1>1, <1>2, <1>4, <1>5 DEF DetachStep, MpDrainTake
<1>6. CASE drain' = drain
  BY <1>6
<1>7. CASE \E t \in Thread : TimeoutOf(t)
  BY <1>6, <1>7 DEF TimeoutOf
<1> QED  BY <1>5, <1>6, <1>7 DEF Next, vars, SemStep, MutexStep, EventStep, MailboxStep,
                                MessageQueueStep, MemPoolStep

\* Memory pools: the steps of others, and of a detach.
LEMMA MpCalm ==
    ASSUME BaseInv, BaseInv', MpInv, [Next]_vars, CalmPool
    PROVE  MpInv'
<1>q. "mp" \in Queue /\ WaitInv(w, call) /\ WaitInv(w', call')
  BY Queues DEF BaseInv
<1>t. /\ MpWaiters \in Seq(Thread) /\ MpWaiters' \in Seq(Thread)
      /\ suspend_thread_count \in Nat /\ Len(MpWaiters) <= suspend_thread_count
      /\ Len(MpWaiters') <= Len(MpWaiters)
  BY <1>q, ListType DEF WaitInv, MpInv, WaitersCounted, MpWaiters, CalmPool, Calm
<1>1. BlocksOK'
  BY DEF MpInv, BlocksOK, CalmPool
<1>2. BlockWakes'
  <2>1. MpWaiters = <<>> => MpWaiters' = <<>>
    BY <1>t
  <2> QED  BY <2>1 DEF MpInv, BlockWakes, CalmPool, Calm
<1>3. WaitersCounted'
  <2>1. CASE MpDrainTake
    <3>1. /\ drain.at = "take" /\ Head(drain.todo) = "mp" /\ DrainTake
          /\ suspend_thread_count' = suspend_thread_count - 1
      BY <2>1 DEF MpDrainTake
    <3>2. drain'.at # "take"
      BY <3>1 DEF DrainTake, BaseInv, DrainOK
    <3>3. suspend_thread_count > 0
      BY <3>1 DEF MpInv, WaitersCounted
    <3>4. CASE MpWaiters = <<>>
      <4>1. Len(MpWaiters') = 0
        BY <1>t, <3>4
      <4> QED  BY <1>t, <3>1, <3>2, <3>3, <4>1 DEF WaitersCounted
    <3>5. CASE MpWaiters # <<>>
      <4> DEFINE t == Head(w.list["mp"])
      <4>1. w' = Evict(w, t, "ERROR")
        BY <3>1, <3>5 DEF DrainTake, Evict, MpWaiters
      <4>2. t \in Thread /\ t \in ToSet(w.list["mp"]) /\ w.stat[t] = "SUSPEND"
        BY <1>q, <3>5, FirstWaits DEF MpWaiters
      <4> HIDE DEF t
      <4>3. w'.list["mp"] = RemoveFirst(w.list["mp"], t)
        BY <1>q, <4>1, <4>2, Evicted
      <4>4. Len(RemoveFirst(w.list["mp"], t)) = Len(w.list["mp"]) - 1
        BY <1>t, <4>2, RemoveFirstProperties DEF MpWaiters
      <4> QED  BY <1>t, <3>1, <3>2, <3>3, <4>3, <4>4 DEF WaitersCounted, MpWaiters
    <3> QED  BY <3>4, <3>5
  <2>2. CASE suspend_thread_count' = suspend_thread_count
    <3>1. ASSUME drain'.at = "take", Head(drain'.todo) = "mp" PROVE suspend_thread_count > 0
      <4>1. \/ drain' = drain
            \/ w.list[Head(drain'.todo)] # <<>>
        BY <3>1, DrainChange
      <4>2. CASE w.list["mp"] # <<>>
        BY <1>t, <4>2 DEF MpWaiters
      <4> QED  BY <3>1, <4>1, <4>2 DEF MpInv, WaitersCounted
    <3> QED  BY <1>t, <2>2, <3>1 DEF WaitersCounted
  <2> QED  BY <2>1, <2>2 DEF CalmPool
<1> QED  BY <1>1, <1>2, <1>3 DEF MpInv

-----------------------------------------------------------------------------
(* Message queues: the wake-ups.                                             *)

\* The receivers that were resumed without an error and go round their loop.
Receivers == {t \in Resumed("mq") : call[t].at = "wait"}

MqWakesInv == msg_count \in Nat /\ MessageWakes

\* Their number.
LEMMA ReceiversFinite ==
    /\ IsFiniteSet(Receivers) /\ Cardinality(Receivers) \in Nat
    /\ \A t : IsFiniteSet(Receivers \ {t}) /\ Cardinality(Receivers \ {t}) \in Nat
    /\ \A t : Cardinality(Receivers \ {t}) >= Cardinality(Receivers) - 1
    /\ \A t : t \notin Receivers => Cardinality(Receivers \cup {t}) = Cardinality(Receivers) + 1
<1>1. IsFiniteSet(Receivers) /\ Cardinality(Receivers) \in Nat
  <2>1. Receivers \subseteq Resumed("mq")
    BY DEF Receivers
  <2> QED  BY <2>1, ResumedFinite, FS_Subset, FS_CardinalityType
<1>2. \A t : IsFiniteSet(Receivers \ {t}) /\ Cardinality(Receivers \ {t}) \in Nat
  BY <1>1, FS_RemoveElement, FS_CardinalityType
<1>3. ASSUME NEW t PROVE Cardinality(Receivers \ {t}) >= Cardinality(Receivers) - 1
  <2> DEFINE c == Cardinality(Receivers \ {t})
             n == Cardinality(Receivers)
  <2>1. n \in Nat /\ (c = n - 1 \/ c = n)
    BY <1>1, FS_RemoveElement
  <2> HIDE DEF c, n
  <2>2. c >= n - 1
    BY <2>1
  <2> QED  BY <2>2 DEF c, n
<1>4. \A t : t \notin Receivers => Cardinality(Receivers \cup {t}) = Cardinality(Receivers) + 1
  BY <1>1, FS_AddElement
<1> QED  BY <1>1, <1>2, <1>3, <1>4

\* The caller goes on to a place that is no wait, or returns.
LEMMA ReceiversStay ==
    ASSUME WaitInv(w, call), NEW c \in Caller, NEW e, e.op # "mq" \/ e.at # "wait",
           w' = w, call' = [call EXCEPT ![c] = e]
    PROVE  Receivers' = Receivers \ {c}
<1>1. \A u \in Thread : call'[u] = IF u = c THEN e ELSE call[u]
  BY DEF WaitInv, Caller
<1> QED  BY <1>1 DEF Receivers, Resumed

\* The loop of rt_mq_recv keeps the invariant.
LEMMA MqTryWakes ==
    ASSUME WaitInv(w, call), MqWakesInv, NEW c \in Caller, NEW to,
           c \in Thread => w.stat[c] = "READY", c \in Isr => to = "none", MqTryRecv(c, to)
    PROVE  MqWakesInv'
<1>q. "mq" \in Queue
  BY Queues
<1>r. Cardinality(Receivers) \in Nat /\ (w.list["mq"] # <<>> => msg_count <= Cardinality(Receivers))
      /\ msg_count \in Nat
  BY ReceiversFinite DEF MqWakesInv, MessageWakes, Receivers
<1>1. CASE msg_count > 0 /\ Take(c)
  <2> DEFINE e == InCall("copy", msg_queue_head, text[msg_queue_head], "none")
  <2>1. w' = w /\ call' = [call EXCEPT ![c] = e] /\ msg_count' = msg_count - 1 /\ e.at # "wait"
    BY <1>1 DEF Take, InCall
  <2> HIDE DEF e
  <2>2. Receivers' = Receivers \ {c}
    BY <2>1, ReceiversStay
  <2>3. Cardinality(Receivers') \in Nat /\ Cardinality(Receivers') >= Cardinality(Receivers) - 1
    BY <2>2, ReceiversFinite
  <2> QED  BY <1>1, <1>r, <2>1, <2>3 DEF MqWakesInv, MessageWakes, Receivers
<1>2. CASE msg_count = 0 /\ UNCHANGED mqVars
  <2>1. Cardinality(Receivers)' \in Nat
    <3>1. Receivers' \subseteq Thread
      BY DEF Receivers, Resumed
    <3> QED  BY <3>1, ThreadAssumption, FS_Subset, FS_CardinalityType
  <2>2. msg_count' = 0
    BY <1>2 DEF mqVars, links
  <2> QED  BY <2>1, <2>2 DEF MqWakesInv, MessageWakes, Receivers
<1> QED  BY <1>1, <1>2 DEF MqTryRecv

\* The operations of rt_mq_* keep the invariant.
LEMMA MqWakesKept ==
    ASSUME WaitInv(w, call), CallOK(call), MqWakesInv, MqNext
    PROVE  MqWakesInv'
<1>q. "mq" \in Queue /\ "mq" \notin Mutexes /\ OpOf("mq") = "mq"
  BY Queues, Names
<1>r. Cardinality(Receivers) \in Nat /\ (w.list["mq"] # <<>> => msg_count <= Cardinality(Receivers))
      /\ msg_count \in Nat
  BY ReceiversFinite DEF MqWakesInv, MessageWakes, Receivers
<1>a. ASSUME NEW c \in Caller, NEW e, e.op # "mq" \/ e.at # "wait", c \notin Receivers,
             w' = w, call' = [call EXCEPT ![c] = e], msg_count' = msg_count
      PROVE  MqWakesInv'
  <2>1. Receivers' = Receivers
    BY <1>a, ReceiversStay
  <2> QED  BY <1>a, <1>r, <2>1 DEF MqWakesInv, MessageWakes, Receivers
<1>m. ASSUME NEW c \in Caller, MqFree(c) \/ \E at : at # "wait" /\ MqAt(c, at)
      PROVE  c \notin Receivers
  <2>1. Idle.op # "mq"
    BY IdleIsNoCall
  <2> QED  BY <1>m, <2>1 DEF MqFree, Free, MqAt, Receivers, Resumed
<1>3. ASSUME NEW c \in Caller, NEW m, rt_mq_send(c, m) \/ rt_mq_urgent(c, m)
      PROVE  MqWakesInv'
  <2>1. PICK place \in {"fill", "fill_urgent"} : Alloc(c, m, place)
    BY <1>3 DEF rt_mq_send, rt_mq_urgent
  <2> DEFINE e == InCall(place, msg_queue_free, m, "none")
  <2>2. w' = w /\ call' = [call EXCEPT ![c] = e] /\ msg_count' = msg_count /\ MqFree(c)
        /\ e.at # "wait"
    BY <2>1 DEF Alloc, InCall
  <2> HIDE DEF e
  <2> QED  BY <1>a, <1>m, <2>2
<1>4. ASSUME NEW c \in Caller, NEW to, rt_mq_recv(c, to)
      PROVE  MqWakesInv'
  BY <1>4, Runs, MqTryWakes DEF rt_mq_recv, MqFree
<1>5. ASSUME NEW c \in Caller, Fill(c) \/ Copy(c)
      PROVE  MqWakesInv'
  <2>1. PICK place \in {"link", "link_urgent", "free"} : Goto(c, place)
    BY <1>5 DEF Fill, Copy
  <2>2. w' = w /\ msg_count' = msg_count /\ call[c].op = "mq" /\ \E at : at # "wait" /\ MqAt(c, at)
    BY <1>5 DEF Fill, Copy, MqAt, mqVars, links
  <2> DEFINE e == [call[c] EXCEPT !.at = place]
  <2>3. DOMAIN call[c] = {"op", "at", "slot", "mail", "timeout"}
    BY <2>2 DEF CallOK
  <2>4. e.at # "wait"
    BY <2>3
  <2>5. call' = [call EXCEPT ![c] = e]
    BY <2>1 DEF Goto
  <2> HIDE DEF e
  <2> QED  BY <1>a, <1>m, <2>2, <2>4, <2>5
<1>6. ASSUME NEW c \in Caller, Link(c) \/ LinkUrgent(c)
      PROVE  MqWakesInv'
  <2> DEFINE r == ResumeFirst(w, "mq")
             h == Head(w.list["mq"])
  <2>1. /\ w' = r /\ call' = [call EXCEPT ![c] = Idle] /\ msg_count' = msg_count + 1
        /\ \E at : at # "wait" /\ MqAt(c, at)
    BY <1>6 DEF Link, LinkUrgent, Return
  <2>2. \A u \in Thread : call'[u] = IF u = c THEN Idle ELSE call[u]
    BY <2>1 DEF WaitInv, Caller
  <2>3. CASE w.list["mq"] = <<>>
    <3>1. r.list["mq"] = <<>>
      BY <1>q, <2>3, ResumeFirstFields
    <3> QED  BY <1>r, <2>1, <3>1 DEF MqWakesInv, MessageWakes
  <2>4. CASE w.list["mq"] # <<>>
    <3>1. h \in Thread /\ WaitsIn(call[h], "mq") /\ w.stat[h] = "SUSPEND"
      BY <1>q, <2>4, FirstWaits
    <3>2. w.error[h] = "EOK" /\ call[h].op = "mq" /\ call[h].at = "wait"
      BY <1>q, <3>1 DEF WaitInv, Linked, WaitsIn
    <3>3. r.error = w.error
      BY <1>q, ResumeFirstFields
    <3>4. \A u \in Thread : r.stat[u] = IF u = h THEN "READY" ELSE w.stat[u]
      BY <1>q, <2>4, ResumeFirstFields
    <3>5. c # h /\ Idle.op # "mq" /\ c \notin Receivers
      BY <1>m, <2>1, <3>2, IdleIsNoCall DEF MqAt
    <3> HIDE DEF r, h
    <3>6. Receivers' = Receivers \cup {h} /\ h \notin Receivers
      BY <2>1, <2>2, <3>1, <3>2, <3>3, <3>4, <3>5 DEF Receivers, Resumed
    <3>7. Cardinality(Receivers') = Cardinality(Receivers) + 1
      BY <3>6, ReceiversFinite
    <3> QED  BY <1>r, <2>1, <2>4, <3>7 DEF MqWakesInv, MessageWakes, Receivers
  <2> QED  BY <2>3, <2>4
<1>7. ASSUME NEW c \in Caller, MqWokenRecv(c)
      PROVE  MqWakesInv'
  <2>1. MqAt(c, "wait")
    BY <1>7 DEF MqWokenRecv
  <2>2. c \in Thread /\ w.stat[c] = "READY"
    BY <1>q, <2>1 DEF MqAt, WaitInv, WaitsIn, Caller, Running
  <2>3. c \notin Isr
    BY <2>2, Runs
  <2>4. CASE w.error[c] # "EOK" /\ Return(c) /\ UNCHANGED <<w, mqVars>>
    <3>1. c \notin Receivers /\ Idle.op # "mq"
      BY <2>4, IdleIsNoCall DEF Receivers, Resumed
    <3> QED  BY <1>a, <2>4, <3>1 DEF Return, mqVars, links
  <2>5. CASE \E to : MqTryRecv(c, to)
    BY <2>2, <2>3, <2>5, MqTryWakes
  <2> QED  BY <1>7, <2>4, <2>5 DEF MqWokenRecv
<1>8. ASSUME NEW c \in Caller, FreeSlot(c)
      PROVE  MqWakesInv'
  <2>1. w' = w /\ call' = [call EXCEPT ![c] = Idle] /\ msg_count' = msg_count /\ MqAt(c, "free")
        /\ Idle.op # "mq"
    BY <1>8, IdleIsNoCall DEF FreeSlot, Return
  <2> QED  BY <1>a, <1>m, <2>1
<1>9. ASSUME rt_mq_control
      PROVE  MqWakesInv'
  <2>1. w' = ResumeAll(w, "mq") /\ msg_count' = 0
    BY <1>9 DEF rt_mq_control
  <2>2. w'.list["mq"] = <<>>
    BY <1>q, <2>1, ResumeAllFields DEF WaitInv
  <2> QED  BY <2>1, <2>2 DEF MqWakesInv, MessageWakes
<1> QED  BY <1>3, <1>4, <1>5, <1>6, <1>7, <1>8, <1>9 DEF MqNext

\* Message queues: the steps of others.
LEMMA MqWakesCalm ==
    ASSUME WaitInv(w, call), WaitInv(w', call'), MqWakesInv, Calm("mq", "mq"), UNCHANGED mqVars
    PROVE  MqWakesInv'
<1>1. w.list["mq"] \in Seq(Thread) /\ w'.list["mq"] \in Seq(Thread)
  BY Queues, ListType DEF WaitInv
<1>2. w.list["mq"] = <<>> => w'.list["mq"] = <<>>
  BY <1>1 DEF Calm
<1>3. Receivers' = Receivers
  BY DEF Calm, Receivers
<1> QED  BY <1>2, <1>3 DEF MqWakesInv, MessageWakes, Receivers, mqVars, links

-----------------------------------------------------------------------------
(* The system.                                                               *)

ObjectInv == CoreInv /\ SemInv /\ MbInv /\ MqWakesInv /\ MpInv

\* The initial states.
LEMMA InitObjects ==
    ASSUME Init
    PROVE  ObjectInv
<1>0. BaseInv /\ MutexInv /\ EventInv
  BY InitWaits
<1>1. \A q \in Queue : w.list[q] = <<>>
  BY DEF Init, WaitsInit
<1>2. \A op \in {"sem", "mb_send", "mb_recv", "mq", "mp"} : Resumed(op) = {}
  BY DEF Init, WaitsInit, Resumed, Idle, Caller
<1>3. \A op \in {"sem", "mb_send", "mb_recv", "mq", "mp"} : Cardinality(Resumed(op)) = 0
  BY <1>2, FS_EmptySet
<1>q. {"sem", "mb_send", "mb_recv", "mq", "mp"} \subseteq Queue
  BY Queues
<1>4. SemInv
  <2>1. value \in 0..ValueMod - 1 /\ permits = value
    BY ValueModAssumption DEF Init, SemInit
  <2>2. permits - value - Cardinality(Resumed("sem")) = 0 /\ 0 % ValueMod = 0 /\ permits \in Int
    BY <1>3, <2>1, ValueModAssumption
  <2> QED  BY <1>1, <1>q, <2>1, <2>2 DEF SemInv, SemTypeOK, PermitsConserved, NoIdlePermit, SemWaiters
<1>5. MbInv
  BY <1>1, <1>q, SizeAssumption DEF Init, MbInit, MbInv, MbTypeOK, RingConsistent, MailWakes, Offset
<1>6. MqWakesInv
  <2>1. msg_count = 0
    BY DEF Init, MqInit
  <2> QED  BY <1>1, <1>q, <2>1 DEF MqWakesInv, MessageWakes
<1>7. MpInv
  <2>1. /\ block_list = SetToSeq(Block) /\ block_free_count = Cardinality(Block)
        /\ suspend_thread_count = 0 /\ used = {} /\ wild = FALSE /\ drain.at = "no"
    BY DEF Init, MpInit, WaitsInit, NoDrain
  <2>2. /\ SetToSeq(Block) \in Seq(Block) /\ Len(SetToSeq(Block)) = Cardinality(Block)
        /\ IsInjective(SetToSeq(Block)) /\ ToSet(SetToSeq(Block)) = Block
    BY BlockAssumption, SetToSeqProperties
  <2>3. MpWaiters = <<>>
    BY <1>1, <1>q DEF MpWaiters
  <2>4. BlocksOK
    BY <2>1, <2>2 DEF BlocksOK
  <2> QED  BY <2>1, <2>3, <2>4 DEF MpInv, WaitersCounted, BlockWakes
<1> QED  BY <1>0, <1>4, <1>5, <1>6, <1>7 DEF ObjectInv, CoreInv

\* A step keeps the invariants of all objects: of its own by the lemmas on its
\* operations, of the others because it is calm for them.
LEMMA NextObjects ==
    ASSUME ObjectInv, CoreInv', [Next]_vars
    PROVE  ObjectInv'
<1>1. BaseInv /\ BaseInv' /\ MtxTypeOK /\ EventInv /\ WaitInv(w, call) /\ WaitInv(w', call') /\ CallOK(call)
  BY DEF ObjectInv, CoreInv, MutexInv, BaseInv
<1>2. /\ SemStep \/ (Calm("sem", "sem") /\ UNCHANGED semVars)
      /\ MailboxStep \/ (CalmMailbox /\ UNCHANGED mbVars)
      /\ MessageQueueStep \/ (Calm("mq", "mq") /\ UNCHANGED mqVars)
      /\ (MemPoolStep /\ drain' = drain) \/ CalmPool
  BY <1>1, CalmSteps
<1>3. SemInv'
  BY <1>1, <1>2, SemCalm, SemKept DEF ObjectInv, SemStep
<1>4. MbInv'
  BY <1>1, <1>2, MbCalm, MbKept DEF ObjectInv, MailboxStep
<1>5. MqWakesInv'
  BY <1>1, <1>2, MqWakesCalm, MqWakesKept DEF ObjectInv, MessageQueueStep
<1>6. MpInv'
  BY <1>1, <1>2, MpCalm, MpKept DEF ObjectInv, MemPoolStep
<1> QED  BY <1>3, <1>4, <1>5, <1>6 DEF ObjectInv

\* The inductive invariants of all IPC objects, in every reachable state.
THEOREM ObjectInvariance == Spec => []ObjectInv
<1>1. Init => ObjectInv
  BY InitObjects
<1>2. ObjectInv /\ CoreInv' /\ [Next]_vars => ObjectInv'
  BY NextObjects
<1> QED  BY <1>1, <1>2, CoreInvariance, PTL DEF Spec

\* No permit of a semaphore is lost or made up, to the width of value, for any
\* number of threads, timeouts, resets and detaches included (rt_sem_take,
\* rt_sem_release, rt_sem_control).
THEOREM PermitsConservedInvariance == Spec => []PermitsConserved
<1>1. ObjectInv => PermitsConserved
  BY DEF ObjectInv, SemInv
<1> QED  BY <1>1, ObjectInvariance, PTL

\* Every block of a pool is free or held, and once, and block_free_count is right,
\* for any blocks and threads (rt_mp_alloc, rt_mp_free).
THEOREM BlocksConservedInvariance == Spec => []BlocksConserved
<1>1. ObjectInv => BlocksConserved
  BY BlocksOKConserved DEF ObjectInv
<1> QED  BY <1>1, ObjectInvariance, PTL

\* No wake-up is lost: while a thread waits, every permit, mail, free word, message
\* and free block has a thread that was resumed for it and has not run yet, for
\* any number of threads and any sizes, timeouts, resets and detaches included.
THEOREM NoLostWakeupInvariance == Spec => []NoLostWakeup
<1>1. ObjectInv => NoLostWakeup
  BY DEF ObjectInv, SemInv, MbInv, MqWakesInv, MpInv, NoLostWakeup
<1> QED  BY <1>1, ObjectInvariance, PTL

\* The ring of a mailbox of any size is a first-in first-out queue: its words from
\* out_offset on are the mails accepted and not received (rt_mb_send_wait,
\* rt_mb_recv, rt_mb_control).
THEOREM MailboxRefinesQueue == Spec => MailboxIsQueue
<1>1. Init => MbQ!Init
  BY DEF Init, MbInit, MbQ!Init
<1>2. ObjectInv /\ [Next]_vars => [MbQ!Next]_<<[i \in 1..entry |-> Word(i - 1)], mb_got>>
  <2> SUFFICES ASSUME ObjectInv, [Next]_vars
               PROVE  MbQ!Next \/ (Mails' = Mails /\ mb_got' = mb_got)
    BY DEF Mails
  <2>1. BaseInv /\ MtxTypeOK /\ EventInv /\ WaitInv(w, call) /\ CallOK(call)
        /\ MbTypeOK /\ RingConsistent /\ Len(Mails) = entry
    BY MailsType DEF ObjectInv, CoreInv, MutexInv, BaseInv, MbInv
  <2>2. ASSUME UNCHANGED mbVars PROVE Mails' = Mails /\ mb_got' = mb_got
    BY <2>2 DEF mbVars, Mails, Word
  <2>3. ASSUME MbSends PROVE MbQ!Next
    <3>1. PICK m \in Mail : entry < Size /\ Put(m) /\ mb_got' = mb_got
      BY <2>3 DEF MbSends, SendSection
    <3>2. Mails' = Append(Mails, m)
      BY <2>1, <3>1, PutAppends
    <3>3. MbQ!Send(m)
      BY <2>1, <3>1, <3>2 DEF MbQ!Send, Mails
    <3> QED  BY <3>3 DEF MbQ!Next
  <2>4. ASSUME MbReceives PROVE MbQ!Next
    <3>1. mb_got' = Head(Mails) /\ Mails' = Tail(Mails) /\ Mails # <<>>
      BY <2>1, <2>4, GetTakes DEF MbReceives, RecvSection
    <3>2. MbQ!Receive
      BY <3>1 DEF MbQ!Receive, Mails
    <3> QED  BY <3>2 DEF MbQ!Next
  <2>5. ASSUME rt_mb_control PROVE MbQ!Next
    <3>1. entry' = 0 /\ mb_got' = mb_got
      BY <2>5 DEF rt_mb_control
    <3>2. MbQ!Reset
      BY <3>1 DEF MbQ!Reset
    <3> QED  BY <3>2 DEF MbQ!Next
  <2>6. ASSUME MbNext PROVE MbQ!Next \/ (Mails' = Mails /\ mb_got' = mb_got)
    BY <2>1, <2>2, <2>3, <2>4, <2>5, <2>6, MbSections DEF MbBlocks, MbGivesUp, WaitSection
  <2>7. MailboxStep \/ UNCHANGED mbVars
    BY <2>1, CalmSteps
  <2> QED  BY <2>2, <2>6, <2>7 DEF MailboxStep
<1> QED  BY <1>1, <1>2, ObjectInvariance, PTL DEF Spec, MailboxIsQueue, MbQ!Spec

-----------------------------------------------------------------------------

\* The slots l, from p along nx to Null.
IsList(nx, p, l) ==
    /\ l \in Seq(Slot) /\ IsInjective(l)
    /\ p = IF l = <<>> THEN Null ELSE l[1]
    /\ \A i \in 1..Len(l) : nx[l[i]] = IF i = Len(l) THEN Null ELSE l[i + 1]

-----------------------------------------------------------------------------
(* Chain follows the pointers.                                             *)

Hops(nx, p) ==
    LET hop[k \in 0..Cardinality(Slot)] ==
            IF k = 0 THEN p ELSE IF hop[k - 1] = Null THEN Null ELSE nx[hop[k - 1]]
    IN  hop

ChainOf(nx, p) ==
    [i \in 1..Cardinality({k \in DOMAIN Hops(nx, p) : Hops(nx, p)[k] # Null}) |-> Hops(nx, p)[i - 1]]

\* A list is no longer than the pool.
LEMMA ListLength ==
    ASSUME NEW nx, NEW p, NEW l, IsList(nx, p, l)
    PROVE  /\ Len(l) \in 0..Cardinality(Slot) /\ Cardinality(Slot) \in Nat
           /\ ToSet(l) \subseteq Slot /\ IsFiniteSet(ToSet(l)) /\ Cardinality(ToSet(l)) = Len(l)
<1>1. l \in Seq(Slot) /\ IsInjective(l) /\ Len(l) \in Nat
  BY DEF IsList
<1>2. ToSet(l) \subseteq Slot
  BY <1>1 DEF ToSet
<1>3. IsFiniteSet(ToSet(l)) /\ Cardinality(ToSet(l)) = Len(l)
  BY <1>1, LenIsCardinality
<1>4. Cardinality(ToSet(l)) <= Cardinality(Slot) /\ Cardinality(Slot) \in Nat
  BY <1>2, SlotAssumption, FS_Subset, FS_CardinalityType
<1> QED  BY <1>1, <1>2, <1>3, <1>4

\* What Chain computes is the list, when there is one.
LEMMA ChainIsList ==
    ASSUME NEW nx, NEW p, NEW l, IsList(nx, p, l)
    PROVE  ChainOf(nx, p) = l
<1> DEFINE N == Cardinality(Slot)
           n == Len(l)
           f == [k \in 0..N |-> IF k < n THEN l[k + 1] ELSE Null]
           Eq(h) == h = [k \in 0..N |-> IF k = 0 THEN p ELSE IF h[k - 1] = Null THEN Null ELSE nx[h[k - 1]]]
           hop == Hops(nx, p)
<1>0. n \in Nat /\ N \in Nat /\ n <= N /\ l \in Seq(Slot) /\ DOMAIN l = 1..n
  BY ListLength DEF IsList
<1>1. \A i \in 1..n : l[i] \in Slot /\ l[i] # Null /\ nx[l[i]] = IF i = n THEN Null ELSE l[i + 1]
  <2>1. \A i \in 1..n : nx[l[i]] = IF i = n THEN Null ELSE l[i + 1]
    BY DEF IsList
  <2>2. \A i \in 1..n : l[i] \in Slot
    BY <1>0
  <2> QED  BY <2>1, <2>2, SlotAssumption
<1>2. p = IF n = 0 THEN Null ELSE l[1]
  <2>1. p = IF l = <<>> THEN Null ELSE l[1]
    BY DEF IsList
  <2>2. l = <<>> <=> n = 0
    BY <1>0
  <2> QED  BY <2>1, <2>2
<1> HIDE DEF N, n
<1>3. \A k \in 0..N : f[k] = IF k = 0 THEN p ELSE IF f[k - 1] = Null THEN Null ELSE nx[f[k - 1]]
  <2> SUFFICES ASSUME NEW k \in 0..N
               PROVE  f[k] = IF k = 0 THEN p ELSE IF f[k - 1] = Null THEN Null ELSE nx[f[k - 1]]
    OBVIOUS
  <2>1. CASE k = 0
    BY <1>0, <1>2, <2>1
  <2>2. CASE k # 0 /\ k - 1 < n
    <3>1. k \in 1..n /\ k - 1 \in 0..N /\ f[k - 1] = l[k]
      BY <1>0, <2>2
    <3>2. f[k - 1] # Null /\ nx[f[k - 1]] = IF k = n THEN Null ELSE l[k + 1]
      BY <1>1, <3>1
    <3>3. f[k] = IF k < n THEN l[k + 1] ELSE Null
      OBVIOUS
    <3>4. k < n <=> k # n
      BY <1>0, <3>1
    <3> QED  BY <2>2, <3>2, <3>3, <3>4
  <2>3. CASE k # 0 /\ ~(k - 1 < n)
    <3>1. k - 1 \in 0..N /\ f[k - 1] = Null /\ f[k] = Null
      BY <1>0, <2>3
    <3> QED  BY <2>3, <3>1
  <2> QED  BY <2>1, <2>2, <2>3
<1>4. f = [k \in 0..N |-> f[k]] /\ \A k \in 0..N : f[k] = IF k < n THEN l[k + 1] ELSE Null
  OBVIOUS
<1> HIDE DEF f
<1>5. Eq(f)
  BY <1>3, <1>4
<1>6. Eq(hop)
  BY <1>5 DEF Hops, N
<1> HIDE DEF hop
<1>7. DOMAIN hop = 0..N
  BY <1>6
<1>8. \A k \in 0..N : hop[k] = IF k = 0 THEN p ELSE IF hop[k - 1] = Null THEN Null ELSE nx[hop[k - 1]]
  BY <1>6
<1> HIDE DEF Eq
<1>9. \A k \in 0..N : hop[k] = f[k]
  <2> DEFINE T == {k \in Nat : k <= N => hop[k] = f[k]}
  <2>1. 0 \in T
    BY <1>0, <1>3, <1>8
  <2>2. ASSUME NEW k \in Nat, k \in T PROVE k + 1 \in T
    <3> SUFFICES ASSUME k + 1 <= N PROVE hop[k + 1] = f[k + 1]
      OBVIOUS
    <3>1. k + 1 \in 0..N /\ k + 1 # 0 /\ (k + 1) - 1 = k /\ hop[k] = f[k]
      BY <1>0, <2>2
    <3>2. hop[k + 1] = IF hop[k] = Null THEN Null ELSE nx[hop[k]]
      BY <1>8, <3>1
    <3>3. f[k + 1] = IF f[k] = Null THEN Null ELSE nx[f[k]]
      BY <1>3, <3>1
    <3> QED  BY <3>1, <3>2, <3>3
  <2>3. Nat \subseteq T
    BY <2>1, <2>2, SetInduction, Zenon
  <2> QED  BY <1>0, <2>3
<1>10. {k \in DOMAIN hop : hop[k] # Null} = 0..n - 1
  <2>1. \A k \in 0..N : f[k] # Null <=> k < n
    <3> TAKE k \in 0..N
    <3>1. k < n => k + 1 \in 1..n
      BY <1>0
    <3> QED  BY <1>1, <1>4, <3>1
  <2> QED  BY <1>0, <1>7, <1>9, <2>1
<1>11. Cardinality(0..n - 1) = n
  BY <1>0, FS_Interval
<1>12. ChainOf(nx, p) = [i \in 1..n |-> hop[i - 1]]
  BY <1>10, <1>11 DEF ChainOf, hop
<1>13. \A i \in 1..n : hop[i - 1] = l[i]
  <2> TAKE i \in 1..n
  <2>1. i - 1 \in 0..N /\ i - 1 < n /\ (i - 1) + 1 = i
    BY <1>0
  <2> QED  BY <1>4, <1>9, <2>1
<1>14. l = [i \in 1..n |-> l[i]]
  BY <1>0
<1> QED  BY <1>12, <1>13, <1>14

\* Chain, now and after a step.
LEMMA Chains ==
    ASSUME NEW l
    PROVE  /\ \A p : IsList(next, p, l) => Chain(p) = l
           /\ IsList(next', msg_queue_head', l) => Chain(msg_queue_head)' = l
<1>1. ASSUME NEW p PROVE Chain(p) = ChainOf(next, p)
  BY DEF Chain, ChainOf, Hops
<1>2. Chain(msg_queue_head)' = ChainOf(next', msg_queue_head')
  BY DEF Chain, ChainOf, Hops
<1> QED  BY <1>1, <1>2, ChainIsList

-----------------------------------------------------------------------------
(* Pointer updates.                                                        *)

\* The facts about a list that the lemmas below use.
LEMMA ListFacts ==
    ASSUME NEW nx, NEW p, NEW l, IsList(nx, p, l)
    PROVE  /\ l \in Seq(Slot) /\ Len(l) \in Nat /\ DOMAIN l = 1..Len(l) /\ IsInjective(l)
           /\ \A i \in 1..Len(l) : /\ l[i] \in Slot /\ l[i] # Null /\ l[i] \in ToSet(l)
                                   /\ nx[l[i]] = IF i = Len(l) THEN Null ELSE l[i + 1]
           /\ p = Null <=> l = <<>>
           /\ p = IF Len(l) = 0 THEN Null ELSE l[1]
<1>0. l \in Seq(Slot) /\ Len(l) \in Nat /\ DOMAIN l = 1..Len(l) /\ IsInjective(l)
  BY DEF IsList
<1>1. \A i \in 1..Len(l) : nx[l[i]] = IF i = Len(l) THEN Null ELSE l[i + 1]
  BY DEF IsList
<1>2. \A i \in 1..Len(l) : l[i] \in Slot /\ l[i] # Null /\ l[i] \in ToSet(l)
  BY <1>0, SlotAssumption DEF ToSet
<1>3. p = IF l = <<>> THEN Null ELSE l[1]
  BY DEF IsList
<1>4. l = <<>> <=> Len(l) = 0
  BY <1>0
<1>5. Len(l) # 0 => 1 \in 1..Len(l)
  BY <1>0
<1> QED  BY <1>0, <1>1, <1>2, <1>3, <1>4, <1>5

\* Pointers of other slots may change.
LEMMA ListFrame ==
    ASSUME NEW nx, NEW p, NEW l, IsList(nx, p, l), NEW ny, \A s \in ToSet(l) : ny[s] = nx[s]
    PROVE  IsList(ny, p, l)
<1>1. \A i \in 1..Len(l) : ny[l[i]] = nx[l[i]]
  BY ListFacts
<1> QED  BY <1>1 DEF IsList

\* The first slot is unlinked: the pointer moves on.
LEMMA ListPop ==
    ASSUME NEW nx, NEW p, NEW l, IsList(nx, p, l), p # Null
    PROVE  /\ IsList(nx, nx[p], Tail(l)) /\ l # <<>> /\ p = Head(l) /\ p \in Slot
           /\ p \in ToSet(l) /\ ToSet(Tail(l)) = ToSet(l) \ {p} /\ Len(Tail(l)) = Len(l) - 1
<1> DEFINE n == Len(l)
           r == Tail(l)
<1>1. /\ l \in Seq(Slot) /\ n \in Nat /\ IsInjective(l) /\ l # <<>> /\ n # 0
      /\ \A i \in 1..n : l[i] \in Slot /\ nx[l[i]] = IF i = n THEN Null ELSE l[i + 1]
      /\ p = l[1]
  BY ListFacts
<1>2. p = Head(l)
  BY <1>1
<1>3. /\ r \in Seq(Slot) /\ Len(r) = n - 1 /\ IsInjective(r) /\ p \in ToSet(l)
      /\ ToSet(l) = ToSet(r) \cup {p} /\ p \notin ToSet(r)
  BY <1>1, <1>2, HeadTailSet
<1>4. \A i \in 1..n - 1 : r[i] = l[i + 1]
  BY <1>1
<1> HIDE DEF n, r
<1>5. \A i \in 1..n - 1 : nx[r[i]] = IF i = n - 1 THEN Null ELSE r[i + 1]
  <2> TAKE i \in 1..n - 1
  <2>1. i + 1 \in 1..n /\ (i + 1 = n <=> i = n - 1) /\ (i # n - 1 => i + 1 \in 1..n - 1)
    BY <1>1
  <2> QED  BY <1>1, <1>4, <2>1
<1>6. nx[p] = IF r = <<>> THEN Null ELSE r[1]
  <2>1. 1 \in 1..n /\ (r = <<>> <=> n = 1)
    BY <1>1, <1>3
  <2>2. n # 1 => 1 \in 1..n - 1
    BY <1>1
  <2> QED  BY <1>1, <1>4, <2>1, <2>2
<1>7. IsList(nx, nx[p], r)
  BY <1>3, <1>5, <1>6 DEF IsList
<1>8. ToSet(r) = ToSet(l) \ {p} /\ p \in Slot
  <2>1. 1 \in 1..n
    BY <1>1
  <2> QED  BY <1>1, <1>3, <2>1
<1> QED  BY <1>1, <1>2, <1>3, <1>7, <1>8 DEF n, r

\* A slot is linked before the first one.
LEMMA ListPush ==
    ASSUME NEW nx, NEW p, NEW l, IsList(nx, p, l), NEW s \in Slot, s \notin ToSet(l),
           NEW ny, ny[s] = p, \A u \in ToSet(l) : ny[u] = nx[u]
    PROVE  IsList(ny, s, <<s>> \o l)
<1> DEFINE n == Len(l)
           r == <<s>> \o l
<1>1. /\ l \in Seq(Slot) /\ n \in Nat /\ IsInjective(l)
      /\ \A i \in 1..n : l[i] \in ToSet(l) /\ nx[l[i]] = IF i = n THEN Null ELSE l[i + 1]
      /\ p = IF n = 0 THEN Null ELSE l[1]
  BY ListFacts
<1>2. r \in Seq(Slot) /\ Len(r) = n + 1 /\ IsInjective(r)
  BY <1>1, ConsSet
<1>3. r[1] = s /\ \A i \in 1..n : r[i + 1] = l[i]
  BY <1>1
<1>4. r # <<>>
  BY <1>1, <1>2
<1> HIDE DEF n, r
<1>5. \A i \in 1..n + 1 : ny[r[i]] = IF i = n + 1 THEN Null ELSE r[i + 1]
  <2> TAKE i \in 1..n + 1
  <2>1. CASE i = 1
    <3>1. n # 0 => 1 \in 1..n
      BY <1>1
    <3> QED  BY <1>1, <1>3, <2>1, <3>1
  <2>2. CASE i # 1
    <3> DEFINE j == i - 1
    <3>1. j \in 1..n /\ j + 1 = i /\ (j = n <=> i = n + 1) /\ (j # n => j + 1 \in 1..n)
      BY <1>1, <2>2
    <3> HIDE DEF j
    <3>2. r[i] = l[j] /\ ny[l[j]] = IF j = n THEN Null ELSE l[j + 1]
      BY <1>1, <1>3, <3>1
    <3>3. j # n => r[i + 1] = l[j + 1]
      BY <1>3, <3>1
    <3> QED  BY <3>1, <3>2, <3>3
  <2> QED  BY <2>1, <2>2
<1>6. IsList(ny, s, r)
  BY <1>2, <1>3, <1>4, <1>5 DEF IsList
<1> QED  BY <1>6 DEF r

\* A slot is linked after the last one.
LEMMA ListAppend ==
    ASSUME NEW nx, NEW p, NEW l, IsList(nx, p, l), NEW s \in Slot, s \notin ToSet(l),
           NEW ny, ny[s] = Null,
           \A i \in 1..Len(l) : ny[l[i]] = IF i = Len(l) THEN s ELSE nx[l[i]]
    PROVE  IsList(ny, IF p = Null THEN s ELSE p, Append(l, s))
<1> DEFINE n == Len(l)
           r == Append(l, s)
<1>1. /\ l \in Seq(Slot) /\ n \in Nat /\ IsInjective(l)
      /\ \A i \in 1..n : l[i] \in ToSet(l) /\ l[i] # Null
                         /\ nx[l[i]] = IF i = n THEN Null ELSE l[i + 1]
      /\ p = IF n = 0 THEN Null ELSE l[1]
  BY ListFacts
<1>2. r \in Seq(Slot) /\ Len(r) = n + 1 /\ IsInjective(r)
  BY <1>1, AppendSet
<1>3. r[n + 1] = s /\ \A i \in 1..n : r[i] = l[i]
  BY <1>1
<1>4. r # <<>>
  BY <1>1, <1>2
<1>n. \A i \in 1..n : ny[l[i]] = IF i = n THEN s ELSE nx[l[i]]
  OBVIOUS
<1> HIDE DEF n, r
<1>5. \A i \in 1..n + 1 : ny[r[i]] = IF i = n + 1 THEN Null ELSE r[i + 1]
  <2> TAKE i \in 1..n + 1
  <2>1. CASE i = n + 1
    BY <1>3, <2>1
  <2>2. CASE i # n + 1
    <3>1. i \in 1..n /\ (i # n => i + 1 \in 1..n) /\ i \in Nat
      BY <1>1, <2>2
    <3>2. CASE i = n
      BY <1>3, <1>n, <2>2, <3>1, <3>2
    <3>3. CASE i # n
      BY <1>1, <1>3, <1>n, <2>2, <3>1, <3>3
    <3> QED  BY <3>2, <3>3
  <2> QED  BY <2>1, <2>2
<1>6. (IF p = Null THEN s ELSE p) = r[1]
  <2>1. CASE n = 0
    BY <1>1, <1>3, <2>1
  <2>2. CASE n # 0
    <3>1. 1 \in 1..n
      BY <1>1, <2>2
    <3> QED  BY <1>1, <1>3, <2>2, <3>1
  <2> QED  BY <2>1, <2>2
<1>7. IsList(ny, r[1], r)
  BY <1>2, <1>4, <1>5 DEF IsList
<1> QED  BY <1>6, <1>7 DEF r

\* The slots of m are pushed one by one before those of l.
LEMMA ListMove ==
    ASSUME NEW nx, NEW p, NEW l, IsList(nx, p, l), NEW q, NEW m, IsList(nx, q, m),
           ToSet(l) \cap ToSet(m) = {}, NEW ny, \A u \in ToSet(l) : ny[u] = nx[u],
           \A i \in 1..Len(m) : ny[m[i]] = IF i = 1 THEN p ELSE m[i - 1]
    PROVE  \E r : /\ IsList(ny, IF Len(m) = 0 THEN p ELSE m[Len(m)], r)
                  /\ ToSet(r) = ToSet(l) \cup ToSet(m)
<1> DEFINE a == Len(l)
           b == Len(m)
           r == [i \in 1..a + b |-> IF i <= b THEN m[b + 1 - i] ELSE l[i - b]]
<1>1. /\ l \in Seq(Slot) /\ a \in Nat /\ IsInjective(l) /\ DOMAIN l = 1..a
      /\ \A i \in 1..a : /\ l[i] \in ToSet(l) /\ l[i] \in Slot
                         /\ nx[l[i]] = IF i = a THEN Null ELSE l[i + 1]
      /\ p = IF a = 0 THEN Null ELSE l[1]
  BY ListFacts
<1>2. /\ m \in Seq(Slot) /\ b \in Nat /\ IsInjective(m) /\ DOMAIN m = 1..b
      /\ \A i \in 1..b : m[i] \in ToSet(m) /\ m[i] \in Slot
  BY ListFacts
<1>3. \A i \in 1..b : ny[m[i]] = IF i = 1 THEN p ELSE m[i - 1]
  OBVIOUS
<1>4. /\ \A x : x \in ToSet(l) <=> \E i \in 1..a : x = l[i]
      /\ \A x : x \in ToSet(m) <=> \E i \in 1..b : x = m[i]
  <2>1. ToSet(l) = {l[i] : i \in 1..a} /\ ToSet(m) = {m[i] : i \in 1..b}
    BY <1>1, <1>2, Zenon DEF ToSet
  <2> HIDE DEF a, b
  <2> QED  BY <2>1, Zenon
<1> HIDE DEF a, b
<1>5. \A i \in 1..b : b + 1 - i \in 1..b /\ i \in 1..a + b
  BY <1>1, <1>2
<1>6. \A i \in 1..a + b : i > b => i - b \in 1..a
  BY <1>1, <1>2
<1>7. \A i \in 1..a + b : \/ i <= b /\ i \in 1..b /\ r[i] = m[b + 1 - i]
                          \/ i > b /\ i - b \in 1..a /\ r[i] = l[i - b]
  BY <1>1, <1>2, <1>5, <1>6
<1>8. \A i \in 1..a + b : r[i] \in Slot
  BY <1>1, <1>2, <1>5, <1>7
<1>9. r \in [1..a + b -> Slot]
  BY <1>8
<1> HIDE DEF r
<1>10. r \in Seq(Slot) /\ Len(r) = a + b /\ DOMAIN r = 1..a + b
  <2>1. a + b \in Nat
    BY <1>1, <1>2
  <2> QED  BY <1>9, <2>1
<1>11. IsInjective(r)
  <2> SUFFICES ASSUME NEW i \in 1..a + b, NEW j \in 1..a + b, r[i] = r[j] PROVE i = j
    BY <1>10 DEF IsInjective
  <2>1. CASE i <= b /\ j <= b
    <3>0. i \in Nat /\ j \in Nat /\ ~(i > b) /\ ~(j > b)
      BY <1>1, <1>2, <2>1
    <3>a. i \in 1..b /\ r[i] = m[b + 1 - i]
      BY <1>7, <3>0
    <3>b. j \in 1..b /\ r[j] = m[b + 1 - j]
      BY <1>7, <3>0
    <3>1. i \in 1..b /\ j \in 1..b /\ m[b + 1 - i] = m[b + 1 - j]
      BY <3>a, <3>b
    <3>2. b + 1 - i = b + 1 - j
      BY <1>2, <1>5, <3>1 DEF IsInjective
    <3> QED  BY <1>2, <3>2
  <2>2. CASE i > b /\ j > b
    <3>1. i - b \in 1..a /\ j - b \in 1..a /\ l[i - b] = l[j - b]
      BY <1>2, <1>7, <2>2
    <3>2. i - b = j - b
      BY <1>1, <3>1 DEF IsInjective
    <3> QED  BY <1>2, <3>2
  <2>3. CASE i <= b /\ j > b
    BY <1>1, <1>2, <1>5, <1>7, <2>3
  <2>4. CASE i > b /\ j <= b
    BY <1>1, <1>2, <1>5, <1>7, <2>4
  <2> QED  BY <1>1, <1>2, <2>1, <2>2, <2>3, <2>4
<1>12. \A i \in 1..a + b : ny[r[i]] = IF i = a + b THEN Null ELSE r[i + 1]
  <2> SUFFICES ASSUME NEW i \in 1..a + b
               PROVE  ny[r[i]] = IF i = a + b THEN Null ELSE r[i + 1]
    OBVIOUS
  <2>1. CASE i < b
    <3> DEFINE j == b + 1 - i
    <3>1. j \in 1..b /\ j # 1 /\ r[i] = m[j] /\ i + 1 \in 1..a + b /\ i + 1 <= b /\ i # a + b
          /\ b + 1 - (i + 1) = j - 1
      BY <1>1, <1>2, <1>5, <1>7, <2>1
    <3> HIDE DEF j
    <3>2. r[i + 1] = m[j - 1]
      <4>1. ~(i + 1 > b)
        BY <1>2, <3>1
      <4>2. r[i + 1] = m[b + 1 - (i + 1)]
        BY <1>7, <3>1, <4>1
      <4> QED  BY <3>1, <4>2
    <3> QED  BY <1>3, <3>1, <3>2
  <2>2. CASE i = b
    <3>1. 1 \in 1..b /\ b + 1 - i = 1 /\ r[i] = m[1]
      BY <1>1, <1>2, <1>7, <2>2
    <3>2. ny[r[i]] = p
      BY <1>3, <3>1
    <3>3. CASE a = 0
      BY <1>1, <1>2, <2>2, <3>2, <3>3
    <3>4. CASE a # 0
      <4>1. i + 1 \in 1..a + b /\ i # a + b /\ ~(i + 1 <= b) /\ (i + 1) - b = 1
        BY <1>1, <1>2, <2>2, <3>4
      <4>2. r[i + 1] = l[1]
        BY <1>7, <4>1
      <4> QED  BY <1>1, <3>2, <3>4, <4>1, <4>2
    <3> QED  BY <3>3, <3>4
  <2>3. CASE i > b
    <3> DEFINE j == i - b
    <3>1. j \in 1..a /\ r[i] = l[j] /\ (j = a <=> i = a + b)
      BY <1>1, <1>2, <1>7, <2>3
    <3>2. j # a => i + 1 \in 1..a + b /\ ~(i + 1 <= b) /\ (i + 1) - b = j + 1
      BY <1>1, <1>2, <2>3, <3>1
    <3> HIDE DEF j
    <3>3. j # a => r[i + 1] = l[j + 1]
      BY <1>7, <3>2
    <3>4. ny[l[j]] = IF j = a THEN Null ELSE l[j + 1]
      BY <1>1, <3>1
    <3> QED  BY <3>1, <3>3, <3>4
  <2> QED  BY <1>1, <1>2, <2>1, <2>2, <2>3
<1>13. (IF b = 0 THEN p ELSE m[b]) = IF r = <<>> THEN Null ELSE r[1]
  <2>1. r = <<>> <=> a + b = 0
    BY <1>1, <1>2, <1>10
  <2>2. CASE b # 0
    <3>1. 1 \in 1..a + b /\ 1 <= b /\ b + 1 - 1 = b
      BY <1>1, <1>2, <2>2
    <3>2. r[1] = m[b]
      BY <1>2, <1>7, <3>1
    <3> QED  BY <1>1, <1>2, <2>1, <2>2, <3>2
  <2>3. CASE b = 0 /\ a # 0
    <3>1. 1 \in 1..a + b /\ ~(1 <= b) /\ 1 - b = 1
      BY <1>1, <1>2, <2>3
    <3>2. r[1] = l[1]
      BY <1>7, <3>1
    <3> QED  BY <1>1, <1>2, <2>1, <2>3, <3>2
  <2>4. CASE b = 0 /\ a = 0
    BY <1>1, <2>1, <2>4
  <2> QED  BY <2>2, <2>3, <2>4
<1>14. ToSet(r) = ToSet(l) \cup ToSet(m)
  <2>1. \A x : x \in ToSet(r) <=> \E i \in 1..a + b : x = r[i]
    BY <1>10 DEF ToSet
  <2>2. ASSUME NEW i \in 1..a + b PROVE r[i] \in ToSet(l) \cup ToSet(m)
    BY <1>1, <1>2, <1>5, <1>7
  <2>3. ASSUME NEW i \in 1..a PROVE \E j \in 1..a + b : l[i] = r[j]
    <3>1. i + b \in 1..a + b /\ ~(i + b <= b) /\ (i + b) - b = i
      BY <1>1, <1>2
    <3> QED  BY <1>7, <3>1
  <2>4. ASSUME NEW i \in 1..b PROVE \E j \in 1..a + b : m[i] = r[j]
    <3>1. b + 1 - i \in 1..a + b /\ b + 1 - i <= b /\ b + 1 - (b + 1 - i) = i
      BY <1>1, <1>2
    <3>2. r[b + 1 - i] = m[b + 1 - (b + 1 - i)]
      BY <1>2, <1>7, <3>1
    <3> QED  BY <3>1, <3>2
  <2> QED  BY <1>4, <2>1, <2>2, <2>3, <2>4
<1>15. IsList(ny, IF b = 0 THEN p ELSE m[b], r)
  BY <1>10, <1>11, <1>12, <1>13 DEF IsList
<1> QED  BY <1>14, <1>15 DEF b

-----------------------------------------------------------------------------
(* The invariant.  d is call, rest the slots in the two lists.             *)

HoldersOf(d) == {c \in Caller : d[c].op = "mq" /\ d[c].slot # Null}

\* The calls hold the other slots, each of them one.
HandsOK(d, rest) ==
    /\ \A c \in HoldersOf(d) : d[c].slot \in Slot \ rest
    /\ \A s \in Slot \ rest : \E c \in HoldersOf(d) : d[c].slot = s
    /\ \A b, c \in HoldersOf(d) : d[b].slot = d[c].slot => b = c

\* What a call e has done to the slot it holds.
PlaceOK(nx, tx, e) ==
    /\ e.slot = Null => e.at = "wait"
    /\ e.slot # Null =>
          /\ e.at \in {"fill", "fill_urgent", "link", "link_urgent", "copy", "free"}
          /\ e.at \in {"fill", "fill_urgent", "link", "link_urgent"} => e.mail \in Mail
          /\ e.at = "link" => nx[e.slot] = Null
          /\ e.at \in {"link", "link_urgent", "copy"} => tx[e.slot] = e.mail

PlacesOK(nx, tx, d) == \A c \in Caller : d[c].op = "mq" => PlaceOK(nx, tx, d[c])

MqState(F, M) ==
    /\ MqTypeOK
    /\ IsList(next, msg_queue_free, F) /\ IsList(next, msg_queue_head, M)
    /\ ToSet(F) \cap ToSet(M) = {}
    /\ msg_count = Len(M)
    /\ msg_queue_tail = IF Len(M) = 0 THEN Null ELSE M[Len(M)]
    /\ \A s \in ToSet(M) : text[s] \in Mail
    /\ HandsOK(call, ToSet(F) \cup ToSet(M))
    /\ PlacesOK(next, text, call)

MqInv == \E F, M : MqState(F, M)


-----------------------------------------------------------------------------
(* The steps of the other objects leave the calls alone.                   *)

\* A call of a message queue goes on, and none begins or ends.
Steady == \A c \in Caller : call'[c] = call[c] \/ (call[c].op # "mq" /\ call'[c].op # "mq")

\* The other objects have no state that a handler keeps between two steps.
LEMMA HandlersStay ==
    ASSUME WaitInv(w, call), SemNext \/ MtxNext \/ EvtNext \/ MbNext \/ MpNext
    PROVE  \A c \in Isr : call'[c] = call[c]
<1> DEFINE Stay == \A c \in Isr : call'[c] = call[c]
<1>0. DOMAIN call = Caller /\ \A c \in Isr : c \in Caller /\ \A t \in Thread : c # t
  BY ThreadAssumption DEF WaitInv, Caller
<1>1. ASSUME NEW t \in Thread, NEW e, call' = [call EXCEPT ![t] = e] PROVE Stay
  BY <1>0, <1>1
<1>2. ASSUME NEW t \in Thread, Return(t) PROVE Stay
  BY <1>1, <1>2 DEF Return
<1>3. ASSUME call' = call PROVE Stay
  BY <1>3
<1> HIDE DEF Stay
<1>4. ASSUME SemNext PROVE Stay
  BY <1>1, <1>2, <1>3, <1>4, Zenon DEF SemNext, rt_sem_take, SemTaken, rt_sem_release, rt_sem_control
<1>5. ASSUME MtxNext PROVE Stay
  <2>1. ASSUME NEW m, NEW t \in Thread, NEW time, rt_mutex_take(m, t, time) PROVE Stay
    BY <1>1, <1>3, <2>1, Zenon DEF rt_mutex_take, TakeAgain, TakeFree, TakeWait
  <2>2. ASSUME NEW m, NEW t \in Thread, rt_mutex_release(m, t) PROVE Stay
    BY <1>3, <2>2 DEF rt_mutex_release, ReleaseLast
  <2>3. ASSUME NEW t \in Thread, Taken(t) PROVE Stay
    BY <1>2, <2>3 DEF Taken
  <2> QED  BY <1>5, <2>1, <2>2, <2>3 DEF MtxNext
<1>6. ASSUME EvtNext PROVE Stay
  <2>1. ASSUME NEW es, rt_event_send(es) \/ rt_event_control PROVE Stay
    BY <1>3, <2>1 DEF rt_event_send, rt_event_control
  <2>2. ASSUME NEW t \in Thread, NEW es, NEW o, NEW time, rt_event_recv(t, es, o, time) PROVE Stay
    BY <1>1, <1>3, <2>2, Zenon DEF rt_event_recv
  <2>3. ASSUME NEW t \in Thread, ReceivedEvents(t) PROVE Stay
    BY <1>2, <2>3 DEF ReceivedEvents
  <2> QED  BY <1>6, <2>1, <2>2, <2>3 DEF EvtNext
<1>7. ASSUME MbNext PROVE Stay
  <2>1. ASSUME NEW t \in Thread, NEW m, NEW to, MbTrySend(t, m, to) PROVE Stay
    BY <1>1, <1>2, <2>1, Zenon DEF MbTrySend, WaitSection
  <2>2. ASSUME NEW t \in Thread, NEW to, MbTryRecv(t, to) PROVE Stay
    BY <1>1, <1>2, <2>2, Zenon DEF MbTryRecv, WaitSection
  <2>3. ASSUME NEW m, IsrSend(m) \/ IsrRecv \/ rt_mb_control PROVE Stay
    BY <1>3, <2>3 DEF IsrSend, IsrRecv, rt_mb_control
  <2> QED  BY <1>2, <1>7, <2>1, <2>2, <2>3
           DEF MbNext, rt_mb_send_wait, rt_mb_recv, MbWokenSend, MbWokenRecv
<1>8. ASSUME MpNext PROVE Stay
  <2>1. ASSUME NEW t \in Thread, NEW time, TryAlloc(t, time) PROVE Stay
    BY <1>1, <1>2, <2>1, Zenon DEF TryAlloc, MpWait
  <2>2. ASSUME NEW b, rt_mp_free(b) \/ IsrAlloc PROVE Stay
    BY <1>3, <2>2 DEF rt_mp_free, IsrAlloc
  <2> QED  BY <1>2, <1>8, <2>1, <2>2 DEF MpNext, rt_mp_alloc, WokenAlloc
<1>9. Stay
  BY <1>4, <1>5, <1>6, <1>7, <1>8
<1> QED  BY <1>9 DEF Stay

\* A step that is not one of the message queue is Steady and changes no slot.
LEMMA ForeignSteps ==
    ASSUME CoreInv, [Next]_vars, ~MessageQueueStep
    PROVE  Steady /\ UNCHANGED mqVars
<1>0. /\ WaitInv(w, call) /\ CallOK(call) /\ EventInv /\ MtxTypeOK /\ BaseInv
      /\ Caller = Thread \cup Isr
  BY DEF CoreInv, MutexInv, BaseInv, Caller
<1>1. UNCHANGED mqVars
  BY <1>0, CalmSteps
<1>2. ASSUME NEW ops, "mq" \notin ops, NEW qs, Affects(w, call, w', call', ops, qs),
             \A c \in Isr : call'[c] = call[c]
      PROVE  Steady
  BY <1>0, <1>2 DEF Affects, Steady
<1>3. ASSUME SemStep PROVE Steady
  <2>1. SemNext /\ WaitStep(SemOps, {"sem"})
    BY <1>0, <1>3, SemWaits DEF SemStep
  <2> QED  BY <1>0, <1>2, <2>1, HandlersStay DEF WaitStep, Step, SemOps
<1>4. ASSUME MutexStep PROVE Steady
  <2>1. MtxNext /\ Affects(w, call, w', call', MutexOps, Mutexes)
    BY <1>0, <1>4, MutexWaits DEF MutexStep
  <2> QED  BY <1>0, <1>2, <2>1, HandlersStay DEF MutexOps
<1>5. ASSUME EventStep PROVE Steady
  <2>1. EvtNext /\ WaitStep(EventOps, {"event"})
    BY <1>0, <1>5, EventWaits DEF EventStep
  <2> QED  BY <1>0, <1>2, <2>1, HandlersStay DEF WaitStep, Step, EventOps
<1>6. ASSUME MailboxStep PROVE Steady
  <2>1. MbNext /\ WaitStep(MbOps, {"mb_send", "mb_recv"})
    BY <1>0, <1>6, MbWaits DEF MailboxStep
  <2> QED  BY <1>0, <1>2, <2>1, HandlersStay DEF WaitStep, Step, MbOps
<1>7. ASSUME MemPoolStep PROVE Steady
  <2>1. MpNext /\ WaitStep(MpOps, {"mp"})
    BY <1>0, <1>7, MpWaits DEF MemPoolStep
  <2> QED  BY <1>0, <1>2, <2>1, HandlersStay DEF WaitStep, Step, MpOps
<1>8. ASSUME DetachStep PROVE Steady
  <2>1. call' = call
    BY <1>0, <1>8, DetachEvicts DEF Evicts
  <2> QED  BY <2>1 DEF Steady
<1>9. ASSUME NEW t \in Thread, TimeoutOf(t) PROVE Steady
  BY <1>9 DEF TimeoutOf, Steady
<1>10. ASSUME UNCHANGED vars PROVE Steady
  BY <1>10 DEF vars, Steady
<1> QED  BY <1>1, <1>3, <1>4, <1>5, <1>6, <1>7, <1>8, <1>9, <1>10 DEF Next

-----------------------------------------------------------------------------
(* A slot changes hands.                                                   *)

\* d2 is d with another record for the caller c.
Replaced(d, d2, c, e) == \A b \in Caller : d2[b] = IF b = c THEN e ELSE d[b]

\* A step that sets one call record.
LEMMA SetsCall ==
    ASSUME CoreInv, NEW c \in Caller, NEW e, call' = [call EXCEPT ![c] = e]
    PROVE  Replaced(call, call', c, e)
<1>1. DOMAIN call = Caller
  BY DEF CoreInv, BaseInv, WaitInv
<1> QED  BY <1>1 DEF Replaced

\* The holders after a call record was replaced.
LEMMA HoldersAfter ==
    ASSUME NEW d, NEW d2, NEW c \in Caller, NEW e, Replaced(d, d2, c, e)
    PROVE  \A b : b \in HoldersOf(d2) <=>
                     IF b = c THEN e.op = "mq" /\ e.slot # Null ELSE b \in HoldersOf(d)
BY DEF HoldersOf, Replaced

\* A call that held no slot takes one from a list.
LEMMA HandsGrow ==
    ASSUME NEW d, NEW d2, NEW rest, rest \subseteq Slot, HandsOK(d, rest),
           NEW c \in Caller, c \notin HoldersOf(d), NEW e, e.op = "mq", e.slot \in rest,
           Replaced(d, d2, c, e)
    PROVE  HandsOK(d2, rest \ {e.slot})
<1>0. e.slot # Null
  BY SlotAssumption
<1>1. \A b : b \in HoldersOf(d2) <=> b = c \/ b \in HoldersOf(d)
  BY <1>0, HoldersAfter
<1>2. HoldersOf(d) \subseteq Caller
  BY DEF HoldersOf
<1> QED  BY <1>1, <1>2 DEF HandsOK, Replaced

\* A call gives its slot to a list.
LEMMA HandsShrink ==
    ASSUME NEW d, NEW d2, NEW rest, HandsOK(d, rest),
           NEW c \in Caller, c \in HoldersOf(d), NEW e, e.op # "mq", Replaced(d, d2, c, e)
    PROVE  HandsOK(d2, rest \cup {d[c].slot})
<1>1. \A b : b \in HoldersOf(d2) <=> b # c /\ b \in HoldersOf(d)
  BY HoldersAfter
<1>2. HoldersOf(d) \subseteq Caller
  BY DEF HoldersOf
<1> QED  BY <1>1, <1>2 DEF HandsOK, Replaced

\* A call keeps its slot, or has none before and after.
LEMMA HandsStay ==
    ASSUME NEW d, NEW d2, NEW rest, HandsOK(d, rest),
           \A c \in Caller : \/ c \notin HoldersOf(d) /\ c \notin HoldersOf(d2)
                             \/ c \in HoldersOf(d) /\ c \in HoldersOf(d2) /\ d2[c].slot = d[c].slot
    PROVE  HandsOK(d2, rest)
<1>1. HoldersOf(d) = HoldersOf(d2) /\ \A c \in HoldersOf(d) : d2[c].slot = d[c].slot
  BY DEF HoldersOf
<1> QED  BY <1>1 DEF HandsOK


\* What the calls have done to their slots stays true when one call moves on and
\* the slots of the others are left alone.
LEMMA PlacesAfter ==
    ASSUME NEW nx, NEW tx, NEW d, NEW d2, PlacesOK(nx, tx, d), NEW c \in Caller, NEW e,
           Replaced(d, d2, c, e), NEW nx2, NEW tx2, e.op = "mq" => PlaceOK(nx2, tx2, e),
           \A b \in HoldersOf(d) : b # c =>
               nx2[d[b].slot] = nx[d[b].slot] /\ tx2[d[b].slot] = tx[d[b].slot]
    PROVE  PlacesOK(nx2, tx2, d2)
<1>1. ASSUME NEW b \in Caller, b # c, d[b].op = "mq" PROVE PlaceOK(nx2, tx2, d[b])
  <2>1. PlaceOK(nx, tx, d[b])
    BY <1>1 DEF PlacesOK
  <2>2. d[b].slot # Null => nx2[d[b].slot] = nx[d[b].slot] /\ tx2[d[b].slot] = tx[d[b].slot]
    BY <1>1 DEF HoldersOf
  <2> QED  BY <2>1, <2>2 DEF PlaceOK
<1> QED  BY <1>1 DEF PlacesOK, Replaced

\* rt_mq_send and rt_mq_urgent take the first free slot.
LEMMA AllocKept ==
    ASSUME CoreInv, NEW F, NEW M, MqState(F, M), NEW c \in Caller, NEW m \in Mail,
           NEW place \in {"fill", "fill_urgent"}, Alloc(c, m, place)
    PROVE  MqState(Tail(F), M)' /\ text' = text /\ mq_got' = mq_got
<1> DEFINE e == InCall(place, msg_queue_free, m, "none")
           rest == ToSet(F) \cup ToSet(M)
<1>0. e.op = "mq" /\ e.at = place /\ e.slot = msg_queue_free /\ e.mail = m
  BY DEF InCall
<1>1. /\ call' = [call EXCEPT ![c] = e] /\ msg_queue_free # Null
      /\ msg_queue_free' = next[msg_queue_free] /\ MqFree(c)
      /\ UNCHANGED <<next, text, msg_queue_head, msg_queue_tail, msg_count, mq_got>>
  BY DEF Alloc
<1> HIDE DEF e
<1>d. Replaced(call, call', c, e)
  BY <1>1, SetsCall
<1>2. /\ IsList(next, next[msg_queue_free], Tail(F)) /\ msg_queue_free \in ToSet(F)
      /\ ToSet(Tail(F)) = ToSet(F) \ {msg_queue_free}
  BY <1>1, ListPop DEF MqState
<1>3. c \notin HoldersOf(call)
  BY <1>1, IdleIsNoCall DEF HoldersOf, MqFree, Free
<1>l. rest \subseteq Slot
  BY ListLength DEF MqState
<1>4. HandsOK(call', rest \ {e.slot})
  <2>1. HandsOK(call, rest) /\ e.slot \in rest
    BY <1>0, <1>2 DEF MqState
  <2> HIDE DEF rest
  <2> QED  BY <1>0, <1>1, <1>d, <1>3, <1>l, <2>1, HandsGrow
<1>5. rest \ {e.slot} = ToSet(Tail(F)) \cup ToSet(M) /\ ToSet(Tail(F)) \cap ToSet(M) = {}
  BY <1>0, <1>2 DEF MqState
<1>6. PlacesOK(next', text', call')
  <2>1. PlaceOK(next, text, e)
    BY <1>0, <1>1 DEF PlaceOK
  <2>2. PlacesOK(next, text, call')
    BY <1>d, <2>1, PlacesAfter DEF MqState
  <2> QED  BY <1>1, <2>2
<1>7. MqTypeOK'
  <2>1. next[msg_queue_free] \in Pointer
    BY <1>1 DEF MqState, MqTypeOK, Pointer
  <2> QED  BY <1>1, <2>1 DEF MqState, MqTypeOK
<1> HIDE DEF rest
<1>8. HandsOK(call', ToSet(Tail(F)) \cup ToSet(M))
  BY <1>4, <1>5
<1> QED  BY <1>1, <1>2, <1>5, <1>6, <1>7, <1>8 DEF MqState

\* A step of a call that leaves its slot in its hand.
LEMMA MovesOn ==
    ASSUME CoreInv, NEW F, NEW M, MqState(F, M), NEW c \in Caller, call[c].op = "mq",
           NEW place, Goto(c, place)
    PROVE  \E e : /\ Replaced(call, call', c, e)
                  /\ e.op = "mq" /\ e.at = place /\ e.slot = call[c].slot /\ e.mail = call[c].mail
                  /\ HandsOK(call', ToSet(F) \cup ToSet(M))
<1> DEFINE e == [call[c] EXCEPT !.at = place]
<1>1. CallOK(call) /\ HandsOK(call, ToSet(F) \cup ToSet(M))
  BY DEF CoreInv, BaseInv, MqState
<1>2. DOMAIN call[c] = {"op", "at", "slot", "mail", "timeout"}
  BY <1>1 DEF CallOK
<1>3. e.op = "mq" /\ e.at = place /\ e.slot = call[c].slot /\ e.mail = call[c].mail
  BY <1>2
<1>4. call' = [call EXCEPT ![c] = e]
  BY DEF Goto
<1> HIDE DEF e
<1>5. Replaced(call, call', c, e)
  BY <1>4, SetsCall
<1>6. \A b : b \in HoldersOf(call') <=>
               IF b = c THEN e.op = "mq" /\ e.slot # Null ELSE b \in HoldersOf(call)
  BY <1>5, HoldersAfter
<1>7. c \in HoldersOf(call) <=> call[c].slot # Null
  BY DEF HoldersOf
<1>8. HandsOK(call', ToSet(F) \cup ToSet(M))
  BY <1>1, <1>3, <1>5, <1>6, <1>7, HandsStay DEF Replaced
<1> QED  BY <1>3, <1>5, <1>8

\* The copy into the slot.
LEMMA FillKept ==
    ASSUME CoreInv, NEW F, NEW M, MqState(F, M), NEW c \in Caller, Fill(c)
    PROVE  MqState(F, M)' /\ (\A s \in ToSet(M) : text'[s] = text[s]) /\ mq_got' = mq_got
<1> DEFINE s == call[c].slot
           rest == ToSet(F) \cup ToSet(M)
<1>1. /\ call[c].op = "mq" /\ call[c].at \in {"fill", "fill_urgent"}
      /\ text' = [text EXCEPT ![s] = call[c].mail]
      /\ next' = [next EXCEPT ![s] = Null] \/ next' = next
      /\ UNCHANGED <<msg_queue_head, msg_queue_tail, msg_queue_free, msg_count, mq_got>>
  BY DEF Fill, MqAt
<1>2. PICK place \in {"link", "link_urgent"} :
         Goto(c, place) /\ (place = "link" => next' = [next EXCEPT ![s] = Null])
  BY DEF Fill
<1>3. PICK e : /\ Replaced(call, call', c, e)
               /\ e.op = "mq" /\ e.at = place /\ e.slot = s /\ e.mail = call[c].mail
               /\ HandsOK(call', rest)
  BY <1>1, <1>2, MovesOn
<1>4. PlaceOK(next, text, call[c]) /\ MqTypeOK
  BY <1>1 DEF MqState, PlacesOK
<1>5. s # Null /\ call[c].mail \in Mail /\ c \in HoldersOf(call)
  BY <1>1, <1>4 DEF PlaceOK, HoldersOf
<1>6. /\ s \in Slot /\ s \notin rest
      /\ \A b \in HoldersOf(call) : b # c => call[b].slot # s /\ call[b].slot \in Slot
  BY <1>5 DEF MqState, HandsOK
<1>7. next \in [Slot -> Pointer] /\ text \in [Slot -> Mail \cup {NoMail}] /\ Null \in Pointer
  BY <1>4 DEF MqTypeOK, Pointer
<1> HIDE DEF s
<1>8. /\ \A u \in Slot : u # s => next'[u] = next[u] /\ text'[u] = text[u]
      /\ text'[s] = call[c].mail /\ (place = "link" => next'[s] = Null)
      /\ next' \in [Slot -> Pointer] /\ text' \in [Slot -> Mail \cup {NoMail}]
  BY <1>1, <1>2, <1>5, <1>6, <1>7
<1>9. \A u \in rest : next'[u] = next[u] /\ text'[u] = text[u]
  <2>1. rest \subseteq Slot
    BY ListLength DEF MqState
  <2> QED  BY <1>6, <1>8, <2>1
<1>10. IsList(next', msg_queue_free, F) /\ IsList(next', msg_queue_head, M)
  <2>1. IsList(next, msg_queue_free, F) /\ IsList(next, msg_queue_head, M)
    BY DEF MqState
  <2>2. \A u \in ToSet(F) : next'[u] = next[u]
    BY <1>9
  <2>3. \A u \in ToSet(M) : next'[u] = next[u]
    BY <1>9
  <2> QED  BY <2>1, <2>2, <2>3, ListFrame
<1>11. PlacesOK(next', text', call')
  <2>1. PlaceOK(next', text', e)
    BY <1>3, <1>5, <1>8 DEF PlaceOK
  <2>2. \A b \in HoldersOf(call) : b # c =>
           next'[call[b].slot] = next[call[b].slot] /\ text'[call[b].slot] = text[call[b].slot]
    BY <1>6, <1>8
  <2>3. PlacesOK(next, text, call)
    BY DEF MqState
  <2> QED  BY <1>3, <2>1, <2>2, <2>3, PlacesAfter
<1>12. MqTypeOK'
  BY <1>1, <1>4, <1>8 DEF MqTypeOK
<1>13. HandsOK(call', rest) /\ \A u \in ToSet(M) : text'[u] \in Mail /\ text'[u] = text[u]
  BY <1>3, <1>9 DEF MqState
<1> QED  BY <1>1, <1>10, <1>11, <1>12, <1>13 DEF MqState


\* The last section of a call gives its slot to one of the lists.
LEMMA GivesSlot ==
    ASSUME CoreInv, NEW F, NEW M, MqState(F, M), NEW c \in Caller, call[c].op = "mq",
           call[c].at \in {"link", "link_urgent", "free"}, Return(c)
    PROVE  /\ call[c].slot \in Slot /\ call[c].slot \notin ToSet(F) /\ call[c].slot \notin ToSet(M)
           /\ call[c].at = "link" => next[call[c].slot] = Null
           /\ call[c].at # "free" => text[call[c].slot] \in Mail
           /\ HandsOK(call', ToSet(F) \cup ToSet(M) \cup {call[c].slot})
           /\ \A nx2 : (\A u \in Slot \ (ToSet(F) \cup ToSet(M) \cup {call[c].slot}) : nx2[u] = next[u])
                           => PlacesOK(nx2, text, call')
<1> DEFINE s == call[c].slot
           rest == ToSet(F) \cup ToSet(M)
<1>1. PlaceOK(next, text, call[c]) /\ HandsOK(call, rest) /\ PlacesOK(next, text, call)
  BY DEF MqState, PlacesOK
<1>2. /\ s # Null /\ (call[c].at = "link" => next[s] = Null)
      /\ call[c].at # "free" => text[s] \in Mail
  BY <1>1 DEF PlaceOK
<1>3. c \in HoldersOf(call)
  BY <1>2 DEF HoldersOf
<1>4. /\ s \in Slot /\ s \notin rest
      /\ \A b \in HoldersOf(call) : b # c => call[b].slot \in Slot \ (rest \cup {s})
  <2> HIDE DEF rest
  <2> QED  BY <1>1, <1>3 DEF HandsOK
<1>5. Replaced(call, call', c, Idle)
  BY SetsCall DEF Return
<1>6. HandsOK(call', rest \cup {s})
  <2> HIDE DEF rest
  <2> QED  BY <1>1, <1>3, <1>5, IdleIsNoCall, HandsShrink
<1>7. ASSUME NEW nx2, \A u \in Slot \ (rest \cup {s}) : nx2[u] = next[u]
      PROVE  PlacesOK(nx2, text, call')
  <2>1. \A b \in HoldersOf(call) : b # c => nx2[call[b].slot] = next[call[b].slot]
    BY <1>4, <1>7
  <2> QED  BY <1>1, <1>5, <2>1, IdleIsNoCall, PlacesAfter
<1> QED  BY <1>2, <1>4, <1>6, <1>7

\* rt_mq_send links its slot at the tail.
LEMMA LinkKept ==
    ASSUME CoreInv, NEW F, NEW M, MqState(F, M), NEW c \in Caller, Link(c),
           NEW s, s = call[c].slot
    PROVE  /\ s \in Slot /\ text[s] \in Mail
           /\ MqState(F, Append(M, s))' /\ text' = text /\ mq_got' = mq_got
<1> DEFINE n == Len(M)
           M2 == Append(M, s)
<1>1. /\ call[c].op = "mq" /\ call[c].at = "link" /\ Return(c)
      /\ next' = IF msg_queue_tail = Null THEN next ELSE [next EXCEPT ![msg_queue_tail] = s]
      /\ msg_queue_tail' = s /\ msg_count' = msg_count + 1
      /\ msg_queue_head' = IF msg_queue_head = Null THEN s ELSE msg_queue_head
      /\ UNCHANGED <<text, msg_queue_free, mq_got>>
  BY DEF Link, MqAt
<1>2. /\ s \in Slot /\ s \notin ToSet(F) /\ s \notin ToSet(M) /\ next[s] = Null /\ text[s] \in Mail
      /\ HandsOK(call', ToSet(F) \cup ToSet(M) \cup {s})
      /\ \A nx2 : (\A u \in Slot \ (ToSet(F) \cup ToSet(M) \cup {s}) : nx2[u] = next[u])
                           => PlacesOK(nx2, text, call')
  BY <1>1, GivesSlot
<1>3. /\ MqTypeOK /\ IsList(next, msg_queue_free, F) /\ IsList(next, msg_queue_head, M)
      /\ ToSet(F) \cap ToSet(M) = {} /\ msg_count = n
      /\ msg_queue_tail = IF n = 0 THEN Null ELSE M[n]
      /\ \A u \in ToSet(M) : text[u] \in Mail
  BY DEF MqState
<1>4. /\ M \in Seq(Slot) /\ n \in Nat /\ IsInjective(M) /\ DOMAIN M = 1..n
      /\ \A i \in 1..n : M[i] \in Slot /\ M[i] # Null /\ M[i] \in ToSet(M)
  BY <1>3, ListFacts
<1>5. /\ next' \in [Slot -> Pointer]
      /\ \A u \in Slot : next'[u] = IF n # 0 /\ u = M[n] THEN s ELSE next[u]
  BY <1>1, <1>2, <1>3, <1>4 DEF MqTypeOK, Pointer
<1>6. /\ next'[s] = Null
      /\ \A i \in 1..n : next'[M[i]] = IF i = n THEN s ELSE next[M[i]]
  <2>1. ASSUME NEW i \in 1..n, i # n PROVE M[i] # M[n]
    <3>1. n \in DOMAIN M /\ i \in DOMAIN M
      BY <1>4
    <3> QED  BY <1>4, <2>1, <3>1 DEF IsInjective
  <2>2. n # 0 => n \in 1..n /\ M[n] # s
    BY <1>2, <1>4
  <2> HIDE DEF n
  <2> QED  BY <1>2, <1>4, <1>5, <2>1, <2>2
<1>7. IsList(next', msg_queue_head', M2)
  <2>1. IsList(next', IF msg_queue_head = Null THEN s ELSE msg_queue_head, Append(M, s))
    BY <1>2, <1>3, <1>6, ListAppend
  <2> QED  BY <1>1, <2>1
<1>8. /\ ToSet(M2) = ToSet(M) \cup {s} /\ Len(M2) = n + 1 /\ M2[n + 1] = s
      /\ Len(M2) \in 0..Cardinality(Slot)
  <2>1. ToSet(M2) = ToSet(M) \cup {s}
    BY <1>2, <1>4, AppendSet
  <2>2. Len(M2) = n + 1 /\ M2[n + 1] = s
    BY <1>2, <1>4
  <2> QED  BY <1>7, <2>1, <2>2, ListLength
<1>9. \A u \in Slot \ ToSet(M) : next'[u] = next[u]
  BY <1>4, <1>5
<1>10. IsList(next', msg_queue_free', F)
  <2>1. \A u \in ToSet(F) : next'[u] = next[u]
    BY <1>3, <1>9, ListLength
  <2> QED  BY <1>1, <1>3, <2>1, ListFrame
<1> HIDE DEF M2
<1>11. /\ HandsOK(call', ToSet(F) \cup ToSet(M2)) /\ PlacesOK(next', text', call')
       /\ ToSet(F) \cap ToSet(M2) = {} /\ \A u \in ToSet(M2) : text'[u] \in Mail
  <2>1. ToSet(F) \cup ToSet(M2) = ToSet(F) \cup ToSet(M) \cup {s}
    BY <1>8
  <2>2. HandsOK(call', ToSet(F) \cup ToSet(M2))
    BY <1>2, <2>1
  <2>3. PlacesOK(next', text, call')
    BY <1>2, <1>9
  <2> QED  BY <1>1, <1>2, <1>3, <1>8, <2>2, <2>3
<1>12. MqTypeOK'
  BY <1>1, <1>2, <1>3, <1>5, <1>8 DEF MqTypeOK, Pointer
<1>13. /\ msg_count' = Len(M2)
       /\ msg_queue_tail' = IF Len(M2) = 0 THEN Null ELSE M2[Len(M2)]
  BY <1>1, <1>3, <1>4, <1>8
<1>14. MqState(F, M2)'
  BY <1>7, <1>10, <1>11, <1>12, <1>13 DEF MqState
<1> QED  BY <1>1, <1>2, <1>14 DEF M2

\* rt_mq_urgent links its slot at the head.
LEMMA LinkUrgentKept ==
    ASSUME CoreInv, NEW F, NEW M, MqState(F, M), NEW c \in Caller, LinkUrgent(c),
           NEW s, s = call[c].slot
    PROVE  /\ s \in Slot /\ text[s] \in Mail
           /\ MqState(F, <<s>> \o M)' /\ text' = text /\ mq_got' = mq_got
<1> DEFINE n == Len(M)
           M2 == <<s>> \o M
<1>1. /\ call[c].op = "mq" /\ call[c].at = "link_urgent" /\ Return(c)
      /\ next' = [next EXCEPT ![s] = msg_queue_head]
      /\ msg_queue_head' = s /\ msg_count' = msg_count + 1
      /\ msg_queue_tail' = IF msg_queue_tail = Null THEN s ELSE msg_queue_tail
      /\ UNCHANGED <<text, msg_queue_free, mq_got>>
  BY DEF LinkUrgent, MqAt
<1>2. /\ s \in Slot /\ s \notin ToSet(F) /\ s \notin ToSet(M) /\ text[s] \in Mail
      /\ HandsOK(call', ToSet(F) \cup ToSet(M) \cup {s})
      /\ \A nx2 : (\A u \in Slot \ (ToSet(F) \cup ToSet(M) \cup {s}) : nx2[u] = next[u])
                           => PlacesOK(nx2, text, call')
  BY <1>1, GivesSlot
<1>3. /\ MqTypeOK /\ IsList(next, msg_queue_free, F) /\ IsList(next, msg_queue_head, M)
      /\ ToSet(F) \cap ToSet(M) = {} /\ msg_count = n
      /\ msg_queue_tail = IF n = 0 THEN Null ELSE M[n]
      /\ \A u \in ToSet(M) : text[u] \in Mail
  BY DEF MqState
<1>4. /\ M \in Seq(Slot) /\ n \in Nat /\ \A i \in 1..n : M[i] \in Slot /\ M[i] # Null
      /\ ToSet(F) \subseteq Slot /\ ToSet(M) \subseteq Slot
  BY <1>3, ListFacts, ListLength
<1>5. /\ next' \in [Slot -> Pointer]
      /\ \A u \in Slot : next'[u] = IF u = s THEN msg_queue_head ELSE next[u]
  BY <1>1, <1>2, <1>3 DEF MqTypeOK
<1>6. /\ \A u \in ToSet(F) : next'[u] = next[u]
      /\ \A u \in ToSet(M) : next'[u] = next[u]
      /\ \A u \in Slot : u # s => next'[u] = next[u]
  BY <1>2, <1>4, <1>5
<1>7. IsList(next', msg_queue_head', M2)
  <2>1. IsList(next', s, <<s>> \o M)
    BY <1>2, <1>3, <1>5, <1>6, ListPush
  <2> QED  BY <1>1, <2>1
<1>8. /\ ToSet(M2) = ToSet(M) \cup {s} /\ Len(M2) = n + 1
      /\ Len(M2) \in 0..Cardinality(Slot) /\ M2[n + 1] = IF n = 0 THEN s ELSE M[n]
  <2>1. ToSet(M2) = ToSet(M) \cup {s} /\ Len(M2) = n + 1
    BY <1>2, <1>4, ConsSet
  <2>2. M2[n + 1] = IF n = 0 THEN s ELSE M[n]
    BY <1>2, <1>4
  <2> QED  BY <1>7, <2>1, <2>2, ListLength
<1>9. IsList(next', msg_queue_free', F)
  BY <1>1, <1>3, <1>6, ListFrame
<1> HIDE DEF M2
<1>10. /\ HandsOK(call', ToSet(F) \cup ToSet(M2)) /\ PlacesOK(next', text', call')
       /\ ToSet(F) \cap ToSet(M2) = {} /\ \A u \in ToSet(M2) : text'[u] \in Mail
  <2>1. ToSet(F) \cup ToSet(M2) = ToSet(F) \cup ToSet(M) \cup {s}
    BY <1>8
  <2>2. HandsOK(call', ToSet(F) \cup ToSet(M2))
    BY <1>2, <2>1
  <2>3. PlacesOK(next', text, call')
    BY <1>2, <1>6
  <2> QED  BY <1>1, <1>2, <1>3, <1>8, <2>2, <2>3
<1>11. /\ msg_count' = Len(M2)
       /\ msg_queue_tail' = IF Len(M2) = 0 THEN Null ELSE M2[Len(M2)]
  BY <1>1, <1>3, <1>4, <1>8
<1>12. MqTypeOK'
  BY <1>1, <1>2, <1>3, <1>5, <1>8 DEF MqTypeOK, Pointer
<1>13. MqState(F, M2)'
  BY <1>7, <1>9, <1>10, <1>11, <1>12 DEF MqState
<1> QED  BY <1>1, <1>2, <1>13 DEF M2

\* The end of rt_mq_recv puts the slot on the free list.
LEMMA FreeSlotKept ==
    ASSUME CoreInv, NEW F, NEW M, MqState(F, M), NEW c \in Caller, FreeSlot(c),
           NEW s, s = call[c].slot
    PROVE  MqState(<<s>> \o F, M)' /\ text' = text /\ mq_got' = mq_got
<1> DEFINE F2 == <<s>> \o F
<1>1. /\ call[c].op = "mq" /\ call[c].at = "free" /\ Return(c)
      /\ next' = [next EXCEPT ![s] = msg_queue_free] /\ msg_queue_free' = s
      /\ UNCHANGED <<text, msg_queue_head, msg_queue_tail, msg_count, mq_got>>
  BY DEF FreeSlot, MqAt
<1>2. /\ s \in Slot /\ s \notin ToSet(F) /\ s \notin ToSet(M)
      /\ HandsOK(call', ToSet(F) \cup ToSet(M) \cup {s})
      /\ \A nx2 : (\A u \in Slot \ (ToSet(F) \cup ToSet(M) \cup {s}) : nx2[u] = next[u])
                           => PlacesOK(nx2, text, call')
  BY <1>1, GivesSlot
<1>3. /\ MqTypeOK /\ IsList(next, msg_queue_free, F) /\ IsList(next, msg_queue_head, M)
      /\ ToSet(F) \cap ToSet(M) = {}
  BY DEF MqState
<1>4. F \in Seq(Slot) /\ ToSet(F) \subseteq Slot /\ ToSet(M) \subseteq Slot
  BY <1>3, ListFacts, ListLength
<1>5. /\ next' \in [Slot -> Pointer]
      /\ \A u \in Slot : next'[u] = IF u = s THEN msg_queue_free ELSE next[u]
  BY <1>1, <1>2, <1>3 DEF MqTypeOK
<1>6. /\ \A u \in ToSet(F) : next'[u] = next[u]
      /\ \A u \in ToSet(M) : next'[u] = next[u]
      /\ \A u \in Slot : u # s => next'[u] = next[u]
  BY <1>2, <1>4, <1>5
<1>7. IsList(next', msg_queue_free', F2) /\ IsList(next', msg_queue_head', M)
  <2>1. IsList(next', s, <<s>> \o F)
    BY <1>2, <1>3, <1>5, <1>6, ListPush
  <2>2. IsList(next', msg_queue_head, M)
    BY <1>3, <1>6, ListFrame
  <2> QED  BY <1>1, <2>1, <2>2
<1>8. ToSet(F2) = ToSet(F) \cup {s}
  BY <1>2, <1>4, ConsSet
<1> HIDE DEF F2
<1>9. ToSet(F2) \cup ToSet(M) = ToSet(F) \cup ToSet(M) \cup {s} /\ ToSet(F2) \cap ToSet(M) = {}
  BY <1>2, <1>3, <1>8
<1>10. HandsOK(call', ToSet(F2) \cup ToSet(M))
  BY <1>2, <1>9
<1>11. PlacesOK(next', text', call')
  BY <1>1, <1>2, <1>6
<1>12. MqTypeOK'
  BY <1>1, <1>2, <1>3, <1>5 DEF MqTypeOK, Pointer
<1>13. /\ msg_count' = Len(M) /\ \A u \in ToSet(M) : text'[u] \in Mail
       /\ msg_queue_tail' = IF Len(M) = 0 THEN Null ELSE M[Len(M)]
  BY <1>1 DEF MqState
<1>14. MqState(F2, M)'
  BY <1>7, <1>9, <1>10, <1>11, <1>12, <1>13 DEF MqState
<1> QED  BY <1>1, <1>14 DEF F2


\* rt_mq_recv unlinks the head.
LEMMA TakeKept ==
    ASSUME CoreInv, NEW F, NEW M, MqState(F, M), NEW c \in Caller, c \notin HoldersOf(call),
           msg_count > 0, Take(c)
    PROVE  /\ M # <<>> /\ Head(M) \in ToSet(M)
           /\ MqState(F, Tail(M))' /\ text' = text /\ mq_got' = text[Head(M)]
<1> DEFINE n == Len(M)
           h == msg_queue_head
           M2 == Tail(M)
           e == InCall("copy", h, text[h], "none")
           rest == ToSet(F) \cup ToSet(M)
<1>0. e.op = "mq" /\ e.at = "copy" /\ e.slot = h /\ e.mail = text[h]
  BY DEF InCall
<1>1. /\ msg_queue_head' = next[h]
      /\ msg_queue_tail' = IF msg_queue_tail = h THEN Null ELSE msg_queue_tail
      /\ msg_count' = msg_count - 1 /\ call' = [call EXCEPT ![c] = e] /\ mq_got' = text[h]
      /\ UNCHANGED <<next, text, msg_queue_free>>
  BY DEF Take
<1> HIDE DEF e
<1>2. /\ MqTypeOK /\ IsList(next, msg_queue_free, F) /\ IsList(next, h, M)
      /\ ToSet(F) \cap ToSet(M) = {} /\ msg_count = n
      /\ msg_queue_tail = IF n = 0 THEN Null ELSE M[n]
      /\ \A u \in ToSet(M) : text[u] \in Mail
      /\ HandsOK(call, rest) /\ PlacesOK(next, text, call)
  BY DEF MqState
<1>3. /\ M \in Seq(Slot) /\ n \in Nat /\ n # 0 /\ IsInjective(M) /\ DOMAIN M = 1..n
      /\ h = M[1] /\ h # Null
  <2>1. /\ M \in Seq(Slot) /\ n \in Nat /\ IsInjective(M) /\ DOMAIN M = 1..n
        /\ h = IF n = 0 THEN Null ELSE M[1]
        /\ \A i \in 1..n : M[i] # Null
    BY <1>2, ListFacts
  <2>2. n # 0 /\ 1 \in 1..n
    BY <1>2, <2>1
  <2> QED  BY <2>1, <2>2
<1>4. /\ IsList(next, next[h], M2) /\ h = Head(M) /\ h \in Slot /\ M # <<>> /\ h \in ToSet(M)
      /\ ToSet(M2) = ToSet(M) \ {h} /\ Len(M2) = n - 1
  BY <1>2, <1>3, ListPop
<1>5. /\ msg_count' = Len(M2)
      /\ msg_queue_tail' = IF Len(M2) = 0 THEN Null ELSE M2[Len(M2)]
  <2>1. CASE n = 1
    BY <1>1, <1>2, <1>3, <1>4, <2>1
  <2>2. CASE n # 1
    <3>1. n \in DOMAIN M /\ 1 \in DOMAIN M /\ n - 1 \in 1..n - 1 /\ n - 1 # 0
      BY <1>3, <2>2
    <3>2. M[n] # h
      BY <1>3, <2>2, <3>1 DEF IsInjective
    <3>3. M2[n - 1] = M[n]
      BY <1>3, <1>4, <3>1
    <3> QED  BY <1>1, <1>2, <1>3, <1>4, <3>1, <3>2, <3>3
  <2> QED  BY <2>1, <2>2
<1>6. Replaced(call, call', c, e)
  BY <1>1, SetsCall
<1>7. HandsOK(call', rest \ {h})
  <2>1. rest \subseteq Slot /\ e.slot \in rest
    BY <1>0, <1>2, <1>4, ListLength
  <2> HIDE DEF rest
  <2> QED  BY <1>0, <1>2, <1>6, <2>1, HandsGrow
<1>8. rest \ {h} = ToSet(F) \cup ToSet(M2) /\ ToSet(F) \cap ToSet(M2) = {}
  BY <1>2, <1>4
<1>9. PlacesOK(next', text', call')
  <2>1. PlaceOK(next, text, e)
    BY <1>0, <1>3 DEF PlaceOK
  <2>2. PlacesOK(next, text, call')
    BY <1>2, <1>6, <2>1, PlacesAfter
  <2> QED  BY <1>1, <2>2
<1>10. MqTypeOK'
  <2>1. next[h] \in Pointer /\ text[h] \in Mail /\ Null \in Pointer /\ Cardinality(Slot) \in Nat
    BY <1>2, <1>4, ListLength DEF MqTypeOK, Pointer
  <2>2. msg_count - 1 \in 0..Cardinality(Slot)
    BY <1>2, <1>3, <2>1 DEF MqTypeOK
  <2> QED  BY <1>1, <1>2, <2>1, <2>2 DEF MqTypeOK
<1> HIDE DEF rest
<1>11. /\ HandsOK(call', ToSet(F) \cup ToSet(M2)) /\ \A u \in ToSet(M2) : text'[u] \in Mail
       /\ IsList(next', msg_queue_head', M2) /\ IsList(next', msg_queue_free', F)
  BY <1>1, <1>2, <1>4, <1>7, <1>8
<1> HIDE DEF M2
<1>12. MqState(F, M2)'
  BY <1>5, <1>8, <1>9, <1>10, <1>11 DEF MqState
<1> QED  BY <1>1, <1>4, <1>12 DEF M2

\* A receiver begins to wait, or a call without a slot returns.
LEMMA WaitKept ==
    ASSUME CoreInv, NEW F, NEW M, MqState(F, M), NEW c \in Caller, c \notin HoldersOf(call),
           NEW e, e.op = "mq" => e.slot = Null /\ e.at = "wait",
           Replaced(call, call', c, e), UNCHANGED mqVars
    PROVE  MqState(F, M)'
<1>1. Replaced(call, call', c, e)
  OBVIOUS
<1>2. UNCHANGED <<next, text, msg_queue_head, msg_queue_tail, msg_queue_free, msg_count, mq_got>>
  BY DEF mqVars, links
<1>3. HandsOK(call', ToSet(F) \cup ToSet(M))
  <2>1. \A b : b \in HoldersOf(call') <=>
                 IF b = c THEN e.op = "mq" /\ e.slot # Null ELSE b \in HoldersOf(call)
    BY <1>1, HoldersAfter
  <2>2. HandsOK(call, ToSet(F) \cup ToSet(M))
    BY DEF MqState
  <2>3. ASSUME NEW b \in Caller
        PROVE  \/ b \notin HoldersOf(call) /\ b \notin HoldersOf(call')
               \/ /\ b \in HoldersOf(call) /\ b \in HoldersOf(call')
                  /\ call'[b].slot = call[b].slot
    BY <1>1, <2>1 DEF Replaced
  <2> QED  BY <2>2, <2>3, HandsStay
<1>4. PlacesOK(next, text, call')
  <2>1. e.op = "mq" => PlaceOK(next, text, e)
    BY DEF PlaceOK
  <2>2. PlacesOK(next, text, call)
    BY DEF MqState
  <2> QED  BY <1>1, <2>1, <2>2, PlacesAfter
<1> QED  BY <1>2, <1>3, <1>4 DEF MqState, MqTypeOK

\* The copy out of the slot.
LEMMA CopyKept ==
    ASSUME CoreInv, NEW F, NEW M, MqState(F, M), NEW c \in Caller, Copy(c)
    PROVE  MqState(F, M)'
<1>1. call[c].op = "mq" /\ call[c].at = "copy" /\ Goto(c, "free") /\ UNCHANGED mqVars
  BY DEF Copy, MqAt
<1>2. UNCHANGED <<next, text, msg_queue_head, msg_queue_tail, msg_queue_free, msg_count, mq_got>>
  BY <1>1 DEF mqVars, links
<1>3. PICK e : /\ Replaced(call, call', c, e)
               /\ e.op = "mq" /\ e.at = "free" /\ e.slot = call[c].slot /\ e.mail = call[c].mail
               /\ HandsOK(call', ToSet(F) \cup ToSet(M))
  BY <1>1, MovesOn
<1>4. PlacesOK(next, text, call')
  <2>0. PlacesOK(next, text, call)
    BY DEF MqState
  <2>1. PlaceOK(next, text, e)
    BY <1>1, <1>3, <2>0 DEF PlacesOK, PlaceOK
  <2> QED  BY <1>3, <2>0, <2>1, PlacesAfter
<1> QED  BY <1>2, <1>3, <1>4 DEF MqState, MqTypeOK

\* A reset moves all messages to the free list.
LEMMA ControlKept ==
    ASSUME NEW F, NEW M, MqState(F, M), rt_mq_control
    PROVE  (\E F2 : MqState(F2, <<>>)') /\ mq_got' = mq_got
<1> DEFINE n == Len(M)
           Below(s) == LET i == CHOOSE k \in 1..n : M[k] = s
                       IN  IF i = 1 THEN msg_queue_free ELSE M[i - 1]
<1>1. /\ MqTypeOK /\ IsList(next, msg_queue_free, F) /\ IsList(next, msg_queue_head, M)
      /\ ToSet(F) \cap ToSet(M) = {}
      /\ msg_queue_tail = IF n = 0 THEN Null ELSE M[n]
      /\ HandsOK(call, ToSet(F) \cup ToSet(M)) /\ PlacesOK(next, text, call)
  BY DEF MqState
<1>2. Chain(msg_queue_head) = M
  BY <1>1, Chains
<1>3. /\ M \in Seq(Slot) /\ n \in Nat /\ IsInjective(M) /\ DOMAIN M = 1..n
      /\ \A i \in 1..n : M[i] \in Slot /\ M[i] \in ToSet(M)
      /\ ToSet(F) \subseteq Slot /\ ToSet(M) \subseteq Slot
      /\ Null \notin ToSet(M)
  <2>1. /\ M \in Seq(Slot) /\ n \in Nat /\ IsInjective(M) /\ DOMAIN M = 1..n
        /\ \A i \in 1..n : M[i] \in Slot /\ M[i] \in ToSet(M)
    BY <1>1, ListFacts
  <2>2. ToSet(F) \subseteq Slot /\ ToSet(M) \subseteq Slot
    BY <1>1, ListLength
  <2> QED  BY <2>1, <2>2, SlotAssumption
<1>4. \A s : Contains(M, s) <=> s \in ToSet(M)
  BY <1>3, ContainsIsToSet
<1>5. /\ next' = [s \in Slot |-> IF Contains(M, s) THEN Below(s) ELSE next[s]]
      /\ msg_queue_free' = IF n = 0 THEN msg_queue_free ELSE M[n]
      /\ msg_queue_head' = Null
      /\ msg_queue_tail' = IF Contains(M, msg_queue_tail) THEN Null ELSE msg_queue_tail
      /\ msg_count' = 0 /\ UNCHANGED <<text, mq_got, call>>
  BY <1>2 DEF rt_mq_control
<1>6. ASSUME NEW i \in 1..n PROVE Below(M[i]) = IF i = 1 THEN msg_queue_free ELSE M[i - 1]
  <2>1. (CHOOSE k \in 1..n : M[k] = M[i]) = i
    BY <1>3 DEF IsInjective
  <2> QED  BY <2>1
<1> HIDE DEF Below
<1>7. /\ \A i \in 1..n : next'[M[i]] = IF i = 1 THEN msg_queue_free ELSE M[i - 1]
      /\ \A u \in Slot \ ToSet(M) : next'[u] = next[u]
  BY <1>3, <1>4, <1>5, <1>6
<1>8. PICK F2 : /\ IsList(next', IF n = 0 THEN msg_queue_free ELSE M[n], F2)
                /\ ToSet(F2) = ToSet(F) \cup ToSet(M)
  <2>1. \A u \in ToSet(F) : next'[u] = next[u]
    BY <1>1, <1>3, <1>7
  <2> QED  BY <1>1, <1>7, <2>1, ListMove
<1>9. msg_queue_tail' = Null
  BY <1>1, <1>3, <1>4, <1>5
<1>10. IsList(next', Null, <<>>) /\ ToSet(<<>>) = {} /\ Len(<<>>) = 0
  BY DEF IsList, ToSet, IsInjective
<1>11. next' \in [Slot -> Pointer]
  <2>1. ASSUME NEW u \in Slot PROVE next'[u] \in Pointer
    <3>1. CASE u \in ToSet(M)
      <4>1. PICK i \in 1..n : u = M[i]
        BY <1>3, <3>1 DEF ToSet
      <4>2. i # 1 => i - 1 \in 1..n
        BY <1>3
      <4>3. msg_queue_free \in Pointer
        BY <1>1 DEF MqTypeOK
      <4> QED  BY <1>3, <1>7, <4>1, <4>2, <4>3 DEF Pointer
    <3>2. CASE u \notin ToSet(M)
      BY <1>1, <1>7, <3>2 DEF MqTypeOK
    <3> QED  BY <3>1, <3>2
  <2> QED  BY <1>5, <2>1
<1>12. MqTypeOK'
  <2>1. msg_queue_free' \in Pointer
    BY <1>1, <1>3, <1>5 DEF MqTypeOK, Pointer
  <2>2. 0 \in 0..Cardinality(Slot) /\ Null \in Pointer
    BY <1>1, ListLength DEF Pointer
  <2> QED  BY <1>1, <1>5, <1>9, <1>11, <2>1, <2>2 DEF MqTypeOK
<1>13. HandsOK(call', ToSet(F2) \cup ToSet(<<>>))
  <2>1. ToSet(F2) \cup ToSet(<<>>) = ToSet(F) \cup ToSet(M)
    BY <1>8, <1>10
  <2> QED  BY <1>1, <1>5, <2>1
<1>14. PlacesOK(next', text', call')
  <2>1. ASSUME NEW c \in Caller, call[c].op = "mq" PROVE PlaceOK(next', text, call[c])
    <3>1. PlaceOK(next, text, call[c])
      BY <1>1, <2>1 DEF PlacesOK
    <3>2. call[c].slot # Null => call[c].slot \in Slot \ ToSet(M)
      BY <1>1, <2>1 DEF HandsOK, HoldersOf
    <3>3. call[c].slot # Null => next'[call[c].slot] = next[call[c].slot]
      BY <1>7, <3>2
    <3> QED  BY <3>1, <3>3 DEF PlaceOK
  <2> QED  BY <1>5, <2>1 DEF PlacesOK
<1>15. MqState(F2, <<>>)'
  BY <1>5, <1>8, <1>9, <1>10, <1>12, <1>13, <1>14 DEF MqState
<1> QED  BY <1>5, <1>15


-----------------------------------------------------------------------------
(* Every step: the lists of the next state, and what happens to the queue   *)
(* of the messages.                                                         *)

Texts(tx, l) == [i \in DOMAIN l |-> tx[l[i]]]

\* What a step of BoundedQueue, or a stutter, does to the queue q.
QueueStep(q, q2) ==
    \/ q2 = q /\ mq_got' = mq_got
    \/ /\ Len(q) < Cardinality(Slot) /\ mq_got' = mq_got
       /\ \E x \in Mail : q2 = Append(q, x) \/ q2 = <<x>> \o q
    \/ q # <<>> /\ mq_got' = Head(q) /\ q2 = Tail(q)
    \/ q2 = <<>> /\ mq_got' = mq_got

\* The messages of a list.
LEMMA TextsOf ==
    ASSUME NEW T, NEW tx \in [Slot -> T], NEW l \in Seq(Slot)
    PROVE  /\ Texts(tx, l) \in Seq(T) /\ Len(Texts(tx, l)) = Len(l)
           /\ Texts(tx, <<>>) = <<>>
           /\ \A s \in Slot : /\ Texts(tx, Append(l, s)) = Append(Texts(tx, l), tx[s])
                              /\ Texts(tx, <<s>> \o l) = <<tx[s]>> \o Texts(tx, l)
           /\ l # <<>> => /\ Texts(tx, l) # <<>> /\ Head(Texts(tx, l)) = tx[Head(l)]
                          /\ Texts(tx, Tail(l)) = Tail(Texts(tx, l))
<1> DEFINE n == Len(l)
           q == Texts(tx, l)
<1>0. n \in Nat /\ DOMAIN l = 1..n /\ \A i \in 1..n : l[i] \in Slot
  OBVIOUS
<1>1. q \in [1..n -> T] /\ \A i \in 1..n : q[i] = tx[l[i]]
  BY <1>0 DEF Texts
<1>2. q \in Seq(T) /\ Len(q) = n
  <2> HIDE DEF q
  <2> QED  BY <1>0, <1>1
<1>3. Texts(tx, <<>>) = <<>>
  BY DEF Texts
<1>4. ASSUME NEW s \in Slot PROVE Texts(tx, Append(l, s)) = Append(q, tx[s])
  <2> DEFINE r == Append(l, s)
             p == Append(q, tx[s])
  <2>1. /\ DOMAIN r = 1..n + 1 /\ \A i \in 1..n + 1 : r[i] = IF i <= n THEN l[i] ELSE s
    BY <1>0
  <2> HIDE DEF q
  <2>2. /\ DOMAIN p = 1..n + 1 /\ \A i \in 1..n + 1 : p[i] = IF i <= n THEN q[i] ELSE tx[s]
    BY <1>0, <1>2
  <2>3. p = [i \in 1..n + 1 |-> p[i]]
    BY <1>2, <2>2
  <2> HIDE DEF r, p
  <2>4. \A i \in 1..n + 1 : tx[r[i]] = p[i]
    BY <1>0, <1>1, <2>1, <2>2
  <2>5. Texts(tx, r) = p
    BY <2>1, <2>3, <2>4 DEF Texts
  <2> QED  BY <2>5 DEF r, p
<1>5. ASSUME NEW s \in Slot PROVE Texts(tx, <<s>> \o l) = <<tx[s]>> \o q
  <2> DEFINE r == <<s>> \o l
             p == <<tx[s]>> \o q
  <2>1. /\ DOMAIN r = 1..n + 1 /\ \A i \in 1..n + 1 : r[i] = IF i = 1 THEN s ELSE l[i - 1]
    BY <1>0
  <2> HIDE DEF q
  <2>2. /\ DOMAIN p = 1..n + 1 /\ \A i \in 1..n + 1 : p[i] = IF i = 1 THEN tx[s] ELSE q[i - 1]
    BY <1>0, <1>2
  <2>3. p = [i \in 1..n + 1 |-> p[i]]
    BY <1>2, <2>2
  <2> HIDE DEF r, p
  <2>4. \A i \in 1..n + 1 : tx[r[i]] = p[i]
    BY <1>0, <1>1, <2>1, <2>2
  <2>5. Texts(tx, r) = p
    BY <2>1, <2>3, <2>4 DEF Texts
  <2> QED  BY <2>5 DEF r, p
<1>6. ASSUME l # <<>> PROVE q # <<>> /\ Head(q) = tx[Head(l)] /\ Texts(tx, Tail(l)) = Tail(q)
  <2> DEFINE r == Tail(l)
             p == Tail(q)
  <2>0. n # 0
    BY <1>6
  <2>1. /\ DOMAIN r = 1..n - 1 /\ \A i \in 1..n - 1 : r[i] = l[i + 1]
    BY <1>0, <2>0
  <2> HIDE DEF q
  <2>2. /\ DOMAIN p = 1..n - 1 /\ \A i \in 1..n - 1 : p[i] = q[i + 1]
    BY <1>0, <1>2, <2>0
  <2>3. p = [i \in 1..n - 1 |-> p[i]]
    <3>1. p \in Seq(T)
      BY <1>0, <1>2, <2>0
    <3> HIDE DEF p
    <3> QED  BY <2>2, <3>1
  <2>4. q # <<>> /\ Head(q) = tx[Head(l)]
    BY <1>0, <1>1, <1>2, <2>0
  <2> HIDE DEF r, p
  <2>5. \A i \in 1..n - 1 : tx[r[i]] = p[i]
    BY <1>0, <1>1, <2>1, <2>2
  <2>6. Texts(tx, r) = p
    BY <2>1, <2>3, <2>5 DEF Texts
  <2> QED  BY <2>4, <2>6 DEF r, p
<1> QED  BY <1>2, <1>3, <1>4, <1>5, <1>6

\* The operations of rt_mq_*.
LEMMA MqStepKept ==
    ASSUME CoreInv, NEW F, NEW M, MqState(F, M), MqNext
    PROVE  \E F2, M2 : MqState(F2, M2)' /\ QueueStep(Texts(text, M), Texts(text', M2))
<1> DEFINE Goal == \E F2, M2 : MqState(F2, M2)' /\ QueueStep(Texts(text, M), Texts(text', M2))
           T == Mail \cup {NoMail}
<1>0. /\ M \in Seq(Slot) /\ text \in [Slot -> T] /\ M \in Seq(Slot) /\ Len(M) \in Nat
      /\ \A i \in DOMAIN M : M[i] \in ToSet(M)
  BY ListFacts DEF MqState, MqTypeOK
<1>1. ASSUME NEW F2, MqState(F2, M)', \A s \in ToSet(M) : text'[s] = text[s], mq_got' = mq_got
      PROVE  Goal
  <2>1. Texts(text', M) = Texts(text, M)
    BY <1>0, <1>1 DEF Texts
  <2> QED  BY <1>1, <2>1 DEF QueueStep
<1>2. ASSUME NEW s \in Slot, text[s] \in Mail, NEW M2, M2 = Append(M, s) \/ M2 = <<s>> \o M,
             MqState(F, M2)', text' = text, mq_got' = mq_got
      PROVE  Goal
  <2>1. /\ Texts(text, Append(M, s)) = Append(Texts(text, M), text[s])
        /\ Texts(text, <<s>> \o M) = <<text[s]>> \o Texts(text, M)
        /\ Len(Texts(text, M)) = Len(M)
    <3>1. /\ Texts(text, Append(M, s)) = Append(Texts(text, M), text[s])
          /\ Texts(text, <<s>> \o M) = <<text[s]>> \o Texts(text, M)
      BY <1>0, TextsOf, Zenon
    <3>2. Len(Texts(text, M)) = Len(M)
      BY <1>0, TextsOf, Zenon
    <3> QED  BY <3>1, <3>2, Zenon
  <2>2. IsList(next', msg_queue_head', M2)
    BY <1>2 DEF MqState
  <2>3. Len(M2) <= Cardinality(Slot) /\ Cardinality(Slot) \in Nat
    BY <2>2, ListLength
  <2>4. Len(M2) = Len(M) + 1
    BY <1>0, <1>2
  <2>5. Len(Texts(text, M)) < Cardinality(Slot)
    BY <1>0, <2>1, <2>3, <2>4
  <2>6. QueueStep(Texts(text, M), Texts(text, M2))
    BY <1>2, <2>1, <2>5 DEF QueueStep
  <2> QED  BY <1>2, <2>6
<1>3. ASSUME NEW c \in Caller, NEW m \in Mail, rt_mq_send(c, m) \/ rt_mq_urgent(c, m) PROVE Goal
  <2>1. PICK place \in {"fill", "fill_urgent"} : Alloc(c, m, place)
    BY <1>3 DEF rt_mq_send, rt_mq_urgent
  <2> QED  BY <1>1, <2>1, AllocKept
<1>4. ASSUME NEW c \in Caller, Fill(c) PROVE Goal
  BY <1>1, <1>4, FillKept
<1>5. ASSUME NEW c \in Caller, Link(c) \/ LinkUrgent(c) PROVE Goal
  <2> DEFINE s0 == call[c].slot
  <2>1. PICK s : s = s0
    OBVIOUS
  <2>2. CASE Link(c)
    BY <1>2, <2>1, <2>2, LinkKept
  <2>3. CASE LinkUrgent(c)
    BY <1>2, <2>1, <2>3, LinkUrgentKept
  <2> QED  BY <1>5, <2>2, <2>3
<1>6. ASSUME NEW c \in Caller, c \notin HoldersOf(call), NEW to, MqTryRecv(c, to) PROVE Goal
  <2>1. CASE msg_count > 0 /\ Take(c)
    <3>1. /\ M # <<>> /\ Head(M) \in ToSet(M)
          /\ MqState(F, Tail(M))' /\ text' = text /\ mq_got' = text[Head(M)]
      BY <1>6, <2>1, TakeKept
    <3>2. /\ Texts(text, M) # <<>> /\ Head(Texts(text, M)) = text[Head(M)]
          /\ Texts(text, Tail(M)) = Tail(Texts(text, M))
      BY <1>0, <3>1, TextsOf
    <3> QED  BY <3>1, <3>2 DEF QueueStep
  <2>2. ASSUME NEW e, e.op = "mq" => e.slot = Null /\ e.at = "wait",
               call' = [call EXCEPT ![c] = e], UNCHANGED mqVars
        PROVE  Goal
    <3>0. Replaced(call, call', c, e)
      BY <2>2, SetsCall
    <3>1. MqState(F, M)'
      BY <1>6, <2>2, <3>0, WaitKept
    <3> QED  BY <1>1, <2>2, <3>1 DEF mqVars
  <2>3. CASE call' = [call EXCEPT ![c] = InCall("wait", Null, NoMail, to)] /\ UNCHANGED mqVars
    <3> DEFINE e == InCall("wait", Null, NoMail, to)
    <3>1. e.op = "mq" => e.slot = Null /\ e.at = "wait"
      BY DEF InCall
    <3> HIDE DEF e
    <3> QED  BY <2>2, <2>3, <3>1 DEF e
  <2>4. CASE Return(c) /\ UNCHANGED mqVars
    BY <2>2, <2>4, IdleIsNoCall DEF Return
  <2> QED  BY <1>6, <2>1, <2>3, <2>4 DEF MqTryRecv
<1>7. ASSUME NEW c \in Caller, NEW to, rt_mq_recv(c, to) PROVE Goal
  <2>1. c \notin HoldersOf(call)
    BY <1>7, IdleIsNoCall DEF HoldersOf, rt_mq_recv, MqFree, Free
  <2> QED  BY <1>6, <1>7, <2>1 DEF rt_mq_recv
<1>8. ASSUME NEW c \in Caller, MqWokenRecv(c) PROVE Goal
  <2>1. call[c].op = "mq" /\ call[c].at = "wait"
    BY <1>8 DEF MqWokenRecv, MqAt
  <2>2. PlaceOK(next, text, call[c])
    BY <2>1 DEF MqState, PlacesOK
  <2>3. c \notin HoldersOf(call)
    BY <2>1, <2>2 DEF PlaceOK, HoldersOf
  <2>4. CASE Return(c) /\ UNCHANGED mqVars
    <3>0. Replaced(call, call', c, Idle)
      BY <2>4, SetsCall DEF Return
    <3>1. MqState(F, M)'
      BY <2>3, <2>4, <3>0, WaitKept, IdleIsNoCall
    <3> QED  BY <1>1, <2>4, <3>1 DEF mqVars
  <2> QED  BY <1>6, <1>8, <2>3, <2>4 DEF MqWokenRecv
<1>9. ASSUME NEW c \in Caller, Copy(c) PROVE Goal
  <2>1. MqState(F, M)' /\ UNCHANGED mqVars
    BY <1>9, CopyKept DEF Copy
  <2> QED  BY <1>1, <2>1 DEF mqVars
<1>10. ASSUME NEW c \in Caller, FreeSlot(c) PROVE Goal
  <2> DEFINE s0 == call[c].slot
  <2>1. PICK s : s = s0
    OBVIOUS
  <2>2. MqState(<<s>> \o F, M)' /\ text' = text /\ mq_got' = mq_got
    BY <1>10, <2>1, FreeSlotKept
  <2> QED  BY <1>1, <2>2
<1>11. ASSUME rt_mq_control PROVE Goal
  <2>1. PICK F2 : MqState(F2, <<>>)'
    BY <1>11, ControlKept
  <2>2. mq_got' = mq_got
    BY <1>11, ControlKept
  <2>3. Texts(text', <<>>) = <<>>
    BY DEF Texts
  <2> QED  BY <2>1, <2>2, <2>3 DEF QueueStep
<1> QED  BY <1>3, <1>4, <1>5, <1>7, <1>8, <1>9, <1>10, <1>11 DEF MqNext


\* The steps of others.
LEMMA SteadyKept ==
    ASSUME NEW F, NEW M, MqState(F, M), Steady, UNCHANGED mqVars
    PROVE  MqState(F, M)'
<1>1. UNCHANGED <<next, text, msg_queue_head, msg_queue_tail, msg_queue_free, msg_count, mq_got>>
  BY DEF mqVars, links
<1>2. HandsOK(call', ToSet(F) \cup ToSet(M))
  <2>1. HandsOK(call, ToSet(F) \cup ToSet(M))
    BY DEF MqState
  <2>2. ASSUME NEW c \in Caller
        PROVE  \/ c \notin HoldersOf(call) /\ c \notin HoldersOf(call')
               \/ /\ c \in HoldersOf(call) /\ c \in HoldersOf(call')
                  /\ call'[c].slot = call[c].slot
    BY DEF Steady, HoldersOf
  <2> QED  BY <2>1, <2>2, HandsStay
<1>3. PlacesOK(next, text, call')
  BY DEF MqState, PlacesOK, Steady
<1> QED  BY <1>1, <1>2, <1>3 DEF MqState, MqTypeOK

\* rt_mq_init: all slots are free.
LEMMA MqInitKept ==
    ASSUME Init
    PROVE  \E F : MqState(F, <<>>)
<1> DEFINE pool == SetToSeq(Slot)
           n == Len(pool)
           Index(s) == CHOOSE k \in 1..n : pool[k] = s
           nx0 == [s \in Slot |-> IF Index(s) = n THEN Null ELSE pool[Index(s) + 1]]
<1>1. /\ next = [s \in Slot |-> IF Index(s) = 1 THEN Null ELSE pool[Index(s) - 1]]
      /\ msg_queue_head = Null /\ msg_queue_tail = Null /\ msg_queue_free = pool[n]
      /\ msg_count = 0 /\ text = [s \in Slot |-> NoMail] /\ mq_got = NoMail
  BY DEF Init, MqInit
<1>2. \A c \in Caller : call[c] = Idle
  BY DEF Init, WaitsInit
<1>3. /\ pool \in Seq(Slot) /\ n = Cardinality(Slot) /\ IsInjective(pool) /\ ToSet(pool) = Slot
  BY SlotAssumption, SetToSeqProperties
<1> HIDE DEF pool
<1>4. n \in Nat /\ n # 0 /\ DOMAIN pool = 1..n /\ \A i \in 1..n : pool[i] \in Slot
  <2>1. n \in Nat /\ DOMAIN pool = 1..n /\ \A i \in 1..n : pool[i] \in Slot
    BY <1>3
  <2>2. ASSUME n = 0 PROVE FALSE
    BY <1>3, <2>1, <2>2, SlotAssumption DEF ToSet
  <2> QED  BY <2>1, <2>2
<1>5. \A s \in Slot : Index(s) \in 1..n /\ pool[Index(s)] = s
  BY <1>3, <1>4 DEF ToSet
<1>6. \A i \in 1..n : Index(pool[i]) = i
  <2> HIDE DEF Index
  <2> QED  BY <1>3, <1>4, <1>5 DEF IsInjective
<1> HIDE DEF Index
<1>7. IsList(nx0, pool[1], pool)
  <2>1. \A i \in 1..n : nx0[pool[i]] = IF i = n THEN Null ELSE pool[i + 1]
    BY <1>4, <1>6
  <2>2. pool # <<>>
    BY <1>4
  <2> HIDE DEF nx0
  <2> QED  BY <1>3, <2>1, <2>2 DEF IsList
<1>8. IsList(nx0, Null, <<>>) /\ ToSet(<<>>) = {} /\ Len(<<>>) = 0
  BY DEF IsList, ToSet, IsInjective
<1> HIDE DEF nx0
<1>9. \A i \in 1..n : next[pool[i]] = IF i = 1 THEN Null ELSE pool[i - 1]
  BY <1>1, <1>4, <1>6
<1>10. PICK F : IsList(next, pool[n], F) /\ ToSet(F) = Slot
  <2>1. \E r : /\ IsList(next, IF Len(pool) = 0 THEN Null ELSE pool[Len(pool)], r)
               /\ ToSet(r) = ToSet(<<>>) \cup ToSet(pool)
    BY <1>7, <1>8, <1>9, ListMove
  <2> QED  BY <1>3, <1>4, <1>8, <2>1
<1>11. MqTypeOK
  <2>1. \A s \in Slot : Index(s) # 1 => Index(s) - 1 \in 1..n
    BY <1>4, <1>5
  <2>2. next \in [Slot -> Pointer]
    BY <1>1, <1>4, <2>1 DEF Pointer
  <2>3. pool[n] \in Slot /\ 0 \in 0..Cardinality(Slot)
    BY <1>3, <1>4
  <2> QED  BY <1>1, <2>2, <2>3 DEF MqTypeOK, Pointer
<1>12. HandsOK(call, Slot) /\ PlacesOK(next, text, call)
  BY <1>2, IdleIsNoCall DEF HandsOK, HoldersOf, PlacesOK
<1>13. IsList(next, Null, <<>>)
  BY DEF IsList, IsInjective
<1>14. HandsOK(call, ToSet(F) \cup ToSet(<<>>)) /\ ToSet(F) \cap ToSet(<<>>) = {}
  <2>1. ToSet(F) \cup ToSet(<<>>) = Slot
    BY <1>8, <1>10
  <2> QED  BY <1>8, <1>12, <2>1
<1>15. MqState(F, <<>>)
  BY <1>1, <1>8, <1>10, <1>11, <1>12, <1>13, <1>14 DEF MqState
<1> QED  BY <1>15

-----------------------------------------------------------------------------

\* Every step keeps the lists.
LEMMA MqKept ==
    ASSUME CoreInv, NEW F, NEW M, MqState(F, M), [Next]_vars
    PROVE  \E F2, M2 : MqState(F2, M2)' /\ QueueStep(Texts(text, M), Texts(text', M2))
<1>1. CASE MessageQueueStep
  BY <1>1, MqStepKept DEF MessageQueueStep
<1>2. CASE ~MessageQueueStep
  <2>1. Steady /\ UNCHANGED mqVars
    BY <1>2, ForeignSteps
  <2>2. MqState(F, M)' /\ text' = text /\ mq_got' = mq_got
    BY <2>1, SteadyKept DEF mqVars
  <2>3. QueueStep(Texts(text, M), Texts(text', M))
    BY <2>2 DEF QueueStep
  <2> QED  BY <2>2, <2>3
<1> QED  BY <1>1, <1>2

\* The pointers of a message queue make a free list and a message list, and the
\* calls hold the other slots, for any pool, threads and handlers: rt_mq_send,
\* rt_mq_urgent, rt_mq_recv and rt_mq_control may interleave between their
\* sections as they like.
THEOREM MessageListsInvariance == Spec => [](CoreInv /\ MqInv)
<1>1. Init => MqInv
  BY MqInitKept DEF MqInv
<1>2. CoreInv /\ MqInv /\ [Next]_vars => MqInv'
  BY MqKept DEF MqInv
<1> QED  BY <1>1, <1>2, CoreInvariance, PTL DEF Spec

\* As many calls hold a slot as slots are in no list.
LEMMA HoldersCount ==
    ASSUME NEW F, NEW M, MqState(F, M)
    PROVE  /\ ToSet(F) \cup ToSet(M) \cup InHand = Slot
           /\ Len(F) + Len(M) + Cardinality(Holders) = Cardinality(Slot)
<1> DEFINE rest == ToSet(F) \cup ToSet(M)
           free == Slot \ rest
           f == [c \in Holders |-> call[c].slot]
<1>1. Holders = HoldersOf(call) /\ HandsOK(call, rest)
  BY DEF Holders, HoldersOf, MqState
<1>2. /\ ToSet(F) \subseteq Slot /\ IsFiniteSet(ToSet(F)) /\ Cardinality(ToSet(F)) = Len(F)
      /\ ToSet(M) \subseteq Slot /\ IsFiniteSet(ToSet(M)) /\ Cardinality(ToSet(M)) = Len(M)
      /\ ToSet(F) \cap ToSet(M) = {} /\ Len(F) \in Nat /\ Len(M) \in Nat
      /\ Cardinality(Slot) \in Nat
  BY ListLength DEF MqState
<1>3. IsFiniteSet(rest) /\ Cardinality(rest) = Len(F) + Len(M)
  <2>1. Cardinality(ToSet(F) \cap ToSet(M)) = 0
    BY <1>2, FS_EmptySet
  <2>2. /\ IsFiniteSet(ToSet(F) \cup ToSet(M))
        /\ Cardinality(ToSet(F) \cup ToSet(M))
              = Cardinality(ToSet(F)) + Cardinality(ToSet(M)) - Cardinality(ToSet(F) \cap ToSet(M))
    BY <1>2, FS_Union, Zenon
  <2> QED  BY <1>2, <2>1, <2>2
<1>4. IsFiniteSet(free) /\ Cardinality(free) = Cardinality(Slot) - Cardinality(rest)
  <2>1. Slot \cap rest = rest
    BY <1>2
  <2> HIDE DEF rest
  <2> QED  BY <2>1, SlotAssumption, FS_Difference
<1> HIDE DEF rest
<1>5. /\ f \in [Holders -> free]
      /\ \A b, c \in Holders : f[b] = f[c] => b = c
      /\ \A s \in free : \E c \in Holders : f[c] = s
  BY <1>1 DEF HandsOK
<1>6. InHand = free
  BY <1>1 DEF InHand, HandsOK
<1> HIDE DEF f, free
<1>7. f \in Injection(Holders, free) /\ f \in Surjection(Holders, free)
  BY <1>5 DEF Injection, Surjection, IsInjective
<1>8. Cardinality(Holders) = Cardinality(free)
  BY <1>4, <1>7, FS_Injection
<1>9. rest \cup free = Slot
  BY <1>2 DEF rest, free
<1> QED  BY <1>2, <1>3, <1>4, <1>6, <1>8, <1>9 DEF rest

\* However the sections of rt_mq_send, rt_mq_urgent, rt_mq_recv and rt_mq_control
\* interleave, the lists stay lists, no slot is lost or shared, and what a
\* receiver copies is what was sent.
THEOREM SlotsConservedInvariance == Spec => []SlotsConserved
<1>1. ASSUME NEW F, NEW M, MqState(F, M) PROVE SlotsConserved
  <2>1. Chain(msg_queue_free) = F /\ Chain(msg_queue_head) = M
    BY <1>1, Chains DEF MqState
  <2>2. M \in Seq(Slot) /\ (M = <<>> <=> Len(M) = 0)
    BY <1>1, ListFacts DEF MqState
  <2>3. ListConsistent
    BY <1>1, <2>1, <2>2 DEF ListConsistent, MqState, Last
  <2>4. SlotsOnce
    BY <1>1, <2>1, HoldersCount DEF SlotsOnce
  <2>5. MessageIntact
    BY <1>1 DEF MessageIntact, Holders, MqState, PlacesOK, PlaceOK
  <2> QED  BY <2>3, <2>4, <2>5 DEF SlotsConserved
<1>2. MqInv => SlotsConserved
  BY <1>1 DEF MqInv
<1> QED  BY <1>2, MessageListsInvariance, PTL

\* The messages of the list, from head to tail, are the queue of BoundedQueue.
Messages == [i \in DOMAIN Chain(msg_queue_head) |-> text[Chain(msg_queue_head)[i]]]

\* The messages, from head to tail, implement the bounded queue: Link is its
\* Send, LinkUrgent its Urgent, Take its Receive, rt_mq_control its Reset.
THEOREM MessageQueueRefinesQueue == Spec => MessagesAreQueue
<1>1. Init => MqQ!Init
  <2> SUFFICES ASSUME Init PROVE MqQ!Init
    OBVIOUS
  <2>1. PICK F : MqState(F, <<>>)
    BY MqInitKept
  <2>2. Chain(msg_queue_head) = <<>>
    BY <2>1, Chains DEF MqState
  <2>3. Messages = <<>> /\ mq_got = NoMail
    BY <2>2 DEF Messages, Init, MqInit
  <2> QED  BY <2>3 DEF MqQ!Init, Messages
<1>2. CoreInv /\ MqInv /\ [Next]_vars => [MqQ!Next]_<<Messages, mq_got>>
  <2> SUFFICES ASSUME CoreInv, MqInv, [Next]_vars
               PROVE  MqQ!Next \/ (Messages' = Messages /\ mq_got' = mq_got)
    OBVIOUS
  <2>1. PICK F, M : MqState(F, M)
    BY DEF MqInv
  <2>2. PICK F2, M2 : MqState(F2, M2)' /\ QueueStep(Texts(text, M), Texts(text', M2))
    BY <2>1, MqKept
  <2>3. Chain(msg_queue_head) = M /\ Chain(msg_queue_head)' = M2
    <3>1. IsList(next, msg_queue_head, M) /\ IsList(next', msg_queue_head', M2)
      BY <2>1, <2>2 DEF MqState
    <3> QED  BY <3>1, Chains
  <2>4. Messages = Texts(text, M) /\ Messages' = Texts(text', M2)
    BY <2>3 DEF Messages, Texts
  <2>5. QueueStep(Messages, Messages')
    BY <2>2, <2>4
  <2>6. ASSUME NEW x \in Mail, Len(Messages) < Cardinality(Slot), mq_got' = mq_got,
               Messages' = Append(Messages, x) \/ Messages' = <<x>> \o Messages
        PROVE  MqQ!Next
    BY <2>6 DEF MqQ!Next, MqQ!Send, MqQ!Urgent, Messages
  <2>7. ASSUME Messages # <<>>, mq_got' = Head(Messages), Messages' = Tail(Messages)
        PROVE  MqQ!Next
    BY <2>7 DEF MqQ!Next, MqQ!Receive, Messages
  <2>8. ASSUME Messages' = <<>>, mq_got' = mq_got PROVE MqQ!Next
    BY <2>8 DEF MqQ!Next, MqQ!Reset, Messages
  <2> QED  BY <2>5, <2>6, <2>7, <2>8 DEF QueueStep
<1> QED  BY <1>1, <1>2, MessageListsInvariance, PTL DEF MessagesAreQueue, MqQ!Spec, Spec, Messages

=============================================================================
