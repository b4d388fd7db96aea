-------------------------- MODULE SchedulerProofs --------------------------
(***************************************************************************)
(* Proofs about ContextSwitch and Scheduler, for any set of threads, any   *)
(* priorities, any nesting of handlers and any applications of the kind    *)
(* SafeApps describes.                                                     *)
(*                                                                         *)
(* SchedInv is inductive.  Its heart is KernelInv, on the kernel record    *)
(* alone: the control block of each thread agrees with the lists the       *)
(* thread is on.  A section of a thread operation moves one thread, so     *)
(* each has a lemma that says whom it moves and what becomes of that one;  *)
(* KernelKept takes care of the others.  HandsInv says that nobody else    *)
(* gets hold of a thread between the sections of rt_thread_startup and     *)
(* rt_thread_delete, and HighestInv that a rt_schedule is still to come    *)
(* whenever the running thread is not the one it would pick.               *)
(***************************************************************************)
EXTENDS Scheduler, ListLemmas

-----------------------------------------------------------------------------
(* The kernel record.                                                       *)

\* A thread control block, and the kernel record.
Tcb == [stat : Stat, prio : Prio, init : Prio, mask : SUBSET Prio, timer : BOOLEAN]

Kernel == [app : Apps, thr : [Thread -> Tcb], ready : [Prio -> Seq(Thread)], group : SUBSET Prio,
           waiting : SUBSET Thread, defunct : Seq(Thread), freed : SUBSET Dynamic]

\* t is on a ready list.
InReady(s, t) == \E p \in Prio : t \in ToSet(s.ready[p])

\* No list has a thread twice, and the bits are those of the lists with threads.
Table(s) ==
    /\ s \in Kernel
    /\ IsInjective(s.defunct)
    /\ \A p \in Prio : IsInjective(s.ready[p])
    /\ \A p \in Prio : p \in s.group <=> s.ready[p] # <<>>

\* The control block of t agrees with the lists it is on.
ThreadOK(s, t) ==
    /\ \A p \in Prio : t \in ToSet(s.ready[p]) => s.thr[t].stat = "READY" /\ s.thr[t].prio = p
    /\ t \in s.waiting => s.thr[t].stat = "SUSPEND"
    /\ t \in ToSet(s.defunct) => s.thr[t].stat = "CLOSE"
    /\ s.thr[t].timer => s.thr[t].stat = "SUSPEND"
    /\ s.thr[t].stat \in {"READY", "SUSPEND"} => s.thr[t].mask = {s.thr[t].prio}
    /\ t \in s.freed => s.thr[t].stat = "CLOSE" /\ t \notin ToSet(s.defunct)

\* The lists and the control blocks tell the same story.
KernelInv(s) == Table(s) /\ \A t \in Thread : ThreadOK(s, t)

\* In no list, and no timer to bring it back.
Loose(s, u) == ~InReady(s, u) /\ u \notin s.waiting /\ ~s.thr[u].timer

\* Who is in the middle of a call, and on whom.
HandOK(x) ==
    LET u == pc[x].arg
    IN  /\ pc[x].at \in {"user", "sched"} <=> u = NoThread
        /\ u # NoThread => u \in Thread /\ InReady(k, x)
        /\ pc[x].at \in {"unlink", "insert"} => k.thr[u].stat = "SUSPEND" /\ Loose(k, u)
        /\ pc[x].at \in {"timer", "close"} =>
              k.thr[u].stat \in {"READY", "SUSPEND"} /\ Loose(k, u)
        /\ pc[x].at = "free" =>
              u \in Dynamic /\ k.thr[u].stat = "CLOSE" /\ u \notin ToSet(k.defunct)

\* Nobody else is in a call on the same thread.
HandsInv ==
    /\ pc \in [Thread -> [at : Step \ {"suspend"}, arg : Pointer]]
    /\ \A x \in Thread : HandOK(x)
    /\ \A x, y \in Thread : pc[x].arg = pc[y].arg /\ pc[x].arg # NoThread => x = y

\* A thread that is READY is on a ready list, or about to be closed.
ReadyInv ==
    \A t \in Thread : k.thr[t].stat = "READY" =>
        InReady(k, t) \/ \E x \in Thread : pc[x].at \in {"timer", "close"} /\ pc[x].arg = t

\* Neither the running thread nor one whose registers are in the CPU.
Off(u) == u # current /\ u # cpu

\* x is deleting or freeing a thread.
Ending(x) == pc[x].at \in {"timer", "close", "free"}

\* A thread that is freed, or being deleted or freed, is off the CPU.
OffInv ==
    /\ \A t \in k.freed : Off(t)
    /\ \A x \in Thread : Ending(x) => Off(pc[x].arg)

\* rt_current_thread is ready, or blocked or ended and about to call rt_schedule.
CurrentInv ==
    current # NoThread =>
        \/ InReady(k, current)
        \/ ~flag /\ lock = 0 /\ pc[current].at = "sched"

\* rt_current_thread has the highest priority of the ready threads.
Highest == InReady(k, current) /\ \A t \in Thread : InReady(k, t) => k.thr[current].prio <= k.thr[t].prio

\* It has, unless a rt_schedule is still to come.
HighestInv ==
    current # NoThread /\ lock = 0 /\ ~owed =>
        \/ Highest
        \/ ~flag /\ pc[current].at = "sched"
        \/ \E i \in DOMAIN isr : isr[i] = "sched"

\* The counters; the idle thread is always ready; a locked scheduler has no switch
\* recorded.
ControlInv ==
    /\ lock \in Nat /\ lock <= k.app.lock
    /\ isr \in Seq({"body", "sched", "done"}) /\ Len(isr) = nest
    /\ owed \in BOOLEAN
    /\ InReady(k, Idle)
    /\ current = NoThread => nest = 0 /\ lock = 0
    /\ lock > 0 => ~flag

\* The inductive invariant.
SchedInv ==
    /\ CtxInv /\ KernelInv(k) /\ HandsInv /\ ReadyInv /\ OffInv /\ CurrentInv /\ HighestInv
    /\ ControlInv

\* The applications the theorems are about: they do not suspend or resume other
\* threads (two sections with a check before, which a timeout can overtake), and
\* delete no thread that is in a call of its own, has a timer running (the run
\* delete_sleeping shows what happens then) or was never started.
SafeApps ==
    \A a \in Apps : a.calls \cap {"suspend", "resume", "delete_busy", "delete_timed", "delete_init"} = {}

-----------------------------------------------------------------------------
(* What the operators on the kernel record do to one thread.                *)

\* From s to r nothing happens but to t.
Moved(s, r, t) ==
    /\ r.app = s.app /\ r.freed = s.freed
    /\ \A u \in Thread : u # t =>
          /\ r.thr[u] = s.thr[u]
          /\ u \in r.waiting <=> u \in s.waiting
          /\ u \in ToSet(r.defunct) <=> u \in ToSet(s.defunct)
          /\ \A p \in Prio : u \in ToSet(r.ready[p]) <=> u \in ToSet(s.ready[p])

\* t is in no list.
Nowhere(s, t) == ~InReady(s, t) /\ t \notin s.waiting /\ t \notin ToSet(s.defunct)

\* What is in a kernel record.
LEMMA KernelFields ==
    ASSUME NEW s \in Kernel
    PROVE  /\ s.app \in Apps /\ s.thr \in [Thread -> Tcb] /\ s.ready \in [Prio -> Seq(Thread)]
           /\ s.group \in SUBSET Prio /\ s.waiting \in SUBSET Thread /\ s.defunct \in Seq(Thread)
           /\ s.freed \in SUBSET Dynamic
           /\ \A p \in Prio : s.ready[p] \in Seq(Thread)
<1>1. /\ s.app \in Apps /\ s.thr \in [Thread -> Tcb] /\ s.ready \in [Prio -> Seq(Thread)]
      /\ s.group \in SUBSET Prio /\ s.waiting \in SUBSET Thread /\ s.defunct \in Seq(Thread)
      /\ s.freed \in SUBSET Dynamic
  BY DEF Kernel
<1> QED  BY <1>1

\* What happened to t alone, twice.
LEMMA MovedTrans ==
    ASSUME NEW s, NEW r, NEW q, NEW t, Moved(s, r, t), Moved(r, q, t)
    PROVE  Moved(s, q, t)
BY DEF Moved

\* The ready lists of the threads that did not move.
LEMMA MovedReady ==
    ASSUME NEW s, NEW r, NEW t, Moved(s, r, t), NEW u \in Thread, u # t
    PROVE  InReady(r, u) <=> InReady(s, u)
BY DEF Moved, InReady

\* Who did not move stays consistent; what remains to be shown is about the one who did.
LEMMA KernelKept ==
    ASSUME NEW s, NEW r, NEW t \in Thread, KernelInv(s), Moved(s, r, t), Table(r), ThreadOK(r, t)
    PROVE  KernelInv(r)
<1> SUFFICES ASSUME NEW u \in Thread, u # t PROVE ThreadOK(r, u)
  BY DEF KernelInv
<1>1. ThreadOK(s, u)
  BY DEF KernelInv
<1> QED  BY <1>1 DEF ThreadOK, Moved

\* rt_list_remove.
LEMMA UnlinkFields ==
    ASSUME NEW s \in Kernel, NEW t
    PROVE  LET r == Unlink(s, t)
           IN  /\ r \in Kernel /\ r.app = s.app /\ r.thr = s.thr /\ r.group = s.group
               /\ r.freed = s.freed /\ r.waiting = s.waiting \ {t}
               /\ r.defunct = RemoveFirst(s.defunct, t)
               /\ \A p \in Prio : r.ready[p] = RemoveFirst(s.ready[p], t)
<1> DEFINE r == Unlink(s, t)
           ready == [p \in Prio |-> RemoveFirst(s.ready[p], t)]
<1>1. ready \in [Prio -> Seq(Thread)] /\ RemoveFirst(s.defunct, t) \in Seq(Thread)
  BY KernelFields, RemoveFirstProperties
<1>2. r = [s EXCEPT !.ready = ready, !.waiting = s.waiting \ {t},
                    !.defunct = RemoveFirst(s.defunct, t)]
  BY DEF Unlink, Kernel
<1> HIDE DEF ready, r
<1>3. /\ r.app = s.app /\ r.thr = s.thr /\ r.group = s.group
      /\ r.freed = s.freed /\ r.waiting = s.waiting \ {t}
      /\ r.defunct = RemoveFirst(s.defunct, t) /\ r.ready = ready
  BY <1>2 DEF Kernel
<1>4. r = [app |-> s.app, thr |-> s.thr, ready |-> ready, group |-> s.group,
           waiting |-> s.waiting \ {t}, defunct |-> RemoveFirst(s.defunct, t), freed |-> s.freed]
  BY <1>2 DEF Kernel
<1>5. r \in Kernel
  BY <1>1, <1>4, KernelFields DEF Kernel
<1> QED  BY <1>3, <1>5 DEF r, ready

\* Who is in the lists afterwards.
LEMMA UnlinkLists ==
    ASSUME NEW s, Table(s), NEW t \in Thread
    PROVE  LET r == Unlink(s, t)
           IN  /\ \A p \in Prio : IsInjective(r.ready[p]) /\ ToSet(r.ready[p]) = ToSet(s.ready[p]) \ {t}
               /\ IsInjective(r.defunct) /\ ToSet(r.defunct) = ToSet(s.defunct) \ {t}
               /\ Nowhere(r, t) /\ Moved(s, r, t)
<1> DEFINE r == Unlink(s, t)
<1>0. s \in Kernel /\ s.defunct \in Seq(Thread) /\ \A p \in Prio : s.ready[p] \in Seq(Thread)
  BY KernelFields DEF Table
<1>1. /\ r \in Kernel /\ r.app = s.app /\ r.thr = s.thr /\ r.group = s.group
      /\ r.freed = s.freed /\ r.waiting = s.waiting \ {t}
      /\ r.defunct = RemoveFirst(s.defunct, t)
      /\ \A p \in Prio : r.ready[p] = RemoveFirst(s.ready[p], t)
  BY <1>0, UnlinkFields
<1> HIDE DEF r
<1>2. IsInjective(r.defunct) /\ ToSet(r.defunct) = ToSet(s.defunct) \ {t}
  <2>1. IsInjective(s.defunct)
    BY DEF Table
  <2> QED  BY <1>0, <1>1, <2>1, RemoveFirstProperties
<1>3. ASSUME NEW p \in Prio
      PROVE  IsInjective(r.ready[p]) /\ ToSet(r.ready[p]) = ToSet(s.ready[p]) \ {t}
  <2>1. IsInjective(s.ready[p])
    BY DEF Table
  <2> QED  BY <1>0, <1>1, <2>1, RemoveFirstProperties
<1>4. Nowhere(r, t)
  BY <1>1, <1>2, <1>3 DEF Nowhere, InReady
<1>5. Moved(s, r, t)
  BY <1>1, <1>2, <1>3 DEF Moved
<1> QED  BY <1>2, <1>3, <1>4, <1>5 DEF r

\* A change of the control block of t only.
WithTcb(s, t, e) == [s EXCEPT !.thr[t] = e]

\* It moves nobody in the lists.
LEMMA TcbMoves ==
    ASSUME NEW s, Table(s), NEW t \in Thread, NEW e \in Tcb
    PROVE  LET r == WithTcb(s, t, e)
           IN  /\ Table(r) /\ Moved(s, r, t) /\ r.thr[t] = e /\ r.ready = s.ready
               /\ r.waiting = s.waiting /\ r.defunct = s.defunct /\ r.group = s.group
<1> DEFINE r == WithTcb(s, t, e)
<1>0. s \in Kernel /\ s.thr \in [Thread -> Tcb]
  BY KernelFields DEF Table
<1>1. /\ r.app = s.app /\ r.freed = s.freed /\ r.thr = [s.thr EXCEPT ![t] = e]
      /\ r.ready = s.ready /\ r.waiting = s.waiting /\ r.defunct = s.defunct /\ r.group = s.group
  BY <1>0 DEF WithTcb, Kernel
<1>2. r.thr \in [Thread -> Tcb] /\ r.thr[t] = e /\ \A u \in Thread : u # t => r.thr[u] = s.thr[u]
  BY <1>0, <1>1
<1>3. r \in Kernel
  <2>0. PICK th : th = [s.thr EXCEPT ![t] = e]
    OBVIOUS
  <2>1. r = [s EXCEPT !.thr = th] /\ th \in [Thread -> Tcb]
    BY <1>1, <1>2, <2>0 DEF WithTcb
  <2> HIDE DEF r
  <2>2. r = [app |-> s.app, thr |-> th, ready |-> s.ready, group |-> s.group,
             waiting |-> s.waiting, defunct |-> s.defunct, freed |-> s.freed]
    BY <1>0, <2>1 DEF Kernel
  <2> QED  BY <1>0, <2>1, <2>2, KernelFields DEF Kernel
<1> HIDE DEF r
<1>4. Table(r)
  BY <1>1, <1>3 DEF Table
<1>5. Moved(s, r, t)
  BY <1>1, <1>2 DEF Moved
<1> QED  BY <1>1, <1>2, <1>4, <1>5 DEF r

\* Without its members, a list is empty.
LEMMA EmptyIsNobody ==
    ASSUME NEW S, NEW l \in Seq(S)
    PROVE  l = <<>> <=> \A x : x \notin ToSet(l)
<1>1. ASSUME l # <<>> PROVE l[1] \in ToSet(l)
  BY <1>1 DEF ToSet
<1>2. \A x : x \notin ToSet(<<>>)
  BY DEF ToSet
<1> QED  BY <1>1, <1>2

\* rt_list_remove on a thread that is on no ready list.
LEMMA UnlinkMoves ==
    ASSUME NEW s, Table(s), NEW t \in Thread, ~InReady(s, t)
    PROVE  LET r == Unlink(s, t)
           IN  Table(r) /\ Moved(s, r, t) /\ Nowhere(r, t) /\ r.thr = s.thr
<1> DEFINE r == Unlink(s, t)
<1>0. s \in Kernel /\ \A p \in Prio : s.ready[p] \in Seq(Thread) /\ t \notin ToSet(s.ready[p])
  BY KernelFields DEF Table, InReady
<1>1. /\ r \in Kernel /\ r.thr = s.thr /\ r.group = s.group
      /\ \A p \in Prio : r.ready[p] = RemoveFirst(s.ready[p], t)
  BY <1>0, UnlinkFields
<1>2. \A p \in Prio : r.ready[p] = s.ready[p]
  BY <1>0, <1>1, RemoveFirstProperties
<1>3. /\ \A p \in Prio : IsInjective(r.ready[p])
      /\ IsInjective(r.defunct) /\ Nowhere(r, t) /\ Moved(s, r, t)
  BY UnlinkLists
<1> HIDE DEF r
<1>4. Table(r)
  BY <1>1, <1>2, <1>3 DEF Table
<1> QED  BY <1>1, <1>3, <1>4 DEF r

\* rt_schedule_remove_thread: the bit goes with the last thread of the list.
LEMMA RemoveMoves ==
    ASSUME NEW s, Table(s), NEW t \in Thread, s.thr[t].mask = {s.thr[t].prio},
           \A p \in Prio : t \in ToSet(s.ready[p]) => p = s.thr[t].prio
    PROVE  LET r == rt_schedule_remove_thread(s, t)
           IN  Table(r) /\ Moved(s, r, t) /\ Nowhere(r, t) /\ r.thr = s.thr
<1> DEFINE u == Unlink(s, t)
           r == rt_schedule_remove_thread(s, t)
           p0 == s.thr[t].prio
           group == IF u.ready[p0] = <<>> THEN u.group \ {p0} ELSE u.group
<1>0. /\ s \in Kernel /\ p0 \in Prio
      /\ \A p \in Prio : s.ready[p] \in Seq(Thread)
  BY KernelFields DEF Table, Tcb
<1>1. /\ u \in Kernel /\ u.thr = s.thr /\ u.group = s.group
      /\ \A p \in Prio : u.ready[p] = RemoveFirst(s.ready[p], t)
  BY <1>0, UnlinkFields
<1>2. /\ \A p \in Prio : IsInjective(u.ready[p]) /\ IsInjective(u.defunct)
      /\ IsInjective(u.defunct) /\ Nowhere(u, t) /\ Moved(s, u, t)
  BY UnlinkLists
<1>3. \A p \in Prio : p # p0 => u.ready[p] = s.ready[p]
  BY <1>0, <1>1, RemoveFirstProperties
<1>4. p0 \notin s.group => u.ready[p0] = <<>>
  <2> SUFFICES ASSUME p0 \notin s.group PROVE u.ready[p0] = <<>>
    OBVIOUS
  <2>1. s.ready[p0] = <<>>
    BY <1>0 DEF Table
  <2>2. t \notin ToSet(s.ready[p0])
    BY <1>0, <2>1, EmptyIsNobody
  <2> QED  BY <1>0, <1>1, <2>1, <2>2, RemoveFirstProperties
<1>5. r = [u EXCEPT !.group = group]
  BY <1>0 DEF rt_schedule_remove_thread
<1> HIDE DEF u, r
<1>6. /\ r.thr = u.thr /\ r.ready = u.ready /\ r.waiting = u.waiting /\ r.defunct = u.defunct
      /\ r.freed = u.freed /\ r.app = u.app /\ r.group = group
  BY <1>1, <1>5 DEF Kernel
<1>7. r \in Kernel
  <2>1. group \in SUBSET Prio
    BY <1>1, KernelFields
  <2> QED  BY <1>1, <1>5, <2>1 DEF Kernel
<1>8. \A p \in Prio : p \in group <=> u.ready[p] # <<>>
  <2> SUFFICES ASSUME NEW p \in Prio PROVE p \in group <=> u.ready[p] # <<>>
    OBVIOUS
  <2>1. p \in s.group <=> s.ready[p] # <<>>
    BY DEF Table
  <2>2. CASE p # p0
    BY <1>1, <1>3, <2>1, <2>2
  <2>3. CASE p = p0
    BY <1>1, <1>4, <2>3
  <2> QED  BY <2>2, <2>3
<1>9. Table(r)
  BY <1>2, <1>6, <1>7, <1>8 DEF Table
<1>10. Moved(s, r, t) /\ Nowhere(r, t)
  BY <1>2, <1>6 DEF Moved, Nowhere, InReady
<1> QED  BY <1>1, <1>6, <1>9, <1>10 DEF r

\* rt_schedule_insert_thread.
LEMMA InsertMoves ==
    ASSUME NEW s, Table(s), NEW t \in Thread, s.thr[t].mask = {s.thr[t].prio}, ~InReady(s, t)
    PROVE  LET r == rt_schedule_insert_thread(s, t)
           IN  /\ Table(r) /\ Moved(s, r, t) /\ r.waiting = s.waiting /\ r.defunct = s.defunct
               /\ \A p \in Prio : t \in ToSet(r.ready[p]) <=> p = s.thr[t].prio
               /\ r.thr[t] = [s.thr[t] EXCEPT !.stat = "READY"]
<1> DEFINE r == rt_schedule_insert_thread(s, t)
           p0 == s.thr[t].prio
           e == [s.thr[t] EXCEPT !.stat = "READY"]
           a == WithTcb(s, t, e)
           l == Append(s.ready[p0], t)
<1>0. /\ s \in Kernel /\ p0 \in Prio /\ s.thr[t] \in Tcb
      /\ \A p \in Prio : s.ready[p] \in Seq(Thread) /\ t \notin ToSet(s.ready[p])
  BY KernelFields DEF Table, Tcb, InReady
<1>1. e \in Tcb
  BY <1>0 DEF Tcb, Stat
<1>2. /\ Table(a) /\ Moved(s, a, t) /\ a.thr[t] = e /\ a.ready = s.ready
      /\ a.waiting = s.waiting /\ a.defunct = s.defunct /\ a.group = s.group
  BY <1>1, TcbMoves
<1>3. r = [a EXCEPT !.ready = [s.ready EXCEPT ![p0] = l], !.group = s.group \cup {p0}]
  BY <1>0 DEF rt_schedule_insert_thread, WithTcb, Kernel
<1> HIDE DEF r, a, e
<1>4. l \in Seq(Thread) /\ ToSet(l) = ToSet(s.ready[p0]) \cup {t} /\ IsInjective(l) /\ l # <<>>
  <2>1. IsInjective(s.ready[p0])
    BY <1>0 DEF Table
  <2>2. l \in Seq(Thread) /\ ToSet(l) = ToSet(s.ready[p0]) \cup {t} /\ IsInjective(l)
    BY <1>0, <2>1, AppendSet
  <2>3. t \in ToSet(l)
    BY <2>2
  <2> HIDE DEF l
  <2> QED  BY <2>2, <2>3, EmptyIsNobody
<1> HIDE DEF l
<1>5. a \in Kernel /\ s.ready \in [Prio -> Seq(Thread)]
  BY <1>0, <1>2, KernelFields DEF Table
<1>6. /\ r.thr = a.thr /\ r.waiting = a.waiting /\ r.defunct = a.defunct
      /\ r.freed = a.freed /\ r.app = a.app /\ r.group = s.group \cup {p0}
      /\ r.ready = [s.ready EXCEPT ![p0] = l]
  BY <1>3, <1>5 DEF Kernel
<1>7. r.ready \in [Prio -> Seq(Thread)] /\ \A p \in Prio : r.ready[p] = IF p = p0 THEN l ELSE s.ready[p]
  BY <1>0, <1>4, <1>5, <1>6
<1>8. r \in Kernel
  <2>1. r.group \in SUBSET Prio
    BY <1>0, <1>6, KernelFields
  <2>2. r = [app |-> a.app, thr |-> a.thr, ready |-> r.ready, group |-> r.group,
             waiting |-> a.waiting, defunct |-> a.defunct, freed |-> a.freed]
    BY <1>3, <1>5, <1>6 DEF Kernel
  <2> QED  BY <1>5, <1>7, <2>1, <2>2, KernelFields DEF Kernel
<1>9. Table(r)
  <2>1. \A p \in Prio : p \in r.group <=> r.ready[p] # <<>>
    BY <1>4, <1>6, <1>7 DEF Table
  <2>2. \A p \in Prio : IsInjective(r.ready[p])
    BY <1>4, <1>7 DEF Table
  <2> QED  BY <1>2, <1>6, <1>8, <2>1, <2>2 DEF Table
<1>10. \A p \in Prio : t \in ToSet(r.ready[p]) <=> p = p0
  BY <1>0, <1>4, <1>7
<1>11. Moved(s, r, t)
  <2>1. \A u \in Thread : u # t => \A p \in Prio : u \in ToSet(r.ready[p]) <=> u \in ToSet(s.ready[p])
    BY <1>4, <1>7
  <2> QED  BY <1>2, <1>6, <2>1 DEF Moved
<1> QED  BY <1>2, <1>6, <1>9, <1>10, <1>11 DEF r, e

-----------------------------------------------------------------------------
(* The sections of the thread operations on the kernel record.              *)

\* The threads listed are READY, those READY or suspended have their one bit.
LEMMA ThreadFacts ==
    ASSUME NEW s, KernelInv(s), NEW t \in Thread
    PROVE  /\ s \in Kernel /\ Table(s) /\ ThreadOK(s, t) /\ s.thr[t] \in Tcb
           /\ s.thr[t].stat \in Stat /\ s.thr[t].prio \in Prio /\ s.thr[t].init \in Prio
           /\ s.thr[t].mask \in SUBSET Prio /\ s.thr[t].timer \in BOOLEAN
           /\ InReady(s, t) => s.thr[t].stat = "READY" /\ t \in ToSet(s.ready[s.thr[t].prio])
<1>1. s \in Kernel /\ Table(s) /\ ThreadOK(s, t)
  BY DEF KernelInv, Table
<1>2. s.thr[t] \in Tcb
  BY <1>1, KernelFields
<1>3. /\ s.thr[t].stat \in Stat /\ s.thr[t].prio \in Prio /\ s.thr[t].init \in Prio
      /\ s.thr[t].mask \in SUBSET Prio /\ s.thr[t].timer \in BOOLEAN
  BY <1>2 DEF Tcb
<1>4. InReady(s, t) => s.thr[t].stat = "READY" /\ t \in ToSet(s.ready[s.thr[t].prio])
  BY <1>1 DEF ThreadOK, InReady
<1> QED  BY <1>1, <1>2, <1>3, <1>4

\* rt_list_remove on a thread that is not READY.
LEMMA UnlinkKernel ==
    ASSUME NEW s, KernelInv(s), NEW t \in Thread, ~InReady(s, t)
    PROVE  LET r == Unlink(s, t)
           IN  KernelInv(r) /\ Moved(s, r, t) /\ Nowhere(r, t) /\ r.thr = s.thr
<1> DEFINE r == Unlink(s, t)
<1>1. Table(s) /\ ThreadOK(s, t)
  BY ThreadFacts
<1>2. Table(r) /\ Moved(s, r, t) /\ Nowhere(r, t) /\ r.thr = s.thr
  BY <1>1, UnlinkMoves
<1> HIDE DEF r
<1>3. ThreadOK(r, t)
  BY <1>1, <1>2 DEF ThreadOK, Nowhere, InReady, Moved
<1>4. KernelInv(r)
  BY <1>2, <1>3, KernelKept
<1> QED  BY <1>2, <1>4 DEF r

\* rt_timer_stop.
LEMMA TimerOffKernel ==
    ASSUME NEW s, KernelInv(s), NEW t \in Thread
    PROVE  LET r == [s EXCEPT !.thr[t].timer = FALSE]
           IN  /\ KernelInv(r) /\ Moved(s, r, t) /\ r.thr[t] = [s.thr[t] EXCEPT !.timer = FALSE]
               /\ r.ready = s.ready /\ r.waiting = s.waiting /\ r.defunct = s.defunct
<1> DEFINE e == [s.thr[t] EXCEPT !.timer = FALSE]
           r == [s EXCEPT !.thr[t].timer = FALSE]
<1>1. Table(s) /\ ThreadOK(s, t) /\ s.thr[t] \in Tcb
  BY ThreadFacts
<1>2. e \in Tcb /\ e.stat = s.thr[t].stat /\ e.prio = s.thr[t].prio /\ e.mask = s.thr[t].mask /\ e.timer = FALSE
  BY <1>1 DEF Tcb
<1>3. r = WithTcb(s, t, e)
  BY DEF WithTcb
<1> HIDE DEF e, r
<1>4. /\ Table(r) /\ Moved(s, r, t) /\ r.thr[t] = e /\ r.ready = s.ready
      /\ r.waiting = s.waiting /\ r.defunct = s.defunct
  BY <1>1, <1>2, <1>3, TcbMoves
<1>5. ThreadOK(r, t)
  BY <1>1, <1>2, <1>4 DEF ThreadOK, Moved
<1>6. KernelInv(r)
  BY <1>4, <1>5, KernelKept
<1> QED  BY <1>4, <1>6 DEF e, r

\* rt_schedule_insert_thread on a suspended thread.
LEMMA InsertKernel ==
    ASSUME NEW s, KernelInv(s), NEW t \in Thread, s.thr[t].stat = "SUSPEND", ~s.thr[t].timer, Nowhere(s, t)
    PROVE  LET r == rt_schedule_insert_thread(s, t)
           IN  /\ KernelInv(r) /\ Moved(s, r, t) /\ InReady(r, t)
               /\ r.thr[t].prio = s.thr[t].prio
<1> DEFINE r == rt_schedule_insert_thread(s, t)
<1>1. /\ Table(s) /\ ThreadOK(s, t) /\ s.thr[t] \in Tcb /\ s.thr[t].prio \in Prio
      /\ s.thr[t].mask = {s.thr[t].prio}
  BY ThreadFacts DEF ThreadOK
<1>2. /\ Table(r) /\ Moved(s, r, t) /\ r.waiting = s.waiting /\ r.defunct = s.defunct
      /\ \A p \in Prio : t \in ToSet(r.ready[p]) <=> p = s.thr[t].prio
      /\ r.thr[t] = [s.thr[t] EXCEPT !.stat = "READY"]
  BY <1>1, InsertMoves DEF Nowhere
<1> HIDE DEF r
<1>3. /\ r.thr[t].stat = "READY" /\ r.thr[t].prio = s.thr[t].prio
      /\ r.thr[t].mask = s.thr[t].mask /\ r.thr[t].timer = s.thr[t].timer
  BY <1>1, <1>2 DEF Tcb
<1>4. ThreadOK(r, t)
  <2>1. t \notin s.freed
    BY <1>1 DEF ThreadOK
  <2> QED  BY <1>1, <1>2, <1>3, <2>1 DEF ThreadOK, Nowhere, Moved
<1>5. KernelInv(r)
  BY <1>2, <1>4, KernelKept
<1>6. InReady(r, t)
  BY <1>1, <1>2 DEF InReady
<1> QED  BY <1>2, <1>3, <1>5, <1>6 DEF r

\* The first section of rt_thread_resume.
LEMMA ResumeUnlinkKernel ==
    ASSUME NEW s, KernelInv(s), NEW t \in Thread, s.thr[t].stat = "SUSPEND"
    PROVE  LET r == ResumeUnlink(s, t)
           IN  /\ KernelInv(r) /\ Moved(s, r, t) /\ Nowhere(r, t)
               /\ r.thr[t].stat = "SUSPEND" /\ ~r.thr[t].timer /\ r.thr[t].prio = s.thr[t].prio
<1> DEFINE u == Unlink(s, t)
           r == ResumeUnlink(s, t)
<1>1. ~InReady(s, t) /\ s.thr[t] \in Tcb
  BY ThreadFacts
<1>2. KernelInv(u) /\ Moved(s, u, t) /\ Nowhere(u, t) /\ u.thr = s.thr
  BY <1>1, UnlinkKernel
<1>3. r = [u EXCEPT !.thr[t].timer = FALSE]
  BY DEF ResumeUnlink
<1> HIDE DEF u, r
<1>4. /\ KernelInv(r) /\ Moved(u, r, t) /\ r.thr[t] = [u.thr[t] EXCEPT !.timer = FALSE]
      /\ r.ready = u.ready /\ r.waiting = u.waiting /\ r.defunct = u.defunct
  BY <1>2, <1>3, TimerOffKernel
<1>5. Nowhere(r, t)
  BY <1>2, <1>4 DEF Nowhere, InReady
<1>6. r.thr[t].stat = "SUSPEND" /\ ~r.thr[t].timer /\ r.thr[t].prio = s.thr[t].prio
  BY <1>1, <1>2, <1>4 DEF Tcb
<1>7. Moved(s, r, t)
  BY <1>2, <1>4, MovedTrans
<1> QED  BY <1>4, <1>5, <1>6, <1>7 DEF r

\* t is made READY, at its priority.
Readied(s, r, t) ==
    KernelInv(r) /\ Moved(s, r, t) /\ InReady(r, t) /\ r.thr[t].prio = s.thr[t].prio

\* rt_thread_resume in one section.
LEMMA ResumeKernel ==
    ASSUME NEW s, KernelInv(s), NEW t \in Thread, s.thr[t].stat = "SUSPEND"
    PROVE  Readied(s, Resume(s, t), t)
<1> DEFINE u == ResumeUnlink(s, t)
           r == rt_schedule_insert_thread(u, t)
<1>1. /\ KernelInv(u) /\ Moved(s, u, t) /\ Nowhere(u, t)
      /\ u.thr[t].stat = "SUSPEND" /\ ~u.thr[t].timer /\ u.thr[t].prio = s.thr[t].prio
  BY ResumeUnlinkKernel
<1> HIDE DEF u
<1>2. KernelInv(r) /\ Moved(u, r, t) /\ InReady(r, t) /\ r.thr[t].prio = u.thr[t].prio
  BY <1>1, InsertKernel
<1>3. Resume(s, t) = r
  BY DEF Resume, u
<1> HIDE DEF r
<1>4. Moved(s, r, t)
  BY <1>1, <1>2, MovedTrans
<1> QED  BY <1>1, <1>2, <1>3, <1>4 DEF Readied

\* rt_thread_timeout.
LEMMA TimeoutKernel ==
    ASSUME NEW s, KernelInv(s), NEW t \in Thread, s.thr[t].timer
    PROVE  Readied(s, rt_thread_timeout(s, t), t)
<1> DEFINE a == [s EXCEPT !.thr[t].timer = FALSE]
           u == Unlink(a, t)
           r == rt_schedule_insert_thread(u, t)
<1>1. ~InReady(s, t) /\ s.thr[t] \in Tcb /\ s.thr[t].stat = "SUSPEND"
  BY ThreadFacts DEF ThreadOK
<1>2. /\ KernelInv(a) /\ Moved(s, a, t) /\ a.thr[t] = [s.thr[t] EXCEPT !.timer = FALSE]
      /\ a.ready = s.ready
  BY TimerOffKernel
<1>3. rt_thread_timeout(s, t) = r
  BY DEF rt_thread_timeout
<1> HIDE DEF a
<1>4. ~InReady(a, t) /\ a.thr[t].stat = "SUSPEND" /\ ~a.thr[t].timer /\ a.thr[t].prio = s.thr[t].prio
  BY <1>1, <1>2 DEF InReady, Tcb
<1>5. KernelInv(u) /\ Moved(a, u, t) /\ Nowhere(u, t) /\ u.thr = a.thr
  BY <1>2, <1>4, UnlinkKernel
<1> HIDE DEF u
<1>6. KernelInv(r) /\ Moved(u, r, t) /\ InReady(r, t) /\ r.thr[t].prio = u.thr[t].prio
  BY <1>4, <1>5, InsertKernel
<1> HIDE DEF r
<1>7. Moved(s, r, t)
  BY <1>2, <1>5, <1>6, MovedTrans
<1> QED  BY <1>3, <1>4, <1>5, <1>6, <1>7 DEF Readied

\* rt_schedule_remove_thread on a thread about to change its state to e.
LEMMA RemoveAs ==
    ASSUME NEW s, KernelInv(s), NEW t \in Thread, NEW e \in Tcb,
           s.thr[t].stat \in {"READY", "SUSPEND"},
           e.prio = s.thr[t].prio, e.mask = s.thr[t].mask
    PROVE  LET r == rt_schedule_remove_thread(WithTcb(s, t, e), t)
           IN  Table(r) /\ Moved(s, r, t) /\ Nowhere(r, t) /\ r.thr[t] = e
<1> DEFINE a == WithTcb(s, t, e)
           r == rt_schedule_remove_thread(a, t)
<1>1. Table(s) /\ ThreadOK(s, t) /\ s.thr[t].mask = {s.thr[t].prio}
  BY ThreadFacts DEF ThreadOK
<1>2. Table(a) /\ Moved(s, a, t) /\ a.thr[t] = e /\ a.ready = s.ready
  BY <1>1, TcbMoves
<1> HIDE DEF a
<1>3. \A p \in Prio : t \in ToSet(a.ready[p]) => p = a.thr[t].prio
  BY <1>1, <1>2 DEF ThreadOK
<1>4. a.thr[t].mask = {a.thr[t].prio}
  BY <1>1, <1>2
<1>5. Table(r) /\ Moved(a, r, t) /\ Nowhere(r, t) /\ r.thr = a.thr
  BY <1>2, <1>3, <1>4, RemoveMoves
<1> HIDE DEF r
<1>6. Moved(s, r, t)
  BY <1>2, <1>5, MovedTrans
<1> QED  BY <1>2, <1>5, <1>6 DEF a, r

\* t waits, in no ready list.
Parked(s, r, t) ==
    KernelInv(r) /\ Moved(s, r, t) /\ ~InReady(r, t) /\ r.thr[t].stat = "SUSPEND"

\* rt_thread_suspend.
LEMMA SuspendKernel ==
    ASSUME NEW s, KernelInv(s), NEW t \in Thread, s.thr[t].stat = "READY"
    PROVE  Parked(s, Suspend(s, t), t) /\ Nowhere(Suspend(s, t), t)
<1> DEFINE e == [s.thr[t] EXCEPT !.stat = "SUSPEND", !.timer = FALSE]
           r == rt_schedule_remove_thread(WithTcb(s, t, e), t)
<1>1. s \in Kernel /\ s.thr[t] \in Tcb /\ ThreadOK(s, t) /\ s.thr[t].mask = {s.thr[t].prio}
  BY ThreadFacts DEF ThreadOK
<1>2. /\ e \in Tcb /\ e.stat = "SUSPEND" /\ e.prio = s.thr[t].prio /\ e.mask = s.thr[t].mask
      /\ ~e.timer
  BY <1>1 DEF Tcb, Stat
<1>3. Suspend(s, t) = r
  <2>1. s.thr \in [Thread -> Tcb]
    BY <1>1, KernelFields
  <2>2. [s EXCEPT !.thr[t].stat = "SUSPEND", !.thr[t].timer = FALSE] = WithTcb(s, t, e)
    BY <1>1, <2>1 DEF WithTcb, Kernel
  <2> QED  BY <2>2 DEF Suspend
<1> HIDE DEF e
<1>4. Table(r) /\ Moved(s, r, t) /\ Nowhere(r, t) /\ r.thr[t] = e
  <2>1. s.thr[t].stat \in {"READY", "SUSPEND"} /\ e.prio = s.thr[t].prio /\ e.mask = s.thr[t].mask
    BY <1>2
  <2> QED  BY <1>2, <2>1, RemoveAs
<1> HIDE DEF r
<1>5. ThreadOK(r, t)
  BY <1>1, <1>2, <1>4 DEF ThreadOK, Nowhere, InReady, Moved
<1>6. KernelInv(r)
  BY <1>4, <1>5, KernelKept
<1> QED  BY <1>2, <1>3, <1>4, <1>6 DEF Parked, Nowhere

\* rt_timer_start on a suspended thread.
LEMMA TimerKernel ==
    ASSUME NEW s, KernelInv(s), NEW t \in Thread, s.thr[t].stat = "SUSPEND", ~InReady(s, t),
           NEW timed \in BOOLEAN
    PROVE  LET r == [s EXCEPT !.thr[t].timer = timed]
           IN  /\ Parked(s, r, t) /\ r.defunct = s.defunct /\ r.waiting = s.waiting
               /\ r.ready = s.ready /\ r.thr[t].timer = timed
<1> DEFINE e == [s.thr[t] EXCEPT !.timer = timed]
           r == [s EXCEPT !.thr[t].timer = timed]
<1>1. Table(s) /\ ThreadOK(s, t) /\ s.thr[t] \in Tcb
  BY ThreadFacts
<1>2. /\ e \in Tcb /\ e.stat = s.thr[t].stat /\ e.prio = s.thr[t].prio /\ e.mask = s.thr[t].mask
      /\ e.timer = timed
  BY <1>1 DEF Tcb
<1>3. r = WithTcb(s, t, e)
  BY DEF WithTcb
<1> HIDE DEF e, r
<1>4. /\ Table(r) /\ Moved(s, r, t) /\ r.thr[t] = e /\ r.ready = s.ready
      /\ r.waiting = s.waiting /\ r.defunct = s.defunct
  BY <1>1, <1>2, <1>3, TcbMoves
<1>5. ThreadOK(r, t)
  BY <1>1, <1>2, <1>4 DEF ThreadOK, Moved
<1>6. KernelInv(r)
  BY <1>4, <1>5, KernelKept
<1> QED  BY <1>2, <1>4, <1>6 DEF r, Parked, InReady

\* rt_thread_sleep.
LEMMA SleepKernel ==
    ASSUME NEW s, KernelInv(s), NEW t \in Thread, s.thr[t].stat = "READY"
    PROVE  Parked(s, [Suspend(s, t) EXCEPT !.thr[t].timer = TRUE], t)
<1> DEFINE a == Suspend(s, t)
           r == [a EXCEPT !.thr[t].timer = TRUE]
<1>1. KernelInv(a) /\ Moved(s, a, t) /\ ~InReady(a, t) /\ a.thr[t].stat = "SUSPEND"
  BY SuspendKernel DEF Parked
<1> HIDE DEF a
<1>2. Parked(a, r, t)
  BY <1>1, TimerKernel
<1>3. Moved(s, r, t)
  BY <1>1, <1>2, MovedTrans DEF Parked
<1> QED  BY <1>2, <1>3 DEF Parked, a

\* Linking a thread in the list of an object and starting its timer.
LEMMA BlockKernel ==
    ASSUME NEW s, KernelInv(s), NEW t \in Thread, s.thr[t].stat = "READY", NEW timed \in BOOLEAN
    PROVE  LET r == [Suspend(s, t) EXCEPT !.waiting = @ \cup {t}, !.thr[t].timer = timed]
           IN  Parked(s, r, t)
<1> DEFINE a == Suspend(s, t)
           b == [a EXCEPT !.thr[t].timer = timed]
           w == a.waiting \cup {t}
           r == [a EXCEPT !.waiting = @ \cup {t}, !.thr[t].timer = timed]
<1>1. /\ KernelInv(a) /\ Moved(s, a, t) /\ ~InReady(a, t) /\ a.thr[t].stat = "SUSPEND"
      /\ t \notin a.waiting /\ t \notin ToSet(a.defunct)
  BY SuspendKernel DEF Parked, Nowhere
<1> HIDE DEF a
<1>2. Parked(a, b, t) /\ b.defunct = a.defunct /\ b.waiting = a.waiting
  BY <1>1, TimerKernel
<1>3. a \in Kernel /\ b \in Kernel /\ Table(b) /\ ThreadOK(b, t) /\ w \in SUBSET Thread
  <2>1. a \in Kernel /\ KernelInv(b)
    BY <1>1, <1>2 DEF Parked, KernelInv, Table
  <2> QED  BY <2>1, KernelFields DEF KernelInv, Table
<1>4. r = [b EXCEPT !.waiting = w]
  BY <1>1, <1>3 DEF Kernel
<1> HIDE DEF b, r, w
<1>5. /\ r.thr = b.thr /\ r.ready = b.ready /\ r.group = b.group /\ r.waiting = w
      /\ r.defunct = b.defunct /\ r.freed = b.freed /\ r.app = b.app
  BY <1>3, <1>4 DEF Kernel
<1>6. r \in Kernel
  BY <1>3, <1>4 DEF Kernel
<1>7. Table(r)
  BY <1>3, <1>5, <1>6 DEF Table
<1>8. Moved(b, r, t)
  BY <1>2, <1>5 DEF Moved, w
<1>9. Moved(a, b, t) /\ KernelInv(b) /\ ~InReady(b, t) /\ b.thr[t].stat = "SUSPEND"
  BY <1>2 DEF Parked
<1>10. ThreadOK(r, t)
  BY <1>3, <1>5, <1>9 DEF ThreadOK, InReady
<1>11. KernelInv(r)
  BY <1>7, <1>8, <1>9, <1>10, KernelKept
<1>12. Moved(s, r, t)
  BY <1>1, <1>8, <1>9, MovedTrans
<1> QED  BY <1>5, <1>9, <1>11, <1>12 DEF Parked, InReady, a, r

\* The thread rotates in its list.
Rotated(s, r, t) ==
    /\ KernelInv(r) /\ Moved(s, r, t) /\ r.thr = s.thr
    /\ InReady(r, t) <=> InReady(s, t)

\* rt_thread_yield.
LEMMA YieldKernel ==
    ASSUME NEW s, KernelInv(s), NEW t \in Thread
    PROVE  Rotated(s, YieldSection(s, t), t)
<1> DEFINE u == Unlink(s, t)
           p0 == s.thr[t].prio
           l == Append(u.ready[p0], t)
           r == [u EXCEPT !.ready[p0] = l]
<1>0. /\ s \in Kernel /\ Table(s) /\ ThreadOK(s, t) /\ s.thr[t].prio \in Prio
      /\ \A p \in Prio : s.ready[p] \in Seq(Thread)
  BY ThreadFacts, KernelFields
<1>1. CASE ~(s.thr[t].stat = "READY" /\ HasPeer(s, t))
  BY <1>1 DEF YieldSection, Rotated, Moved
<1>2. CASE s.thr[t].stat = "READY" /\ HasPeer(s, t)
  <2>1. \E p \in Prio : t \in ToSet(s.ready[p])
    BY <1>0, <1>2, ContainsIsToSet DEF HasPeer
  <2>2. t \in ToSet(s.ready[p0]) /\ \A p \in Prio : t \in ToSet(s.ready[p]) => p = p0
    BY <1>0, <2>1 DEF ThreadOK
  <2>3. YieldSection(s, t) = r
    BY <1>2 DEF YieldSection
  <2>4. /\ u \in Kernel /\ u.app = s.app /\ u.thr = s.thr /\ u.group = s.group /\ u.freed = s.freed
        /\ \A p \in Prio : u.ready[p] = RemoveFirst(s.ready[p], t)
    BY <1>0, UnlinkFields
  <2>5. /\ \A p \in Prio : IsInjective(u.ready[p]) /\ ToSet(u.ready[p]) = ToSet(s.ready[p]) \ {t}
        /\ IsInjective(u.defunct) /\ Nowhere(u, t) /\ Moved(s, u, t)
    BY <1>0, UnlinkLists
  <2> HIDE DEF u
  <2>6. u.ready \in [Prio -> Seq(Thread)] /\ u.ready[p0] \in Seq(Thread)
    BY <1>0, <2>4, KernelFields
  <2>7. l \in Seq(Thread) /\ ToSet(l) = ToSet(s.ready[p0]) /\ IsInjective(l) /\ l # <<>>
    <3>1. IsInjective(u.ready[p0]) /\ ToSet(u.ready[p0]) = ToSet(s.ready[p0]) \ {t}
      BY <1>0, <2>5
    <3>2. l \in Seq(Thread) /\ ToSet(l) = ToSet(u.ready[p0]) \cup {t} /\ IsInjective(l)
      BY <2>6, <3>1, AppendSet
    <3>3. t \in ToSet(l)
      BY <3>2
    <3> HIDE DEF l
    <3> QED  BY <2>2, <3>1, <3>2, <3>3, EmptyIsNobody
  <2>8. \A p \in Prio : p # p0 => u.ready[p] = s.ready[p]
    BY <1>0, <2>2, <2>4, RemoveFirstProperties
  <2>9. r = [u EXCEPT !.ready = [u.ready EXCEPT ![p0] = l]]
    BY <2>4 DEF Kernel
  <2> HIDE DEF l, r
  <2>10. /\ r.thr = u.thr /\ r.waiting = u.waiting /\ r.defunct = u.defunct
         /\ r.freed = u.freed /\ r.app = u.app /\ r.group = u.group
         /\ r.ready = [u.ready EXCEPT ![p0] = l]
    BY <2>4, <2>9 DEF Kernel
  <2>11. /\ r.ready \in [Prio -> Seq(Thread)]
         /\ \A p \in Prio : r.ready[p] = IF p = p0 THEN l ELSE s.ready[p]
    BY <1>0, <2>6, <2>7, <2>8, <2>10
  <2>12. r \in Kernel
    <3>1. r = [app |-> u.app, thr |-> u.thr, ready |-> r.ready, group |-> u.group,
               waiting |-> u.waiting, defunct |-> u.defunct, freed |-> u.freed]
      BY <2>4, <2>9, <2>10 DEF Kernel
    <3> QED  BY <2>4, <2>11, <3>1, KernelFields DEF Kernel
  <2>13. \A p \in Prio : /\ IsInjective(r.ready[p]) /\ ToSet(r.ready[p]) = ToSet(s.ready[p])
                         /\ p \in r.group <=> r.ready[p] # <<>>
    <3>1. \A p \in Prio : IsInjective(s.ready[p]) /\ (p \in s.group <=> s.ready[p] # <<>>)
      BY <1>0 DEF Table
    <3>2. s.ready[p0] # <<>>
      BY <1>0, <2>2, EmptyIsNobody
    <3> QED  BY <1>0, <2>4, <2>7, <2>10, <2>11, <3>1, <3>2
  <2>14. Table(r)
    BY <2>5, <2>10, <2>12, <2>13 DEF Table
  <2>15. Moved(s, r, t) /\ r.thr = s.thr
    BY <2>4, <2>5, <2>10, <2>13 DEF Moved
  <2>16. ThreadOK(r, t)
    BY <1>0, <2>4, <2>5, <2>10, <2>13 DEF ThreadOK, Nowhere
  <2>17. KernelInv(r)
    BY <2>14, <2>15, <2>16, KernelKept
  <2>18. InReady(r, t) <=> InReady(s, t)
    BY <2>13 DEF InReady
  <2> QED  BY <2>3, <2>15, <2>17, <2>18 DEF Rotated
<1> QED  BY <1>1, <1>2

\* RT_THREAD_CTRL_CHANGE_PRIORITY on a thread that is suspended, or ready and listed.
LEMMA PriorityKernel ==
    ASSUME NEW s, KernelInv(s), NEW t \in Thread, s.thr[t].stat \in {"READY", "SUSPEND"},
           s.thr[t].stat = "READY" => InReady(s, t), NEW p0 \in Prio
    PROVE  LET r == ChangePriority(s, t, p0)
           IN  /\ KernelInv(r) /\ Moved(s, r, t) /\ r.thr[t].stat = s.thr[t].stat
               /\ InReady(r, t) <=> InReady(s, t)
<1> DEFINE e == [s.thr[t] EXCEPT !.prio = p0, !.mask = {p0}]
           r == ChangePriority(s, t, p0)
<1>0. s \in Kernel /\ Table(s) /\ ThreadOK(s, t) /\ s.thr[t] \in Tcb /\ s.thr[t].mask = {s.thr[t].prio}
  BY ThreadFacts DEF ThreadOK
<1>1. /\ e \in Tcb /\ e.prio = p0 /\ e.mask = {p0} /\ e.stat = s.thr[t].stat
      /\ e.timer = s.thr[t].timer
  BY <1>0 DEF Tcb
<1>2. CASE s.thr[t].stat = "READY"
  <2> DEFINE a == rt_schedule_remove_thread(s, t)
             b == WithTcb(a, t, e)
             c == rt_schedule_insert_thread(b, t)
  <2>1. Table(a) /\ Moved(s, a, t) /\ Nowhere(a, t) /\ a.thr = s.thr
    <3>1. \A p \in Prio : t \in ToSet(s.ready[p]) => p = s.thr[t].prio
      BY <1>0 DEF ThreadOK
    <3> QED  BY <1>0, <3>1, RemoveMoves
  <2>2. r = c
    <3>1. a \in Kernel /\ a.thr \in [Thread -> Tcb]
      BY <2>1, KernelFields DEF Table
    <3> HIDE DEF a
    <3>2. [a EXCEPT !.thr[t].prio = p0, !.thr[t].mask = {p0}] = WithTcb(a, t, e)
      BY <1>0, <2>1, <3>1 DEF WithTcb, Kernel
    <3> QED  BY <1>2, <3>2 DEF ChangePriority, a
  <2> HIDE DEF a, e, r
  <2>3. /\ Table(b) /\ Moved(a, b, t) /\ b.thr[t] = e /\ b.ready = a.ready
        /\ b.waiting = a.waiting /\ b.defunct = a.defunct
    BY <1>1, <2>1, TcbMoves
  <2> HIDE DEF b
  <2>4. ~InReady(b, t)
    BY <2>1, <2>3 DEF Nowhere, InReady
  <2>5. /\ Table(c) /\ Moved(b, c, t) /\ c.waiting = b.waiting /\ c.defunct = b.defunct
        /\ \A p \in Prio : t \in ToSet(c.ready[p]) <=> p = b.thr[t].prio
        /\ c.thr[t] = [b.thr[t] EXCEPT !.stat = "READY"]
    BY <1>1, <2>3, <2>4, InsertMoves
  <2> HIDE DEF c
  <2>6. /\ c.thr[t].stat = "READY" /\ c.thr[t].prio = p0 /\ c.thr[t].mask = {p0}
        /\ c.thr[t].timer = s.thr[t].timer
    BY <1>1, <2>3, <2>5 DEF Tcb
  <2>7. Moved(s, c, t)
    BY <2>1, <2>3, <2>5, MovedTrans
  <2>8. ThreadOK(c, t)
    <3>1. t \notin c.waiting /\ t \notin ToSet(c.defunct)
      BY <2>1, <2>3, <2>5 DEF Nowhere
    <3>2. t \notin c.freed /\ ~c.thr[t].timer
      BY <1>0, <1>2, <2>6, <2>7 DEF ThreadOK, Moved
    <3>3. \A p \in Prio : t \in ToSet(c.ready[p]) => p = p0
      BY <1>1, <2>3, <2>5
    <3> QED  BY <2>6, <3>1, <3>2, <3>3 DEF ThreadOK
  <2>9. KernelInv(c)
    BY <2>5, <2>7, <2>8, KernelKept
  <2>10. InReady(c, t)
    BY <1>1, <2>3, <2>5 DEF InReady
  <2> QED  BY <1>2, <2>2, <2>6, <2>7, <2>9, <2>10 DEF r
<1>3. CASE s.thr[t].stat # "READY"
  <2>1. r = WithTcb(s, t, e)
    <3>1. s.thr \in [Thread -> Tcb]
      BY <1>0, KernelFields
    <3> QED  BY <1>0, <1>3, <3>1 DEF ChangePriority, WithTcb, Kernel
  <2> HIDE DEF e, r
  <2>2. /\ Table(r) /\ Moved(s, r, t) /\ r.thr[t] = e /\ r.ready = s.ready
        /\ r.waiting = s.waiting /\ r.defunct = s.defunct
    BY <1>0, <1>1, <2>1, TcbMoves
  <2>3. ThreadOK(r, t)
    BY <1>0, <1>1, <1>3, <2>2 DEF ThreadOK, Moved
  <2>4. KernelInv(r)
    BY <2>2, <2>3, KernelKept
  <2> QED  BY <1>1, <2>2, <2>4 DEF r, InReady
<1> QED  BY <1>2, <1>3

\* rt_schedule_remove_thread, the first section of rt_thread_delete and of rt_thread_exit.
LEMMA RemoveKernel ==
    ASSUME NEW s, KernelInv(s), NEW t \in Thread, s.thr[t].stat \in {"READY", "SUSPEND"}
    PROVE  LET r == rt_schedule_remove_thread(s, t)
           IN  KernelInv(r) /\ Moved(s, r, t) /\ Nowhere(r, t) /\ r.thr = s.thr
<1> DEFINE r == rt_schedule_remove_thread(s, t)
<1>1. /\ Table(s) /\ ThreadOK(s, t) /\ s.thr[t].mask = {s.thr[t].prio}
      /\ \A p \in Prio : t \in ToSet(s.ready[p]) => p = s.thr[t].prio
  BY ThreadFacts DEF ThreadOK
<1>2. Table(r) /\ Moved(s, r, t) /\ Nowhere(r, t) /\ r.thr = s.thr
  BY <1>1, RemoveMoves
<1> HIDE DEF r
<1>3. ThreadOK(r, t)
  BY <1>1, <1>2 DEF ThreadOK, Nowhere, InReady, Moved
<1>4. KernelInv(r)
  BY <1>2, <1>3, KernelKept
<1> QED  BY <1>2, <1>4 DEF r

\* t is closed, and perhaps for the idle thread to clean up.
Closed(s, r, t) ==
    KernelInv(r) /\ Moved(s, r, t) /\ ~InReady(r, t) /\ r.thr[t].stat = "CLOSE"

\* RT_THREAD_CLOSE and the defunct list.
LEMMA CloseKernel ==
    ASSUME NEW s, KernelInv(s), NEW t \in Thread, Nowhere(s, t), s.thr[t].stat # "CLOSE",
           NEW e \in Tcb, e.stat = "CLOSE", ~e.timer, NEW l, l \in {s.defunct, <<t>> \o s.defunct}
    PROVE  Closed(s, [WithTcb(s, t, e) EXCEPT !.defunct = l], t)
<1> DEFINE a == WithTcb(s, t, e)
           r == [a EXCEPT !.defunct = l]
<1>0. s \in Kernel /\ Table(s) /\ ThreadOK(s, t) /\ s.defunct \in Seq(Thread)
  BY ThreadFacts, KernelFields
<1>1. /\ Table(a) /\ Moved(s, a, t) /\ a.thr[t] = e /\ a.ready = s.ready
      /\ a.waiting = s.waiting /\ a.defunct = s.defunct
  BY <1>0, TcbMoves
<1>2. /\ l \in Seq(Thread) /\ IsInjective(l)
      /\ \A u \in Thread : u # t => (u \in ToSet(l) <=> u \in ToSet(s.defunct))
  <2>1. IsInjective(s.defunct) /\ t \notin ToSet(s.defunct)
    BY <1>0 DEF Table, Nowhere
  <2>2. CASE l = s.defunct
    BY <1>0, <2>1, <2>2
  <2>3. CASE l = <<t>> \o s.defunct
    <3>1. /\ <<t>> \o s.defunct \in Seq(Thread) /\ IsInjective(<<t>> \o s.defunct)
          /\ ToSet(<<t>> \o s.defunct) = ToSet(s.defunct) \cup {t}
      BY <1>0, <2>1, ConsSet
    <3> QED  BY <2>3, <3>1
  <2> QED  BY <2>2, <2>3
<1> HIDE DEF a
<1>3. a \in Kernel
  BY <1>1 DEF Table
<1>4. /\ r.thr = a.thr /\ r.ready = a.ready /\ r.waiting = a.waiting /\ r.defunct = l
      /\ r.freed = a.freed /\ r.app = a.app /\ r.group = a.group
  BY <1>3 DEF Kernel
<1>5. r \in Kernel
  BY <1>2, <1>3 DEF Kernel
<1> HIDE DEF r
<1>6. Table(r)
  BY <1>1, <1>2, <1>4, <1>5 DEF Table
<1>7. Moved(s, r, t)
  BY <1>1, <1>2, <1>4 DEF Moved
<1>8. ThreadOK(r, t)
  <2>1. t \notin r.freed
    BY <1>0, <1>7 DEF ThreadOK, Moved
  <2>2. t \notin r.waiting /\ \A p \in Prio : t \notin ToSet(r.ready[p])
    BY <1>1, <1>4 DEF Nowhere, InReady
  <2> QED  BY <1>1, <1>4, <2>1, <2>2 DEF ThreadOK
<1>9. KernelInv(r)
  BY <1>6, <1>7, <1>8, KernelKept
<1>10. ~InReady(r, t)
  BY <1>1, <1>4 DEF Nowhere, InReady
<1> QED  BY <1>1, <1>4, <1>7, <1>9, <1>10 DEF Closed, a, r

\* rt_thread_exit.
LEMMA ExitKernel ==
    ASSUME NEW s, KernelInv(s), NEW t \in Thread, s.thr[t].stat = "READY"
    PROVE  LET a == [rt_schedule_remove_thread(s, t) EXCEPT
                       !.thr[t].stat = "CLOSE", !.thr[t].timer = FALSE]
           IN  Closed(s, IF t \in Dynamic \cup Cleanup THEN [a EXCEPT !.defunct = <<t>> \o @] ELSE a, t)
<1> DEFINE b == rt_schedule_remove_thread(s, t)
           a == [b EXCEPT !.thr[t].stat = "CLOSE", !.thr[t].timer = FALSE]
           e == [b.thr[t] EXCEPT !.stat = "CLOSE", !.timer = FALSE]
           l == IF t \in Dynamic \cup Cleanup THEN <<t>> \o b.defunct ELSE b.defunct
           r == IF t \in Dynamic \cup Cleanup THEN [a EXCEPT !.defunct = <<t>> \o @] ELSE a
<1>1. KernelInv(b) /\ Moved(s, b, t) /\ Nowhere(b, t) /\ b.thr = s.thr
  BY RemoveKernel
<1> HIDE DEF b
<1>2. b \in Kernel /\ b.thr \in [Thread -> Tcb] /\ b.thr[t] \in Tcb /\ b.thr[t].stat # "CLOSE"
  BY <1>1, ThreadFacts, KernelFields
<1>3. e \in Tcb /\ e.stat = "CLOSE" /\ ~e.timer
  BY <1>2 DEF Tcb, Stat
<1>4. a = WithTcb(b, t, e)
  BY <1>2 DEF WithTcb, Kernel
<1>5. WithTcb(b, t, e).defunct = b.defunct /\ WithTcb(b, t, e) \in Kernel
  <2>1. Table(b)
    BY <1>1 DEF KernelInv
  <2> HIDE DEF e
  <2>2. Table(WithTcb(b, t, e)) /\ WithTcb(b, t, e).defunct = b.defunct
    BY <1>3, <2>1, TcbMoves
  <2> QED  BY <2>2 DEF Table
<1>6. r = [WithTcb(b, t, e) EXCEPT !.defunct = l]
  <2> HIDE DEF a, e
  <2>1. r = [a EXCEPT !.defunct = l]
    <3>1. a \in Kernel /\ a.defunct = b.defunct
      BY <1>4, <1>5
    <3>2. [a EXCEPT !.defunct = a.defunct] = a
      BY <3>1 DEF Kernel
    <3> QED  BY <3>1, <3>2
  <2> QED  BY <1>4, <2>1
<1>7. l \in {b.defunct, <<t>> \o b.defunct}
  OBVIOUS
<1> HIDE DEF e, l
<1>8. Closed(b, r, t)
  <2> HIDE DEF r
  <2> QED  BY <1>1, <1>2, <1>3, <1>6, <1>7, CloseKernel
<1>9. Moved(s, r, t)
  <2> HIDE DEF r
  <2> QED  BY <1>1, <1>8, MovedTrans DEF Closed
<1> QED  BY <1>8, <1>9 DEF Closed, b

\* The last section of rt_thread_delete.
LEMMA DeleteCloseKernel ==
    ASSUME NEW s, KernelInv(s), NEW t \in Thread, s.thr[t].stat \in {"READY", "SUSPEND"}, Loose(s, t)
    PROVE  Closed(s, [s EXCEPT !.thr[t].stat = "CLOSE",
                               !.defunct = IF t \in Dynamic \cup Cleanup THEN <<t>> \o @ ELSE @], t)
<1> DEFINE e == [s.thr[t] EXCEPT !.stat = "CLOSE"]
           l == IF t \in Dynamic \cup Cleanup THEN <<t>> \o s.defunct ELSE s.defunct
           r == [s EXCEPT !.thr[t].stat = "CLOSE",
                          !.defunct = IF t \in Dynamic \cup Cleanup THEN <<t>> \o @ ELSE @]
<1>1. s \in Kernel /\ s.thr \in [Thread -> Tcb] /\ s.thr[t] \in Tcb /\ ThreadOK(s, t)
  BY ThreadFacts, KernelFields
<1>2. e \in Tcb /\ e.stat = "CLOSE" /\ ~e.timer
  BY <1>1 DEF Tcb, Stat, Loose
<1>3. Nowhere(s, t) /\ s.thr[t].stat # "CLOSE"
  BY <1>1 DEF ThreadOK, Nowhere, Loose
<1>4. r = [WithTcb(s, t, e) EXCEPT !.defunct = l]
  BY <1>1 DEF WithTcb, Kernel
<1>5. l \in {s.defunct, <<t>> \o s.defunct}
  OBVIOUS
<1> HIDE DEF e, l, r
<1>6. Closed(s, r, t)
  BY <1>2, <1>3, <1>4, <1>5, CloseKernel
<1> QED  BY <1>6 DEF r

\* rt_thread_init on a closed static thread that is on no list.
LEMMA InitKernel ==
    ASSUME NEW s, KernelInv(s), NEW t \in Thread, t \notin Dynamic, s.thr[t].stat = "CLOSE",
           t \notin ToSet(s.defunct), NEW p0 \in Prio
    PROVE  LET r == [s EXCEPT !.thr[t] = [stat |-> "INIT", prio |-> p0, init |-> p0,
                                          mask |-> s.thr[t].mask, timer |-> FALSE]]
           IN  KernelInv(r) /\ Moved(s, r, t) /\ ~InReady(r, t) /\ r.thr[t].stat = "INIT"
<1> DEFINE e == [stat |-> "INIT", prio |-> p0, init |-> p0, mask |-> s.thr[t].mask, timer |-> FALSE]
           r == WithTcb(s, t, e)
<1>1. s \in Kernel /\ Table(s) /\ ThreadOK(s, t) /\ s.thr[t].mask \in SUBSET Prio /\ t \notin s.freed
  BY ThreadFacts, KernelFields
<1>2. e \in Tcb /\ e.stat = "INIT" /\ e.timer = FALSE
  BY <1>1 DEF Tcb, Stat
<1> HIDE DEF e
<1>3. /\ Table(r) /\ Moved(s, r, t) /\ r.thr[t] = e /\ r.ready = s.ready
      /\ r.waiting = s.waiting /\ r.defunct = s.defunct
  BY <1>1, <1>2, TcbMoves
<1> HIDE DEF r
<1>4. ThreadOK(r, t)
  BY <1>1, <1>2, <1>3 DEF ThreadOK, Moved
<1>5. KernelInv(r)
  BY <1>3, <1>4, KernelKept
<1>6. ~InReady(r, t)
  BY <1>1, <1>3 DEF ThreadOK, InReady
<1> QED  BY <1>2, <1>3, <1>5, <1>6 DEF r, e, WithTcb

\* rt_thread_startup on an initialised thread, up to rt_thread_resume.
LEMMA StartupKernel ==
    ASSUME NEW s, KernelInv(s), NEW t \in Thread, s.thr[t].stat = "INIT"
    PROVE  Parked(s, Startup(s, t), t) /\ Loose(Startup(s, t), t)
<1> DEFINE e == [s.thr[t] EXCEPT !.prio = s.thr[t].init, !.mask = {s.thr[t].init}, !.stat = "SUSPEND"]
           r == Startup(s, t)
<1>1. /\ s \in Kernel /\ Table(s) /\ ThreadOK(s, t) /\ s.thr[t] \in Tcb /\ s.thr \in [Thread -> Tcb]
      /\ s.thr[t].init \in Prio
  BY ThreadFacts, KernelFields
<1>2. /\ e \in Tcb /\ e.stat = "SUSPEND" /\ e.mask = {e.prio} /\ e.timer = s.thr[t].timer
  BY <1>1 DEF Tcb, Stat
<1>3. r = WithTcb(s, t, e)
  BY <1>1 DEF WithTcb, Startup, Kernel
<1> HIDE DEF e, r
<1>4. /\ Table(r) /\ Moved(s, r, t) /\ r.thr[t] = e /\ r.ready = s.ready
      /\ r.waiting = s.waiting /\ r.defunct = s.defunct
  BY <1>1, <1>2, <1>3, TcbMoves
<1>5. ~InReady(s, t) /\ t \notin s.waiting /\ t \notin ToSet(s.defunct) /\ ~s.thr[t].timer /\ t \notin s.freed
  BY <1>1 DEF ThreadOK, InReady
<1>6. ThreadOK(r, t)
  BY <1>1, <1>2, <1>4, <1>5 DEF ThreadOK, Moved, InReady
<1>7. KernelInv(r)
  BY <1>4, <1>6, KernelKept
<1>8. Loose(r, t)
  BY <1>2, <1>4, <1>5 DEF Loose, InReady
<1> QED  BY <1>2, <1>4, <1>7, <1>8 DEF r, Parked, Loose

\* The memory of a closed thread off the defunct list is given back.
LEMMA FreeKernel ==
    ASSUME NEW s, KernelInv(s), NEW t \in Thread, t \in Dynamic, s.thr[t].stat = "CLOSE",
           t \notin ToSet(s.defunct)
    PROVE  LET r == [s EXCEPT !.freed = @ \cup {t}]
           IN  /\ KernelInv(r) /\ r.thr = s.thr /\ r.ready = s.ready /\ r.waiting = s.waiting
               /\ r.defunct = s.defunct /\ r.app = s.app /\ r.freed = s.freed \cup {t}
<1> DEFINE f == s.freed \cup {t}
           r == [s EXCEPT !.freed = f]
<1>1. s \in Kernel /\ Table(s) /\ f \in SUBSET Dynamic
  BY ThreadFacts, KernelFields
<1>2. /\ r.thr = s.thr /\ r.ready = s.ready /\ r.waiting = s.waiting /\ r.group = s.group
      /\ r.defunct = s.defunct /\ r.app = s.app /\ r.freed = f
  BY <1>1 DEF Kernel
<1>3. r \in Kernel
  <2> HIDE DEF f
  <2> QED  BY <1>1 DEF Kernel
<1>4. Table(r)
  BY <1>1, <1>2, <1>3 DEF Table
<1>5. ASSUME NEW u \in Thread PROVE ThreadOK(r, u)
  <2>1. ThreadOK(s, u)
    BY DEF KernelInv
  <2> QED  BY <1>2, <2>1 DEF ThreadOK
<1> QED  BY <1>2, <1>4, <1>5 DEF KernelInv

\* rt_schedule always finds a thread, and no ready thread has a higher priority.
LEMMA NextThreadListed ==
    ASSUME NEW s, KernelInv(s), InReady(s, Idle)
    PROVE  /\ NextThread(s) \in Thread /\ InReady(s, NextThread(s))
           /\ \A t \in Thread : InReady(s, t) => s.thr[NextThread(s)].prio <= s.thr[t].prio
<1> DEFINE p0 == Min(s.group)
           l == s.ready[p0]
           n == NextThread(s)
<1>1. /\ s.group \subseteq Prio /\ \A p \in Prio : s.ready[p] \in Seq(Thread)
      /\ \A p \in Prio : p \in s.group <=> s.ready[p] # <<>>
  BY KernelFields DEF KernelInv, Table
<1>2. Prio \subseteq Nat
  BY PriorityAssumption DEF Prio
<1>3. ASSUME NEW t \in Thread, InReady(s, t) PROVE s.thr[t].prio \in s.group
  <2>1. s.thr[t].prio \in Prio /\ t \in ToSet(s.ready[s.thr[t].prio])
    BY <1>3, ThreadFacts
  <2>2. s.ready[s.thr[t].prio] # <<>>
    BY <1>1, <2>1, EmptyIsNobody
  <2> QED  BY <1>1, <2>1, <2>2
<1>4. s.group # {}
  BY <1>3, IdleAssumption
<1>5. p0 \in s.group /\ \A p \in s.group : p0 <= p
  BY <1>1, <1>2, <1>4, MinProperties
<1>6. l # <<>> /\ l \in Seq(Thread) /\ p0 \in Prio
  BY <1>1, <1>5
<1>7. n = Head(l)
  BY <1>4, <1>6 DEF NextThread
<1>8. Head(l) \in ToSet(l) /\ Head(l) \in Thread
  BY <1>6, HeadTailSet
<1> HIDE DEF n, p0
<1>9. n \in Thread /\ InReady(s, n) /\ s.thr[n].prio = p0
  <2>1. n \in Thread /\ n \in ToSet(s.ready[p0])
    BY <1>7, <1>8
  <2>2. ThreadOK(s, n)
    BY <2>1, ThreadFacts
  <2> QED  BY <1>6, <2>1, <2>2 DEF InReady, ThreadOK
<1> QED  BY <1>3, <1>5, <1>9 DEF n

\* An empty kernel, all threads initialised.
LEMMA EmptyKernel ==
    ASSUME NEW a \in Apps
    PROVE  KernelInv([app |-> a, thr |-> [u \in Thread |-> ThreadInit(u)],
                      ready |-> [p \in Prio |-> <<>>], group |-> {}, waiting |-> {},
                      defunct |-> <<>>, freed |-> {}])
<1> DEFINE s == [app |-> a, thr |-> [u \in Thread |-> ThreadInit(u)],
                 ready |-> [p \in Prio |-> <<>>], group |-> {}, waiting |-> {},
                 defunct |-> <<>>, freed |-> {}]
           thr == [u \in Thread |-> ThreadInit(u)]
<1>1. \A u \in Thread : ThreadInit(u) \in Tcb
  BY IdleAssumption DEF ThreadInit, Tcb, Stat
<1>2. thr \in [Thread -> Tcb]
  BY <1>1
<1>3. [p \in Prio |-> <<>>] \in [Prio -> Seq(Thread)]
  OBVIOUS
<1>4. s \in Kernel
  <2> HIDE DEF thr
  <2>1. [app |-> a, thr |-> thr, ready |-> [p \in Prio |-> <<>>], group |-> {}, waiting |-> {},
         defunct |-> <<>>, freed |-> {}] \in Kernel
    BY <1>2, <1>3 DEF Kernel
  <2> QED  BY <2>1 DEF thr
<1>5. IsInjective(<<>>) /\ ToSet(<<>>) = {}
  BY DEF IsInjective, ToSet
<1>6. Table(s)
  BY <1>4, <1>5 DEF Table
<1>7. ASSUME NEW u \in Thread PROVE ThreadOK(s, u)
  BY <1>5 DEF ThreadOK, ThreadInit
<1> QED  BY <1>6, <1>7 DEF KernelInv

\* The threads at the start of the scheduler.
LEMMA BootKernel ==
    ASSUME NEW a \in Apps, NEW t \in Thread, t # Idle
    PROVE  LET r == Boot(a, t)
           IN  /\ KernelInv(r) /\ r.app = a /\ r.freed = {} /\ InReady(r, Idle)
               /\ \A u \in Thread : r.thr[u].stat = "READY" => InReady(r, u)
<1> DEFINE s == [app |-> a, thr |-> [u \in Thread |-> ThreadInit(u)],
                 ready |-> [p \in Prio |-> <<>>], group |-> {}, waiting |-> {},
                 defunct |-> <<>>, freed |-> {}]
           s1 == Startup(s, t)
           s2 == Resume(s1, t)
           s3 == Startup(s2, Idle)
           r == Resume(s3, Idle)
<1>1. /\ KernelInv(s) /\ s.app = a /\ s.freed = {}
      /\ \A u \in Thread : s.thr[u].stat = "INIT"
  BY EmptyKernel DEF ThreadInit
<1>2. Boot(a, t) = r
  BY DEF Boot
<1>3. Idle \in Thread
  BY IdleAssumption
<1> HIDE DEF s
<1>4. KernelInv(s1) /\ Moved(s, s1, t) /\ s1.thr[t].stat = "SUSPEND"
  BY <1>1, StartupKernel DEF Parked
<1> HIDE DEF s1
<1>5. KernelInv(s2) /\ Moved(s1, s2, t) /\ InReady(s2, t)
  BY <1>4, ResumeKernel DEF Readied
<1> HIDE DEF s2
<1>6. Moved(s, s2, t)
  BY <1>4, <1>5, MovedTrans
<1>7. s2.thr[Idle].stat = "INIT"
  BY <1>1, <1>3, <1>6 DEF Moved
<1>8. KernelInv(s3) /\ Moved(s2, s3, Idle) /\ s3.thr[Idle].stat = "SUSPEND"
  BY <1>3, <1>5, <1>7, StartupKernel DEF Parked
<1> HIDE DEF s3
<1>9. KernelInv(r) /\ Moved(s3, r, Idle) /\ InReady(r, Idle)
  BY <1>3, <1>8, ResumeKernel DEF Readied
<1> HIDE DEF r
<1>10. Moved(s2, r, Idle)
  BY <1>8, <1>9, MovedTrans
<1>11. InReady(r, t)
  BY <1>5, <1>10, MovedReady
<1>12. r.app = a /\ r.freed = {}
  BY <1>1, <1>6, <1>10 DEF Moved
<1>13. ASSUME NEW u \in Thread, u # t, u # Idle PROVE r.thr[u].stat = "INIT"
  BY <1>1, <1>6, <1>10, <1>13 DEF Moved
<1> QED  BY <1>2, <1>9, <1>11, <1>12, <1>13

-----------------------------------------------------------------------------
(* The context switch.                                                      *)

\* The boot code is on the CPU and no switch is recorded.
LEMMA CtxInitial ==
    ASSUME CtxInit PROVE CtxInv
<1>1. nest \in 0..MaxNest
  BY MaxNestAssumption DEF CtxInit
<1>2. saved \in [Thread -> Pointer] /\ ContextIntact
  BY DEF CtxInit, Pointer, ContextIntact
<1> QED  BY <1>1, <1>2, Zenon DEF CtxInit, CtxInv, CtxTypeOK, Pointer

\* A step outside the port changes nothing.
LEMMA CtxKept ==
    ASSUME CtxInv, UNCHANGED ctxVars PROVE CtxInv'
BY DEF ctxVars, CtxInv, CtxTypeOK, Pointer, ContextIntact

\* The first thread is chosen.
LEMMA CtxStart ==
    ASSUME CtxInv, NEW t \in Thread, StartFirst(t)
    PROVE  CtxInv'
BY NoThreadAssumption DEF StartFirst, CtxInv, CtxTypeOK, Pointer, ContextIntact

\* A switch recorded, or recorded again, is from the thread on the CPU to rt_current_thread.
LEMMA CtxSwitch ==
    ASSUME CtxInv, NEW t \in Thread, SwitchTo(t), current # NoThread
    PROVE  CtxInv'
BY NoThreadAssumption DEF SwitchTo, CtxInv, CtxTypeOK, Pointer, ContextIntact

\* PendSV puts rt_current_thread on the CPU and leaves every frame as it is.
LEMMA CtxPendSV ==
    ASSUME CtxInv, PendSV
    PROVE  CtxInv' /\ flag /\ ~flag' /\ cpu' = current /\ current \in Thread
<1> USE NoThreadAssumption
<1>1. flag /\ to \in Thread /\ to = current /\ from = cpu
  BY DEF PendSV, CtxInv
<1>2. saved' = saved
  <2>1. CASE from = NoThread
    BY <2>1, <1>1 DEF PendSV
  <2>2. CASE from # NoThread
    <3>1. from \in Thread /\ saved[from] = cpu
      BY <2>2, <1>1 DEF CtxInv, CtxTypeOK, Pointer, ContextIntact
    <3> QED  BY <3>1, <2>2, <1>1 DEF PendSV, CtxInv, CtxTypeOK
  <2> QED  BY <2>1, <2>2
<1>3. cpu' = current
  BY <1>1, <1>2 DEF PendSV, CtxInv, ContextIntact
<1>4. CtxInv'
  BY <1>1, <1>2, <1>3 DEF PendSV, CtxInv, CtxTypeOK, Pointer, ContextIntact
<1> QED  BY <1>1, <1>3, <1>4 DEF PendSV

\* rt_interrupt_enter and rt_interrupt_leave.
LEMMA CtxIrq ==
    ASSUME CtxInv, IrqEnter \/ IrqLeave
    PROVE  CtxInv'
<1> USE MaxNestAssumption
<1>1. CASE IrqEnter
  BY <1>1 DEF IrqEnter, CtxInv, CtxTypeOK, Pointer, ContextIntact
<1>2. CASE IrqLeave
  BY <1>2 DEF IrqLeave, CtxInv, CtxTypeOK, Pointer, ContextIntact
<1> QED  BY <1>1, <1>2

\* The switch protocol keeps its invariant: a recorded switch goes from the
\* thread on the CPU to rt_current_thread (rt_hw_context_switch, PendSV_Handler).
THEOREM CtxInvariance == CtxSpec => []CtxInv
<1>1. CtxInit => CtxInv
  BY CtxInitial
<1>2. CtxInv /\ [CtxNext]_ctxVars => CtxInv'
  <2> SUFFICES ASSUME CtxInv, [CtxNext]_ctxVars PROVE CtxInv'
    OBVIOUS
  <2>1. ASSUME NEW t \in Thread, StartFirst(t) \/ Switch(t) PROVE CtxInv'
    <3>1. CASE StartFirst(t)
      BY <3>1, CtxStart
    <3>2. CASE Switch(t)
      <4>1. SwitchTo(t) /\ current # NoThread
        BY <3>2 DEF Switch
      <4> QED  BY <4>1, CtxSwitch
    <3> QED  BY <2>1, <3>1, <3>2
  <2>2. ASSUME PendSV PROVE CtxInv'
    BY <2>2, CtxPendSV
  <2>3. ASSUME IrqEnter \/ IrqLeave PROVE CtxInv'
    BY <2>3, CtxIrq
  <2>4. ASSUME UNCHANGED ctxVars PROVE CtxInv'
    BY <2>4, CtxKept
  <2> QED  BY <2>1, <2>2, <2>3, <2>4 DEF CtxNext
<1> QED  BY <1>1, <1>2, PTL DEF CtxSpec

\* PendSV never stores registers into another thread's frame.
THEOREM ContextIntactInvariance == CtxSpec => []ContextIntact
<1>1. CtxInv => ContextIntact
  BY DEF CtxInv
<1> QED  BY <1>1, CtxInvariance, PTL

\* Thread code always runs as rt_current_thread.
THEOREM RunsCurrentInvariance == CtxSpec => []RunsCurrent
<1>1. CtxInv => RunsCurrent
  BY DEF CtxInv, RunsCurrent, ThreadMode
<1> QED  BY <1>1, CtxInvariance, PTL

-----------------------------------------------------------------------------
(* What a step of a thread has to keep.                                     *)

\* What is known when thread code runs.
LEMMA AtFacts ==
    ASSUME SchedInv, NEW t \in Thread, NEW step, At(t, step)
    PROVE  /\ current = t /\ cpu = t /\ ~flag /\ nest = 0 /\ isr = <<>> /\ pc[t].at = step
           /\ step # "sched" => InReady(k, t) /\ k.thr[t].stat = "READY"
           /\ step # "sched" /\ lock = 0 /\ ~owed => Highest
<1>1. cpu = t /\ nest = 0 /\ ~pendsv /\ pc[t].at = step /\ current = t /\ ~flag
  BY DEF At, ThreadMode, SchedInv, CtxInv
<1>2. isr = <<>>
  BY <1>1 DEF SchedInv, ControlInv
<1>3. t # NoThread
  BY NoThreadAssumption
<1>4. step # "sched" => InReady(k, t)
  BY <1>1, <1>3 DEF SchedInv, CurrentInv
<1>5. step # "sched" /\ lock = 0 /\ ~owed => Highest
  BY <1>1, <1>2, <1>3 DEF SchedInv, HighestInv
<1>6. InReady(k, t) => k.thr[t].stat = "READY"
  BY ThreadFacts DEF SchedInv
<1> QED  BY <1>1, <1>2, <1>4, <1>5, <1>6

\* What y is doing, when u moves and neither is in the way of the other.
LEMMA HandKept ==
    ASSUME NEW y \in Thread, HandOK(y), NEW u \in Thread, Moved(k, k', u),
           pc'[y] = pc[y], pc[y].arg # u, y = u /\ pc[y].arg # NoThread => InReady(k', u)
    PROVE  HandOK(y)'
<1> DEFINE w == pc[y].arg
<1>1. w # NoThread => w \in Thread /\ InReady(k', y)
  <2>1. w # NoThread => w \in Thread /\ InReady(k, y)
    BY DEF HandOK
  <2> QED  BY <2>1, MovedReady
<1>2. w \in Thread => (InReady(k', w) <=> InReady(k, w))
  BY MovedReady
<1>3. w \in Thread => /\ k'.thr[w] = k.thr[w] /\ (w \in k'.waiting <=> w \in k.waiting)
                      /\ w \in ToSet(k'.defunct) <=> w \in ToSet(k.defunct)
                      /\ InReady(k', w) <=> InReady(k, w)
  BY <1>2 DEF Moved
<1>4. pc[y].at \in {"unlink", "insert", "timer", "close", "free"} => w \in Thread
  BY <1>1 DEF HandOK
<1> QED  BY <1>1, <1>3, <1>4 DEF HandOK, Loose

\* A step that moves u and what t is doing keeps what the other threads are doing.
LEMMA HandsKept ==
    ASSUME HandsInv, NEW t \in Thread, NEW u \in Thread, Moved(k, k', u),
           pc' \in [Thread -> [at : Step \ {"suspend"}, arg : Pointer]],
           \A y \in Thread : y # t => pc'[y] = pc[y] /\ pc[y].arg # u,
           pc[u].arg # NoThread => u = t \/ InReady(k', u),
           HandOK(t)',
           pc'[t].arg # NoThread => \A y \in Thread : y # t => pc[y].arg # pc'[t].arg
    PROVE  HandsInv'
<1>1. ASSUME NEW y \in Thread, y # t PROVE HandOK(y)'
  <2>1. HandOK(y) /\ pc'[y] = pc[y] /\ pc[y].arg # u
    BY <1>1 DEF HandsInv
  <2>2. y = u /\ pc[y].arg # NoThread => InReady(k', u)
    BY <1>1
  <2> QED  BY <2>1, <2>2, HandKept
<1>2. \A y, z \in Thread : pc'[y].arg = pc'[z].arg /\ pc'[y].arg # NoThread => y = z
  BY DEF HandsInv
<1> QED  BY <1>1, <1>2 DEF HandsInv

\* No READY thread is forgotten by a step that moves u alone.
LEMMA ReadyKept ==
    ASSUME ReadyInv, NEW t \in Thread, NEW u \in Thread, Moved(k, k', u),
           \A y \in Thread : y # t => pc'[y] = pc[y],
           pc[t].at \in {"timer", "close"} => pc[t].arg = u,
           k'.thr[u].stat = "READY" =>
              InReady(k', u) \/ (pc'[t].at \in {"timer", "close"} /\ pc'[t].arg = u)
    PROVE  ReadyInv'
<1> SUFFICES ASSUME NEW w \in Thread, k'.thr[w].stat = "READY"
             PROVE  InReady(k', w) \/ \E x \in Thread : pc'[x].at \in {"timer", "close"} /\ pc'[x].arg = w
  BY DEF ReadyInv
<1>1. CASE w = u
  BY <1>1
<1>2. CASE w # u
  <2>1. InReady(k, w) \/ \E x \in Thread : pc[x].at \in {"timer", "close"} /\ pc[x].arg = w
    BY <1>2 DEF ReadyInv, Moved
  <2>2. CASE InReady(k, w)
    BY <1>2, <2>2, MovedReady
  <2>3. ASSUME NEW x \in Thread, pc[x].at \in {"timer", "close"}, pc[x].arg = w
        PROVE  pc'[x].at \in {"timer", "close"} /\ pc'[x].arg = w
    BY <1>2, <2>3
  <2> QED  BY <2>1, <2>2, <2>3
<1> QED  BY <1>1, <1>2

\* The current thread stays the one of the highest priority when nobody else rises.
LEMMA HighestKept ==
    ASSUME Highest, NEW u \in Thread, Moved(k, k', u), current' = current, current \in Thread,
           InReady(k', current), k'.thr[current].prio = k.thr[current].prio,
           InReady(k', u) => InReady(k, u) /\ k'.thr[u].prio = k.thr[u].prio
    PROVE  Highest'
<1>1. ASSUME NEW w \in Thread, InReady(k', w) PROVE k'.thr[current].prio <= k'.thr[w].prio
  <2>1. CASE w = u
    BY <1>1, <2>1 DEF Highest
  <2>2. CASE w # u
    <3>1. InReady(k, w)
      BY <1>1, <2>2, MovedReady
    <3>2. k'.thr[w] = k.thr[w]
      BY <2>2 DEF Moved
    <3> QED  BY <3>1, <3>2 DEF Highest
  <2> QED  BY <2>1, <2>2
<1> QED  BY <1>1 DEF Highest

\* A section of t that moves u alone, outside handlers.
LEMMA ThreadStep ==
    ASSUME SchedInv, NEW t \in Thread, NEW u \in Thread, NEW step, At(t, step),
           UNCHANGED <<ctxVars, isr>>, KernelInv(k'), Moved(k, k', u), HandsInv', ReadyInv',
           u = Idle => InReady(k', Idle),
           lock' \in Nat, lock' <= k.app.lock, owed' \in BOOLEAN,
           InReady(k', t) \/ (lock' = 0 /\ pc'[t].at = "sched"),
           lock' = 0 /\ ~owed' => pc'[t].at = "sched" \/ Highest',
           \A y \in Thread : Ending(y)' => pc'[y] = pc[y] \/ pc'[y].arg # t
    PROVE  SchedInv'
<1>1. /\ current = t /\ cpu = t /\ ~flag /\ nest = 0 /\ isr = <<>>
      /\ current' = current /\ cpu' = cpu /\ flag' = flag /\ nest' = nest /\ isr' = isr
  BY AtFacts DEF ctxVars
<1>2. CtxInv'
  BY CtxKept DEF SchedInv
<1>3. k'.freed = k.freed /\ k'.app = k.app
  BY DEF Moved
<1>4. OffInv'
  BY <1>1, <1>3 DEF SchedInv, OffInv, Off, Ending
<1>5. CurrentInv'
  BY <1>1 DEF CurrentInv
<1>6. HighestInv'
  BY <1>1 DEF HighestInv
<1>7. t # NoThread
  BY NoThreadAssumption
<1>8. InReady(k', Idle)
  <2>1. InReady(k, Idle) /\ Idle \in Thread
    BY IdleAssumption DEF SchedInv, ControlInv
  <2> QED  BY <2>1, MovedReady
<1>9. ControlInv'
  BY <1>1, <1>3, <1>7, <1>8 DEF SchedInv, ControlInv
<1> QED  BY <1>2, <1>4, <1>5, <1>6, <1>9 DEF SchedInv

\* Only the caller goes to its next section.
LEMMA GotoFacts ==
    ASSUME HandsInv, NEW t \in Thread, NEW step \in Step \ {"suspend"}, NEW arg \in Pointer, Goto(t, step, arg)
    PROVE  /\ pc' \in [Thread -> [at : Step \ {"suspend"}, arg : Pointer]]
           /\ pc'[t].at = step /\ pc'[t].arg = arg
           /\ \A y \in Thread : y # t => pc'[y] = pc[y]
<1>1. pc \in [Thread -> [at : Step \ {"suspend"}, arg : Pointer]]
  BY DEF HandsInv
<1>2. [at |-> step, arg |-> arg] \in [at : Step \ {"suspend"}, arg : Pointer]
  OBVIOUS
<1> QED  BY <1>1, <1>2 DEF Goto

\* A thread that a call is on is in no ready or suspend list, and its timer is stopped.
LEMMA HandLoose ==
    ASSUME SchedInv, NEW y \in Thread, NEW u \in Thread, pc[y].arg = u
    PROVE  Loose(k, u) /\ InReady(k, y) /\ k.thr[u].stat # "INIT"
<1>1. HandOK(y) /\ u # NoThread /\ pc[y].at \in Step \ {"suspend"}
  BY NoThreadAssumption DEF SchedInv, HandsInv
<1>2. pc[y].at \in {"unlink", "insert", "timer", "close", "free"} /\ InReady(k, y)
  BY <1>1 DEF HandOK, Step
<1>3. k.thr[u].stat = "CLOSE" => Loose(k, u)
  BY ThreadFacts DEF SchedInv, ThreadOK, Loose
<1> QED  BY <1>1, <1>2, <1>3 DEF HandOK

\* Who is not listed is in the middle of no call on another thread.
LEMMA NotBusy ==
    ASSUME SchedInv, NEW y \in Thread, ~InReady(k, y) \/ pc[y].at \in {"user", "sched"}
    PROVE  pc[y].arg = NoThread
BY DEF SchedInv, HandsInv, HandOK

\* Somebody else's hands stay as they are when t ends its call.
LEMMA PlainHands ==
    ASSUME SchedInv, NEW t \in Thread, NEW u \in Thread, Moved(k, k', u),
           NEW step \in {"user", "sched"}, Goto(t, step, NoThread),
           \A y \in Thread : y # t => pc[y].arg # u,
           u = t \/ InReady(k', u) \/ ~InReady(k, u)
    PROVE  /\ HandsInv' /\ pc'[t].at = step /\ \A y \in Thread : y # t => pc'[y] = pc[y]
           /\ \A y \in Thread : Ending(y)' => pc'[y] = pc[y]
<1>0. step \in Step \ {"suspend"} /\ NoThread \in Pointer
  BY DEF Step, Pointer
<1>1. /\ pc' \in [Thread -> [at : Step \ {"suspend"}, arg : Pointer]]
      /\ pc'[t].at = step /\ pc'[t].arg = NoThread
      /\ \A y \in Thread : y # t => pc'[y] = pc[y]
  BY <1>0, GotoFacts DEF SchedInv
<1>2. HandOK(t)'
  BY <1>1 DEF HandOK
<1>3. pc[u].arg # NoThread => u = t \/ InReady(k', u)
  BY NotBusy
<1>4. HandsInv'
  BY <1>1, <1>2, <1>3, HandsKept DEF SchedInv
<1> QED  BY <1>1, <1>4 DEF Ending

\* Nobody moves.
LEMMA Still ==
    ASSUME NEW s, NEW t PROVE Moved(s, s, t)
BY DEF Moved

\* Ending a call with rt_schedule to follow, u having been made READY, or t having left.
LEMMA EndCall ==
    ASSUME SchedInv, NEW t \in Thread, NEW u \in Thread, NEW from0, At(t, from0),
           from0 \notin {"timer", "close"}, Goto(t, "sched", NoThread),
           UNCHANGED <<ctxVars, isr, owed>>, KernelInv(k'), Moved(k, k', u),
           lock' \in Nat, lock' <= k.app.lock,
           \A y \in Thread : y # t => pc[y].arg # u,
           u = t \/ InReady(k', u) \/ ~InReady(k, u),
           k'.thr[u].stat = "READY" => InReady(k', u),
           u = Idle => InReady(k', Idle),
           lock' = 0 \/ InReady(k', t)
    PROVE  SchedInv'
<1>1. /\ HandsInv' /\ pc'[t].at = "sched" /\ \A y \in Thread : y # t => pc'[y] = pc[y]
      /\ \A y \in Thread : Ending(y)' => pc'[y] = pc[y]
  BY PlainHands
<1>2. pc[t].at = from0
  BY AtFacts
<1>3. ReadyInv'
  <2>1. ReadyInv /\ (pc[t].at \in {"timer", "close"} => pc[t].arg = u)
    BY <1>2 DEF SchedInv
  <2>2. k'.thr[u].stat = "READY" =>
           InReady(k', u) \/ (pc'[t].at \in {"timer", "close"} /\ pc'[t].arg = u)
    OBVIOUS
  <2> QED  BY <1>1, <2>1, <2>2, ReadyKept
<1>4. owed' \in BOOLEAN
  BY DEF SchedInv, ControlInv
<1> QED  BY <1>1, <1>3, <1>4, ThreadStep

-----------------------------------------------------------------------------
(* The operations of thread code.                                           *)

\* An IPC operation that resumes a waiting thread.
LEMMA Step_Wake ==
    ASSUME SchedInv, NEW t \in Thread, NEW u \in Thread, Wake(t, u)
    PROVE  SchedInv'
<1>1. At(t, "user") /\ UNCHANGED <<ctxVars, isr, owed>> /\ lock' = lock /\ Goto(t, "sched", NoThread)
  BY DEF Wake, Calls
<1>2. KernelInv(k') /\ Moved(k, k', u) /\ InReady(k', u)
  BY ResumeKernel DEF Wake, SchedInv, Readied
<1>3. InReady(k, t)
  BY <1>1, AtFacts
<1>4. InReady(k', t)
  BY <1>2, <1>3, MovedReady
<1>5. \A y \in Thread : pc[y].arg # u
  BY HandLoose DEF Wake, Loose
<1>6. lock \in Nat /\ lock <= k.app.lock
  BY DEF SchedInv, ControlInv
<1> QED  BY <1>1, <1>2, <1>4, <1>5, <1>6, EndCall

\* The caller blocks, sleeps or ends.
LEMMA Step_Leave ==
    ASSUME SchedInv, NEW t \in Thread,
           (\E timed \in BOOLEAN : Block(t, timed)) \/ rt_thread_sleep(t) \/ rt_thread_exit(t)
    PROVE  SchedInv'
<1>1. /\ At(t, "user") /\ UNCHANGED <<ctxVars, isr, owed>> /\ lock' = lock /\ Goto(t, "sched", NoThread)
      /\ t # Idle /\ lock = 0
  BY DEF Block, rt_thread_sleep, rt_thread_exit, Calls
<1>2. InReady(k, t) /\ k.thr[t].stat = "READY"
  BY <1>1, AtFacts
<1>3. KernelInv(k') /\ Moved(k, k', t) /\ ~InReady(k', t) /\ k'.thr[t].stat # "READY"
  <2>1. ASSUME NEW timed \in BOOLEAN, Block(t, timed)
        PROVE  KernelInv(k') /\ Moved(k, k', t) /\ ~InReady(k', t) /\ k'.thr[t].stat # "READY"
    BY <1>2, <2>1, BlockKernel DEF Block, SchedInv, Parked
  <2>2. CASE rt_thread_sleep(t)
    BY <1>2, <2>2, SleepKernel DEF rt_thread_sleep, SchedInv, Parked
  <2>3. CASE rt_thread_exit(t)
    BY <1>2, <2>3, ExitKernel DEF rt_thread_exit, SchedInv, Closed
  <2> QED  BY <2>1, <2>2, <2>3
<1>4. \A y \in Thread : pc[y].arg # t
  BY <1>2, HandLoose DEF Loose
<1>5. lock \in Nat /\ lock <= k.app.lock
  BY DEF SchedInv, ControlInv
<1> QED  BY <1>1, <1>3, <1>4, <1>5, EndCall

\* A rotation needs the thread to be listed.
LEMMA YieldFacts ==
    ASSUME SchedInv, NEW t \in Thread, k' = YieldSection(k, t), k' # k
    PROVE  /\ KernelInv(k') /\ Moved(k, k', t) /\ InReady(k, t) /\ InReady(k', t)
           /\ k'.thr = k.thr
<1>1. Rotated(k, k', t)
  BY YieldKernel DEF SchedInv
<1>2. HasPeer(k, t)
  BY DEF YieldSection
<1>3. \A p \in Prio : k.ready[p] \in Seq(Thread)
  BY KernelFields DEF SchedInv, KernelInv, Table
<1>4. InReady(k, t)
  BY <1>2, <1>3, ContainsIsToSet DEF HasPeer, InReady
<1> QED  BY <1>1, <1>4 DEF Rotated

\* rt_thread_yield.
LEMMA Step_Yield ==
    ASSUME SchedInv, NEW t \in Thread, rt_thread_yield(t)
    PROVE  SchedInv'
<1>1. /\ At(t, "user") /\ UNCHANGED <<ctxVars, isr, owed>> /\ lock' = lock /\ Goto(t, "sched", NoThread)
  BY DEF rt_thread_yield, Calls
<1>2. current = t
  BY <1>1, AtFacts
<1>3. KernelInv(k') /\ Moved(k, k', t) /\ InReady(k, t) /\ InReady(k', t)
  BY <1>2, YieldFacts DEF rt_thread_yield
<1>4. \A y \in Thread : pc[y].arg # t
  BY <1>3, HandLoose DEF Loose
<1>5. lock \in Nat /\ lock <= k.app.lock
  BY DEF SchedInv, ControlInv
<1> QED  BY <1>1, <1>3, <1>4, <1>5, EndCall

\* rt_enter_critical and rt_exit_critical.
LEMMA Step_Critical ==
    ASSUME SchedInv, NEW t \in Thread, rt_enter_critical(t) \/ rt_exit_critical(t)
    PROVE  SchedInv'
<1>1. At(t, "user") /\ UNCHANGED <<ctxVars, isr, owed, k>>
  BY DEF rt_enter_critical, rt_exit_critical, Calls
<1>2. /\ lock \in Nat /\ k.app.lock \in Nat /\ lock <= k.app.lock
  <2>1. k.app \in Apps
    BY KernelFields DEF SchedInv, KernelInv, Table
  <2> QED  BY <2>1, AppsAssumption DEF SchedInv, ControlInv
<1>3. lock' \in Nat /\ lock' <= k.app.lock
  BY <1>2 DEF rt_enter_critical, rt_exit_critical
<1>4. KernelInv(k') /\ Moved(k, k', t) /\ InReady(k, t) /\ InReady(k', t)
  BY <1>1, AtFacts, Still DEF SchedInv
<1>5. CASE lock' = 0
  <2>1. Goto(t, "sched", NoThread)
    BY <1>2, <1>5 DEF rt_enter_critical, rt_exit_critical
  <2>2. \A y \in Thread : pc[y].arg # t
    BY <1>4, HandLoose DEF Loose
  <2> QED  BY <1>1, <1>3, <1>4, <2>1, <2>2, EndCall
<1>6. CASE lock' # 0
  <2>1. pc' = pc
    BY <1>6 DEF rt_enter_critical, rt_exit_critical
  <2>2. HandsInv' /\ ReadyInv'
    BY <1>1, <2>1 DEF SchedInv, HandsInv, HandOK, ReadyInv
  <2>3. owed' \in BOOLEAN
    BY <1>1 DEF SchedInv, ControlInv
  <2>4. t = Idle => InReady(k', Idle)
    BY <1>4
  <2>5. InReady(k', t) \/ (lock' = 0 /\ pc'[t].at = "sched")
    BY <1>4
  <2>6. lock' = 0 /\ ~owed' => pc'[t].at = "sched" \/ Highest'
    BY <1>6
  <2>7. \A y \in Thread : Ending(y)' => pc'[y] = pc[y] \/ pc'[y].arg # t
    BY <2>1
  <2> QED  BY <1>1, <1>3, <1>4, <2>2, <2>3, <2>4, <2>5, <2>6, <2>7, ThreadStep
<1> QED  BY <1>5, <1>6

\* rt_thread_control: rt_schedule is owed.
LEMMA Step_Control ==
    ASSUME SchedInv, NEW t \in Thread, NEW u \in Thread, NEW p \in Prio, rt_thread_control(t, u, p)
    PROVE  SchedInv'
<1>1. /\ At(t, "user") /\ UNCHANGED <<ctxVars, isr>> /\ lock' = lock /\ pc' = pc /\ owed' = TRUE
      /\ u # Idle /\ ~InHand(u) /\ k.thr[u].stat \in {"READY", "SUSPEND"}
      /\ k' = ChangePriority(k, u, p)
  BY DEF rt_thread_control, Calls
<1>2. k.thr[u].stat = "READY" => InReady(k, u)
  BY <1>1 DEF SchedInv, ReadyInv, InHand
<1>3. KernelInv(k') /\ Moved(k, k', u) /\ (InReady(k', u) <=> InReady(k, u)) /\ k'.thr[u].stat = k.thr[u].stat
  BY <1>1, <1>2, PriorityKernel DEF SchedInv
<1>4. InReady(k', t)
  <2>1. InReady(k, t)
    BY <1>1, AtFacts
  <2> QED  BY <1>3, <2>1, MovedReady
<1>5. \A y \in Thread : HandOK(y) /\ pc[y].arg # u /\ pc[t].at = "user"
  BY <1>1, AtFacts DEF SchedInv, HandsInv, InHand
<1>6. HandsInv'
  <2>1. ASSUME NEW y \in Thread PROVE HandOK(y)'
    <3>1. y = u /\ pc[y].arg # NoThread => InReady(k', u)
      BY <1>3, <1>5 DEF HandOK
    <3> QED  BY <1>1, <1>3, <1>5, <3>1, HandKept
  <2> QED  BY <1>1, <2>1 DEF SchedInv, HandsInv
<1>7. ReadyInv'
  <2>1. ReadyInv /\ (pc[t].at \in {"timer", "close"} => pc[t].arg = u) /\ \A y \in Thread : y # t => pc'[y] = pc[y]
    BY <1>1, <1>5 DEF SchedInv
  <2>2. k'.thr[u].stat = "READY" =>
           InReady(k', u) \/ (pc'[t].at \in {"timer", "close"} /\ pc'[t].arg = u)
    BY <1>2, <1>3
  <2> QED  BY <1>3, <2>1, <2>2, ReadyKept
<1>8. lock' \in Nat /\ lock' <= k.app.lock /\ owed' \in BOOLEAN
  BY <1>1 DEF SchedInv, ControlInv
<1>9. \A y \in Thread : Ending(y)' => pc'[y] = pc[y] \/ pc'[y].arg # t
  BY <1>1
<1>10. lock' = 0 /\ ~owed' => pc'[t].at = "sched" \/ Highest'
  BY <1>1
<1>11. InReady(k', t) \/ (lock' = 0 /\ pc'[t].at = "sched")
  BY <1>4
<1> QED  BY <1>1, <1>3, <1>6, <1>7, <1>8, <1>9, <1>10, <1>11, ThreadStep

\* t goes on with its call on u, which nobody else is at and which is in no list.
LEMMA Continue ==
    ASSUME SchedInv, NEW t \in Thread, NEW u \in Thread, NEW from0, At(t, from0), from0 # "sched",
           NEW step \in Step \ {"suspend", "user", "sched"}, Goto(t, step, u), u # t, u # Idle,
           UNCHANGED <<ctxVars, isr, owed, lock>>, KernelInv(k'), Moved(k, k', u),
           \A y \in Thread : y # t => pc[y].arg # u,
           pc[u].arg = NoThread, ~InReady(k', u),
           from0 \in {"timer", "close"} => pc[t].arg = u,
           k'.thr[u].stat = "READY" => step \in {"timer", "close"},
           step \in {"unlink", "insert"} => k'.thr[u].stat = "SUSPEND" /\ Loose(k', u),
           step \in {"timer", "close"} => k'.thr[u].stat \in {"READY", "SUSPEND"} /\ Loose(k', u),
           step = "free" => u \in Dynamic /\ k'.thr[u].stat = "CLOSE" /\ u \notin ToSet(k'.defunct)
    PROVE  SchedInv'
<1>0. step \in Step \ {"suspend"} /\ u \in Pointer /\ u # NoThread
  BY NoThreadAssumption DEF Pointer
<1>1. /\ pc' \in [Thread -> [at : Step \ {"suspend"}, arg : Pointer]]
      /\ pc'[t].at = step /\ pc'[t].arg = u
      /\ \A y \in Thread : y # t => pc'[y] = pc[y]
  BY <1>0, GotoFacts DEF SchedInv
<1>2. InReady(k, t) /\ pc[t].at = from0 /\ current = t /\ (lock = 0 /\ ~owed => Highest)
  BY AtFacts
<1>3. InReady(k', t)
  BY <1>2, MovedReady
<1>4. HandOK(t)'
  BY <1>0, <1>1, <1>3 DEF HandOK
<1>5. HandsInv'
  <2>1. HandsInv /\ (pc[u].arg # NoThread => u = t \/ InReady(k', u))
    BY DEF SchedInv
  <2>2. \A y \in Thread : y # t => pc'[y] = pc[y] /\ pc[y].arg # u
    BY <1>1
  <2>3. pc'[t].arg # NoThread => \A y \in Thread : y # t => pc[y].arg # pc'[t].arg
    BY <1>1
  <2> QED  BY <1>1, <1>4, <2>1, <2>2, <2>3, HandsKept
<1>6. ReadyInv'
  <2>1. ReadyInv /\ (pc[t].at \in {"timer", "close"} => pc[t].arg = u)
    BY <1>2 DEF SchedInv
  <2>2. k'.thr[u].stat = "READY" =>
           InReady(k', u) \/ (pc'[t].at \in {"timer", "close"} /\ pc'[t].arg = u)
    BY <1>1
  <2> QED  BY <1>1, <2>1, <2>2, ReadyKept
<1>7. lock' \in Nat /\ lock' <= k.app.lock /\ owed' \in BOOLEAN
  BY DEF SchedInv, ControlInv
<1>8. \A y \in Thread : Ending(y)' => pc'[y] = pc[y] \/ pc'[y].arg # t
  BY <1>1
<1>9. lock' = 0 /\ ~owed' => pc'[t].at = "sched" \/ Highest'
  <2>1. k'.thr[current] = k.thr[current] /\ current' = current
    BY <1>2 DEF Moved, ctxVars
  <2> QED  BY <1>2, <1>3, <2>1, HighestKept
<1>10. InReady(k', t) \/ (lock' = 0 /\ pc'[t].at = "sched")
  BY <1>3
<1>11. u = Idle => InReady(k', Idle)
  OBVIOUS
<1> QED  BY <1>5, <1>6, <1>7, <1>8, <1>9, <1>10, <1>11, ThreadStep

\* rt_thread_startup: the new thread is in the hands of its caller.
LEMMA Step_Startup ==
    ASSUME SchedInv, NEW t \in Thread, NEW u \in Thread, rt_thread_startup(t, u)
    PROVE  SchedInv'
<1>1. /\ At(t, "user") /\ UNCHANGED <<ctxVars, isr, owed, lock>> /\ Goto(t, "unlink", u)
      /\ k.thr[u].stat = "INIT" /\ ~InHand(u) /\ k' = Startup(k, u)
  BY DEF rt_thread_startup, Calls
<1>2. /\ KernelInv(k') /\ Moved(k, k', u) /\ k'.thr[u].stat = "SUSPEND" /\ Loose(k', u) /\ ~InReady(k', u)
  BY <1>1, StartupKernel DEF SchedInv, Parked
<1>3. k.thr[t].stat = "READY"
  BY <1>1, AtFacts
<1>4. ~InReady(k, u)
  BY <1>1, ThreadFacts DEF SchedInv
<1>5. u # Idle /\ u # t
  BY <1>1, <1>3, <1>4 DEF SchedInv, ControlInv
<1>6. pc[u].arg = NoThread
  BY <1>4, NotBusy
<1>7. \A y \in Thread : pc[y].arg # u
  BY <1>1 DEF InHand
<1>8. "unlink" \in Step \ {"suspend", "user", "sched"}
  BY DEF Step
<1> QED  BY <1>1, <1>2, <1>5, <1>6, <1>7, <1>8, Continue

\* A call on u that is under way.
LEMMA CallFacts ==
    ASSUME SchedInv, NEW t \in Thread, pc[t].at \in {"unlink", "insert", "timer", "close"}
    PROVE  LET u == pc[t].arg
           IN  /\ u \in Thread /\ u # Idle /\ Loose(k, u) /\ pc[u].arg = NoThread /\ InReady(k, t) /\ u # t
               /\ Nowhere(k, u) /\ \A y \in Thread : y # t => pc[y].arg # u
               /\ pc[t].at \in {"unlink", "insert"} => k.thr[u].stat = "SUSPEND"
               /\ pc[t].at \in {"timer", "close"} => k.thr[u].stat \in {"READY", "SUSPEND"}
<1> DEFINE u == pc[t].arg
<1>1. HandOK(t)
  BY DEF SchedInv, HandsInv
<1>2. /\ u # NoThread /\ u \in Thread /\ Loose(k, u) /\ InReady(k, t)
      /\ k.thr[u].stat \in {"READY", "SUSPEND"}
      /\ pc[t].at \in {"unlink", "insert"} => k.thr[u].stat = "SUSPEND"
  BY <1>1 DEF HandOK
<1>3. u # Idle /\ u # t /\ ~InReady(k, u)
  BY <1>2 DEF SchedInv, ControlInv, Loose
<1>4. pc[u].arg = NoThread
  BY <1>2, <1>3, NotBusy
<1>5. Nowhere(k, u)
  BY <1>2, ThreadFacts DEF SchedInv, ThreadOK, Nowhere, Loose
<1>6. \A y \in Thread : y # t => pc[y].arg # u
  BY <1>2 DEF SchedInv, HandsInv
<1> QED  BY <1>2, <1>3, <1>4, <1>5, <1>6

\* The section of rt_thread_resume that unlinks the thread.
LEMMA Step_Resume1 ==
    ASSUME SchedInv, NEW t \in Thread, ResumeStep1(t)
    PROVE  SchedInv'
<1> DEFINE u == pc[t].arg
<1>1. /\ At(t, "unlink") /\ UNCHANGED <<ctxVars, isr, owed, lock>> /\ Goto(t, "insert", u)
      /\ k' = ResumeUnlink(k, u) /\ pc[t].at = "unlink"
  BY DEF ResumeStep1, At
<1>2. /\ u \in Thread /\ u # Idle /\ Loose(k, u) /\ pc[u].arg = NoThread /\ InReady(k, t) /\ u # t
      /\ \A y \in Thread : y # t => pc[y].arg # u
      /\ k.thr[u].stat = "SUSPEND"
  BY <1>1, CallFacts
<1> HIDE DEF u
<1>3. KernelInv(k') /\ Moved(k, k', u) /\ k'.thr[u].stat = "SUSPEND" /\ Loose(k', u) /\ ~InReady(k', u)
  BY <1>1, <1>2, ResumeUnlinkKernel DEF SchedInv, Loose, Nowhere
<1>4. "insert" \in Step \ {"suspend", "user", "sched"}
  BY DEF Step
<1> QED  BY <1>1, <1>2, <1>3, <1>4, Continue

\* The section of rt_thread_resume that makes it READY.
LEMMA Step_Resume2 ==
    ASSUME SchedInv, NEW t \in Thread, ResumeStep2(t)
    PROVE  SchedInv'
<1> DEFINE u == pc[t].arg
<1>1. /\ At(t, "insert") /\ UNCHANGED <<ctxVars, isr, owed>> /\ lock' = lock /\ Goto(t, "sched", NoThread)
      /\ k' = rt_schedule_insert_thread(k, u) /\ pc[t].at = "insert"
  BY DEF ResumeStep2, At
<1>2. /\ u \in Thread /\ u # Idle /\ Loose(k, u) /\ InReady(k, t) /\ u # t
      /\ Nowhere(k, u) /\ \A y \in Thread : y # t => pc[y].arg # u
      /\ k.thr[u].stat = "SUSPEND"
  BY <1>1, CallFacts
<1> HIDE DEF u
<1>3. KernelInv(k') /\ Moved(k, k', u) /\ InReady(k', u)
  BY <1>1, <1>2, InsertKernel DEF SchedInv, Loose
<1>4. InReady(k', t)
  BY <1>2, <1>3, MovedReady
<1>5. lock \in Nat /\ lock <= k.app.lock
  BY DEF SchedInv, ControlInv
<1> QED  BY <1>1, <1>2, <1>3, <1>4, <1>5, EndCall

\* The section of rt_thread_delete that takes the thread off its list.
LEMMA Step_Delete ==
    ASSUME SafeApps, SchedInv, NEW t \in Thread, NEW u \in Thread, Delete(t, u)
    PROVE  SchedInv'
<1>0. k.app \in Apps
  BY KernelFields DEF SchedInv, KernelInv, Table
<1>1. k.app.calls \cap {"suspend", "resume", "delete_busy", "delete_timed", "delete_init"} = {}
  BY <1>0 DEF SafeApps
<1>2. /\ At(t, "user") /\ UNCHANGED <<ctxVars, isr, owed, lock>> /\ Goto(t, "timer", u)
      /\ u # t /\ u # Idle /\ ~InHand(u) /\ k' = rt_schedule_remove_thread(k, u)
      /\ pc[u].arg = NoThread /\ ~k.thr[u].timer /\ k.thr[u].stat # "INIT" /\ k.thr[u].stat # "CLOSE"
  BY <1>1 DEF Delete, Calls
<1>3. k.thr[u].stat \in {"READY", "SUSPEND"}
  BY <1>2, ThreadFacts DEF SchedInv, Stat
<1>4. KernelInv(k') /\ Moved(k, k', u) /\ Nowhere(k', u) /\ k'.thr = k.thr
  BY <1>2, <1>3, RemoveKernel DEF SchedInv
<1>5. Loose(k', u) /\ ~InReady(k', u) /\ k'.thr[u].stat \in {"READY", "SUSPEND"}
  BY <1>2, <1>3, <1>4 DEF Loose, Nowhere
<1>6. \A y \in Thread : pc[y].arg # u
  BY <1>2 DEF InHand
<1>7. "timer" \in Step \ {"suspend", "user", "sched"}
  BY DEF Step
<1> QED  BY <1>2, <1>4, <1>5, <1>6, <1>7, Continue

\* The section of rt_thread_delete that detaches the timer.
LEMMA Step_DeleteTimer ==
    ASSUME SchedInv, NEW t \in Thread, DeleteTimer(t)
    PROVE  SchedInv'
<1> DEFINE u == pc[t].arg
<1>1. /\ At(t, "timer") /\ UNCHANGED <<ctxVars, isr, owed, lock>> /\ Goto(t, "close", u)
      /\ k' = [k EXCEPT !.thr[u].timer = FALSE] /\ pc[t].at = "timer"
  BY DEF DeleteTimer, At
<1>2. /\ u \in Thread /\ u # Idle /\ Loose(k, u) /\ pc[u].arg = NoThread /\ u # t
      /\ \A y \in Thread : y # t => pc[y].arg # u
      /\ k.thr[u].stat \in {"READY", "SUSPEND"} /\ pc[t].arg = u
  BY <1>1, CallFacts
<1> HIDE DEF u
<1>3. k.thr[u] \in Tcb
  BY <1>2, ThreadFacts DEF SchedInv
<1>4. /\ KernelInv(k') /\ Moved(k, k', u) /\ k'.thr[u] = [k.thr[u] EXCEPT !.timer = FALSE]
      /\ k'.ready = k.ready /\ k'.waiting = k.waiting
  BY <1>1, <1>2, TimerOffKernel DEF SchedInv
<1>5. Loose(k', u) /\ ~InReady(k', u) /\ k'.thr[u].stat \in {"READY", "SUSPEND"}
  BY <1>2, <1>3, <1>4 DEF Loose, InReady, Tcb
<1>6. "close" \in Step \ {"suspend", "user", "sched"}
  BY DEF Step
<1>7. /\ "timer" \in {"timer", "close"} => pc[t].arg = u
      /\ "close" \in {"timer", "close"} => k'.thr[u].stat \in {"READY", "SUSPEND"} /\ Loose(k', u)
      /\ k'.thr[u].stat = "READY" => "close" \in {"timer", "close"}
  BY <1>2, <1>5
<1>8. At(t, "timer") /\ UNCHANGED <<ctxVars, isr, owed, lock>> /\ Goto(t, "close", u)
  BY <1>1
<1>9. KernelInv(k') /\ Moved(k, k', u)
  BY <1>4
<1> QED  BY <1>2, <1>5, <1>6, <1>7, <1>8, <1>9, Continue

\* t is back in the application and another thread has gone, or is still out of the lists.
LEMMA BackToUser ==
    ASSUME SchedInv, NEW t \in Thread, NEW u \in Thread, NEW from0, At(t, from0), from0 # "sched",
           HandsInv', pc'[t].at \in {"user", "sched"} \/ pc' = pc,
           \A y \in Thread : y # t /\ y # u => pc'[y] = pc[y], u # t, u # Idle,
           Ending(u)' => pc'[u] = pc[u], Ending(t)' => pc'[t] = pc[t],
           UNCHANGED <<ctxVars, isr, owed, lock>>, KernelInv(k'), Moved(k, k', u), ~InReady(k', u),
           ReadyInv'
    PROVE  SchedInv'
<1>1. InReady(k, t) /\ current = t /\ (lock = 0 /\ ~owed => Highest)
  BY AtFacts
<1>2. InReady(k', t)
  BY <1>1, MovedReady
<1>3. lock' = 0 /\ ~owed' => pc'[t].at = "sched" \/ Highest'
  <2>1. k'.thr[current] = k.thr[current] /\ current' = current
    BY <1>1 DEF Moved, ctxVars
  <2> QED  BY <1>1, <1>2, <2>1, HighestKept
<1>4. InReady(k', t) \/ (lock' = 0 /\ pc'[t].at = "sched")
  BY <1>2
<1>5. \A y \in Thread : Ending(y)' => pc'[y] = pc[y] \/ pc'[y].arg # t
  OBVIOUS
<1>6. lock' \in Nat /\ lock' <= k.app.lock /\ owed' \in BOOLEAN
  BY DEF SchedInv, ControlInv
<1>7. u = Idle => InReady(k', Idle)
  OBVIOUS
<1> QED  BY <1>3, <1>4, <1>5, <1>6, <1>7, ThreadStep

\* The section of rt_thread_delete that closes the thread.
LEMMA Step_DeleteClose ==
    ASSUME SchedInv, NEW t \in Thread, DeleteClose(t)
    PROVE  SchedInv'
<1> DEFINE u == pc[t].arg
<1>1. /\ At(t, "close") /\ UNCHANGED <<ctxVars, isr, owed, lock>> /\ Goto(t, "user", NoThread)
      /\ k' = [k EXCEPT !.thr[u].stat = "CLOSE",
                        !.defunct = IF u \in Dynamic \cup Cleanup THEN <<u>> \o @ ELSE @]
      /\ pc[t].at = "close"
  BY DEF DeleteClose, At
<1>2. /\ u \in Thread /\ u # Idle /\ Loose(k, u) /\ pc[u].arg = NoThread /\ u # t
      /\ \A y \in Thread : y # t => pc[y].arg # u
      /\ k.thr[u].stat \in {"READY", "SUSPEND"} /\ pc[t].arg = u
  BY <1>1, CallFacts
<1> HIDE DEF u
<1>3. KernelInv(k') /\ Moved(k, k', u) /\ ~InReady(k', u) /\ k'.thr[u].stat # "READY"
  BY <1>1, <1>2, DeleteCloseKernel DEF SchedInv, Closed
<1>4. ~InReady(k, u)
  BY <1>2 DEF Loose
<1>5. /\ HandsInv' /\ pc'[t].at = "user" /\ \A y \in Thread : y # t => pc'[y] = pc[y]
      /\ \A y \in Thread : Ending(y)' => pc'[y] = pc[y]
  BY <1>1, <1>2, <1>3, <1>4, PlainHands
<1>6. ReadyInv'
  <2>1. ReadyInv /\ (pc[t].at \in {"timer", "close"} => pc[t].arg = u)
    BY <1>2 DEF SchedInv
  <2>2. k'.thr[u].stat = "READY" =>
           InReady(k', u) \/ (pc'[t].at \in {"timer", "close"} /\ pc'[t].arg = u)
    BY <1>3
  <2> QED  BY <1>2, <1>3, <1>5, <2>1, <2>2, ReadyKept
<1>7. pc'[t].at \in {"user", "sched"} \/ pc' = pc
  BY <1>5
<1> QED  BY <1>1, <1>2, <1>3, <1>5, <1>6, <1>7, BackToUser

\* rt_thread_init on a closed static thread.
LEMMA Step_Init ==
    ASSUME SchedInv, NEW t \in Thread, NEW u \in Thread, NEW p \in Prio, rt_thread_init(t, u, p)
    PROVE  SchedInv'
<1>1. /\ At(t, "user") /\ UNCHANGED <<ctxVars, isr, owed, lock>>
      /\ u \notin Dynamic /\ k.thr[u].stat = "CLOSE" /\ ~Contains(k.defunct, u) /\ ~InHand(u)
      /\ k' = [k EXCEPT !.thr[u] = [stat |-> "INIT", prio |-> p, init |-> p,
                                    mask |-> k.thr[u].mask, timer |-> FALSE]]
      /\ Goto(u, "user", NoThread)
  BY DEF rt_thread_init, Calls, Goto
<1>2. u \notin ToSet(k.defunct) /\ ~InReady(k, u)
  <2>1. k.defunct \in Seq(Thread)
    BY KernelFields DEF SchedInv, KernelInv, Table
  <2> QED  BY <1>1, <2>1, ContainsIsToSet, ThreadFacts DEF SchedInv
<1>3. KernelInv(k') /\ Moved(k, k', u) /\ ~InReady(k', u) /\ k'.thr[u].stat = "INIT"
  BY <1>1, <1>2, InitKernel DEF SchedInv
<1>4. InReady(k, t) /\ pc[t].at = "user"
  BY <1>1, AtFacts
<1>5. u # Idle /\ u # t
  BY <1>2, <1>4 DEF SchedInv, ControlInv
<1>6. \A y \in Thread : pc[y].arg # u
  BY <1>1 DEF InHand
<1>7. /\ HandsInv' /\ pc'[u].at = "user" /\ \A y \in Thread : y # u => pc'[y] = pc[y]
      /\ \A y \in Thread : Ending(y)' => pc'[y] = pc[y]
  BY <1>1, <1>2, <1>3, <1>6, PlainHands
<1>8. ReadyInv'
  <2>0. pc[u].arg = NoThread /\ HandOK(u)
    BY <1>2, NotBusy DEF SchedInv, HandsInv
  <2>1. ReadyInv /\ (pc[u].at \in {"timer", "close"} => pc[u].arg = u)
    BY <2>0 DEF SchedInv, HandOK
  <2>2. k'.thr[u].stat = "READY" =>
           InReady(k', u) \/ (pc'[u].at \in {"timer", "close"} /\ pc'[u].arg = u)
    BY <1>3
  <2> QED  BY <1>3, <1>7, <2>1, <2>2, ReadyKept
<1>9. pc'[t].at \in {"user", "sched"} \/ pc' = pc
  BY <1>4, <1>5, <1>7
<1> QED  BY <1>1, <1>3, <1>5, <1>7, <1>8, <1>9, BackToUser

\* rt_thread_idle_excute takes a thread off the defunct list.
LEMMA Step_Reap ==
    ASSUME SchedInv, IdleReap
    PROVE  SchedInv'
<1> DEFINE u == Head(k.defunct)
<1>1. /\ Idle \in Thread /\ At(Idle, "user") /\ UNCHANGED <<ctxVars, isr, owed, lock>>
      /\ k.defunct # <<>> /\ k' = Unlink(k, u)
      /\ IF u \in Dynamic THEN Goto(Idle, "free", u) ELSE UNCHANGED pc
  BY IdleAssumption DEF IdleReap
<1>2. u \in ToSet(k.defunct) /\ u \in Thread
  <2>1. k.defunct \in Seq(Thread)
    BY KernelFields DEF SchedInv, KernelInv, Table
  <2> QED  BY <1>1, <2>1, HeadTailSet
<1> HIDE DEF u
<1>3. ThreadOK(k, u) /\ k.thr[u].stat = "CLOSE" /\ ~InReady(k, u)
  BY <1>2, ThreadFacts DEF SchedInv, ThreadOK
<1>4. KernelInv(k') /\ Moved(k, k', u) /\ Nowhere(k', u) /\ k'.thr = k.thr /\ ~InReady(k', u)
  BY <1>1, <1>2, <1>3, UnlinkKernel DEF SchedInv, Nowhere
<1>5. u # Idle /\ pc[u].arg = NoThread
  BY <1>2, <1>3, NotBusy DEF SchedInv, ControlInv
<1>6. \A y \in Thread : pc[y].arg # u
  <2> SUFFICES ASSUME NEW y \in Thread, pc[y].arg = u PROVE FALSE
    OBVIOUS
  <2>1. HandOK(y) /\ u # NoThread /\ pc[y].at \in Step \ {"suspend"}
    BY <1>2, NoThreadAssumption DEF SchedInv, HandsInv
  <2> QED  BY <1>2, <1>3, <2>1 DEF HandOK, Step
<1>7. CASE u \in Dynamic
  <2>1. "free" \in Step \ {"suspend", "user", "sched"} /\ u \notin ToSet(k'.defunct)
    BY <1>4 DEF Step, Nowhere
  <2> QED  BY <1>1, <1>2, <1>3, <1>4, <1>5, <1>6, <1>7, <2>1, Continue
<1>8. CASE u \notin Dynamic
  <2>1. pc' = pc
    BY <1>1, <1>8
  <2>2. HandsInv'
    <3>1. ASSUME NEW y \in Thread PROVE HandOK(y)'
      <4>1. HandOK(y) /\ pc'[y] = pc[y] /\ pc[y].arg # u /\ (y = u /\ pc[y].arg # NoThread => InReady(k', u))
        BY <1>5, <1>6, <2>1 DEF SchedInv, HandsInv
      <4> QED  BY <1>2, <1>4, <4>1, HandKept
    <3> QED  BY <2>1, <3>1 DEF SchedInv, HandsInv
  <2>3. ReadyInv'
    <3>1. ASSUME NEW w \in Thread, k'.thr[w].stat = "READY"
          PROVE  InReady(k', w) \/ \E x \in Thread : pc'[x].at \in {"timer", "close"} /\ pc'[x].arg = w
      <4>1. w # u
        BY <1>3, <1>4, <3>1
      <4>2. InReady(k, w) => InReady(k', w)
        BY <1>2, <1>4, <4>1, MovedReady
      <4> QED  BY <1>4, <2>1, <3>1, <4>2 DEF SchedInv, ReadyInv
    <3> QED  BY <3>1 DEF ReadyInv
  <2> QED  BY <1>1, <1>2, <1>4, <1>5, <2>1, <2>2, <2>3, BackToUser
<1> QED  BY <1>7, <1>8

\* rt_thread_idle_excute frees it.
LEMMA Step_Free ==
    ASSUME SchedInv, IdleFree
    PROVE  SchedInv'
<1> DEFINE u == pc[Idle].arg
<1>1. /\ Idle \in Thread /\ At(Idle, "free") /\ UNCHANGED <<ctxVars, isr, owed, lock>>
      /\ k' = [k EXCEPT !.freed = @ \cup {u}] /\ Goto(Idle, "user", NoThread)
  BY IdleAssumption DEF IdleFree
<1>2. /\ pc[Idle].at = "free" /\ InReady(k, Idle) /\ current = Idle /\ cpu = Idle /\ ~flag /\ nest = 0
      /\ isr = <<>> /\ (lock = 0 /\ ~owed => Highest)
  BY <1>1, AtFacts
<1>3. HandOK(Idle) /\ Off(u)
  BY <1>1, <1>2 DEF SchedInv, HandsInv, OffInv, Ending
<1>4. u \in Thread /\ u \in Dynamic /\ k.thr[u].stat = "CLOSE" /\ u \notin ToSet(k.defunct)
  BY <1>2, <1>3 DEF HandOK
<1>5. /\ KernelInv(k') /\ k'.thr = k.thr /\ k'.ready = k.ready /\ k'.waiting = k.waiting
      /\ k'.defunct = k.defunct /\ k'.app = k.app /\ k'.freed = k.freed \cup {u}
  BY <1>1, <1>4, FreeKernel DEF SchedInv
<1>6. "user" \in Step \ {"suspend"} /\ NoThread \in Pointer
  BY DEF Step, Pointer
<1>7. /\ pc' \in [Thread -> [at : Step \ {"suspend"}, arg : Pointer]]
      /\ pc'[Idle].at = "user" /\ pc'[Idle].arg = NoThread
      /\ \A y \in Thread : y # Idle => pc'[y] = pc[y]
  BY <1>1, <1>6, GotoFacts DEF SchedInv
<1> HIDE DEF u
<1>8. \A w : InReady(k', w) <=> InReady(k, w)
  BY <1>5 DEF InReady
<1>9. HandsInv'
  <2>1. ASSUME NEW y \in Thread PROVE HandOK(y)'
    <3>1. CASE y = Idle
      BY <1>7, <3>1 DEF HandOK
    <3>2. CASE y # Idle
      BY <1>5, <1>7, <1>8, <3>2 DEF SchedInv, HandsInv, HandOK, Loose
    <3> QED  BY <3>1, <3>2
  <2>2. \A x, y \in Thread : pc'[x].arg = pc'[y].arg /\ pc'[x].arg # NoThread => x = y
    BY <1>7 DEF SchedInv, HandsInv
  <2> QED  BY <1>7, <2>1, <2>2 DEF HandsInv
<1>10. ReadyInv'
  BY <1>2, <1>5, <1>7, <1>8 DEF SchedInv, ReadyInv
<1>11. /\ current' = current /\ cpu' = cpu /\ flag' = flag /\ nest' = nest /\ isr' = isr
       /\ owed' = owed /\ lock' = lock
  BY <1>1 DEF ctxVars
<1>12. OffInv'
  BY <1>3, <1>5, <1>7, <1>11 DEF SchedInv, OffInv, Off, Ending
<1>13. CurrentInv' /\ HighestInv'
  <2>1. Highest => Highest'
    BY <1>5, <1>8, <1>11 DEF Highest
  <2> QED  BY <1>2, <1>8, <1>11, <2>1 DEF CurrentInv, HighestInv
<1>14. CtxInv'
  BY <1>1, CtxKept DEF SchedInv
<1>15. ControlInv'
  BY <1>2, <1>5, <1>8, <1>11 DEF SchedInv, ControlInv
<1> QED  BY <1>5, <1>9, <1>10, <1>12, <1>13, <1>14, <1>15 DEF SchedInv

-----------------------------------------------------------------------------
(* rt_schedule, the handlers and PendSV.                                    *)

\* What rt_schedule does, on a kernel record in which idle is ready.
LEMMA ScheduleFacts ==
    ASSUME CtxInv, NEW s, KernelInv(s), InReady(s, Idle), current # NoThread,
           lock \in Nat, owed \in BOOLEAN, rt_schedule(s)
    PROVE  /\ CtxInv' /\ nest' = nest /\ cpu' = cpu /\ owed' \in BOOLEAN
           /\ lock > 0 => UNCHANGED ctxVars
           /\ lock = 0 => /\ current' \in Thread /\ InReady(s, current')
                          /\ \A t \in Thread : InReady(s, t) => s.thr[current'].prio <= s.thr[t].prio
<1> DEFINE n == NextThread(s)
<1>1. /\ n \in Thread /\ InReady(s, n)
      /\ \A t \in Thread : InReady(s, t) => s.thr[n].prio <= s.thr[t].prio
  BY NextThreadListed
<1> HIDE DEF n
<1>2. CASE lock = 0 /\ n # current
  <2>1. SwitchTo(n) /\ owed' = FALSE
    BY <1>2 DEF rt_schedule, n
  <2>2. CtxInv'
    BY <1>1, <2>1, CtxSwitch
  <2>3. current' = n /\ nest' = nest /\ cpu' = cpu
    BY <2>1 DEF SwitchTo
  <2>4. owed' \in BOOLEAN
    BY <2>1
  <2>5. ~(lock > 0)
    BY <1>2
  <2> QED  BY <1>1, <2>2, <2>3, <2>4, <2>5
<1>3. CASE ~(lock = 0 /\ n # current)
  <2>1. UNCHANGED ctxVars /\ owed' = (owed /\ lock > 0)
    BY <1>3 DEF rt_schedule, n
  <2>2. CtxInv'
    BY <2>1, CtxKept
  <2>3. current' = current /\ nest' = nest /\ cpu' = cpu
    BY <2>1 DEF ctxVars
  <2>4. owed' \in BOOLEAN
    BY <2>1
  <2> QED  BY <1>1, <1>3, <2>1, <2>2, <2>3, <2>4
<1> QED  BY <1>2, <1>3

\* A thread that is being deleted or freed is on no ready list.
LEMMA EndingUnlisted ==
    ASSUME SchedInv, NEW y \in Thread, Ending(y)
    PROVE  pc[y].arg \in Thread /\ ~InReady(k, pc[y].arg)
<1>1. HandOK(y)
  BY DEF SchedInv, HandsInv
<1>2. pc[y].arg \in Thread
  BY <1>1 DEF HandOK, Ending
<1> QED  BY <1>2, HandLoose DEF Loose

\* A freed thread is on no ready list.
LEMMA FreedUnlisted ==
    ASSUME SchedInv, NEW t \in k.freed
    PROVE  t \in Thread => ~InReady(k, t)
BY ThreadFacts DEF SchedInv, ThreadOK

\* A step that ends in rt_schedule after u, if anybody, was made READY.
LEMMA AfterSchedule ==
    ASSUME SchedInv, NEW u \in Thread, current # NoThread, rt_schedule(k'), lock' = lock,
           KernelInv(k'), Moved(k, k', u), InReady(k, u) => InReady(k', u), HandsInv', ReadyInv',
           \A y \in Thread : Ending(y)' => pc'[y] = pc[y] /\ pc[y].arg # u, u \notin k.freed,
           isr' \in Seq({"body", "sched", "done"}), Len(isr') = nest
    PROVE  SchedInv'
<1>0. /\ CtxInv /\ InReady(k, Idle) /\ Idle \in Thread /\ lock \in Nat /\ owed \in BOOLEAN
      /\ current \in Thread /\ lock <= k.app.lock
  BY IdleAssumption DEF SchedInv, ControlInv, CtxInv, CtxTypeOK, Pointer
<1>1. \A w \in Thread : InReady(k, w) => InReady(k', w)
  BY MovedReady
<1>2. /\ CtxInv' /\ nest' = nest /\ cpu' = cpu /\ owed' \in BOOLEAN
      /\ lock > 0 => UNCHANGED ctxVars
      /\ lock = 0 => /\ current' \in Thread /\ InReady(k', current')
                     /\ \A t \in Thread : InReady(k', t) => k'.thr[current'].prio <= k'.thr[t].prio
  <2>1. InReady(k', Idle)
    BY <1>0, <1>1
  <2> QED  BY <1>0, <2>1, ScheduleFacts
<1>3. k'.app = k.app /\ k'.freed = k.freed
  BY DEF Moved
<1>4. ASSUME NEW w, Off(w), w # u, w \in Thread => ~InReady(k, w) PROVE Off(w)'
  <2>1. CASE lock > 0
    BY <1>2, <1>4, <2>1 DEF Off, ctxVars
  <2>2. CASE lock = 0
    <3>1. w # current'
      BY <1>2, <1>4, <2>2, MovedReady
    <3> QED  BY <1>2, <1>4, <3>1 DEF Off
  <2> QED  BY <1>0, <2>1, <2>2
<1>5. OffInv'
  <2>1. ASSUME NEW w \in k'.freed PROVE Off(w)'
    <3>1. w \in k.freed /\ Off(w) /\ w # u
      BY <1>3 DEF SchedInv, OffInv
    <3>2. w \in Thread => ~InReady(k, w)
      BY <3>1, FreedUnlisted
    <3> QED  BY <1>4, <3>1, <3>2
  <2>2. ASSUME NEW y \in Thread, Ending(y)' PROVE Off(pc[y].arg)' /\ pc'[y] = pc[y]
    <3>1. Ending(y) /\ pc'[y] = pc[y] /\ pc[y].arg # u
      BY <2>2 DEF Ending
    <3>2. ~InReady(k, pc[y].arg)
      BY <3>1, EndingUnlisted
    <3>3. Off(pc[y].arg)
      BY <3>1 DEF SchedInv, OffInv
    <3>4. \A w : (Off(w) /\ w # u /\ ~InReady(k, w)) => (w # current' /\ w # cpu')
      BY <1>4 DEF Off
    <3> QED  BY <3>1, <3>2, <3>3, <3>4 DEF Off
  <2> QED  BY <2>1, <2>2 DEF OffInv, Off
<1>6. CurrentInv' /\ HighestInv'
  <2>1. CASE lock > 0
    <3>1. current' = current
      BY <1>2, <2>1 DEF ctxVars
    <3>2. InReady(k, current)
      BY <1>0, <2>1 DEF SchedInv, CurrentInv
    <3> QED  BY <1>0, <1>1, <2>1, <3>1, <3>2 DEF CurrentInv, HighestInv
  <2>2. CASE lock = 0
    <3>1. Highest'
      BY <1>2, <2>2 DEF Highest
    <3> QED  BY <1>2, <2>2, <3>1 DEF CurrentInv, HighestInv
  <2> QED  BY <1>0, <2>1, <2>2
<1>7. ControlInv'
  <2>1. lock > 0 => ~flag'
    <3>1. lock > 0 => flag' = flag
      BY <1>2 DEF ctxVars
    <3> QED  BY <3>1 DEF SchedInv, ControlInv
  <2>2. current' # NoThread
    <3>1. lock > 0 => current' = current
      BY <1>2 DEF ctxVars
    <3> QED  BY <1>0, <1>2, <3>1, NoThreadAssumption
  <2> QED  BY <1>0, <1>1, <1>2, <1>3, <2>1, <2>2 DEF ControlInv
<1> QED  BY <1>2, <1>5, <1>6, <1>7 DEF SchedInv

\* The rt_schedule that ends a call.
LEMMA Step_Schedule ==
    ASSUME SchedInv, NEW t \in Thread, ScheduleStep(t)
    PROVE  SchedInv'
<1>1. /\ At(t, "sched") /\ Goto(t, "user", NoThread) /\ rt_schedule(k') /\ k' = k
      /\ lock' = lock /\ isr' = isr
  BY DEF ScheduleStep
<1>2. current = t /\ current # NoThread /\ pc[t].at = "sched"
  BY <1>1, AtFacts, NoThreadAssumption
<1>3. KernelInv(k') /\ Moved(k, k', t)
  BY <1>1, Still DEF SchedInv
<1>5. /\ pc' \in [Thread -> [at : Step \ {"suspend"}, arg : Pointer]]
      /\ pc'[t].at = "user" /\ pc'[t].arg = NoThread
      /\ \A y \in Thread : y # t => pc'[y] = pc[y]
  <2>1. "user" \in Step \ {"suspend"} /\ NoThread \in Pointer
    BY DEF Step, Pointer
  <2> QED  BY <1>1, <2>1, GotoFacts DEF SchedInv
<1>6. HandsInv'
  <2>1. ASSUME NEW y \in Thread PROVE HandOK(y)'
    <3>1. CASE y = t
      BY <1>5, <3>1 DEF HandOK
    <3>2. CASE y # t
      BY <1>1, <1>5, <3>2 DEF SchedInv, HandsInv, HandOK
    <3> QED  BY <3>1, <3>2
  <2>2. \A x, y \in Thread : pc'[x].arg = pc'[y].arg /\ pc'[x].arg # NoThread => x = y
    BY <1>5 DEF SchedInv, HandsInv
  <2> QED  BY <1>5, <2>1, <2>2 DEF HandsInv
<1>7. ReadyInv'
  BY <1>1, <1>2, <1>5 DEF SchedInv, ReadyInv
<1>8. \A y \in Thread : Ending(y)' => pc'[y] = pc[y] /\ pc[y].arg # t
  <2>1. ASSUME NEW y \in Thread, Ending(y)' PROVE pc'[y] = pc[y] /\ pc[y].arg # t
    <3>1. pc'[y] = pc[y] /\ Ending(y)
      BY <1>5, <2>1 DEF Ending
    <3> QED  BY <1>2, <3>1 DEF SchedInv, OffInv, Off
  <2> QED  BY <2>1
<1>9. t \notin k.freed
  BY <1>2 DEF SchedInv, OffInv, Off
<1>10. isr' \in Seq({"body", "sched", "done"}) /\ Len(isr') = nest
  BY <1>1 DEF SchedInv, ControlInv
<1>11. InReady(k, t) => InReady(k', t)
  BY <1>1
<1> QED  BY <1>1, <1>2, <1>3, <1>6, <1>7, <1>8, <1>9, <1>10, <1>11, AfterSchedule

\* A handler is active, so the scheduler has been started.
LEMMA HandlerFacts ==
    ASSUME SchedInv, isr # <<>>
    PROVE  /\ current \in Thread /\ current # NoThread /\ nest > 0
           /\ isr \in Seq({"body", "sched", "done"}) /\ Len(isr) = nest /\ Len(isr) \in DOMAIN isr
           /\ \A step \in {"body", "sched", "done"} : SetTop(step) =>
                 /\ isr' \in Seq({"body", "sched", "done"}) /\ Len(isr') = nest
                 /\ isr' # <<>> /\ Len(isr) \in DOMAIN isr' /\ isr'[Len(isr)] = step
<1>1. isr \in Seq({"body", "sched", "done"}) /\ Len(isr) = nest /\ Len(isr) \in Nat /\ Len(isr) > 0
  BY DEF SchedInv, ControlInv
<1>2. current # NoThread /\ current \in Thread
  BY <1>1 DEF SchedInv, ControlInv, CtxInv, CtxTypeOK, Pointer
<1>3. Len(isr) \in DOMAIN isr
  BY <1>1
<1>4. ASSUME NEW step \in {"body", "sched", "done"}, SetTop(step)
      PROVE  /\ isr' \in Seq({"body", "sched", "done"}) /\ Len(isr') = nest
             /\ isr' # <<>> /\ Len(isr) \in DOMAIN isr' /\ isr'[Len(isr)] = step
  <2>1. isr' = [isr EXCEPT ![Len(isr)] = step]
    BY <1>4 DEF SetTop
  <2>2. isr' \in Seq({"body", "sched", "done"}) /\ Len(isr') = Len(isr) /\ isr'[Len(isr)] = step
    BY <1>1, <1>3, <2>1
  <2> QED  BY <1>1, <2>2
<1> QED  BY <1>1, <1>2, <1>3, <1>4

\* The rt_schedule a handler calls.
LEMMA Step_IsrSchedule ==
    ASSUME SchedInv, IsrSchedule
    PROVE  SchedInv'
<1>1. /\ isr # <<>> /\ SetTop("done") /\ rt_schedule(k') /\ k' = k /\ lock' = lock /\ pc' = pc
  BY DEF IsrSchedule
<1>2. current \in Thread /\ current # NoThread /\ isr' \in Seq({"body", "sched", "done"}) /\ Len(isr') = nest
  BY <1>1, HandlerFacts
<1>3. KernelInv(k') /\ Moved(k, k', current)
  BY <1>1, Still DEF SchedInv
<1>4. HandsInv' /\ ReadyInv'
  BY <1>1 DEF SchedInv, HandsInv, HandOK, ReadyInv
<1>5. \A y \in Thread : Ending(y)' => pc'[y] = pc[y] /\ pc[y].arg # current
  BY <1>1 DEF SchedInv, OffInv, Off, Ending
<1>6. current \notin k.freed
  BY <1>2 DEF SchedInv, OffInv, Off
<1>7. InReady(k, current) => InReady(k', current)
  BY <1>1
<1> QED  BY <1>1, <1>2, <1>3, <1>4, <1>5, <1>6, <1>7, AfterSchedule

\* u becomes READY or rotates, and nobody is in a call on it.
LEMMA HandsUnmoved ==
    ASSUME SchedInv, NEW u \in Thread, Moved(k, k', u), InReady(k', u), pc' = pc,
           \A y \in Thread : pc[y].arg # u
    PROVE  HandsInv' /\ ReadyInv'
<1>1. ASSUME NEW y \in Thread PROVE HandOK(y)'
  <2>1. HandOK(y) /\ pc'[y] = pc[y]
    BY DEF SchedInv, HandsInv
  <2> QED  BY <2>1, HandKept
<1>2. HandsInv'
  BY <1>1 DEF SchedInv, HandsInv
<1>3. ASSUME NEW w \in Thread, k'.thr[w].stat = "READY"
      PROVE  InReady(k', w) \/ \E x \in Thread : pc'[x].at \in {"timer", "close"} /\ pc'[x].arg = w
  <2>1. CASE w = u
    BY <2>1
  <2>2. CASE w # u
    <3>1. k.thr[w].stat = "READY" /\ (InReady(k, w) => InReady(k', w))
      BY <1>3, <2>2, MovedReady DEF Moved
    <3> QED  BY <3>1 DEF SchedInv, ReadyInv
  <2> QED  BY <2>1, <2>2
<1>4. ReadyInv'
  BY <1>3 DEF ReadyInv
<1> QED  BY <1>2, <1>4

\* rt_thread_timeout, its rt_schedule included.
LEMMA Step_Timeout ==
    ASSUME SchedInv, NEW u \in Thread, TickTimeout(u)
    PROVE  SchedInv'
<1>1. /\ isr # <<>> /\ k.thr[u].timer /\ k' = rt_thread_timeout(k, u) /\ rt_schedule(k')
      /\ lock' = lock /\ pc' = pc /\ isr' = isr
  BY DEF TickTimeout, InHandler
<1>2. current # NoThread /\ isr' \in Seq({"body", "sched", "done"}) /\ Len(isr') = nest
  BY <1>1, HandlerFacts
<1>3. KernelInv(k') /\ Moved(k, k', u) /\ InReady(k', u)
  BY <1>1, TimeoutKernel DEF SchedInv, Readied
<1>4. \A y \in Thread : pc[y].arg # u
  BY <1>1, HandLoose DEF Loose
<1>5. HandsInv' /\ ReadyInv'
  BY <1>1, <1>3, <1>4, HandsUnmoved
<1>6. \A y \in Thread : Ending(y)' => pc'[y] = pc[y] /\ pc[y].arg # u
  BY <1>1, <1>4
<1>7. u \notin k.freed
  BY <1>1, ThreadFacts DEF SchedInv, ThreadOK
<1>8. InReady(k, u) => InReady(k', u)
  BY <1>3
<1> QED  BY <1>1, <1>2, <1>3, <1>5, <1>6, <1>7, <1>8, AfterSchedule

\* A handler makes u READY, or rotates it, and is to call rt_schedule.
LEMMA HandlerStep ==
    ASSUME SchedInv, NEW u \in Thread, isr # <<>>, SetTop("sched"), UNCHANGED <<ctxVars, lock, pc, owed>>,
           KernelInv(k'), Moved(k, k', u), InReady(k', u), \A y \in Thread : pc[y].arg # u
    PROVE  SchedInv'
<1>1. /\ current # NoThread /\ isr' \in Seq({"body", "sched", "done"}) /\ Len(isr') = nest
      /\ Len(isr) \in DOMAIN isr' /\ isr'[Len(isr)] = "sched"
  BY HandlerFacts
<1>2. /\ HandsInv' /\ ReadyInv'
  BY HandsUnmoved
<1>3. /\ current' = current /\ cpu' = cpu /\ flag' = flag /\ nest' = nest
      /\ k'.freed = k.freed /\ k'.app = k.app
  BY DEF ctxVars, Moved
<1>4. CtxInv'
  BY CtxKept DEF SchedInv
<1>5. OffInv'
  BY <1>3 DEF SchedInv, OffInv, Off, Ending
<1>6. \A w \in Thread : InReady(k, w) => InReady(k', w)
  BY MovedReady
<1>7. CurrentInv'
  <2>1. current \in Thread
    BY <1>1 DEF SchedInv, CtxInv, CtxTypeOK, Pointer
  <2> QED  BY <1>3, <1>6, <2>1 DEF SchedInv, CurrentInv
<1>8. HighestInv'
  BY <1>1 DEF HighestInv
<1>9. ControlInv'
  BY <1>1, <1>3, <1>6, IdleAssumption DEF SchedInv, ControlInv
<1> QED  BY <1>2, <1>4, <1>5, <1>7, <1>8, <1>9 DEF SchedInv

\* A handler resumes a waiting thread.
LEMMA Step_IsrWake ==
    ASSUME SchedInv, NEW u \in Thread, IsrWake(u)
    PROVE  SchedInv'
<1>1. /\ isr # <<>> /\ SetTop("sched") /\ UNCHANGED <<ctxVars, lock, pc, owed>>
      /\ u \in k.waiting /\ k.thr[u].stat = "SUSPEND" /\ k' = Resume(k, u)
  BY DEF IsrWake, InHandler
<1>2. KernelInv(k') /\ Moved(k, k', u) /\ InReady(k', u)
  BY <1>1, ResumeKernel DEF SchedInv, Readied
<1>3. \A y \in Thread : pc[y].arg # u
  BY <1>1, HandLoose DEF Loose
<1> QED  BY <1>1, <1>2, <1>3, HandlerStep

\* The time slice of the current thread is used up.
LEMMA Step_TickYield ==
    ASSUME SchedInv, TickYield
    PROVE  SchedInv'
<1>1. /\ isr # <<>> /\ SetTop("sched") /\ UNCHANGED <<ctxVars, lock, pc, owed>>
      /\ k' = YieldSection(k, current) /\ k' # k
  BY DEF TickYield
<1>2. current \in Thread
  BY <1>1, HandlerFacts
<1>3. KernelInv(k') /\ Moved(k, k', current) /\ InReady(k, current) /\ InReady(k', current)
  BY <1>1, <1>2, YieldFacts
<1>4. \A y \in Thread : pc[y].arg # current
  BY <1>2, <1>3, HandLoose DEF Loose
<1> QED  BY <1>1, <1>2, <1>3, <1>4, HandlerStep

\* The thread that is to run stays the same in a step that changes neither lists nor calls.
LEMMA SameKernel ==
    ASSUME SchedInv, UNCHANGED <<k, pc>>
    PROVE  /\ KernelInv(k') /\ HandsInv' /\ ReadyInv'
           /\ current' = current => (Highest' <=> Highest)
<1>1. KernelInv(k') /\ HandsInv' /\ ReadyInv'
  BY DEF SchedInv, HandsInv, HandOK, ReadyInv
<1>2. current' = current => (Highest' <=> Highest)
  BY DEF Highest
<1> QED  BY <1>1, <1>2

\* A handler starts or returns; what another handler still owes stays owed.
LEMMA Step_Irq ==
    ASSUME SchedInv, IsrEnter \/ IsrLeave
    PROVE  SchedInv'
<1> DEFINE steps == {"body", "sched", "done"}
<1>1. /\ UNCHANGED <<k, lock, pc, owed>> /\ UNCHANGED <<current, flag, from, to, pendsv, cpu, saved>>
      /\ IrqEnter \/ IrqLeave
  BY DEF IsrEnter, IsrLeave, IrqEnter, IrqLeave
<1>2. KernelInv(k') /\ HandsInv' /\ ReadyInv' /\ (Highest' <=> Highest)
  BY <1>1, SameKernel
<1>3. CtxInv'
  BY <1>1, CtxIrq DEF SchedInv
<1>4. isr \in Seq(steps) /\ Len(isr) = nest /\ Len(isr) \in Nat /\ nest \in Nat
  BY DEF SchedInv, ControlInv
<1>5. /\ isr' \in Seq(steps) /\ Len(isr') = nest' /\ current # NoThread
      /\ \A i \in DOMAIN isr : isr[i] = "sched" => i \in DOMAIN isr' /\ isr'[i] = "sched"
  <2>1. CASE IsrEnter
    <3>1. isr' = Append(isr, "body") /\ nest' = nest + 1 /\ current # NoThread /\ "body" \in steps
      BY <2>1 DEF IsrEnter, IrqEnter
    <3> HIDE DEF steps
    <3> QED  BY <1>4, <3>1
  <2>2. CASE IsrLeave
    <3>1. isr' = Front(isr) /\ isr # <<>> /\ Top \in {"body", "done"} /\ nest' = nest - 1
      BY <2>2 DEF IsrLeave, IrqLeave, InHandler
    <3>2. current # NoThread
      BY <3>1, HandlerFacts
    <3> HIDE DEF steps
    <3>3. isr' = SubSeq(isr, 1, Len(isr) - 1) /\ isr[Len(isr)] # "sched"
      BY <3>1 DEF Front, Top
    <3>4. isr' \in Seq(steps) /\ Len(isr') = Len(isr) - 1 /\ \A i \in 1..Len(isr) - 1 : isr'[i] = isr[i]
      BY <1>4, <3>1, <3>3
    <3> QED  BY <1>4, <3>1, <3>2, <3>3, <3>4
  <2> QED  BY <2>1, <2>2
<1>6. OffInv'
  BY <1>1 DEF SchedInv, OffInv, Off, Ending
<1>7. CurrentInv'
  BY <1>1 DEF SchedInv, CurrentInv
<1>8. HighestInv'
  BY <1>1, <1>2, <1>5 DEF SchedInv, HighestInv
<1>9. ControlInv'
  BY <1>1, <1>5 DEF SchedInv, ControlInv
<1> QED  BY <1>2, <1>3, <1>6, <1>7, <1>8, <1>9 DEF SchedInv

\* PendSV puts the thread chosen last on the CPU.
LEMMA Step_PendSV ==
    ASSUME SchedInv, PendSVStep
    PROVE  SchedInv'
<1>1. UNCHANGED <<k, lock, pc, isr, owed>> /\ PendSV /\ nest = 0 /\ nest' = nest /\ current' = current
  BY DEF PendSVStep, PendSV
<1>2. CtxInv' /\ flag /\ ~flag' /\ cpu' = current /\ current \in Thread
  BY <1>1, CtxPendSV DEF SchedInv
<1>3. KernelInv(k') /\ HandsInv' /\ ReadyInv' /\ (Highest' <=> Highest)
  BY <1>1, SameKernel
<1>4. OffInv'
  BY <1>1, <1>2 DEF SchedInv, OffInv, Off, Ending
<1>5. isr = <<>> /\ current # NoThread
  BY <1>1, <1>2, NoThreadAssumption DEF SchedInv, ControlInv
<1>6. CurrentInv'
  BY <1>1, <1>2, <1>5 DEF SchedInv, CurrentInv
<1>7. HighestInv'
  BY <1>1, <1>2, <1>3, <1>5 DEF SchedInv, HighestInv
<1>8. ControlInv'
  BY <1>1, <1>2, <1>5 DEF SchedInv, ControlInv
<1> QED  BY <1>2, <1>3, <1>4, <1>6, <1>7, <1>8 DEF SchedInv

\* rt_system_scheduler_start.
LEMMA Step_Start ==
    ASSUME SchedInv, rt_system_scheduler_start
    PROVE  SchedInv'
<1> DEFINE n == NextThread(k)
<1>1. UNCHANGED <<k, lock, pc, isr, owed>> /\ StartFirst(n)
  BY DEF rt_system_scheduler_start
<1>2. /\ n \in Thread /\ InReady(k, n)
      /\ \A t \in Thread : InReady(k, t) => k.thr[n].prio <= k.thr[t].prio
  BY NextThreadListed DEF SchedInv, ControlInv
<1> HIDE DEF n
<1>3. CtxInv'
  BY <1>1, <1>2, CtxStart DEF SchedInv
<1>4. current = NoThread /\ current' = n /\ nest' = nest /\ cpu' = cpu /\ flag' = TRUE
  BY <1>1 DEF StartFirst
<1>5. KernelInv(k') /\ HandsInv' /\ ReadyInv'
  BY <1>1, SameKernel
<1>6. OffInv'
  <2>1. ASSUME NEW w \in k.freed PROVE w # n
    BY <1>2, FreedUnlisted
  <2>2. ASSUME NEW y \in Thread, Ending(y) PROVE pc[y].arg # n
    BY <1>2, <2>2, EndingUnlisted
  <2> QED  BY <1>1, <1>4, <2>1, <2>2 DEF SchedInv, OffInv, Off, Ending
<1>7. CurrentInv' /\ HighestInv'
  BY <1>1, <1>2, <1>4 DEF CurrentInv, HighestInv, Highest
<1>8. ControlInv'
  BY <1>1, <1>2, <1>4, NoThreadAssumption DEF SchedInv, ControlInv
<1> QED  BY <1>3, <1>5, <1>6, <1>7, <1>8 DEF SchedInv

\* The invariant holds when rt_system_scheduler_start is called.
LEMMA SchedInitial ==
    ASSUME Init PROVE SchedInv
<1>0. PICK a \in Apps : \E t \in a.threads \ {Idle} : k = Boot(a, t)
  BY DEF Init
<1>1. PICK t \in a.threads \ {Idle} : k = Boot(a, t)
  BY <1>0
<1>2. t \in Thread /\ t # Idle
  BY <1>1, AppsAssumption
<1>3. /\ KernelInv(k) /\ k.app = a /\ k.freed = {} /\ InReady(k, Idle)
      /\ \A u \in Thread : k.thr[u].stat = "READY" => InReady(k, u)
  BY <1>1, <1>2, BootKernel
<1>4. CtxInv /\ current = NoThread /\ cpu = NoThread /\ nest = 0 /\ flag = FALSE
  BY CtxInitial DEF Init, CtxInit
<1>5. pc = [x \in Thread |-> [at |-> "user", arg |-> NoThread]] /\ lock = 0 /\ isr = <<>> /\ owed = FALSE
  BY DEF Init
<1>6. HandsInv
  <2>1. pc \in [Thread -> [at : Step \ {"suspend"}, arg : Pointer]]
    BY <1>5 DEF Step, Pointer
  <2> QED  BY <1>5, <2>1 DEF HandsInv, HandOK
<1>7. ReadyInv /\ OffInv
  BY <1>3, <1>5 DEF ReadyInv, OffInv, Ending
<1>8. CurrentInv /\ HighestInv
  BY <1>4 DEF CurrentInv, HighestInv
<1>9. ControlInv
  <2>1. a.lock \in Nat
    BY <1>1, AppsAssumption
  <2>2. isr \in Seq({"body", "sched", "done"}) /\ Len(isr) = nest
    BY <1>4, <1>5
  <2>3. owed \in BOOLEAN
    BY <1>5
  <2> QED  BY <1>3, <1>4, <1>5, <2>1, <2>2, <2>3 DEF ControlInv
<1> QED  BY <1>3, <1>4, <1>6, <1>7, <1>8, <1>9 DEF SchedInv

\* Every step keeps it.
LEMMA SchedStep ==
    ASSUME SafeApps, SchedInv, [Next]_vars
    PROVE  SchedInv'
<1>0. k.app.calls \cap {"suspend", "resume", "delete_busy", "delete_timed", "delete_init"} = {}
  BY KernelFields DEF SafeApps, SchedInv, KernelInv, Table
<1>1. ASSUME NEW t \in Thread, ThreadNext(t) PROVE SchedInv'
  <2>1. ASSUME NEW u \in Thread,
               \/ rt_thread_startup(t, u) \/ rt_thread_resume(t, u) \/ rt_thread_suspend(t, u)
               \/ Wake(t, u) \/ Delete(t, u)
               \/ \E p \in Prio : rt_thread_control(t, u, p) \/ rt_thread_init(t, u, p)
        PROVE  SchedInv'
    <3>1. ~rt_thread_resume(t, u) /\ ~rt_thread_suspend(t, u)
      BY <1>0 DEF rt_thread_resume, rt_thread_suspend, Calls
    <3> QED  BY <2>1, <3>1, Step_Startup, Step_Wake, Step_Delete, Step_Control, Step_Init
  <2>2. ~SuspendStep(t)
    BY DEF SuspendStep, At, SchedInv, HandsInv
  <2>3. CASE \/ ScheduleStep(t) \/ ResumeStep1(t) \/ ResumeStep2(t)
             \/ \E timed \in BOOLEAN : Block(t, timed)
             \/ rt_thread_sleep(t) \/ rt_thread_yield(t) \/ rt_thread_exit(t)
             \/ rt_enter_critical(t) \/ rt_exit_critical(t)
             \/ DeleteTimer(t) \/ DeleteClose(t)
    BY <2>3, Step_Schedule, Step_Resume1, Step_Resume2, Step_Leave, Step_Yield, Step_Critical,
       Step_DeleteTimer, Step_DeleteClose
  <2> QED  BY <1>1, <2>1, <2>2, <2>3 DEF ThreadNext
<1>2. CASE HandlerNext
  BY <1>2, Step_Irq, Step_TickYield, Step_IsrSchedule, Step_IsrWake, Step_Timeout DEF HandlerNext
<1>3. CASE UNCHANGED vars
  <2>1. UNCHANGED <<ctxVars, k, lock, pc, isr, owed>>
    BY <1>3 DEF vars
  <2>2. CtxInv'
    BY <2>1, CtxKept DEF SchedInv
  <2>3. KernelInv(k') /\ HandsInv' /\ ReadyInv' /\ (current' = current => (Highest' <=> Highest))
    BY <2>1, SameKernel
  <2>4. current' = current /\ cpu' = cpu /\ flag' = flag /\ nest' = nest
    BY <2>1 DEF ctxVars
  <2>5. OffInv' /\ CurrentInv' /\ HighestInv'
    BY <2>1, <2>3, <2>4 DEF SchedInv, OffInv, Off, Ending, CurrentInv, HighestInv
  <2>6. ControlInv'
    BY <2>1, <2>4 DEF SchedInv, ControlInv
  <2> QED  BY <2>2, <2>3, <2>5, <2>6 DEF SchedInv
<1> QED  BY <1>1, <1>2, <1>3, Step_Start, Step_Reap, Step_Free, Step_PendSV DEF Next

-----------------------------------------------------------------------------
(* The theorems.                                                            *)

\* The inductive invariant holds under every application that neither suspends nor
\* resumes other threads and deletes only threads that are started, have no timer
\* running and are in no call of their own (thread.c, scheduler.c, idle.c).
THEOREM SchedInvariance == ASSUME SafeApps PROVE Spec => []SchedInv
<1>1. Init => SchedInv
  BY SchedInitial
<1>2. SchedInv /\ [Next]_vars => SchedInv'
  BY SchedStep
<1> QED  BY <1>1, <1>2, PTL DEF Spec

\* Linked, of the properties, is InReady, of the proofs.
LEMMA LinkedIsInReady ==
    ASSUME SchedInv, NEW t
    PROVE  Linked(t) <=> InReady(k, t)
<1>1. \A p \in Prio : k.ready[p] \in Seq(Thread)
  BY KernelFields DEF SchedInv, KernelInv, Table
<1> QED  BY <1>1, ContainsIsToSet DEF Linked, InReady

\* Every variable keeps its type; the nesting of rt_enter_critical stays in bounds
\* and there is a frame of isr for each handler rt_interrupt_nest counts.
THEOREM TypeInvariance == ASSUME SafeApps PROVE Spec => []TypeOK
<1>1. SchedInv => TypeOK
  <2> SUFFICES ASSUME SchedInv PROVE TypeOK
    OBVIOUS
  <2>1. /\ k.app \in Apps /\ k.thr \in [Thread -> Tcb] /\ k.ready \in [Prio -> Seq(Thread)]
        /\ k.group \in SUBSET Prio /\ k.waiting \in SUBSET Thread /\ k.defunct \in Seq(Thread)
        /\ k.freed \in SUBSET Dynamic
    BY KernelFields DEF SchedInv, KernelInv, Table
  <2>2. CtxTypeOK
    BY DEF SchedInv, CtxInv
  <2>3. lock \in 0..k.app.lock
    <3>1. k.app.lock \in Nat
      BY <2>1, AppsAssumption
    <3> QED  BY <3>1 DEF SchedInv, ControlInv
  <2>4. pc \in [Thread -> [at : Step, arg : Pointer]]
    BY DEF SchedInv, HandsInv
  <2>5. isr \in Seq({"body", "sched", "done"}) /\ Len(isr) = nest /\ owed \in BOOLEAN
    BY DEF SchedInv, ControlInv
  <2> QED  BY <2>1, <2>2, <2>3, <2>4, <2>5 DEF TypeOK, Tcb
<1> QED  BY <1>1, SchedInvariance, PTL

\* Whatever rt_schedule picks and whoever calls it, a recorded switch is from the
\* thread on the CPU to rt_current_thread, and no saved frame is overwritten.
THEOREM SchedCtxInvariance == ASSUME SafeApps PROVE Spec => []CtxInv
<1>1. SchedInv => CtxInv
  BY DEF SchedInv
<1> QED  BY <1>1, SchedInvariance, PTL

\* rt_thread_ready_priority_group has the bits of the ready lists that are not
\* empty, and a ready list holds READY threads of its priority: rt_schedule never
\* makes a thread of an empty list's head.
THEOREM ReadyTableInvariance == ASSUME SafeApps PROVE Spec => []ReadyTable
<1>1. SchedInv => ReadyTable
  <2> SUFFICES ASSUME SchedInv, NEW p \in Prio
               PROVE  /\ p \in k.group <=> k.ready[p] # <<>>
                      /\ \A i \in DOMAIN k.ready[p] :
                            LET tcb == k.thr[k.ready[p][i]] IN tcb.stat = "READY" /\ tcb.prio = p
    BY DEF ReadyTable
  <2>1. k.ready[p] \in Seq(Thread) /\ (p \in k.group <=> k.ready[p] # <<>>)
    BY KernelFields DEF SchedInv, KernelInv, Table
  <2>2. ASSUME NEW i \in DOMAIN k.ready[p]
        PROVE  k.thr[k.ready[p][i]].stat = "READY" /\ k.thr[k.ready[p][i]].prio = p
    <3>1. k.ready[p][i] \in Thread /\ k.ready[p][i] \in ToSet(k.ready[p])
      BY <2>1, <2>2 DEF ToSet
    <3>2. ThreadOK(k, k.ready[p][i])
      BY <3>1 DEF SchedInv, KernelInv
    <3> QED  BY <3>1, <3>2 DEF ThreadOK
  <2> QED  BY <2>1, <2>2
<1> QED  BY <1>1, SchedInvariance, PTL

\* Thread code outside the kernel belongs to a READY thread of the highest ready
\* priority, unless the scheduler is locked or a priority change is not yet followed
\* by rt_schedule: no rt_schedule is missing in thread.c, ipc.c or the tick handler.
THEOREM HighestRunsInvariance == ASSUME SafeApps PROVE Spec => []HighestRuns
<1>1. SchedInv => HighestRuns
  <2> SUFFICES ASSUME SchedInv, ThreadMode, current # NoThread, pc[cpu].at = "user", lock = 0, ~owed
               PROVE  /\ k.thr[cpu].stat = "READY"
                      /\ \A t \in Thread : Linked(t) => k.thr[cpu].prio <= k.thr[t].prio
    BY DEF HighestRuns
  <2>1. cpu = current /\ current \in Thread /\ isr = <<>>
    BY DEF SchedInv, CtxInv, CtxTypeOK, Pointer, ThreadMode, ControlInv
  <2>2. Highest
    BY <2>1 DEF SchedInv, HighestInv
  <2>3. k.thr[cpu].stat = "READY"
    BY <2>1, <2>2, ThreadFacts DEF SchedInv, Highest
  <2> QED  BY <2>1, <2>2, <2>3, LinkedIsInReady DEF Highest
<1> QED  BY <1>1, SchedInvariance, PTL

\* What rt_thread_idle_excute frees is not on the CPU, not part of a recorded
\* switch, in no list and has no timer.
THEOREM NoUseAfterFreeInvariance == ASSUME SafeApps PROVE Spec => []NoUseAfterFree
<1>1. SchedInv => NoUseAfterFree
  <2> SUFFICES ASSUME SchedInv, NEW t \in k.freed
               PROVE  /\ t # cpu /\ t # current /\ ~(flag /\ t \in {from, to})
                      /\ ~Linked(t) /\ t \notin k.waiting /\ ~Contains(k.defunct, t)
                      /\ ~k.thr[t].timer
    BY DEF NoUseAfterFree
  <2>1. t \in Thread /\ k.defunct \in Seq(Thread)
    BY KernelFields, IdleAssumption DEF SchedInv, KernelInv, Table
  <2>2. Off(t) /\ ThreadOK(k, t)
    BY <2>1 DEF SchedInv, OffInv, KernelInv
  <2>3. ~(flag /\ t \in {from, to})
    BY <2>2 DEF SchedInv, CtxInv, Off
  <2>4. k.thr[t].stat = "CLOSE" /\ t \notin ToSet(k.defunct) /\ t \notin k.waiting /\ ~k.thr[t].timer
    BY <2>2 DEF ThreadOK
  <2>5. ~InReady(k, t)
    BY <2>1, <2>4, ThreadFacts DEF SchedInv
  <2> QED  BY <2>1, <2>2, <2>3, <2>4, <2>5, LinkedIsInReady, ContainsIsToSet DEF Off
<1> QED  BY <1>1, SchedInvariance, PTL

\* A list without repetition has at most one node of a thread.
LEMMA OneNode ==
    ASSUME NEW S, NEW l \in Seq(S), IsInjective(l), NEW t
    PROVE  LET nodes == {i \in DOMAIN l : l[i] = t}
           IN  /\ t \notin ToSet(l) => nodes = {}
               /\ t \in ToSet(l) => \E i \in DOMAIN l : nodes = {i}
<1> DEFINE nodes == {i \in DOMAIN l : l[i] = t}
<1>1. ASSUME t \notin ToSet(l) PROVE nodes = {}
  BY <1>1 DEF ToSet
<1>2. ASSUME t \in ToSet(l) PROVE \E i \in DOMAIN l : nodes = {i}
  <2>1. PICK i \in DOMAIN l : l[i] = t
    BY <1>2 DEF ToSet
  <2>2. nodes = {i}
    BY <2>1 DEF IsInjective
  <2> QED  BY <2>2
<1> QED  BY <1>1, <1>2

\* The one list node of a thread is in at most one list, once; a READY thread is
\* on a ready list unless it is being deleted; a timer that runs belongs to a
\* suspended thread, as rt_thread_timeout asserts.
THEOREM StatMatchesListsInvariance == ASSUME SafeApps PROVE Spec => []StatMatchesLists
<1>1. SchedInv => StatMatchesLists
  <2> SUFFICES ASSUME SchedInv PROVE OneList /\ ReadyIsListed /\ TimerMeansSuspended
    BY DEF StatMatchesLists
  <2>0. /\ k.defunct \in Seq(Thread) /\ IsInjective(k.defunct)
        /\ \A p \in Prio : k.ready[p] \in Seq(Thread) /\ IsInjective(k.ready[p])
    BY KernelFields DEF SchedInv, KernelInv, Table
  <2>1. TimerMeansSuspended
    BY DEF SchedInv, KernelInv, ThreadOK, TimerMeansSuspended
  <2>2. ReadyIsListed
    BY LinkedIsInReady DEF SchedInv, ReadyInv, ReadyIsListed, InHand
  <2>3. OneList
    <3> SUFFICES ASSUME NEW t \in Thread
                 PROVE  LET places == {node \in UNION {{p} \X DOMAIN k.ready[p] : p \in Prio} :
                                          k.ready[node[1]][node[2]] = t}
                            defunct == {i \in DOMAIN k.defunct : k.defunct[i] = t}
                            waiting == k.waiting \cap {t}
                        IN  Cardinality(places) + Cardinality(defunct) + Cardinality(waiting) <= 1
      BY DEF OneList
    <3> DEFINE places == {node \in UNION {{p} \X DOMAIN k.ready[p] : p \in Prio} :
                             k.ready[node[1]][node[2]] = t}
               defunct == {i \in DOMAIN k.defunct : k.defunct[i] = t}
               waiting == k.waiting \cap {t}
    <3>1. ThreadOK(k, t)
      BY DEF SchedInv, KernelInv
    <3>2. \A p \in Prio : t \notin ToSet(k.ready[p]) => \A i \in DOMAIN k.ready[p] : k.ready[p][i] # t
      BY DEF ToSet
    <3>3. ~InReady(k, t) => places = {}
      BY <3>2 DEF InReady
    <3>4. InReady(k, t) => \E n : places = {n}
      <4> SUFFICES ASSUME InReady(k, t) PROVE \E n : places = {n}
        OBVIOUS
      <4>1. PICK p \in Prio : t \in ToSet(k.ready[p])
        BY DEF InReady
      <4>2. PICK i \in DOMAIN k.ready[p] : {j \in DOMAIN k.ready[p] : k.ready[p][j] = t} = {i}
        BY <2>0, <4>1, OneNode
      <4>3. \A q \in Prio : q # p => t \notin ToSet(k.ready[q])
        BY <3>1, <4>1 DEF ThreadOK
      <4>4. ASSUME NEW node \in places PROVE node = <<p, i>>
        <5>1. PICK q \in Prio : node \in {q} \X DOMAIN k.ready[q]
          OBVIOUS
        <5>2. node[1] = q /\ node[2] \in DOMAIN k.ready[q] /\ k.ready[q][node[2]] = t /\ node = <<q, node[2]>>
          BY <5>1
        <5>3. q = p
          BY <3>2, <4>3, <5>2
        <5> QED  BY <4>2, <5>2, <5>3
      <4>5. <<p, i>> \in places
        BY <4>2
      <4> QED  BY <4>4, <4>5
    <3>5. t \notin ToSet(k.defunct) => defunct = {}
      BY <2>0, OneNode
    <3>6. t \in ToSet(k.defunct) => \E n : defunct = {n}
      BY <2>0, OneNode
    <3>7. (t \notin k.waiting => waiting = {}) /\ (t \in k.waiting => waiting = {t})
      OBVIOUS
    <3> HIDE DEF places, defunct, waiting
    <3>8. /\ places = {} => Cardinality(places) = 0
          /\ defunct = {} => Cardinality(defunct) = 0
          /\ waiting = {} => Cardinality(waiting) = 0
      BY FS_EmptySet
    <3>9. /\ (\E n : places = {n}) => Cardinality(places) = 1
          /\ (\E n : defunct = {n}) => Cardinality(defunct) = 1
          /\ (\E n : waiting = {n}) => Cardinality(waiting) = 1
      BY FS_Singleton
    <3>10. CASE InReady(k, t)
      <4>1. k.thr[t].stat = "READY"
        BY <3>10, ThreadFacts DEF SchedInv
      <4>2. t \notin ToSet(k.defunct) /\ t \notin k.waiting
        BY <3>1, <4>1 DEF ThreadOK
      <4>3. Cardinality(places) = 1 /\ Cardinality(defunct) = 0 /\ Cardinality(waiting) = 0
        BY <3>10, <4>2, <3>4, <3>5, <3>7, <3>8, <3>9
      <4> QED  BY <4>3 DEF places, defunct, waiting
    <3>11. CASE ~InReady(k, t)
      <4>1. Cardinality(places) = 0
        BY <3>3, <3>8, <3>11
      <4>2. CASE t \in k.waiting
        <5>1. t \notin ToSet(k.defunct)
          BY <3>1, <4>2 DEF ThreadOK
        <5>2. Cardinality(defunct) = 0 /\ Cardinality(waiting) = 1
          BY <5>1, <4>2, <3>5, <3>7, <3>8, <3>9
        <5> QED  BY <4>1, <5>2 DEF places, defunct, waiting
      <4>3. CASE t \notin k.waiting
        <5>1. Cardinality(waiting) = 0
          BY <4>3, <3>7, <3>8
        <5>2. Cardinality(defunct) = 0 \/ Cardinality(defunct) = 1
          BY <3>5, <3>6, <3>8, <3>9
        <5> QED  BY <4>1, <5>1, <5>2 DEF places, defunct, waiting
      <4> QED  BY <4>2, <4>3
    <3> QED  BY <3>10, <3>11
  <2> QED  BY <2>1, <2>2, <2>3
<1> QED  BY <1>1, SchedInvariance, PTL

-----------------------------------------------------------------------------
(* What a step does to the context switch.                                  *)

\* rt_schedule is a request of the protocol, or nothing.
LEMMA ScheduleIsSwitch ==
    ASSUME NEW s, KernelInv(s), InReady(s, Idle), current # NoThread, ThreadMode \/ nest > 0,
           rt_schedule(s)
    PROVE  [CtxNext]_ctxVars /\ (lock > 0 => UNCHANGED ctxVars)
<1> DEFINE n == NextThread(s)
<1>1. n \in Thread
  BY NextThreadListed
<1> HIDE DEF n
<1>2. CASE lock = 0 /\ n # current
  <2>1. Switch(n)
    BY <1>2 DEF rt_schedule, n, Switch
  <2>2. CtxNext
    BY <1>1, <2>1 DEF CtxNext
  <2>3. ~(lock > 0)
    BY <1>2
  <2> QED  BY <2>2, <2>3
<1>3. CASE ~(lock = 0 /\ n # current)
  BY <1>3 DEF rt_schedule, n
<1> QED  BY <1>2, <1>3

\* Every step of the scheduler is a step of the context switch or leaves it alone, and
\* with the scheduler locked the thread on the CPU stays.
LEMMA StepOfContext ==
    ASSUME SafeApps, SchedInv, [Next]_vars
    PROVE  [CtxNext]_ctxVars /\ (lock > 0 => current' = current /\ cpu' = cpu)
<1> DEFINE goal == [CtxNext]_ctxVars /\ (lock > 0 => current' = current /\ cpu' = cpu)
<1>1. ASSUME UNCHANGED ctxVars PROVE goal
  <2>1. current' = current /\ cpu' = cpu
    BY <1>1 DEF ctxVars
  <2> QED  BY <1>1, <2>1
<1>2. ASSUME NEW s, KernelInv(s), InReady(s, Idle), current # NoThread, ThreadMode \/ nest > 0, rt_schedule(s)
      PROVE  goal
  <2>1. [CtxNext]_ctxVars /\ (lock > 0 => UNCHANGED ctxVars)
    BY <1>2, ScheduleIsSwitch
  <2>2. lock > 0 => current' = current /\ cpu' = cpu
    BY <2>1 DEF ctxVars
  <2> QED  BY <2>1, <2>2
<1>3. KernelInv(k) /\ InReady(k, Idle)
  BY DEF SchedInv, ControlInv
<1>4. ASSUME rt_system_scheduler_start PROVE goal
  <2>1. StartFirst(NextThread(k)) /\ NextThread(k) \in Thread
    BY <1>3, <1>4, NextThreadListed DEF rt_system_scheduler_start
  <2>2. CtxNext
    BY <2>1 DEF CtxNext
  <2>3. ~(lock > 0)
    BY <2>1 DEF StartFirst, SchedInv, ControlInv
  <2> QED  BY <2>2, <2>3
<1>5. ASSUME NEW t \in Thread, ThreadNext(t) PROVE goal
  <2>1. ASSUME ScheduleStep(t) PROVE goal
    <3>1. ThreadMode /\ current # NoThread /\ rt_schedule(k)
      BY <2>1, AtFacts, NoThreadAssumption DEF ScheduleStep, At
    <3> HIDE DEF goal
    <3> QED  BY <1>2, <1>3, <3>1
  <2>2. ASSUME ~ScheduleStep(t) PROVE goal
    <3>1. UNCHANGED ctxVars
      BY <1>5, <2>2 DEF ThreadNext, SuspendStep, ResumeStep1, ResumeStep2, Block, rt_thread_sleep,
         rt_thread_yield, rt_thread_exit, rt_enter_critical, rt_exit_critical, DeleteTimer, DeleteClose,
         rt_thread_startup, rt_thread_resume, rt_thread_suspend, Wake, Delete, rt_thread_control,
         rt_thread_init
    <3> QED  BY <1>1, <3>1
  <2> QED  BY <2>1, <2>2
<1>6. ASSUME IdleReap \/ IdleFree PROVE goal
  BY <1>1, <1>6 DEF IdleReap, IdleFree
<1>7. ASSUME HandlerNext PROVE goal
  <2>1. ASSUME IsrEnter \/ IsrLeave PROVE goal
    <3>1. (IrqEnter \/ IrqLeave) /\ current' = current /\ cpu' = cpu
      BY <2>1 DEF IsrEnter, IsrLeave, IrqEnter, IrqLeave
    <3>2. CtxNext
      BY <3>1 DEF CtxNext
    <3> QED  BY <3>1, <3>2
  <2>2. ASSUME TickYield \/ \E u \in Thread : IsrWake(u) PROVE goal
    BY <1>1, <2>2 DEF TickYield, IsrWake
  <2>3. ASSUME IsrSchedule PROVE goal
    <3>1. current # NoThread /\ (ThreadMode \/ nest > 0) /\ rt_schedule(k)
      BY <2>3, HandlerFacts DEF IsrSchedule
    <3> HIDE DEF goal
    <3> QED  BY <1>2, <1>3, <3>1
  <2>4. ASSUME NEW u \in Thread, TickTimeout(u) PROVE goal
    <3>1. current # NoThread /\ (ThreadMode \/ nest > 0) /\ rt_schedule(k')
      BY <2>4, HandlerFacts DEF TickTimeout, InHandler
    <3>2. SchedInv'
      BY <2>4, Step_Timeout
    <3>3. KernelInv(k') /\ InReady(k', Idle)
      BY <3>2 DEF SchedInv, ControlInv
    <3> HIDE DEF goal
    <3> QED  BY <1>2, <3>1, <3>3
  <2> QED  BY <1>7, <2>1, <2>2, <2>3, <2>4 DEF HandlerNext
<1>8. ASSUME PendSVStep PROVE goal
  <2>1. PendSV /\ CtxNext
    BY <1>8 DEF PendSVStep, CtxNext
  <2>2. flag
    BY <2>1, CtxPendSV DEF SchedInv
  <2>3. ~(lock > 0)
    BY <2>2 DEF SchedInv, ControlInv
  <2> QED  BY <2>1, <2>3
<1>9. ASSUME UNCHANGED vars PROVE goal
  BY <1>1, <1>9 DEF vars
<1> HIDE DEF goal
<1>10. goal
  BY <1>4, <1>5, <1>6, <1>7, <1>8, <1>9 DEF Next
<1> QED  BY <1>10 DEF goal

\* While rt_scheduler_lock_nest is not 0, neither rt_schedule nor a PendSV left
\* over from before changes the running thread.
THEOREM LockHoldsTheorem == ASSUME SafeApps PROVE Spec => LockHolds
<1>1. SchedInv /\ [Next]_vars => [lock > 0 => current' = current /\ cpu' = cpu]_vars
  BY StepOfContext
<1> QED  BY <1>1, SchedInvariance, PTL DEF Spec, LockHolds

\* The scheduler implements ContextSwitch: each of its steps is one the protocol of
\* the port allows, or does not touch it.
THEOREM UsesContextSwitchTheorem == ASSUME SafeApps PROVE Spec => UsesContextSwitch
<1>1. Init => CtxInit
  BY DEF Init
<1>2. SchedInv /\ [Next]_vars => [CtxNext]_ctxVars
  BY StepOfContext
<1> QED  BY <1>1, <1>2, SchedInvariance, PTL DEF Spec, UsesContextSwitch

=============================================================================
