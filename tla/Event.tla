------------------------------- MODULE Event -------------------------------
(***************************************************************************)
(* Event sets (ipc.c).  A send walks the suspend list and resumes every    *)
(* waiter whose condition the set now meets; a waiter with                 *)
(* RT_EVENT_FLAG_CLEAR takes its events away from the waiters behind it.   *)
(* What a resumed thread reports is what the send stored in its event_set. *)
(***************************************************************************)
EXTENDS IpcWait

CONSTANT Bit            \* the events of the 32-bit sets

VARIABLES
    set,                \* event->set
    event_set,          \* per thread: the events it waits for, then received
    event_info,         \* per thread: its option
    wanted              \* ghost: per thread, the events of its call

eventVars == <<set, event_set, event_info, wanted>>

Option == [mode : {"AND", "OR"}, clear : BOOLEAN]

EvtTypeOK ==
    /\ set \subseteq Bit
    /\ event_set \in [Thread -> SUBSET Bit] /\ wanted \in [Thread -> SUBSET Bit]
    /\ event_info \in [Thread -> Option]

\* rt_event_init
EvtInit ==
    /\ set = {}
    /\ event_set = [t \in Thread |-> {}]
    /\ event_info = [t \in Thread |-> [mode |-> "OR", clear |-> FALSE]]
    /\ wanted = [t \in Thread |-> {}]

-----------------------------------------------------------------------------

\* The condition of a receiver that waits for the events es with option o.
Meets(es, o, events) ==
    IF o.mode = "AND" THEN es \subseteq events ELSE es \cap events # {}

\* Slip: the walk ends with the first waiter it resumes.
Visit_StopsAtFirst(s, t) ==
    IF s.w # w \/ ~Meets(s.event_set[t], event_info[t], s.set) THEN s
    ELSE LET es == s.event_set[t] \cap s.set
         IN  [s EXCEPT !.event_set[t] = es,
                       !.set = IF event_info[t].clear THEN @ \ es ELSE @,
                       !.w = Resume(s.w, t)]

\* The body of the loop of rt_event_send, for the waiter t.
Visit(s, t) ==
    IF ~Meets(s.event_set[t], event_info[t], s.set) THEN s
    ELSE LET es == s.event_set[t] \cap s.set
         IN  [s EXCEPT !.event_set[t] = es,
                       !.set = IF event_info[t].clear THEN @ \ es ELSE @,
                       !.w = Resume(s.w, t)]

\* Slip: every waiter sees the set as it was when the send began.
rt_event_send_Snapshot(es) ==
    LET now == set \cup es
        met == {t \in ToSet(w.list["event"]) : Meets(event_set[t], event_info[t], now)}
        taken == UNION {event_set[t] : t \in {u \in met : event_info[u].clear}}
    IN  /\ es # {} /\ Attached
        /\ set' = now \ taken
        /\ event_set' = [t \in Thread |-> IF t \in met THEN event_set[t] \cap now
                                          ELSE event_set[t]]
        /\ w' = FoldLeft(Resume, w, SelectSeq(w.list["event"], LAMBDA t : t \in met))
        /\ UNCHANGED <<event_info, wanted, call>>

\* What the loop has done after each of the waiters.
Walk(es) ==
    LET waiters == w.list["event"]
        walk[k \in 0..Len(waiters)] ==
            IF k = 0 THEN [set |-> set \cup es, event_set |-> event_set, w |-> w]
            ELSE Visit(walk[k - 1], waiters[k])
    IN  walk

\* rt_event_send, by a thread or a handler.
rt_event_send(es) ==
    LET s == Walk(es)[Len(w.list["event"])]
    IN  /\ es # {} /\ Attached
        /\ set' = s.set /\ event_set' = s.event_set /\ w' = s.w
        /\ UNCHANGED <<event_info, wanted, call>>

\* rt_event_recv, up to rt_schedule.
rt_event_recv(t, es, o, timeout) ==
    /\ es # {} /\ Free(t)
    /\ \/ /\ Meets(es, o, set)
          /\ set' = IF o.clear THEN set \ es ELSE set
          /\ w' = [w EXCEPT !.error[t] = "EOK"]
          /\ UNCHANGED <<event_set, event_info, wanted, call>>
       \/ /\ ~Meets(es, o, set) /\ timeout = "none"
          /\ w' = [w EXCEPT !.error[t] = "ETIMEOUT"]
          /\ UNCHANGED <<set, event_set, event_info, wanted, call>>
       \/ /\ ~Meets(es, o, set) /\ timeout # "none"
          /\ event_set' = [event_set EXCEPT ![t] = es]
          /\ event_info' = [event_info EXCEPT ![t] = o]
          /\ w' = SuspendOn(w, "event", t, timeout = "timed")
          /\ call' = [call EXCEPT ![t] = [op |-> "event"]]
          /\ wanted' = [wanted EXCEPT ![t] = es]
          /\ UNCHANGED set

\* After rt_schedule: the thread returns its error, or its event_set.
ReceivedEvents(t) ==
    /\ Woken(t, "event")
    /\ Return(t)
    /\ wanted' = [wanted EXCEPT ![t] = {}]
    /\ UNCHANGED <<w, set, event_set, event_info>>

\* RT_IPC_CMD_RESET of rt_event_control.
rt_event_control ==
    /\ Attached
    /\ w' = ResumeAll(w, "event")
    /\ set' = {}
    /\ UNCHANGED <<event_set, event_info, wanted, call>>

\* rt_event_detach and rt_event_delete.
rt_event_detach == Begin("detach", <<"event">>)

EvtNext ==
    \/ \E es \in SUBSET Bit : rt_event_send(es)
    \/ \E t \in Thread :
          \/ \E es \in SUBSET Bit, o \in Option, timeout \in w.app.timeouts :
                rt_event_recv(t, es, o, timeout)
          \/ ReceivedEvents(t)
    \/ rt_event_control

-----------------------------------------------------------------------------

\* No event is missed: no waiter's condition is met while it stays suspended,
\* whatever the waiters before it cleared.
NoMissedEvent ==
    \A t \in ToSet(w.list["event"]) : ~Meets(event_set[t], event_info[t], set)

\* A thread that a send resumed reports, when it runs, events that it asked for:
\* all of them with RT_EVENT_FLAG_AND, at least one with RT_EVENT_FLAG_OR.
ReceivesWanted ==
    \A t \in Resumed("event") :
        /\ event_set[t] \subseteq wanted[t] /\ event_set[t] # {}
        /\ event_info[t].mode = "AND" => event_set[t] = wanted[t]

\* Whom a send passes over, and what it gives to those it resumes.
EventsDelivered == NoMissedEvent /\ ReceivesWanted

ResumedBySend(t) ==
    /\ Contains(w.list["event"], t)
    /\ w.stat[t] = "SUSPEND" /\ w.stat[t]' = "READY" /\ w.error[t]' = "EOK"

\* What a send gives to a waiter was set, before the send or by it; and what a
\* waiter with RT_EVENT_FLAG_CLEAR takes is gone with the step: it is not left in
\* the set, and no other waiter takes it too.
EventsTaken ==
    [][\A es \in SUBSET Bit : rt_event_send(es) =>
          \A t, u \in Thread : ResumedBySend(t) =>
              /\ event_set[t]' \subseteq set \cup es
              /\ event_info[t].clear => event_set[t]' \cap set' = {}
              /\ (ResumedBySend(u) /\ t # u /\ event_info[t].clear /\ event_info[u].clear) =>
                    event_set[t]' \cap event_set[u]' = {}]_<<w, eventVars>>

=============================================================================
