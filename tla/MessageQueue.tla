---------------------------- MODULE MessageQueue ----------------------------
(***************************************************************************)
(* Message queues (ipc.c): max_msgs slots, each in the free list, in the   *)
(* message list, or in the hand of a call that copies a message into it or *)
(* out of it with interrupts enabled.  A call is three steps: take a slot, *)
(* copy, link the slot (or, receiving, unlink it, copy, free it).          *)
(* A handler may also be interrupted by threads here, which no handler is. *)
(***************************************************************************)
EXTENDS IpcWait

CONSTANT Slot       \* the message slots of msg_pool

ASSUME SlotAssumption == IsFiniteSet(Slot) /\ Slot # {} /\ Null \notin Slot

VARIABLES
    next, text,                                         \* of each slot
    msg_queue_head, msg_queue_tail, msg_queue_free, msg_count,  \* the queue;
                \* msg_count is mq->msg_count
    mq_got      \* the message the last receive unlinked

links == <<next, msg_queue_head, msg_queue_tail, msg_queue_free, msg_count>>
mqVars == <<links, text, mq_got>>

Pointer == Slot \cup {Null}

MqTypeOK ==
    /\ next \in [Slot -> Pointer]
    /\ text \in [Slot -> Mail \cup {NoMail}]
    /\ {msg_queue_head, msg_queue_tail, msg_queue_free} \subseteq Pointer
    /\ msg_count \in 0..Cardinality(Slot)
    /\ mq_got \in Mail \cup {NoMail}

\* rt_mq_init: all slots are free, the last of msg_pool first.
MqInit ==
    LET pool == SetToSeq(Slot)
        n == Len(pool)
    IN  /\ next = [s \in Slot |-> LET i == CHOOSE k \in 1..n : pool[k] = s
                                  IN  IF i = 1 THEN Null ELSE pool[i - 1]]
        /\ msg_queue_head = Null /\ msg_queue_tail = Null
        /\ msg_queue_free = pool[n]
        /\ msg_count = 0
        /\ text = [s \in Slot |-> NoMail]
        /\ mq_got = NoMail

-----------------------------------------------------------------------------

\* The slots from p on, along next.  A list that runs into a cycle is cut off.
Chain(p) ==
    LET hop[k \in 0..Cardinality(Slot)] ==
            IF k = 0 THEN p ELSE IF hop[k - 1] = Null THEN Null ELSE next[hop[k - 1]]
        n == Cardinality({k \in DOMAIN hop : hop[k] # Null})
    IN  [i \in 1..n |-> hop[i - 1]]

\* The caller is at this step of its call.
MqAt(c, place) ==
    /\ c \in Thread => Running(c)
    /\ call[c].op = "mq" /\ call[c].at = place
MqFree(c) == IF c \in Thread THEN Free(c) ELSE call[c] = Idle /\ Attached
Goto(c, place) == call' = [call EXCEPT ![c].at = place]
InCall(place, slot, mail, to) ==
    [op |-> "mq", at |-> place, slot |-> slot, mail |-> mail, timeout |-> to]

\* rt_mq_send and rt_mq_urgent: take a slot off the free list; without one it is
\* -RT_EFULL.
Alloc(c, mail, place) ==
    /\ MqFree(c)
    /\ msg_queue_free # Null
    /\ msg_queue_free' = next[msg_queue_free]
    /\ call' = [call EXCEPT ![c] = InCall(place, msg_queue_free, mail, "none")]
    /\ UNCHANGED <<w, next, text, msg_queue_head, msg_queue_tail, msg_count, mq_got>>

rt_mq_send(c, mail) == Alloc(c, mail, "fill")
rt_mq_urgent(c, mail) == Alloc(c, mail, "fill_urgent")

\* The copy into the slot, with interrupts enabled; rt_mq_send also clears the
\* slot's next.
Fill(c) ==
    /\ MqAt(c, "fill") \/ MqAt(c, "fill_urgent")
    /\ text' = [text EXCEPT ![call[c].slot] = call[c].mail]
    /\ \/ call[c].at = "fill" /\ next' = [next EXCEPT ![call[c].slot] = Null] /\ Goto(c, "link")
       \/ call[c].at = "fill_urgent" /\ UNCHANGED next /\ Goto(c, "link_urgent")
    /\ UNCHANGED <<w, msg_queue_head, msg_queue_tail, msg_queue_free, msg_count, mq_got>>

\* The end of rt_mq_send: link at the tail, resume the first receiver.
Link(c) ==
    LET msg == call[c].slot
    IN  /\ MqAt(c, "link")
        /\ next' = IF msg_queue_tail = Null THEN next
                   ELSE [next EXCEPT ![msg_queue_tail] = msg]
        /\ msg_queue_tail' = msg
        /\ msg_queue_head' = IF msg_queue_head = Null THEN msg ELSE msg_queue_head
        /\ msg_count' = msg_count + 1
        /\ w' = ResumeFirst(w, "mq")
        /\ Return(c)
        /\ UNCHANGED <<text, msg_queue_free, mq_got>>

\* Slip: the tail is not set when the queue was empty.
LinkUrgent_TailKept(c) ==
    LET msg == call[c].slot
    IN  /\ MqAt(c, "link_urgent")
        /\ next' = [next EXCEPT ![msg] = msg_queue_head]
        /\ msg_queue_head' = msg
        /\ msg_count' = msg_count + 1
        /\ w' = ResumeFirst(w, "mq")
        /\ Return(c)
        /\ UNCHANGED <<text, msg_queue_tail, msg_queue_free, mq_got>>

\* The end of rt_mq_urgent: link at the head.
LinkUrgent(c) ==
    LET msg == call[c].slot
    IN  /\ MqAt(c, "link_urgent")
        /\ next' = [next EXCEPT ![msg] = msg_queue_head]
        /\ msg_queue_head' = msg
        /\ msg_queue_tail' = IF msg_queue_tail = Null THEN msg ELSE msg_queue_tail
        /\ msg_count' = msg_count + 1
        /\ w' = ResumeFirst(w, "mq")
        /\ Return(c)
        /\ UNCHANGED <<text, msg_queue_free, mq_got>>

\* rt_mq_recv with a message there: unlink the head.  Its slot is then in hand;
\* call remembers the message it holds.
Take(c) ==
    LET msg == msg_queue_head
    IN  /\ msg_queue_head' = next[msg]
        /\ msg_queue_tail' = IF msg_queue_tail = msg THEN Null ELSE msg_queue_tail
        /\ msg_count' = msg_count - 1
        /\ call' = [call EXCEPT ![c] = InCall("copy", msg, text[msg], "none")]
        /\ mq_got' = text[msg]
        /\ UNCHANGED <<w, next, text, msg_queue_free>>

\* One evaluation of the loop of rt_mq_recv, with timeout to left.
MqTryRecv(c, to) ==
    \/ msg_count > 0 /\ Take(c)
    \/ /\ msg_count = 0 /\ to # "none"
       /\ w' = SuspendOn(w, "mq", c, to = "timed")
       /\ call' = [call EXCEPT ![c] = InCall("wait", Null, NoMail, to)]
       /\ UNCHANGED mqVars
    \/ msg_count = 0 /\ to = "none" /\ Return(c) /\ UNCHANGED <<w, mqVars>>

rt_mq_recv(c, to) ==
    /\ MqFree(c)
    /\ c \in Isr => to = "none"
    /\ MqTryRecv(c, to)

\* After rt_schedule: return the error, or go round the loop.
MqWokenRecv(c) ==
    /\ MqAt(c, "wait")
    /\ \/ w.error[c] # "EOK" /\ Return(c) /\ UNCHANGED <<w, mqVars>>
       \/ w.error[c] = "EOK" /\ \E to \in Left(call[c].timeout) : MqTryRecv(c, to)

\* The copy out of the slot, with interrupts enabled.
Copy(c) ==
    /\ MqAt(c, "copy")
    /\ Goto(c, "free")
    /\ UNCHANGED <<w, mqVars>>

\* The end of rt_mq_recv: the slot is free.
FreeSlot(c) ==
    /\ MqAt(c, "free")
    /\ next' = [next EXCEPT ![call[c].slot] = msg_queue_free]
    /\ msg_queue_free' = call[c].slot
    /\ Return(c)
    /\ UNCHANGED <<w, text, msg_queue_head, msg_queue_tail, msg_count, mq_got>>

\* Slip: the tail is left where it was.
rt_mq_control_TailKept ==
    LET msgs == Chain(msg_queue_head)
        last == Len(msgs)
        Below(s) == LET i == CHOOSE k \in 1..last : msgs[k] = s
                    IN  IF i = 1 THEN msg_queue_free ELSE msgs[i - 1]
    IN  /\ Attached
        /\ w' = ResumeAll(w, "mq")
        /\ next' = [s \in Slot |-> IF Contains(msgs, s) THEN Below(s) ELSE next[s]]
        /\ msg_queue_free' = IF last = 0 THEN msg_queue_free ELSE msgs[last]
        /\ msg_queue_head' = Null /\ UNCHANGED msg_queue_tail
        /\ msg_count' = 0
        /\ UNCHANGED <<text, mq_got, call>>

\* RT_IPC_CMD_RESET of rt_mq_control: resume all receivers and push the messages
\* one by one on the free list.
rt_mq_control ==
    LET msgs == Chain(msg_queue_head)
        last == Len(msgs)
        Below(s) == LET i == CHOOSE k \in 1..last : msgs[k] = s
                    IN  IF i = 1 THEN msg_queue_free ELSE msgs[i - 1]
    IN  /\ Attached
        /\ w' = ResumeAll(w, "mq")
        /\ next' = [s \in Slot |-> IF Contains(msgs, s) THEN Below(s) ELSE next[s]]
        /\ msg_queue_free' = IF last = 0 THEN msg_queue_free ELSE msgs[last]
        /\ msg_queue_head' = Null
        /\ msg_queue_tail' = IF Contains(msgs, msg_queue_tail) THEN Null ELSE msg_queue_tail
        /\ msg_count' = 0
        /\ UNCHANGED <<text, mq_got, call>>

\* rt_mq_detach and rt_mq_delete.
rt_mq_detach == Begin("detach", <<"mq">>)

MqNext ==
    \/ \E c \in Caller :
          \/ \E m \in Mail : rt_mq_send(c, m) \/ rt_mq_urgent(c, m)
          \/ \E to \in w.app.timeouts \cup {"none"} : rt_mq_recv(c, to)
          \/ Fill(c) \/ Link(c) \/ LinkUrgent(c) \/ MqWokenRecv(c) \/ Copy(c) \/ FreeSlot(c)
    \/ rt_mq_control

-----------------------------------------------------------------------------

\* The messages are one list from head to tail, and msg_count counts them.
ListConsistent ==
    LET msgs == Chain(msg_queue_head)
    IN  /\ Len(msgs) = msg_count
        /\ msg_queue_tail = IF msgs = <<>> THEN Null ELSE Last(msgs)

Holders == {c \in Caller : call[c].op = "mq" /\ call[c].slot # Null}
InHand == {call[c].slot : c \in Holders}

\* Every slot is exactly once free, a message, or in one call's hand: no call
\* loses a slot, and none uses a slot that another call uses.
SlotsOnce ==
    LET free == Chain(msg_queue_free)
        msgs == Chain(msg_queue_head)
    IN  /\ ToSet(free) \cup ToSet(msgs) \cup InHand = Slot
        /\ Len(free) + Len(msgs)
              + Cardinality(Holders) = Cardinality(Slot)

\* Until it has been copied out, the message of an unlinked slot is what it was.
MessageIntact ==
    \A c \in Holders : call[c].at = "copy" => text[call[c].slot] = call[c].mail

\* However the three sections of the calls interleave, the lists stay lists, no
\* slot is lost or shared, and what a receiver copies is what was sent.
SlotsConserved == ListConsistent /\ SlotsOnce /\ MessageIntact

\* While a receiver waits, every message has a receiver that was resumed for it
\* and has not run yet.
MessageWakes ==
    w.list["mq"] # <<>> =>
        msg_count <= Cardinality({t \in Resumed("mq") : call[t].at = "wait"})

MqQ == INSTANCE BoundedQueue
    WITH Item <- Mail, NoItem <- NoMail, got <- mq_got, Size <- Cardinality(Slot),
         queue <- [i \in DOMAIN Chain(msg_queue_head) |-> text[Chain(msg_queue_head)[i]]]

\* The messages, from head to tail, are a first-in first-out queue with an urgent
\* entry at the front; a sender adds its message when it links it and a receiver
\* removes the oldest when it unlinks it.
MessagesAreQueue == MqQ!Spec

=============================================================================
