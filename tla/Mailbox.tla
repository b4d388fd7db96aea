------------------------------ MODULE Mailbox ------------------------------
(***************************************************************************)
(* Mailboxes (ipc.c): a ring of size words, a list of waiting receivers    *)
(* and a list of waiting senders.  Resuming a waiter reserves nothing for  *)
(* it: another thread may take the mail, or the room, before it runs, and  *)
(* it then waits again with what is left of its timeout.                   *)
(***************************************************************************)
EXTENDS IpcWait

CONSTANT Size       \* mb->size

ASSUME SizeAssumption == Size \in Nat \ {0}

VARIABLES
    msg_pool, entry, in_offset, out_offset,     \* the mailbox
    mb_got      \* the mail the last receive delivered

mbVars == <<msg_pool, entry, in_offset, out_offset, mb_got>>

Offset == 0..Size - 1

MbTypeOK ==
    /\ msg_pool \in [Offset -> Mail \cup {NoMail}]
    /\ entry \in 0..Size
    /\ in_offset \in Offset /\ out_offset \in Offset
    /\ mb_got \in Mail \cup {NoMail}

\* rt_mb_init
MbInit ==
    /\ msg_pool = [i \in Offset |-> NoMail]
    /\ entry = 0 /\ in_offset = 0 /\ out_offset = 0
    /\ mb_got = NoMail

-----------------------------------------------------------------------------

\* The offset after this one.
Advance(offset) == IF offset + 1 >= Size THEN 0 ELSE offset + 1

\* Slip: the word after the free one is written.
Put_Late(mail) ==
    /\ msg_pool' = [msg_pool EXCEPT ![Advance(in_offset)] = mail]
    /\ in_offset' = Advance(in_offset)
    /\ entry' = entry + 1
    /\ UNCHANGED out_offset

\* The end of rt_mb_send_wait: store the mail.
Put(mail) ==
    /\ msg_pool' = [msg_pool EXCEPT ![in_offset] = mail]
    /\ in_offset' = Advance(in_offset)
    /\ entry' = entry + 1
    /\ UNCHANGED out_offset

\* The end of rt_mb_recv.  The word keeps its old value.
Get ==
    /\ mb_got' = msg_pool[out_offset]
    /\ out_offset' = Advance(out_offset)
    /\ entry' = entry - 1
    /\ UNCHANGED <<msg_pool, in_offset>>

\* A sender that finds room: store, resume the first receiver.
SendSection(mail) ==
    /\ Put(mail)
    /\ w' = ResumeFirst(w, "mb_recv")
    /\ UNCHANGED mb_got

\* Slip: a sender is resumed only when the mailbox was full.
RecvSection_WhenFull ==
    /\ Get
    /\ w' = IF entry = Size THEN ResumeFirst(w, "mb_send") ELSE w

\* A receiver that finds mail: take it, resume the first sender.
RecvSection ==
    /\ Get
    /\ w' = ResumeFirst(w, "mb_send")

\* Wait on list q with timeout to.
WaitSection(t, q, mail, to) ==
    /\ w' = SuspendOn(w, q, t, to = "timed")
    /\ call' = [call EXCEPT ![t] = [op |-> q, mail |-> mail, timeout |-> to]]
    /\ UNCHANGED mbVars

\* One evaluation of the loop of rt_mb_send_wait, with timeout to left: a full
\* mailbox with none left is -RT_EFULL.
MbTrySend(t, mail, to) ==
    \/ entry < Size /\ SendSection(mail) /\ Return(t)
    \/ entry = Size /\ to # "none" /\ WaitSection(t, "mb_send", mail, to)
    \/ entry = Size /\ to = "none" /\ Return(t) /\ UNCHANGED <<w, mbVars>>

\* The same of rt_mb_recv: an empty mailbox with none left is -RT_ETIMEOUT.
MbTryRecv(t, to) ==
    \/ entry > 0 /\ RecvSection /\ Return(t)
    \/ entry = 0 /\ to # "none" /\ WaitSection(t, "mb_recv", NoMail, to)
    \/ entry = 0 /\ to = "none" /\ Return(t) /\ UNCHANGED <<w, mbVars>>

rt_mb_send_wait(t, mail, to) == Free(t) /\ MbTrySend(t, mail, to)
rt_mb_recv(t, to) == Free(t) /\ MbTryRecv(t, to)

\* A handler calls them with timeout 0; without room, or mail, it changes nothing.
IsrSend(mail) == Attached /\ entry < Size /\ SendSection(mail) /\ UNCHANGED call
IsrRecv == Attached /\ entry > 0 /\ RecvSection /\ UNCHANGED call

\* A thread continues after rt_schedule: with its error, or round the loop.
MbWokenSend(t) ==
    /\ Woken(t, "mb_send")
    /\ \/ w.error[t] # "EOK" /\ Return(t) /\ UNCHANGED <<w, mbVars>>
       \/ w.error[t] = "EOK" /\ \E to \in Left(call[t].timeout) : MbTrySend(t, call[t].mail, to)

MbWokenRecv(t) ==
    /\ Woken(t, "mb_recv")
    /\ \/ w.error[t] # "EOK" /\ Return(t) /\ UNCHANGED <<w, mbVars>>
       \/ w.error[t] = "EOK" /\ \E to \in Left(call[t].timeout) : MbTryRecv(t, to)

\* RT_IPC_CMD_RESET of rt_mb_control, by anybody.
rt_mb_control ==
    /\ Attached
    /\ w' = ResumeAll(ResumeAll(w, "mb_recv"), "mb_send")
    /\ entry' = 0 /\ in_offset' = 0 /\ out_offset' = 0
    /\ UNCHANGED <<msg_pool, mb_got, call>>

\* rt_mb_detach and rt_mb_delete: the receivers, then the senders.
rt_mb_detach == Begin("detach", <<"mb_recv", "mb_send">>)

MbNext ==
    \/ \E t \in Thread :
          \/ \E to \in w.app.timeouts : rt_mb_recv(t, to) \/ \E m \in Mail : rt_mb_send_wait(t, m, to)
          \/ MbWokenSend(t) \/ MbWokenRecv(t)
    \/ \E m \in Mail : IsrSend(m)
    \/ IsrRecv
    \/ rt_mb_control

-----------------------------------------------------------------------------

\* The two offsets and the count describe one ring: the free words start where
\* the mails end.
RingConsistent ==
    in_offset = IF out_offset + entry < Size THEN out_offset + entry
                ELSE out_offset + entry - Size

\* The word i places after the oldest mail.
Word(i) == msg_pool[IF out_offset + i < Size THEN out_offset + i ELSE out_offset + i - Size]

MbQ == INSTANCE BoundedQueue
    WITH Item <- Mail, NoItem <- NoMail, got <- mb_got,
         queue <- [i \in 1..entry |-> Word(i - 1)]

\* The ring is a first-in first-out queue: its words from out_offset on are the
\* mails accepted and not received, and a receiver gets the oldest.
MailboxIsQueue == MbQ!Spec

\* While a receiver waits, every mail in the mailbox has a
\* receiver that was resumed for it and has not run yet; the same of senders
\* and free words.
MailWakes ==
    /\ w.list["mb_recv"] # <<>> => entry <= Cardinality(Resumed("mb_recv"))
    /\ w.list["mb_send"] # <<>> => Size - entry <= Cardinality(Resumed("mb_send"))

\* Mail and a waiting receiver do not stay together for ever, nor do room and a
\* waiting sender.
WaitersServed ==
    /\ (entry > 0 /\ w.list["mb_recv"] # <<>>) ~> (entry = 0 \/ w.list["mb_recv"] = <<>>)
    /\ (entry < Size /\ w.list["mb_send"] # <<>>) ~> (entry = Size \/ w.list["mb_send"] = <<>>)

=============================================================================
