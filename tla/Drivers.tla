------------------------------ MODULE Drivers ------------------------------
(***************************************************************************)
(* The objects of the device drivers together with the thread timers: a    *)
(* completion, a data queue, a pipe, a work queue, a serial device and an  *)
(* SPI bus, one of them in each application.                               *)
(***************************************************************************)
EXTENDS Serial, WorkQueue, Pipe, Spi

vars == <<w, call, drain, doneVars, dqVars, serialVars, workVars, pipeVars, spiVars>>

TypeOK ==
    /\ WaitsOK /\ DoneTypeOK /\ DqTypeOK /\ SerialTypeOK /\ WorkTypeOK /\ PipeTypeOK
    /\ SpiTypeOK

Init ==
    WaitsInit /\ DoneInit /\ DqInit /\ SerialInit /\ WorkInit /\ PipeInit /\ SpiInit

\* Interrupts were left disabled, or an assertion failed: nothing more is modelled.
Stopped == masked \/ crowded

\* The thread timer of a waiting thread fires.
TimeoutOf(t) ==
    /\ ~Stopped /\ w.timer[t]
    /\ w' = TimedOut(w, t)
    /\ UNCHANGED <<call, drain, doneVars, dqVars, serialVars, workVars, pipeVars, spiVars>>

CompletionStep ==
    /\ ~Stopped /\ Uses("done") /\ DoneNext
    /\ UNCHANGED <<drain, dqVars, serialVars, workVars, pipeVars, spiVars>>
DataQueueStep ==
    /\ ~Stopped /\ Uses("dq") /\ DqNext
    /\ UNCHANGED <<drain, doneVars, serialVars, workVars, pipeVars, spiVars>>
ResetStep ==
    /\ ~Stopped /\ Uses("reset") /\ (rt_data_queue_reset \/ DrainTest \/ DrainTake)
    /\ UNCHANGED <<doneVars, dqVars, serialVars, workVars, pipeVars, spiVars>>
PipeStep ==
    /\ ~Stopped /\ Uses("pipe") /\ PipeNext
    /\ UNCHANGED <<drain, doneVars, dqVars, serialVars, workVars, spiVars>>
WorkQueueStep ==
    /\ ~Stopped /\ Uses("work") /\ WorkNext
    /\ UNCHANGED <<drain, doneVars, dqVars, serialVars, pipeVars, spiVars>>
SerialRxStep ==
    /\ ~Stopped /\ Uses("rx") /\ RxNext
    /\ UNCHANGED <<drain, doneVars, dqVars, intVars, dmaVars, workVars, pipeVars, spiVars>>
SerialIntTxStep ==
    /\ ~Stopped /\ Uses("int_tx") /\ IntTxNext
    /\ UNCHANGED <<drain, dqVars, rxVars, dmaVars, workVars, pipeVars, spiVars>>
SerialDmaTxStep ==
    /\ ~Stopped /\ Uses("dma_tx") /\ DmaTxNext
    /\ UNCHANGED <<drain, doneVars, rxVars, intVars, workVars, pipeVars, spiVars>>
SpiStep ==
    /\ ~Stopped /\ Uses("spi") /\ SpiNext
    /\ UNCHANGED <<drain, doneVars, dqVars, serialVars, workVars, pipeVars>>

Next ==
    \/ \E t \in Thread : TimeoutOf(t)
    \/ CompletionStep \/ DataQueueStep \/ ResetStep \/ PipeStep \/ WorkQueueStep
    \/ SerialRxStep \/ SerialIntTxStep \/ SerialDmaTxStep \/ SpiStep

Spec == Init /\ [][Next]_vars

\* What goes on by itself: the worker, the thread that called it, a writer that is
\* not suspended, and the transmitter.
Goes(t) ==
    \/ WorkQueueStep /\ Kick(t)
    \/ SerialIntTxStep /\ (PutChar(t) \/ WaitSent(t) \/ WokenWait(t))

FairSpec ==
    /\ Spec
    /\ WF_vars(WorkQueueStep /\ WorkerStep)
    /\ WF_vars(SerialIntTxStep /\ TxDone /\ busy /\ ~busy')
    /\ \A t \in Thread : WF_vars(Goes(t))

-----------------------------------------------------------------------------
(* What the drivers ask of an application.                                  *)

One(S) == \A t, u \in S : t = u

\* The threads that wait for the completion, and those that push.
DoneWaiters(a) ==
    {t \in a.threads : ("done" \in a.uses /\ t \notin a.senders) \/ "int_tx" \in a.uses}
Pushers(a) ==
    {t \in a.threads : ("dq" \in a.uses /\ t \in a.senders) \/ "dma_tx" \in a.uses}

\* One thread waits, pushes, reads, writes or submits work; who pushes waits without
\* limit, and what DMA sends is popped by nobody else.
Orderly(a) ==
    /\ One(DoneWaiters(a)) /\ One(Pushers(a))
    /\ "pipe" \in a.uses => One(a.threads \cap a.senders) /\ One(a.threads \ a.senders)
    /\ "work" \in a.uses => "top" \in a.uses /\ One(a.threads)
    /\ "dq" \in a.uses => a.timeouts \subseteq {"forever"} /\ "dma_tx" \notin a.uses

-----------------------------------------------------------------------------

\* No wake-up is lost: nobody waits for something that is there, unless another
\* thread was resumed for it and has not run yet.
NoLostWakeup == DoneWakes /\ DataWakes /\ PipeWakes /\ WorkerCalled

\* The assertions hold, the worker takes work, and interrupts are enabled again.
NothingWild == TakesWork /\ ~crowded /\ (Uses("reset") \/ InterruptsEnabled)

\* tx_complete follows the transfer, and the channel follows the data queue.
DmaFollowsQueue == Uses("dma_tx") => CompletesSent /\ DmaSendsHead /\ DmaRuns

\* What goes on by itself comes to an end: submitted work is done or cancelled, and a
\* write by interrupt returns.
ServicesEnd == WorkDone /\ WriteEnds

=============================================================================
