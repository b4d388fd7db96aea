------------------------------- MODULE Serial -------------------------------
(***************************************************************************)
(* The serial framework (serial.c) on the USART of the board (uart.c):     *)
(* reception by interrupt into a ring that loses the oldest byte,          *)
(* transmission by interrupt with a completion, and transmission by DMA    *)
(* with a data queue.  A handler is one step: no thread interrupts it.     *)
(***************************************************************************)
EXTENDS Completion, DataQueue

CONSTANTS
    Bufsz,      \* serial->config.bufsz
    Char,       \* what the line carries
    MaxEnds     \* bound: transfers that end between the push of a write and its
                \* test of activated, while the writer is not on the processor

ASSUME SerialAssumption == Bufsz \in Nat /\ Bufsz > 1 /\ MaxEnds \in Nat

VARIABLES
    fifo,       \* rx_fifo: buffer, put_index, get_index
    rx_got,     \* what the last read of a byte returned
    busy,       \* the transmitter of the USART holds a byte: TXE is not set
    state,      \* state of stm32_uart_putc
    activated,  \* tx_dma->activated
    dma,        \* the buffer that the DMA channel sends, or NoMail
    sent,       \* ghost: the buffers that were sent
    completed   \* ghost: the buffers that tx_complete was called with

rxVars == <<fifo, rx_got>>
intVars == <<busy, state>>
dmaVars == <<activated, dma, sent, completed>>
serialVars == <<rxVars, intVars, dmaVars>>

SerialTypeOK ==
    /\ fifo \in [buffer : [0..Bufsz - 1 -> Char \cup {NoMail}], put : 0..Bufsz - 1,
                 get : 0..Bufsz - 1]
    /\ rx_got \in Seq(Char)
    /\ busy \in BOOLEAN /\ state \in {0, 1} /\ activated \in BOOLEAN
    /\ dma \in Mail \cup {NoMail}
    /\ sent \subseteq Mail /\ completed \subseteq Mail

\* rt_serial_open
SerialInit ==
    /\ fifo = [buffer |-> [i \in 0..Bufsz - 1 |-> NoMail], put |-> 0, get |-> 0]
    /\ rx_got = <<>>
    /\ busy = FALSE /\ state = 0
    /\ activated = FALSE /\ dma = NoMail
    /\ sent = {} /\ completed = {}

-----------------------------------------------------------------------------
(* Reception by interrupt. *)

Following(i) == IF i + 1 >= Bufsz THEN 0 ELSE i + 1

\* Slip: the reader is overtaken.
RxInd_Overtakes(ch) ==
    /\ fifo' = [fifo EXCEPT !.buffer[fifo.put] = ch, !.put = Following(@)]
    /\ UNCHANGED <<w, call, rx_got>>

\* RT_SERIAL_EVENT_RX_IND: store the byte; when the next place is the reader's, its
\* byte is lost.
RxInd(ch) ==
    LET put == Following(fifo.put)
    IN  /\ fifo' = [buffer |-> [fifo.buffer EXCEPT ![fifo.put] = ch], put |-> put,
                    get |-> IF put = fifo.get THEN Following(fifo.get) ELSE fifo.get]
        /\ UNCHANGED <<w, call, rx_got>>

\* _serial_int_rx: one byte, in a section of its own.
ReadByte(t) ==
    /\ fifo.get # fifo.put
    /\ rx_got' = <<fifo.buffer[fifo.get]>>
    /\ fifo' = [fifo EXCEPT !.get = Following(@)]
    /\ UNCHANGED w

\* rt_serial_read of size bytes.
rt_serial_read(t, size) ==
    /\ Free(t)
    /\ call' = [call EXCEPT ![t] = [op |-> "rx", size |-> size]]
    /\ UNCHANGED <<w, rxVars>>

IntRx(t) ==
    /\ Woken(t, "rx")
    /\ \/ /\ ReadByte(t)
          /\ call' = [call EXCEPT ![t] = IF @.size = 1 THEN Idle ELSE [op |-> "rx", size |-> @.size - 1]]
       \/ fifo.get = fifo.put /\ Return(t) /\ UNCHANGED <<w, rxVars>>

-----------------------------------------------------------------------------
(* Transmission by interrupt. *)

IntTx(text) == [op |-> "int_tx", text |-> text]

\* rt_serial_write with RT_DEVICE_FLAG_INT_TX: text is a sequence of "char" and "\n".
WriteInt(t, text) ==
    /\ Free(t)
    /\ call' = [call EXCEPT ![t] = IntTx(text)]
    /\ UNCHANGED <<w, intVars, doneVars>>

\* The loop of _serial_int_tx with stm32_uart_putc: a busy transmitter, and the
\* carriage return sent first, return -1.
PutChar(t) ==
    LET text == call[t].text
        cr   == state = 1 /\ Head(text) = "\n"
        rest == IF Len(text) = 1 THEN Idle ELSE IntTx(Tail(text))
    IN  /\ Woken(t, "int_tx")
        /\ \/ busy /\ call' = [call EXCEPT ![t].op = "int_wait"] /\ UNCHANGED intVars
           \/ /\ ~busy
              /\ busy' = TRUE /\ state' = IF cr THEN 0 ELSE 1
              /\ call' = IF cr THEN [call EXCEPT ![t].op = "int_wait"]
                               ELSE [call EXCEPT ![t] = rest]
        /\ UNCHANGED <<w, doneVars>>

WaitSent(t) ==
    /\ Woken(t, "int_wait")
    /\ WaitDone(t, "forever", IntTx(call[t].text))
    /\ UNCHANGED intVars

\* RT_SERIAL_EVENT_TX_DONE.  USART1_IRQHandler raises it whenever the transmit
\* interrupt is enabled, also when it was called for a received byte.
TxDone ==
    /\ busy' \in {FALSE, busy}
    /\ IsrDone
    /\ UNCHANGED state

-----------------------------------------------------------------------------
(* Transmission by DMA. *)

DmaCheck(m) == [op |-> "dma_check", mail |-> m, ends |-> 0]

\* rt_serial_write with RT_DEVICE_FLAG_DMA_TX: push the buffer; each is written once.
WriteDma(t, m) ==
    /\ m \notin sent \cup {dma} \cup {call[u].mail : u \in {v \in Thread : call[v].op = "dq_push"}}
    /\ \A i \in dq.get..dq.put - 1 : At(dq, i) # m
    /\ m \notin completed
    /\ rt_data_queue_push(t, m, "forever", DmaCheck(m))
    /\ UNCHANGED dmaVars

\* Slip: the transfer is started whether or not one is under way.
CheckActive_Always(t) ==
    /\ Woken(t, "dma_check")
    /\ activated' = TRUE
    /\ call' = [call EXCEPT ![t].op = "dma_start"]
    /\ UNCHANGED <<w, dqVars, dma, sent, completed>>

\* _serial_dma_tx after the push: the section that looks at activated ...
CheckActive(t) ==
    /\ Woken(t, "dma_check")
    /\ activated' = TRUE
    /\ call' = [call EXCEPT ![t] = IF activated THEN Idle ELSE [@ EXCEPT !.op = "dma_start"]]
    /\ UNCHANGED <<w, dqVars, dma, sent, completed>>

\* ... and dma_transmit, which programs the channel.
StartTransfer(t) ==
    /\ Woken(t, "dma_start")
    /\ dma' = call[t].mail
    /\ Return(t)
    /\ UNCHANGED <<w, dqVars, activated, sent, completed>>

Waiting == {t \in Thread : call[t].op = "dma_check"}

\* RT_SERIAL_EVENT_TX_DMADONE: pop what was sent, send what is next in the queue.
TxDmaDone ==
    /\ dma # NoMail
    /\ \A t \in Waiting : call[t].ends < MaxEnds
    /\ sent' = sent \cup {dma}
    /\ IF Empty THEN UNCHANGED <<w, dqVars, completed>>
                ELSE PopSection /\ completed' = completed \cup {dq_got'}
    /\ \/ dq'.get # dq'.put /\ activated' = TRUE /\ dma' = At(dq', dq'.get)
       \/ dq'.get = dq'.put /\ activated' = FALSE /\ dma' = NoMail
    /\ call' = [c \in Caller |-> IF c \in Waiting THEN [call[c] EXCEPT !.ends = @ + 1] ELSE call[c]]

-----------------------------------------------------------------------------

RxNext ==
    \/ \E ch \in Char : RxInd(ch)
    \/ \E t \in Thread : (\E size \in 1..2 : rt_serial_read(t, size)) \/ IntRx(t)

IntTxNext ==
    \/ \E t \in Thread :
          \/ \E n \in 1..2 : \E text \in [1..n -> {"char", "\n"}] : WriteInt(t, text)
          \/ PutChar(t) \/ WaitSent(t)
          \/ WokenWait(t) /\ UNCHANGED intVars
    \/ TxDone

DmaTxNext ==
    \/ \E t \in Thread :
          \/ \E m \in Mail : WriteDma(t, m)
          \/ WokenPush(t) /\ UNCHANGED dmaVars
          \/ CheckActive(t) \/ StartTransfer(t)
    \/ TxDmaDone

-----------------------------------------------------------------------------

RxBytes ==
    LET n == IF fifo.put >= fifo.get THEN fifo.put - fifo.get
             ELSE Bufsz - (fifo.get - fifo.put)
    IN  [i \in 1..n |-> fifo.buffer[(fifo.get + i - 1) % Bufsz]]

RxStream == INSTANCE Stream
    WITH Item <- Char, Size <- Bufsz - 1, MaxWrite <- 1, Lossy <- TRUE,
         queue <- RxBytes, got <- rx_got

\* Received bytes are read in the order they came; when the handler is faster than
\* the reader it is the oldest byte that is lost, and only that one.
RxIsStream == RxStream!Spec

\* "set the indication callback function when device has written data to physical
\* hardware" (device.c:388): tx_complete is called with buffers that were sent.
CompletesSent == completed \subseteq sent

\* With a transfer under way the channel sends what is at the head of the queue.
DmaSendsHead == dma # NoMail => dq.get # dq.put /\ At(dq, dq.get) = dma

\* Data in the queue is on its way: the channel is sending, or the writer is about
\* to start it.
DmaRuns ==
    dq.get # dq.put => dma # NoMail \/ \E t \in Thread : call[t].op \in {"dma_check", "dma_start"}

\* A write by interrupt returns.
WriteEnds == \A t \in Thread : (call[t].op = "int_tx") ~> (call[t] = Idle)

=============================================================================
