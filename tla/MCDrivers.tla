----------------------------- MODULE MCDrivers -----------------------------
(***************************************************************************)
(* The applications for checking Drivers: the objects they use, the        *)
(* threads, which of them send, their timeouts and the flags of a pipe.    *)
(* A queue that is reset has no timed waiters.                             *)
(***************************************************************************)
EXTENDS Drivers

CONSTANTS t1, t2, t3

MCPriority == [t \in Thread |-> 1]

App(uses, threads, senders, timeouts, flags) ==
    [uses |-> uses, mutexes |-> {}, threads |-> threads, senders |-> senders,
     timeouts |-> timeouts, flags |-> flags,
     pops |-> IF "reset" \in uses THEN {"forever"} ELSE Timeouts]

\* One thread waits for a completion, pushes, reads, writes or submits work.
SafeApps ==
    { App({"done"}, {t1, t2, t3}, {t2, t3}, Timeouts, {}),
      App({"dq", "isr"}, {t1, t2, t3}, {t1}, {"forever"}, {}),
      App({"dq", "reset"}, {t1, t2}, {t1}, {"forever"}, {}),
      App({"pipe"}, {t1, t2}, {t1}, {}, {"block_rd", "block_wr"}),
      App({"pipe"}, {t1, t2}, {t1}, {}, {"block_rd"}),
      App({"pipe"}, {t1, t2}, {t1}, {}, {"force_wr"}),
      App({"work", "top"}, {t1}, {}, {}, {}),
      App({"rx"}, {t1}, {}, {}, {}),
      App({"int_tx"}, {t1}, {}, {}, {}),
      App({"dma_tx"}, {t1}, {}, {}, {}),
      App({"spi"}, {t1, t2, t3}, {t3}, {}, {}) }

ASSUME OrderlyApps == \A a \in SafeApps : Orderly(a)

\* A pusher that does not wait.
PollingPush == { App({"dq"}, {t1, t2}, {t1}, {"none", "forever"}, {}) }

\* Two threads that submit work.
TwoSubmit == { App({"work", "top"}, {t1, t2}, {}, {}, {}) }

\* A pipe that overwrites.
ForcedPipe == { App({"pipe"}, {t1, t2}, {t1}, {}, {"block_rd", "force_wr"}) }

\* One thread that writes through DMA.
DmaWriter == { App({"dma_tx"}, {t1}, {}, {}, {}) }

\* One thread uses the card and one the flash.
FlashAndCard == { App({"spi"}, {t1, t2}, {t1}, {}, {}) }

=============================================================================
