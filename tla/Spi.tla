-------------------------------- MODULE Spi --------------------------------
(***************************************************************************)
(* The SPI bus (spi_core.c) with its controller (spi.c in DMA mode) and    *)
(* the two devices on it: the serial flash (spi_flash_w25qxx.c) and the SD *)
(* card (msd.c).  A call is the sequence of the steps it is made of; the   *)
(* mutexes are abstract, module Mutex is about how they work.              *)
(***************************************************************************)
EXTENDS IpcWait

CONSTANT Pages      \* page programs of a flash write: PAGE_SIZE / 256

ASSUME PagesAssumption == Pages \in Nat \ {0}

VARIABLES
    bus,    \* lock and hold of the mutex, owner, the config of the devices, hw (what
            \* SPI1 is set to), cs (the selected devices), moving (the device whose
            \* data moves), dma (the channel that ends the transfer) and its semaphore
    chip,   \* the flash: its mutex, write enable, busy, the last status read
    ready,  \* the devices that were initialised
    lost    \* ghost: a command met a chip that ignores it, or a transfer was cut off

spiVars == <<bus, chip, ready, lost>>

Flash == "w25q64"
Card == "sd"
SpiDevice == {Flash, Card}

NoConfig == [mode |-> 0, hz |-> 0]
FlashConfig == [mode |-> 3, hz |-> 50000000]
SlowConfig == [mode |-> 0, hz |-> 400000]
FastConfig == [mode |-> 0, hz |-> 25000000]

SpiTypeOK ==
    /\ bus.lock \in Thread \cup {Null} /\ bus.hold \in 0..2
    /\ bus.owner \in SpiDevice \cup {Null} /\ bus.moving \in SpiDevice \cup {Null}
    /\ bus.cs \subseteq SpiDevice
    /\ bus.dma \in {"off", "run", "failed"} /\ bus.sem \in Nat
    /\ chip.lock \in Thread \cup {Null}
    /\ chip.wel \in BOOLEAN /\ chip.busy \in BOOLEAN /\ chip.status \in BOOLEAN
    /\ ready \subseteq SpiDevice /\ lost \in BOOLEAN

\* spi_init, rt_spi_bus_attach_device
SpiInit ==
    /\ bus = [lock |-> Null, hold |-> 0, owner |-> Null, hw |-> NoConfig,
              config |-> [d \in SpiDevice |-> NoConfig], cs |-> {}, moving |-> Null,
              dma |-> "off", sem |-> 0]
    /\ chip = [lock |-> Null, wel |-> FALSE, busy |-> FALSE, status |-> FALSE]
    /\ ready = {} /\ lost = FALSE

-----------------------------------------------------------------------------
(* The calls.                                                               *)

Lock == [do |-> "lock"]
Unlock == [do |-> "unlock"]
Own(d) == [do |-> "own", dev |-> d]
Xfer(d, take, release, data) ==
    [do |-> "xfer", dev |-> d, take |-> take, release |-> release, data |-> data]

rt_spi_configure(d, cfg) ==
    <<[do |-> "set", dev |-> d, cfg |-> cfg], Lock, [do |-> "configure", dev |-> d], Unlock>>

rt_spi_transfer(d, data) == <<Lock, Own(d), Xfer(d, TRUE, TRUE, data), Unlock>>

\* rt_spi_send_then_send and rt_spi_send_then_recv, of messages that are not empty.
rt_spi_send_then(d, data) ==
    <<Lock, Own(d), Xfer(d, TRUE, FALSE, "command"), Xfer(d, FALSE, TRUE, data), Unlock>>

flash_lock == [do |-> "flash_lock"]
flash_unlock == [do |-> "flash_unlock"]
Send(cmd) == rt_spi_transfer(Flash, cmd)

\* w25qxx_read_status and the loop of w25qxx_wait_busy.
w25qxx_wait_busy == rt_spi_send_then(Flash, "RDSR") \o <<[do |-> "if_busy"]>>

w25qxx_init ==
    rt_spi_configure(Flash, FlashConfig) \o <<flash_lock>> \o Send("reset") \o Send("WRDI")
    \o rt_spi_send_then(Flash, "ID") \o <<flash_unlock, [do |-> "register", dev |-> Flash]>>

w25qxx_flash_open ==
    <<flash_lock>> \o Send("WREN") \o Send("WRSR") \o w25qxx_wait_busy \o <<flash_unlock>>

w25qxx_read == Send("WRDI") \o rt_spi_send_then(Flash, "READ")

\* Slip: a read does not wait for a write that is under way.
w25qxx_flash_read_Unlocked == w25qxx_read

w25qxx_flash_read == <<flash_lock>> \o w25qxx_read \o <<flash_unlock>>

PageProgram == Send("WREN") \o rt_spi_send_then(Flash, "PP") \o w25qxx_wait_busy

w25qxx_page_write ==
    Send("WREN") \o Send("ERASE") \o w25qxx_wait_busy
    \o FlattenSeq([i \in 1..Pages |-> PageProgram]) \o Send("WRDI")

\* A write of one sector.
w25qxx_flash_write == <<flash_lock>> \o w25qxx_page_write \o <<flash_unlock>>

\* The driver of the card calls xfer itself, under the lock of the bus.
MSD_take_owner == <<Lock, Own(Card)>>
MSD_take_cs == Xfer(Card, TRUE, FALSE, "none")
MSD_release_cs == Xfer(Card, FALSE, TRUE, "none")
Data(data) == Xfer(Card, FALSE, FALSE, data)

\* The answer of the card: go on, do it once more, or give up.
Answer(again, rest) == [do |-> "answer", again |-> again, rest |-> rest]

_send_cmd == <<Data("command")>>
Exit == <<MSD_release_cs, Unlock>>

\* The card is identified by a sequence of commands, each of them until it answers.
rt_msd_init ==
    LET selected == <<MSD_take_cs>> \o _send_cmd \o <<MSD_release_cs>>
    IN  rt_spi_configure(Card, SlowConfig) \o MSD_take_owner
        \o <<MSD_release_cs, Data("clocks")>> \o selected \o <<Answer(selected, Exit)>>
        \o rt_spi_configure(Card, FastConfig)
        \o <<[do |-> "register", dev |-> Card]>> \o Exit

\* rt_msd_read: a command, the blocks, each after its token, and the stop command
\* after several of them.  rt_msd_write and those for SDHC cards have the same steps.
rt_msd_read(several) ==
    LET block == _send_cmd \o <<Data("block")>>
        stop  == (IF several THEN _send_cmd ELSE <<>>) \o Exit
    IN  MSD_take_owner \o rt_spi_configure(Card, FastConfig)
        \o <<MSD_take_cs>> \o _send_cmd \o <<Answer(<<>>, Exit)>>
        \o _send_cmd \o <<Answer(<<>>, stop), Data("block")>>
        \o (IF several THEN <<Answer(block, stop)>> ELSE <<>>) \o stop

-----------------------------------------------------------------------------
(* The steps.                                                               *)

First(t) == Head(call[t].todo)
Begins(t, do) == Woken(t, "spi") /\ First(t).do = do

GoOn(t, todo) ==
    call' = [call EXCEPT ![t] = IF todo = <<>> THEN Idle ELSE [op |-> "spi", todo |-> todo]]
Continue(t) == GoOn(t, Tail(call[t].todo))

LockBus(t) ==
    /\ Begins(t, "lock") /\ bus.lock \in {Null, t}
    /\ bus' = [bus EXCEPT !.lock = t, !.hold = @ + 1]
    /\ Continue(t) /\ UNCHANGED <<chip, ready, lost>>

UnlockBus(t) ==
    /\ Begins(t, "unlock")
    /\ bus' = [bus EXCEPT !.hold = @ - 1, !.lock = IF bus.hold = 1 THEN Null ELSE @]
    /\ Continue(t) /\ UNCHANGED <<chip, ready, lost>>

\* stm32_spi_dma_configure: nothing to do for the configuration of the owner.  (At
\* first the owner is a null pointer, and memcmp sees the vector table.)
stm32_spi_dma_configure(d) ==
    IF bus.owner # Null /\ bus.config[bus.owner] = bus.config[d] THEN bus.hw ELSE bus.config[d]

\* "not the same owner as current, re-configure SPI bus"
OwnBus(t) ==
    LET d == First(t).dev
    IN  /\ Begins(t, "own")
        /\ bus' = IF bus.owner = d THEN bus
                  ELSE [bus EXCEPT !.hw = stm32_spi_dma_configure(d), !.owner = d]
        /\ Continue(t) /\ UNCHANGED <<chip, ready, lost>>

\* rt_spi_configure stores the configuration with nothing locked ...
SetConfig(t) ==
    /\ Begins(t, "set")
    /\ bus' = [bus EXCEPT !.config[First(t).dev] = First(t).cfg]
    /\ Continue(t) /\ UNCHANGED <<chip, ready, lost>>

\* ... and has the owner of the bus configured.
Configure(t) ==
    LET d == First(t).dev
    IN  /\ Begins(t, "configure")
        /\ bus' = [bus EXCEPT !.hw = IF bus.owner = d THEN stm32_spi_dma_configure(d) ELSE @]
        /\ Continue(t) /\ UNCHANGED <<chip, ready, lost>>

\* What is longer than 32 bytes goes by DMA.
Long(data) == data \in {"READ", "PP", "block", "clocks"}

Deselect(x) == IF x.release THEN bus.cs \ {x.dev} ELSE bus.cs

\* stm32_spi_dma_xfer: select the device and begin; an empty message ends here.
XferBegin(t) ==
    LET x == First(t)
        selected == IF x.take THEN bus.cs \cup {x.dev} ELSE bus.cs
    IN  /\ Begins(t, "xfer")
        /\ \/ /\ x.data = "none"
              /\ bus' = [bus EXCEPT !.cs = IF x.release THEN selected \ {x.dev} ELSE selected]
              /\ Continue(t)
           \/ /\ x.data # "none"
              /\ bus' = [bus EXCEPT !.cs = selected, !.moving = x.dev,
                                    !.dma = IF Long(x.data) THEN "run" ELSE @]
              /\ GoOn(t, <<[x EXCEPT !.do = "end"]>> \o Tail(call[t].todo))
        /\ UNCHANGED <<chip, ready, lost>>

\* DMA1_Channel2_IRQHandler or DMA1_Channel3_IRQHandler: only the interrupt of the
\* channel that ends the transfer is enabled.
DmaComplete ==
    /\ bus.dma = "run"
    /\ bus' = [bus EXCEPT !.dma = "off", !.sem = @ + 1]
    /\ UNCHANGED <<call, chip, ready, lost>>

\* A transfer error sets error_flag and releases nothing.
DmaError ==
    /\ bus.dma = "run"
    /\ bus' = [bus EXCEPT !.dma = "failed"]
    /\ UNCHANGED <<call, chip, ready, lost>>

\* The chip takes a command when it is deselected.
Takes(cmd) ==
    CASE cmd \in {"ERASE", "PP", "WRSR"} -> chip.wel /\ ~chip.busy
      [] cmd \in {"READ", "ID", "WREN", "WRDI"} -> ~chip.busy
      [] OTHER -> TRUE

Command(cmd) ==
    [chip EXCEPT !.wel = (@ \/ cmd = "WREN") /\ cmd # "WRDI",
                 !.busy = @ \/ cmd \in {"ERASE", "PP", "WRSR"},
                 !.status = IF cmd = "RDSR" THEN chip.busy ELSE @]

\* The end of stm32_spi_dma_xfer: after rt_sem_take for a long message.
XferEnd(t) ==
    LET x == First(t)
        cmd == x.dev = Flash /\ x.release
    IN  /\ Begins(t, "end")
        /\ Long(x.data) => bus.sem > 0
        /\ bus' = [bus EXCEPT !.moving = Null, !.cs = Deselect(x),
                              !.sem = IF Long(x.data) THEN @ - 1 ELSE @]
        /\ lost' = (lost \/ bus.dma # "off" \/ (cmd /\ ~Takes(x.data)))
        /\ chip' = IF cmd /\ Takes(x.data) THEN Command(x.data) ELSE chip
        /\ Continue(t) /\ UNCHANGED ready

LockFlash(t) ==
    /\ Begins(t, "flash_lock") /\ chip.lock = Null
    /\ chip' = [chip EXCEPT !.lock = t]
    /\ Continue(t) /\ UNCHANGED <<bus, ready, lost>>

UnlockFlash(t) ==
    /\ Begins(t, "flash_unlock")
    /\ chip' = [chip EXCEPT !.lock = Null]
    /\ Continue(t) /\ UNCHANGED <<bus, ready, lost>>

IfBusy(t) ==
    /\ Begins(t, "if_busy")
    /\ GoOn(t, (IF chip.status THEN w25qxx_wait_busy ELSE <<>>) \o Tail(call[t].todo))
    /\ UNCHANGED spiVars

\* An unknown chip is not registered.
Register(t) ==
    /\ Begins(t, "register")
    /\ \/ ready' = ready \cup {First(t).dev}
       \/ First(t).dev = Flash /\ UNCHANGED ready
    /\ Continue(t) /\ UNCHANGED <<bus, chip, lost>>

FromCard(t) ==
    /\ Begins(t, "answer")
    /\ \/ Continue(t)
       \/ GoOn(t, First(t).again \o call[t].todo)
       \/ GoOn(t, First(t).rest)
    /\ UNCHANGED spiVars

\* An erase, a program or a write of the status register is over.
ChipDone ==
    /\ chip.busy
    /\ chip' = [chip EXCEPT !.busy = FALSE, !.wel = FALSE]
    /\ UNCHANGED <<call, bus, ready, lost>>

\* w25qxx_init runs at start-up; the card is initialised by the first that opens it.
Calls(t) ==
    IF t \in w.app.senders
    THEN IF Card \in ready THEN {rt_msd_read(several) : several \in BOOLEAN}
         ELSE {rt_msd_init}
    ELSE IF Flash \in ready THEN {w25qxx_flash_open, w25qxx_flash_read, w25qxx_flash_write}
    ELSE IF \A u \in Thread : call[u] = Idle THEN {w25qxx_init} ELSE {}

SpiNext ==
    /\ \/ \E t \in Thread :
             \/ Free(t) /\ (\E todo \in Calls(t) : GoOn(t, todo)) /\ UNCHANGED spiVars
             \/ LockBus(t) \/ UnlockBus(t) \/ OwnBus(t) \/ SetConfig(t) \/ Configure(t)
             \/ XferBegin(t) \/ XferEnd(t)
             \/ LockFlash(t) \/ UnlockFlash(t) \/ IfBusy(t) \/ Register(t) \/ FromCard(t)
       \/ DmaComplete \/ DmaError \/ ChipDone
    /\ UNCHANGED w

-----------------------------------------------------------------------------

\* Data moves in the mode of its device, with no other device selected, and a bus
\* that is free has no selected device and no transfer.
BusShared ==
    /\ bus.moving # Null => /\ bus.lock # Null /\ bus.cs \subseteq {bus.moving}
                            /\ bus.hw.mode = bus.config[bus.moving].mode
                            /\ bus.moving = Flash => bus.cs = {Flash}
    /\ bus.lock = Null => bus.cs = {} /\ bus.moving = Null /\ bus.sem = 0

\* The devices share the bus and the threads share the flash: every command finds a
\* chip that takes it, erase and program with the write enable that was sent for them,
\* and every transfer is complete before the device is deselected.
BusReady == Uses("spi") => BusShared /\ ~lost

\* "config spi to high speed" (msd.c:1221): blocks move at the speed of the card.
HighSpeed ==
    \A t \in Thread : call[t].op = "spi" /\ First(t).do = "end" /\ First(t).data = "block" =>
        bus.hw.hz = bus.config[Card].hz

=============================================================================
