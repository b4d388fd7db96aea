# Verification of the RT-Thread kernel port

This directory models the kernel of `rt-thread-stm32f103`: RT-Thread on a Cortex-M3
with its scheduler, timers, inter-thread communication, memory pools and the
drivers and services around them. The modules are written in TLA+, checked with
TLC on small instances, and proved with TLAPS where a proof is in reach.
`PROJECT.json` maps every definition to the lines it models and lists the runs, the
mutants, the findings, the hazards and the theorems.

## 1. Inventory

| component | state | operations | how it interacts |
|---|---|---|---|
| context switch (`CORTEX-M3/context_gcc.S`, `cpuport.c`, `Kernel/irq.c`) | `rt_interrupt_from_thread`, `rt_interrupt_to_thread`, `rt_thread_switch_interrupt_flag`, the PendSV bit, stack frames, `rt_interrupt_nest` | `rt_hw_context_switch(_interrupt)`, `rt_hw_context_switch_to`, `PendSV_Handler`, interrupt enter and leave | called by `rt_schedule`; PendSV has the lowest exception priority and runs when every handler has returned |
| scheduler (`Kernel/scheduler.c`) | ready lists per priority, the bitmap `rt_thread_ready_priority_group`, `rt_current_thread`, `rt_scheduler_lock_nest` | start, `rt_schedule`, insert, remove, enter and exit critical | called by every operation that makes a thread ready or not ready |
| threads and idle (`Kernel/thread.c`, `idle.c`) | thread control blocks, the one list node `tlist`, the thread timer, the defunct list | init, create, startup, suspend, resume, sleep, yield, control, exit, delete, detach, timeout, the clean-up by idle | IPC objects and timers suspend and resume threads through them |
| clock and timers (`Kernel/clock.c`, `timer.c`) | `rt_tick`, `rt_timer_list`, timer objects | init, start, stop, control, detach, delete, `rt_timer_check`, `rt_tick_increase` | the tick handler calls timeout functions, which call back into timers, threads and IPC |
| IPC (`Kernel/ipc.c`): semaphore, mutex, event, mailbox, message queue | the suspend lists and the value, owner and hold, event set, ring, slot lists | init, take or receive, release or send, reset, detach, delete | suspend and resume threads, start thread timers, mutexes change priorities |
| memory pools (`Kernel/mempool.c`) | free list, two counters, a suspend list | init, alloc, free, detach, delete | as IPC |
| small memory heap (`Kernel/mem.c`) | the chain of blocks, `lfree` | malloc, realloc, calloc, free | guarded by a semaphore |
| objects, devices (`Kernel/object.c`, `device.c`) | object containers, open counts | init, allocate, detach, delete, find; register, open, close, read, write | every kernel object is in a container |
| driver IPC (`DeviceDrivers/completion.c`, `dataqueue.c`, `pipe.c`, `ringbuffer.c`, `portal.c`, `workqueue.c`) | flags, index pairs, suspended lists | wait and done, push and pop, read and write, put and get, dowork | between handlers and threads |
| serial framework (`DeviceDrivers/serial.c`) and its driver (`Drivers/uart.c`) | receive FIFO, completion, data queue, DMA state | open, close, read, write, interrupt and DMA indications | handlers against threads; uses completions and data queues |
| SPI (`DeviceDrivers/spi_core.c`, `Drivers/spi.c`), flash (`spi_flash_w25qxx.c`), SD card (`Drivers/msd.c`) | mutex, owner and configuration of the bus, DMA semaphore, mutex of the flash | configure, transfer, two-part messages; init, open, read, write | two devices share a bus, several threads a device |
| device file system (`Filesystems/dfs*.c`) | descriptor table, mount table | open, close, read, write, mount, unmount | over devices and FatFs |
| shell (`Finsh/*.c`) | line buffer, history, receive semaphore | line editing, command dispatch | over a serial device |
| board support (`Drivers/board.c`), peripheral drivers, start-up, kernel services | registers, none, none | | |

What is hard here is concurrency: handlers of several levels interrupt thread code
at every instruction outside an interrupt-disabled section, a handler can make
another thread run in the middle of a kernel call, and thread timers end any wait
at any moment. Many kernel calls consist of several sections, and what one of them
checked can be stale in the next. Nothing is persistent, so there is no crash
recovery. The `hazards` of `PROJECT.json` give each such place.

What makes each part correct:

- context switch: the registers of a thread are saved to and restored from its own
  frame, whatever happens between a request and PendSV;
- scheduler and threads: bitmap, lists and `stat` agree, the highest ready thread
  runs, a locked scheduler does not switch, closed threads are out of every ready
  list before they are freed, threads of one priority share the CPU;
- timers: the list is ordered by true expiry across the wrap of the tick, no timer
  fires early or is left over, the check loop ends;
- IPC and pools: what is given is neither lost nor duplicated, nobody waits for what
  is there, a mutex has one owner with the right priority, a mailbox and a message
  queue are bounded FIFO queues;
- heap: the chain of headers tiles the memory, no two free blocks are neighbours, every
  used block has one holder, `used_mem` is what is used;
- driver IPC and serial: data arrives once and in order, no wake-up is lost, every
  return enables interrupts again, the DMA channel runs while there is data;
- SPI: data moves in the mode of its device with only that device selected, and a chip
  is never sent what it will ignore;
- file system: descriptors, mounts, volumes and device references are taken and given
  back in pairs on every path, failures included.

## 2. Modules

| module | models | state and actions |
|---|---|---|
| `ContextSwitch` | `context_gcc.S`, the tail of `rt_schedule`, `irq.c` | `current`, `flag`, `from`, `to`, `pendsv`, `nest` are the variables of the code; `cpu` and `saved` say whose registers are on the CPU and in each frame |
| `Scheduler` | `scheduler.c`, `thread.c`, `idle.c`, the tick handler | extends `ContextSwitch`; `k` holds the thread control blocks, ready lists, bitmap, defunct list; `pc` is the continuation of each thread's call, `isr` that of each active handler |
| `Timer` | `timer.c`, `clock.c` | `list`, `tm`, `tick`; `due` is a ghost that counts without wrap |
| `IpcWait` | `rt_ipc_list_suspend`, `_resume`, `_resume_all`, `rt_thread_timeout` | `w`: stat, error, timer, priority, suspend lists; `call`: the call each thread is in |
| `Semaphore`, `Mutex`, `Event`, `Mailbox`, `MessageQueue`, `MemPool` | the objects of `ipc.c` and `mempool.c` | the fields of the control blocks; one action per operation, or per section where an operation has several |
| `Ipc` | their composition with the thread timers | |
| `BoundedQueue` | abstract: what a mailbox, a message queue and a data queue promise | `queue`, `got`; `Mailbox`, `MessageQueue` and `DataQueue` implement it |
| `Heap` | `mem.c` | `heap`: the headers by offset, `lfree`, `used_mem`; `held`: what each thread was given; `call`: where it is in `rt_realloc` |
| `Completion`, `DataQueue`, `WorkQueue` | `completion.c`, `dataqueue.c`, `workqueue.c` | the fields of the control blocks, over `IpcWait`; `masked` says that interrupts were left disabled |
| `RingBuffer`, `Pipe` | `ringbuffer.c`, `pipe.c` | the ring is a record that operators map to the next one; the pipe is its reader and writer |
| `Serial` | `serial.c`, the transmit side of `uart.c` | extends `Completion` and `DataQueue`; receive FIFO, transmit by interrupt, transmit by DMA |
| `Stream` | abstract: what a pipe and the receive FIFO promise | the bytes under way, oldest first; the oldest may be dropped where the code says so |
| `Spi` | `spi_core.c`, `spi.c` in DMA mode, the flash, the bus side of `msd.c` | a call is the sequence of its steps (`call[t].todo`), an action executes the first one; `bus`, `chip` and the ghost `lost` |
| `Drivers` | the driver objects together with the thread timers | |
| `Dfs` | `dfs.c`, `dfs_posix.c`, `dfs_file.c`, `dfs_fs.c`, `dfs_elm.c` | descriptor table, mount table, volumes, device reference counts; `live` and `wild` are ghosts |
| `ListLemmas` | | lemmas: least elements, finite sets, sequences without repetition, sums |
| `SchedulerProofs` | | theorems about `ContextSwitch` and `Scheduler` |
| `IpcWaitProofs` | | lemmas about suspend lists |
| `IpcProofs` | | lemmas about the steps of `Ipc`, theorems about suspend lists and all objects of `Ipc` |
| `TimerProofs`, `HeapProofs`, `DriversProofs`, `DfsProofs` | | theorems about `Timer`, `Heap`, `Drivers` and `Dfs` |
| `MCScheduler`, `MCTimer`, `MCIpc`, `MCHeap`, `MCDrivers`, `MCDfs` | instances for TLC | applications, priorities, timeout functions, names, symmetry |

A step of a model is one section with interrupts disabled, which on this single-core
machine is atomic. Code between two sections touches only locals or data in the hand
of one call; where it does touch shared data (the copies of a message queue, the
unguarded test in `rt_ipc_list_resume_all`, the checks at the head of
`rt_thread_resume` and `rt_thread_suspend`, the list of a work queue) it is a step of its
own. `Heap` takes everything between `rt_sem_take` and `rt_sem_release` of `heap_sem` as one
step, `Dfs` everything under `fslock`; `rt_realloc` gives the semaphore back in the middle
and has a step for each part. `Dfs` also joins `fd_new` with the `fd_get` that follows it, and
the two `fd_put` at the end of `close`: nobody else has the descriptor yet, or any more.
In `Spi` the mutexes are abstract; `Mutex` is about how they work.

`Scheduler` abstracts time: an armed thread timer may fire at any tick. It abstracts
IPC to a set of threads linked in some suspend list. `IpcWait` in turn abstracts
scheduling: any READY thread may take the next step, which includes every order the
scheduler can produce.

An *application* (`k.app`, `w.app`) is chosen in the initial state: the operations
it calls, its threads, its timeouts and bounds. It lets one run examine several
scenarios, none of which needs all threads and all operations at once, and it makes
assumptions about the callers explicit.

What the modules assume of the application (the code does not check it):

- it does not block or exit with the scheduler locked; nobody starts, deletes or
  re-initialises a thread that another call is starting or deleting; a thread does
  not delete itself; it deletes a thread in the middle of such a call, a sleeping
  thread or a thread never started only where the run says so (`delete_busy`,
  `delete_timed`, `delete_init`);
- a timer is started with 1 to RT_TICK_MAX/2 - 1 ticks (`TickAssumption`), and not
  by two threads at the same time;
- after the detach of an object begins nobody begins a call on it. A detached mailbox or
  message queue has one waiting thread: with two, a receiver that the detach resumed
  resumes a sender between the test of the list and the taking of its head;
- a data queue has one thread that pushes and the pusher waits without limit, a queue
  that is reset has no timed waiters; one thread submits work, and the worker is above
  it; SPI messages are not empty (an empty first part is taken for an error and leaves the
  device selected); the card is used by one thread at a time;
- with `Careful = TRUE` a program does not open what another one is removing, close what
  another one is using, or unmount what is in use.

Section 6 says what happens otherwise.

## 3. Runs

| run | instance | shows |
|---|---|---|
| `scheduler` | 3 threads and idle on 3 priorities, handlers nested 2 deep, critical sections nested 2 deep; applications `Everything` (two threads), `Endings`, `Resumes` | `TypeOK`, `CtxInv`, `ReadyTable`, `StatMatchesLists`, `HighestRuns`, `NoUseAfterFree`, `LockHolds`, and that `Scheduler` uses the context switch only as `ContextSwitch` allows (`UsesContextSwitch`), so that the theorems about `ContextSwitch` apply to it |
| `round_robin` | 2 threads of one priority that never block | `RoundRobin` under fairness |
| `delete_sleeping` | a sleeping thread is deleted | violation, section 6 |
| `timer` | 3 timers, 2 threads, tick modulo 10, periods up to 2, timeout functions that start, stop and detach | `Sorted`, `ListedIsActive`, `FiresOnTime`, `NoOvertaking`, `CheckTerminates` (every round of the check loop leaves fewer due timers) |
| `ipc` | up to 3 threads of different priorities and handlers on one object of each kind (two mutexes), RT_IPC_FLAG_PRIO, with detach | conservation (`PermitsConserved`, `SlotsConserved`, `BlocksConserved`), `NoLostWakeup`, `WaitersConsistent`, `MutualExclusion`, `Inheritance`, `EventsDelivered` and `EventsTaken`, and that mailbox and message queue implement `BoundedQueue` (`MailboxIsQueue`, `MessagesAreQueue`) |
| `ipc_served` | RT_IPC_FLAG_FIFO | `WaiterServed`, `WaitersServed` |
| `heap` | 2 threads, requests of 0, 1, 4 and 9 words in a heap of 18 | `HeapSound`, `MemoryAccounted` |
| `drivers` | eleven applications, one object each: completion, data queue with handlers, data queue with reset, three kinds of pipe, work queue, serial receive, transmit by interrupt, transmit by DMA, SPI bus with flash and card | `NoLostWakeup`, `NothingWild` (no assertion fails, the worker never takes the list head for work, interrupts are enabled on return), `DmaFollowsQueue`, `BusReady`, `DataQueueIsQueue`, `PipeIsStream`, `RxIsStream`, and under fairness `ServicesEnd` |
| `dfs` | 2 threads with files, 1 that mounts and formats, 2 descriptors, 2 mounts, 2 volumes, 2 devices | `DescriptorsCounted`, `MountsAccounted`, `UnlinksClosed` |
| `detach_timed`, `mutex_priority`, `pool_count` | | violations, section 6 |

Bounds. Two threads of one priority and one above them are what preemption, round
robin and a delete by a third party need; two handler levels are what a second
`rt_schedule` before PendSV needs. A tick modulo 10 with periods of 1 and 2 passes
the wrap many times in every order. A mailbox of 2 words, 2 message slots and 2
blocks are the least with states that are neither full nor empty, and three threads
allow two waiters and a competitor. `ValueMod` 3 lets the semaphore value wrap. A heap of
18 words with headers of 3 holds up to four least blocks: a block with two neighbours of
either kind, a split with and without a remainder, and a request that does not fit.
A data queue of 2 with a low water mark of 1 and indices modulo 8 fills and empties in
every phase; `MaxIndex` 7 stops before the wrap (section 6). A pipe of 4 bytes is written in
pieces of 1 and 2 or more than fits, a receive buffer of 3 overflows. Two page programs
stand for sixteen. Two descriptors, mounts and volumes let each table be full.
`MaxPermits`, `MaxHold`, `MaxInit`, `MaxLate`, `MaxNest`, `MaxIndex`, `MaxEnds`, `MaxWrite`,
`MaxDepth` and the `lock` of an application are bounds in guards. `Mail`, `TimerSet`, and the
threads of `heap` and `dfs` are symmetric where only safety is checked; the threads of the
others are not, because their priorities or roles differ.
Deadlock is not checked in `ipc`: two mutexes taken in opposite orders, and a
detached object, stop the system; nor in `drivers`, where the bounded counters, interrupts
left disabled and a failed DMA transfer do.

Fairness. `Scheduler!Fairness`: the tick goes on and the slice of the current thread
runs out, handlers return and do not take all of the CPU (strong fairness, since
other handlers interrupt them again and again), and calls and critical sections end.
`Ipc!FairSpec`: a READY thread goes on with
its call (which the priorities guarantee only if more urgent threads block now and
then), somebody releases the semaphore again and again, and an owner leaves its mutex.
`Drivers!FairSpec`: the worker runs (it has the highest priority there), a thread that kicked
it goes on, a writer that is not suspended goes on, and the transmitter finishes its byte.
Nothing is assumed of the DMA controller of the SPI bus, which may fail.

`owed` in `Scheduler` is a history variable: `rt_thread_control` changes a priority
without calling `rt_schedule`, so `HighestRuns` is claimed from the next
`rt_schedule` on. `RoundRobin` is about `rt_current_thread`: a thread that was chosen can
lose the CPU again before PendSV when handlers keep rescheduling.

Every property of a passing run has a mutant in `PROJECT.json`: a plausible slip in
the code (definitions marked `Slip` next to what they change) under which TLC finds
the property violated.

## 4. Proofs

Every theorem holds for all values of the constants that the named assumptions of the
modules admit. What they ask for: sentinels (`NoThread`, `Null`, `NoTimer`, `NoMail`) are not
elements of the sets they complete; threads, mutexes, slots and blocks are finite sets, and
the objects have their own names (`ThreadAssumption`, `MutexesAssumption`, `SlotAssumption`,
`BlockAssumption`); sizes and bounds are numbers; priorities are 0 to 254 and a mutex is held
at most 255 deep (`rt_uint8_t`); `TickAssumption`, that the longest timeout and the longest
delay of the tick handler together are less than half the range of the tick, which is what
the test `< RT_TICK_MAX / 2` of the code needs; the idle thread has the lowest priority, is not
dynamic and has no clean-up function (`IdleAssumption`). An application is any element of `Apps`.

### Context switch

- `CtxInvariance`: `CtxSpec => []CtxInv`;
- `ContextIntactInvariance`: no frame ever holds another thread's registers;
- `RunsCurrentInvariance`: thread code always runs as `rt_current_thread`.

The last two are not inductive. That PendSV saves to the right frame depends on
`from` being the thread whose registers are on the CPU, which holds only because the
second of two requests keeps `from` (the `_reswitch` branch). `CtxInv` says this: while
`flag` is set, `from = cpu` and `to = current`, and the PendSV bit is set; otherwise
`cpu = current`. Each action preserves it: a first request starts with
`cpu = current`, a later one leaves `from` and moves `to` with `current`, PendSV stores
`cpu` where it already was and makes `cpu = current`. `CtxInv` itself is also an
invariant of the `scheduler` run.

### Scheduler and threads

All properties of the run `scheduler` are proved for any threads, priorities, nesting of handlers
and depth of the scheduler lock, under the hypothesis `SafeApps`:

| theorem | property |
|---|---|
| `TypeInvariance` | `TypeOK` |
| `SchedCtxInvariance` | `CtxInv` |
| `ReadyTableInvariance` | `ReadyTable` |
| `StatMatchesListsInvariance` | `StatMatchesLists` |
| `HighestRunsInvariance` | `HighestRuns` |
| `NoUseAfterFreeInvariance` | `NoUseAfterFree` |
| `LockHoldsTheorem` | `LockHolds` |
| `UsesContextSwitchTheorem` | `UsesContextSwitch`: `Scheduler` implements `ContextSwitch` |

`SafeApps` describes applications, not states. They start, block, wake, sleep, yield, change
priorities, exit, delete, re-initialise and lock the scheduler as they like (`Everything` and
`Endings` of `MCScheduler` are such applications), but they do not suspend or resume other
threads, and do not delete a thread that is in a call of its own, has its timer running or was
never started. The second part is needed: `delete_sleeping` and section 6 show what happens
otherwise. The first part is a limit of the proof: the run `scheduler` also covers `Resumes`.

None of the properties is inductive. `SchedInv` is, and says:

- `KernelInv`: no thread is twice in a list, the bits are those of the lists with threads, and
  the control block of each thread agrees with the lists it is on, `number_mask` included
  (`rt_schedule_remove_thread` clears the bits of `number_mask`, not those of the list).
- `HandsInv`: what a call checked in its first section still holds in its last. A thread between
  the sections of `rt_thread_startup` or `rt_thread_delete`, or taken off the defunct list by idle,
  is in no list, has no timer, and is in the hand of one call only.
- `ReadyInv`: a READY thread is on a ready list or about to be closed.
- `OffInv`: a thread that is freed or on its way to be is off the CPU. It was taken off the
  ready lists by another thread, which runs, so it is neither `current` nor `cpu`; and
  `rt_schedule` takes only threads on ready lists.
- `CurrentInv`, `HighestInv`: `rt_current_thread` is ready and the highest, or a `rt_schedule` is
  still to come, from the thread itself or from a handler that has not returned.
- `ControlInv`: idle is always ready, so that `rt_schedule` finds a list for its bit; a locked
  scheduler has no switch recorded, which gives `LockHolds`.
- `CtxInv`, as above.

A section of a thread operation moves one thread (`Moved`). A lemma per operator of `Scheduler`
says whom it moves and what becomes of that thread; `KernelKept`, `HandsKept` and `HighestKept`
say that nothing else changes for the others. A lemma `Step_..` per action puts the parts
together, and `SchedStep` the actions. `AfterSchedule` is the one about `rt_schedule`: the head
of the list of the first bit is the highest ready thread. For the refinement,
`StepOfContext` maps each action to a step of `ContextSwitch` or to a stutter.

### IPC and memory pools

All invariants, action properties and refinements of the run `ipc` are proved:

| theorem | property | hypothesis |
|---|---|---|
| `MutualExclusionInvariance` | `MutualExclusion` | |
| `InheritanceInvariance` | `Inheritance` | `Flag = "PRIO"` |
| `EventsDeliveredInvariance`, `EventsTakenProperty` | `EventsDelivered`, `EventsTaken` | |
| `WaitersConsistentInvariance` | `WaitersConsistent` | `SafeDetach` |
| `PermitsConservedInvariance`, `BlocksConservedInvariance`, `SlotsConservedInvariance` | `PermitsConserved`, `BlocksConserved`, `SlotsConserved` | |
| `NoLostWakeupInvariance` | `NoLostWakeup` | |
| `MailboxRefinesQueue`, `MessageQueueRefinesQueue` | `MailboxIsQueue`, `MessagesAreQueue` | |

The hypotheses. In a FIFO list the head need not be the most urgent waiter, and
`rt_mutex_release` hands the mutex to the head, without a look at who waits behind it: then
`Inheritance` is false. `SafeDetach` says that an application that detaches, resets or deletes
objects uses no timed waits, no mailbox and no message queue: a timeout
between the test of the list and the taking of its head is what `detach_timed` shows, and a
resumed receiver does the same by resuming a sender (section 2; with one waiting thread the run
`ipc` covers mailbox and message queue). Without
the hypothesis `ListsConsistentInvariance` still holds: `WaitersConsistent` less the claim that
`rt_ipc_list_resume_all` never takes the list head for a thread.

The argument has three layers.

1. *Lists* (`ListLemmas`, `IpcWaitProofs`). `Linked` says that no thread is twice in a list or in
   two lists, that the suspended threads are those in the lists, and that
   a thread timer runs only for a suspended thread. `WaitInv` adds that whoever is
   in a list is in a call that waits on it. `SuspendOn`, `Resume`, `ResumeFirst` and
   `ResumeAll` keep both, for any insertion order (FIFO, by priority, or at the head).
2. *Frames* (`IpcProofs`). `Step(.., ops, qs)` says that a step keeps `WaitInv` and concerns only
   threads in the calls `ops` and the lists `qs`; each operation of `ipc.c` is such a step of
   its own object. A timeout or a detach resumes a waiter with an error (`Evicts`). Seen from any
   other object all of these are `Calm`: nobody is resumed but with an error, nobody of its calls
   runs, nobody begins to wait. `CalmSteps` proves this for all of `Next`, once, so that an
   object's invariant needs only its own operations and a `Calm` step.
3. *Objects.* Each has an inductive invariant of its own. What a conservation law or a
   wake-up law lacks is who is on the way: a thread that was resumed without error and has
   not run yet (`Resumed`). `SemInv`: permits that are given and not taken are in `value` or owed to a
   resumed thread. `MbInv`: `in_offset` is `entry` words after `out_offset`, and while a receiver
   waits, every mail has a resumed receiver on its way; the same for senders and free words. `MpInv`: free and used blocks split `Block`, and every waiter is counted in
   `suspend_thread_count` (which may count more, see `pool_count`). `MutexInv`: the mutex is free
   exactly when it has no owner and `hold` is 0, only an owned mutex has waiters, and its owner is
   not among them, also when it was handed the mutex and has not run yet. `InheritInv` needs the waiting list in the order of priorities.
   `EventInv` goes through the loop of `rt_event_send`: `WalkInv` says after each visited
   waiter what was delivered, what was taken and that those passed over cannot be served by
   the smaller set (`MeetsMonotone`).

The message queue is pointers, and a send consists of several sections with
a slot in the hand of its caller. `MqInv` asks for two sequences `F` and `M` that the `next` pointers
from `msg_queue_free` and `msg_queue_head` spell out (`IsList`), with no slot in both, and every
other slot in the hand of exactly one call. `ListPop`, `ListPush`, `ListAppend` and `ListMove` (reset
gives all messages to the free list, one by one) are the facts about pointers. `ChainIsList` connects
them with the recursive function `Chain` of the properties.

### Timers

| theorem | property | hypothesis |
|---|---|---|
| `SortedInvariance` | `Sorted` | |
| `FiresOnTimeInvariance` | `FiresOnTime` | |
| `CheckTerminatesProperty` | `CheckTerminates` | |
| `NoOvertakingProperty` | `NoOvertaking` | |
| `ListedIsActiveInvariance` | `ListedIsActive` | `OwnTimerLeft` |

They hold for any timers, workers, tick range and set of timeout functions. `OwnTimerLeft`: no
timeout function starts or detaches its own timer. Without it `ListedIsActive` is false,
section 6 (`Restarts`, `Detaches`).

`Sorted` is about the ghost `due`, the code compares wrapped ticks. The inductive invariant
`TimerInv` connects them: of every listed timer `timeout_tick` is `tick + due` modulo the range
(`OnTime`), and any two expiries are less than half the range apart, so that `After` compares
the true times (`AfterIsLater`, `DueIsPast`), which a tick shifts together (`TickShifts`). It also says that a timer
in the hand of a worker between the sections of `rt_timer_start` is out of the list and in no
other hand (`Hands`). `CheckTerminates` counts the expired timers; `Flagged` relates the active flag,
the list and the calls.

### Heap

| theorem | property |
|---|---|
| `HeapInvariance` | `HeapInv` |
| `HeapSoundInvariance` | `HeapSound` |
| `MemoryAccountedInvariance` | `MemoryAccounted` |

They hold for any size of the heap, of its headers and of the least block, any requests and any
number of threads, without further hypotheses.

`HeapSound` is close to inductive; what it needs is that it is about operators, not about a step. A
call of `rt_free` or `rt_realloc` passes through heaps with two free neighbours, which `plug_holes` then
merges, so that the lemmas are about a heap `h`: `Split`, `Shrink` and `Merge` keep the tiling
(`Tiled`) whatever is free, and only the whole of `Release`, `Malloc` or `Shrink` has to restore that no
free block follows a free one (`Apart`) and that `lfree` is free (`LfreeOK`). `lfree` may be the
very block that a merge swallows, on both sides (`PlugForward`, `PlugBackward`). That the block before a
free one is `prev` (`Predecessor`) is where the tiling is used: the greatest header below is found
by `LeastElement`. `used_mem` needs sums over the used blocks: `SumRound` of `ListLemmas` takes one block
out of a sum, and the lemmas of an operator say that every other used block kept its extent. `HeapInv`
adds the calls: a `rt_realloc` between its parts holds the old block, and after the copy both.

### Driver objects

| theorem | property | hypotheses |
|---|---|---|
| `DriversInvariance` | `DriversInv` | `Orderly`, no wrap |
| `NoLostWakeupInvariance` | `NoLostWakeup` | `Orderly`, no wrap |
| `NothingWildInvariance` | `NothingWild` | `Orderly`, no wrap |
| `DmaFollowsQueueInvariance` | `DmaFollowsQueue` | `Orderly`, no wrap, `MaxEnds <= 1` |
| `DataQueueRefinesQueue` | `DataQueueIsQueue` | `Orderly`, no wrap |
| `PipeRefinesStream` | `PipeIsStream` | `Orderly`, no wrap |
| `RxRefinesStream` | `RxIsStream` | |
| `SpiInvariance` | `SpiInv` | `Orderly`, no wrap |
| `BusReadyInvariance` | `BusReady` | `Orderly`, no wrap |

They hold for any threads, sizes of rings, works, characters, mails, pages and interleavings of handlers. The
hypotheses are those of section 2, and section 6 names what TLC finds without each of them:

- `Orderly`, for every application in `Apps`: one thread waits for the completion, one pushes and
  without a limit, a pipe has one reader and one writer, one thread submits work below the worker, and nobody else
  pops the queue that DMA empties. `OrderlyApps` in `MCDrivers` has TLC confirm that the applications of the run
  are such;
- no wrap: `MaxIndex < IndexMod`, that a data queue has not taken in as many items as its 16-bit
  indices can count. The difference of the indices is computed as int and is wrong afterwards;
- `MaxEnds <= 1`: at most one transfer ends between the push of a writer and its test of `activated`,
  where only interrupts can come in between. A second one needs the channel to start and finish
  again in the meantime.

`RxRefinesStream` needs none: the receive buffer is correct however it is used. The two about the SPI
bus ask nothing of its users; they inherit the hypotheses from `DriversInv`, which says that the steps of
the other objects leave its calls alone.

Each object has an invariant. `DoneInv`: nobody waits for a completion whose flag is set.
`WorkInv`: the worker sleeps on work only while the thread that brought it is about to wake it, and
`take` finds work. `PipeInv`: readers wait only for an empty ring, a writer only for a full one.
`DqInv`: while a thread waits to pop, every item has a resumed popper on its way; a thread that waits to
push has left the low-water mark set, so that the pop that reaches it finds a pusher on the list. `DmaInv` ties `activated`,
the channel and the queue together over the sections of a write: the channel sends the head, an
item in the queue that is not being sent has a writer that has still to test `activated`, and then
that item is all there is. The other half of the argument is frames, as for `Ipc`: a step of one object
touches no call and no list of another (`Frame`, `Affects`), a time-out or a reset only takes a
thread off a list (`Evicts`), and `Keeps..` says that an invariant survives that.

The refinements relate rings to sequences. `Contents` of a ring of bytes starts at the read index and
takes the mirror bits into account; `PutAppends` and `GetTakes` go through both cases of the code, a
copy in one piece and one in two, for any size, with the arithmetic of places kept in lemmas of its
own (`RxPlaces`, `OtherPlace`). A queue of n places keeps items whose indices differ by less than n, so two
of them never share a place.

The state of `Spi` is the sequence of steps that a call has still to execute. `Stage` is what a thread may rely on
between two steps: how often it has locked the bus, the device it owns it for, what it has selected, whether
the mode of the flash is set, and what it knows of the chip it has locked (`"quiet"`: not busy; `"wel"`: also
write enabled; `"read"`: its last look at the status was true; `"any"`: nothing). `Leads(s, x, r)` says at
which stage a step may be taken and where it leads, and a `Path` is a sequence of steps with a stage before and
after each. Every call that `spi_core.c`, the flash driver and the card driver put together is such a path from
holding nothing to holding nothing (`InitRuns`, `OpenRuns`, `ReadRuns`, `WriteRuns`, `CardInitGoes`,
`CardReadGoes`), for any number of pages (`PathAgain`), whatever the card answers (`AskMoves`). `SpiInv` then
says that the rest of every call is a path from a stage that the bus and the chip agree with (`FitsBus`,
`FitsChip`), and one lemma per action keeps that for the thread that moves, for the others, and for the chip,
which finishes its work at any time. `BusReady` is what a thread at the end of a transfer may rely on.

### Device file system

| theorem | property | hypothesis |
|---|---|---|
| `DfsInvariance` | `DfsInv` | `Careful` |
| `DescriptorsCountedInvariance` | `DescriptorsCounted` | `Careful` |
| `UnlinksClosedInvariance` | `UnlinksClosed` | `Careful` |
| `MountsAccountedInvariance` | `MountsAccounted` | `Careful`, `OneAdmin`, `BigSector = {}` |

They hold for any numbers of descriptors, entries, volumes, devices, threads and paths, and the first
three for any number of threads that mount. Section 6 names the violations that TLC finds when programs
are not careful, when two threads mount, and when a device has large sectors.

- `FileInv`: a descriptor in the hand of `open` or of the last part of `close` is in no other hand and not owned
  yet, or no longer; `Stage` says what of it exists at each place, which is what the failure
  paths give back. The reference count is a sum over the threads (`Held`); a step changes one term, which
  `HeldSplit` takes out of the sum. `live`, the ghost that counts allocations, is the number of paths and
  of open objects.
- `SlotInv`: an entry without a volume is being mounted by one thread, and a path without file system is
  no path; with it a descriptor never refers to an entry that is gone.
- `UnlinkOK` strengthens `UnlinksClosed` from open objects to all descriptors with the path: an `open`
  that has looked up its path and not yet called FatFs must already be seen by `unlink`.
- `MountInv`: a volume belongs to one entry or to the call that has just taken it (`MountAt`), and a device
  to one entry. Two threads break it, because they look for a free volume before they take it.

### Only model-checked

- Liveness (`RoundRobin`, `WaiterServed`, `WaitersServed`, `ServicesEnd`): out of the prover's reach.
- The properties of `Scheduler` for applications in which threads suspend and resume other threads:
  `rt_thread_suspend` and `rt_thread_resume` check the stat before their first section, and a
  timeout may overtake them, so that two calls can have one thread in hand and `KernelInv` fails in between
  (`Unlinking`).
- What a recursive definition computes is proved only where an argument over a finite set
  (`SetInduction`) or a least number (`LeastElement`) is enough, as for `ChainIsList` and the walk
  of `rt_event_send`; the library's induction theorems have operator parameters, which the provers
  cannot instantiate.

## 5. Plan

Done in the order of importance: context switch, scheduler and threads, timers, IPC,
memory pools, heap, driver IPC, serial, SPI with flash and card, device file system; theorems
about context switch, scheduler and threads, IPC, memory pools, timers, heap, driver objects and device
file system. Next:

1. Wider theorems about `Scheduler`: `SafeApps` with `rt_thread_suspend` and `rt_thread_resume` of
   other threads, for which `HandsInv` has to allow a late resume.
2. Theorems about pipes and data queues with several readers or writers.
3. `Shell` (`shell.c`): the line editor and its history. `rx_sem` is released once per
   interrupt, and the reader leaves its loop after a line with bytes unread.
4. The rest of `Serial`: receive by DMA, and open and close against handlers.
5. The identification of a card in `msd.c`, which `Spi` abstracts to commands and answers.

## 6. Disagreements between code and comments

Shown by a run with `expect: violation`:

- `delete_sleeping`: `rt_thread_delete` takes the thread off the ready lists before it
  stops the thread timer; a timeout in between makes the closed thread ready.
- `detach_timed`: `rt_ipc_list_resume_all`, when called with interrupts enabled, may take
  the list head for a thread.
- `mutex_priority`: mutexes that are not released in reverse order leave a thread with an
  inherited priority.
- `pool_count`: a timed-out `rt_mp_alloc` stays counted in `suspend_thread_count`.

Without a run of their own. The first group can be reproduced with the definition named,
in the configuration of the passing run:

| change | violates | what the code does |
|---|---|---|
| `timer`: `Callback <- Restarts` | `ListedIsActive` | `rt_timer_check` clears the active flag of a one-shot timer after its timeout function, also when that function restarted it; `rt_timer_stop` then refuses (`timer.c:535`) |
| `timer`: `Callback <- Detaches` | `ListedIsActive` | a periodic timer detached by its own timeout function is started again (`timer.c:527`) |
| `heap`: invariant `LowestFree` | `LowestFree` | "pointer to the lowest free block" (`mem.c:127`): a block that `rt_realloc` shrinks leaves a free one behind it, below `lfree`, and `lfree` stays |
| `drivers`: `Apps <- PollingPush`, or a reset | `InterruptsEnabled` | `rt_data_queue_pop` at the low water mark with no pusher waiting returns with interrupts disabled (`dataqueue.c:230`) |
| `drivers`: `Apps <- TwoSubmit` | `TakesWork` | the work is cancelled by another thread after it was submitted and before the worker is resumed; the worker then takes the list head for work (`workqueue.c:22`) |
| `drivers`: `Apps <- ForcedPipe` | `ForceKeepsNew` | "When the buffer is full, it will discard the old data" (`ringbuffer.c:97`): a forced put that overwrites and passes the end of the buffer flips both mirror bits and leaves a ring that looks empty, the new data lost as well |
| `drivers`: `Apps <- DmaWriter`, `MaxEnds = 2` | `CompletesSent` | two transfers end between the push of a writer and its test of `activated`: the writer finds the channel free and sends its data a second time, and the end of that transfer is taken for the end of the next one. `tx_complete` is then called for data that was never sent ("when device has written data to physical hardware", `device.c:388`) |
| `drivers`: `MaxIndex = 9` | `DataQueueIsQueue` | `put_index - get_index` is computed as int: once `put_index` has wrapped the queue never looks full (`dataqueue.c:82`) |
| `drivers`: `Apps <- FlashAndCard` | `HighSpeed` | "config spi to high speed" (`msd.c:1221`): `rt_spi_configure` stores the configuration in the device and then has it compared with that of the owner, which is the same device (`spi.c:277`); the card stays at 400 kHz until the flash has used the bus |
| `dfs`: `Careful = FALSE` | `DescriptorsCounted`, `UnlinksClosed` | a descriptor closed while it is in use, and a file opened between the test and the removal of unlink |
| `dfs`: `BigSector = {d1}` | `MountsAccounted` | a device with large sectors is refused after it took a volume, which is not given back (`dfs_elm.c:128`) |
| `dfs`: two threads in `Admin` | `MountsAccounted` | volumes are looked for and taken without a lock |

With two threads that push, or with a worker that is not above the thread that submits,
`NoLostWakeup` of `drivers` fails: one wake-up serves two pushers, and the worker suspends
itself after the work has come.

Seen in the code and outside the checked instances:

- a static thread that is initialised again keeps its old `number_mask` until it is started,
  so that detaching it first clears the bit of another priority (`scheduler.c:347`,
  `delete_init`);
- `rt_thread_resume` that comes after the timeout of its thread unlinks it from the ready
  list and leaves the bit set until its second section (`thread.c:621`, which is why
  `ReadyTable` excepts `Unlinking`);
- `rt_malloc` does not find a last block that fits exactly, because its search ends at
  `ptr < mem_size_aligned - size`;
- a transfer error of the SPI DMA sets `error_flag` and releases nothing: the thread waits
  for ever and keeps the bus (`spi.c:507`, action `DmaError`);
- `dfs_mount` looks for the path as it was given, not the normalised one, in the table; an
  unknown file system type leaves `ops` null and dereferences it; one device can be mounted
  twice; `dfs_elm_mkfs` does not look at the result of `rt_device_open`; `fd_is_open` misses a
  descriptor of the mount point itself; a failed `f_opendir` does not free its `DIR`;
  `dfs_normalize_path` turns "/../a" into a name without its leading slash.

## 7. Not modelled

- Byte layouts: stack frames, names, message contents beyond their identity.
- Hooks, debug output, statistics and the fault handlers: they change no modelled state.
- Chained priority inheritance and inheritance at hand-over: the code does neither, and
  `Inheritance` is claimed for one mutex with RT_IPC_FLAG_PRIO only.
- Serial: receive by DMA, the polling modes, open, close and control. SPI:
  `rt_spi_take_bus`, `rt_spi_release_bus`, `rt_spi_transfer_message` and the character device
  of `spi_dev.c`, which nothing in the repository calls. Portals, which forward to pipes.
- SPI timing: that a device is deselected, or the next message begun, while the last byte
  is still being shifted out is below what `Spi` tells apart. A write to the flash is one
  sector; `rt_msd_write` and the functions for SDHC cards have the steps of `rt_msd_read`.
- The object containers of `object.c`: linked lists changed with interrupts disabled.
- File contents, rename, stat and statfs: they take and give back the same things as the
  calls that `Dfs` models.
- Soft timers, slab and memheap allocators, loadable modules and the C expression
  interpreter: not configured in `rtconfig.h`.
- FatFs, the vendor HAL and CMSIS: third-party code, and nine tenths of the lines of the
  repository.
- The components under "Plan".

## 8. Reading the models

- In `IpcWait`, `Left` stands for the rest of a timeout after a wait: any remainder.
- In `MessageQueue` a handler's call may be interleaved with threads, which a real
  handler is not: an over-approximation that costs nothing.
- `Timer` keeps `timeout_tick` of a timer outside the list at 0, a value nobody reads.
- `MemPool` inserts a waiter at the head of its list, as `mempool.c` does: the last
  one to wait is served first.
- In `Spi`, `Answer(again, rest)` is what the card may say: go on, repeat `again`, or give up
  with `rest`. `Takes` and `Command` are the flash chip, from its command set.
- In `Drivers`, `Stopped` ends a behaviour after which the code's own assertions, or
  interrupts that stay disabled, leave nothing to say.
- A path of `Dfs` is the sequence of its components; `dfs_normalize_path` resolves "." and
  ".." as the code does.
