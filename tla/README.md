# Verification of the SCU control firmware

The repository holds the firmware of the Scalable Control Unit (SCU): a FreeRTOS program on an
LM32 soft core that supplies function generators with polynomials and collects their measured
data, and the Linux programs that command it and read those data through shared memory. This
directory holds TLA+ models of its concurrent core, the configurations with which TLC checks
them, and TLAPS proofs. `PROJECT.json` maps each definition to the source lines it stands for.

Each module can be checked in this directory, e.g. `tlc -config MilDaqRing.cfg MilDaqRing`, and
each proof module with `tlapm SwQueue_proofs.tla`.

## 1. The system

Paths are relative to `src/`; `scu-control` stands for `src/prj/scu-control`.

| Component | State it keeps | Operations | Interacts with |
|---|---|---|---|
| Ring indexes, `srclib/fifo/circular_index` | start, end, capacity, offset; `end = capacity` marks a full ring | reset, size, read/write index, add to either index | base of every queue and of both DAQ rings |
| Software queues, `srclib/fifo/sw_queue` | a ring and its cells | push, force-push, pop, peek, skip, reset, each also in a critical section | filled by the interrupt routine, emptied by tasks |
| Event counters, `srclib/fifo/scu_event` | counter and its limit | push, pop, delete | ECA interrupt, MIL task |
| Interrupt handler and main task, `lm32-rtos_exe/scu_control_os.c` | task handles | dispatches MSIs into queues, wakes tasks; the main loop polls alarms, watchdog and commands | all queues and tasks |
| FG channel, `fg/scu_fg_macros`, `fg/scu_fg_handler`, `fg/scu_circular_buffer.h` | polynomial buffer with `wr_ptr`, `rd_ptr`; state STOPPED/ARMED/ACTIVE; watchdog time | enable, disable, reset, start, feed, stop, refill signal, watchdog poll | main task, FG task, SAFTLIB (Linux), generator hardware |
| MIL task, `lm32-rtos_exe/scu_task_mil.c`, `fg/scu_mil_fg_handler.c` | a five-state machine per channel group, time-out counters | sleeps, takes messages, asks devices, feeds generators, pushes DAQ data | interrupt routine, MIL devices, MIL-DAQ ring |
| MIL-DAQ ring, `fg/scu_mil_fg_handler.c`, `daq/linux/daq_base_interface`, `daq/linux/mdaq` | ring in the DDR3-RAM, shared indexes, `wasRead` word; the client's copy and last read index | push with overwriting, synchronize the read index; poll, read, acknowledge, repeat, clear | LM32 and a Linux process, with no lock |
| RTOS mutex, `srclib/lm32/sys/ros_mutex` | owner, nesting count | lock, try-lock, unlock | every task that logs |
| Queue watcher, `queue_watcher` | alarm queue | alarm at overflow (interrupt), log and erase (main task) | watched queues, log |
| SAFTLIB commands, `scu_command_handler.c` | command queue, busy word | reset, enable, disable, rescan, MIL handler state | FG channels, deletion and creation of tasks |
| ADDAC/ACU-DAQ, `daq/lm32`, `daq/linux/sdaq` | block ring with descriptors, channel tables, command word | reads hardware FIFOs into blocks, answers Linux commands | DAQ task, main task, Linux |
| FG list, `fg/scu_fg_list.c` | table of generators found | scan at start and at rescan | hardware, SAFTLIB |
| System log, `srclib/lm32/lm32_syslog.c`, `tools/C++/lm32-logd` | ring and its indexes in the DDR3-RAM, with `wasRead` | log item; poll and print | all tasks; Linux daemon |
| Memory partitions, `srclib/scu_mmu.c` | linked list in the DDR3-RAM | allocate, find, delete the list | LM32 and Linux programs |
| Time-outs, `srclib/lm32/ros_timeout.c` | tick threshold | start, elapsed, interval | tasks |
| Drivers, temperature watcher, console, vendored FreeRTOS and headers | registers | I/O | — |

What makes it hard: an interrupt routine and five tasks of three priorities share queues and
registers; main memory is shared with Linux processes that may stop or start again at any
moment and that no lock excludes; a handshake word is written by both sides; devices may fail
to answer; every buffer can overflow and then loses its oldest entries by design.

What makes the parts correct: queues are FIFOs up to the documented loss; a waiting task
never sleeps over work; a ring's reader gets each item once and in order while it keeps up and
never moves the read index past the data; a generator gets its polynomials in order, SAFTLIB
is asked in time for more, and a generator that falls silent is stopped; the mutex excludes,
and its waiters get it; an overflow leaves a log message.

The full list of hazards, each at its source line and with the properties that cover it, is in
`PROJECT.json`.

## 2. The modules

### CircularIndex, SwQueue, BoundedFifo
`CircularIndex` holds the functions of `circular_index.c` as operators on a record
RAM_RING_INDEXES_T. The index type is `uint32_t`; sums stay below 2^32 as capacities are
far smaller, so no wrap modulo 2^32 is modelled. `SwQueue` adds the cells, with one action per
queue operation; the `...Safe` variants are the same steps in a critical section.
`BoundedFifo` is the promise: a sequence of at most `Capacity` items, where `queueForcePush()`
drops the oldest one. `ImplementsFifo` is the refinement.

### MilDaqRing, DaqStream
The server is the MIL task: `ramRingSharedSynchonizeReadIndex()` and `pushDaqData()`, one
action per store to the shared memory, because Linux can look in between. The client is
`DaqBaseInterface` under `MiLdaq::DaqAdministration::distributeData()`: one action per
Etherbone cycle. A cycle is assumed to be one bus transaction that no LM32 store divides;
longer reads are split as `readRam()` splits them (`MaxEbCycle`, and at the end of the
memory). Writing only `wasRead` is one word. An item is a record of its number and the part,
so that an item made of two is recognised. `DaqStream` is what the client of either DAQ ring may
rely on: published items arrive once each and in order, and nothing is promised once items
have been removed (overflow, a reset or clear, a restarted client).

Three history variables say where the promises of the ring itself end. `overtaken`: an item is
removed while the client reads, which is how an item gets torn. `unapplied`: the server has not
seen the last acknowledgement. `repeated`: a restart or a clear has met an acknowledgement under
way, which is how one is applied twice.

### SdaqRing
The block ring of the ADDAC/ACU-DAQ. It has the same indexes and handshake, but three
processes: the DAQ task (`taskDaq()`, `ramPushDaqDataBlock()`), the client
(`DaqAdministration::distributeData()` of `sdaq`), and the main task, which resets the ring
store by store when the client commands so (`opReset()`). At a rescan commanded by SAFTLIB
(`Rescan`) it deletes the DAQ task in the middle of whatever it does, clears the numbers of the
blocks, resets the ring without the client's knowledge, and starts a new DAQ task. A block is short
or long, and says which in its descriptor, here the first word of the block and the last to be written. The DAQ
task takes the length of a block that it removes from that word in the RAM, and resets the
whole ring when the word is none. That a FIFO of the device holds too little, too much or a
damaged block is a choice (`LoseBlock`); the sequence numbers with which the client notices a
loss are counted modulo `SeqMod`. The client's wait for a command may time out (`ResetTimeout`),
or a new process may connect and reset.

`spoilt` becomes true in three situations, which are named before `Next`: a reset that meets a
handshake not at rest, a block that is lost after others have been removed for it, and a second
`sendWasRead()` for one that was not lost. Nothing is claimed of what follows, and the
constraint `Unspoilt` keeps TLC from following it.

### MilTask
`taskMil()` and the state machines of `milTask()`. The interrupt routine and the Linux client
are the environment, what a device answers is open. ST_HANDLE_IRQS and the first turn of
ST_FETCH_DATA run in the same call in the code and so are in one action. The loop synchronizes
the read index of the DAQ ring (`Synchronize`); of the ring only the word `wasRead` is in this
module, MilDaqRing has the rest. `burst` records that the task woke up to more than one turn of
its loop takes.

### FgChannel
One ADDAC/ACU channel. `job` and `at` are the program counter of the main task, which runs
`fgEnableChannel()`, `fgDisableChannel()`, `fgResetAndInit()` and `wdtPoll()` with
`makeStop()`; each critical section and each store to shared memory is a step. `fg` is the FG
task in `handleAdacFg()`, split between the refill signal and the feeding because SAFTLIB can
write in between. The FG task has priority 3 and runs when the interrupt returns
(CONFIG_ADDAC_FG_TASK_SHOULD_RUN_IMMEDIATELY), the main task has priority 1: so the main
task makes at most the step it is in before a pending interrupt is handled (`irq`: new, due).
The generator and SAFTLIB are external and written from what the firmware expects of them:
the generator asks again only after its last interrupt has been handled; SAFTLIB has a channel
reset before it fills it, waits for a command to be done, fills the buffer or writes all it
has, and looks at the indexes one step before it writes.
MIL channels, whose commands go over the device bus, and the DAQ channels switched on
together with a generator are not in this module.

### RosMutex, MutexScheduling
`RosMutex` lets every task run at any time. `MutexScheduling` adds priorities and sleeping
tasks to it.

### SysLog
`lm32Log()` under the mutex of RosMutex (an INSTANCE), and the daemon lm32-logd. The indexes of
this ring lie in the DDR3-RAM with the messages: a task reads the two 64-bit words of the
administration object, changes its copy, and writes them back, `wasRead` set to zero. Each such
word and each word of a message is a step; the daemon reads the object in one Etherbone cycle. The
faults are the deletion of a task by FG_OP_RESCAN (its control block may be given again at the
same address, so the mutex may belong to the new task), a reset of the LM32, and a daemon that is
started again, with or without resetting the ring. Tasks have the same priority here;
MutexScheduling shows what happens when they have not.

### Mmu
`mmuAlloc()` on the partition list, in the LM32, which reaches the DDR3-RAM word by word, and in the
Linux programs, which reach a descriptor in one Etherbone cycle; `mmuDelete()` of mem-mon; and
restarts of everybody in the middle of a call. Each user makes the requests of its `Script` in
their order. Nothing locks the list. `spoilt` says that a call has met the list in the middle of
another's change, or that a DAQ ring of the LM32 got no area and stays at the address that its
initializer gives it.

### QueueWatcher
`queuePushWatched()` and `evPushWatched()` in the interrupts, `queuePollAlarm()` in the main
task as three steps. A queue is the number of its messages; SwQueue shows that its cells behave
that way. `refused` holds the queues whose alarm found `g_queueAlarm` full.

## 3. The runs

| Run | Shows | Bounds and why they are enough |
|---|---|---|
| `sw_queue` | TypeOK; the queue refines the bounded FIFO | 3 cells, 3 items, offset 1: contents that wrap, every read position of a full queue. Proved for all sizes besides |
| `mil_ring` | the client acknowledges no more than there is; no partial item is seen; only an item that is overtaken is torn; the ring refines the stream; every item arrives | 4 items of 2 words in the ring, 5 items made: the indexes wrap and the ring overflows; the middle buffer holds half the ring; 3-word cycles divide an item; one clear or one restart. The safety properties are proved for all sizes besides |
| `sdaq_ring` | acknowledgements within the size; blocks whole and in order; losses noticed; the ring refines the stream, is drained, and space is made | 8 words, blocks of 2 and 4 words, 4 blocks: two long ones fill the ring and each further one removes some; sequence numbers modulo 2; one block lost; one reset, new client or rescan |
| `sdaq_late` | violation of AckWithinSize | as before, without a reset |
| `mil_task` | no sleep over work; the client's handshake is answered unless the task sleeps; every state machine returns to ST_WAIT though devices stay busy for ever | 2 state machines, so one moves while the other waits; 1 generator, time-out 1, queue of 3: more messages at once than state machines |
| `fg_channel` | see below | buffer 6, threshold 2 (121 and 48 in the code), two runs of up to 8 polynomials: the buffer wraps, is refilled, stopped, flushed, reset and used again |
| `fg_channel_start` | violation of StartedIsActive | one run |
| `sys_log` | answers within the size; each message printed, in order, twice only for an erased answer; `lm32Log()` returns | 2 tasks, a ring of 2 messages of 2 words, 4 messages: the ring wraps and overflows while the daemon reads; one fault of any kind |
| `mmu` | areas apart from each other and from the list; a tag has one area; `mmuAlloc()` ends | 3 users, 14 words, three areas with their descriptors that do not fit in every order of requests; sums modulo 21, which only garbage in place of a descriptor could make wrap; one restart, one deletion. Proved for all sizes besides |
| `mutex` | MutualExclusion, CountsItsOwner | 3 tasks: two wait for a third; 3 nested locks |
| `mutex_priority` | violation of LockReturns | 2 tasks |
| `queue_watcher` | erasures have a loss for their cause; each loss is logged unless its alarm was refused | 2 queues and the ECA events, alarm queue of 2, 2 losses each: alarms of different queues mix and the alarm queue fills |

`fg_channel` checks five things. `RefillInTime`: the signal is sent at one fill level only, and
that level is never jumped over. This needs that a refill from the threshold lifts the buffer
above it even when all older polynomials have been used meanwhile, that is
2 * threshold + 1 < size (the ASSUME; 97 < 121 in the code); with a size of 5 and a threshold of
2 it fails. SAFTLIB is taken to fill up the buffer or to write all it has: one that stops at
or below the threshold is never asked again. `InOrder`: each polynomial read is the next one
of its run, through flushes and resets while SAFTLIB is writing. `Watched`: the main task
never leaves a generator that is fed with its watchdog switched off. `SilenceStops`: a started
generator that falls silent is stopped.

In `sdaq_ring` and `mmu` the constraint `Unspoilt` cuts off what follows a state in which
`spoilt` holds (section 2). The states just behind the cut are still checked, and the liveness
properties name `spoilt` as a way out, so that the cut hides nothing they claim. `sys_log` has
a `spoilt` as well, without a constraint: there the ring goes on and most promises hold.

Mutants: every property of a passing run is violated when one definition of the code is
replaced by a faulty one kept beside it (`SyncDoneForgotten`, `RemoveNothing`, `WriteWasForgotten`,
`NewItemAtLevel`, `RefillTooLate`, ...). Such definitions are used by nothing else.

### Fairness
- MilDaqRing, SdaqRing: the task of the LM32 goes round its loop for ever (weak fairness of the
  server), the client polls, and in SdaqRing the main task ends its command. One more assumption
  is needed: of infinitely many acknowledgements not every one falls between the load and the
  store of `wasRead` on the LM32; the two loops are not synchronized.
- MilTask: the task gets CPU time; POST_IRQ_WAITING_TIME passes (strong fairness: the state is
  visited again and again, and the time stamp compared gets older). No interrupt and no
  device answer is assumed.
- FgChannel: both tasks run when they are ready, the time of the watchdog passes. Neither the
  generator nor SAFTLIB need do anything.
- SysLog: tasks of one priority get the CPU in turn (time slices), so one that is in `lm32Log()`
  or waits for its mutex goes on; the daemon polls. Nobody need log again.
- Mmu: each processor executes a call it has begun.
- QueueWatcher: the main loop does not block.
- MutexScheduling: a task that the scheduler has chosen goes on; tasks that are not chosen
  get nothing. In `RosMutex` itself no liveness is claimed: the mutex has no queue of
  waiters and nothing in the code prevents starvation.

`CHECK_DEADLOCK FALSE` stands in the configurations of FgChannel, SysLog and Mmu, where bounded
runs come to an end and nothing is left to do (in SysLog also because a deleted task may keep the
mutex), and of MutexScheduling, where tasks really stop for good.

## 4. Findings

Each is a run in which TLC finds a behaviour that contradicts a comment or an assertion of the
source: `mutex_priority` (a task of high priority that waits for the log mutex starves its owner),
`fg_channel_start` (STATE_ARMED overwrites STATE_ACTIVE), `sdaq_late` (a block removed for one
that is then dropped: the client acknowledges more than the ring holds).

Other behaviour that the models contain, and that their properties therefore exclude by name:
- MilDaqRing: `pushDaqData()` overwrites the oldest item before the shared read index says so
  (`scu_mil_fg_handler.c:886`, against the comment at 883), so a client that reads it then gets
  a torn item (`overtaken`). A restarted client takes the `wasRead` of its predecessor for its own
  (`daq_base_interface.cpp:114`) and, having found the read index where it thinks it was
  (line 192), repeats it after it has been applied (`repeated`).
- MilTask: while all state machines wait the task sleeps without a time limit and does not
  synchronize the read index (`scu_task_mil.c:77`), though `scu_mil_fg_handler.c:1895` has the
  comment that it is done independently of the state.
- QueueWatcher: an alarm that finds `g_queueAlarm` full is dropped (`queue_watcher.h:64`); alarms of
  one queue thereby hide the loss of another, against the comment at line 52.
- SdaqRing: a `wasRead` kept from before a reset may be repeated over the ring that has been
  reset. The test for a lost `wasRead` compares read indexes, which are equal too when the index
  has gone once round: then an acknowledgement is repeated for nothing. A late acknowledgement of
  a short block that has been removed is applied to a long one, of which half stays; the client
  finds no descriptor, and the server resets the ring when it comes to remove that half. After an
  acknowledgement beyond the size the ring seems nearly full and the client reads old blocks
  again.
- SysLog: messages that come between the daemon's reading and its answer stay unread until the
  next `lm32Log()`, as the daemon waits for `wasRead` to be zero and only a task that logs sets
  it (`AllReadOrAnswered` is the part that holds). An answer erased by `syslogWriteFifoAdmin()` has
  its messages printed twice. A task deleted while it holds the log mutex blocks every later
  `lm32Log()`, or, if its control block is given to the new task, lets that task nest into the
  lock of the old one and apply `wasRead` twice. A reset of the LM32 while the daemon reads makes it
  acknowledge what the new ring does not hold.
- Mmu: the descriptor is linked before it is written, and nothing locks the list: two allocators
  at once get the same area, and one that climbs past a new descriptor takes what the RAM held
  before for a descriptor. `mmuAllocateDaqBuffer()` only logs OUT_OF_MEM, so the DAQ ring stays at
  offset 0 of its initializer, over the partition list.

Seen while modelling, with no contradicting document:
- `daq_base_interface.cpp:192`: if an overflow moves the read index at the same time as an
  acknowledgement is lost, it is not repeated and items come twice; DaqStream promises nothing then.
- `daq_base_interface.hpp:366`: clearing a full ring moves the read index by its capacity, back
  to where it was, and the client takes this for a lost acknowledgement again and again.
- `WholeItemsVisible` holds over clears and restarts when the size of the ring is a multiple
  of the item length. `scu_shared_mem.h:127` asserts that of the default size; a size given by
  the partition list (CONFIG_USE_MMU) is not tested.
- `ros_mutex.c:80`: `osMutexTryLock()` may wait, as the mutex can be taken after its look.
- `scu_fg_macros.c:168`: a timeout left from a run that has ended, seen over by `wdtPoll()` just
  before the next run's start interrupt, stops that run. FgChannel contains this behaviour.
- `scu_fg_macros.c:414`: when a pending interrupt is handled after `addacFgDisable()` the state
  is STOPPED already and the buffer is not flushed; the reset at the next acquisition clears it.
- `scu_fg_macros.c:302`: `wdtReset()` in `fgEnableChannel()` does nothing, since the channel is
  not ACTIVE yet; a generator started with a single polynomial is therefore not watched
  (`Watched` asks for a further one, `loaded`).
- `ros_timeout.c:55`: a poll that misses the interval between the wrap of the tick counter and
  the threshold delays the timeout until the next wrap.

## 5. Proofs

| Theorem | Says, for every value of the constants |
|---|---|
| `SwQueue_proofs!SizeInRange`, `AddToReadIndex`, `AddToWriteIndex` | the arithmetic with the full-ring mark: moving an index keeps a ring valid and changes its size by exactly that much |
| `SwQueue_proofs!TypeCorrect`, `QueueIsFifo` | indexes and cells stay in range; `Spec => ImplementsFifo` for any capacity, offset and kind of item |
| `SysLog_proofs!TypeCorrect`, `AnswersAreWithinSize`, `NoMessageIsLeftOut`, `OneRepetitionForAnErasure` | type, AnswersWithinSize, NoGap and RepeatedForAnErasure for any set of tasks, every capacity that is a multiple of the length of a message, any most number of messages at once, and any number of deletions, resets and restarts |
| `RosMutex_proofs!TypeCorrect`, `OwnerIsCounted`, `Excludes` | type, CountsItsOwner and MutualExclusion for any set of tasks and any nesting |
| `MilDaqRing_proofs!TypeCorrect`, `AckIsThere`, `WholeItems`, `NoneTorn`, `Implements` | type, AckWithinSize, WholeItemsVisible, NoTornItem and the refinement `Spec => ImplementsStream` for any capacity that is a multiple of the item length, any middle buffer and number of items, clears and restarts |
| `Mmu_proofs!TypeCorrect`, `AreasSeparate`, `TagHasOneArea` | type (while the list is not spoilt), Separate and SameArea for any set of programs, requests and tags, any size of the RAM and number of restarts and deletions |
| `MilTask_proofs!TypeCorrect`, `NeverSleepsOverWork` | type and SleepsWithoutWork for any number of state machines, channels and sizes of the queues |
| `QueueWatcher_proofs!TypeCorrect`, `NoErasureWithoutLoss` | type and ErasedForALoss for any queues, capacities and losses |
| `FgChannel_proofs!TypeCorrect`, `AlwaysWatched`, `AskedInTime`, `PolynomialsInOrder` | type, Watched, RefillInTime and InOrder for any buffer and threshold with 2 * threshold + 1 < size, any number of runs and polynomials |

**SwQueue.** The refinement needs no more than TypeOK as its invariant: each operation is
shown (`PushAppends`, `PopTails`, `ResetEmpties`, `FullRingHasOldest`) to be the FIFO's operation
on `content`, the sequence read off the cells from the read index on; the heart of these
lemmas is that cells at different distances from the read index are different (`CellsDiffer`).

**RosMutex.** MutualExclusion is not inductive: that two tasks do not hold the mutex says nothing
of the owner word. The invariant is TypeOK and CountsItsOwner: `held` equals `nestingCount` for the
owner and 0 for every other task, and the mutex is free exactly when the count is 0. An
unlock by a task that is not the owner then changes nothing.

**MilDaqRing.** An acknowledgement travels from the client's look at the indexes over `wasRead`,
`toAdd` and perhaps a second `sendWasRead()` to the read index, while the server makes items, and
removes old ones for them. The size of the ring shrinks and grows during that, so it is no
measure. `Content`, the words that the ring will hold when the server is back at its loop, is: making
an item never lessens it, with an overflow or without, since the item removed is as long as the
new one; only an acknowledgement does. The invariant (`Claims`) says that whatever the client is
about to acknowledge, has acknowledged, or may have to repeat is at most `Content`, and that there
is never more than one on its way. `Positions` and `Copy` tie the client's buffer and the local copy
of `pushDaqData()` to where the two processes are. `Claims` is needed only while `repeated` is false.

The other three theorems are about the words. Number all words that are ever made: the ring holds
those from `Oldest` on. (`Oldest` is not a variable but an expression of the state: what has been made
less what the ring will hold.) `Strong` adds to the invariant, each as an invariant of its own with one
lemma per action, that both indexes and everything that is acknowledged are multiples of the item
length, also after a clear, a restart or a second acknowledgement, where `Claims` says nothing; that
each cell of the ring holds the word of its number; that what the client has in its middle buffer are
the words from the number on where it has begun to read, unless they have been removed meanwhile;
and that, as long as nothing is removed, the numbers of the words that were handed on, the one
acknowledgement under way and the read index fit together. From the last follows
the refinement step by step: making an item is the stream's Produce, handing on its Deliver, and every
other step leaves the stream as it is.

**MilTask.** SleepsWithoutWork looks at one moment of the loop. `Awake` says what holds on the way to
it: messages for which there is no notification any more are few enough that the state machines
which still come in this turn take them (`TakenInThisTurn`), each of which is in ST_WAIT. Type
correctness needs besides that a channel whose time is over exists (`SkipsAChannel`).

**QueueWatcher.** ErasedForALoss with the types is inductive. The lemmas (`AppendPlaces`,
`TailPlaces`) say how Append and Tail change the number of the places of a queue in the alarm queue.

**FgChannel.** Watched speaks of moments when the main task is back in its loop. `IInv` says
what holds in between: a fed, ACTIVE generator whose watchdog is off is one that the main task
is about to stop, and a generator with a pending interrupt has not got its next polynomial yet, so
the FG task, which feeds it and sets the watchdog, comes before anything can be missed. Type
correctness needs that what SAFTLIB has begun to write is no more than is left of its run.

RefillInTime needs the whole course of a run (`RefillInv`): a channel that is reset is empty and at rest
when SAFTLIB fills it (`Clean`), full when it is enabled (`FullAtStart`), and from then on
SAFTLIB has been asked exactly when the level is below the threshold (`Asked`), since the FG task alone
moves the read index (`Undisturbed`, `Quiet`) and does so one at a time. What SAFTLIB writes then lifts
the level above the threshold again; here the assumption on the sizes is used.

InOrder adds `OrderInv`: from the read index on the buffer holds the numbers from the one after the
last that was read to the last that was written (`Content`). `ReadContent` and `FillContent` show that
reading and writing keep that; by `Asked` and `Clean` SAFTLIB writes at the write index, and no more than
is free, though it has looked at the indexes some steps before.

**Mmu.** Separate and SameArea speak of areas, which are granted from words that the calls of mmuAlloc()
have read. The invariant is that a set D of descriptors exists (`List`), which is no variable of the
model: it begins with the start block; each of its members points to where its area ends, except
the last; tags differ; and every area granted is that of a member. Each step is shown together with
the set that comes after it: D with a new member after `WriteNew`, the start block alone after
`WriteStart`, none after `mmuDelete`, and the same D otherwise. `Caller` says what a call knows of D
while the others change it: the tags it has passed are not its own, it holds the last descriptor or
sees, when it links, that this one is not the last any more. Two calls that both hold
the last descriptor are possible; the one that links second finds a successor there, and that is
where the model says `spoilt`. `CallerKept` is the lemma about interleaving: what one call does to
D leaves all that the others know true. With D, Separate is arithmetic (`ChainSeparates`).
What is promised ends with `spoilt`, in the model and in the theorems; a program that is
killed between the two words of a descriptor makes it true.

**SysLog.** That only the owner of the mutex is inside of `syslogPushItem()` (`Owners`) does not follow
from CountsItsOwner of RosMutex, which ends when a task is deleted: the mutex may then belong to a task
that does not know of it, and nests once more for each of them. What is true of every task is
said by `Tenure`, and `nestingCount` is bounded by the number of faults.

AnswersWithinSize compares `wasRead` with a copy of the indexes that was read one step earlier. The
invariant (`Answers`) follows the owner of the mutex through its stages. The messages that the
daemon is reading may be removed, but the ring keeps as many: one is removed only for another
of the same length, and while the copy lacks an answer the daemon, seeing `wasRead` set, does not begin
to read (`ReadIsThere`, `AnswerInTime`). The copy that lacks an answer is written over the indexes
before the answer is taken back. All this holds until a fault meets an answer (`spoilt`).

NoGap and RepeatedForAnErasure number all words that are ever logged, as in MilDaqRing: the ring holds
those from `Oldest` on (`Stores`), in the view of the task that writes, if there is one, and else in the
indexes. `Answered` is the word up to which the daemon's answers are known, counted so that applying
one and taking it back change nothing; `Seen` the word up to which it has printed. Without erasures
they are equal. An erasure sets `Answered` back, never forward, so the daemon next begins at a
message that it has printed or at the one after the last, which is NoGap. `Debt` is the number of steps
back that are caused and not yet printed, at most two; the steps back that are printed and `Debt` together
are never more than the erasures, and may be fewer, since a second erasure before the messages have been read
again costs no further step.

Assumed are only the named assumptions on constants, which TLC evaluates in the runs. Some of them
are worth a word. The capacity of the MIL-DAQ ring is a multiple of the item length, which
`scu_shared_mem.h:127` asserts of its size (section 4 on sizes from the partition list); that of the log is made so by
`lm32_syslog.c:179`. In Mmu
no request, added to the size of the RAM, exceeds what a `size_t` holds: the LM32 asks for a few
thousand words of a RAM of 2^27 bytes with 32 bits, the Linux programs count with 64; without it
the test of line 228 of `scu_mmu.c` could let through an area that does not fit.

Only model-checked: all liveness properties (no proof of liveness under fairness, and ENABLED, is
attempted; the prover does not support it), and everything of SdaqRing, with its refinement of
DaqStream. Its blocks have two lengths and are found by their descriptors, and its main task resets
the ring while the DAQ task is anywhere in it: the invariants of MilDaqRing, which rest on multiples of
one length and on one process that changes the indexes, do not carry over.
Induction over data, and recursive operators, are beyond the installed provers; no module declares
one.

## 6. Not modelled, and the plan

Left out for good:
- vendored code. The two FreeRTOS kernels, the White-Rabbit and Etherbone sources and the headers of
  registers are most of the lines in `src/`; what the scheduler does is in the models as the order in
  which tasks run;
- register access, formatting and logging texts, the contents of measured data, the older firmware
  without RTOS, command-line tools, demonstrations;
- the scan for generators (`fg/scu_fg_list.c`): a sequential scan of hardware registers into a table,
  while no task uses it;
- `ros_timeout.c`: of the firmware only the blinking of the activity display uses it
  (`scu_control_os.c:439`); a timeout is at worst late (section 4), never early.

Modelled in part (see `components` in `PROJECT.json`): MIL channels, whose commands go over the device
bus, have their task and ring but not the life cycle of FgChannel; of FG_OP_RESCAN the
deletion of a task is in SysLog and SdaqRing for the DAQ task, while the MIL task and the FG task have
a higher priority than the main task, which can delete them only while they wait and hold nothing;
of the DAQ commands only DAQ_OP_RESET touches the ring.

Plan:
1. Proofs: AcksWithinSize and WholeAndInOrder of SdaqRing, from an invariant like `Content` whose words
   are those of blocks instead of multiples of a length.
2. The life cycle of MIL channels in FgChannel, with the commands of the device bus.
