# A verification project for linux-odds-and-ends

The repository is a collection of Linux kernel drivers and user programs.  What
they share is concurrency by hand: an interrupt handler that hands events to a
work item, a work item that hands records to readers and pollers, rings with one
producer and one consumer, timers, DMA callbacks, processes that meet in shared
memory and named semaphores, threads that draw on one display.  The TLA+ modules
here model those parts as the code writes them, TLC checks them on small
instances, and TLAPS proves the safety properties for every value of the constants.

Paths below are relative to `src/`; `OLED/` stands for
`modules/rpi_4b/1_i2c/OLED/module/` and `GPIO/` for
`modules/rpi_3b_v1_2/1_gpio/`.

## Inventory

| Component | State it keeps | Operations | Interacts with | What is hard, and what makes it correct |
| --- | --- | --- | --- | --- |
| Power-of-two ring, `OLED/circ_buffer_pow2_elements.c` (a copy in `OLED_regmap`) | `num_elements`, `head`, `tail`, slots | init, release, push, front, pop, size, space, empty, clear | one producer and one consumer of the OLED driver | full and empty differ by a mask; a queue of capacity - 1, exactly |
| Mod-2 ring, `GPIO/circ_buffer_mod2_elements.c` | the same | the same, other arithmetic | GPIO driver | the slot that should stay free does not; order must survive, and only whole laps vanish |
| OLED interrupt path, `OLED/gpio_oled_irq.c` | capture ring, bulk ring, mutex, wait queue, `poll_enabled`, work item, handler counters | three handlers, `do_work()`, `read()`, `poll()`, `ioctl()` | rings, panel program | merged `schedule_work()`, a ring without a lock, lost wake-ups, full rings, failing copies; events arrive in order, once, and are lost only before a full ring |
| OLED loading, `OLED/ess_canonical_module.c`, `i2c_oled.c` probe and remove, `gpio_oled_irq.c` init and exit | pins, irqs, rings, frame buffer, driver, device node | init, probe, exit, remove | interrupt path, open files | steps fail one by one, interrupts are live before the rings; nothing is used before it is there or after it is gone, unloading undoes loading |
| OLED panel and program, `OLED/i2c_oled.c`, `OLED/main.cpp` | cursor, frame buffer, `oled_enabled_`, panel memory | drawing functions, `show()`, keyboard loop, button thread | interrupt path (`poll()`, `read()`), i2c adapter | two threads without a lock; every store inside the buffer, what was drawn is shown |
| GPIO driver, `GPIO/gpio_irq.c` | capture and bulk ring, spinlock, mutex, wait queue, work item, high resolution timer, pin | handler, `do_work()`, `read()`, `write()`, `poll()`, `ioctl()`, timer callback | mod-2 ring, duty cycle program | a work run takes one event however many interrupts it stands for; the timer fires between the assignments of an `ioctl()`; `poll_enabled` outside of the mutex |
| GPIO loading, `gpio_irq.c` init and exit | the same | init, exit | driver | failure paths; exit frees the rings without flushing the work item |
| Duty cycle program, `GPIO/main.cpp` | modes, period, burst bytes, a `DutyCycle` object with its thread | keys, constructor, destructor, `Run()` | GPIO driver | a join that only an `ioctl()` ends, a thread that starts before its members are set; the driver must follow the mode, the join must return |
| DMA module, `modules/rpi_4b/4_dma/dma_moc.c` | two buffers, a channel, one completion | `write()`, callback, probe, remove | DMA engine, processor cache | the callback before the wait, two writers with one completion, a destination mapped the wrong way round, a missing descriptor; data arrives, the writer returns, mappings are released |
| Work queues, `modules/ubuntu_18_04/5_work_queues/` and `5_concurrenecy_manages_work_queues/` | list of delayed work items | init, work functions, exit | kernel workers | items that free themselves, while init lists more and exit frees the rest, on a doubly linked list without a lock |
| Shared memory, `ipc/shared_mem_semaphore/` | a record in shared memory, two named semaphores | writer, reader, signals, restart | each other | initial values by who comes first, tokens that survive the processes; one side at a time at the record |
| DMA loading, `dma_moc.c` init, probe, remove, exit | driver binding, memory, channel, misc device, proc entry | init, probe, unbind, remove, exit | programs that have the device open | root unbinds while a program writes; errors of `misc_register()` pass unseen; memory goes with the binding |
| IIO module, `modules/rpi_4b/3_iio/` | `moc_data` | probe, `read_raw`, enabling a channel or the buffer, remove | IIO core | an unlocked counter that several readers increment; a scan mask that is no pointer, so that enabling oopses |
| OLED over regmap, `modules/rpi_4b/2_i2c/OLED_regmap/` | as the OLED driver, and a regmap | probe, remove, drawing | i2c core | a failing probe and every remove read memory they freed |
| Timers, `modules/ubuntu_18_04/4_timers/` | four timers, two in memory of their own | init, callbacks that re-arm, exit | kernel timers | exit frees what may fire |
| Memory mapping, `modules/ubuntu_18_04/7_memory/` | blocks, owner lock, mappings | open, close, mmap, init, exit | programs | a mapping outlives its descriptor; the unwinding of init; one holder |
| Linked list, wait queue, `modules/ubuntu_18_04/2_` and `3_` | a list; a condition with its queue | a demonstration in insmod | work item | allocation failures; a work item that outlives its caller |
| `container_of` module, `modules/ubuntu_18_04/1_` | nothing across calls | init | | none |
| Module skeletons, `ess_canonical_module.c` of each directory | class, device, cdev | init, exit | every module | the registration of the OLED module, modelled there |
| File locks, `ipc/file_lock/` | a file, record locks, a value per writer | writer, reader, signals | each other | reads byte by byte between writes; death with the lock held |
| Pipes, `ipc/pipe/` | a pipe and its ends; a name and its fifo | parent, child; writer, reader; Ctrl-C | each other | each waits for the other's end; a name that stands for the fifo of somebody else |
| Thread wrappers, scheduler, log, `cpp_posix_concurrency/` | log singleton; policy, niceness, priority of threads | `GetLog()`, `Log()`; constructor, handler, join | threads | two threads make a log at once; the constructor renices main |
| Promise, future and thread demonstrations, `cpp_posix_concurrency/` | a result, set once | set, get | | none beyond the library |
| Sanitizer demonstrations | | | | wrong on purpose |

`PROJECT.json` lists the same components with their sources and status, and
under `hazards` what could go wrong at which line with the properties that
would notice.

## Modules

One module per component; a module in the right column is checked through it.

| Module | Models | Checked by |
| --- | --- | --- |
| `CircBufPow2` | the power-of-two ring as operators on a record `[capacity, head, tail, slots]`; `push` is `Fill` (the slot) and `Publish` (the head), two steps where an interrupt may be seen between them | `CircBufQueue`, `OledIrq` |
| `CircBufQueue` | any client of one such ring; implements `BoundedQueue` | `MCModules` |
| `BoundedQueue` | abstract: a first-in first-out queue of `Limit` elements with its replies | `CircBufQueue` |
| `CircBufMask` | the bit operations of the ring, bit by bit in `W` bits, against the remainders `CircBufPow2` writes | `MCModules` |
| `CircBufMod2`, `CircBufMod2Queue` | the mod-2 ring, with the slot behind the block that `front()` and `pop()` reach, and a client that numbers what it pushes | `MCModules`, `GpioIrq` |
| `OledIrq` | the interrupt path of the OLED driver; implements `EventPipeline` and `EventStream` | `MCOledIrq` |
| `EventPipeline` | abstract: the way of an event, two bounded first-in first-out stages with a mover between them, which lose only at a full stage | `OledIrq` |
| `EventStream` | abstract: what a reader is promised, a lossy stream in order | `OledIrq` |
| `GpioIrq` | the GPIO driver: interrupt path, pulses, timer; implements `NoisyStream` | its own configurations |
| `NoisyStream` | abstract: what is left of such a stream in the GPIO driver, a lossy one in order that is clean for one lap of the smaller ring and mixed with noise afterwards | `GpioIrq` |
| `ShmSem` | writer and reader of the shared memory, with setup, signals and restarts | `ShmSemExclusive.cfg`, `MCPrograms` |
| `OledPanel` | drawing, frame buffer, panel, both threads of the program | `OledPanelUp.cfg`, `MCPrograms` |
| `DutyApp` | the duty cycle program and what its calls do to the driver | `MCPrograms` |
| `OledLife`, `GpioLife`, `RegmapLife`, `DmaLife` | loading, unloading and (the last two) binding of the OLED, GPIO, regmap and DMA modules, with all that goes on meanwhile | `MCLives` |
| `TimerLife`, `MemoryDev`, `LinkedList`, `WaitQueue` | the timer, memory, linked list and wait queue modules | `MCLives` |
| `IioTrigger` | probe, remove, `read_raw()` of the IIO module, and an enabling that never returns | `MCModules` |
| `WorkQueues` | init, items and exit of both work queue modules, with the stores of `list_add()` and `list_del()` | `MCModules` |
| `DmaWrite` | `write()` of the DMA module, its callback, the channel, memory and cache | `MCModules` |
| `UnnamedPipe` | parent and child of the unnamed pipe | `UnnamedPipeQuit.cfg`, `MCDemos` |
| `NamedPipe`, `FileLock` | writers and readers of the fifo and of the locked file | `MCDemos` |
| `SyncLog`, `SchedThreads` | the log of the thread demonstrations; the scheduler demonstration | `MCDemos` |
| `MCLives` | composition: one of the modules that come and go a behaviour | `MCDrivers` |
| `MCDrivers` | composition: those, or one of the drivers at work (mod-2 ring, IIO, work queues, DMA writers) | `MCModules` |
| `MCModules` | composition: those, or the power-of-two ring or its masks | `MCModules.cfg` |
| `MCDemos`, `MCPrograms` | composition: one of the user programs a behaviour | `MCPrograms.cfg` |
| `CircBufPow2Lemmas`, `CircBufQueueProofs`, `OledIrqProofs`, `GpioIrqProofs`, `ShmSemProofs` | theorems and proofs about the module of that name | |
| `LifeProofs`, `DriverProofs`, `ProgramProofs` | theorems and proofs about all of `MCLives`, `MCDrivers`, `MCPrograms` with `MCDemos` | |

**Correspondence.**  Variables keep the names of the code; a `pc` per actor says
where it is.  An action is what one actor does between two points at which
another can see or change something: code under a lock that all its readers take
is one step, code without is cut at each access to shared state.  Every early
return and every failing call that changes what follows is a disjunct.
Variables marked *history* (`out`, `found`, `lost`, `causes`, `overlapped`, `met`, ...)
record what happened for the properties and are never read by a guard.

* `OledIrq`.  `IsrEnter` to `IsrSchedule` are a handler (the three differ in the
  lines they serve and in their counter); the `Work...` actions are `do_work()`:
  `front()`, `memcpy()`, `pop()`, lock, `push()`, wake, unlock; `Poll...` and
  `Read...` are the calls of a thread, with `poll_wait()`, the test and the sleep
  apart; `ReleaseSet` and `ReleaseWake` are `ioctl(IOCTL_RELEASE_POLL)`.  Nothing
  in the driver sets `poll_enabled` back, and the model does not either.  A turn of
  `read()`'s loop copies and pops one record, or finds the pointer bad; what was popped
  before a failing turn is gone, and the call reports the error alone.
  The debounce test is a stuttering step: it returns before anything changes.
* `GpioIrq`.  The capture ring is under a spinlock, so its sections are one step.
  `ioctl()` and `write()` are cut at every assignment the timer callback reads.
  A `capture_event_ref` that was never assigned is the value `Stale`, whatever the stack
  holds; what `front()` shows behind the block is `BeyondBlock`.  `do_work()` pushes both
  and `read()` copies both out, so both get to `out`.
* `ShmSem`.  Semaphores and shared memory stay when a process ends; a signal runs
  `ctrl_c_handler()`, which unmaps and returns.  The reader goes on with a semaphore it
  could not open (`r_write`) and dies at its `sem_post()`.  `lost` counts the tokens killed
  processes held, `quitPosts` those posted by quitting writers.
* `OledPanel`.  A byte of the frame buffer is the set of its lit rows, read and
  written in two steps, as in `set_pixel()`.
* `OledLife`, `GpioLife`, `RegmapLife`, `DmaLife`.  One action per step of the
  init, probe, remove and exit functions, each with its ways to fail; interrupts,
  work items, timers, unbinding by root and an open file come at any time they
  can.  `stale` collects what was used or freed that was not there, a descriptor freed
  twice included, `causes` the events that may lead to it; `NoStaleUse` says which need
  which.  `pc` is "out" before a load and after an unload, "gone" after a load that failed
  and took nothing back; `UnloadReleases` speaks of both.
* `TimerLife`, `MemoryDev`, `LinkedList`, `WaitQueue`.  Allocations fail one by
  one in the order of the code (`Order`).  In `MemoryDev` a mapping holds the
  file as an open descriptor does; `stray` records a byte written outside of it.
* `IioTrigger`.  The increment of `moc_data` in `read_raw()` is a load and a store.
  Whoever enables a channel or the buffer follows the scan mask `0xF` as a pointer
  and stays in the IIO core (`oopsed`), so `moc_trigger_handler()` never runs and is not
  modelled.
* `UnnamedPipe`, `NamedPipe`, `FileLock`.  `open()` of a fifo waits for the other
  side, a read ends at the end of file when nobody has the write end, a write
  without a reader kills, and a killed process loses its descriptors and locks
  but not the name it made.  The content of the locked file is a sequence of the
  pieces its writers wrote, so that a mixture of two states can be seen.
* `SyncLog`.  `GetLog()` is three steps: the test, the making, the second look.
* `SchedThreads`.  The constructor runs in main and sets the niceness of main;
  the thread starts with main's and sets its own.
* `WorkQueues`.  `list_add()` and `list_del()` load two links and store them one after
  the other, and every store is a step: a worker may be between the two stores of its
  `list_del()` while init is between those of its `list_add()`.  `overlapped` is set when an
  operation begins at an item, or a neighbour of one, that another is busy with.  A
  step that touches freed or unlinked memory sets `misused`, and the behaviour ends there.
* `DmaWrite`.  A buffer's content is the writer whose data it has, once as the
  processor sees it and once in memory, where the channel works.  Both buffers are
  mapped `DMA_TO_DEVICE`: lines are written back and none is dropped.  The cache
  loads and writes back at any other time too.  A writer without a descriptor, or with a
  null pointer for one, is `"dead"`, or back with an error, and its mappings stay.
* In both the kernel's part (workers, timers, completion, channel, cache) is what the
  code uses of it and is marked external in the map.

## Runs

| Run | Instance | Shows |
| --- | --- | --- |
| `oled_safety` | two lines with a handler each, rings of two and four, reads of one and two records, two events a handler; 1.4 million states | `PipelineSpec`, `StreamSpec`: the path of an event refines `EventPipeline`, what is delivered refines `EventStream` |
| `oled_threads` | two threads, reads of one and two records, one thread's pointer is or turns bad; 256 thousand states | `NoLostWakeup`; `ReadAccounts`: a `read()` reports exactly the records that left the ring meanwhile, and one that fails with a good pointer has emptied the ring and reports none of it; and `IInv`, the invariant of the proofs, with mutual exclusion, `CopiedIsFront` and `ShortReadFoundFull` among its parts |
| `oled_live` | one thread, rings that two events cannot fill | `NotStranded`, `CaptureDrained`, `ReleaseEndsPoll`, `EventuallyDelivered` |
| `gpio_path` | six interrupts, rings of four, reads of one and two records | `StreamSpec`, the refinement of `NoisyStream`: events come in order and once through two rings that wrap onto themselves, and nothing but events before one has wrapped; `BacklogIsMerges`: each merged `schedule_work()` leaves exactly one event behind |
| `gpio_threads` | two pollers, two periods (one below, one above a second), the timer at any point | `NoLostWakeup`, `PulseAsAsked`, `PollsReleased` |
| `programs` | one of eight programs a behaviour | shared memory: `TokensBounded`, `NothingOverwritten`, `ReaderStops`; panel: `RectIsClipped`, `NothingUnshown`, `OutsideNeedsWrap`; duty cycle: `DriverFollowsMode`; pipes: `ChildReadsAll`, `OwnFifoUnlessRobbed`; locked file: `ReadsOneState`; threads: `ThreadsAsAsked` (lines mix only when two made the log at once, a thread runs with what it was made for); `ProgramsEnd`: the join of `~DutyCycle()` returns for each of the three ways to wait, the tenth increment ends parent and child |
| `modules` | one of eight modules, three ring clients, the IIO module, the work queues or the DMA writers a behaviour | `QueueSpec`: a power-of-two ring is a queue of capacity - 1. `MaskIsRemainder`: `(head - tail) & (n - 1)` is a remainder, wrapped differences included, for every capacity init accepts. `FirstLapExact`, `LossIsWholeLaps`: the mod-2 ring is exact until its first wrap and then keeps order and loses whole laps. `NoStaleUse` of every module that comes and goes, and `UnloadReleases`, after each unload and each load that failed; `OneHolder` of the memory device; `ReadsCount` of the IIO module: overlapping reads lose no count but their own; `MisuseNeedsOverlap`, `NothingLeftBehind` of the work queues, whose list is linked store by store; `DataArrives` (in memory; what the cache shows is another matter) and `MappingsReleased` of the DMA writers; `WaitersAnswered`, `WaitersReturn`: a DMA writer, and insmod in the wait queue demonstration, are owed their wake-up, and return |
| `oled_full_read` | violation | `read()` tests `space()` of the ring it drains: a full bulk ring gives 0 bytes for good |
| `gpio_obtained` | violation | with a full capture ring an event that was never set is pushed to the readers |
| `shm_exclusive` | violation | after a writer has quit there are two tokens, and writer and reader are at the record together |
| `pixel_up` | violation | at the top row the up key moves the pixel off the screen |
| `pipe_quit` | violation | after 'q' the parent waits for the child, and the child for the end of a pipe the parent keeps open |

Each property of a passing run has a mutant, a plausible slip of the code
(operators marked *Seeded fault* beside the definition they replace), under which
TLC finds it violated.

**Composed runs.**  `MCPrograms` and `MCModules` (with `MCLives` and `MCDrivers`) hold components that share
nothing.  A variable (`program`, `module`) chosen at the start says which of them
a behaviour is of; the others stay at their initial states.  That explores each
component completely, and no product of them, in which nothing could happen that
does not happen in a factor.  A property of the same name in several components
(`NoStaleUse`, `UnloadReleases`) is their conjunction.

**Bounds.**  Every bound is a named constant of its module.

* `MaxEvents`, `MaxPushes`, `MaxStarts`, `MaxKeys`, `DutyKeys`, `MaxCalls`,
  `MaxWrites` bound what the environment does.  They are large enough for each
  ring to fill and to overflow (a ring of two holds one element; six events
  against four slots), for the mod-2 ring to be lapped three times, for a second
  session after a quit, for both threads to be inside two drawing calls, for
  three writes by two writers, for the named pipe's two writers and two
  readers to take each other's names, and for duty cycle objects of all three ways to wait
  to be built and destroyed: `DutyKeys` is 7, the fifth key builds the third object, the one
  that waits in `epoll_wait()`, and the sixth destroys it.
* Rings have two or four slots where the code has 16 and more: positions and
  wraps are the same, and the proofs cover every capacity.
* The panel is three columns by one page of two rows (the code's 128 by eight pages of eight), `Wrap = 4` stands for 256:
  wider than either side, as in the code, so that clipping and wrapping occur.
  `RectIsClipped` runs over all arguments of such a byte.
* `Ten` is 2 for the code's 10, with a pipe of one record, so that the parent also
  waits for room; `MaxVal` is 1, so that values have a sign or none; `moc_data` has four
  values (`MocValues`, the `Modulus` of `IioTrigger`, stands for 256), so that it wraps within six counts (`MaxCounts`) of two readers; the list has four nodes for ten, the
  third for the sixth; the mapped block has three cells for 16 pages.
* `WorkQueues` has three delayed items and two workers, so that an item has a neighbour on
  either side, two workers may delete side by side, and each may meet init or exit.
* `DmaWrite` has two writers and three writes: one that was alone may be followed by two that
  are not, and what an earlier write left in the cache is there for a later one.
* `SchedThreads` has the six threads of the code with their policies and priorities.
* `OledLife` has four pins for seven: BUTTON_5, BUTTON_6, whose descriptor an undo list
  forgets, and two of the rocker, a middle and a last one.
* No symmetry is used.

**Deadlock** is checked wherever the bounds do not stop the system by themselves
(`oled_*`, `gpio_*`).  `programs` and `modules` contain programs that
end and modules that are unloaded, or run out of keys, and say
`CHECK_DEADLOCK FALSE`.

**Fairness.**  Only what the kernel or the scheduler does by itself is fair:
handlers and work items run to completion (weak), a thread inside a call is
scheduled (weak), the mutex, whose waiters queue, is handed to each of them
(strong, on the lock steps), an issued transfer completes and its callback runs
(weak).  No interrupt, key, signal, call or start of a program is ever owed.
`EventuallyDelivered` has the application's loop of `poll()` and `read()` as its
premise, as `main.cpp` writes it.  The fairness of a
component that was not chosen asks for nothing: none of its steps is enabled, and
that of the unnamed pipe is stated under `program = "unnamed"`, since its processes
could go on at any time.  The wait queue's work item and a queued callback are owed
by the kernel, and a parent or child that is not waiting goes on (weak).
`JoinReturns` assumes nothing of the other
descriptor the threads wait for, so a wait must end by the driver's `ioctl()`.

## Proofs

Three of the modules are shown to implement an abstract one: the ring a queue
(`RingIsQueue`), the OLED path a pipeline and a stream (`ImplementsPipeline`,
`ImplementsStream`), the GPIO path a noisy stream (`ImplementsStream`).

All theorems hold for every value of the constants that satisfies the module's
named assumption; those say only that the constants have their types, that the
actors are distinct from each other and from the values that stand for none of them,
and that the capacities are ones init accepts (powers of two).  A panel is narrower
and lower than `Wrap`, as 128 by 64 is than 256.  Nothing else is assumed.  Each
named assumption is evaluated by a run.

The theorems of `LifeProofs`, `DriverProofs` and `ProgramProofs` are about the
compositions, and so about the very properties the runs check.  Each of these
modules has a part per component with the inductive invariant of that component
and its three facts (it holds at the start, a step keeps it, it implies the
property); the last part conjoins them: a step of one component leaves the
variables of the others alone.

* **The ring** (`CircBufPow2Lemmas`).  Three facts about `%` on one lap
  (`ModSmall`, `ModWrap`, `ModNeg`) carry everything: `Elem(buf, i)`, the i-th
  element from the tail, is the view all later proofs take.  `PushFacts`: a push
  with room appends one element and moves none.  `PopFacts`: a pop removes
  exactly the oldest.  The `Held...` lemmas say the same of the set of elements, the
  `Contents...` lemmas of their sequence: a push with room appends (`ContentsPush`), one
  without changes nothing, a pop takes the tail (`ContentsPop`).
* **Ring as queue** (`CircBufQueueProofs`).  `RingIsQueue`: with the queue defined
  as the elements from tail to head (`Contents`), every step of the ring is a step of
  `BoundedQueue`, replies included, for every capacity.
* **The OLED interrupt path** (`OledIrqProofs`).  The properties are not inductive
  alone.  `CopiedIsFront` needs that between `Fill` and `Publish` there is room
  and that the slot under `head` holds the handler's event (`PublishReady`): then
  neither half of a push touches the element under `tail`.  `NoLostWakeup` needs that a
  thread from `poll_wait()` on is on the wait queue (`PollersQueued`), or a
  wake-up could pass it by.  Order of delivery needs the order of the whole
  pipeline (`PipelineOrdered`): everything delivered is before everything in the
  bulk ring, that before the work item's copy, that before the capture ring, that
  before the handler's event, and no number exceeds its handler's counter.
  `IInv` is their conjunction with the types and mutual exclusion;
  `InductiveInvariant` proves `Spec => []IInv`.  From it: `MutualExclusion`,
  `CopyIsSafe`, `NothingStranded`, `WakeupsNotLost`, `LossNeedsFullRing`, and
  `ImplementsStream`, `Spec => StreamSpec`: a handler numbering an event is
  `Raise`, a successful copy to user space is `Deliver`, the rest stutters.
  `ImplementsPipeline`, `Spec => PipelineSpec`, is the finer one: the stages are the
  `Contents` of the two rings, and each step of the handler, the work item and a reader is
  `Enter`, `Take`, `Put` or `Deliver`, or stutters; a stage loses only where the ring is
  full, whoever fills or empties the ring meanwhile.  The work item's copy is made
  before its `pop()`: until then the event counts as in the capture ring, which
  `CopiedIsFront` allows.
  `ShortReadsMetFull` and `FullRingStaysFull` are about the finding of `oled_full_read`:
  `read()` returns less than asked without an error only at a full ring, and a
  full bulk ring stays as it is for good.
  `ReadsAccountForAll` compares what a `read()` reports with what it has removed, for any
  numbers of records asked for: in its loop, count and ring make up what it found
  (`CountKept`), since the work item waits for the mutex.
* **Shared memory** (`ShmSemProofs`).  Counting: what the semaphores hold, what
  the processes have taken and what was lost is at most one plus the number of
  quitting writers (`TokensNeverGrow`).  The strengthening is that before the
  write semaphore exists there is no token to pass on, and that a process uses
  only semaphores that exist.  `ApartUntilQuit` follows: two at the record are
  two tokens.  `PrintedBeforeOverwritten` adds that a value nobody has printed keeps the
  token on the reader's side (`PrintedBeforeFree`).

* **The GPIO driver** (`GpioIrqProofs`).  `TypeCorrect` first, with `MergedBound`: an
  interrupt schedules the work item once.  `MutualExclusion` and `WakeupsNotLost`
  follow the OLED argument: the owner of the mutex is who is in a section
  (`SectionOwner`), a thread that polls is on the wait queue (`Queued`).
  `PulsesAsAsked` needs what holds inside the calls (`PulseInv`): which half of
  the period is already right, and that between the cancel and the start no timer
  of an earlier call runs.  `BacklogOfMerges` counts, before the first wrap, for
  each event in the ring one cause: a merged call, a pending run, or a call or run on
  its way (`Backlog`).  `ImplementsStream`, `Spec => StreamSpec`, holds for rings that wrap onto themselves,
  so a view as a queue is not at hand: `Live` are the slots a ring has yet to show and
  `Earlier` their order; push and pop keep the events among them in order
  (`PushOrder`, `PopOrder`), a push that wraps losing them all, and `OrderInv`
  puts what was read before the bulk ring, that before the event the work item has in
  hand, that before the capture ring, that before the next interrupt.  What is read that
  is no event must find a ring that has wrapped: until then the bulk ring is behind the
  capture ring and has an event in each slot below its head (`BulkLap`).
  `FirstLapObtains` and `FullCaptureStays` bound the finding of `gpio_obtained`: while
  there have been fewer interrupts than slots every work run obtains an event; once
  the capture ring is full, it is left alone for good and none does.
* **Modules that come and go** (`LifeProofs`).  `NothingStaleUsed` and
  `UnloadReleasesAll` are about seven modules each.  The invariants tie every
  resource to the place of init or exit, and come in two parts.
  * *OLED and GPIO loading.*  `OledPlaced`, `GpioPlaced` hold however a load went:
    what exit has taken back stays away, so that a module that is gone has released
    what it claims to.  `OledWhole`, `GpioWhole` say what a load without a failed
    step has at each place; there, what an interrupt, the work item or the timer
    needs is live unless one of the named causes came before.  That interrupts are
    requested before the rings is the case that makes `early` necessary; that a load which
    fails over its node keeps its handlers, `node`; that remove has put what exit then
    frees, `removed`.  `UnloadReleasesAll` covers failed loads as well: what they keep for good.
  * *Regmap and DMA binding.*  `RegmapInv`: a bound driver has what its probe made
    unless a failed probe was taken for success.  `DmaLifeInv`: the memory goes with
    the binding, and a program that opened the device before it went is known by
    the cause `unbound`.
  * *Timers.*  One order starts, cancels and frees them (`TimerInv`): what is armed or
    runs lies between the ones to come and the ones gone.
  * *Memory device.*  `OneHolderAlways`: the lock is held as long as there is a
    descriptor or a mapping, and what is mapped is the last block allocated
    (`MemoryHolding`); which step failed determines what is undone (`MemoryUndo`).
  * *Linked list.*  For a list of any length: a node is listed at most once, the walk
    is at the first item and has looked up the second (`LinkedWalk`); lemmas about
    `RemoveAt` say what `list_del()` leaves.
  * *Wait queue.*  Whoever is past the wait without a signal has seen the condition
    set before (`WaitInv`).  `WakeAlwaysComes`: who sleeps is owed a wake-up or has it.
* **Drivers at work** (`DriverProofs`).
  * *Mod-2 ring.*  `FirstLapIsExact`, `WholeLapsAreLost`.  `Laps` says where head and
    tail are, given the elements pushed before the last `clear()`, and what the last
    lap left in each slot: the last number at that place (`LastAtPlace`).  The
    arithmetic is in lemmas about remainders (`ModShift`, `ModWithin`, `ModDistinct`),
    for every capacity, powers of two or not.
  * *IIO.*  `ReadsAlwaysCount`, for any number of readers and any width: a read that nothing
    overlaps is the only one and what it loaded is still there (`IioAlone`); so what
    `moc_data` has, and what a read under way will make of it, is no older than the reads that
    nothing overlapped (`IioCounts`).
  * *Work queues.*  `OnlyMeetingsMisuse`, `ExitLeavesNothing`, for any number of items and
    workers: until two list operations meet, the list is `Orderly`.  Forward it is what is
    linked, in descending order (`Forward`); backward it is right but where an item is half in
    or half out (`Back`); what a worker loaded before its stores is still so (`Leave`), and so
    for init (`AddBusy`) and exit (`ExitBusy`); what is linked lives and waits, or is being
    taken out, what is not has run (`ItemLives`).  Each step keeps it, store by store.
  * *DMA writers.*  `LoneDataArrives`: as long as a writer has met nobody, what the
    channel and the completion hold is determined by where it is (`DmaAlone`,
    `WriterHolds`, `OnItsWay`), wherever the callback comes; from its mapping on the cache has
    no dirty line of the destination, so none can be written back over the
    transfer.  A writer that met nobody finds a quiet channel since every transaction,
    callback and completion is some writer's inside (`DmaOwes`).  `OnlyFailedWritesKeep`: mappings are
    counted by cardinality, two for every writer that has made them and two for every failed
    write (`DmaMapped`).  `WaitersAlwaysAnswered`,
    for any number of writers: the completion a writer waits for is on its way or
    there, and a writer that sleeps is woken with it (`DmaWaits`), until one writer's
    `init_completion()` forgets another (`wiped`).
  * `DriversImplementLives`: the composition is a behaviour of the one inside it, so
    the theorems of `LifeProofs` hold there by citation.
* **User programs** (`ProgramProofs`).
  * *Panel.*  `RectAlwaysClipped` compares the union of the stores of `rect()`'s three
    cases with the pixels of the clipped rectangle or its border, for any size: a loop over
    the pixels is indexed by quotient and remainder (`DivOf`, `FillRectPixels`), and a
    border is what is left without its inner pixels (`BorderIsRest`).
    `EverythingIsShown`: with the bus free and no caller on its way to it, panel and
    buffer agree; while a frame is sent, they agree up to the byte being sent, unless
    somebody will send it again (`Shown`).  `OnlyWrapsLeave`: a move counts from a
    cursor it has tested, as long as nobody else moves it (`MovesFrom`, `Inside`).
  * *Duty cycle.*  `DriverAlwaysFollows`: what is left of a key's calls determines
    what in the driver is still to be put right (`DutyPlan`, `OtherPlan`).
    `JoinIsNotBlocked`: while the destructor joins, `enabled_` and the driver's
    `poll_enabled` are cleared, and the thread waits at most for that driver; it
    rests on when object and thread exist (`DutyMade`, `DutyWaits`), and on no thread
    having read a member before it was set.
  * *Unnamed pipe.*  `ChildReadsEverything`: what was written is what was printed
    followed by what is in the pipe (`UnnamedInv`); without a writer it stays empty.
    `TenAlwaysReachesEnd`: after the tenth increment a child that reads finds a record or
    the end of the file (`TenCloses`).  `QuitWaits`, about the finding of `pipe_quit`: after
    'q' the child never reaches its end, and the parent none unless an interrupt has ended
    the child (`QuitHolds`).
  * *Named pipe.*  `FifoIsOwn`: until it is robbed, a writer's fifo is known to it
    alone until it opens it, a reader that found the name waits (`OwnName`).
  * *Locked file.*  `ReadsOneStateAlways`: who writes has the lock alone, who reads has
    one (`LocksHeld`), so the file does not change under a reader, whose bytes are its
    start (`ReadSoFar`).
  * *Log and scheduler.*  `ThreadsAlwaysAsAsked`: once made, all threads use one log
    (`OneLog`), whose mutex keeps a line whole; without root, main's niceness has not
    passed that of a thread still to make (`MainBehind`), which needs the priorities
    in the order `main()` asks for them (`Ascending`, proved of its six).

**Findings and their causes.**  Where the code departs from what it says, a run shows the
departure and a theorem what is left of the promise, for every instance: reads stop only at
a full ring, for good (`ShortReadsMetFull`, `FullRingStaysFull`); every work run obtains
an event in the first lap (`FirstLapObtains`); writer and reader are apart until a
writer quits (`ApartUntilQuit`); a pixel leaves the screen only by a move that wraps
(`OnlyWrapsLeave`); after 'q' only an interrupt ends the program (`QuitWaits`).

**Only proved.**  `CopiedIsFront` and `ShortReadFoundFull` are checked by a run as parts of
`IInv`.  `LostOnlyWhenFull`, `FullForGood`, `ObtainedInFirstLap`,
`CaptureFullForGood`, `ExclusiveUntilQuit`, `JoinNotBlocked`, `QuitNeedsInterrupt` and `TenReachesEnd`
are stated in their modules and proved; no run repeats them.

**Only model-checked.**  Liveness (`CaptureDrained`, `ReleaseEndsPoll`,
`EventuallyDelivered`, `PollsReleased`, `ReaderStops`, `ProgramsEnd`, `WaitersReturn`),
which with `ENABLED` is out of the prover's reach.  The safety half of most of it is proved:
nobody sleeps past the wake-up (`NoLostWakeup` of both drivers, `NotStranded`,
`WaitersAnswered`), no join or read waits for what cannot come (`JoinNotBlocked`,
`TenReachesEnd`).  And `MaskIsRemainder`, that the code's masks are remainders, an
induction over the bits of a number.  Every other property of a passing run is a
theorem.

## Where the code departs from what it says, or from what one expects

Five disagreements with the repository's own words are runs (above).  Others met
while modelling, which the models contain as the code has them:

* the mod-2 ring fills its last slot, and a full ring looks empty; `front()` and
  `pop()` can reach the slot behind the block;
* a GPIO work run takes one event, so merged interrupts leave events behind, and
  a capture ring that fills up stays full;
* the reader's program may create the semaphores first, with 0; `sem_read` is
  posted twice when a writer quits;
* `~DutyCycle()` can wait for ever if its thread read `enabled_` or `ep_fd_`
  before the constructor set them (`early` excuses it in `JoinReturns`);
* the guard of the down key in burst mode tests an entry that never changes;
* an OLED load that fails half way leaks what the undo lists forget, `rmmod` then
  releases rings a second time (`failed` in `NoStaleUse`); one that fails over its node leaves
  driver, interrupts, pins and rings behind while the code goes (`node`); every unload of a bound
  device puts all descriptors in `remove` and `gpio_free()`s them again in exit (`removed`); `class_create()`,
  `device_create()` and `cdev_add()` errors pass unseen; there is no `cdev_del()`;
* nothing locks the list of work items: an item that takes itself out while init or exit, or
  a neighbour's worker, is at it corrupts the list, loses an entry of it or uses freed memory
  (`overlapped`); init lists an item only after it has queued it, the first without delay;
* the GPIO module's interrupt is requested before its rings, spinlock and work item
  are made (`early`), and its exit releases the rings without flushing the work item
  (`pending`) and gives the pin back with the timer armed (`armed`);
* `remove` of the regmap build frees the panel's memory and then reads the regmap's
  address from it, at every unload; a failing `regmap_init_i2c()` does the like;
* the DMA driver's memory goes with the binding, which root may end under an open
  device; sizes and a misc device that were not to be had show only at their use;
* the DMA proc entry takes `container_of()` of a pointer that is no member;
* the IIO scan mask is a number used as a pointer: enabling a channel or the buffer oopses, so
  no sample is ever taken; `read_raw()` increments its counter without a lock;
* a failed `krealloc()` leaves the old block of the memory module behind, a failed
  node allocation the head of the list;
* the wait queue demonstration may return, and fail, while its work item has yet to
  wake it and return; after a signal, while it has yet to begin;
* a pipe's reader may remove the name of the next writer's fifo, which then creates a
  regular file (`robbed`); in the named reader `read(reader_fd, &buf, sizeof(buf) > 0)` has
  its parenthesis misplaced and reads one byte at a time;
* writers of the locked file write over its start and never truncate it, so a longer
  old record leaves its tail;
* two threads may each make a log (`raced`); the scheduler demonstration's
  constructor changes the niceness of main, which later threads inherit until they
  set their own;
* `init_completion()` by a second DMA writer forgets the sleeping first one
  (`wiped`); a failed submit keeps both mappings, and so does a `device_prep_dma_memcpy()`
  that returns NULL, which nothing tests; the DMA destination is mapped `DMA_TO_DEVICE`, and
  read before it is unmapped, so that even a lone writer may print an older line;
* the GPIO `read()` may deliver memory behind the ring, or a `capture_event` that was never
  assigned and may hold the previous event (`Garble` in `NoisyStream`);
* a failing turn of the OLED driver's `read()` loses the records of the turns before it;
* the shared memory reader tests `sem_read` after opening `sem_write` (`reader.cpp:84`) and goes
  on without the semaphore.

## Not modelled, and why

Formatting, logging, terminal modes and printing carry no property.  Debounce
times are left open: a rejected interrupt changes nothing.
`bulk_data[]` is a function of the event it carries.  The panel's reaction to
mixed-up window commands is the panel's.  Memory ordering between processors is
not modelled: an unlocked access is seen by all at once.  The sanitizer and
promise/future demonstrations are single-shot, `container_of` computes an address and
keeps no state.  Drawing in the regmap build is the code of the first build,
modelled once, in `OledPanel`.  Of the module skeletons only the registration of
those that have something to lose is modelled, in the life cycles.
`thread_allocation_affinity` sets and prints affinities, which no property is about.
The DMA proc entry's text, and the `mmap()` and `open()` no file operation of the
driver refers to, are left out.

## Plan

Done, in this order: the power-of-two ring and the OLED interrupt path with
abstract specifications and proofs; the mod-2 ring and the GPIO driver; the
shared memory with its proof; panel, duty cycle program, module life cycle, work
queues and DMA; loading of the GPIO, regmap and DMA modules; IIO, timers, memory
mapping, linked list, wait queue; pipes, locked file, threads and log; proofs of every
safety property of the passing runs but `MaskIsRemainder`.

Then the refinements: the OLED path as a pipeline, the GPIO path as a stream; what remains
of each promise the code breaks; and that nobody waits for what does not come.

What is left: abstract specifications of the memory device and of the pipes, whose promises
`OneHolder` and `ChildReadsAll` state as invariants; liveness and
`MaskIsRemainder`, which the prover does not reach.
