# A verification project for Circle with the Oculus application

The repository is a fork of Circle, a C++ environment that runs on the bare
Raspberry Pi, with an application ("oculus mendax", a video synthesizer) and
the parts that its author added to Circle for it. This directory holds TLA+
models of its code, TLC configurations that check them, and proofs that TLAPS
checks. Paths below are relative to `src/circle/`.

Everything is modelled as the tree builds it: one core (`ARM_ALLOW_MULTI_CORE`
undefined), a 32-bit clock of 1 MHz, at most 20 tasks, assertions on (`NDEBUG`
undefined, so a failed assertion stops the system), `NO_BUSY_WAIT` undefined.

## 1. Inventory

### How the parts fit together

The application is one C++ object, `CKernel` (`sample/03-next_try`), whose
`Run()` may first update the firmware on the SD card from a USB stick, then
loads media and draws frame after frame. It polls its buttons once a frame. It
talks to the VideoCore (the GPU, which decodes H.264) by messages over VCHIQ, a
library from Linux. VCHIQ expects Linux's threads, locks, timers and
completions; `addon/linux` emulates them on Circle's cooperative scheduler in
`lib/sched` and on the periodic handler of `lib/timer.cpp`. So each picture
depends on tasks that yield to each other, and on interrupt handlers that wake
them. The scheduler is below everything and the hardest to test, which is why
the project starts there.

| Component | State | Operations | Talks to | Modelled |
|---|---|---|---|---|
| Task scheduler, `lib/sched/{scheduler,task,synchronizationevent}.cpp` | table of tasks with holes, current task; per task its state, suspension, deadline; per event a flag and a linked list of waiting tasks | create, start, suspend, yield, sleep, wait (with a limit), set, clear, pulse, terminate, wait for termination, suspend and resume new tasks | the clock; interrupt handlers that set events | `Scheduler`, `RoundRobin`, `WaitList` |
| Mutex, `lib/sched/mutex.cpp` | owner, depth, event | acquire, release | scheduler | `Mutex` |
| Semaphore, `lib/sched/semaphore.cpp` | count, event | down, try, up | scheduler; up also from interrupts | `Semaphore` |
| Linux read-write lock, `addon/linux/rwlock.cpp` | one word: number of readers and a writer bit | four | scheduler (yield); used by VCHIQ | `RwLock` |
| Linux threads, `addon/linux/{kthread,pthread}.cpp` | per thread a block of the heap and a task, `current` | create, exit, join; handlers the scheduler calls at a switch and a deletion | scheduler, heap | `LinuxThread` |
| Linux timers and completions, `addon/linux/{timer,completion}.cpp` | jiffies, list of timers; a count | add, delete, tick; complete, wait with and without limit | the periodic handler of `lib/timer.cpp` | `LinuxTime` |
| Kernel timers, `lib/timer.cpp` with `lib/ptrlist.cpp` and a bucket of `lib/heapallocator.cpp` | sorted list of timers, free list of blocks | start, cancel, poll | their users' handlers | `KernelTimer`, used by the next two |
| Buttons, `addon/sensor/buttons.cpp` | debounced level, state of the click machine, timers or times | edge, debounce, tick; or `Update()` | kernel timers or clock; the menus | `Buttons`, `PolledButton` |
| Address resolution, `lib/net/arphandler.cpp` | table of hosts, frames that wait, a timer per request | resolve, process packets and entries, timer | kernel timers, the net task | `ArpHandler` |
| FAT file system, `lib/fs/fat` | disk; cache of sectors with write-back; allocation table with a hint; root directory; open files | mount, open, create, read, write, close, delete, unmount | SD card or USB stick | `FatFs` |
| Firmware update, `sample/03-next_try/filesystem_user.cpp` | two buffers, where it is; the watchdog | ask, load, save, restore | FAT, buttons, watchdog | `FirmwareUpdate` on `FatFs` |
| VCHIQ and VideoCore client libraries, `addon/vc4/{vchiq,interface,vchi}` | vendored | | Linux emulation | no |
| H.264 decoder, `addon/vc4/vc_h264_decoder` | service handle, ports, two output buffers, debug log | initialise, send and wait, poll for a frame | VCHIQ, EGL | no |
| Shared memory, parser, `addon/vc4/{vc_shared_memory,vc_h264_parser}` | handles; tables of frames | import, lock; parse | VCHIQ; loaded files | no |
| Application: tempo, LFO, modes; media; kernel and rendering | ring buffers of presses, predicted beats, loaded files | | buttons, ADC, FAT, EGL | no |
| Rest of the core library and of the TCP/IP stack, USB, sound, input, drivers | | | | no |
| `webpage`, `ffmpeg.wasm` | not on the device | | | no |

### What is hard, and what makes each part correct

* **Scheduler.** Tasks do not preempt each other, but interrupts come between
  any two instructions outside `m_SpinLock`, and their handlers change task
  states and lists. Correct means: the table holds each living task once;
  whoever is blocked is on the list of its event, and whoever is on a list is
  blocked or just timed out; nobody is blocked on a set event; a wait ends
  because of the event or the time and says which; ready tasks take turns; what
  ended is deleted and whoever waited for it goes on.
* **Mutex and semaphore.** Built from waits and wakes that are not atomic
  together. Correct means: they implement a lock, and a counter that is never
  overdrawn; nobody waits for what is free; the assertions hold.
* **Read-write lock.** Two facts in one word. Correct means: exclusion, and the
  count is right whatever the writers do.
* **Linux emulation.** Two lifetimes per thread, that of its block and that of
  its task, end at different times. Correct means: a join returns after the end
  and touches nothing that was given to another; timers fire neither early nor
  late; a wait that times out has lasted.
* **Kernel timers.** The interrupt that polls the list calls handlers that
  start and cancel timers, while it holds an address into the list; users name
  timers by address, and addresses are reused. Correct means: the address is
  good, nobody is late, no one cancels another's timer.
* **Buttons.** One press is one click, whatever the contacts do.
* **Address resolution.** Three actors (senders, net task, timer interrupt)
  move an entry through its states, and packets come late or not at all.
  Correct means: frames reach the host they are for, and none waits for ever.
* **Files and firmware.** The disk is a mixture of times until the cache has
  been written. Correct means: no cluster in two files, none lost; a file once
  closed survives a reset; an update ends, and leaves something to boot.
* **Decoder and shared memory.** A reply must belong to its request; the GPU
  must not be given a buffer that is being shown.
* **Tempo.** No division by zero, predictions stay ahead of the clock.

`PROJECT.json` lists the hazards line by line, each with the property that
covers it or the reason why none does.

## 2. Plan

Done, in the order in which the system rests on its parts:

1. `Scheduler`; `RoundRobin` (history); `WaitList` refining `WaitSet`; the
   proofs `SchedulerProofs`, `WaitListProofs`.
2. On it `Mutex` refining `Lock`, `Semaphore`, `LinuxThread`, composed by
   `MCPrograms`; `ProgramProofs`.
3. `RwLock` and `LinuxTime`, with `LinuxProofs`.
4. `KernelTimer`, under `Buttons` (with `PolledButton`) and `ArpHandler`; the
   proofs of both are in `DriverProofs`.
5. `FatFs` with `FatProofs`, and on it `FirmwareUpdate` with `UpdateProofs`.

`Links` says what a linked list reaches, for the wait lists and the files alike.
What several of the proofs need to know of sequences and of links is in
`ListLemmas`.

What would come next:

* the H.264 decoder, once its output buffers are queued: request and reply over
  an ordered channel from the VideoCore, the callback, two buffers;
* TCP's retransmission queue and the DHCP client on `KernelTimer`;
* proofs that a step of `Scheduler` on its lists is one of `WaitSet`, and of
  `TakesTurns`.

## 3. The models

### Scheduler

One variable per field of the code, under its name; `m_State`, `m_bSuspended`
and `m_nWakeTicks` are functions of the task, `m_bState` and `m_WaitList` of
the event, and the termination event of a task is found under the task itself.
`Task` is the set of addresses a `CTask` can have: a deleted task is `Unknown`,
and its address can be used again.

*Steps.* `m_pCurrent` is the task on the processor. While `cpu` is `"task"` it
runs its own code (`pc` = `"run"`: one of the calls in `Call`) or is inside
`Wait()`: `"wait"` between the test of the event and `BlockTask()`, `"unblock"`
after `BlockTask()`'s yield. `Yield()` sets `cpu` to `"yield"`, and the scan of
`GetNextTask()` follows slot by slot (`"scan"`, with its locals `nTask`,
`nLoop`, `nTicks`), through `"expire"` when it finds a timeout, and ends by
resuming a task where its `pc` says. Interrupts (`IrqSet`, `Tick`) come between
any two steps. Each code section under `m_SpinLock` is one step, because
interrupts are off in it; each iteration of the scan is one step, except that
the timeout case, which reads the state and writes it, is two.

*Assertions.* The assertions of a called function about its caller are guards
of the call. Those that could fail because of what others do (`WakeTasks()`:
the tasks on the list are blocked; the limit of tasks) set `panic`, after which
nothing happens any more, as on the device.

*Data left out.* Names, stacks, registers and user data; `clock` and delays are
numbers modulo `ClockWrap`. `usSleep(0)` returns at once.
`WaitForTermination()` is called by another task only, and of a task that is in
the table (otherwise it returns at once).

*History.* `due` is how long the deadline really is away, `signalled` whether
`WakeTasks()` has ended the wait. They guard nothing.

*Clock.* `Tick` can come between any two steps, but a deadline is looked at
before it is half a turn of the clock (35 minutes) in the past: no task keeps
the processor for longer than that.

### On the scheduler

* `RoundRobin` adds the history `ahead`: who got the processor while a task was
  ready and did not.
* `WaitSet` is the abstract view that `Scheduler` takes of wait lists, sets of
  tasks. `WaitList` has the links: `m_pWaitListHead` and `m_pWaitListNext`, and
  the loops of removal and waking iteration by iteration (the loops run with
  interrupts off, so only one is active at a time). The tasks on a list are the
  least set that holds the first one and that no link leads out of (`From`).
  Its refinement shows that the sets are what the links make.
* `Mutex`, `Semaphore` and `LinuxThread` extend `Scheduler` by an object and
  its operations; the scheduler's own steps go on around them. `Acquire` is
  split where it can wait, `Down` and `Up` at each atomic operation on the
  count and each operation on the event.
* `Lock` is what a mutex promises.
* `LinuxThread` keeps the two lifetimes of a thread apart: the block of the
  heap (`struct pthread` and `task_struct`, allocated and freed as one) and the
  task. The two handlers that the scheduler calls, before it deletes a task and
  when it switches, are conjuncts of every step of the scheduler. A block that
  is freed keeps its fields and may be the next to be allocated. A join that
  would free the block of a thread which runs stops the model. A join waits by
  `WaitForTermination()`, so that one must be among the `Calls`.
* `RwLock` has one step per stretch between two yields. `read_unlock_bh()` only
  follows `read_lock_bh()`, and so for writers.
* `LinuxTime` has one step per turn of the handler's loop. A timer's function
  may start it again or complete the completion. A call of a task that an
  interrupt can divide has a step on either side (`call` says where it is): a
  timer's time is computed without the lock and the timer added under it,
  `del_timer()` resets the entry after it has released the lock, a count is read
  and then written, and `wait_for_completion_interruptible_timeout()` looks at
  the count first and at the time afterwards. One task waits with a limit,
  others complete and take.

### On the kernel timers

* `KernelTimer` has no variables: its operators take and give a record of the
  list and of the bucket of the heap in which its elements and timers live. The
  heap is modelled because addresses matter: the free list is a stack, and so a
  timer that is started right after another was cancelled gets its addresses.
  `StartKernelTimer()` is one step where interrupts are off, in a handler or
  under the caller's lock. Where a task calls it without, it is two: the timer
  is allocated and its time computed, and then it is inserted under the lock
  (`InsertTimer`). Both users have that case.
* `Buttons` is the interrupt mode: the poll of the list element by element,
  edges between polls (interrupts do not nest), the debounce and the tick
  handler, the click table as the functions `AfterDown`, `AfterUp`, `AfterTick`
  and `TickOutput`, and timers that tasks of other drivers start. `PolledButton`
  is the mode of the application: `Update()` debounces by the clock and feeds
  the same table.
* `ArpHandler` has a step per packet and per entry of `Process()`, with the
  timer interrupt between any two, also between the allocation of a retry's
  timer and its insertion. All its timers run equally long, so they
  elapse in the order in which they were started; when is left open. The ages
  of entries are not kept: whatever is `Valid` may be evicted or cleaned up. A
  host's MAC address goes by the name of the host. Fields that the code writes
  before it reads them again, whatever it does, are cleared when an entry is
  answered or freed (`Answered`, `Freed`), so that states do not differ by what
  nobody looks at.

### Files

* `FatFs` has the disk, the cache in the order of use, the allocation table, the
  root directory, the FSInfo sector and the open files. A step writes one sector
  at most, and `disk` is what a reset would leave: that is how a crash at every
  point is looked at, without an action for it. The steps of two calls of the
  file system do not mix, because no task yields in a call: most of them hold
  `m_FileTableLock` (a `CGenericLock`, which here is a spin lock), and
  `FileDelete()`, which does not take it, is safe on one core only. Files that
  are open at the same time are written in turns. A cluster is one sector, and a
  file a whole number of them. The disk was formatted elsewhere, and its FSInfo
  sector may give any of the clusters in `Hints` as the place to look for a free
  one first. The clusters of a file are those that the links of the table reach
  from its first one, `From` of `Links`, the same operator as for the tasks on a
  wait list.
* `FirmwareUpdate` is the program in `filesystem_user.cpp` step by step on that
  file system. It keeps the order of `save_kernel` (create, write, close,
  unmount) and what happens when one of them fails. The stick is external: a
  firmware of any of some sizes, that can fail to be read or be pulled out. The
  firmware that is on the card at the start counts as `saved`.
  Seconds pass for the watchdog in between, and when it resets the system the
  buffers are lost.

### Composition, histories and mutants

`MCPrograms` and `MCParts` put modules that share nothing next to each other:
`program` or `part` is chosen at the start and the others stand still. The
parts do not interact in the code either (a button's timers and those of other
drivers do, and are together in `Buttons`), so the product of their states
would show nothing more; one run checks them all. `MCScheduler` and
`MCRoundRobin` only name sets of calls and symmetries.

Variables called history in their modules (`due`, `signalled`, `ahead`, `raced`,
`ended`, `reused`, `isDown`, `presses`, `held`, `late`, `stolen`, `waitLeft`,
the fields `left` and `raced` in `LinuxTime`, `saved`, `mountedHint`) say what
happened, for properties. They guard nothing.

Operators named `X_Y` with a comment "Mutant" are versions of `X` with a
mistake. No specification uses them. They are for checking the checks:
`PROJECT.json` names for each property a mutant that violates it.

## 4. The runs

| Run | Specification | Instance | What it shows |
|---|---|---|---|
| `SchedTasks` | `Spec` | 4 addresses, 3 slots, 1 event, no interrupts, nesting of `SuspendNewTasks()` to 2 | `TypeOK`, `TableOK`, `RunningIsReady`, `WaitListOK`, `SetEventHasNoBlockedTask`: without interrupts the scheduler is sound, the full table included |
| `SchedIrq` | `WatchedSpec` | 3 tasks that never end, waits with a limit, 1 event set by an interrupt, clock modulo 4, delay 1 | `NoSpuriousReturn`, `TimeoutMeansElapsed`, `NoEarlyWakeup`, `TakesTurns` against interrupts at every point |
| `SchedFair` | `FairSpec` | 2 tasks that come and go, sleep and wait with a limit, clock modulo 4, delay 1 | `TerminatedTaskIsDeleted`, `TerminationWakesWaiter`, `TimedWaitEnds`, and `WokenTasksAreBlocked` without interrupts |
| `Programs` | `ProgramsFairSpec` | 3 tasks; depth 2; count 1 of at most 2; 3 blocks | the mutex: `ImplementsLock` with its liveness. The semaphore, with `Up()` from interrupts: `EventTellsCount`, `AssertionsHoldUnlessRaced`, `NobodyBlockedWhileAvailable`, `WaiterGetsThrough`. Threads: `ThreadsOwnBlocks`, `JoinAfterEnd`, `JoinReturns`. All three: `ReadyTaskRuns` |
| `Parts` | `PartsFairSpec` | see below | wait lists: `PointersOK`, `ImplementsWaitSet`. Read-write lock: `Exclusion`. Kernel timers and buttons: `PollFindsElement`, `NobodyLate`, `OwnTimersOnly`, `ClicksCounted`. ARP: `FramesForTheirHost`, `OneEntryPerHost`, `FramesLeave`. Linux time: `LinkedIffListed`, `FiresNotEarly`, `TimeoutNotEarly`. FAT: `FatOK`, `SavedFilesSurvive`. Update: `TornOnlyWhileSaving`, `SuccessIsOnCard`, `UpdateEnds` |
| `SchedLostWakeup` | `Spec` | 2 tasks, 1 interrupt event | violated: finding 1 |
| `SchedWakeAssert` | `Spec` | 3 tasks, 1 interrupt event, clock | violated: finding 2 |
| `SemIrqAssert` | `ProgramsSpec` | the semaphore of `Programs` | violated: finding 3 |
| `RwTwoWriters` | `PartsSpec` | 2 readers, 2 writers | violated: finding 4 |
| `ThreadJoin` | `ProgramsSpec` | the threads of `Programs` | violated: finding 5 |
| `ArpTimer` | `PartsSpec` | the address resolution of `Parts` | violated: finding 6 |
| `LinuxTimerLate` | `PartsSpec` | the three Linux timers of `Parts` | violated: finding 7 |

On the scheduler each run chooses by `Calls` the operations that matter to its
question. All leave the deadlock check on; a program that has come to its end
stutters in an action of its own (`Halted`, `ArpHalted`, `UpdateOver`).

**Three tasks in `Programs`.** It takes three for a deletion to pass somebody
over: when the task in slot 1 yields and the scan meets an ended one in slot 2,
the new scan (`scheduler.cpp:427`) begins with slot 1 again, and the task in
slot 0 has to wait for another turn. Threads that are created, joined and end
get there; the tasks of the semaphore also leave the processor idle
(`scheduler.cpp:435`) until an interrupt's `Up()`. So `ReadyTaskRuns` is checked
there and not in `SchedFair`, whose two tasks do not.

**Bounds of `Parts`.** Three tasks and two events for the wait lists; three
readers and one writer; a tick counter modulo 6, debouncing 1 and ticks 2, up
to 2 clicks and one timer of another driver, delay 1, inserted when its time is
still to come or has just come (`MaxLag` = 0: it is not overdue by more). It
starts at tick 0 (any tick will do, for only differences are compared) and
between gestures, and after it has elapsed no new press comes (`FewOthers`: the
timers do not depend on the click table; gestures of several presses are looked
at without the other driver); three hosts for a table
of two, two attempts, one frame that waits per entry,
and no request for a further host once a timer was stolen (`FewThefts`); three
Linux timers with delays 1 and 2 on jiffies modulo 6, a count up to 2
(`MaxDone`), a wait of 2, and more than one timer only while nobody counts or
waits (`FewTimers`: timers and the completion share nothing but jiffies, and one
timer is enough to complete from its function); two files, two handles,
three clusters with the hint at the second of them, three buffers of the cache,
two sectors per file; firmware of 2 sectors to be replaced by 1, 3, 4, 5 or 6
with a buffer of 5 sectors and a watchdog of 2 seconds.

**Why the bounds are enough.** Four addresses for three slots fill the table and
ask for one more; three slots allow a hole between two tasks, and a shrinking
table in front of and behind it. One event and the termination events of all
tasks give several lists. `ClockWrap` 4 with delay 1 and the counters modulo 6
with delays 1 and 2 are the smallest on which a signed comparison differs from a
plain one and a deadline can lie on either side of the turn. `MaxNesting`,
`MaxDepth` and `MaxCount` bound counters that have no limit in the code; two of
each is where "last of nested calls" differs from "any call". Three hosts
overflow a table of two, so that slots are evicted and reused; a frame stays
with the host it was sent to, so that with three hosts one frame per entry shows
every mistake about whose it is. A timer of another driver is what the button's
handlers could hit by mistake, and with delay 1 it lies between the button's
own. Two Linux timers are always in order, whichever came first; a third with
another delay is what it takes for the list not to be, and `LinuxTimerLate`
shows that the run gets there. A hint behind the first free cluster is the only
kind that can hide one. Three buffers are the least the cache works with (it
keeps two sectors for itself), so that every further sector makes it write one
back; three clusters let two files grow alternately and fill the disk. The sizes
of the new firmware are smaller than the old one, larger, as large as the
buffer, larger than it, and larger than the card has room for.

**Symmetry** is used where no property is temporal with fairness: tasks but the
main task are interchangeable, the slots are not and are not permuted.

## 5. Fairness

* `WF_vars(YieldStep \/ WaitStep)`: the processor executes the code of
  `Yield()` and `BlockTask()`; it does not stop in it.
* `WF_vars(Tick)`: the clock is hardware.
* `SF_vars(Yield(t))`: a task that runs again and again yields again and again.
  This is the contract of a cooperative scheduler
  (`include/circle/sched/scheduler.h`), without which nothing else in the
  system can run. Strong, because a task is on the processor only now and then.
  It says nothing about calls that end or block a task: none of them is ever
  forced.
* In `Programs` the same of tasks outside the calls; a task in the loop of
  `Acquire()`, in the middle of `Down()` or `Up()`, or at the end of a join
  goes on while it has the processor; and whoever owns the mutex again and
  again lets it go. No `Up()` and no end of a thread is ever forced.
* In `Parts`, the net task is scheduled again and again (`NetTaskStep`; senders
  and packets are never forced, so a packet may be lost), kernel timers elapse
  (`TimerHandler`), and seconds pass for the watchdog, which is hardware
  (`Second`, `WatchdogResets`). No step of the update program itself is fair:
  it ends even if nobody presses a button and no device answers.

## 6. What was found

1. **A wakeup can be lost** (`SchedLostWakeup`). `Wait()` tests the event, then
   `BlockTask()` takes the lock and enqueues without testing again. An
   interrupt handler that calls `Set()` in between finds an empty list, and the
   task blocks on a set event; later calls of `Set()` do nothing, because the
   event is set.
2. **An assertion fails after a timeout** (`SchedWakeAssert`). `GetNextTask()`
   makes a task whose time is over `Ready` and leaves it on the list. `Set()`
   from an interrupt before that task has run meets a task that is not blocked.
   The run `SchedFair` shows that tasks alone cannot cause it: a task whose
   time is over gets the processor at once, and leaves the list first.
3. **`Up()` from an interrupt can trip the semaphore's assertion**
   (`SemIrqAssert`), between the decrement and the `Clear()` of `Down()`. The
   run `Programs` shows that this place, and the one of finding 1, are the only
   ones: with the exception of an `Up()` there (`raced`), everything holds.
4. **Two writers get in** (`RwTwoWriters`). `write_lock_bh()` waits for readers
   only. VCHIQ takes the lock for writing from one task at a time in most
   paths, so that the one-writer instance is the guarantee it really has.
5. **A thread is marked as ended while it runs** (`ThreadJoin`).
   `pthread_join()` frees the thread's block when its event is set; the
   scheduler deletes the task later, and its handler writes `terminated` into
   the block, which may be another thread's by then. `pthread_exit()` of that
   one asserts. `Programs` shows that it takes a block allocated again in that
   time (`reused`).
6. **A late reply stops another host's retries** (`ArpTimer`). The handle of a
   timer that has elapsed stays in its entry. A reply that comes before the
   retry cancels the timer by that handle, which by then can be the address of
   another entry's timer. `Parts` shows that frames are stuck for this reason
   only (`stolen`, and a table that overflows).
7. **A Linux timer fires late** (`LinuxTimerLate`). `add_timer()` inserts
   behind the first timer that expires earlier, so that the list is in no
   order, and the handler stops at a head that has not expired.

Some further things are true of the model and of the code, and restrict the
properties:

* A deadline of exactly 0 looks like the flag for a timeout;
  `TimeoutMeansElapsed` excepts it.
* `TakesTurns` and `ImplementsLock` are checked while no task ends. Each
  deletion restarts the scan after slot 0, so that the slots that follow it
  are met once more before the others. `Programs` shows, with three tasks, that
  a task that *stays* ready runs nevertheless (`ReadyTaskRuns`): whatever ends
  has had the processor, and the scan has gone on behind its slot before that
  slot can send it back again. But a task that waits for a mutex is ready only
  now and then, and can be passed over for ever.
* A task that waits for a termination may find its event's memory freed; only
  the emptiness of the list is checked.
* `PollFindsElement` rests on the heap being a stack: the element that
  `PollKernelTimers()` goes on with may have been freed by the handler, and is
  good only because the timer which the handler starts next gets the same
  block. The mutant `FreeBlock_Fifo` shows what any other order would do.
* More than one press too many starts the click table again: seven quick
  presses are reported as one click. `ClicksCounted` speaks of up to one too
  many.
* The search for a free cluster goes from the hint to the end of the table and
  not on from its beginning. `FatOK` says that the file system never makes the
  hint worse than it was when mounted.
* `StartKernelTimer()` reads `m_nTicks` (`lib/timer.cpp:391`) before it takes
  the lock (`:402`). A task that is interrupted in between by a tick inserts a
  timer whose time has come already, and which waits for the next tick.
  `NobodyLate` excepts that timer until then (`late`), and the proof shows that
  it does no further harm, however many ticks it missed.
* A wait for a completion tests the count (`addon/linux/completion.cpp:63`) and
  then the time (`:65`): with `complete()` from an interrupt in between it
  reports a timeout although the count is positive. `TimeoutNotEarly` says that
  the count then came after the test, and is left for the next wait. `done++`
  and `done--` read and write a volatile in two steps, so that a `complete()` in
  between is lost; nothing is claimed about that.
* While the firmware is written the card cannot be booted, and nothing but the
  buffers would help. `TornOnlyWhileSaving` says when that is: during the save,
  with both firmwares whole in the buffers; after a reset in the middle of it,
  when nothing is left of them; and when the restore has failed as well, after
  which the program gives up with a message (`filesystem_user.cpp:73-78`) and
  the card has to be restored by hand. After a restore that works the program
  reports success all the same; `SuccessIsOnCard` allows it.

## 7. Proofs

**The scheduler.** `SchedulerProofs` proves for any set of tasks and events,
any size of the table, any width of the clock, all calls and interrupts at any
point, from `SchedulerAssumption` alone:

* `TypesAlways`, `TableAlways`, `RunningAlways`, `ListsAlways`: `TypeOK`,
  `TableOK`, `RunningIsReady` and `WaitListOK` always hold.

They follow from one inductive invariant, `IInv`: `TypeOK`, and unless an
assertion has stopped the system, `TableSound`, `PlacesSound` and `WaitsSound`.
None of the properties is inductive alone. That a deleted task leaves no list
behind needs that nobody can be about to enter it, so it needs `WaitIsDue` (a
task between its test and its blocking waits for a task that lives) and
`PlacesSound` (only the running task can be there); that in turn needs
`EndedIsSet` (what has terminated has set its event, so the test fails) and
`TableSound` (what is in the table has not been deleted). That a task which
timed out and is still on a list really had a limit needs `LimitIsKnown`. That
the table is right while `GetNextTask()` is between noticing a timeout and
acting on it needs to know that the slot still holds the same task, in spite of
interrupts (`PlacesSound`). The proof takes each part of the invariant in turn
(`...Types`, `...Table`, `...Waits`) over each kind of step (`Scan...`,
`Wait...`, `Irq...`, `Call...`), and `StepSound` puts them together.

Another section assumes that no interrupt handler sets an event (`IrqEvent
= {}`, an assumption of its theorems), and proves the two properties that the
findings 1 and 2 refute otherwise:

* `NoLostWakeup`: `SetEventHasNoBlockedTask` always holds;
* `NoFailedAssertion`: `WokenTasksAreBlocked` always holds.

The invariant `Quiet` adds to `IInv` what interrupts destroy: the event a task
is about to block on is still clear (`WaitsOnClear`), and a task whose time is
over is the running one until it has left its list (`ExpiredRuns`). So both
failures need a handler that sets an event, however many tasks there are.

A further section is about time, with interrupts at any point, and proves

* `ReturnsForAReason`, `TimeoutsElapse`, `NobodyIsEarly`: `NoSpuriousReturn`,
  `TimeoutMeansElapsed` and `NoEarlyWakeup` always hold, if nobody asks for
  half a turn of the clock or more (`DelaysAreShort`, an assumption of the
  theorems: beyond it the signed comparison is of no use).

Its invariant `TInv` stands on `IInv`. The heart of it is `ScanTakesNoneEarly`:
`GetNextTask()` reads the clock once (`nTicks`) and compares with deadlines
made before and, by interrupts and by turns of the clock, seen much later; that
none of them which is still to come looks passed, at any moment of the scan, is
kept by every tick (`DeadlineStays`) and established by every new scan
(`DeadlineAhead`). `ExpireIsDue` carries it over the gap between noticing a
timeout and acting on it.

**Programs on the scheduler.** `ProgramProofs` proves, for any number of tasks,

* `MutexIsLock`: every step of `CMutex` on the scheduler is a step of `Lock` or
  leaves it alone, and it starts as one. That is the safety part of
  `ImplementsLock`;
* `EventAlwaysTells`: `EventTellsCount`; and `AssertionsHold`:
  `AssertionsHoldUnlessRaced`, with `Up()` from interrupts at any point.

For the semaphore the invariant `SemInv` says what each place between two steps
knows: one task is inside an operation at most (`OneBetween`), and the event is
behind the count in that place only, and in a known direction
(`EventIsBehind`). `AssertionsHold` follows: an assertion that fails is that of
an `Up()` from an interrupt which finds a task in such a place, and that has
been noted in `raced`.

* `NobodyLeftBlocked`: `NobodyBlockedWhileAvailable`, with the same exception.

What the count says of the event is not enough for it: `WaitersInv` adds what
the semaphore knows of the scheduler. Its tasks never sleep, end or wait with a
limit, only `Down()` blocks them, and on this one event (`WaitsForSm`); whoever
is between the test of the event and `BlockTask()` has the processor, and sees
the event set only if an interrupt has just done so (`raced`); hence nobody is
on the list of a set event (`OnList`).

* `BlocksAreOwned` and `JoinReturnsAfterEnd`: `ThreadsOwnBlocks` and
  `JoinAfterEnd`, for any threads, blocks and joins.

The invariant `ThreadInv` ties three lifetimes together, that of the task in the
scheduler, that of the block in the heap and that of the thread: as long as the
scheduler knows a task nobody else has its block (`EachItsBlock`), an allocated
block belongs to a living task or to a thread that has ended (`LivingOwns`), and
a thread that is joined cannot be gone (`JoinsWait`). It stands on `IInv` of the
scheduler, which says when a task is deleted, and speaks of the time until a
block is allocated again before the task of its old thread was deleted: that
finding 5 needs exactly this, whatever the number of threads, is what the proof
adds to the run.

**The wait lists.** `WaitListProofs` proves, for any tasks and events,

* `PointersAreSound`: `PointersOK` always holds;
* `ListsAreSets`: `ImplementsWaitSet`, all of it (`WaitSet` has no fairness).

The first half is about links alone: what is reached from a task (`FromIsLeast`,
`FromStep`), that links of tasks elsewhere do not matter (`FromSame`), and what
the three operations on a chain do (`ChainPush`, `ChainRest`, `ChainUnlink`).
The invariant `ListsInv` says that every list is a chain on which nothing is
linked to twice (`Chains`), that a task on no list has no link (`NoLinks`), and
what the loops know in the middle: `WakeTasks()` has at its pointer exactly the
tasks it has still to wake (`Waking`), and `BlockTask()` has its own task ahead
of it and the one before in `pPrev`, or has unlinked it already (`Removing`).
`PointersOK` alone does not survive a single iteration of either loop.

**The read-write lock.** `LinuxProofs` proves, for any finite set of readers
that the word can count and any `WRITE_LOCK`:

* `ReadersAlwaysCounted`: whatever any number of writers do, the bits below
  `WRITE_LOCK` are the number of readers that are in or wait. Its invariant is
  `RwTypeOK /\ ReadersCounted`. The lemma `Bits` says what setting, clearing
  and counting do to a word, and is why neither part disturbs the other.
* `OneWriterWord` and `OneWriterExcludes`: with one writer (`OneWriter`, an
  assumption of the theorems, not of the module) `WordOK` and the run's
  `Exclusion` always hold. `Exclusion` alone is not inductive: it needs to know
  that a writing writer has left its bit in the word and that no counted reader
  reads under it; the invariant adds this.

**Buttons.** `DriverProofs` proves `ClicksCounted` for both modes
(`InterruptClicksCounted`, `PolledClicksCounted`), for any delays, any number
of clicks the table counts and any other timers. The invariant `GestureInv`
says which states of the click machine go with a level (`StateFits`), and that
the state is a function of the presses so far, of the level and of whether the
press outlasted a tick (`StateCounts`). The proof has a lemma for the table and
one for each event, and does not look at the timers: whenever edges and ticks
come, the count is right.

It also proves what the kernel timers below promise, for any delays below half
a turn of the tick counter, with the debouncing shorter than the tick
(`ButtonsAssumption`; in the code 50 ms and 200 ms), any number of timers of
other drivers, and any lag of their insertion (`MaxLag`) that leaves the delays
below half a turn:

* `PollGoesOn`: `PollFindsElement`; `NoTimerLate`: `NobodyLate`;
  `HandlesAreOwn`: `OwnTimersOnly`.

One invariant, `TimersInv`, carries all three. `ListOK` has three parts. The
*heap*: every block is free, or one timer or one element of the list, and
nothing is two of them, so that an address names at most one timer. The *clock*:
no timer is half a turn away, ahead or, inserted late, behind (`Left`, `Far`),
and the list is in the order of the time that is left, so that the signed
comparison of `StartKernelTimer()` inserts where it should and a poll that stops
at the first timer still to come leaves none behind. The *order of the button's
own timers*: a debounce timer in front of a tick timer elapses before it.
`Named` says that a handle is the address of the one timer with its handler, or
0 when there is none. `PollOK` is about the address that `PollKernelTimers()`
keeps while a handler runs: the debounce handler may free that very element, and
it is good afterwards only because the timer it starts gets the block freed
last; the lemmas on `Cancel` and `Start` say which block that is.

**Address resolution.** `DriverProofs` proves `FramesReachTheirHost` and
`HostsAreListedOnce` (`FramesForTheirHost` and `OneEntryPerHost`), for any
hosts, any size of the table and any number of attempts and frames, whatever
packets come and whenever timers elapse. Its invariant is the two properties
and the types of what they look at; finding 6, the stolen timer, delays frames
but cannot send them to another host.

**Linux timers.** `LinuxProofs` proves too `TimersListedIffLinked`,
`NoTimerFiresEarly` and `NoWaitEndsEarly` (`LinkedIffListed`, `FiresNotEarly`,
`TimeoutNotEarly`), for any number of timers, any width of jiffies and any
delays below half of it (`LinuxTimeAssumption`), with interrupts inside every
call. The invariant `LinuxInv` ties what the code compares, numbers that turn
over, to the time that is really left: whoever is still to come expires less
than half a turn ahead (`OnClock`), also while it is computed and not yet added;
and the time since a wait began and the time that is left of it add up to its
timeout (`WaitOnClock`). `Ahead` says that such a number has not expired,
`Stays` and `Elapses` that a jiffy keeps it so. The order of the list does not
matter to any of this; it matters to finding 7 only. `call` is tied to the rest
as well: which timer is off the list and has its entry still linked
(`Unlinking`), and that a wait which has found the count 0 sees another one only
if an interrupt has completed since (`raced`).

**The file system.** `FatProofs` proves, for any titles, handles and clusters,
three buffers or more and any hint that the disk was formatted with
(`FatAssumption`),

* `NoClusterLost`: `FatOK`; `ClosedFilesSurvive`: `SavedFilesSurvive`.

The first part is about the cache alone. What a program sees of a sector is its
buffer if there is one and the disk otherwise (`View`), and no read, write-back
or change of buffers alters what is seen of any sector but the one that is
written; what reaches the disk is what was seen before the step or is seen after
it (`WrittenBack`). From there on the proofs speak of the table, the directory
and the data as they are seen, and need not know which buffer was taken.

The inductive invariant is `FatInv`: types, `FatOK`, and what `FatOK` lacks.
That the clusters of two files stay apart when a file grows needs that the last
cluster of a file that is written is where its handle says, so there is a path
of clusters to it (`PathsOK`, `WritePath`), that nobody else writes or deletes
the same file (`FilesOK`), and whose clusters the call that goes on changes:
those of a file that is written, or of one that nobody writes and that counts as
saved no more, while a close has the directory entry written already (`CallOK`).
For
`SavedFilesSurvive` a path says of every cluster of a closed file that what is
seen of it is on the disk as well, link and data (`SavedPath`); a step for
another file keeps it, because it writes no cluster of this one, whatever the
order in which sectors reach the disk.

**The firmware update.** `UpdateProofs` proves, for a new firmware of any size,
also one that does not fit into the buffer or on the card, and any clusters,
buffers and handles (`UpdateAssumption`, `FatAssumption`),

* `FirmwareNeverLost`: `TornOnlyWhileSaving`; `SuccessIsReal`:
  `SuccessIsOnCard`.

Since `disk` is what a reset leaves, both speak of a reset at any point. The
invariant is `UpdateInv`: `FatInv` of the file system below, `FirmwareOK`, and,
until the program has ended, `PlaceOK` and `CardOK`. `FirmwareOK` is what a
reset does not make untrue: the old firmware is on the card as a saved file
until the new one is created, and both are in the buffers from the time on that
they are loaded until a reset clears them. `PlaceOK`
says where the program can be in each phase, and what is in the buffers there.
`CardOK` ties the place in the program to the call of the file system that goes
on: what is read so far is the beginning of the old firmware (`Reading`); while
it is created, written and closed the file at handle 1 is the firmware in the
buffer that the phase names (`Creating`, `WritesFirmware`); and at the end of an
unmount, if nothing has failed, what was to be saved is saved. The proof lists
for each step of the program, and for each step of a call that it waits for,
what these three need. `SavedFilesSurvive` is where the file system comes in:
the firmware is a saved file, so what is saved is on the disk and not only in
the cache. The two buffers are a function on {0, 1} whose values are sequences;
the proofs keep the one apart from the other (`TwoBuffers`, `BufferFilled`), so
that no step reasons about the length of the function.

## 8. Only model-checked, and not modelled

*Only model-checked.* Liveness (`SchedFair`, the fairness parts of `Programs`,
`FramesLeave`, `UpdateEnds`), since TLAPS does not prove liveness under
fairness with the provers at hand. `TakesTurns`, which rests on histories of
several scans. Every invariant of a passing run, and every action property but
`TakesTurns`, is also a theorem.

*Left out of the modules.* Scheduler: names, user data, `ListTasks()`,
`GetTask()`, the switch of the stacks. Threads: thread-specific data. Buttons:
the counter of long holds, the time of the last event, the destructor. FAT:
FAT16, a second copy of the table, clusters of several sectors and sectors that
are partly filled, names and times, the listing of the directory and a
directory that grows; errors of the device stop the system in this code.
Update: texts on the screen and the reboot itself. Heap: all but one bucket.

*Not modelled.* The components table of `PROJECT.json` gives the reason for
each:

* *H.264 decoder.* As the tree stands it cannot run: the output buffers are
  queued nowhere (`addon/vc4/vc_h264_decoder/api.cpp:182-191` are commented
  out), so that no frame ever comes back.
* *VideoCore shared memory.* `helper.cpp` does not compile (line 33), and
  nothing calls it.
* *Parser, tempo, LFO.* Sequential functions of one call's data, in several
  versions; two defects are among the hazards.
* *Loading of media.* `filesystem_mount()` is called with 13 of its 19
  parameters: what it should do in this commit is not determined.
* *VCHIQ and the VideoCore client libraries, ffmpeg.* Vendored, and by far the
  most of the repository's lines.
* *USB, sound, SD card, sensors, LED strips.* Drivers, whose state is in the
  registers of devices.
* *TCP, DHCP, transport layer.* The application does not link them; they come
  next in the plan.
