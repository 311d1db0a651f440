# RT-Thread kernel: a TLA+ verification project

This directory holds TLA+ models of the RT-Thread 4.0.2 kernel in
`src/template_LVGL/rt-thread`, as the repository builds it for an STM32F103
(`src/template_LVGL/rtconfig.h`: one CPU, no signals, 32 priorities, software
timers, all five IPC objects), the TLC runs that check them on small
instances, and TLAPS proofs of most of the properties for every instance.
The models cover the scheduler, threads, tick, timers, all five IPC objects,
memory pool and heap of the kernel, and completion, work queue and ring buffer
of the device library.
File names below are relative to `src/template_LVGL/rt-thread/src` unless they
start with `src/`.

## 1. Inventory

The repository is an application template: a small `main` loop over the LVGL
library, board drivers, a vendored HAL, the RT-Thread kernel and its
components, and six small components of the author's own
(`src/componet_library`). The logic that can go wrong in ways a test hardly
reaches is in the kernel; everything else calls it.

| Component | State | Operations | Correct when |
|---|---|---|---|
| Scheduler (`scheduler.c`) | priority table, priority group bitmap, current thread, lock depth | schedule, insert, remove, enter/exit critical | the bitmap matches the lists; a READY thread is found; the highest priority runs; nobody is switched to under the lock |
| Thread API (`thread.c`) | per thread: state, YIELD bit, priority, slice, error, list node, timer | init/create, startup, suspend, resume, sleep, yield, exit, delete/detach, control, timeout | states, lists and timers agree between any two critical sections; a closed thread never runs; sleeps end |
| Tick (`clock.c`) | tick, the current thread's remaining slice | tick increase, conversion | peers share the CPU; slices never underflow |
| Timers (`timer.c`) | sorted timer lists, activation flags, timer thread | start, stop, detach, control, hard check, soft check, timer thread | timers fire once, at their tick, across wraparound; stopped ones do not fire; the timer thread sleeps only if it has nothing to do |
| Idle thread (`idle.c`) | defunct list | reap, hooks | every dead dynamic thread is freed once, and nobody uses it meanwhile |
| IPC suspend lists (`ipc.c`) | list per object | suspend on, resume first, resume all | a waiter leaves for one reason and knows which |
| Semaphore (`ipc.c`) | count, waiters | init, take, trytake, release, reset, detach/delete | permits are conserved, no wakeup is lost |
| Mutex (`ipc.c`) | owner, nesting, saved priority, waiters | init, take, release, detach/delete | one owner; priority is inherited and given back |
| Event, mailbox, message queue (`ipc.c`) | bit set; ring of words and two waiter lists; free list and FIFO of messages | send, receive, urgent, reset, detach | nothing lost, duplicated or reordered; a timed wait ends |
| Memory pool, heap (`mempool.c`, `mem.c`) | free list and waiters; block chain | alloc, free, create, delete | blocks are disjoint, adjacent free blocks merge, waiters get blocks |
| Object container, device framework, interrupt nesting (`object.c`, `device.c`, `irq.c`) | registries, open counts, depth | register, find, open, close | no dangling registration |
| Device IPC (`components/drivers/src`) | ring buffers, completion flags, work queues | put/get, wait/done, submit/cancel | single producer and consumer without lock stay consistent |
| Author's components (`src/componet_library`) | uart2 semaphore and device, button list, AT responses | start sample, scan, send | restartable, bounded, nothing leaks |

**Interaction.** Everything goes through the kernel data: IPC objects, timers
and the idle thread move threads between the lists of the scheduler and change
their states. Interrupt handlers call the same functions (release, send, tick)
as threads do. The unit of atomicity is a stretch of code with interrupts
disabled; between two such stretches of one function the tick interrupt, and
through it any other thread, can run.

**What is hard.** Functions made of several critical sections
(`rt_thread_resume`, `rt_thread_delete`, `rt_thread_startup`, the idle thread's
reaper, `rt_ipc_list_resume_all`, `rt_timer_start`, the timer and work threads'
loops, the copies of the message queue); a timeout racing a wakeup; a woken
waiter that finds somebody else was faster and waits again; callbacks that
change the list they are called from; state read before interrupts are
disabled; priority changes of queued threads; starvation; wrapping counters and
indices. `PROJECT.json` lists the hazards one by one, each with the properties
that cover it or the reason why none does.

## 2. Modules

| Module | Models |
|---|---|
| `Kernel` | the shared kernel data as one record, and every C function that runs with interrupts disabled as an operator from kernels to kernels |
| `Scheduler` | the thread API, scheduler lock, tick interrupt and idle thread as actions, one per critical section |
| `Ipc` | suspend lists, the blocking-call protocol, detach and re-initialization, common to the IPC objects |
| `Semaphore`, `SemaphoreSpec` | the semaphore, and the abstract semaphore it implements |
| `Mutex` | the mutex with nesting, hand-over and priority inheritance |
| `Event` | the event set: a send serves every waiter it satisfies, clearing bits in between |
| `Retry` | the waiting loop of mailbox, message queue and memory pool: a resumed caller looks again and waits for what is left of its timeout |
| `Channel` | what mailbox and message queue share: a list of receivers and one of senders |
| `Mailbox`, `MessageQueue`, `ChannelSpec` | the ring of mails; the linked slots of messages with the copies in between; the bounded channel both implement |
| `MemPool` | the pool of equal blocks and its waiters |
| `Completion`, `WorkQueue` | completion flag and waiter; work list and work thread |
| `Timer` | hard and soft timers, the tick interrupt's check, callbacks, the timer thread, a wrapping tick |
| `Heap` | the chain of blocks of `mem.c`, split, merged and moved by several threads |
| `RingBuffer` | indices and mirror bits of `ringbuffer.c` |
| `KernelProofs`, `SchedulerProofs` | lemmas about the kernel's operators; the theorems about the scheduler |
| `IpcProofs` | lemmas about suspend lists and blocking calls, for any object |
| `SyncProofs` | the theorems about semaphore, mutex, completion and event set |
| `ObjectProofs`, `QueueProofs` | the theorems about memory pool, mailbox and the deadlines of both channels, and about the message queue |
| `TimerProofs`, `StorageProofs` | the theorems about the timers, and about the heap and the ring buffer |
| `MCScheduler`, `MCSemaphore`, `MCMutex`, `MCIpc`, `MCServices` | instances for TLC |

`Ipc` extends `Scheduler`, so the runs of everything built on it (`Semaphore`,
`Mutex`, `Event`, `Mailbox`, `MessageQueue`, `MemPool`, `Completion`,
`WorkQueue`) contain the whole scheduler, tick and timer behaviour. `Timer`,
`Heap` and `RingBuffer` stand alone. `MCIpc` and `MCServices` hold several
components side by side and choose in the initial state which one is used; the
others are not touched.

### How the model corresponds to the code

* `k.list[h]` is the circular list with head `h`; heads are the priorities, the
  IPC objects and the defunct list. `rt_list_remove` takes a thread out of
  whichever list it is in, as the C code does without knowing the list.
* `k.group` is the set of set bits of `rt_thread_ready_priority_group`.
* `pc[t]` is where thread `t` continues when it has the CPU. Only the current
  thread takes steps. `isr = "timer"` means the tick interrupt is in
  `rt_timer_check`, where interrupts stay disabled.
* `May` (thread API) and `Uses` (IPC) say which thread makes which calls; an
  application thread otherwise calls in any order. They are how one model
  serves many programs.
* `rt_schedule` in an interrupt only pends the switch; the model switches at
  once, which no thread can tell apart because none runs before the interrupt
  has returned.
* The store to `thread->stat` in `rt_thread_detach` is made just before the
  critical section that queues the thread as defunct; the model makes both in
  one step (`DeleteClose`).
* Over `Kernel`, thread timers are the ticks left; timers that expire at the
  same tick may fire in any order, a superset of the order of the sorted list.
  `Timer` has the sorted lists and the arithmetic itself.
* In `Retry`, `wait[t]` is the caller's `timeout` and the ticks since it read
  `tick_delta`; `due[t]`, a history variable, is the deadline of the call.
* In `MessageQueue` a slot is off both lists while a sender fills it or a
  receiver copies from it: `own[t]`. Taking and linking are separate steps.
* In `Completion` a call may come while a thread that a done has resumed has
  not run yet: the flag is set, so the assertion that the list is empty
  (`src/template_LVGL/rt-thread/components/drivers/src/completion.c:45`) is
  skipped, the call clears the flag and returns `RT_EOK`, and so does the
  resumed thread. `done.shared`, a history variable, has the threads whose done
  was met by another call in this way.
* In `WorkQueue` `rt_workqueue_cancel_work_sync` blocks with interrupts
  disabled, so the flag PENDING is cleared before the pended switch takes
  place: one step.
* In `WorkQueue` the work thread is at `run` in the work function, and at the
  labels `wq_...` in its loop, whose test, suspension and removal are separate
  steps. Its semaphore has no count of its own: it is 0 whenever the thread is
  not acknowledging a work.
* In `Timer` the timer thread has a higher priority than the application: the
  application takes a step only while the timer thread is suspended. Callbacks
  make at most one call. `s.due`, `s.quiet` and `s.blind` are for the
  properties only. `rt_timer_control` reads the flag byte and writes it back
  with interrupts enabled (`timer.c:475`): two steps of the thread that calls
  it (`BeginControl`, and the label `store` in `CallStep`), one in a hard
  timer's callback, where interrupts are disabled. The clearing of the flag at
  the end of `rt_timer_stop` is one step: the timer has been unlinked, so it is
  not fired in between, and nobody but its callback would write its flag. The test of the timer thread's state at the end of
  `rt_timer_start` and the resume are one step; the race inside
  `rt_thread_resume` is in `Scheduler`.
* In `Heap` every operation under `heap_sem` is one step and a moving
  `rt_realloc` is two: allocating and copying, then freeing. Offsets are in
  words of `RT_ALIGN_SIZE`.
* In `RingBuffer` a call is one step: the buffer has no lock and leaves
  serialisation to its users.
* `rt_thread_yield` is a step that only moves to `YieldSchedule`, so that a
  yield that changes nothing is still visible.
* Outside the code's reach, and assumed of the application: it does not delete
  a thread that is gone, does not use an IPC object that is being detached,
  initializes it again only when all calls on it have returned, and detaches a
  mutex only if the caller or nobody owns it.
* Also assumed of the application: a thread is started by one thread only
  (`rt_thread_startup` asserts the state, and stores, with interrupts enabled);
  nobody calls `rt_completion_wait` while another thread is suspended on the
  completion (the code asserts just that), and a completion is initialized
  again only when nobody is in a call on it; a memory block is freed once and while it is in use,
  channels and pools are detached only when no resumed caller is still on
  its way to them, and a message queue only when nobody holds one of its slots.
* When `rt_ipc_list_resume_all` would take the head of an empty list for a
  thread, what happens to memory is not modelled; the state before it is what
  `ResumeAllFindsThread` is about.

## 3. Runs

Deadlock is checked in every run; the tick, or for heap and ring buffer some
operation, keeps the system going.

| Run | Result | Shows |
|---|---|---|
| `life` | pass | create, start, sleep, yield, lock the scheduler, exit, reap: types, ready queue, thread states, preemption, held threads, nobody switched to under the lock |
| `manage` | pass | one thread suspends, resumes, reprioritizes, deletes and detaches others that do not sleep: what a call tested still holds when it acts, and a closed thread never runs again |
| `semprio` | pass | semaphore with priority order, timeouts, interrupt and reset: conservation, no lost wakeup, highest waiter first, refinement of `SemaphoreSpec` |
| `semfair` | pass | sleeps end; a ready thread of top priority gets the CPU from peers that never block; FIFO waiters are served; detach and re-initialization leave nobody waiting |
| `mutex` | pass | one owner, inheritance and its end, for one mutex that its owner may detach while others wait |
| `objects` | pass | event set, mailbox, message queue, memory pool, completion, work queue: no event, mail, message, free entry or block goes unnoticed by a waiter; a send takes from the set what its clearing receivers get, each bit for one of them; slots and blocks are conserved; retried waits end at the deadline of the call; a done is not used for a later wait; a work is not forgotten; mailbox and message queue implement `ChannelSpec` |
| `services` | pass | timer lists are ordered and timers fire in their tick across the overflow; stopped timers are quiet, active ones listed; the timer thread does not oversleep; heap blocks tile memory, have one owner and add up to `used_mem`; the ring buffer is a queue of bytes |
| `yield` | violation | `rt_thread_yield` keeps the CPU although a peer is ready: it does not set the YIELD bit |
| `deleterace` | violation | a thread deleted while its timer fires ends CLOSEd in the ready queue |
| `mutexnested` | violation | overlapping mutexes leave their owner with a boosted priority for good |
| `softlost` | violation | a soft timer started by an interrupt while the timer thread is between its look at the empty list and its suspension is not served |
| `ringforce` | violation | a forced put that wraps can leave the ring buffer empty |

### Bounds

* Scheduler, semaphore, mutex: three or four threads (idle, two peers, one of
  higher priority, or three different priorities for the mutex), one object
  (two mutexes in `mutexnested`), slices of 1 and 2 ticks, delays of 0 to 2
  ticks: preemption, slicing between peers, two waiters in one list with a
  third thread acting on it, timers that expire before, with and after an
  event. `MaxNest` bounds the scheduler lock (2 in `life`, so that it nests),
  `MaxValue` the permits that accumulate, `MaxHold` the nesting of a mutex; the
  wrap of the 16 and 8 bit counters is out of reach of these bounds.
* `objects`: two threads of different priorities, the idle thread and an
  interrupt; two bits, two entries, slots, blocks and works, two messages
  (interchangeable: `SYMMETRY`). Waits are 0, 2 ticks and for ever: a retry
  needs a wait of at least two ticks, one before it is resumed and one before
  it looks again, or it is late. Only `thigh` sleeps, so that `tlow` runs; the
  interrupt takes the part of a third sender.
* `services`: one hard and two soft timers with delays of 1 and 2, a tick
  modulo 10 (`TickMax` 9), so that half the range is more than a delay and the
  lateness together and the counter overflows many times; `MaxLate` 1 is the
  ticks a thread may be kept from its next step, which makes insertions late.
  A heap of 21 words and requests of 1, 4 and 9: up to four blocks, splits with
  and without remainder, merges to both sides. A ring of 4 bytes and blocks of
  0 to 5.

### Limits of the passing runs

Some passing runs stay away from behaviour that the code does not get right.
Each limit is a constant, and the definitions that show why it is there are in
the modules; `HighestRuns` and the others below are violated when checked so:

* `manage`: the managed threads do not sleep. `ResumesSuspended` fails on
  `MCScheduler` with `May <- MayResumeSleeper`: `rt_thread_resume` unlinks a
  thread that its timer has made READY. Run `deleterace` is the same for
  delete. `rt_thread_suspend` tests the state before it disables interrupts,
  too.
* `DetachTimed = FALSE`: no object with a timed waiter is detached.
  `ResumeAllFindsThread` fails on `MCSemaphore` with `Uses <- UsesDetach` and
  `DetachTimed = TRUE`: `rt_ipc_list_resume_all` takes the head of an empty
  list for a thread when the last waiter times out after the test.
* `mutex` does not check `HighestRuns`, which fails there: a release that drops
  the caller's priority without waking anybody schedules nothing. The mutex is
  detached only by the thread of highest priority and only when it or nobody
  owns it, because `rt_mutex_detach` does not give a boosted owner its priority
  back. Priorities are not passed on along a chain of owners.
* `objects`: the work thread has the highest priority. `WorkIsFound` fails with
  `WorkThread = tlow`: a submitter of higher priority can resume the thread and
  cancel the work before it runs, and the thread then takes the list head for a
  work. A submission from an interrupt between the test of the list and the
  suspension would be lost as in `softlost`. `rt_workqueue_cancel_all_work`
  leaves the works PENDING, so that they cannot be submitted again.
* `TimesOutOnTime` is about mailbox and message queue; `rt_mp_alloc`
  recalculates its time before it disables interrupts and waits longer by the
  ticks that come in between. Its waiters are queued last in, first out.
* `StoppedIsQuiet`: callbacks act on their own timers. It fails with
  `Ops <- StopsNext`, `Time <- OneTick`, `Periodic = {}`: the callback of a
  soft timer stops the next one, whose node the timer thread already has.
* `SoftIsAwaited` excludes `s.blind`: a soft timer due exactly at
  `RT_TICK_MAX` looks like an empty list to the timer thread.
* `services`: one application thread makes calls on timers, and it does not
  change their kinds. `rt_timer_control` by a thread, with a tick between its
  read and its write of the flag byte, would mark a one-shot timer that has
  fired as activated again, in no list; and two threads that start one timer
  can insert it twice. Callbacks change the kind of their own timers only.
* `DoneIsNotReused` allows one done to end two waits that overlap: that of the
  thread it resumed, and that of one that calls before the first has run. That
  every done ends one wait is true for a single waiter only (`DoneEndsTheWait`).
* `LfreeIsLowest`, the comment on `lfree` in `mem.c`, fails: a shrinking
  `rt_realloc` does not lower `lfree`, and the space is not found until a block
  below it is freed. Memory is wasted, nothing is corrupted.
* `RingIsQueue` leaves to `ringforce` the forced put that overflows while
  reader and writer are in the same mirror.

Three more observations: a YIELD bit set by the tick survives calls of
`rt_schedule` that do not switch and takes the CPU from its thread later; a
one-shot timer that its own callback restarts is in its list with the
activation flag cleared, so that `rt_timer_stop` refuses it; and a done that
meets a completion whose waiter has just timed out is consumed by that waiter.

### Fairness

`SemFairSpec` assumes what hardware and scheduler give: ticks keep coming,
their handler completes, and the CPU executes the function its current thread
is in (`Execute`). Nothing is assumed of application code: a thread may compute
for ever or never call anything again, which is why `RoundRobin` needs the
tick. All conditions are weak fairness. `objects` and `services` state no
fairness: their questions about waiting are asked as invariants (nobody waits
for what is there, a timer is set to the deadline). `WaiterIsServed` has the repeated
interrupt as a hypothesis, not as an assumption.

## 4. Proofs

Eight modules hold theorems. Each holds for every value of the constants that
satisfies the named assumptions of the modules (the idle thread exists, slices
are positive, list heads are distinct, sizes are positive, ...), and for the
hypotheses given here.

| Theorem | Shows | Hypotheses |
|---|---|---|
| `SchedulerProofs!InductiveInvariant` | `Spec => []IInv` | `RaceFree` |
| `TypeCorrect`, `ReadyQueueIsConsistent`, `ThreadStatesAreConsistent`, `HeldThreadsAreLeftAlone` | the state invariants of run `life` | `RaceFree` |
| `HighestPriorityRuns` | `[]HighestRuns`, preemption | `RaceFree`, `NoControl` |
| `ClosedIsClosed` | `ClosedStaysClosed`, an action property | `RaceFree`, `NobodySuspends` |
| `LockIsObeyed` | `LockHolds`, an action property | none |
| `StorageProofs!BlocksAlwaysTile`, `BlocksAlwaysOwned` | `[]BlocksTile`, `[]BlocksAreOwned` | none |
| `StorageProofs!RingIsAlwaysAQueue` | `[]RingIsQueue` | none |
| `ObjectProofs!BlocksAlwaysConserved` | `[]BlocksConserved` | none |
| `ObjectProofs!MailboxImplementsChannel` | the mailbox implements `ChannelSpec` | none |
| `SyncProofs!NoWakeupIsLost`, `NobodyIsLeftBehind` | `[]NoLostWakeup`, `[]NobodyLeftBehind` | `Polite`, finitely many threads |
| `SyncProofs!SemaphoreIsImplemented`, `PermitsComeFromReleases` | the semaphore implements `SemaphoreSpec`; `PermitsAreReleased` | the same and `NoWrap` |
| `SyncProofs!OwnerIsAlwaysAlone` | `[]OwnerIsAlone` | `Polite`, finitely many threads |
| `SyncProofs!DonesAreNotReused` | `[]DoneIsNotReused` | `Polite`, finitely many threads |
| `SyncProofs!DoneEndsTheWait` | the flag is set from the done that resumes a thread until its call returns | the same and `SingleWaiter` |
| `SyncProofs!NoEventIsMissed`, `EventsAreClearedOnce` | `[]EventNotMissed`; `EventsClearedOnce`, an action property | `Polite`, finitely many threads |
| `ObjectProofs!NoBlockIsMissed`, `NoMailIsMissed` | `[]BlockNotMissed`, `[]MailNotMissed` | `Polite`, finitely many threads |
| `ObjectProofs!MailTimesOutOnTime`, `MessageTimesOutOnTime` | `[]TimesOutOnTime`, for mailbox and message queue | `Polite`, finitely many threads |
| `QueueProofs!SlotsAlwaysConserved`, `NoMessageIsMissed` | `[]SlotsConserved`, `[]MessageNotMissed` | `Polite`, finitely many threads |
| `QueueProofs!QueueImplementsChannel` | the message queue implements `ChannelSpec` | `Polite`, finitely many threads |
| `TimerProofs!TimerInv` | `TimerSpec => []Inv` | `OwnCallbacks`, `FixedKinds` |
| `TimerOrderHolds`, `ActiveIsListedHolds`, `SoftIsAwaitedHolds` | `[]TimerOrder`, `[]ActiveIsListed`, `[]SoftIsAwaited` | the same |
| `FiresInTimeHolds`, `StoppedIsQuietHolds` | `FiresInTime`, `StoppedIsQuiet`, action properties | the same |

The hypotheses are not for convenience.

* `RaceFree`: no thread calls resume, delete or detach on another. Run
  `deleterace` and the instance with `MayResumeSleeper` show that the
  invariant fails with them.
* `NoControl`: `rt_thread_control` leaves scheduling to its caller, so after
  it a READY thread may be above the current one.
* `NobodySuspends`: no thread calls `rt_thread_suspend`. The call looks at the
  state of the thread before it disables interrupts, so a thread that exits in
  between is suspended after it was closed.
* `Polite`: applications use create, startup, sleep, yield, exit and control
  only, and the idle thread uses no IPC object. A thread that is suspended,
  resumed or deleted from outside in the middle of a take leaves the list
  without a permit and without an error, which the take reports as success, and a take inside
  `rt_enter_critical` returns before it has waited.
* `NoWrap`: the permits never exceed what the 16 bits of `sem->value` hold.
  The code adds one without a test, so beyond that a release destroys 65535
  permits.
* Finitely many threads, since the permits and slots in the hands of threads,
  and the threads on their way to a block, a mail or a message, are counted.
* `OwnCallbacks`: a timer's callback acts on its own timer only and does not
  detach it, as in run `services`. A hard timer's callback that starts a soft
  timer loses its wakeup (run `softlost`) or makes the delay the timer thread
  has computed stale; one that stops the next soft timer fires it all the same
  (section 3); two actors that start one timer, the second between the
  unlinking and the insertion of the first, put it into the list twice, which
  for the application means that only one of its threads makes these calls; and a
  periodic timer that its own callback detaches is restarted, because
  `rt_timer_detach` leaves its activation flag set.
* `FixedKinds`: the application thread does not call `rt_timer_control` to
  change the kind of a timer. It reads and writes the flag byte with interrupts
  enabled (`timer.c:475`), so that a timer which fires in between gets its
  activation flag back although it is in no list, and `ActiveIsListed` fails.
  Callbacks may, on their own timers: a hard timer's runs with interrupts
  disabled, and the flag of a soft timer that is being fired is written by the
  timer thread alone.
* `SingleWaiter`: one thread alone may call `rt_completion_wait`. With a second
  one the done is shared as described in section 2.

`SyncProofs` allows either value of `DetachTimed`. With `TRUE` it says nothing
of what follows once `rt_ipc_list_resume_all` has taken the head of an empty
list for a thread, as the model stops that caller there (section 3).

### The arguments

**Scheduler.** `ReadyQueueConsistent` is not inductive: inside a function the
thread being moved belongs to no list while its state still says otherwise.
`Core(k, X)` is the consistency of the kernel with the threads of `X` exempted;
each operator of `Kernel` has a lemma that says how it moves between
`Core(k, {})` and `Core(k, {t})` and, by `Local` and `Moves`, which other
threads it leaves as they were. `IInv` adds to `Core(k, {})` what spans several
critical sections: where threads can be in their calls, that a thread being
started or freed is held by one caller and in no list, that a closed current
thread executes nothing, that slices are positive, and which closed threads can
be defunct. Each action then preserves `IInv` by one lemma, built from those of
the operators it is composed of. Lists need care: the lemmas on `RemoveAt`,
`Append` and concatenation say what happens to members and to duplicates, and
the least set bit exists because `<` is well-founded on the naturals.
`ClosedStaysClosed` follows from `IInv` step by step: what wakes, starts or
reschedules a thread acts on one that is suspended, ready or initialized.
`LockHolds` needs none of this: with the kernel being a record, every operator
that can switch threads tests `lock` first or is not reached while it is set.

**IPC objects** (`IpcProofs`). Two invariants come before anything can be said of
one object. `IpcInv`: a thread in a suspend list is in the middle of a
call on just that object, and has no error yet; a thread in IPC code that is in
no list can run; the current thread is RUNNING unless it is about to give up
the CPU. `ObjInv`: a call in progress names its object, and the list of an
object that is gone is empty. The rest of the module is
about *calls*: `CallOf` says whether a thread's call on an object is waiting,
granted or failed, and the lemmas say which steps leave all calls alone, which
move one call (`OneCall`), and which can only end calls (`Eases`). The
scheduler, the tick interrupt and the later halves of blocking calls all fall
into the last class, so that the proof of an object has cases for the object's
own operations only.

**Semaphore and mutex** (`SyncProofs`). `SemInv` adds that there are no permits
while somebody waits. The refinement maps a thread to the state of its call;
every step is then one of the abstract semaphore or a stutter, and `Worth`
changes as its cardinality lemmas say. `MtxInv` adds for each live mutex that
only the owner's call can have been granted, that the owner does not wait, and
that nobody waits for a free mutex; priority inheritance moves threads between
lists and is covered by `ChangePrioritySpares`.

**Completion and event set** (`SyncProofs`). `CompInv`: one thread at most is
suspended on the completion (`OneListed`), any number may be in
`rt_completion_wait` after that; the flag is clear while one is suspended, and
for every thread that a done has resumed it is set, or another call has cleared
it since (`done.shared`, which stays empty with a single waiter). Between the
test of the flag in `rt_completion_done` and its critical section other callers
may complete and return; that leaves a done which is fresh. `EvInv`: no waiter is satisfied by the set of
events. `rt_event_send` serves the waiters one after the other, from a set that
may become smaller with each; that a waiter who was passed over is not
satisfied at the end either, that an event that is cleared was given to
exactly one receiver, and that after each round what has left the set is the
union of what the clearing receivers so far have got, is shown over the rounds
of that loop.

**Mailbox and memory pool** (`ObjectProofs`). What they store depends on the
objects' own data and not on who is scheduled, so nothing is assumed of the
calls. `MbInv` relates the two offsets and the count of the box and says that a
waiting sender still has its mail; the contents are read from `out` on,
modulo the size. `PoolInv` is `BlocksConserved` with the types.

**Their waiters** (`ObjectProofs`). A caller that is resumed looks again, and
by then somebody else may have taken what it was resumed for, so "nobody waits
while there is something" is false. True is an inequality between what is there
and how many resumed callers have not looked yet, for each list that is not
empty. A call that takes something lowers the first number by one and the
second by at most one; one that adds something resumes a waiter, which raises
both; one that waits has found the first number to be 0. The lemmas for mailbox
and message queue say of a step only which of the three it does (`NoMore`,
`OneLess`, `OneMore`), and the objects' own proofs compare that with their
counts. `MpInv` and `ChannelInv` (which `BoxInv` and `QueueInv` contain) add
what it takes to keep this across detach and initialization: one thread at most
is in the loop that empties the lists, it empties the receivers' first, and no
resumed caller is on its way to an object that is not live. That is what the
application is assumed to wait for before it detaches (section 2).

**Message queue** (`QueueProofs`). Its slots are threaded through one array of
links, and a call has its slot off both lists while it copies, so the lists
cannot be described one at a time: `QueueInv` says that there are two paths
through `next`, from `head` and from `free`, which with the slots in the hands
of threads make up all slots, once each (`SlotsAre`). `HoldersOK` says who holds
a slot: exactly the threads between the two critical sections of a call, no two
the same, and only while the queue is live, which is what detaching waits for.
Taking the first slot of a path and linking one at either end of the other keep
this; the loop of the reset, which hands the queued slots back one by one, is
followed round by round (`Recycled`). Both theorems about slots and waiters then
come from counting: `entry` is the length of the first path, and neither it nor
the number of free slots moves without one of the three steps above. That
`Chain`, which follows the links, returns the path is what turns `QueueInv` into
`SlotsConserved` as the run checks it. For the refinement `MsgsOK` adds what is
in the slots: the queue the abstract channel sees is the data along the first
path, which a sender's copy into its own slot and a reader's copy out of its own
do not disturb.

**Their deadlines** (`ObjectProofs`). A caller that was resumed in vain waits
again, for what is left of its time, and the ticks of its wait are counted where
the code counts them. `RetryInv` says of each caller in the loop that the
deadline is `Remaining` of what it has measured, and of each caller in a list
that its timer is the deadline. A tick brings all three nearer alike
(`SpendIsNearer`); a caller sets its timer to what remains (`RetryWaits`); and
every other step leaves the callers in the loop alone or takes one out of it
(`RetryKept`, `AsideInv`). As the loops of mailbox and message queue are those of
`Retry`, the lemmas serve both.

**Timers** (`TimerProofs`). `Inv` is a conjunction over the state between any two
steps. Lists are without duplicates, sorted, and hold timers of their kind that
exist; `Synced` relates a timeout modulo `TickMax + 1` to the true number of
ticks left, which is between `-MaxLate` and the longest delay, so that the
comparison with half the range is a comparison of those numbers. `TimerOK` says
of each timer that it is listed when it is active, or is being started or fired
by exactly one actor. `StoreOK` says that a flag byte about to be written back
is still what was read, but for the kind: it is that of the timer the timer
thread is firing, which nobody else writes. `ThreadOK` says what the timer thread has read before it
goes to sleep, and `Awaited` that while it sleeps its own timer is due with the
first soft timer, give or take the ticks that came while it computed the delay.

**Heap** (`StorageProofs`). `WellFormed` is `BlocksTile` in a form that can be moved
along with the headers: the successor of a block is the least offset above it
(`Chain`), of two neighbours one is used (`NoHoles`), and `lfree` is a free
block or the end (`FreeOrEnd`). It is not inductive by itself: that `rt_free`
and `rt_realloc` are handed a used block comes from `Owns` and `Moving`.
`Owns` relates the blocks of the application to the used headers, `Moving` says
that a block whose contents are being copied by `rt_realloc` still belongs to
the caller. `usedMem` is a sum over a set; the lemmas on `SumOf` say what
happens to it when a block is added, taken away, or changes its size.

**Ring buffer** (`StorageProofs`). `RingOK`: in the same mirror the writer is
not behind the reader, in the other it is not ahead of it. From it follows what
each operation does to the stored bytes, position by position.

Where a fact calls for induction (the sum of a set, the result of a recursive
function), it is proved from a smallest counterexample: the library's induction
theorems take an operator as a parameter, which the provers cannot instantiate.
`rt_ipc_list_resume_all`, the loop of `rt_event_send`, and the message queue's
`Chain` and `Recycled` are recursive functions over a number for that reason.

### Only model-checked

* Liveness under fairness, which the prover does not reach: `SleepEnds`,
  `RoundRobin`, `WaiterIsServed`.
* `OwnerInherits`, `WakesHighest`: need that a list with flag PRIO is sorted,
  which `control` may undo.
* `ResumesSuspended`: is about programs that resume other threads, which
  `RaceFree` excludes.
* `WorkNotForgotten`: no proof yet; it depends on the work thread's priority.
* `BoostEnds` is an invariant of programs that do not nest mutexes only (run
  `mutexnested`).

## 5. Plan

1. *Done*: `Kernel`, `Scheduler` and their proofs; `Ipc`, `Semaphore`, `Mutex`.
2. *Done*: `Event`, `Mailbox`, `MessageQueue` over `Ipc`, with the abstract
   channel; `Timer`; `MemPool`, `Heap`, `RingBuffer`, `Completion`,
   `WorkQueue`.
3. *Done*: theorems about heap, ring buffer, memory pool, mailbox, message
   queue, semaphore, mutex, completion, event set, timers and the scheduler
   lock (section 4).
4. Theorems left: `OwnerInherits` and `WakesHighest` with sorted lists; the
   work queue.
5. Left of the code worth modelling: data queue, delayed works,
   `rt_thread_delay_until`, the button component.

## 6. Not modelled

The repository is some 860 000 lines, nearly all of it third-party libraries:
LVGL, ST's HAL and CMSIS headers, lwIP, file systems with their code page
tables, libc, and RT-Thread components that the configuration does not build.
They are not this system's logic, so the share of lines the models cover stays
small; of the kernel sources that are built (`scheduler.c`, `thread.c`,
`clock.c`, `timer.c`, `ipc.c`, `mempool.c`, `mem.c`, `idle.c`) nearly every
function that changes state is an action or an operator of a module.

* Devices, drivers, start-up code, formatting and string services, the shell,
  the application's main loop and the author's components: I/O and sequential
  glue over the kernel.
* SMP, signals, slab and memheap are not built; hooks are application code and
  none is set.
* Object registration is one critical section per call and is part of the
  existence of threads and objects.
* Blocking IPC calls made inside `rt_enter_critical` or from a timer callback.
* `rt_thread_delay_until` (`thread.c:558` adds the time that has passed to the
  increment instead of subtracting it), `rt_tick_from_millisecond`,
  `rt_tick_set`.
* Data queue (whose test for a full queue, `dataqueue.c:66`, compares a
  difference of 16 bit indices that C promotes to `int`, so it is wrong once
  `put_index` has wrapped and `get_index` has not), pipe, block ring, wait
  queue, delayed works, creation and destruction of a work queue.
