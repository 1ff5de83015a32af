# The Android kernel parts of the A10 in TLA+

The repository holds the sources of an e-reader: a Linux 2.6.35 kernel with the
Android additions for an OMAP3 board, and u-boot. What is the device's own, and
hard to test, is how it goes to sleep: Android's *opportunistic suspend*, in
`Kernel/android-2.6.35/kernel/power`, changed by the vendor to retry after
errors and to turn wakeup sources into power key events. Beside it stand the
Android drivers on which sleeping depends or which are full of interleavings
themselves: the framebuffer handshake, the alarm driver with its device, the
event devices of the input layer with the wake lock they hold for a reader, the
logger, ashmem and binder. This project models these parts, checks them with
TLC and proves the safety of most of them with TLAPS.

Paths below are relative to `src/Kernel/android-2.6.35`.

## Inventory

| part | state | operations | talks to | hard because |
|---|---|---|---|---|
| suspend workqueue (`kernel/workqueue.c`) | list of work items, pending bits, where the thread is | `queue_work`, `run_workqueue` | runs the functions of the next three parts | an item pending is not queued twice; an item may queue itself while it runs |
| wake locks (`kernel/power/wakelock.c`) | flags and expiry of each lock, `expire_timer`, event count, sleep statistics flag | `wake_lock_init/destroy`, `wake_lock`, `wake_lock_timeout`, `wake_unlock`, `expire_wake_locks`, `has_wake_lock` | queues `suspend_work`; called by everybody | interrupts, timer softirq and threads interleave; signed time differences wrap |
| system suspend (`wakelock.c: suspend`, `kernel/power/suspend.c`, `process.c`, `drivers/base/power/main.c`) | how far the attempt is, its result, the recorded wakeup | `pm_suspend`, freezing, device callbacks, `power_suspend_late`, sleep, resume, thaw, retry | reads `requested_suspend_state`; takes `unknown_wakeup` and, through the power key, an evdev lock | runs for seconds beside everything else and can fail at every step; one error is dropped |
| early suspend (`kernel/power/earlysuspend.c`, `main.c: state_store`) | bits `SUSPEND_REQUESTED`, `SUSPENDED`, handler list | `request_suspend_state`, `early_suspend`, `late_resume`, `register_early_suspend`, `unregister_early_suspend` | holds and releases the main wake lock; queues its two work items | requests come while earlier ones are still being carried out |
| user wake locks (`kernel/power/userwakelock.c`) | one lock per name | writes to `wake_lock` and `wake_unlock` | wake locks | 64-bit nanoseconds become a 32-bit `long` |
| framebuffer handshake (`kernel/power/fbearlysuspend.c`) | `fb_state` and who waits for it | the stop and start handlers, reads of `wait_for_fb_sleep` and `wait_for_fb_wake` | a handler of early suspend | a one-second timeout races a late answer |
| wakeup reason (`arch/arm/mach-omap2/pm34xx.c`, `drivers/mfd/twl4030-irq.c`) | copies of wakeup and interrupt status registers | recording, `omap3_get_wakeup_reason`, clearing | read by `suspend()` | recorded in interrupt handlers, cleared only after an attempt |
| event devices (`drivers/input/evdev.c`, `input.c`) | list of clients, ring of events and wake lock of each, the grab, `exist` and `open`, the handle in the input core | event, open, read, write, grab, release, disconnect | input core; wake locks | an event walks the list of clients under RCU while clients come, go and grab; a full ring looks empty; two parties close the device |
| alarm driver (`drivers/rtc/alarm.c`) | five queues of alarms with one hrtimer each, the offset of the elapsed clock, `suspended`, a wake lock | start, cancel, timer, `alarm_set_rtc`, suspend, resume | hrtimers, RTC, wake locks | setting the time takes two critical sections; timers are handed to the RTC and back |
| alarm device (`drivers/rtc/alarm-dev.c`) | pending, enabled and acknowledged bits, owner, wake lock | the ioctls, `alarm_triggered`, release | alarm driver, user space | an alarm goes off between two ioctls, or inside release |
| logger (`drivers/staging/android/logger.c`) | ring buffer, write head, start head, readers' offsets | write, read, flush, open, release | user space | a writer overtakes readers; a copy fails half way |
| ashmem (`mm/ashmem.c`) | unpinned ranges of each area, LRU list and its count of pages | pin, unpin, shrink, set size, mmap, release | memory reclaim | ranges are cut and merged while the shrinker purges them, and the record of a purge has to survive it all |
| binder (`drivers/staging/android/binder.c`) | transactions, the stack and the list of work of each thread, list and wait queue of each process, one-way calls held back | call, reply, one-way call, read, exit, release | user space | threads and processes die in the middle of nested calls; exclusive wakeups |

The rest of the kernel and u-boot are upstream code or sequential hardware
initialisation; `PROJECT.json` lists them as not modelled.

## Modules

| module | models |
|---|---|
| `WorkQueue` | the single-threaded queue: `worklist`, and `pc`, the place of the worker |
| `WakeLock` | wake locks, the expiry walk, `expire_timer`, time |
| `SystemSuspend` | one attempt to suspend, as labels of the worker |
| `EarlySuspend` | handlers and requests |
| `UserWakeLock` | `/sys/power/wake_lock` and `wake_unlock` |
| `PowerManager` | all of the above composed; the properties and the inductive invariant |
| `SuspendContract` | the abstract specification that `PowerManager` implements |
| `FbEarlySuspend` | the framebuffer handshake |
| `Alarm` | the alarm driver with the RTC, the clocks and suspend |
| `AlarmDev` | `/dev/alarm`, above an alarm driver reduced to "a started alarm goes off" |
| `Logger` | the log ring with its writers and readers |
| `Evdev` | one event device, its clients, the events on their way and the disconnection |
| `Ashmem` | areas, ranges, the LRU list and the shrinker |
| `AshmemPages` | the abstract specification that `Ashmem` implements: what the user of an area is promised |
| `Binder` | transactions, threads, processes, wakeups, exits and deaths |
| `MC...` | model values for TLC |
| `PowerManagerProofs`, `FbEarlySuspendProofs`, `AlarmProofs`, `LoggerProofs`, `EvdevProofs`, `AshmemProofs`, `BinderProofs`, `BinderChainProofs` | the proofs |

A definition called *Mutant* in its comment is never used by a specification.
It is a plausible mistake in the definition that follows it, kept to show that
the property named in `PROJECT.json` would notice it.

### State and steps

* Everything that `wakelock.c` does under `list_lock` is one step, because
  interrupts are off. `left[l]` is `(long)(l->expires - jiffies)`, as the code
  itself computes it; a tick decreases it and wraps it at `-LongMax-1`. The two
  active lists are a set, since a walk meets the locks without timeout first
  and its result does not depend on the order of the others.
* `event` stands for `current_event_num # entry_event_num`: the count is only
  ever compared with the copy taken at the entry of `suspend()`.
* The timer is split into the moment it leaves the timer queue (`run_timers`)
  and the moment its function has `list_lock` (`expire_wake_locks`), so a lock
  can be taken, extended or released in between.
* The worker moves through labels. Everybody else moves between two of them as
  long as the kernel lets it: user space until it is frozen (`TasksRun`),
  interrupt handlers until `suspend_device_irqs` (`DriversRun`), timers and
  `PF_NOFREEZE` threads until the CPU's interrupts are off (`KernelRuns`).
* `off` is the set of handlers whose suspend hook was called last. It is not a
  variable of the program; it records the calls the program makes.
* Which reason `omap3_get_wakeup_reason` reports after a pad wakeup is a free
  choice, so the properties hold for every content of the TWL4030 registers.
* A driver may destroy its lock whenever user space runs, but not while it
  holds it without a timeout. `wake_lock_destroy` would leave nobody to start
  the next suspend; drivers in the tree unlock first.

* `FbEarlySuspend` takes `wait_event` apart: a task looks at the condition, puts
  itself on `fb_state_wq`, looks again and sleeps. `fb_state` is assigned in one
  step and the queue woken in a later one, since the readers take no lock.
* `Alarm` keeps real time, wall time and the monotonic clock. An hrtimer is on or
  off with the expiry it was last given (`alarm_suspend` reads the expiry of a
  timer it has cancelled). A queue is the sequence of its alarms by expiry, as an
  in-order walk of the tree meets them. `alarm_set_rtc` is four steps, `setting.at` the step it
  has come to, and seconds may pass between any two; `lost` counts those that
  pass between reading and setting the wall time. Suspend is two steps, the
  assignment of `suspended` and the rest; the other drivers then take as long as
  they like before the device sleeps (`since`, `slept`).
* `AlarmDev` has one step per section under `alarm_slock`. `handling` records the
  threads that were given an alarm and have not come back to wait. A file is
  waited on by one thread (`WaiterAssumption`), as Android's alarm manager does.
* `Logger`'s buffer is a ring of units, each holding the entry it belongs to and
  its place in it, so a torn or overwritten entry is visible. The loop of
  `get_next_entry` is the least set of counts it goes through. A write is the
  early read of `w_off`, the mutex, one step per reader of `fix_up_readers`, the
  copy and the wakeup. A writer at a reader that was freed stops there.
* `Evdev` passes an event on in a walk: `walk.pos` is the client that comes next,
  found by the links `next` as they are when the walk gets there, unlinked
  clients included (the links `prev` are those of `list_head`). `synchronize_rcu` is two steps, `StartGrace` and the guard
  `Synchronized`: `grace` holds those who wait for the present walk. `Open` looks
  the device up and attaches the client in one step (`evdev.c:263` to `285`), and
  `OpenDevice` leaves out the counts that a failing open of the driver raises and
  lowers again (`input.c:460` to `474`). A section
  of `evdev->mutex` that waits inside is several steps (`evdev.mutex` is its
  owner); the others are one. Clients are blocks of memory, used again after
  `kfree`. `recent`, `lag` and `last` record what was passed on and fetched.
* `Ashmem` counts in pages, with offsets of 32 bits as numbers below `AddrPages`
  that wrap as the code's do, and page numbers and counts up to `SIZE_MAX`. A size
  is counted in pages rounded up: the largest, `AddrPages`, is what `PAGE_ALIGN`
  makes 0, and 0 itself may be set too. `ashmem_pin_unpin` reads the size twice
  before it takes the mutex: `held` is what it may find, the sizes the area has
  had since it was mapped. Everything under `ashmem_mutex` is one step and
  changes the record `ash`; `ASHMEM_SET_SIZE` and `PURGE_ALL_CACHES`, which read
  without the mutex, are two (`call`). `given` and `discarded` record what the
  user asked for and what the shrinker did, page by page: they are the state of
  `AshmemPages`. What a length of 0 asks for is what the driver makes of it, "per
  custom [...] everything onward" (`ashmem.c:594`).
* `Binder` keeps what `binder_lock` protects in the record `k`, and the helpers
  take it and return it changed, as the functions of the driver change it under
  the lock. The steps between which the lock is given up are those of
  `binder_thread_read`: the decision to wait, the sleep, the work. Each process
  has one node, known to all others. `owed` records the answers a thread has
  coming, and `again` the error it has read and will read again. The length of the
  read buffer is a free choice at each test of it, which covers any fixed length;
  the buffer is memory the user may write. Users may issue any command at any time.

## What the runs check

The instances are small on purpose: the conflicts are between *two* locks (one
with and one without a timeout), between the main lock and another, between
two handlers of different levels, two clients, two areas or a chain of three
processes; one more of a kind adds states and no new situation, and the proofs
below cover every number. They also cover locks of type `WAKE_LOCK_IDLE`, which
no run uses.

| run | instance | shows |
|---|---|---|
| `early_suspend` | a user lock, a driver lock, timeouts -1, 1 and 2, `LongMax = 2`, two handlers of different level | handlers are called in level order and all of them; the main lock is only released for a dark device; no request is lost; locks expire, are already expired when taken, and wrap, and the timer's function races interrupts, and still a suspend is never forgotten and none is entered unasked or with a lock held |
| `liveness` | a driver lock that is also taken late, one handler, fairness | requests are carried out or withdrawn; a device without locks keeps trying to suspend; `PowerManager` implements `SuspendContract` |
| `framebuffer` | two drawing threads, signals, timeout, fairness | no wakeup is lost; "stopped" is only said when a thread has stopped; the suspend hook returns; after the last resume everybody draws |
| `alarms` | two alarms of one wakeup queue, one of the other, two wall times, three seconds | no queue with alarms is without its timer; the RTC is set for the earliest alarm, unless the drivers took three seconds to suspend; elapsed time survives setting the clock, but for the seconds between reading and setting it |
| `alarm_device` | a waiting and a setting thread of one file, another process, three types | the wake lock covers alarms not seen and alarms being handled; a closed device is clean |
| `log_ring` | 8 units, entries of one or two, one writer, one reader, 6 writes, failing copies, fairness | readers meet whole entries, in order, never lose the newest, and are woken for it |
| `evdev` | two clients, rings of four, five events, one unplugging | nothing refers to a freed client; a grab is exclusive; events are read in order, the newest are kept and the wake lock is held for them; readers are woken; the device is closed once |
| `ashmem` | an area of three pages or of none and one of the whole address space (four pages, which `PAGE_ALIGN` makes 0), three ranges, an empty range | lists stay sorted, disjoint and exactly counted; the kernel's idea of what is unpinned is the user's; `Ashmem` implements `AshmemPages`: only unpinned pages are discarded and a pin tells of it |
| `binder_calls` | three processes of one thread, four transactions, failing calls, short reads, exits, deaths | no `BUG_ON` is hit; every call is answered once, but for an error that fills the buffer; nobody waits for a call that is lost; no stack or list keeps a freed transaction |
| `binder_pool` | a process of one thread and one of two, one-way calls, signals | nobody sleeps through work of its own or, while others are busy or interrupted, of the process; one-way calls go out one at a time |
| `late_lock` (violation) | a late lock | a lock taken after `power_suspend_late` does not stop the suspend |
| `log_failed_copy` (violation) | two writers, a failing copy | the write head goes back behind another writer's entry |

The type invariants `TypeOK`, `FbTypeOK`, `AlarmDevTypeOK` and `EvdevTypeOK`, and
`PreventingCharged`, are proved below for every instance and are not repeated in
the runs.

`LongMax` is 1 or 2, so that times wrap within the instance; all timeouts lie in
that range. No counter of `PowerManager` needs a bound: time is relative, the
queue holds each item once, and the event count is one bit. `FbEarlySuspend` and
`AlarmDev` are finite too. `Logger` bounds the number of writes (`MaxWrites`:
enough to go round the ring of 8 one and a half times), `Alarm` the time
(`MaxTime`: an alarm can be set, slept for, and go off after the clock was set
across it, and drivers can suspend for three seconds).

`Evdev` bounds the events of the device (`MaxEvents`: one more than a ring has
slots, so that it wraps and is overrun with three events unread). `OneRing` lets one
ring at a time hold more than one event: the rings of two clients share nothing,
and a walk still passes its first event to both. `Ashmem` bounds the sizes, the ranges that exist (`Ranges`: a pin
in the middle of a long range makes two, and the other area has one) and the
empty ones (`MaxEmpty`), and one call outside the mutex at a time. `Binder`
bounds the transactions (`Txns`) and the work a thread leaves unread while it
goes on calling (`MaxTodo`); four transactions are a nested chain through three
processes with a reply under way. Clients, ranges, transactions and the
processes of `binder_calls` are interchangeable, which the runs use as symmetry.

Some constants let the passing runs leave out what is known not to hold, and
only that: `log_ring` has one writer (with two, `log_failed_copy`),
`SettimeFails = FALSE` lets `do_settimeofday` succeed, the alarms of `alarms` are
not on system time, `NoMemory = FALSE` lets `range_alloc` succeed, and
`AsyncExit = FALSE` keeps a thread from exiting with a one-way call on its own
list. See below for what happens otherwise.

Deadlock is checked in every run of `PowerManager`, `FbEarlySuspend` and
`AlarmDev`: the clock and user space can always move. `Logger` and `Alarm` end at
their bounds; an unplugged device with all files closed, an area nobody opens
and processes that have all died are ends of `Evdev`, `Ashmem` and `Binder`.

### Fairness

`Fairness` asks weak fairness of the worker (a kernel thread on a kernel whose
tasks all run or are frozen), of the clock interrupt, and of the two steps of
the timer softirq. Nothing is assumed of user space, drivers and wakeup
sources: they may never act again. In particular the freezer's loop and the
device callbacks may fail every time.

`FbFairness` asks weak fairness of the worker, of the drawing threads (which
loop over the two files) and of the second that passes; nobody need suspend,
resume or send a signal. `LoggerSpec` asks weak fairness of the writers and the
readers inside a call; nobody need begin one.

### The violations

* `late_lock`: `include/linux/wakelock.h:22` says a wake lock prevents the
  system from entering suspend. The last look at the locks is in
  `power_suspend_late`, a callback of `dpm_suspend_noirq`; the CPU's interrupts
  are turned off later (`suspend.c:164`). In between timers and unfrozen
  threads run; `do_softint_usb_irq` takes `usb_lock` on such a thread. The
  lock is held while the system sleeps. `SleepOnlyUnlocked` states what is
  true: only such *late* locks can be held then.
* `log_failed_copy`: `logger.c:328` reads the write head before the mutex that
  protects it (`logger.c:36`), and puts it back over the entry of another writer
  when the copy of the payload fails.

### Met while modelling

Not stated as properties of a run; each follows from the lines named, and the
first eleven are seen when the constant or the property named is changed.

* `alarm.c:391` indexes `alarms` with a mask. The mask of
  `ELAPSED_REALTIME_WAKEUP` is 4, the index of `SYSTEMTIME`, whose timer nothing
  sets again: `TimerArmed` fails for an alarm with `Type[a] = SYSTEMTIME`.
* `alarm_set_rtc` moves the offset of the elapsed clock before the wall time, in
  another critical section; `android_alarm.h:45` says the elapsed clock is not
  disrupted when the wall time is set. `alarm_get_elapsed_realtime = real` fails
  in between. If `do_settimeofday` refuses the time the offset even stays moved
  (`SettimeFails = TRUE`: `ElapsedKept` fails).
* The seconds between reading the wall time (`alarm.c:265`) and setting it
  (`alarm.c:276`, without the lock) are lost to the elapsed clock, which
  `android_alarm.h` says is preserved: `ElapsedKept` fails without `lost`.
* The RTC alarm is at least two seconds off when `alarm_suspend` returns, and holds
  the device up for one second when it goes off (`alarm.c:368`). Other drivers may
  take three seconds each (`drivers/base/power/main.c:615`). If they do, the device
  falls asleep with the RTC alarm spent and nothing to wake it for its alarms:
  `RtcArmed` fails without its last disjunct.
* `ASHMEM_SET_SIZE` takes any size, and races `mmap`. With a size of 0, or one in
  the last page of the address space, `PAGE_ALIGN(asma->size)` is 0 and unpinning
  offset 0, length 0 makes a range up to `SIZE_MAX` (`ashmem.c:608`), whose size
  wraps to 0: `lru_count` is 0 for it, and the shrinker, given to it, truncates
  the whole file (`ashmem.c:364`). `AshmemTypeOK` and `ListsExact` say so.
* With room for one error, `binder_thread_read` gives a thread `return_error2` and
  leaves it set (`binder.c:2221`), so that the next read gives it again:
  `AnsweredOnce` fails without `again`. With room for none, a thread whose stack or
  list is not empty does not sleep: the error counts as work.
* `logger_release` takes no mutex (`logger.c:54` says the reader is protected by
  it): the reader a writer looks at can be freed, and
  `cursor # NoReader => cursor \in Range(readers)` fails.
* When `range_alloc` fails, `ashmem_pin` and `ashmem_unpin` have already deleted
  ranges or go on to cut one, and pages become pinned, or lose the record of
  their purge, that the call was not about (`NoMemory = TRUE`: `OnRecord`
  fails).
* A thread that exits with a one-way call on its list leaves
  `has_async_transaction` set with no buffer to free: the node never gets another
  one-way call (`AsyncExit = TRUE`: `OneWaySerial` fails).
* Unpinning at the end of an area with length 0 makes a range without a page
  (`MaxEmpty`), around which `ashmem_get_pin_status` finds "unpinned" pages
  (`ashmem.c:558` says "if _any_ pages in the given interval are unpinned").
* A ring that is overrun by a full turn looks empty; the wake lock of its client
  is then held, up to its timeout, with nothing to read (`LockUntilRead` says
  exactly when).
* `evdev_open` frees a client after a failure without `wake_lock_destroy`
  (`evdev.c:297`); its lock stays on the list of inactive locks.
* `handle->open` goes to -1 when a device is closed after
  `input_disconnect_device`, so that events reach the handler again, although the
  comment at `input.c:549` says that they will not. `NothingDangles` shows that
  nobody is hurt.
* `range_alloc` allocates with `GFP_KERNEL` under `ashmem_mutex`, and the shrinker
  that the allocation may call takes the same mutex (`ashmem.c:134`, `360`).
* A written timeout whose number of jiffies is a multiple of 2^32 becomes a lock
  without timeout (`userwakelock.c:75`).
* A thread asleep in `wait_for_fb_wake` through a quick resume and suspend lets
  the suspend hook wait its full second although nobody draws
  (`fbearlysuspend.c:41`).
* `fix_up_readers` skips the length of the write counted from the reader and not
  from the write head, so a reader loses more than was overwritten
  (`logger.c:271`).

## What is proved

For every set of locks and handlers, every assignment of levels, every width of
a `long` and all timeouts, from the assumptions named in the modules
(`LocksAssumption`, `DriverLocksAssumption` and so on: the kernel's own two
locks are of type `WAKE_LOCK_SUSPEND` and not used by drivers; timeouts fit a
`long`; levels are natural numbers):

* `Invariance`: `Spec => []IInv`;
* from it `TypeCorrect`, `SleepsUnlocked`, `SleepsWhenOff`, `MainLockSafe`,
  `SuspendNotLost`, `RequestNotLost`, `LevelsOrdered`, `HandlersAgree`,
  and `StatisticsRight` (the sleep statistics charge the locks that prevent
  suspend, and only while the main lock is not held);
* `ImplementsContract`: `Spec => ContractSpec`.

The argument. None of the properties is inductive alone; `IInv` adds

* `TimerCoversLocks`: while no lock without timeout is held, the timer is due
  no earlier than the last running timeout, and no timeout that is over can
  wrap around before the timer runs. This is what makes the timer's function
  find `has_lock = 0` in the end, and it needs the bound on how late the softirq
  is (the guard of `Tick`);
* `SuspendReArms`: inside `suspend()`, as long as no event was counted, the
  function itself will take `unknown_wakeup`; once one was, the lock that
  counted it has set the timer, or is held without timeout, or has queued the
  work. This covers the dropped error of `suspend_enter`;
* `HandlersSorted`, `HandlersCalled`: the list is sorted and without
  repetition, and the handlers that are off are a prefix of it whose length is
  the worker's position while `early_suspend_lock` is held;
* `MainLockState`, `NoLostRequest`: which work item is pending for each value of
  `state`;
* `LateUnlocked`: after `power_suspend_late` returned 0 only late locks are taken.

The first part of `PowerManagerProofs` shows what each operation on locks does
to its part (`LockStep`), starting from the value of the walk
(`HasWakeLockValue`, `ExpiredLocks`); the second has one lemma per action, which
shows `IInv'` and that the step is one of the contract.

For the framebuffer handshake, for any number of drawing threads:
`FbTypeCorrect`, `WakeupsNotLost` and `AnswersTrue` from `FbInvariance`. The two properties and the
type invariant are inductive together: the types say who can be on the wait
queue, and with that a task that goes to sleep has either seen its condition
false or is still to be woken by the step that made it true.

For the alarm device, for any number of threads, files and types, if one thread
waits on a file (`WaiterAssumption`): `DevTypeCorrect`, `PendingAlarmsLocked`,
`LockHandedOver` and `ClosedIsClean` from `DevInvariance`. Its invariant adds that a thread inside a
wait, or handling an alarm, uses the owner's file while it is not being closed
(`UsersOwn`), so `alarm_release` takes the lock from nobody; that a held lock has
something pending or unacknowledged (`HeldForSomeone`), so `alarm_release`, which
looks at just that, leaves no lock; and which alarms the release has already
cancelled (`ClosingDone`).

For the event device, for any number of clients, any size of their rings and any
number of events: `TypeCorrect`, `GrabIsExclusive`, `ReadersNoticed` and
`DeviceClosedOnce`, from `Inductive`: `EvdevSpec => []EvInv`. `GrabInv` says who
holds `evdev->mutex` and gives the one reason for an event to be on its way to
others while `evdev->grab` is set: the grab is not complete, and its owner is
among those that wait for the end of this very walk. `OpenInv` ties the three
counts together: while the device exists, `evdev->open` is the number of clients
between a successful open and `evdev_close_device` (here finite sets and their
cardinality come in), the input core has one user exactly if that is not 0 and
the disconnection has not closed the device, and the handle's count is 0 or 1 and,
after `input_disconnect_device`, 0 or -1. `ExistInv` ties `exist` to the
disconnection, which makes the release and the disconnection agree on who closes.

For the clients of the event device, over `EvInv`: `NoDangling`, `NewestUnread`
and `LockHeld` from `ClientInvariance`: `EvdevSpec => []BufInv`.

* `ListInv`: `next` and `prev` are inverse on the list, and what an event may have
  come to, the list and the clients taken off it during this walk (`Visible`), is
  closed under `next`. `Reach` is the least set closed under the links, so that
  no recursion is needed: `Visible` is a set that contains it.
* `WalkInv`: an event is at a client it may have come to, or at a grabber that
  still grabs or waits in `grace` for the end of this walk.
* `RingInv`: the unread slots of a ring, modulo its size, are the last events of
  `recent`, which rise, and `lag` counts those passed on since the last was read.
* `OrderInv`: links lead from older to newer clients, and those from the walk's
  position on have not been passed the event: it comes to no client twice.

For the alarm driver, for any alarms and all times: `AlarmInvariance`, and from it
`TimersArmed`, `RtcAlwaysArmed` and `ElapsedTimeKept`. `AlarmInv` says that queues
are ordered and without repetition (so the first alarm is the earliest), that a
queue which is not stopped has its timer on for its first alarm or earlier, that a
suspended wakeup queue still has the expiry in its timer until the RTC is set from
it, and that the RTC, once set, is for the first wakeup alarm or earlier, at least
two seconds off (`RtcSet`), so that one that has gone off while the drivers suspend
holds the lock until the third second. A device that fell asleep before that has
its RTC set; nothing is claimed for one that took longer. `TimersArmed` assumes that no alarm is on `SYSTEMTIME`
(`alarm.c:391`, above); `WallTimersArmed` is what holds without that assumption.
`ElapsedTimeKept` assumes `SettimeFails = FALSE`; `ElapsedInv` follows the seconds
that pass before the time is set in `lost`.

For the logger, for any size of the log, any lengths of entries and any readers:
`EntriesWhole`, `NewestNotLost` and the action property `ReadsInOrder`, from
`LoggerInvariance`: `LoggerSpec => []LogInv`. They assume `Quiet`, one writer or no
failing copy; `log_failed_copy` shows that they fail otherwise. What lies between
an offset and the write head is a *run*: a function from the distance to the
cell. `WholeRun` says that a run is whole entries with rising numbers that ends
with the newest one. Lemmas about runs (`RunDrop`, `RunExtend`) know nothing of
the ring, and lemmas about the ring (`Moved`, `Advanced`, `Crossed`) nothing of
entries. `NextEntry` shows that the walk of `get_next_entry` ends, at the
beginning of an entry, at least the length of the write on and before the write
head: here the log has to be four times as long as an entry. `WriterOk` says
which readers `fix_up_readers` has passed and that these are out of the way,
although readers leave the list without the mutex.

For ashmem, for any areas, sizes (0 and those that `PAGE_ALIGN` makes 0 among them)
and number of ranges: `AshmemTypeCorrect` and
`ListsStayExact`, whatever allocations fail, and, as long as none does
(`~ NoMemory`), `PagesOnRecord` and the refinement `AshmemImplementsPages`. The
assumption is needed: when `range_alloc` fails, `ashmem_pin` drops the upper part
of a range it splits, and `ashmem_unpin` the ranges it has merged.

* `StoreInv`, on the record `ash`, is what the walks rely on: each list holds
  exactly the ranges of its area, once each, from the highest pages down and
  without overlap (`ListOf`, `Descends`), the LRU list those that are not purged,
  and `lru_count` is the cardinality of the set of their pages modulo
  `SIZE_MAX + 1` (`LruPages`; the sum of the code is a count here, so that no
  induction over data is needed, and `UnsignedPlus` and its companions carry it
  through the wrapping additions and subtractions). `Recount` says what changing one range does to it.
  `DelKeeps`, `ShrinkKeeps`, `AllocKeeps` and `PurgeKeeps` show that each
  operation on one range keeps it.
* A walk over a list is a recursive function. `ReleaseKeeps`, `ShrinkerKeeps`,
  `UnpinKeeps` and `PinKeeps` show what it has done after each turn, by an
  induction that takes the smallest turn for which it fails (`Turns`). After `n`
  turns of a pin, the ranges before position `n` have no page of the interval and
  those after it are as they were (`PinSoFar`); in the case that splits a range,
  the split is brought into an order in which every state in between is sound
  (`SplitCommutes`: the code allocates the upper part while the range still has
  those pages). An unpin has grown the interval to the hull of what it has deleted, which
  covers the same pages (`Going`), and inserts it where everything before is above
  and everything after is below (`Behind`, `Alone`).
* `Given` and `Taken` say what the whole walk did to the pages of the area
  (`Covered`, `PurgedAt`) and that other areas are untouched (`Apart`). The
  invariant `AshmemInv` adds that ranges belong to open areas (`Owned`) and end inside the
  largest size these may have, or at `SIZE_MAX` (`InArea`), although `ASHMEM_SET_SIZE` may
  change the size of an area that has just been mapped, between any two looks at it
  (`Held`). `Recorded` ties the pages of the ranges to the user's record;
  it needs `~ NoMemory`, and with it each step is one of `AshmemPages`.

For binder, for any processes, threads and transactions, whatever commands users
write and whoever exits or dies: `BinderTypeCorrect`, `QueueStaysExact` and
`NobodySleepsThroughWork` (`WorkNoticed`), from `BinderInv`; `NoBugIsHit`
(`NoBug`), `CallsAnsweredOnce` (`AnsweredOnce`), `NoCallerLeftBehind`
(`NobodyOrphaned`) and `OneWayCallsInTurn` (`OneWaySerial`), from `ChainInv`. The
last has the hypothesis `~ AsyncExit`, the case named under "Met while
modelling"; the others need nothing beyond `BinderAssumption`: finitely many
transactions and threads, a process for every thread, and names for "no thread",
"no transaction" and `BINDER_WORK_TRANSACTION_COMPLETE` that are not threads or
transactions themselves.

* `Kernel` is the type of what `binder_lock` protects. It is inductive without
  anything about the shape of stacks: `FailedReplyKeeps`, `LeaveAllKeeps`,
  `ReleaseWorkKeeps` and `FreeThreadsKeeps` take the walks of an exit and of a
  death turn by turn (`Iterated`) and hold for whatever they meet on the way.
* `Quiet(K, L)` says that nobody who waits in `K` has got work or an error in `L`
  without being taken off the queue. It is transitive, so it passes through these
  walks; whoever is told of a failed reply is woken in the same turn.
* `LineOk`: `proc->wait` has each thread at most once, and only threads of the
  process that wait for its work.
* `Ready(K, A, F, p)` is the state around a wakeup: every process but `p` has
  noticed its work. `WakeProcKeeps` shows that waking the first of the line makes
  it `Noticed`: either the line is empty, or the thread that is popped is the one
  that is up. A command leads from `Noticed` to `Ready` and ends in the wakeup
  (`CallKeeps`, `OneWayKeeps`, `ReplyKeeps`). A thread that was up and leaves, by a
  signal or with the work in its hands, also leads to `Ready`, and the wakeup at
  the end of the ioctl (`AfterRead`) or in `abort_exclusive_wait` makes up for it;
  one that goes back to wait is up itself until it has looked again
  (`RetryKeeps`).

The other four (`BinderChainProofs`) speak of chains of calls of any length, linked through
transactions that several threads own in part and that each exit takes apart.
Their invariant `ChainInv` says that some function `G` files every transaction:
on one list of work (`Todo`, `Ptodo`, `Async`), or nowhere when it is free or was
delivered.

* `Anc(P, t, s)`: call `t` is `s` or one of the calls that `s` was made to serve,
  where `P` is `from_parent` (`Parents`). It is defined through sets closed under `P`, so
  that its laws (`AncTrans`, `AncUp`, `AncDown`, `Comparable`, `LeafBelow`) need no
  induction.
* `Links`: a call serves one delivered to the thread that made it, at most one
  call at a time serves another, and there are no cycles. `Ends`: callers and
  callees are alive or taken out, and a delivered call without a callee has a call
  that serves it.
* `Tops` and `Unders`: the calls a thread made (`Out`) and is to answer (`In`) are
  all in the chain of the top of its stack, `to_parent` leads from each to the next
  of them, and what a thread has been given last it has not passed on. This is
  where nested calls through the same thread, and the search of
  `binder_transaction` for a thread that waits further up (`TargetThread`), meet.
* `Filed`, `Listed`: which transactions may be on which list, each on one and
  once; a call is put on a thread's own list only while the thread waits further
  up in its chain. `Errors`: there is always room for an error code.
  `Serial`: at most one one-way call to a process is on its way or held by the user.
* `Kept` adds that each live thread is owed (`Still`, which is `owed` with what it will
  be given `again`) what it is due (`Due`): the calls it made, the replies on its list,
  its error codes.

`Good` is this invariant for a state and the threads and processes that are
still to be looked at, so that an exit or a death, which takes the stacks apart
call by call and thread by thread, keeps it with fewer threads after each turn.
`StackOwn` shows that walking a stack finds exactly `Out` and `In`, and
`ChainReaches` that walking up from a call finds exactly `Anc`: as many turns as
there are transactions are enough. `Lowest` gives the end of a chain, where
somebody alive has the call a caller waits for.

Only model-checked: the liveness properties, since fairness is out of the
prover's reach.

## Plan

Done: wake locks, early suspend, system suspend, user wake locks, their
composition, the contract, the proofs of safety and refinement; the framebuffer
handshake, the alarm driver, the alarm device, the event device, the logger and
ashmem with its contract and binder's transactions, with proofs of every safety
property the runs check.

1. Proofs: action properties of `PowerManager` (a step may never take a lock
   from its holder before its timeout).
2. `AlarmDev` over `Alarm`: the device's assumption on the driver as a refinement.
3. `WakeLockLists`: the two active lists as sequences, as the code keeps them,
   shown to implement `WakeLock`.
4. Binder's reference counts and death notifications, as a module beside
   `Binder`; its buffer allocator as a pure algorithm.
5. `WakeupReason`: the register copies of `pm34xx.c` and `twl4030-irq.c` and
   the reason read from them, composed with `SystemSuspend`.

## Not modelled

Hibernation, the suspend test facility, the order of devices among themselves,
`/proc/wakelocks`, console early suspend (not built for this board); of evdev,
`poll`, `fasync`, `flush`, the other ioctls, a failing `evdev_connect` and the
reference counts of the device; of ashmem, names, protection masks, `read` and
`llseek`; of binder, reference counts, death notifications, buffers and `mmap`,
file descriptors, priorities, the accounting of loopers, `poll` and calls to the
own process, and read buffers that cannot be written; and everything that
`PROJECT.json` lists as `not_modelled`, with the reason there.
