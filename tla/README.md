# Verification of Mseastar2

Mseastar2 is a single-file re-implementation of the Seastar runtime: a
share-nothing, one-reactor-per-core framework with futures, timers, cross-core
message queues, semaphores, an I/O queue, a thread pool for blocking calls, a
per-core memory allocator, streams and sockets. The live code is
`src/include/future/future_all11.hh` (HH below), `future_all11.cc` (CC) and
`future_all11.tpp` (TPP) with the helpers they include; `future_all10.hh`,
`timer/timer_all*.hh`, `future/{future,promise}.hh`, `mem/` and
`task/reactor_demo*` are earlier versions, commented out or not built.

This directory holds TLA+ specifications translated from that code, TLC
configurations that check them on small instances, and TLAPS proofs.

## 1. Inventory

| # | Component | State | Operations | Interacts with | Hard because |
|---|-----------|-------|------------|----------------|--------------|
| 1 | Cross-core ring `spsc_queue` (HH 6571-6643) | `_head`, `_tail`, `_buffer` | `push`, `pop` | two cores without a lock | stale indices, data race, wrap-around |
| 2 | Cross-core calls `smp_message_queue`, `smp` (HH 6645-6745, 7034-7133, 11169-11255; CC 459-490, 977-1050, 1183-1245) | batches, two rings, in-flight counter per pair of cores; `_sleeping` per core | `submit_to`, `process_incoming`, `respond`, `process_completions`, `poll_queues`, `maybe_wakeup` | reactor loop, futures | lost wake-up, full rings, partial flushes |
| 3 | Timers `timer`, `timer_set` (HH 1621-1880, 9725-9905, TPP 87-124, CC 1298-1373) | per timer: expiry, period, armed/queued/expired; radix buckets, `_last`, `_next`; the kernel timer | `arm`, `rearm`, `cancel`, `insert`, `remove`, `expire`, `complete_timers` | signals, callbacks that arm and cancel | callbacks change the set while it is processed, deadline cached in `_next`, kernel timer armed once |
| 4 | Low-resolution clock and pollers for it (HH 9785, 6511, 10481) | `_now`, `_lowres_next_timeout` | `update`, `do_expire_lowres_timers`, interrupt mode | timers, sleep | stale clock, sleep with a timer due |
| 5 | Futures and promises (HH 1921-2730, 9712-9915, 11204; TPP 4-27) | `future_state`, the `_promise`/`_future`/`_state`/`_task` links | `get_future`, `set_value`, `set_exception`, `then`, `forward_to`, moves, destruction | task queue | every order of set, attach, move and destroy; broken promises |
| 6 | Future utilities (HH 7610-8250) | loop and join state | `repeat`, `do_until`, `parallel_for_each`, `when_all`, `map_reduce`, `with_timeout` | futures, tasks | partial failure of many futures, late answers |
| 7 | `basic_semaphore`, `expiring_fifo` (HH 4185-4380) | count, broken exception, FIFO of waiters with timers | `wait`, `signal`, `consume`, `try_wait`, `broken` | timers, futures | a time-out racing a grant, starvation of small requests behind big ones |
| 8 | `condition_variable` (HH 4432-4482) | semaphore of count 0 | `wait`, `signal`, `broadcast`, `broken` | semaphore | lost notifications |
| 9 | `gate` (HH 7525-7560) | count, stopped promise | `enter`, `leave`, `close` | futures | close racing leave |
| 10 | `shared_future` (HH 6900-7028) | original state, list of peers | `get_future`, resolve | futures | resolution with many and late readers |
| 11 | `fair_queue`, `io_queue` (HH 4486-4675, 9800; CC 60-130) | shares, accumulated costs, heap of classes, capacity semaphore | `queue`, `execute_one`, `register_priority_class` | semaphore, submit_io, smp | order of the heap, renormalisation, capacity never leaked |
| 12 | System-call thread (HH 5299-5345, 5825-5855, 10352-10460, 7156) | two rings, `_main_thread_idle`, `_queue_has_room` | `submit`, `work`, `complete` | a second thread, signals | Dekker flag against the queue, bounded queue |
| 13 | Reactor loop, pollers (HH 5955-6195, 6333-6570, 10414-10518; CC 490-637, 847, 1686-1710) | task queue, pollers, signals | `run`, `run_tasks`, `poll_once`, `sleep`, registration | everything | registration from within a poll, sleep protocol |
| 14 | Signals (CC 862-927) | pending bits, handlers | `handle_signal`, `poll_signal`, `action` | kernel | handler races poll |
| 15 | Execution stages (HH 2775-2905, 3055-3115) | per-stage queue, list of stages | `operator()`, `flush`, `poll` | futures | flush order, work left behind |
| 16 | `thread` (stackful) (HH 7348-7520; CC 930-1296) | context stack, yielded list, `_done` | switch in/out, `yield`, `join` | reactor loop | who runs when, joined exactly once |
| 17 | Memory allocator (HH 8486-9700) | page spans, buddy lists, small pools, cross-cpu list, reclaimers | `allocate`, `free`, `free_cross_cpu`, `drain` | all cores | splitting and merging, concurrent cross-core free |
| 18 | AIO (CC 1671-1760, HH 9822) | `_pending_aio`, context semaphore | `submit_io`, `flush_pending_aio`, `process_io` | io_queue, kernel | partial submission, errors |
| 19 | epoll backend, `pollable_fd` (CC 1560-1670, HH 6361) | requested/known/installed events, two promises | `readable`, `writeable`, `abort`, `wait_and_process` | kernel | speculation, stale known events |
| 20 | Streams (HH 3146-3215, 11257-11360) | producer and subscriber links | `produce`, `listen`, `close` | futures | order of start, close and destroy |
| 21 | input/output streams, sockets, files (HH 4680-5800, 9917-11165) | buffers, batch-flush list | `read`, `write`, `flush`, `accept`, `connect` | epoll, futures | batching flag against close |
| 22 | `deleter`, `temporary_buffer`, `packet`, `shared_ptr` (HH 526-700, 3270-4160; `util/shared_ptr.hh`) | reference counts, chains | `share`, `append`, `trim`, `release` | – | ownership chains |
| 23 | Resource allocation, start-up, options (resource.cc, CC 217-455, app/) | topology, barriers | `allocate`, `smp::configure` | threads | sequential; barriers |
| 24 | Logging, formatting, sstring, posix wrappers, tests | – | – | – | pure I/O or data |

## 2. Correctness properties by component

1-2. Nothing lost, duplicated, reordered or overwritten; no data race; no lost
wake-up; every call answered. 3-4. No timer fires early or twice per arming, no
armed timer is forgotten, the kernel timer is never later than the first
deadline. 5-6. A continuation runs exactly once, with the value; no link
dangles after a move; loops and joins resolve once, after all their parts.
7-10. Units are conserved, waiters are served in order, a waiter is resolved
exactly once even when its time-out races a grant; a gate opens its close
promise once, after the last leave. 11, 18. Units of capacity and aio contexts are given back exactly once, every
queued request is served and answered although the kernel takes only part of a
batch. 12. Every blocking call is answered and its answer is noticed by a
sleeping reactor. 13-14. The list of pollers survives pollers that come, move
and go while it is walked; a reactor does not sleep with work it could have
seen. 16. A thread is woken once per turn it gave up, and every switch comes
back. 17. Every page belongs to one span; free spans are merged; every object of
a pool is in one place; cross-core frees are neither lost nor doubled. 19. A
future that waits for an event is one the event will find. 20. Neither end of a
stream keeps a pointer to an end that is gone. 22. An action is carried out
once, after its last owner.

## 3. Plan

Order, most important behaviour first. A line is done when it is marked ✔.

| Step | Modules | What | Status |
|---|---|---|---|
| 1 | `BoundedFifo`, `SpscQueue` (proofs in `Objects_proof`) | the lock-free ring implements a FIFO | ✔ checked and proved |
| 2 | `RemoteCalls`, `SmpQueue`, `SmpQueue_proof` | calls between cores over the rings, with the sleep protocol | ✔ checked and proved |
| 3 | `Alarms`, `Timers`, `Timers_proof` | timers implement alarms | ✔ checked and proved, on either clock |
| 4 | `Semaphore`, `CondVar`, `Semaphore_proof`, `OneCore_proof` | waiting with time-outs | ✔ checked and proved |
| 5 | `Channels`, `Futures`, `Futures_proof` | promises and futures implement channels | ✔ checked and proved |
| 6 | `Gate`, `SharedFuture`, `Joins`, `Objects_proof` | `gate`, `with_gate`; `shared_future` with time-outs; `parallel_for_each`, `when_all`, `map_reduce` | ✔ checked and proved (`with_timeout` cannot be instantiated, section 8) |
| 7 | `IoQueue`, `Objects_proof` | classes, capacity, `submit_io` and partial submission, composed | ✔ checked and proved |
| 8 | – | the system-call thread | not possible: the code that would submit to it is missing (section 8) |
| 9 | `Pages`, `CrossFrees`, `Pages_proof`, `OneCore_proof` | spans, merging, small pools; cross-core frees | ✔ checked and proved |
| 10 | `Reactor`, `Threads`, `LowresTimers`, `Reactor_proof` | pollers that register from within a poll, signals, sleep; stackful threads; timers of the low-resolution clock | ✔ checked; reactor and threads proved (execution stages cannot be constructed, section 8) |
| 11 | `Epoll`, `Streams`, `Deleters`, with proofs in `Reactor_proof`, `Objects_proof` and `OneCore_proof` | event flags against promises; the ends of a stream; chains of owners | ✔ checked and proved |

Each module has one action per operation and, where a caller can observe a
promise that is simpler than the code, an abstract module beside it. Components
that do not touch each other's state share a run: a variable `subject` (`clock`
for the timers) says which of them a behaviour is about, the others keep their
initial state, and the number of states is the sum, not the product
(`MC_OneCore`, `MC_Objects`, `MC_Reactor`, `MC_Timers`).

Every safety property, action property and refinement of the passing runs is
proved; liveness stays with TLC (section 6).

## 4. The modules and the code

### `SpscQueue` (abstract: `BoundedFifo`)

One variable per index and one per *view* of an index: `head`/`headSeen`,
`tail`/`tailSeen`. A release store becomes visible to the other core in its own
step (`PublishTail`, `PublishHead`), so every acquire load that C++11 allows
occurs. `push` is `PushStart` (its two loads and the test), `PushWrite` (the
slot) and `PushStore` (the release store); `pop` likewise. A call that fails
changes nothing and is no step. The batch form `push(begin, end)` is the loop
over `push` and is what `SmpQueue` uses. `Contents` is the refinement mapping:
the slots between `head` and `tail`. The module's own names carry the prefix
`ring`/`Ring` (`RingInit`, `RingNext`, `RingTypeOK`) so that it can be extended
beside another one.

### `SmpQueue` (abstract: `RemoteCalls`)

A queue is an ordered pair of cores `<<to, from>>`, as `smp::_qs` is indexed.
Its rings are the bounded FIFOs of step 1, with the part of them that the other
side sees. The variables `pc`, `mode`, `peer` and `waking` say where each core is in
`reactor::run`, `reactor::sleep`, `smp::poll_queues` and
`lf_queue::maybe_wakeup`; the steps are the accesses that another core can see:
`LoadSleeping` and `ClearSleeping` are the plain load and store of `_sleeping`,
`Barrier` is the `membarrier`-like `mprotect` that flushes the store buffers of
all cores, `TryLock`/`SetSleeping`/`EndLastPoll`/`Interrupted`/
`ExitInterruptMode` are `smp_pollfn::try_enter_interrupt_mode`,
`exit_interrupt_mode` and what `sleep` does between them. `PollFlushResponses`,
`ProcessIncoming`, `PollFlushRequests` and `ProcessCompletions` are the four
parts of one turn of `poll_queues`. A function called on another core either
answers at once or waits for an event (`deferred`, `Event`) and answers from a
task (`Respond`). Order inside a queue is part of `RemoteCalls`; that responses
may come in another order than calls is too. Cores are numbered (`CoreAssumption`),
each has a finite program of calls to others, and no two calls are the same
request (`ProgramAssumption`).

### `Timers` (abstract: `Alarms`)

`timer` holds the members of every timer; `buckets`, `nonEmpty`, `last`, `next`
are the radix queue; `expired` is `_expired_timers`; `deadline` is the kernel
timer and `signal` the pending bit of SIGALRM. `insert`, `remove`, `expireList`
and `expireSet` are `timer_set`'s functions as operators, with recursive functions for
what loops over a list or over buckets computes (`Only`, `Above`) and leading bits as quotients by
a power of two (`Leading`, `Power`). `complete_timers` is
cut at the callbacks: `StartExpiring`, then `Fire` and `EndCallback` for each
timer, then `EndExpiring`; between `Fire` and `EndCallback` user code arms and,
when `CallbacksCancel`, cancels, rearms and destroys timers. `Crash` is the
erase through `expired_it`, which nothing assigns: the code has undefined
behaviour there and the model stops.

### `LowresTimers` (abstract: `Alarms`)

Extends `Timers`: the set, its callbacks and the user's operations are those of
the steady clock; what differs is that no kernel timer exists. `deadline` is
`_lowres_next_timeout`, `now` is `lowres_clock::now()`, which `TimePasses` lets
lag and jump. `LowresStartExpiring` is a poll that finds the clock *past* the
deadline, `LowresEndExpiring` what `complete_timers` calls at its end (the new
deadline, or none), `LowresSleep` is `try_enter_interrupt_mode`, which arms `_nearest_wakeup` and
refuses when a deadline is reached, `Awake` is that wake-up.

### `Semaphore` and `CondVar`

`list` holds the entries of the `expiring_fifo` with their payload flag, `size`
its `_size`. `signal()` is a loop; each turn is a step (`Grant`), and nothing
else runs until `EndSignal`. A waiter whose promise was resolved goes on in a
step of its own (`Resume`), as its task does. `Release` is the destructor of
`semaphore_units`, `Keep` its `release()`. `CondVar` extends `Semaphore` with
the condition variable's own operations; its semaphore starts without units.

### `Futures` (abstract: `Channels`)

Constants are addresses: of promises, futures and continuations. The records
hold the pointers the classes hold. `set`, `move`, `destroy`, `destroyFuture`
and `forward_to` are the member functions as operators on the record of all
variables, so that an action that calls several of them (`then`, `Run`)
composes them as the code does. `Run` is one turn of `run_tasks` with everything
the continuation does: it skips its function on a failure (unless it came from
`then_wrapped`), sets the outcome, or forwards the future its function returned,
and then it and its promise are destroyed. `need_preempt()` is always true in
this code, so a continuation is never run on the spot. The mapping takes a
channel from each promise to whoever reads it at that moment. `Chain`, the
promises that are destroyed one after the other when a continuation goes with
its promise, is the smallest closed set. `AddressAssumption` says that promises,
futures and continuations have different addresses, and none is null.

A program that calls `then` on a future whose promise was destroyed unset, or
returns from a continuation a future that waits for that very continuation,
ends in an assertion or never resolves; `Usable` and `Apart` keep such programs
out. Two things the code does on purpose or by oversight are part of the model:
a promise destroyed unset drops its continuation, and all that follow, without
a report; and a failure whose future is destroyed before its promise is reported
twice.

### `Gate`

`entered` is `_count`, `stopped` whether `close()` was called, `opened` how often
its promise was resolved, `user` where each caller is. `WithGate` is `with_gate` with a function that answers at once,
later, or throws: what follows `enter()` runs outside of any future, so a
function that throws never leaves, and `close()` then waits for ever.

### `SharedFuture`

The list of peers is an `expiring_fifo` like that of the semaphore: entries with
or without payload, with or without a timer. `Set` resolves the original future,
`Resolve` is the continuation on it, `ResolvePeer` one turn of its loop (a copy
of the value may throw), `Expire` a timer of an entry in any place.

### `Joins`

`kind` says which join was called; `next` is the part to start next, `part` the
future of each part, `stage` how far the continuations on it are, `waiting` the
count of owners that keep the answer back, `answers` what the promise of the
whole was set to. One action per place where code
runs: the call, each start, its end (`Return`), each continuation, and for
`map_reduce` the reductions, each of which may fail its part (`threw`). For a
`Reducer`, whose calls return futures, a reduction starts (`ReducerReduces`, stage
`reducing`) when those before it have ended, and ends in a step of its own
(`ReductionEnds`); with an initial value it is part of the continuation
(`ReduceContinues`). `JoinAnswersOnce` states the outcome in both directions: no
failure without a part that failed or whose reduction did, and with one the
exception the code promises. `ReducedOnce` states that nothing is left out either.

### `IoQueue`

One request goes through `queue` (a unit of its class and a call of
`execute_one` that waits for capacity), `ExecuteOne` (the class with the lowest
accumulated cost; `normalize_stats` when the sum is `Infinite`), `Submit` and
`Prepare` (`submit_io`: a context of aio, `_pending_aio`, a flush when `FlushAt`
are pending), `PollFlush` (`io_submit` takes a prefix, nothing, or refuses the
first), `ProcessIo` and `Finish`. `Cost` stands for what a request adds to the
cost of its class, decayed with time or not. A cost of 0 is one that the
addition of floats absorbs; scaling (`Normalized`) halves and rounds down, so it
turns small costs, of classes and of the request being served, into 0 as the
multiplication by `FLT_MIN` does. Of the errors of `io_submit`, `EAGAIN` and `EBADF` are modelled;
on any other `flush_pending_aio` throws, and that is left out (section 8).

### `Pages` and `CrossFrees`

`array` is the array of `struct page`, whose first and last page of a span hold
its size; `cpu` holds the lists of free spans and the counters, `pool` one
`small_pool`, `held` what the user has. `free_span`, `Allocate` (an aligned,
trimmed span), `MoreObjects` (one turn of `add_more_objects`) and `TrimObject` are the member functions as operators
on those records; an action is a call from outside (`AllocateLarge`,
`AllocateSmall`, `Free`, `Shrink`, `DoResize`). The page structures take two or
three of the first five pages (`PagesAssumption`), so that some are left. `_free`
is below `_max_free` after every call, unless pages hold so many objects that one
refill goes beyond it: `add_more_objects` stops after the page with which
`_free` reaches its goal, so up to `Goal + Slots - 2` remain once the caller has
its object. `CrossFrees` has the steps that
other cores can see: the load of the list, each turn of the compare-exchange
loop, and the owner's exchange and walk, while it reuses memory whose `next` is
then overwritten. The set of objects is finite, and none is the null pointer
(`OneCoreAssumption`).

### `Reactor`

`at` says where `reactor::run` is: tasks, a poll, on the way into sleep, asleep,
on the way out. `pollers` is `_pollers`, `index` the iteration, `tasks` the
tasks that change it, `handle` the user's `poller` objects, which tasks, poll
functions and signal handlers create, move and destroy. `interruptible` is the
pollers that entered interrupt mode. `signalled` is the pending bit of the one
signal there is, `raised` the signal that the kernel keeps while it is blocked.

### `Threads`

`context` is `g_current_context`, `link` the `jmp_buf_link`s, `thread` where
each thread is; `preempted` is `_preempted_threads`, `armed` the threads whose
`_sched_timer` is armed, `sched` the state of the member promise of each. A thread of a scheduling group that
gives up its turn waits for that promise, which the timer (`Reschedule`) or the
idle reactor (`TryRunOneYieldedThread`) resolves. `aborted` is the failed
assertion of finding 4.

### `Epoll`

`known`, `requested` and `installed` are `events_known`, `events_requested` and
`events_epoll`; `answer` is what became of the future of each promise, `interest`
the events the kernel was told, `ready` those it would report. `Transfer` is the continuation that reads or
writes and may speculate; `Process` is `wait_and_process`.

### `Streams`

`stream` holds `_sub`, `_done`, `_ready`; `subscription` the subscription
objects with their back pointer; `producer` and `listener` say where the two
users are, `reader` what became of the future of `done()`. A stream is destroyed only outside of `produce()` and with no unanswered
`done()`; a producer whose `produce()` failed calls neither it nor `close()`
again, because the code resolves `_done` a second time there (finding 6).

### `Deleters`

`holder` is the `_impl` of each deleter object (a tagged raw object, an impl or
nothing), `impl` the heap of impls with count, `own` and `next`. `Chain` is what
the loop of `append` walks, and `append` states what it leaves behind: `Link` is
what takes the place of each pointer on the way. Destruction is cut at destructors: `dropping` is the
stack of those still to run and `Drop` runs one, since the user's actions run in
between. `released` counts how often each action was carried out and `covers`
which deleters the interface promises to wait for.

## 5. Runs

| Run | Configuration | Shows |
|---|---|---|
| `smp` | `MC_SmpQueue.cfg` | rings, batching and sleep are invisible to callers (`ImplementsCalls`); no lost wake-up; exact accounting; a core only sleeps when what it left unsent will wake it |
| `smp_live` | `MC_SmpQueueLive.cfg` | every call is answered although both cores sleep whenever they can |
| `timers` | `MC_Timers.cfg` | as long as callbacks only arm, on either clock no deadline is missed and no timer stays armed past its expiry |
| `timers_cancel` | `MC_TimersCancel.cfg` | on either clock, with every operation in every place, the radix queue is consistent and timers are alarms (`ImplementsAlarms`) |
| `timers_lost` | `MC_TimersLost.cfg` | *violated:* after a callback removed the last timer of the set, a later one is never announced |
| `timers_erase` | `MC_TimersErase.cfg` | *violated:* cancelling a timer of the batch being expired |
| `one_core` | `MC_OneCore.cfg` | with time-outs and debts the list, the units and the order of waiters are right; signals of a condition variable are not remembered; pages, small objects and objects freed by other cores are each in one place; what deleters own is released once |
| `semaphore_idle` | `MC_OneCoreIdle.cfg` | *violated:* with time-outs units lie idle before a waiter |
| `deleters_shared` | `MC_OneCoreShared.cfg` | *violated:* an action is carried out while a sharer is alive |
| `objects` | `MC_Objects.cfg` | semaphore without time-outs, gate, shared future, joins, disk requests, stream, and the ring (`ImplementsFifo`): what each promises, and that waiters, joins and requests are answered |
| `reactor` | `MC_Reactor.cfg` | pollers and sleep, descriptors, threads; futures and promises implement channels (`ImplementsChannels`) |
| `threads_yield` | `MC_ReactorYield.cfg` | *violated:* a second `yield()` in a scheduling group fails an assertion |

### Bounds

*Ring* (`Capacity = 4`, 2 items): code paths depend on empty, full and neither,
all of which occur, wrapped around too; the ring is proved for every capacity
anyway. *Messages* (2 cores; 3 calls both ways, or 2 one way; `RingSize = 1`,
`BatchSize = 2`): full rings, partial flushes and a submission that flushes its
batch occur. *Timers* (2 timers, `Bits = 3`, `Horizon` 4 or 5): buckets are told
apart by the leading bits shared with `_last`; with 3 bits there are the bucket
of the past, one that expires whole and two whose timers move, and the clock
crosses each boundary; two timers are the smallest number for which one callback
meets another timer in every place (set, expired list, gone). `Horizon` stops
the clock, so these runs switch deadlock checking off; all others check it.
*Semaphore and condition variable* (3 fibers, requests of 0-2 units, `MaxTotal`,
`MaxDebt`, `MaxList`): the hard order is one who asks for more in front of one
who asks for less, with an expired entry before, between and behind. The three
bounds cap counters the code leaves unbounded. *Pages* (`Sizes = <<5, 8>>`:
spans of 1, 2 and 4 pages, one resize, alignment 1 and 2, a pool with
`Slots = 2` objects per page and `MaxFree = 4`): splits, merges on both sides
and a page that leaves the middle of the pool's list occur. *Cross-core frees*
(2 other cores, 3 objects): a compare-exchange fails because another core or
the owner came between. *Deleters* (3 deleters, 3 impls, 3 resources): chains of
three, shared at the end, in the middle and at the front. *Gate*, *shared
future*, *stream* (3 users, readers, subscriptions; `MaxPeers = 4`, so that an
expired entry remains between live ones), *joins* (`Parts = 3`: first, middle
and last in any order). *Disk requests* (4 requests, 2 classes, `Units = 3`
requests in flight, `MaxAio = 2` contexts, `FlushAt = 2`, costs of 0 and 1,
`Infinite = 2`): with one request more than units and one unit more than
contexts, waiting for capacity and waiting for a context occur together, and a
class that stays in the heap, a batch taken in part, a renormalisation and costs that
are absorbed. *Reactor* (the signal poller and two
pollers of the user with a spare function for a replacement, `MaxTasks = 3`),
*epoll* (both events), *threads* (3, two of them in scheduling groups, so that a
thread starts within a thread). *Futures* (3 promises, 3 futures, 2
continuations): a continuation of a continuation needs three promises, and three
futures allow one returned by a function while another is moved.

Symmetry is used only where no temporal property other than an action property
or a refinement of a safety specification is checked.

### Fairness

`SmpQueue`: a core that is not asleep makes progress in its loop (the reactor is a
thread of its own that never blocks elsewhere); stores leave store buffers;
functions that wait for an event get it again and again. Submissions and
unrelated events need not happen. `MC_Timers`: a pending signal is polled, the
loop over the expired timers ends and callbacks return, the kernel timer fires;
on the low-resolution clock the reactor polls, and its nearest wake-up fires;
time need not pass, and nothing is claimed unless it does. `MC_Objects`: the loop
of `signal()` ends, tasks of granted fibers run and every fiber returns what it
holds; a join that was called starts its parts, the parts resolve and tasks run;
tasks of disk requests run and the kernel completes each request it took, all
with weak fairness, and two strong assumptions. If pending requests can be taken
by the kernel again and again, one of the polls succeeds in handing over all of
them: this one is about the kernel, which may answer `EAGAIN` as long as it has
no room; without it a request may stay pending for ever. And if requests are
served again and again, the accumulated costs change again and again: a cost is
multiplied by an exponential of the time since `_base`, so what an addition absorbs today
it does not absorb later; without it one class could be served for
ever at no cost. No other property needs fairness.

## 6. Proofs

All are checked by TLAPS for every value of the constants that satisfies the
named assumptions of the module.

* `Semaphore_proof`: `TypeCorrect`, `ListAlwaysConsistent`,
  `FirstComeFirstServed`, `UnitsUsed`, for every finite set of fibers and
  every set of requests. `ListInv` is `TypeOK /\ ListConsistent`; the lemma that carries
  it is `DropMatch`: dropping the expired entries at the front keeps the
  one-to-one match of live entries and waiting fibers. `UnitsUsed`
  (`NoIdleUnits`) assumes `Timeouts = FALSE`, as in the run `objects`; with
  time-outs it is false, as the run `semaphore_idle` shows.
  `UnitsAlwaysConserved` (`UnitsConserved`) speaks of a sum over fibers, which
  is a fold: the lemmas before it show that a sum changes by as much as one of
  its terms does, from the smallest set of fibers for which that would be wrong.
* `OneCore_proof`: `SignalsNeverRemembered` (`CvSignalsNotRemembered`),
  `FreedJustOnce` (`FreedOnce`) and `DeletedJustOnce` (`DeletedOnce`), theorems of
  `MCSpec`, for every number of fibers, cores, objects, deleters and impls. `CvInv`: within `signal()` and `broadcast()` there
  are no more units than entries in the list, each asks for one, and the loop
  ends only without units. `FreedOnce` says what the links lead to, but not that
  they lead through each object once; `FreesInv` says that the list and what is
  being drained are two chains (`LinkedChain`) without repetitions that, with the
  objects that cores are pushing, partition what was freed. A push in progress may
  write the link of its own object only, and its compare-exchange succeeds only
  if that link is the present front, whatever happened to it in between.
  `DeletedOnce` counts pointers, but a count of one could be that of a ring of impls
  that own each other and that no deleter reaches. `DelInv` adds that no set of impls is
  such a ring (`NoCycle`: in each, one is pointed to by none and one points to none), that a
  deleted impl points nowhere, and that a deleter stands for all that it reaches
  (`Complete`). For `append` the proof shows that the pointers from the deleter on
  are a chain with one way to each member and an end (`Chained`), that each count is
  what it was, and that nothing outside points into what the chain alone owns
  (`NoEntry`), so that neither a ring closes nor another deleter reaches more. It assumes
  (`DeleterAssumption`) that there are finitely many deleters and addresses and that
  impls, resources and `nullptr` can be told apart, as the tag bit does.
* `Pages_proof`: `PagesTile` (`SpansTile`) and `PoolAccounted`
  (`ObjectsAccounted`), theorems of `MCSpec` for page structures of every size that
  `PagesAssumption` allows, every number of objects in a page and every `_max_free`. The sizes of the
  memory (5, then 8 pages) and the alignments (1 and 2) are those of `MC_OneCore`.
  `SpansTile` says nothing of the pages inside a span, whose marks may be stale, nor of what an operation holds
  between two calls. The proof describes the memory by a set of blocks, each
  free, large, a page of the pool, the array of page structures, or in the hands of the operation
  (`work`). `Mem` says that the blocks tile the memory
  (`Layout`), that both ends of each are marked for what they are (`Marked`), that the lists hold the free
  ones by size (`InLists`), and that their pages are counted. Each member function turns one tiling
  into another: `free_span` merges a block at work with its free neighbours,
  an allocation takes one from a list and frees what it trims, a resize moves the array.
  `Good` adds the pool: a page is a block of it as long as an object is out, and `freelist`, `_free`
  and `_span_list` agree on which. `PagesInv` ties both to `held` and `array`, and
  bounds `_free`. The loops of `add_more_objects` and `trim_free_list` are a recursive function and a
  recursive set; the smallest turn after which the pool would not be good
  takes the place of induction.
* `SmpQueue_proof`: `Invariance`, `TypeCorrect`, `CountExact`
  (`QueueLengthExact`) and `Implementation` (`ImplementsCalls`), for every number
  of cores, program of calls, `RingSize` and `BatchSize`. `QueueLengthExact` does
  not say that a request is in one place, so it is not inductive: it cannot tell what a pop takes. The invariant
  `IInv` says where a core is in its loop (`LoopsOK`), that no ring is longer than its size
  (`RingsOK`), and keeps *books*: there is a place for each request (program,
  batch, ring, deferred, task, answer, ...) such that every list holds exactly
  the requests of its place, on the queue they are routed over, in the order in
  which they were submitted, and the counter of a queue is the number of
  requests in flight on it (`Balanced`). The place is hidden behind `\E`, so that the model needs no
  history variable. The first part of the module shows for each operation on lists and tasks
  that the books stay balanced, the second that each step is such an
  operation, and what it means for `RemoteCalls`: a batch that is moved maps to a stutter, the
  others to the step of the same name.
* Also in `SmpQueue_proof`: `SleepInvariance`, `WakeupNotLost` (`NoLostWakeup`) and
  `LeavesNothing` (`NothingLeftBehind`), under the same assumptions. The
  invariant `SleepInv` follows a core from the store of its flag to the end of its
  sleep: its flag is up or whoever took it down signals or is about to
  (`FlagInv`); what its last poll has passed is empty and nothing is in a ring
  unseen, or somebody is in `maybe_wakeup` for it, or the poll found something and there will be no
  sleep (`InputInv`); and it has sent what it could (`OutputInv`). `NoLostWakeup`
  speaks of a core that is asleep already and says nothing of how it came to be.
* `Futures_proof`: `Invariance`, `TypeCorrect`, `PointersAgree` (`LinksAgree`),
  for every set of addresses. `LinksAgree` is not inductive: after a
  move or a `forward_to` it does not tell whom a promise that lost its future writes to, nor who owns a
  promise that a continuation captured. `Linked` adds that what a
  future or continuation reads is written by at most one promise (`Readable`), and that
  every captured promise has one owner (`Captured`). Inside `Run` and
  `then` the links are broken in known places only: `Linked` takes the
  continuation that runs and the promises in use as parameters, and each member
  function is shown to keep it with these exemptions.

  `FuturesAreChannels` (`ImplementsChannels`): `Futures` implements `Channels`,
  for every set of addresses. The mapping is a set of channels, and a set says
  nothing of which object a channel comes from; so `End(h, i)` is the channel
  that the object at address `i` is the end of (a promise that will be or has
  been written, a future on its own, a task in the queue), `Keyed` says that no
  two objects share one, and `Shown(h)`, the ends of all objects, is the mapping
  (`HeapChans`). An operation changes the ends of one to three objects, or of the
  chain of promises that go with one, and is then a step of `Channels` by
  `OneChange`, `TwoChanges`, `ThreeChanges` and `DestroyChans`. `Linked` does not
  tell which objects still hold something, so `Tight` goes with it: a task
  with a promise has a state, and its promise is yet to be written; a future that
  is gone or waits for a promise holds no outcome of its own. `Run` breaks it for the task that runs,
  again a parameter.
* `Objects_proof`: theorems about the objects of the run `objects`, one per
  property, for every finite set of users, readers and requests, every number of
  parts, units and contexts. `OwnSteps` says that a step changes
  the variables of one object by a step of that object; the rest is one
  invariant per object. `GateInv` adds to the property that `_count` is the number
  of users inside, `StreamInv` in which order producer and listener end. `SharedInv` adds the match of live entries and unanswered readers.
  `JoinInv` relates parts and continuations (`JoinParts`), counts the owners that keep
  the answer back (`JoinCount`), has `when_all` of a vector wait for one part at a time
  (`JoinVector`), and follows `ret` from part to part in their order (`JoinChain`)
  with what was reduced so far: with a `Reducer` the parts before `Len(reduced)` have values, the one
  at it is being reduced or was the last, and `ret` fails with the first failure (`JoinReducer`); with an
  initial value the reduced parts are the mapped ones that have values, and `ret` fails with the last failure
  (`JoinReduce`). `JoinAnswersOnce` alone allows a continuation that comes once too often, and `ReducedOnce`
  says nothing of values that are still to be reduced. `IoInv`: a request is in as many lists as
  its state says, the queue of its class (`IoQueues`), those that wait for a context
  (`IoContexts`) or for `io_submit` (`IoPending`), and once in each; so units and contexts are what
  is left by the requests that hold one (`IoUnits`). Of
  `accumulated`, the costs, these need nothing: they decide which class is next, not what is counted.
  `ObjectsTypeCorrect` (`ObjectsTypeOK`) puts the invariants together and adds that costs stay
  below `Infinite`: the loop of `Normalized` is a recursive function whose turns lower the sum, so
  it has a value, which a smallest counterexample shows to be finite.
* Also in `Objects_proof`: `RingTypeCorrect`, `NoRace` and `RingIsFifo`
  (`ImplementsFifo`), theorems of `RingSpec` for every capacity of at least one slot and every set of items. The invariant is `IInv`
  (in `SpscQueue`): the four indices keep their order around the ring
  (`Ordered`, by distances, since indices wrap), a push in progress has a free
  slot *by the stale head it saw*, a pop in progress has an item *by the stale tail
  it saw*, and the slots between head and tail hold items. `NoDataRace` alone
  is not inductive: it does not say that a stale index lags behind the real one.
  `RingIsFifo` maps `PushStore` to `Put`, `PopStore` to `Get` and every other
  step to a stutter, with lemmas on how `Window` grows and shrinks.
* `Reactor_proof`: `PollersAlwaysIntact`, `SleepsOnlyWithoutWork`,
  `WaitersAlwaysInstalled`, `SwitchesAlwaysPair`, `ReactorTypes`, for every set
  of pollers, handles, events, finite set of threads and bounds. `WaitersInstalled` is inductive
  with its types. For `SwitchesPair`, `ThreadsInv` adds that the
  list of preempted threads is without repetitions and that the contexts from the running one down to the
  reactor form a chain (`SwitchChain`) in which each runs and links to the next; the depth of a
  context is found by following links, and since that is a recursive function
  the proof takes the smallest counterexample where one would use induction.
  `PollersIntact` says that what is in `_pollers` is not destroyed, but not who will take it
  out; `LoopInv` adds the set of objects owned by a deregistration task
  (`Owns`), that the pollers in interrupt mode are those the iteration has passed (`LoopPlace`), and that the
  signal is blocked only while its poller is in interrupt mode and was looked for since (`LoopSleep`); the
  poller of signals is always the first of the list, so sleep blocks the signal before anything else.
  `ReactorTypes` reuses `Invariance` of `Futures_proof` for the part of the run about futures.
* `Timers_proof`: `TimersTypeCorrect`, `TimerSetConsistent` (`SetConsistent`), `DeadlinesKept`
  (`NoMissedDeadline`) and `TimersAreAlarms` (`ImplementsAlarms`), theorems of `MCSpec`
  for both clocks, every set of timers and periods and every width of the time points. It rests on lemmas about leading
  bits: when `_last` moves to a time, the timers of the buckets above that of the time are
  due, those of the buckets below keep their index, and those of its own bucket that are not due move
  to a higher one. `SetConsistent` alone is not inductive; `Consistent`
  adds that armed timers are queued and that the `expired` flag tells the batch from the set (`Filed`), that `_next` is no later
  than any expiry in the set (`NextIsEarly`), that `_last` lags behind the clock and that the batch
  has expired. `Timely` adds to it what `NoMissedDeadline` needs: where the reactor may sleep,
  a signal or a deadline no later than `_next` is on its way, and while the batch is
  worked through `_next` is unset only if no timer is left. `DeadlinesKept` assumes
  `CallbacksCancel = FALSE`: without it it is false (`timers_lost`). `TimersAreAlarms` maps
  `Fire` to the alarm that rings, the operations of the user to those of the alarm
  and all that goes on inside of `timer_set` to stutters.

Only model-checked:

* liveness (`EveryCallReturns`, `ArmedTimersOfBothFire`, `EveryWaiterServed`,
  `JoinAnswers`, `Answered`), beyond the prover.

## 7. Findings

1. *Lost deadline* (`timers_lost`, `future_all11.cc:507`, `future_all11.hh:1801`).
   `remove()` leaves `_next` alone and `complete_timers` sets the kernel timer
   again only when the set is not empty. If a callback cancels or destroys the
   last timer of the set, `_next` still names its expiry although no kernel
   timer is set; a timer armed later for a later time does not lower `_next`, so
   the kernel never hears of it. Some other signal (a wake-up from another core)
   has to come to its rescue.
2. *Erase through an unset iterator* (`timers_erase`, `future_all11.cc:1357`). A
   timer of the batch being expired is erased from that batch through
   `expired_it`, which no code assigns.
3. *Idle units* (`semaphore_idle`, `future_all11.hh:4201`). When the
   waiter at the front times out, the next one, which may ask for less, is
   not looked at until somebody calls `signal()`.
4. *Second `yield()`* (`threads_yield`, `future_all11.cc:1141`). A thread of a
   scheduling group waits for a promise that is a member and is never replaced.
   When it gives up its turn for the second time, `get_future()` finds the promise
   already used and its assertion (`future_all11.hh:9846`) ends the process.
5. *Actions before the last sharer* (`deleters_shared`, `future_all11.hh:701`).
   `append()` to a deleter whose impl is shared moves the rest of the chain out of
   the shared impl into one of its own. When the appending deleter goes, the
   actions of that rest are carried out although a sharer made by `share()` is
   alive, which the comment at `future_all11.hh:549` excludes.
6. *Observed, without a run.* When the subscriber's function fails, the
   continuation of `produce()` resolves `_done` with the failure
   (`future_all11.hh:11358`); `close()`, which the comment at
   `future_all11.hh:3177` asks of every producer, resolves it again and fails an
   assertion. `Streams` keeps such producers out.

The low-resolution clock has the flaw of finding 1 too: `_lowres_next_timeout` is
reset while `_next` stays. `timers` therefore keeps callbacks from cancelling.

## 8. Not modelled

*Not usable as the code stands.* These parts cannot be run or instantiated, so
there is no behaviour to model:

* The system-call thread: `syscall_work_queue::submit_item` is declared
  (`future_all11.hh:5341`) and called, never defined; nobody calls
  `thread_pool::submit`.
* Execution stages: the constructor (`future_all11.hh:3104`) calls `reserve()` on
  a `std::deque`, so no stage can be instantiated.
* `with_timeout` (`future_all11.hh:8228`): moves a timer into its continuation,
  and the move constructor of `timer` (`future_all11.hh:1640`) has no definition.
* `output_stream::flush` and `close`: `add_to_flush_poller` is declared
  (`future_all11.hh:10277`) and has no definition, so the batching of flushes
  cannot be reached.
* Timers of `manual_clock`: `advance()` (`future_all11.hh:6793`) only moves the
  clock; nothing expires its timers.
* `basic_semaphore::broken` is declared without a definition. Nothing sets
  `_stopping` or `_stopped` of a reactor, so its loop does not end.

*Left out of modelled components.* Idle handlers (`pure_poll_queues`), calls of a
core to itself, functions that submit from within `process()`, start-up and
shutdown of cores; the wait loops with a predicate of the condition variable;
`finally`, `handle_exception` and the other combinators that are `then_wrapped`
with a function around the user's, `repeat` and `do_until` (chains of
continuations), and `get()` inside a thread; reclaimers and pools whose spans
have several pages; registration of priority classes, change of their shares and
the hop to the coordinating core; `forget()` of a descriptor. Errors of
`io_submit` other than `EAGAIN` and `EBADF`: `flush_pending_aio` throws
(`future_all11.cc:1767`) while the requests stay in `_pending_aio` and hold their
contexts; out of `submit_io` that fails the future of the request although it will still be submitted, out
of the poller it leaves the loop of the reactor. A push on a ring of `SmpQueue`
that fails only because it saw an old `_head` (`Fits` knows the real length): the
items would stay where a full ring leaves them, and `SpscQueue` has the stale
views. Programs that break an obligation of the caller which the code does not
check: `listen()` on a stream that was started, `produce()` on a stream without a
subscription (`future_all11.hh:11345`). Callbacks and
continuations always run from the task queue, as `need_preempt()` is always true
in this code.

*Not modelled at all.* Input streams, sockets, files and the network stack (bytes
over system calls), `temporary_buffer`, `packet` and `shared_ptr` (reference
counts and data on one core), options and resource allocation at start-up (once,
sequential), logging, `sstring`, formatting, POSIX wrappers, test support.
`PROJECT.json` has the reason for each.

*How much of the source this is.* About two thirds of the source lines are
earlier versions of the same program that are not built (`future_all10.hh`,
`timer/timer_all*.hh`, `future/{future,promise,...}.hh`, `mem/`, `task/`), and of the
live files most lines are the data and wrapper code named above, declarations
and commented-out code. What is mapped is the part of the live files that keeps
state over several steps.
