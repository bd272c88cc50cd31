------------------------------ MODULE SmpQueue ------------------------------
(***************************************************************************)
(* Cross-core calls: smp::submit_to, smp_message_queue, smp::poll_queues,  *)
(* and the sleep/wake-up protocol of smp_pollfn and reactor::sleep         *)
(* (src/include/future/future_all11.hh and .cc).                           *)
(*                                                                         *)
(* There is one smp_message_queue for every ordered pair of cores, here    *)
(* the pair <<to, from>> that indexes smp::_qs.  Its two rings are         *)
(* spsc_queues, taken here as the bounded queues that SpscQueue is shown   *)
(* to implement; the tail of a ring may still be in the store buffer of    *)
(* the pushing core, so only a prefix of it is seen by the other side.     *)
(*                                                                         *)
(* Every core runs the loop of reactor::run: tasks until there are none,   *)
(* then the pollers, then perhaps sleep.                                   *)
(***************************************************************************)
EXTENDS Integers, Sequences, FiniteSets, Functions

CONSTANTS Core,        \* the cores, numbered from 0
          Program,     \* Program[c]: the requests core c submits, in order
          Target,      \* Target[r]: the core the function of r runs on
          RingSize,    \* items a ring holds: queue_length - 1
          BatchSize    \* batch_size

Request == UNION {{Program[c][i] : i \in DOMAIN Program[c]} : c \in Core}
Queue == {q \in Core \X Core : q[1] # q[2]}
To(q) == q[1]
From(q) == q[2]

\* A request is an object of its own: it is submitted once.
ASSUME CoreAssumption == Core \subseteq Nat /\ IsFiniteSet(Core)
ASSUME ProgramAssumption ==
    /\ Program \in [Core -> Seq(Request)]
    /\ \A c \in Core : \A i \in DOMAIN Program[c] : Target[Program[c][i]] \in Core \ {c}
    /\ \A c, d \in Core : \A i \in DOMAIN Program[c], j \in DOMAIN Program[d] :
          Program[c][i] = Program[d][j] => c = d /\ i = j
ASSUME SizeAssumption == RingSize \in Nat \ {0} /\ BatchSize \in Nat \ {0}

\* The queue a request travels on.
Route == [r \in Request |->
            CHOOSE q \in Queue : To(q) = Target[r] /\ r \in Range(Program[From(q)])]

NoCore == -1    \* no core has this number

VARIABLES
    todo,           \* todo[c]: what core c has still to submit
    pending_fifo,   \* _tx.a.pending_fifo, of the calling core
    pending,        \* the ring of requests
    pendingSeen,    \* how much of it the called core sees
    deferred,       \* requests whose function waits for an event
    tasks,          \* tasks[c]: continuations that will call respond()
    completed_fifo, \* _completed_fifo, of the called core
    completed,      \* the ring of responses
    completedSeen,  \* how much of it the calling core sees
    done,           \* requests whose promise has been resolved
    queue_length,   \* _current_queue_length
    sleeping,       \* reactor::_sleeping
    signal,         \* a SIGALRM is pending for the core or not yet polled
    membarrier,     \* holder of smp_pollfn::_membarrier_lock
    mode,           \* whether poll_queues is called by the loop or by sleep
    pc,             \* where the core is in reactor::run, sleep and poll_queues
    peer,           \* the loop variable of poll_queues
    got,            \* whether a poller has found work
    waking          \* lf_queue::maybe_wakeup in progress

queueVars == <<pending_fifo, pending, pendingSeen, completed_fifo, completed,
               completedSeen, queue_length>>
requestVars == <<todo, deferred, tasks, done>>
sleepVars == <<sleeping, signal, membarrier>>
loopVars == <<mode, pc, peer, got>>
vars == <<queueVars, requestVars, sleepVars, loopVars, waking>>

Idle == [target |-> NoCore, step |-> "none"]

Init ==
    /\ todo = Program
    /\ pending_fifo = [q \in Queue |-> << >>]
    /\ pending = [q \in Queue |-> << >>]
    /\ pendingSeen = [q \in Queue |-> 0]
    /\ deferred = {}
    /\ tasks = [c \in Core |-> << >>]
    /\ completed_fifo = [q \in Queue |-> << >>]
    /\ completed = [q \in Queue |-> << >>]
    /\ completedSeen = [q \in Queue |-> 0]
    /\ done = {}
    /\ queue_length = [q \in Queue |-> 0]
    /\ sleeping = [c \in Core |-> FALSE]
    /\ signal = [c \in Core |-> FALSE]
    /\ membarrier = NoCore
    /\ mode = [c \in Core |-> "loop"]
    /\ pc = [c \in Core |-> "run"]
    /\ peer = [c \in Core |-> NoCore]
    /\ got = [c \in Core |-> FALSE]
    /\ waking = [c \in Core |-> Idle]

-----------------------------------------------------------------------------
\* Core c is at place p of its loop and not inside maybe_wakeup.
At(c, p) == pc[c] = p /\ waking[c] = Idle
Goto(c, p) == pc' = [pc EXCEPT ![c] = p]
Found(c, b) == got' = [got EXCEPT ![c] = @ \/ b]

\* How many of the items of fifo fit in ring: spsc_queue::push(begin, end).
\* A push that fails because it saw an old _head is in SpscQueue only; here it
\* would leave the items in the fifo for the next poll, as a full ring does.
Fits(fifo, ring) ==
    IF Len(fifo) <= RingSize - Len(ring) THEN Len(fifo) ELSE RingSize - Len(ring)

\* Fault: the items pushed are not counted.
MovePending_NotCounted(c, q, fifo) ==
    LET n == Fits(fifo, pending[q]) IN
    /\ pending' = [pending EXCEPT ![q] = @ \o SubSeq(fifo, 1, n)]
    /\ pending_fifo' = [pending_fifo EXCEPT ![q] = SubSeq(fifo, n + 1, Len(fifo))]
    /\ UNCHANGED queue_length
    /\ waking' = IF n = 0 THEN waking
                 ELSE [waking EXCEPT ![c] = [target |-> To(q), step |-> "load"]]

\* move_pending after an attempt to push the items of fifo: on success the
\* items leave the fifo and the target may have to be woken.
MovePending(c, q, fifo) ==
    LET n == Fits(fifo, pending[q]) IN
    /\ pending' = [pending EXCEPT ![q] = @ \o SubSeq(fifo, 1, n)]
    /\ pending_fifo' = [pending_fifo EXCEPT ![q] = SubSeq(fifo, n + 1, Len(fifo))]
    /\ queue_length' = [queue_length EXCEPT ![q] = @ + n]
    /\ waking' = IF n = 0 THEN waking
                 ELSE [waking EXCEPT ![c] = [target |-> To(q), step |-> "load"]]

\* Fault: the responses pushed stay in the fifo.
FlushResponses_KeepsItems(c, q, fifo) ==
    LET n == Fits(fifo, completed[q]) IN
    /\ completed' = [completed EXCEPT ![q] = @ \o SubSeq(fifo, 1, n)]
    /\ completed_fifo' = [completed_fifo EXCEPT ![q] = fifo]
    /\ waking' = IF n = 0 THEN waking
                 ELSE [waking EXCEPT ![c] = [target |-> From(q), step |-> "load"]]

\* flush_response_batch for the responses in fifo.
FlushResponses(c, q, fifo) ==
    LET n == Fits(fifo, completed[q]) IN
    /\ completed' = [completed EXCEPT ![q] = @ \o SubSeq(fifo, 1, n)]
    /\ completed_fifo' = [completed_fifo EXCEPT ![q] = SubSeq(fifo, n + 1, Len(fifo))]
    /\ waking' = IF n = 0 THEN waking
                 ELSE [waking EXCEPT ![c] = [target |-> From(q), step |-> "load"]]

\* lf_queue::maybe_wakeup, a plain load and a plain store of the flag of the
\* other core, then pthread_kill.
LoadSleeping(c) ==
    /\ waking[c].step = "load"
    /\ waking' = [waking EXCEPT ![c] =
                    IF sleeping[waking[c].target] THEN [@ EXCEPT !.step = "store"] ELSE Idle]
    /\ UNCHANGED <<queueVars, requestVars, sleepVars, loopVars>>

ClearSleeping(c) ==
    /\ waking[c].step = "store"
    /\ sleeping' = [sleeping EXCEPT ![waking[c].target] = FALSE]
    /\ waking' = [waking EXCEPT ![c].step = "kill"]
    /\ UNCHANGED <<queueVars, requestVars, signal, membarrier, loopVars>>

Wakeup(c) ==
    /\ waking[c].step = "kill"
    /\ signal' = [signal EXCEPT ![waking[c].target] = TRUE]
    /\ waking' = [waking EXCEPT ![c] = Idle]
    /\ UNCHANGED <<queueVars, requestVars, sleeping, membarrier, loopVars>>

-----------------------------------------------------------------------------
\* Fault: the new request goes to the front of the batch.
Submit_ToFront(c) ==
    /\ At(c, "run")
    /\ todo[c] # << >>
    /\ LET r == Head(todo[c])
           q == <<Target[r], c>>
           fifo == <<r>> \o pending_fifo[q]
       IN IF Len(fifo) >= BatchSize
          THEN MovePending(c, q, fifo)
          ELSE /\ pending_fifo' = [pending_fifo EXCEPT ![q] = fifo]
               /\ UNCHANGED <<pending, queue_length, waking>>
    /\ todo' = [todo EXCEPT ![c] = Tail(@)]
    /\ UNCHANGED <<pendingSeen, completed_fifo, completed, completedSeen,
                   deferred, tasks, done, sleepVars, loopVars>>

\* A task of the application on core c calls smp::submit_to for another
\* core: submit_item, with a flush when the batch is full.
Submit(c) ==
    /\ At(c, "run")
    /\ todo[c] # << >>
    /\ LET r == Head(todo[c])
           q == <<Target[r], c>>
           fifo == Append(pending_fifo[q], r)
       IN IF Len(fifo) >= BatchSize
          THEN MovePending(c, q, fifo)
          ELSE /\ pending_fifo' = [pending_fifo EXCEPT ![q] = fifo]
               /\ UNCHANGED <<pending, queue_length, waking>>
    /\ todo' = [todo EXCEPT ![c] = Tail(@)]
    /\ UNCHANGED <<pendingSeen, completed_fifo, completed, completedSeen,
                   deferred, tasks, done, sleepVars, loopVars>>


\* run_tasks runs the continuation of wi->process(): respond(), with a flush
\* when the batch is full.
Respond(c) ==
    /\ At(c, "run")
    /\ tasks[c] # << >>
    /\ LET r == Head(tasks[c])
           q == Route[r]
           fifo == Append(completed_fifo[q], r)
       IN IF Len(fifo) >= BatchSize
          THEN FlushResponses(c, q, fifo)
          ELSE /\ completed_fifo' = [completed_fifo EXCEPT ![q] = fifo]
               /\ UNCHANGED <<completed, waking>>
    /\ tasks' = [tasks EXCEPT ![c] = Tail(@)]
    /\ UNCHANGED <<pending_fifo, pending, pendingSeen, completedSeen, queue_length,
                   todo, deferred, done, sleepVars, loopVars>>

\* No task is left: reactor::run polls.  signal_pollfn comes first and runs
\* the handler of a signal that has arrived; then smp_pollfn.
PollSignals(c) ==
    /\ At(c, "run")
    /\ tasks[c] = << >>
    /\ got' = [got EXCEPT ![c] = signal[c]]
    /\ signal' = [signal EXCEPT ![c] = FALSE]
    /\ Goto(c, "next")
    /\ peer' = [peer EXCEPT ![c] = NoCore]
    /\ mode' = [mode EXCEPT ![c] = "loop"]
    /\ UNCHANGED <<queueVars, requestVars, sleeping, membarrier, waking>>

\* The loop of smp::poll_queues over the other cores, in ascending order.
NextPeers(c) == {i \in Core \ {c} : i > peer[c]}

NextPeer(c) ==
    /\ At(c, "next")
    /\ \E i \in NextPeers(c) :
          /\ \A j \in NextPeers(c) : i <= j
          /\ peer' = [peer EXCEPT ![c] = i]
    /\ Goto(c, "respond")
    /\ UNCHANGED <<queueVars, requestVars, sleepVars, mode, got, waking>>

Rx(c) == <<c, peer[c]>>     \* _qs[cpu_id][i]
Tx(c) == <<peer[c], c>>     \* _qs[i][cpu_id]

\* Fault: responses left in the fifo do not count as work.
PollFlushResponses_NotWork(c) ==
    /\ At(c, "respond")
    /\ FlushResponses(c, Rx(c), completed_fifo[Rx(c)])
    /\ Goto(c, "incoming")
    /\ UNCHANGED <<pending_fifo, pending, pendingSeen, completedSeen, queue_length,
                   requestVars, sleepVars, mode, peer, got>>

PollFlushResponses(c) ==
    /\ At(c, "respond")
    /\ FlushResponses(c, Rx(c), completed_fifo[Rx(c)])
    /\ Found(c, completed_fifo'[Rx(c)] # << >>)
    /\ Goto(c, "incoming")
    /\ UNCHANGED <<pending_fifo, pending, pendingSeen, completedSeen, queue_length,
                   requestVars, sleepVars, mode, peer>>

\* process_incoming: all visible requests are popped and their functions
\* started; some finish at once, the others wait for an event.  early numbers
\* those that finish at once, in their order.
ProcessIncoming(c) ==
    /\ At(c, "incoming")
    /\ LET q == Rx(c)
           n == pendingSeen[q]
       IN /\ pending' = [pending EXCEPT ![q] = SubSeq(@, n + 1, Len(@))]
          /\ pendingSeen' = [pendingSeen EXCEPT ![q] = 0]
          /\ \E k \in 0 .. n : \E early \in [1 .. k -> 1 .. n] :
                /\ \A i, j \in 1 .. k : i < j => early[i] < early[j]
                /\ tasks' = [tasks EXCEPT ![c] = @ \o [i \in 1 .. k |-> pending[q][early[i]]]]
                /\ deferred' = deferred \cup {pending[q][i] : i \in (1 .. n) \ Range(early)}
          /\ Found(c, n > 0)
    /\ Goto(c, "request")
    /\ UNCHANGED <<pending_fifo, completed_fifo, completed, completedSeen, queue_length,
                   todo, done, sleepVars, mode, peer, waking>>

PollFlushRequests(c) ==
    /\ At(c, "request")
    /\ MovePending(c, Tx(c), pending_fifo[Tx(c)])
    /\ Goto(c, "completions")
    /\ UNCHANGED <<pendingSeen, completed_fifo, completed, completedSeen,
                   requestVars, sleepVars, mode, peer, got>>

\* process_completions: the promises of all visible responses are resolved.
ProcessCompletions(c) ==
    /\ At(c, "completions")
    /\ LET q == Tx(c)
           n == completedSeen[q]
       IN /\ completed' = [completed EXCEPT ![q] = SubSeq(@, n + 1, Len(@))]
          /\ completedSeen' = [completedSeen EXCEPT ![q] = 0]
          /\ done' = done \cup Range(SubSeq(completed[q], 1, n))
          /\ queue_length' = [queue_length EXCEPT ![q] = @ - n]
          /\ Found(c, n > 0)
    /\ Goto(c, "next")
    /\ UNCHANGED <<pending_fifo, pending, pendingSeen, completed_fifo,
                   todo, deferred, tasks, sleepVars, mode, peer, waking>>

\* poll_queues has seen every core.  In the loop of reactor::run the core
\* goes on when there is work or it has not been idle for _max_poll_time, and
\* tries to sleep otherwise.
EndPoll(c) ==
    /\ At(c, "next") /\ mode[c] = "loop"
    /\ NextPeers(c) = {}
    /\ \/ Goto(c, "run")
       \/ ~got[c] /\ tasks[c] = << >> /\ Goto(c, "enter")
    /\ UNCHANGED <<queueVars, requestVars, sleepVars, mode, peer, got, waking>>

-----------------------------------------------------------------------------
\* reactor::sleep, signal_pollfn::try_enter_interrupt_mode: signals are
\* blocked from here on, and one that has already arrived ends the attempt.
BlockSignals(c) ==
    /\ At(c, "enter")
    /\ signal' = [signal EXCEPT ![c] = FALSE]
    /\ Goto(c, IF signal[c] THEN "run" ELSE "lock")
    /\ UNCHANGED <<queueVars, requestVars, sleeping, membarrier, mode, peer, got, waking>>

\* smp_pollfn::try_enter_interrupt_mode.  A barrier of another core ends the
\* attempt.
TryLock(c) ==
    /\ At(c, "lock")
    /\ IF membarrier = NoCore
       THEN membarrier' = c /\ Goto(c, "flag")
       ELSE UNCHANGED membarrier /\ Goto(c, "run")
    /\ UNCHANGED <<queueVars, requestVars, sleeping, signal, mode, peer, got, waking>>

SetSleeping(c) ==
    /\ At(c, "flag")
    /\ sleeping' = [sleeping EXCEPT ![c] = TRUE]
    /\ Goto(c, "barrier")
    /\ UNCHANGED <<queueVars, requestVars, signal, membarrier, mode, peer, got, waking>>

\* Fault: no systemwide barrier after the flag is set.
Barrier_None(c) ==
    /\ At(c, "barrier")
    /\ membarrier' = NoCore
    /\ Goto(c, "next")
    /\ mode' = [mode EXCEPT ![c] = "sleep"]
    /\ peer' = [peer EXCEPT ![c] = NoCore]
    /\ got' = [got EXCEPT ![c] = FALSE]
    /\ UNCHANGED <<queueVars, requestVars, sleeping, signal, waking>>

\* systemwide_memory_barrier() empties the store buffers of all cores; then
\* the lock is released and the queues are polled once more.
Barrier(c) ==
    /\ At(c, "barrier")
    /\ pendingSeen' = [q \in Queue |-> Len(pending[q])]
    /\ completedSeen' = [q \in Queue |-> Len(completed[q])]
    /\ membarrier' = NoCore
    /\ Goto(c, "next")
    /\ mode' = [mode EXCEPT ![c] = "sleep"]
    /\ peer' = [peer EXCEPT ![c] = NoCore]
    /\ got' = [got EXCEPT ![c] = FALSE]
    /\ UNCHANGED <<pending_fifo, pending, completed_fifo, completed, queue_length,
                   requestVars, sleeping, signal, waking>>

\* Fault: what the last poll found is ignored.
EndLastPoll_Ignored(c) ==
    /\ At(c, "next") /\ mode[c] = "sleep"
    /\ NextPeers(c) = {}
    /\ Goto(c, "asleep")
    /\ UNCHANGED <<queueVars, requestVars, sleepVars, mode, peer, got, waking>>

\* The poll raced with new work, so the flag is taken back, or there is
\* nothing to do and the core waits in epoll_pwait.
EndLastPoll(c) ==
    /\ At(c, "next") /\ mode[c] = "sleep"
    /\ NextPeers(c) = {}
    /\ IF got[c]
       THEN sleeping' = [sleeping EXCEPT ![c] = FALSE] /\ Goto(c, "run")
       ELSE UNCHANGED sleeping /\ Goto(c, "asleep")
    /\ UNCHANGED <<queueVars, requestVars, signal, membarrier, mode, peer, got, waking>>

\* epoll_pwait returns on a signal that arrived after BlockSignals.
Interrupted(c) ==
    /\ At(c, "asleep")
    /\ signal[c]
    /\ Goto(c, "exit")
    /\ UNCHANGED <<queueVars, requestVars, sleepVars, mode, peer, got, waking>>

\* smp_pollfn::exit_interrupt_mode.
ExitInterruptMode(c) ==
    /\ At(c, "exit")
    /\ sleeping' = [sleeping EXCEPT ![c] = FALSE]
    /\ Goto(c, "run")
    /\ UNCHANGED <<queueVars, requestVars, signal, membarrier, mode, peer, got, waking>>

\* A timer or file event the function of a request waits for; it is noticed
\* by a poller, or ends epoll_pwait.
Event(c) ==
    /\ At(c, "run") \/ At(c, "asleep")
    /\ \E r \in deferred :
          /\ Target[r] = c
          /\ deferred' = deferred \ {r}
          /\ tasks' = [tasks EXCEPT ![c] = Append(@, r)]
    /\ IF pc[c] = "asleep" THEN Goto(c, "exit") ELSE UNCHANGED pc
    /\ UNCHANGED <<queueVars, todo, done, sleepVars, mode, peer, got, waking>>

\* Any other event ends epoll_pwait.
OtherEvent(c) ==
    /\ At(c, "asleep")
    /\ Goto(c, "exit")
    /\ UNCHANGED <<queueVars, requestVars, sleepVars, mode, peer, got, waking>>

\* The store of a ring's tail leaves the store buffer.
PublishRequest(q) ==
    /\ pendingSeen[q] < Len(pending[q])
    /\ pendingSeen' = [pendingSeen EXCEPT ![q] = @ + 1]
    /\ UNCHANGED <<pending_fifo, pending, completed_fifo, completed, completedSeen,
                   queue_length, requestVars, sleepVars, loopVars, waking>>

PublishResponse(q) ==
    /\ completedSeen[q] < Len(completed[q])
    /\ completedSeen' = [completedSeen EXCEPT ![q] = @ + 1]
    /\ UNCHANGED <<pending_fifo, pending, pendingSeen, completed_fifo, completed,
                   queue_length, requestVars, sleepVars, loopVars, waking>>

\* What core c does without being asked.
Loop(c) ==
    \/ LoadSleeping(c) \/ ClearSleeping(c) \/ Wakeup(c)
    \/ Respond(c) \/ PollSignals(c)
    \/ NextPeer(c) \/ PollFlushResponses(c) \/ ProcessIncoming(c)
    \/ PollFlushRequests(c) \/ ProcessCompletions(c) \/ EndPoll(c)
    \/ BlockSignals(c) \/ TryLock(c) \/ SetSleeping(c) \/ Barrier(c)
    \/ EndLastPoll(c) \/ Interrupted(c) \/ ExitInterruptMode(c)

Next == \/ \E c \in Core : Loop(c) \/ Submit(c) \/ Event(c) \/ OtherEvent(c)
        \/ \E q \in Queue : PublishRequest(q) \/ PublishResponse(q)

\* A core that is not asleep runs, stores become visible, and the events that
\* functions wait for happen and are polled.  Submissions and other events
\* need not happen.
Fairness == /\ \A c \in Core : WF_vars(Loop(c)) /\ SF_vars(Event(c))
            /\ \A q \in Queue : WF_vars(PublishRequest(q)) /\ WF_vars(PublishResponse(q))

Spec == Init /\ [][Next]_vars /\ Fairness

-----------------------------------------------------------------------------
Places == {"run", "next", "respond", "incoming", "request", "completions",
           "enter", "lock", "flag", "barrier", "asleep", "exit"}
Waking == [target : Core, step : {"load", "store", "kill"}] \cup {Idle}

\* The variables have their types; no ring holds more than it has room for,
\* and a core sees at most what is in it.
TypeOK ==
    /\ todo \in [Core -> Seq(Request)]
    /\ pending_fifo \in [Queue -> Seq(Request)]
    /\ pending \in [Queue -> Seq(Request)]
    /\ pendingSeen \in [Queue -> Nat]
    /\ \A q \in Queue : pendingSeen[q] <= Len(pending[q]) /\ Len(pending[q]) <= RingSize
    /\ deferred \subseteq Request
    /\ tasks \in [Core -> Seq(Request)]
    /\ completed_fifo \in [Queue -> Seq(Request)]
    /\ completed \in [Queue -> Seq(Request)]
    /\ completedSeen \in [Queue -> Nat]
    /\ \A q \in Queue : completedSeen[q] <= Len(completed[q]) /\ Len(completed[q]) <= RingSize
    /\ done \subseteq Request
    /\ queue_length \in [Queue -> Nat]
    /\ sleeping \in [Core -> BOOLEAN] /\ signal \in [Core -> BOOLEAN]
    /\ membarrier \in Core \cup {NoCore}
    /\ mode \in [Core -> {"loop", "sleep"}]
    /\ pc \in [Core -> Places]
    /\ peer \in [Core -> Core \cup {NoCore}]
    /\ got \in [Core -> BOOLEAN]
    /\ waking \in [Core -> Waking]

\* A core that waits in epoll_pwait with a request or a response in one of
\* its rings is about to be woken: its signal is pending or some core is
\* between its push and pthread_kill.  The flag is written with plain stores
\* by both sides and only the systemwide barrier orders it with the rings.
NoLostWakeup ==
    \A c \in Core : At(c, "asleep") =>
        \A i \in Core \ {c} :
            pending[<<c, i>>] # << >> \/ completed[<<i, c>>] # << >> =>
                signal[c] \/ \E o \in Core : waking[o].target = c
                                             /\ (waking[o].step = "load" => sleeping[c])

\* A sleeping core has no response left to send, and requests left to submit
\* only when the ring of requests was full or responses are to come, which
\* will wake it.
NothingLeftBehind ==
    \A c \in Core : At(c, "asleep") =>
        \A i \in Core \ {c} :
            /\ completed_fifo[<<c, i>>] = << >>
            /\ pending_fifo[<<i, c>>] # << >> => queue_length[<<i, c>>] > 0

\* Requests of queue q between submission to the ring and the resolution of
\* their promise, by where they are.
DeferredOf(q) == {r \in deferred : Route[r] = q}
TasksOf(q) == {i \in DOMAIN tasks[To(q)] : Route[tasks[To(q)][i]] = q}
InFlight(q) == Range(pending[q]) \cup DeferredOf(q) \cup {tasks[To(q)][i] : i \in TasksOf(q)}
                  \cup Range(completed_fifo[q]) \cup Range(completed[q])

\* _current_queue_length is exact, and no request is in two places: what is
\* pushed to the ring comes back once.
QueueLengthExact ==
    \A q \in Queue :
        /\ queue_length[q] = Cardinality(InFlight(q))
        /\ queue_length[q] = Len(pending[q]) + Cardinality(DeferredOf(q)) + Cardinality(TasksOf(q))
                                + Len(completed_fifo[q]) + Len(completed[q])

\* The core calls implement RemoteCalls.
PhaseOf(r) ==
    CASE r \in Range(todo[From(Route[r])]) -> "new"
      [] r \in Range(pending_fifo[Route[r]]) \cup Range(pending[Route[r]]) -> "sent"
      [] r \in deferred \/ r \in Range(tasks[Target[r]]) -> "running"
      [] r \in Range(completed_fifo[Route[r]]) \cup Range(completed[Route[r]]) -> "finished"
      [] r \in done -> "done"

Calls == INSTANCE RemoteCalls WITH phase <- [r \in Request |-> PhaseOf(r)]

\* Batching, rings, sleep and wake-up are invisible to the callers: functions
\* run once, in submission order, and each promise is resolved once after
\* its function has finished.
ImplementsCalls == Calls!Spec

\* Every call is answered, although both cores sleep whenever they can.
EveryCallReturns ==
    \A r \in Request : r \notin Range(todo[From(Route[r])]) ~> r \in done
=============================================================================
