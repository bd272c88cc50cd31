----------------------------- MODULE MC_Reactor -----------------------------
(***************************************************************************)
(* One reactor, side by side: its loop with two pollers of the user, a     *)
(* file descriptor of its epoll backend, its stackful threads, and the     *)
(* promises, futures and continuations its tasks are made from (three of   *)
(* each but two continuations: a continuation of a continuation, a future  *)
(* returned by one, and an object to move to).  subject says which a       *)
(* behaviour is about, the others keep their initial state.                *)
(***************************************************************************)
EXTENDS Futures, TLC

CONSTANTS Handle, Pollfn, SignalFn, Null, MaxTasks,  \* those of Reactor
          Event,                        \* of Epoll
          Thread, Group, Unthreaded,    \* of Threads
          p1, p2, p3, f1, f2, f3, t1, t2

\* Null pointers are no objects, and the poller of signals is none of the user.
ASSUME ReactorAssumption == /\ SignalFn \notin Pollfn /\ Null \notin Pollfn \cup Handle \cup {SignalFn}
                            /\ IsFiniteSet(Thread) /\ Unthreaded \notin Thread

VARIABLES subject,
          at, index, worked, pollers, tasks, handle, interruptible,
          signalled, blocked, raised,
          known, requested, installed, answer, interest, ready,
          context, link, thread, preempted, armed, sched, aborted

R == INSTANCE Reactor
E == INSTANCE Epoll
T == INSTANCE Threads

MCSymmetry == Permutations(Promise) \cup Permutations(Future) \cup Permutations(Task)

reactorVars == <<at, index, worked, pollers, tasks, handle, interruptible,
                 signalled, blocked, raised>>
epollVars == <<known, requested, installed, answer, interest, ready>>
threadVars == <<context, link, thread, preempted, armed, sched, aborted>>
MCVars == <<subject, reactorVars, epollVars, threadVars, vars>>

MCInit == /\ R!Init /\ E!Init /\ T!Init /\ Init
          /\ \/ subject = "epoll"
             \/ subject \in {"loop", "threads", "futures"} /\ known = {}

Of(s) == subject = s /\ UNCHANGED subject
Loop == Of("loop") /\ UNCHANGED <<epollVars, threadVars, vars>>
Descriptor == Of("epoll") /\ UNCHANGED <<reactorVars, threadVars, vars>>
Threads == Of("threads") /\ UNCHANGED <<reactorVars, epollVars, vars>>
Futures == Of("futures") /\ UNCHANGED <<reactorVars, epollVars, threadVars>>

\* The operations of the four modules; threads that have ended may stop, and
\* so may a process that was aborted.
MCNext ==
    \/ Loop /\ R!RunUser
    \/ Loop /\ R!RunRegistration
    \/ Loop /\ R!RunDeregistration
    \/ Loop /\ R!StartPoll
    \/ Loop /\ R!Poll
    \/ Loop /\ R!EndPoll
    \/ Loop /\ R!EnterSignal
    \/ Loop /\ R!EnterOther
    \/ Loop /\ R!FallAsleep
    \/ Loop /\ R!Wake
    \/ Loop /\ R!Leave
    \/ Loop /\ R!EndLeave
    \/ Loop /\ R!Raise
    \/ \E e \in Event : Descriptor /\ E!Request(e)
    \/ \E e \in Event : Descriptor /\ E!Transfer(e)
    \/ \E e \in Event : Descriptor /\ E!Abort(e)
    \/ \E e \in Event : Descriptor /\ E!Arrive(e)
    \/ Descriptor /\ E!Process
    \/ \E t \in Thread : Threads /\ T!Start(t)
    \/ \E t \in Thread : Threads /\ T!Wait(t)
    \/ \E t \in Thread : Threads /\ T!Resolve(t)
    \/ \E t \in Thread : Threads /\ T!Yield(t)
    \/ \E t \in Thread : Threads /\ T!Reschedule(t)
    \/ \E t \in Thread : Threads /\ T!SwitchIn(t)
    \/ \E t \in Thread : Threads /\ T!Finish(t)
    \/ Threads /\ T!TryRunOneYieldedThread
    \/ Threads /\ (aborted \/ \A t \in Thread : thread[t] = "done") /\ UNCHANGED threadVars
    \/ \E p \in Promise : Futures /\ Construct(p)
    \/ \E p \in Promise : Futures /\ DestroyPromise(p)
    \/ \E f \in Future : Futures /\ DestroyFuture(f)
    \/ \E p \in Promise, f \in Future : Futures /\ get_future(p, f)
    \/ \E p \in Promise, f \in Future : Futures /\ ForwardTo(f, p)
    \/ \E p \in Promise, v \in {"result", "exception"} : Futures /\ Set(p, v)
    \/ \E p, q \in Promise : Futures /\ MovePromise(p, q)
    \/ \E f, g \in Future : Futures /\ MoveFuture(f, g)
    \/ \E f, g \in Future, t \in Task, p \in Promise, w \in BOOLEAN :
          Futures /\ then(f, t, p, g, w)
    \/ Futures /\ Run

MCSpec == MCInit /\ [][MCNext]_MCVars

-----------------------------------------------------------------------------
\* The variables of the four modules have their types.
ReactorTypeOK == R!TypeOK /\ E!TypeOK /\ T!TypeOK /\ TypeOK

\* The list of pollers is intact while tasks and pollers change it, and
\* sleep() undoes what it did: see Reactor.
PollersIntact == R!PollersIntact

\* A reactor that sleeps has nothing to do: see Reactor.
SleepsWithoutWork == R!SleepsWithoutWork

\* A future that waits for an event is one the event will find: see Epoll.
WaitersInstalled == E!WaitersInstalled

\* Threads are woken once and switched back from: see Threads.
SwitchesPair == T!SwitchesPair

\* No yield() ends the process: see Threads.
YieldReturns == T!YieldReturns
=============================================================================
