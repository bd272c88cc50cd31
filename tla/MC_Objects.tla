----------------------------- MODULE MC_Objects -----------------------------
(***************************************************************************)
(* The objects through which continuations hand over work, side by side:  *)
(* a semaphore whose fibers wait without timeouts and return their units,  *)
(* a gate, a shared future, the joins of three futures, the queue of disk  *)
(* requests, a stream, and the ring of four slots between two cores, which *)
(* gets full, empty and wraps around.  subject says which a behaviour is   *)
(* about, the others keep their initial state.                             *)
(***************************************************************************)
EXTENDS Semaphore, SpscQueue

CONSTANTS f1, f2, f3, r1, r2, r3, r4, c1, c2, a, b,
          User,                 \* of the gate
          Reader, MaxPeers,     \* of the shared future
          Parts,                \* of a join
          Request, Class, Units, MaxAio, FlushAt, Cost, Infinite, \* of IoQueue
          Subscription, Nobody                 \* of Streams

\* There are finitely many of each, costs are finite, and a null pointer is no
\* subscription.
ASSUME ObjectsAssumption == /\ IsFiniteSet(User) /\ IsFiniteSet(Reader) /\ IsFiniteSet(Request)
                            /\ Parts \in Nat /\ Units \in Nat /\ MaxAio \in Nat
                            /\ Cost \subseteq Nat /\ Infinite \in Nat /\ Infinite > 1
                            /\ Nobody \notin Subscription

VARIABLES subject,
          entered, stopped, opened, user,
          source, futureState, resolving, peers, peerCount, reader,
          kind, next, part, stage, waiting, ex, ret, reduced, answers,
          request, queue, handles, accumulated, ioUnits, waiters, granted,
          context, contextWaiters, pending,
          stream, subscription, producer, listener, streamReader

G == INSTANCE Gate
S == INSTANCE SharedFuture
J == INSTANCE Joins
Io == INSTANCE IoQueue WITH Capacity <- Units, units <- ioUnits
St == INSTANCE Streams WITH reader <- streamReader

gateVars == <<entered, stopped, opened, user>>
sharedVars == <<source, futureState, resolving, peers, peerCount, reader>>
joinVars == <<kind, next, part, stage, waiting, ex, ret, reduced, answers>>
ioVars == <<request, queue, handles, accumulated, ioUnits, waiters, granted,
            context, contextWaiters, pending>>
streamVars == <<stream, subscription, producer, listener, streamReader>>
objectVars == <<vars, gateVars, sharedVars, joinVars, ioVars>>
MCVars == <<subject, objectVars, streamVars, ringVars>>

MCInit == /\ subject \in {"semaphore", "gate", "shared_future", "join", "io_queue",
                         "stream", "spsc_queue"}
          /\ Init /\ G!Init /\ S!Init /\ J!Init /\ Io!Init /\ St!Init /\ RingInit

Of(s) == subject = s /\ UNCHANGED subject
Local(s) == Of(s) /\ UNCHANGED <<streamVars, ringVars>>
Semaphores == Local("semaphore") /\ UNCHANGED <<gateVars, sharedVars, joinVars, ioVars>>
Gates == Local("gate") /\ UNCHANGED <<vars, sharedVars, joinVars, ioVars>>
SharedFutures == Local("shared_future") /\ UNCHANGED <<vars, gateVars, joinVars, ioVars>>
Joined == Local("join") /\ UNCHANGED <<vars, gateVars, sharedVars, ioVars>>
Requests == Local("io_queue") /\ UNCHANGED <<vars, gateVars, sharedVars, joinVars>>
Streamed == Of("stream") /\ UNCHANGED <<objectVars, ringVars>>
Queues == Of("spsc_queue") /\ UNCHANGED <<objectVars, streamVars>>

\* What goes on by itself once a join was called.
JoinStep(i) == \/ J!Resolve(i)
               \/ J!ForEachContinues(i) \/ J!TupleContinues(i) \/ J!VectorContinues(i)
               \/ J!ReducerContinues(i) \/ J!ReducerReduces(i) \/ J!ReductionEnds(i)
               \/ J!ReduceContinues(i) \/ J!ReduceForwards(i)

\* The disjuncts of Orderly (no fiber has a timeout here), and the operations
\* of the others; a gate that is closed and a join whose call returned may stop.
MCNext ==
    \/ \E f \in Fiber : Semaphores /\ Wait(f)
    \/ \E f \in Fiber : Semaphores /\ Resume(f)
    \/ \E f \in Fiber : Semaphores /\ Release(f)
    \/ \E f \in Fiber, nr \in Nr : Semaphores /\ TryWait(f, nr)
    \/ \E nr \in Nr : Semaphores /\ Deposit(nr)
    \/ Semaphores /\ Signal
    \/ \E u \in User : Gates /\ G!Enter(u)
    \/ \E u \in User : Gates /\ G!WithGate(u)
    \/ \E u \in User : Gates /\ G!Leave(u)
    \/ Gates /\ G!Close
    \/ Gates /\ stopped /\ UNCHANGED gateVars
    \/ SharedFutures /\ S!Set
    \/ \E r \in Reader, timed \in BOOLEAN : SharedFutures /\ S!GetFuture(r, timed)
    \/ \E r \in Reader : SharedFutures /\ S!Read(r)
    \/ \E i \in DOMAIN peers : SharedFutures /\ S!Expire(i)
    \/ SharedFutures /\ S!Resolve
    \/ SharedFutures /\ S!ResolvePeer
    \/ SharedFutures /\ S!EndResolve
    \/ \E k \in J!Kind : Joined /\ J!Call(k)
    \/ \E outcome \in {"pending", "value", "failed"} : Joined /\ J!Launch(outcome)
    \/ Joined /\ J!LaunchThrows
    \/ Joined /\ J!Return
    \/ \E i \in 1 .. Parts : Joined /\ J!Resolve(i)
    \/ \E i \in 1 .. Parts : Joined /\ J!ForEachContinues(i)
    \/ \E i \in 1 .. Parts : Joined /\ J!TupleContinues(i)
    \/ \E i \in 1 .. Parts : Joined /\ J!VectorContinues(i)
    \/ \E i \in 1 .. Parts : Joined /\ J!ReducerContinues(i)
    \/ \E i \in 1 .. Parts : Joined /\ J!ReducerReduces(i)
    \/ \E i \in 1 .. Parts : Joined /\ J!ReductionEnds(i)
    \/ \E i \in 1 .. Parts : Joined /\ J!ReduceContinues(i)
    \/ \E i \in 1 .. Parts : Joined /\ J!ReduceForwards(i)
    \/ Joined /\ J!MapReduceAnswers
    \/ Joined /\ next = Parts + 2 /\ UNCHANGED joinVars
    \/ \E r \in Request, c \in Class : Requests /\ Io!Queue(r, c)
    \/ Requests /\ Io!ExecuteOne
    \/ \E r \in Request : Requests /\ Io!Submit(r)
    \/ \E r \in Request : Requests /\ Io!Prepare(r)
    \/ Requests /\ Io!PollFlush
    \/ Requests /\ Io!ProcessIo
    \/ \E r \in Request : Requests /\ Io!Finish(r)
    \/ \E s \in Subscription : Streamed /\ St!Listen(s)
    \/ \E s \in Subscription : Streamed /\ St!Start(s)
    \/ \E s, t \in Subscription : Streamed /\ St!Move(s, t)
    \/ \E s \in Subscription : Streamed /\ St!Destroy(s)
    \/ \E s \in Subscription : Streamed /\ St!Done(s)
    \/ Streamed /\ St!Started
    \/ Streamed /\ St!Produce
    \/ Streamed /\ St!Consumed
    \/ Streamed /\ St!Continue
    \/ Streamed /\ St!Close
    \/ Streamed /\ St!DestroyStream
    \/ Streamed /\ ~stream.alive /\ UNCHANGED streamVars
    \/ \E x \in Item : Queues /\ PushStart(x)
    \/ Queues /\ PushWrite
    \/ Queues /\ PushStore
    \/ Queues /\ PopStart
    \/ Queues /\ PopRead
    \/ Queues /\ PopStore
    \/ Queues /\ PublishHead
    \/ Queues /\ PublishTail

Completes(r) == request[r] = "kernel" /\ Io!ProcessIo /\ request'[r] = "answered"

\* Tasks run and the reactor polls; fibers return their units; the futures
\* that are joined resolve; the kernel completes each request it took, and
\* takes what is pending at one of the calls.  The cost of a request grows
\* exponentially with time, so that it is not absorbed for ever.
MCFairness ==
    /\ WF_MCVars(Semaphores /\ Signal)
    /\ \A f \in Fiber : WF_MCVars(Semaphores /\ (Resume(f) \/ Release(f)))
    /\ WF_MCVars(Joined /\ (J!Launch("pending") \/ J!Return \/ J!MapReduceAnswers
                            \/ \E i \in 1 .. Parts : JoinStep(i)))
    /\ SF_MCVars(Requests /\ Io!ExecuteOne /\ accumulated' # accumulated)
    /\ SF_MCVars(Requests /\ Io!PollFlush /\ pending' = << >>)
    /\ \A r \in Request :
          WF_MCVars(Requests /\ (Io!Submit(r) \/ Io!Prepare(r) \/ Completes(r) \/ Io!Finish(r)))

MCSpec == MCInit /\ [][MCNext]_MCVars /\ MCFairness

-----------------------------------------------------------------------------
\* The variables of the modules have their types.
ObjectsTypeOK == /\ TypeOK /\ G!TypeOK /\ S!TypeOK /\ J!TypeOK /\ Io!TypeOK /\ St!TypeOK
                 /\ RingTypeOK

\* The future of gate::close() resolves once, with the last leave(): see Gate.
OpensOnce == G!OpensOnce

\* Every reader of a shared future is answered once: see SharedFuture.
PeersAnswered == S!PeersAnswered

\* A join answers once and last, with the outcome of its parts: see Joins.
JoinAnswersOnce == J!JoinAnswersOnce

\* map_reduce reduces every value once and a Reducer in order: see Joins.
ReducedOnce == J!ReducedOnce

\* A join that was called answers, in whatever order its parts end.
JoinAnswers == kind # "none" ~> answers # << >>

\* Calls of execute_one and queued requests stay in step: see IoQueue.
ClassesAgree == Io!ClassesAgree

\* Units of capacity and contexts of aio are given back once: see IoQueue.
UnitsBalance == Io!UnitsBalance

\* Every disk request is answered: see IoQueue.
Answered == Io!Answered

\* The two ends of a stream point at each other or at nothing: see Streams.
EndsAgree == St!EndsAgree
=============================================================================
