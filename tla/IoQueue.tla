------------------------------ MODULE IoQueue -------------------------------
(***************************************************************************)
(* A disk request on the core that coordinates a device, from              *)
(* io_queue::queue_request through fair_queue, reactor::submit_io,         *)
(* flush_pending_aio and the kernel to process_io                          *)
(* (src/include/future/future_all11.hh, .cc).                              *)
(*                                                                         *)
(* Continuations run as tasks: between the promise that is resolved and    *)
(* what follows it anything else of the reactor may run.                   *)
(***************************************************************************)
EXTENDS Integers, Sequences, FiniteSets, Functions

CONSTANTS Request,
          Class,     \* priority classes
          Capacity,  \* of the fair_queue
          MaxAio,    \* max_aio
          FlushAt,   \* min(max_aio / 4, _capacity / 2)
          Cost,      \* what serving a request may add to _accumulated
          Infinite   \* an accumulated cost from here on is infinite

VARIABLES request,      \* where each request is
          queue,        \* _queue of each class
          handles,      \* _handles: the classes with _queued
          accumulated,  \* _accumulated of each class
          units, waiters,  \* fair_queue::_sem: units, calls of execute_one
                        \* that wait
          granted,      \* and those whose task will run
          context,      \* _io_context_available: units, and who waits
          contextWaiters,
          pending       \* _pending_aio

ioVars == <<request, queue, handles, accumulated, units, waiters, granted,
            context, contextWaiters, pending>>

\* The states of a request: not there; in the queue of its class; with its
\* promise set, so that its function will run; waiting for a context, and
\* with one; in _pending_aio; in the kernel; answered.
State == {"none", "queued", "started", "waiting", "prepared", "pending", "kernel", "answered"}

Init == /\ request = [r \in Request |-> "none"]
        /\ queue = [c \in Class |-> << >>]
        /\ handles = {}
        /\ accumulated = [c \in Class |-> 0]
        /\ units = Capacity /\ waiters = 0 /\ granted = 0
        /\ context = MaxAio /\ contextWaiters = << >>
        /\ pending = << >>

Becomes(rs, state) == request' = [r \in Request |-> IF r \in rs THEN state ELSE request[r]]

\* fair_queue::queue: the request joins its class, and execute_one waits for
\* capacity.
Queue(r, c) ==
    /\ request[r] = "none"
    /\ Becomes({r}, "queued")
    /\ queue' = [queue EXCEPT ![c] = Append(@, r)]
    /\ handles' = handles \cup {c}
    /\ IF units > 0 /\ waiters = 0
       THEN units' = units - 1 /\ granted' = granted + 1 /\ UNCHANGED waiters
       ELSE waiters' = waiters + 1 /\ UNCHANGED <<units, granted>>
    /\ UNCHANGED <<accumulated, context, contextWaiters, pending>>

\* normalize_stats, called until the sum is finite: all classes and the cost
\* are scaled down together.  A cost of 0 is one that the addition of floats
\* absorbs, and scaling can make any cost such a one.
Normalized(acc, c, cost) ==
    LET scale[n \in 0 .. cost] ==
            [a \in [Class -> 0 .. Infinite - 1] |->
                IF a[c] + n < Infinite THEN [a EXCEPT ![c] = @ + n]
                ELSE scale[n \div 2][[d \in Class |-> a[d] \div 2]]]
    IN scale[cost][acc]

\* Fault: the class is not put back although it has more requests.
ExecuteOne_NotPushed ==
    /\ granted > 0
    /\ \E h \in handles, cost \in Cost :
          /\ \A d \in handles : accumulated[h] <= accumulated[d]
          /\ Becomes({Head(queue[h])}, "started")
          /\ queue' = [queue EXCEPT ![h] = Tail(@)]
          /\ handles' = handles \ {h}
          /\ accumulated' = Normalized(accumulated, h, cost)
    /\ granted' = granted - 1
    /\ UNCHANGED <<units, waiters, context, contextWaiters, pending>>

\* Fault: the comparison of class_compare is the other way round.
ExecuteOne_HighestCost ==
    /\ granted > 0
    /\ \E h \in handles, cost \in Cost :
          /\ \A d \in handles : accumulated[h] >= accumulated[d]
          /\ Becomes({Head(queue[h])}, "started")
          /\ queue' = [queue EXCEPT ![h] = Tail(@)]
          /\ handles' = IF Len(queue[h]) > 1 THEN handles ELSE handles \ {h}
          /\ accumulated' = Normalized(accumulated, h, cost)
    /\ granted' = granted - 1
    /\ UNCHANGED <<units, waiters, context, contextWaiters, pending>>

\* The task of execute_one: serves the class with the lowest cost.
ExecuteOne ==
    /\ granted > 0
    /\ \E h \in handles, cost \in Cost :
          /\ \A d \in handles : accumulated[h] <= accumulated[d]
          /\ Becomes({Head(queue[h])}, "started")
          /\ queue' = [queue EXCEPT ![h] = Tail(@)]
          /\ handles' = IF Len(queue[h]) > 1 THEN handles ELSE handles \ {h}
          /\ accumulated' = Normalized(accumulated, h, cost)
    /\ granted' = granted - 1
    /\ UNCHANGED <<units, waiters, context, contextWaiters, pending>>

\* The function of a request runs: submit_io.
Submit(r) ==
    /\ request[r] = "started"
    /\ IF context > 0 /\ contextWaiters = << >>
       THEN Becomes({r}, "prepared") /\ context' = context - 1 /\ UNCHANGED contextWaiters
       ELSE Becomes({r}, "waiting") /\ contextWaiters' = Append(contextWaiters, r) /\ UNCHANGED context
    /\ UNCHANGED <<queue, handles, accumulated, units, waiters, granted, pending>>

\* Fault: contexts are given back without a look at who waits for one.
SignalContext_WakesNobody(gone, states) ==
    /\ context' = context + Cardinality(gone)
    /\ request' = [r \in Request |-> states[r]]
    /\ UNCHANGED contextWaiters

\* A request leaves its context: _io_context_available.signal(n) wakes the
\* first that wait; states is what becomes of the requests themselves.
SignalContext(gone, states) ==
    LET n == context + Cardinality(gone)
        woken == IF n < Len(contextWaiters) THEN n ELSE Len(contextWaiters)
    IN /\ context' = n - woken
       /\ contextWaiters' = SubSeq(contextWaiters, woken + 1, Len(contextWaiters))
       /\ request' = [r \in Request |->
             IF \E i \in 1 .. woken : contextWaiters[i] = r THEN "prepared" ELSE states[r]]

\* What becomes of requests when io_submit took those of accepted and refused
\* those of refused.
Submitted(accepted, refused) ==
    [r \in Request |-> IF r \in accepted THEN "kernel"
                      ELSE IF r \in refused THEN "answered"
                      ELSE IF r \in Range(pending') THEN "pending" ELSE request[r]]

\* flush_pending_aio: io_submit is called until it has taken the whole batch
\* or says EAGAIN.  A call takes a prefix of what is left, or refuses the
\* first with EBADF.  With any other error the function throws; such an
\* error does not occur here.
flush_pending_aio(batch) ==
    \E m \in 0 .. Len(batch) : \E refused \in SUBSET {batch[i] : i \in 1 .. m} :
       /\ pending' = SubSeq(batch, m + 1, Len(batch))
       /\ SignalContext(refused, Submitted({batch[i] : i \in 1 .. m} \ refused, refused))

\* It has a context: the request is prepared, and a batch that is large, or
\* that others wait for, is flushed.
Prepare(r) ==
    /\ request[r] = "prepared"
    /\ IF waiters > 0 \/ Len(pending) + 1 >= FlushAt
       THEN flush_pending_aio(Append(pending, r))
       ELSE /\ Becomes({r}, "pending")
            /\ pending' = Append(pending, r)
            /\ UNCHANGED <<context, contextWaiters>>
    /\ UNCHANGED <<queue, handles, accumulated, units, waiters, granted>>

\* aio_batch_submit_pollfn
PollFlush ==
    /\ pending # << >>
    /\ flush_pending_aio(pending)
    /\ UNCHANGED <<queue, handles, accumulated, units, waiters, granted>>

\* process_io: the kernel has completed some requests, in any order.
ProcessIo ==
    /\ \E done \in SUBSET {r \in Request : request[r] = "kernel"} :
          done # {} /\ SignalContext(done, [r \in Request |-> IF r \in done THEN "answered" ELSE request[r]])
    /\ UNCHANGED <<queue, handles, accumulated, units, waiters, granted, pending>>

\* The continuation of finally(): _sem.signal().
Finish(r) ==
    /\ request[r] = "answered"
    /\ Becomes({r}, "none")
    /\ IF waiters > 0
       THEN waiters' = waiters - 1 /\ granted' = granted + 1 /\ UNCHANGED units
       ELSE units' = units + 1 /\ UNCHANGED <<waiters, granted>>
    /\ UNCHANGED <<queue, handles, accumulated, context, contextWaiters, pending>>

-----------------------------------------------------------------------------
In(states) == {r \in Request : request[r] \in states}

TypeOK == /\ request \in [Request -> State]
          /\ queue \in [Class -> Seq(Request)]
          /\ handles \subseteq Class
          /\ accumulated \in [Class -> 0 .. Infinite - 1]
          /\ units \in Nat /\ waiters \in Nat /\ granted \in Nat
          /\ context \in Nat /\ contextWaiters \in Seq(Request)
          /\ pending \in Seq(Request)

\* Calls of execute_one and queued requests never get out of step: whoever
\* gets capacity finds a class, and a request in it (pop_priority_class
\* asserts that there is one), and the class is in _handles once.
ClassesAgree ==
    /\ waiters + granted = Cardinality(In({"queued"}))
    /\ \A r \in In({"queued"}) : \E c \in handles : \E i \in DOMAIN queue[c] : queue[c][i] = r
    /\ \A c \in Class : c \in handles <=> queue[c] # << >>

\* At most Capacity requests are between their start and their end and at
\* most max_aio with the kernel (which the array in flush_pending_aio relies
\* on), and units of both kinds are given back once whether the kernel
\* accepts, postpones, refuses or completes a request; nobody waits while
\* there are units.
UnitsBalance ==
    /\ units + granted + Cardinality(In(State \ {"none", "queued"})) = Capacity
    /\ context + Cardinality(In({"prepared", "pending", "kernel"})) = MaxAio
    /\ units > 0 => waiters = 0
    /\ context > 0 => contextWaiters = << >>
    /\ In({"pending"}) = Range(pending)
    /\ Cardinality(In({"pending"})) = Len(pending)

\* Every request is answered although the kernel postpones and refuses.
Answered == \A r \in Request : request[r] = "queued" ~> request[r] = "none"
=============================================================================
