----------------------------- MODULE Semaphore ------------------------------
(***************************************************************************)
(* basic_semaphore with its expiring_fifo of waiters, semaphore_units and  *)
(* get_units, as used by the fibers of one reactor                         *)
(* (src/include/future/future_all11.hh).                                   *)
(*                                                                         *)
(* Nothing runs between the steps of one operation, but the promise of a   *)
(* waiter and the fiber that waits are decoupled: a waiter whose promise   *)
(* was resolved goes on later, when its task runs.                         *)
(***************************************************************************)
EXTENDS Integers, Sequences, FiniteSets, FiniteSetsExt

CONSTANTS Fiber,
          Initial,    \* units the semaphore starts with
          Nr,         \* numbers of units a fiber asks for
          Timeouts,   \* whether fibers wait with a timeout
          MaxTotal,   \* bound on the units that exist
          MaxDebt,    \* bound on the units consumed without being there
          MaxList     \* bound on the length of the list of waiters

ASSUME FiberAssumption == IsFiniteSet(Fiber)
ASSUME UnitsAssumption == Initial \in Nat /\ Nr \subseteq Nat /\ Timeouts \in BOOLEAN
ASSUME BoundAssumption == MaxTotal \in Nat /\ MaxDebt \in Nat /\ MaxList \in Nat

VARIABLES count,       \* _count
          list, size,  \* _wait_list: its entries and its _size
          signalling,  \* the loop of signal() runs
          fiber,       \* where each fiber is
          units,       \* the units it waits for, was granted or holds
          total        \* history: the units that were given and not taken away

vars == <<count, list, size, signalling, fiber, units, total>>

\* A fiber waits, its promise was resolved (but its task did not run), or it
\* holds a semaphore_units object.
FiberState == {"idle", "waiting", "granted", "timedout", "holding"}

\* An entry without its payload has expired.
Entry == [who : Fiber, nr : Nr, payload : BOOLEAN, timed : BOOLEAN]

Init == /\ count = Initial
        /\ list = << >>
        /\ size = 0
        /\ signalling = FALSE
        /\ fiber = [f \in Fiber |-> "idle"]
        /\ units = [f \in Fiber |-> 0]
        /\ total = Initial

has_available_units(nr) == count >= 0 /\ count >= nr

\* Fault: a fiber overtakes those in the list.
may_proceed_Barging(nr) == has_available_units(nr)

may_proceed(nr) == has_available_units(nr) /\ size = 0

\* expiring_fifo::drop_expired_front
drop_expired_front(entries) ==
    LET live == {i \in DOMAIN entries : entries[i].payload} IN
    IF live = {} THEN << >>
    ELSE LET first == CHOOSE i \in live : \A j \in live : i <= j
         IN SubSeq(entries, first, Len(entries))

Becomes(f, state, nr) == /\ fiber' = [fiber EXCEPT ![f] = state]
                         /\ units' = [units EXCEPT ![f] = nr]

-----------------------------------------------------------------------------
Running == ~signalling

\* wait() when may_proceed: the future is ready.
WaitReady(f, nr) ==
    /\ Running /\ fiber[f] = "idle"
    /\ may_proceed(nr)
    /\ count' = count - nr
    /\ Becomes(f, "granted", nr)
    /\ UNCHANGED <<list, size, signalling, total>>

\* wait() otherwise; an entry with a timeout arms its timer.
WaitInList(f, nr, timed) ==
    /\ Running /\ fiber[f] = "idle"
    /\ ~may_proceed(nr)
    /\ Len(list) < MaxList
    /\ list' = Append(list, [who |-> f, nr |-> nr, payload |-> TRUE, timed |-> timed])
    /\ size' = size + 1
    /\ Becomes(f, "waiting", nr)
    /\ UNCHANGED <<count, signalling, total>>

\* try_wait() that succeeds.
TryWait(f, nr) ==
    /\ Running /\ fiber[f] = "idle"
    /\ may_proceed(nr)
    /\ count' = count - nr
    /\ Becomes(f, "holding", nr)
    /\ UNCHANGED <<list, size, signalling, total>>

\* consume_units: takes units whether they are there or not.
Consume(f, nr) ==
    /\ Running /\ fiber[f] = "idle"
    /\ count - nr >= -MaxDebt
    /\ count' = count - nr
    /\ Becomes(f, "holding", nr)
    /\ UNCHANGED <<list, size, signalling, total>>

\* The task of a fiber runs: get_units makes its semaphore_units, or passes
\* the exception on.
Resume(f) ==
    /\ Running
    /\ \/ fiber[f] = "granted" /\ Becomes(f, "holding", units[f])
       \/ fiber[f] = "timedout" /\ Becomes(f, "idle", 0)
    /\ UNCHANGED <<count, list, size, signalling, total>>

\* semaphore_units::release: the units are never returned.
Keep(f) ==
    /\ Running /\ fiber[f] = "holding"
    /\ Becomes(f, "idle", 0)
    /\ total' = total - units[f]
    /\ UNCHANGED <<count, list, size, signalling>>

\* Fault: the units are counted but no waiter is looked for.
Release_NotSignalled(f) ==
    /\ Running /\ fiber[f] = "holding"
    /\ Becomes(f, "idle", 0)
    /\ count' = count + units[f]
    /\ UNCHANGED <<list, size, signalling, total>>

\* ~semaphore_units, which calls signal().
Release(f) ==
    /\ Running /\ fiber[f] = "holding"
    /\ Becomes(f, "idle", 0)
    /\ IF units[f] # 0
       THEN count' = count + units[f] /\ signalling' = TRUE
       ELSE UNCHANGED <<count, signalling>>
    /\ UNCHANGED <<list, size, total>>

\* signal() with new units.
Deposit(nr) ==
    /\ Running
    /\ total + nr <= MaxTotal
    /\ total' = total + nr
    /\ count' = count + nr
    /\ signalling' = TRUE
    /\ UNCHANGED <<list, size, fiber, units>>

CanGrant == size # 0 /\ has_available_units(Head(list).nr)

\* Fault: the units granted stay in the semaphore.
Grant_NotCounted ==
    /\ signalling /\ CanGrant
    /\ Becomes(Head(list).who, "granted", Head(list).nr)
    /\ list' = drop_expired_front(Tail(list))
    /\ size' = size - 1
    /\ UNCHANGED <<count, signalling, total>>

\* One turn of the loop of signal().
Grant ==
    /\ signalling /\ CanGrant
    /\ LET x == Head(list) IN
          /\ count' = count - x.nr
          /\ Becomes(x.who, "granted", x.nr)
    /\ list' = drop_expired_front(Tail(list))
    /\ size' = size - 1
    /\ UNCHANGED <<signalling, total>>

\* Fault: signal() stops before every waiter that can proceed was served.
EndSignal_Early ==
    /\ signalling
    /\ signalling' = FALSE
    /\ UNCHANGED <<count, list, size, fiber, units, total>>

EndSignal ==
    /\ signalling /\ ~CanGrant
    /\ signalling' = FALSE
    /\ UNCHANGED <<count, list, size, fiber, units, total>>

\* Fault: an expired entry at the front stays there.
Expire_NotDropped(i) ==
    /\ Running
    /\ list[i].payload /\ list[i].timed
    /\ Becomes(list[i].who, "timedout", 0)
    /\ list' = [list EXCEPT ![i].payload = FALSE]
    /\ size' = size - 1
    /\ UNCHANGED <<count, signalling, total>>

\* The timer of an entry fires.
Expire(i) ==
    /\ Running
    /\ list[i].payload /\ list[i].timed
    /\ Becomes(list[i].who, "timedout", 0)
    /\ list' = drop_expired_front([list EXCEPT ![i].payload = FALSE])
    /\ size' = size - 1
    /\ UNCHANGED <<count, signalling, total>>

-----------------------------------------------------------------------------
Signal == Grant \/ EndSignal

Wait(f) == \E nr \in Nr : \/ WaitReady(f, nr)
                          \/ \E timed \in {FALSE, Timeouts} : WaitInList(f, nr, timed)

\* What fibers do that neither consumes nor keeps units.
Orderly == \/ \E f \in Fiber : \/ Wait(f) \/ Resume(f) \/ Release(f)
                               \/ \E nr \in Nr : TryWait(f, nr)
           \/ \E nr \in Nr : Deposit(nr)
           \/ \E i \in DOMAIN list : Expire(i)
           \/ Signal

Next == \/ Orderly
        \/ \E f \in Fiber : Keep(f) \/ \E nr \in Nr : Consume(f, nr)

Spec == Init /\ [][Next]_vars

\* Tasks run, and every fiber returns the units it holds.
Fairness == /\ WF_vars(Signal)
            /\ \A f \in Fiber : WF_vars(Resume(f)) /\ WF_vars(Release(f))

OrderlySpec == Init /\ [][Orderly]_vars /\ Fairness

-----------------------------------------------------------------------------
\* The variables have their types.
TypeOK == /\ count \in Int
          /\ list \in Seq(Entry)
          /\ size \in Nat
          /\ signalling \in BOOLEAN
          /\ fiber \in [Fiber -> FiberState]
          /\ units \in [Fiber -> Nr \cup {0}]
          /\ total \in Int

Waiting == {f \in Fiber : fiber[f] = "waiting"}

\* The list of waiters with its expired entries, its _size and the fibers
\* agree: each waiting fiber has one entry with its payload, and the entry at
\* the front, which front() dereferences, always has its payload.
ListConsistent ==
    /\ size = Cardinality(Waiting)
    /\ list # << >> => list[1].payload
    /\ \A f \in Waiting : \E i \in DOMAIN list : list[i].payload /\ list[i].who = f
    /\ \A i \in DOMAIN list : list[i].payload =>
          /\ list[i].who \in Waiting
          /\ units[list[i].who] = list[i].nr
          /\ \A j \in DOMAIN list : list[j].payload /\ list[j].who = list[i].who => i = j

\* The units a fiber was granted or holds.
Out == [f \in Fiber |-> IF fiber[f] \in {"granted", "holding"} THEN units[f] ELSE 0]

\* No unit is lost or made up, whatever the order of waits, grants, timeouts
\* and releases: what the semaphore has and what fibers were granted or hold
\* is what was given to it.
UnitsConserved == count + MapThenSumSet(LAMBDA f : Out[f], Fiber) = total

\* First come, first served: a fiber that gets its units by waiting overtakes
\* no fiber that still waits.
Served(f) == fiber[f] # "granted" /\ fiber'[f] = "granted"
NoOvertaking ==
    [][\A f \in Fiber : Served(f) =>
          \A i \in DOMAIN list : list[i].payload =>
              \/ list[i].who = f
              \/ \E j \in 1 .. i : list[j].payload /\ list[j].who = f]_vars

\* Units are not left unused while the fiber whose turn it is could have them.
NoIdleUnits == (Running /\ size # 0) => ~has_available_units(Head(list).nr)

\* When every fiber returns its units, waiting comes to an end.
EveryWaiterServed == \A f \in Fiber : (fiber[f] = "waiting") ~> (fiber[f] # "waiting")
=============================================================================
