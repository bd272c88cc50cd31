------------------------------ MODULE Futures -------------------------------
(***************************************************************************)
(* Promises, futures and continuations of one reactor                      *)
(* (src/include/future/future_all11.hh: future_state, continuation,        *)
(* future, promise; .tpp: future_state::forward_to).                       *)
(*                                                                         *)
(* Constants are addresses: a promise and its future point at each other,  *)
(* the promise also at the state it will write (its own or that of its     *)
(* continuation), and every move, attachment and destruction has to keep   *)
(* these pointers right.  need_preempt() is always true: a continuation    *)
(* is never called on the spot.  A moved-from object is destroyed at once. *)
(***************************************************************************)
EXTENDS Naturals, Sequences, FiniteSets, SequencesExt

CONSTANTS Promise, Future, Task, None

\* Objects that live at the same time have different addresses.
ASSUME AddressAssumption == /\ Promise \cap Future = {} /\ Promise \cap Task = {}
                            /\ Future \cap Task = {}
                            /\ None \notin Promise \cup Future \cup Task

VARIABLES promise,   \* the members of every promise, Dead when there is none
          future,    \* the members of every future
          task,      \* the continuations: their state and the promise they captured
          _pending_tasks,  \* reactor::_pending_tasks
          reported   \* the last step called report_failed_future

vars == <<promise, future, task, _pending_tasks, reported>>

\* The state a promise writes: _local_state, that of _task, or nullptr.
NewPromise == [future |-> None, state |-> "local", local |-> "future", task |-> None]
NullPromise == [future |-> None, state |-> "null", local |-> "invalid", task |-> None]
DeadPromise == [NullPromise EXCEPT !.state = "dead"]
\* A future is used up by then() and forward_to().
DeadFuture == [promise |-> None, local |-> "invalid", life |-> "dead"]
NoTask == [state |-> "invalid", pr |-> None, wrapped |-> FALSE]

Init == /\ promise = [p \in Promise |-> DeadPromise]
        /\ future = [f \in Future |-> DeadFuture]
        /\ task = [t \in Task |-> NoTask]
        /\ _pending_tasks = << >>
        /\ reported = FALSE

-----------------------------------------------------------------------------
(* The member functions, as operators on records of the variables.          *)

Heap == [promise |-> promise, future |-> future, task |-> task,
         queue |-> _pending_tasks, reported |-> FALSE]

HeapBecomes(h) == /\ promise' = h.promise /\ future' = h.future /\ task' = h.task
                  /\ _pending_tasks' = h.queue /\ reported' = h.reported

available(s) == s \in {"result", "exception"}

\* *_state of a promise
Written(h, p) == CASE h.promise[p].state = "local" -> h.promise[p].local
                   [] h.promise[p].state = "task" -> h.task[h.promise[p].task].state
                   [] OTHER -> "invalid"

\* future::state()
state(h, f) == IF h.future[f].promise = None THEN h.future[f].local
               ELSE Written(h, h.future[f].promise)

\* The state of a future is moved out.
Moved(h, f) == IF h.future[f].promise = None
               THEN [h EXCEPT !.future[f].local = "invalid"]
               ELSE [h EXCEPT !.promise[h.future[f].promise].local = "invalid"]

\* Fault: the state of the task that was scheduled is kept.
set_KeepsState(h, p, v) ==
    LET t == h.promise[p].task IN
    IF t = None THEN [h EXCEPT !.promise[p].local = v]
    ELSE [h EXCEPT !.task[t].state = v, !.promise[p].task = None, !.queue = Append(@, t)]

\* promise::set_value and set_exception, with make_ready.
set(h, p, v) ==
    LET t == h.promise[p].task IN
    IF t = None THEN [h EXCEPT !.promise[p].local = v]
    ELSE [h EXCEPT !.task[t].state = v,
                   !.promise[p].task = None, !.promise[p].state = "null",
                   !.queue = Append(@, t)]

\* Fault: migrated() is not called.
move_NotMigrated(h, p, q) ==
    [h EXCEPT !.promise[q] = h.promise[p], !.promise[p] = NullPromise]

\* promise::promise(promise&&) at q, with migrated(): the future follows.
move(h, p, q) ==
    LET f == h.promise[p].future IN
    [h EXCEPT !.promise[q] = h.promise[p],
              !.promise[p] = NullPromise,
              !.future = IF f = None THEN @ ELSE [@ EXCEPT ![f].promise = q]]

\* The promises that go away with p: those captured by the continuations
\* attached to it, and so on.
Passes(h, P) == \A q \in P : h.promise[q].task # None => h.task[h.promise[q].task].pr \in P
Chain(h, p) == {q \in Promise : \A P \in SUBSET Promise : p \in P /\ Passes(h, P) => q \in P}

\* promise::~promise, abandoned(): the state moves to the future, or its
\* failure is reported, and the continuation dies.
destroy(h, p) ==
    LET gone == Chain(h, p)
        tasks == {h.promise[q].task : q \in gone} \ {None}
        heirs == {h.promise[q].future : q \in gone} \ {None}
    IN [promise |-> [q \in Promise |-> IF q \in gone THEN DeadPromise ELSE h.promise[q]],
        future |-> [f \in Future |->
            IF f \in heirs THEN [h.future[f] EXCEPT !.local = state(h, f), !.promise = None]
            ELSE h.future[f]],
        task |-> [t \in Task |-> IF t \in tasks THEN NoTask ELSE h.task[t]],
        queue |-> h.queue,
        reported |-> h.reported \/ \E q \in gone : /\ h.promise[q].future = None
                                                   /\ Written(h, q) = "exception"]

\* future::~future
destroyFuture(h, f) ==
    LET p == h.future[f].promise IN
    [h EXCEPT !.promise = IF p = None THEN @ ELSE [@ EXCEPT ![p].future = None],
              !.future[f] = DeadFuture,
              !.reported = @ \/ state(h, f) = "exception"]

\* future::forward_to: an outcome that is there is set; else the promise of
\* the future takes over what p was to resolve.
forward_to(h, f, p) ==
    IF available(state(h, f))
    THEN Moved(set(h, p, state(h, f)), f)
    ELSE move([h EXCEPT !.future[f].promise = None], p, h.future[f].promise)

-----------------------------------------------------------------------------
(* What the program does with its objects.  A promise captured by a         *)
(* continuation is out of its hands.                                        *)

Alive(p) == promise[p].state # "dead"
Owned(p) == Alive(p) /\ \A t \in Task : task[t].pr # p
Unset(p) == Written(Heap, p) = "future"

\* Futures that have not been used yet and get their outcome some day; one
\* whose promise was destroyed unset is only destroyed (an assertion of
\* schedule() ends the program otherwise).
Usable(f) == /\ future[f].life = "live"
             /\ available(state(Heap, f)) \/ future[f].promise # None

Construct(p) ==
    /\ ~Alive(p)
    /\ HeapBecomes([Heap EXCEPT !.promise[p] = NewPromise])

\* promise::get_future, with its assertion.
get_future(p, f) ==
    /\ Owned(p) /\ future[f].life = "dead"
    /\ promise[p].future = None /\ promise[p].state = "local" /\ promise[p].local # "invalid"
    /\ HeapBecomes([Heap EXCEPT !.promise[p].future = f,
                                !.future[f] = [promise |-> p, local |-> "future", life |-> "live"]])

Set(p, v) == Owned(p) /\ Unset(p) /\ HeapBecomes(set(Heap, p, v))

MovePromise(p, q) ==
    /\ Owned(p) /\ ~Alive(q)
    /\ HeapBecomes([move(Heap, p, q) EXCEPT !.promise[p] = DeadPromise])

DestroyPromise(p) == Owned(p) /\ HeapBecomes(destroy(Heap, p))

\* future::future(future&&)
MoveFuture(f, g) ==
    /\ future[f].life # "dead" /\ future[g].life = "dead"
    /\ LET p == future[f].promise IN
       HeapBecomes([Heap EXCEPT !.future[g] = future[f],
                                !.future[f] = DeadFuture,
                                !.promise = IF p = None THEN @ ELSE [@ EXCEPT ![p].future = g]])

DestroyFuture(f) == future[f].life # "dead" /\ HeapBecomes(destroyFuture(Heap, f))

\* future::then and then_wrapped: the continuation captures a promise whose
\* future is returned; it is scheduled, or attached to the promise.
then(f, t, p, g, wrapped) ==
    /\ Usable(f)
    /\ task[t].pr = None /\ ~Alive(p) /\ future[g].life = "dead"
    /\ LET q == future[f].promise
           s == state(Heap, f)
           h == [Heap EXCEPT !.promise[p] = [NewPromise EXCEPT !.future = g],
                             !.future[g] = [promise |-> p, local |-> "future", life |-> "live"],
                             !.future[f].life = "spent",
                             !.task[t] = [state |-> s, pr |-> p, wrapped |-> wrapped]]
       IN HeapBecomes(
            IF available(s) THEN [Moved(h, f) EXCEPT !.queue = Append(@, t)]
            ELSE [h EXCEPT !.promise[q] = [@ EXCEPT !.state = "task", !.task = t, !.future = None],
                           !.future[f].promise = None])

\* The promise of f is not one that waits for p: nothing waits for itself.
Apart(h, f, p) == h.future[f].promise \notin Chain(h, p)

ForwardTo(f, p) ==
    /\ Usable(f) /\ Owned(p) /\ Unset(p)
    /\ available(state(Heap, f)) \/ Apart(Heap, f, p)
    /\ HeapBecomes([forward_to(Heap, f, p) EXCEPT !.future[f].life = "spent"])

\* Fault: then() calls its function although the outcome is a failure.
CallsFunction_Always(t) == TRUE

\* The function of then() is only called with a value, that of
\* then_wrapped() always.
CallsFunction(t) == task[t].wrapped \/ task[t].state = "result"

\* reactor::run_tasks runs the first task.  Its function is skipped, ends,
\* throws or returns a future; the continuation and its promise go away.
Run ==
    /\ _pending_tasks # << >>
    /\ LET t == Head(_pending_tasks)
           p == task[t].pr
           h == [Heap EXCEPT !.queue = Tail(@)]
           Finish(g) == HeapBecomes(destroy([g EXCEPT !.task[t] = NoTask], p))
       IN IF ~CallsFunction(t)
          THEN Finish(set(h, p, "exception"))
          ELSE \E looked \in BOOLEAN :   \* a wrapped failure the function looks at
               LET k == [h EXCEPT !.reported = ~looked /\ task[t].state = "exception"] IN
               \/ \E v \in {"result", "exception"} : Finish(set(k, p, v))
               \/ \E f \in Future :
                     /\ Usable(f)
                     /\ available(state(h, f)) \/ Apart(h, f, p)
                     /\ Finish(destroyFuture(forward_to(k, f, p), f))

User == \/ \E p \in Promise : Construct(p) \/ DestroyPromise(p)
        \/ \E f \in Future : DestroyFuture(f)
        \/ \E p \in Promise, f \in Future : get_future(p, f) \/ ForwardTo(f, p)
        \/ \E p \in Promise, v \in {"result", "exception"} : Set(p, v)
        \/ \E p, q \in Promise : MovePromise(p, q)
        \/ \E f, g \in Future : MoveFuture(f, g)
        \/ \E f, g \in Future, t \in Task, p \in Promise, w \in BOOLEAN : then(f, t, p, g, w)

Next == User \/ Run

Spec == Init /\ [][Next]_vars

-----------------------------------------------------------------------------
States == {"invalid", "future", "result", "exception"}

\* The variables have their types; a promise points into its continuation as
\* long as it owns one.
TypeOK ==
    /\ promise \in [Promise -> [future : Future \cup {None}, state : {"local", "task", "null", "dead"},
                                local : States, task : Task \cup {None}]]
    /\ \A p \in Promise : (promise[p].state = "task") = (promise[p].task # None)
    /\ future \in [Future -> [promise : Promise \cup {None}, local : States,
                              life : {"dead", "live", "spent"}]]
    /\ task \in [Task -> [state : States, pr : Promise \cup {None}, wrapped : BOOLEAN]]
    /\ _pending_tasks \in Seq(Task)
    /\ reported \in BOOLEAN

\* No pointer dangles and none is one-sided, in whatever order promises and
\* futures are moved, attached, forwarded and destroyed: a future and its
\* promise point at each other, a promise with a future writes its own state,
\* and every continuation has one owner, a promise that is still unset or the
\* task queue, and a promise of its own that lives.
LinksAgree ==
    /\ \A f \in Future : LET p == future[f].promise IN
          p # None => /\ promise[p].future = f
                      /\ promise[p].state = "local"
                      /\ future[f].life # "dead"
    /\ \A p \in Promise : promise[p].future # None => future[promise[p].future].promise = p
    /\ \A t \in Task :
          LET owners == {p \in Promise : promise[p].task = t}
              places == {i \in DOMAIN _pending_tasks : _pending_tasks[i] = t}
          IN IF task[t].pr = None THEN owners = {} /\ places = {}
             ELSE /\ Cardinality(owners) + Cardinality(places) = 1
                  /\ (task[t].state = "future") = (owners # {})
                  /\ Alive(task[t].pr)
                  /\ \A u \in Task \ {t} : task[u].pr # task[t].pr

\* Promises and futures implement channels: whatever happens to the objects,
\* an outcome goes to the one reader its promise has, by then, been given.
Reader(h, p) == IF h.promise[p].task # None THEN h.promise[p].task ELSE h.promise[p].future

Ends(w, r, v) == [writer |-> w, reader |-> r, content |-> v]

\* What a promise writes, what a future holds and what a task in the queue gets.
Chans(h) ==
    {Ends(p, Reader(h, p), Written(h, p)) : p \in {q \in Promise : Written(h, q) # "invalid"}}
    \cup {Ends(None, f, h.future[f].local) :
              f \in {g \in Future : /\ h.future[g].promise = None
                                    /\ \/ available(h.future[g].local)
                                       \/ h.future[g].local = "future" /\ h.future[g].life = "live"}}
    \cup {Ends(None, t, h.task[t].state) : t \in Range(h.queue)}

Outputs(h) == [t \in Task |-> h.task[t].pr]
Handles(h) == {t \in Task : h.task[t].wrapped}

Channels == INSTANCE Channels WITH
    chan <- Chans(Heap), output <- Outputs(Heap), handles <- Handles(Heap), reported <- reported

ImplementsChannels == Channels!Spec
=============================================================================
