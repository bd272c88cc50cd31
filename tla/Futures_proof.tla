---------------------------- MODULE Futures_proof ----------------------------
(***************************************************************************)
(* Promises, futures and continuations, for any number of each: whatever   *)
(* the program does with them, their pointers agree, and what they do is   *)
(* what the channels of module Channels do.                                *)
(***************************************************************************)
EXTENDS Futures, FiniteSetTheorems, TLAPS

\* The types of a promise, a future and a continuation.
PromiseRecord == [future : Future \cup {None}, state : {"local", "task", "null", "dead"},
                  local : States, task : Task \cup {None}]
FutureRecord == [promise : Promise \cup {None}, local : States, life : {"dead", "live", "spent"}]
TaskRecord == [state : States, pr : Promise \cup {None}, wrapped : BOOLEAN]

\* h is a record of the variables, on the way through a handler.
Typed(h) == /\ h.promise \in [Promise -> PromiseRecord]
            /\ h.future \in [Future -> FutureRecord]
            /\ h.task \in [Task -> TaskRecord]
            /\ h.queue \in Seq(Task)
            /\ h.reported \in BOOLEAN

\* A promise has a continuation exactly while it writes the state of one.
Writes(h) == \A p \in Promise : (h.promise[p].state = "task") = (h.promise[p].task # None)

\* Promises and futures that point at each other.
Paired(h) ==
    /\ \A f \in Future : h.future[f].promise # None =>
          /\ h.promise[h.future[f].promise].future = f
          /\ h.promise[h.future[f].promise].state = "local"
          /\ h.future[f].life # "dead"
    /\ \A p \in Promise : h.promise[p].future # None => h.future[h.promise[p].future].promise = p

\* A future that can still be used finds a state, but for one in use.
Readable(h, used) ==
    \A f \in Future \ {used} : h.future[f].life = "live" /\ h.future[f].promise # None =>
        h.promise[h.future[f].promise].local # "invalid"

\* The continuations in the queue and those attached to promises; running is
\* the one that run_tasks has taken from the queue.
Attached(h, running) ==
    \A p \in Promise : h.promise[p].task # None =>
        /\ h.task[h.promise[p].task].pr # None
        /\ h.task[h.promise[p].task].state = "future"
        /\ h.promise[p].task # running
        /\ \A q \in Promise : h.promise[q].task = h.promise[p].task => q = p

\* Those in the queue are ready, and there once.
Queued(h, running) ==
    \A i \in DOMAIN h.queue :
        /\ h.task[h.queue[i]].pr # None
        /\ h.task[h.queue[i]].state # "future"
        /\ h.queue[i] # running
        /\ \A j \in DOMAIN h.queue : h.queue[i] = h.queue[j] => i = j

\* Every continuation is in one of the two, and has a promise of its own.
Captured(h, running) ==
    \A t \in Task : h.task[t].pr # None =>
        /\ h.promise[h.task[t].pr].state # "dead"
        /\ \A u \in Task : h.task[u].pr = h.task[t].pr => u = t
        /\ \/ t = running
           \/ \E p \in Promise : h.promise[p].task = t
           \/ \E i \in DOMAIN h.queue : h.queue[i] = t

\* All of this, but for the continuation that runs and the future in use.
Linked(h, running, used) ==
    /\ Typed(h) /\ Writes(h) /\ Paired(h) /\ Readable(h, used)
    /\ Attached(h, running) /\ Queued(h, running) /\ Captured(h, running)

\* The variables between handlers, when nothing is running or in use.
Now == [promise |-> promise, future |-> future, task |-> task,
        queue |-> _pending_tasks, reported |-> reported]
\* The inductive invariant.
IInv == Linked(Now, None, None)

-----------------------------------------------------------------------------
\* promise::set_value and make_ready.
LEMMA SetLinks ==
    ASSUME NEW h, NEW running, NEW used, Linked(h, running, used),
           NEW p \in Promise, NEW v \in {"result", "exception"}
    PROVE  /\ Linked(set(h, p, v), running, used)
           /\ set(h, p, v).future = h.future
           /\ \A t \in Task : set(h, p, v).task[t].pr = h.task[t].pr
<1>1. PICK k : k = set(h, p, v)
  OBVIOUS
<1>2. Typed(h) /\ None \notin Promise \cup Future \cup Task
  BY AddressAssumption DEF Linked
<1>3. CASE h.promise[p].task = None
  <2>1. /\ k.promise = [h.promise EXCEPT ![p].local = v]
        /\ k.future = h.future /\ k.task = h.task /\ k.queue = h.queue /\ k.reported = h.reported
    BY <1>1, <1>2, <1>3 DEF set, Typed
  <2>2. Typed(k)
    BY <1>2, <2>1, SMTT(40) DEF Typed, PromiseRecord, States
  <2>3. /\ \A q \in Promise : /\ k.promise[q].future = h.promise[q].future
                              /\ k.promise[q].state = h.promise[q].state
                              /\ k.promise[q].task = h.promise[q].task
                              /\ k.promise[q].local \in {v, h.promise[q].local}
    BY <1>2, <2>1 DEF Typed, PromiseRecord
  <2>4. Writes(k)
    BY <2>3 DEF Linked, Writes
  <2>5. Paired(k) /\ Readable(k, used)
    BY <1>2, <2>1, <2>3 DEF Linked, Paired, Readable, Typed, PromiseRecord, FutureRecord
  <2>6. Attached(k, running) /\ Queued(k, running)
    BY <1>2, <2>1, <2>3 DEF Linked, Attached, Queued
  <2>7. Captured(k, running)
    BY <1>2, <2>1, <2>3 DEF Linked, Captured, Typed, TaskRecord
  <2> QED BY <1>1, <2>1, <2>2, <2>4, <2>5, <2>6, <2>7 DEF Linked
<1>4. CASE h.promise[p].task # None
  <2>1. PICK t \in Task : t = h.promise[p].task
    BY <1>2, <1>4 DEF Typed, PromiseRecord
  <2>2. /\ k.promise = [h.promise EXCEPT ![p].task = None, ![p].state = "null"]
        /\ k.future = h.future /\ k.reported = h.reported
        /\ k.task = [h.task EXCEPT ![t].state = v]
        /\ k.queue = Append(h.queue, t)
    BY <1>1, <1>2, <1>4, <2>1 DEF set, Typed
  <2>3. /\ \A q \in Promise : /\ k.promise[q].future = h.promise[q].future
                              /\ k.promise[q].local = h.promise[q].local
                              /\ q # p => k.promise[q] = h.promise[q]
        /\ k.promise[p].task = None /\ k.promise[p].state = "null"
    BY <1>2, <2>2 DEF Typed, PromiseRecord
  <2>4. /\ \A u \in Task : k.task[u].pr = h.task[u].pr /\ (u # t => k.task[u] = h.task[u])
        /\ k.task[t].state = v
    BY <1>2, <2>2 DEF Typed, TaskRecord
  <2>5. /\ DOMAIN k.queue = 1 .. Len(h.queue) + 1
        /\ DOMAIN h.queue = 1 .. Len(h.queue) /\ Len(h.queue) \in Nat
        /\ \A i \in DOMAIN h.queue : k.queue[i] = h.queue[i]
        /\ k.queue[Len(h.queue) + 1] = t
    BY <1>2, <2>2 DEF Typed
  <2>6. Typed(k)
    <3>1. k.promise \in [Promise -> PromiseRecord]
      BY <1>2, <2>2, SMTT(40) DEF Typed, PromiseRecord, States
    <3>2. k.task \in [Task -> TaskRecord]
      <4>1. PICK x : x = h.task[t]
        OBVIOUS
      <4>2. [x EXCEPT !.state = v] \in TaskRecord
        BY <1>2, <4>1 DEF Typed, TaskRecord, States
      <4> QED BY <1>2, <2>2, <4>1, <4>2 DEF Typed
    <3>3. k.queue \in Seq(Task)
      BY <1>2, <2>2 DEF Typed
    <3> QED BY <1>2, <2>2, <3>1, <3>2, <3>3 DEF Typed
  <2>7. h.promise[p].state = "task" /\ h.promise[p].future = None
    BY <1>2, <1>4 DEF Linked, Writes, Paired, Typed, PromiseRecord
  <2>8. Writes(k)
    BY <1>2, <2>3, SMTT(40) DEF Linked, Writes
  <2>9. Paired(k) /\ Readable(k, used)
    <3>1. Paired(k)
      BY <1>2, <2>2, <2>3, <2>7, SMTT(40) DEF Linked, Paired, Typed, PromiseRecord, FutureRecord
    <3>2. Readable(k, used)
      BY <1>2, <2>2, <2>3, <2>7, SMTT(40) DEF Linked, Readable, Typed, PromiseRecord, FutureRecord
    <3> QED BY <3>1, <3>2
  <2>10. /\ h.task[t].pr # None /\ h.task[t].state = "future" /\ t # running
         /\ \A q \in Promise : h.promise[q].task = t => q = p
    BY <1>4, <2>1 DEF Linked, Attached
  <2>11. Attached(k, running)
    BY <1>2, <2>1, <2>3, <2>4, <2>10 DEF Linked, Attached, Typed, PromiseRecord
  <2>12. \A i \in DOMAIN h.queue : h.queue[i] \in Task /\ h.queue[i] # t
    BY <1>2, <2>10 DEF Linked, Queued, Typed
  <2>13. Queued(k, running)
    <3>1. \A i \in DOMAIN k.queue : i \in DOMAIN h.queue \/ i = Len(h.queue) + 1
      BY <2>5
    <3>2. ASSUME NEW i \in DOMAIN h.queue
          PROVE  /\ k.queue[i] = h.queue[i] /\ k.task[k.queue[i]] = h.task[h.queue[i]]
                 /\ k.queue[i] # k.queue[Len(h.queue) + 1]
      BY <2>4, <2>5, <2>12
    <3>3. Queued(h, running)
      BY DEF Linked
    <3>4. /\ k.task[t].pr # None /\ k.task[t].state # "future" /\ t # running
      BY <2>4, <2>10
    <3> QED BY <2>5, <3>1, <3>2, <3>3, <3>4 DEF Queued
  <2>14. Captured(k, running)
    <3>1. SUFFICES ASSUME NEW u \in Task, k.task[u].pr # None
                   PROVE  /\ k.promise[k.task[u].pr].state # "dead"
                          /\ \A w \in Task : k.task[w].pr = k.task[u].pr => w = u
                          /\ \/ u = running
                             \/ \E q \in Promise : k.promise[q].task = u
                             \/ \E i \in DOMAIN k.queue : k.queue[i] = u
      BY DEF Captured
    <3>2. /\ h.promise[h.task[u].pr].state # "dead" /\ h.task[u].pr \in Promise
          /\ \A w \in Task : h.task[w].pr = h.task[u].pr => w = u
          /\ \/ u = running
             \/ \E q \in Promise : h.promise[q].task = u
             \/ \E i \in DOMAIN h.queue : h.queue[i] = u
      BY <1>2, <2>4, <3>1 DEF Linked, Captured, Typed, TaskRecord
    <3>3. k.promise[k.task[u].pr].state # "dead"
      BY <2>3, <2>4, <3>2
    <3>4. ASSUME u # t, NEW q \in Promise, h.promise[q].task = u
          PROVE  k.promise[q].task = u
      BY <2>1, <2>3, <3>4
    <3>5. CASE u = t
      BY <2>4, <2>5, <3>2, <3>3, <3>5
    <3>6. CASE u # t
      BY <2>4, <2>5, <3>2, <3>3, <3>4, <3>6
    <3> QED BY <3>5, <3>6
  <2> QED BY <1>1, <2>2, <2>4, <2>6, <2>8, <2>9, <2>11, <2>13, <2>14 DEF Linked
<1> QED BY <1>3, <1>4

\* The state of a future is moved out by the one that uses it.
LEMMA MovedLinks ==
    ASSUME NEW h, NEW running, NEW f \in Future, Linked(h, running, f)
    PROVE  Linked(Moved(h, f), running, f) /\ Moved(h, f).task = h.task
<1>1. PICK k : k = Moved(h, f)
  OBVIOUS
<1>2. Typed(h) /\ None \notin Promise \cup Future \cup Task
  BY AddressAssumption, SMTT(40) DEF Linked
<1>3. CASE h.future[f].promise = None
  <2>1. /\ k.future = [h.future EXCEPT ![f].local = "invalid"]
        /\ k.promise = h.promise /\ k.task = h.task /\ k.queue = h.queue /\ k.reported = h.reported
    BY <1>1, <1>2, <1>3 DEF Moved, Typed
  <2>2. Typed(k)
    <3>1. PICK x : x = h.future[f]
      OBVIOUS
    <3>2. [x EXCEPT !.local = "invalid"] \in FutureRecord
      BY <1>2, <3>1 DEF Typed, FutureRecord, States
    <3> QED BY <1>2, <2>1, <3>1, <3>2 DEF Typed
  <2>3. \A g \in Future : /\ k.future[g].promise = h.future[g].promise
                          /\ k.future[g].life = h.future[g].life
    BY <1>2, <2>1, SMTT(40) DEF Typed, FutureRecord
  <2>4. Paired(k) /\ Readable(k, f)
    BY <1>2, <2>1, <2>3 DEF Linked, Paired, Readable, Typed, PromiseRecord
  <2> QED BY <1>1, <2>1, <2>2, <2>4 DEF Linked, Writes, Attached, Queued, Captured
<1>4. CASE h.future[f].promise # None
  <2>1. PICK p \in Promise : p = h.future[f].promise
    BY <1>2, <1>4 DEF Typed, FutureRecord
  <2>2. /\ k.promise = [h.promise EXCEPT ![p].local = "invalid"]
        /\ k.future = h.future /\ k.task = h.task /\ k.queue = h.queue /\ k.reported = h.reported
    BY <1>1, <1>2, <1>4, <2>1 DEF Moved, Typed
  <2>3. Typed(k)
    <3>1. PICK x : x = h.promise[p]
      OBVIOUS
    <3>2. x \in PromiseRecord
      BY <1>2, <3>1 DEF Typed
    <3>3. [x EXCEPT !.local = "invalid"] \in PromiseRecord
      BY <3>2 DEF PromiseRecord, States
    <3> QED BY <1>2, <2>2, <3>1, <3>3 DEF Typed
  <2>4. \A q \in Promise : /\ k.promise[q].future = h.promise[q].future
                           /\ k.promise[q].state = h.promise[q].state
                           /\ k.promise[q].task = h.promise[q].task
                           /\ q # p => k.promise[q].local = h.promise[q].local
    BY <1>2, <2>2 DEF Typed, PromiseRecord
  <2>5. \A g \in Future : g # f => h.future[g].promise # p
    BY <1>4, <2>1 DEF Linked, Paired
  <2>6. Paired(k)
    BY <1>2, <2>2, <2>4 DEF Linked, Paired, Typed, FutureRecord
  <2>7. Readable(k, f)
    BY <1>2, <2>2, <2>4, <2>5, SMTT(40) DEF Linked, Readable, Typed, FutureRecord
  <2>8. Writes(k) /\ Attached(k, running) /\ Queued(k, running)
    BY <1>2, <2>2, <2>4 DEF Linked, Writes, Attached, Queued
  <2>9. Captured(k, running)
    BY <1>2, <2>2, <2>4, SMTT(40) DEF Linked, Captured, Typed, TaskRecord
  <2> QED BY <1>1, <2>2, <2>3, <2>6, <2>7, <2>8, <2>9 DEF Linked
<1> QED BY <1>3, <1>4

\* A future that was in use is used up.
LEMMA SpentLinks ==
    ASSUME NEW h, NEW running, NEW f \in Future, Linked(h, running, f)
    PROVE  Linked([h EXCEPT !.future[f].life = "spent"], running, None)
<1>1. PICK k : k = [h EXCEPT !.future[f].life = "spent"]
  OBVIOUS
<1>2. Typed(h) /\ None \notin Promise \cup Future \cup Task
  BY AddressAssumption DEF Linked
<1>3. /\ k.future = [h.future EXCEPT ![f].life = "spent"]
      /\ k.promise = h.promise /\ k.task = h.task /\ k.queue = h.queue /\ k.reported = h.reported
  BY <1>1, <1>2 DEF Typed
<1>4. Typed(k)
  <2>1. PICK x : x = h.future[f]
    OBVIOUS
  <2>2. [x EXCEPT !.life = "spent"] \in FutureRecord
    BY <1>2, <2>1 DEF Typed, FutureRecord, States
  <2> QED BY <1>2, <1>3, <2>1, <2>2 DEF Typed
<1>5. \A g \in Future : /\ k.future[g].promise = h.future[g].promise
                        /\ k.future[g].life = IF g = f THEN "spent" ELSE h.future[g].life
  BY <1>2, <1>3, SMTT(40) DEF Typed, FutureRecord
<1>6. Paired(k) /\ Readable(k, None)
  BY <1>2, <1>3, <1>5 DEF Linked, Paired, Readable, Typed, PromiseRecord
<1> QED BY <1>1, <1>3, <1>4, <1>6 DEF Linked, Writes, Attached, Queued, Captured

\* future::~future
LEMMA DestroyFutureLinks ==
    ASSUME NEW h, NEW running, NEW f \in Future, Linked(h, running, f)
    PROVE  Linked(destroyFuture(h, f), running, None) /\ destroyFuture(h, f).task = h.task
<1>1. PICK k, p : k = destroyFuture(h, f) /\ p = h.future[f].promise
  OBVIOUS
<1>2. Typed(h) /\ None \notin Promise \cup Future \cup Task
  BY AddressAssumption DEF Linked
<1>3. /\ k.promise = IF p = None THEN h.promise ELSE [h.promise EXCEPT ![p].future = None]
      /\ k.future = [h.future EXCEPT ![f] = DeadFuture]
      /\ k.task = h.task /\ k.queue = h.queue
      /\ k.reported = (h.reported \/ state(h, f) = "exception")
  BY <1>1, <1>2 DEF destroyFuture, Typed
<1>4. p \in Promise \cup {None}
  BY <1>1, <1>2 DEF Typed, FutureRecord
<1>5. Typed(k)
  <2>1. PICK x : x = h.promise[p]
    OBVIOUS
  <2>2. p # None => [x EXCEPT !.future = None] \in PromiseRecord
    BY <1>2, <1>4, <2>1 DEF Typed, PromiseRecord
  <2>3. k.promise \in [Promise -> PromiseRecord]
    BY <1>2, <1>3, <1>4, <2>1, <2>2 DEF Typed
  <2>4. k.future \in [Future -> FutureRecord]
    BY <1>2, <1>3 DEF Typed, FutureRecord, DeadFuture, States
  <2> QED BY <1>2, <1>3, <2>3, <2>4 DEF Typed
<1>6. /\ \A q \in Promise : /\ k.promise[q].state = h.promise[q].state
                            /\ k.promise[q].task = h.promise[q].task
                            /\ k.promise[q].local = h.promise[q].local
                            /\ k.promise[q].future = IF q = p THEN None ELSE h.promise[q].future
  BY <1>2, <1>3, <1>4 DEF Typed, PromiseRecord
<1>7. \A g \in Future : g # f => k.future[g] = h.future[g] /\ h.future[g].promise \in Promise \cup {None}
  BY <1>2, <1>3 DEF Typed, FutureRecord
<1>8. k.future[f].promise = None /\ k.future[f].life = "dead"
  BY <1>2, <1>3 DEF Typed, DeadFuture
<1>9. /\ \A g \in Future : g # f => p = None \/ h.future[g].promise # p
      /\ \A q \in Promise : q # p => h.promise[q].future # f
  BY <1>1, <1>2, <1>4 DEF Linked, Paired
<1>10. Paired(k)
  <2>1. \A q \in Promise : h.promise[q].future \in Future \cup {None}
    BY <1>2 DEF Typed, PromiseRecord
  <2> QED BY <1>2, <1>6, <1>7, <1>8, <1>9, <2>1, SMTT(40) DEF Linked, Paired
<1>11. Readable(k, None)
  BY <1>2, <1>6, <1>7, <1>8 DEF Linked, Readable
<1>12. Writes(k) /\ Attached(k, running) /\ Queued(k, running)
  BY <1>2, <1>3, <1>6 DEF Linked, Writes, Attached, Queued
<1>13. Captured(k, running)
  BY <1>2, <1>3, <1>6 DEF Linked, Captured, Typed, TaskRecord
<1> QED BY <1>1, <1>3, <1>5, <1>10, <1>11, <1>12, <1>13 DEF Linked

\* What p was to write, and whom it was to tell, has gone over to q.
TakenOver(h, k, p, q) ==
    /\ k.promise[q] = h.promise[p]
    /\ k.promise[p].future = None /\ k.promise[p].task = None
    /\ k.promise[p].state \in {"null", "dead"}
    /\ \A r \in Promise \ {p, q} : k.promise[r] = h.promise[r]
    /\ \A f \in Future : /\ k.future[f].life = h.future[f].life
                         /\ k.future[f].promise = IF h.future[f].promise = p THEN q
                                                  ELSE IF h.future[f].promise = q THEN None
                                                  ELSE h.future[f].promise
    /\ k.task = h.task /\ k.queue = h.queue

\* promise::promise(promise&&), or forward_to.
LEMMA TakenOverLinks ==
    ASSUME NEW h, NEW k, NEW running, NEW used, Linked(h, running, used), Typed(k),
           NEW p \in Promise, NEW q \in Promise, p # q, TakenOver(h, k, p, q),
           h.promise[q].task = None, h.promise[p].state # "dead",
           k.promise[p].state = "dead" => \A t \in Task : h.task[t].pr # p
    PROVE  Linked(k, running, used)
<1>1. Typed(h) /\ None \notin Promise \cup Future \cup Task
  BY AddressAssumption DEF Linked
<1>2. /\ \A r \in Promise : /\ h.promise[r].future \in Future \cup {None}
                            /\ h.promise[r].task \in Task \cup {None}
      /\ \A f \in Future : h.future[f].promise \in Promise \cup {None}
      /\ \A t \in Task : h.task[t].pr \in Promise \cup {None}
  BY <1>1 DEF Typed, PromiseRecord, FutureRecord, TaskRecord
<1>3. Writes(k)
  BY DEF Linked, Writes, TakenOver
<1>4. Paired(k)
  <2>1. ASSUME NEW f \in Future, k.future[f].promise # None
        PROVE  /\ k.promise[k.future[f].promise].future = f
               /\ k.promise[k.future[f].promise].state = "local"
               /\ k.future[f].life # "dead"
    BY <1>1, <1>2, <2>1, SMTT(40) DEF Linked, Paired, TakenOver
  <2>2. ASSUME NEW r \in Promise, k.promise[r].future # None
        PROVE  k.future[k.promise[r].future].promise = r
    BY <1>1, <1>2, <2>2, SMTT(40) DEF Linked, Paired, TakenOver
  <2> QED BY <2>1, <2>2 DEF Paired
<1>5. Readable(k, used)
  BY <1>1, <1>2 DEF Linked, Readable, TakenOver
<1>6. Attached(k, running)
  <2>1. SUFFICES ASSUME NEW r \in Promise, k.promise[r].task # None
                 PROVE  /\ k.task[k.promise[r].task].pr # None
                        /\ k.task[k.promise[r].task].state = "future"
                        /\ k.promise[r].task # running
                        /\ \A s \in Promise : k.promise[s].task = k.promise[r].task => s = r
    BY DEF Attached
  <2>2. Attached(h, running)
    BY DEF Linked
  <2> QED BY <1>2, <2>1, <2>2 DEF Attached, TakenOver
<1>7. Queued(k, running)
  BY DEF Linked, Queued, TakenOver
<1>8. Captured(k, running)
  <2>1. SUFFICES ASSUME NEW u \in Task, k.task[u].pr # None
                 PROVE  /\ k.promise[k.task[u].pr].state # "dead"
                        /\ \A w \in Task : k.task[w].pr = k.task[u].pr => w = u
                        /\ \/ u = running
                           \/ \E r \in Promise : k.promise[r].task = u
                           \/ \E i \in DOMAIN k.queue : k.queue[i] = u
    BY DEF Captured
  <2>2. Captured(h, running) /\ k.task = h.task /\ k.queue = h.queue
    BY DEF Linked, TakenOver
  <2>3. k.promise[k.task[u].pr].state # "dead"
    BY <1>2, <2>1, <2>2 DEF Captured, TakenOver
  <2>4. ASSUME NEW r \in Promise, h.promise[r].task = u PROVE \E s \in Promise : k.promise[s].task = u
    BY <1>1, <2>4 DEF TakenOver
  <2> QED BY <2>1, <2>2, <2>3, <2>4 DEF Captured
<1> QED BY <1>3, <1>4, <1>5, <1>6, <1>7, <1>8 DEF Linked

\* future_state::forward_to, for a future that is used up by it.
LEMMA ForwardLinks ==
    ASSUME NEW h, NEW running, Linked(h, running, None),
           NEW f \in Future, NEW p \in Promise,
           h.promise[p].state # "dead",
           available(state(h, f)) \/ (h.future[f].promise # None /\ h.future[f].promise # p)
    PROVE  /\ Linked(forward_to(h, f, p), running, f)
           /\ \A t \in Task : forward_to(h, f, p).task[t].pr = h.task[t].pr
<1>1. Typed(h) /\ None \notin Promise \cup Future \cup Task
  BY AddressAssumption DEF Linked
<1>2. Linked(h, running, f)
  BY <1>1 DEF Linked, Readable
<1>3. CASE available(state(h, f))
  <2>1. PICK v, k : v = state(h, f) /\ k = set(h, p, v)
    OBVIOUS
  <2>2. v \in {"result", "exception"}
    BY <1>3, <2>1 DEF available
  <2>3. Linked(k, running, f) /\ \A t \in Task : k.task[t].pr = h.task[t].pr
    BY <1>2, <2>1, <2>2, SetLinks
  <2>4. forward_to(h, f, p) = Moved(k, f)
    BY <1>3, <2>1 DEF forward_to
  <2>5. Linked(Moved(k, f), running, f) /\ Moved(k, f).task = k.task
    BY <2>3, MovedLinks
  <2> QED BY <2>3, <2>4, <2>5
<1>4. CASE ~available(state(h, f))
  <2>1. PICK q \in Promise : q = h.future[f].promise /\ q # p
    BY <1>1, <1>4 DEF Typed, FutureRecord
  <2>2. PICK m : m = [h EXCEPT !.future[f].promise = None]
    OBVIOUS
  <2>3. PICK k, g : k = move(m, p, q) /\ g = h.promise[p].future
    OBVIOUS
  <2>4. forward_to(h, f, p) = k
    BY <1>4, <2>1, <2>2, <2>3 DEF forward_to
  <2>5. /\ m.promise = h.promise /\ m.task = h.task /\ m.queue = h.queue /\ m.reported = h.reported
        /\ m.future = [h.future EXCEPT ![f].promise = None]
    BY <1>1, <2>2 DEF Typed
  <2>6. m.future \in [Future -> FutureRecord] /\ Typed(m)
    <3>1. PICK x : x = h.future[f]
      OBVIOUS
    <3>2. [x EXCEPT !.promise = None] \in FutureRecord
      BY <1>1, <3>1 DEF Typed, FutureRecord
    <3> QED BY <1>1, <2>2, <2>5, <3>1, <3>2 DEF Typed
  <2>7. /\ k.promise = [h.promise EXCEPT ![q] = h.promise[p], ![p] = NullPromise]
        /\ k.future = IF g = None THEN m.future ELSE [m.future EXCEPT ![g].promise = q]
        /\ k.task = h.task /\ k.queue = h.queue /\ k.reported = h.reported
    BY <2>3, <2>5, <2>6 DEF move, Typed
  <2>8. g \in Future \cup {None}
    BY <1>1, <2>3 DEF Typed, PromiseRecord
  <2>9. NullPromise \in PromiseRecord
    BY DEF NullPromise, PromiseRecord, States
  <2>10. Typed(k)
    <3>1. k.promise \in [Promise -> PromiseRecord]
      BY <1>1, <2>7, <2>9 DEF Typed
    <3>2. k.future \in [Future -> FutureRecord]
      <4>1. PICK x : x = m.future[g]
        OBVIOUS
      <4>2. g # None => [x EXCEPT !.promise = q] \in FutureRecord
        BY <2>6, <2>8, <4>1 DEF Typed, FutureRecord
      <4> QED BY <2>6, <2>7, <2>8, <4>1, <4>2
    <3> QED BY <1>1, <2>7, <3>1, <3>2 DEF Typed
  <2>11. /\ k.promise[q] = h.promise[p] /\ k.promise[p] = NullPromise
         /\ \A r \in Promise \ {p, q} : k.promise[r] = h.promise[r]
    BY <1>1, <2>1, <2>7 DEF Typed
  <2>12. /\ h.promise[q].future = f /\ h.promise[q].state = "local" /\ h.promise[q].task = None
         /\ \A x \in Future : /\ h.future[x].promise = p <=> x = g
                              /\ h.future[x].promise = q <=> x = f
    BY <1>1, <2>1, <2>3, <2>8 DEF Linked, Writes, Paired, Typed
  <2>13. g # f
    BY <2>1, <2>12
  <2>14. \A x \in Future :
            /\ k.future[x].life = h.future[x].life
            /\ k.future[x].promise = IF x = g THEN q ELSE IF x = f THEN None ELSE h.future[x].promise
    <3>1. \A x \in Future : /\ m.future[x].life = h.future[x].life
                            /\ m.future[x].promise = IF x = f THEN None ELSE h.future[x].promise
      BY <1>1, <2>5 DEF Typed, FutureRecord
    <3>2. \A x \in Future : /\ k.future[x].life = m.future[x].life
                            /\ k.future[x].promise = IF x = g THEN q ELSE m.future[x].promise
      BY <1>1, <2>6, <2>7, <2>8 DEF FutureRecord
    <3> QED BY <2>13, <3>1, <3>2
  <2>15. TakenOver(h, k, p, q)
    BY <2>7, <2>11, <2>12, <2>14 DEF TakenOver, NullPromise
  <2>16. k.promise[p].state # "dead"
    BY <2>11 DEF NullPromise
  <2>17. Linked(k, running, f)
    BY <1>2, <2>1, <2>10, <2>12, <2>15, <2>16, TakenOverLinks
  <2> QED BY <2>4, <2>7, <2>17
<1> QED BY <1>3, <1>4

-----------------------------------------------------------------------------
\* The promises that go away with p: p, and one for each continuation attached
\* to one of them.
LEMMA ChainFacts ==
    ASSUME NEW h, NEW running, NEW used, Linked(h, running, used), NEW p \in Promise
    PROVE  /\ p \in Chain(h, p) /\ Chain(h, p) \subseteq Promise /\ Passes(h, Chain(h, p))
           /\ \A q \in Chain(h, p) : \/ q = p
                                     \/ \E x \in Chain(h, p) : /\ h.promise[x].task # None
                                                               /\ h.task[h.promise[x].task].pr = q
<1> DEFINE C == Chain(h, p)
<1>1. /\ C \subseteq Promise
      /\ \A q \in Promise : q \in C <=> \A P \in SUBSET Promise : p \in P /\ Passes(h, P) => q \in P
  BY DEF Chain
<1> HIDE DEF C
<1>2. p \in C
  BY <1>1
<1>3. \A q \in Promise : h.promise[q].task # None => h.task[h.promise[q].task].pr \in Promise
  BY AddressAssumption DEF Linked, Attached, Typed, PromiseRecord, TaskRecord
<1>4. Passes(h, C)
  <2>1. SUFFICES ASSUME NEW q \in C, h.promise[q].task # None PROVE h.task[h.promise[q].task].pr \in C
    BY DEF Passes
  <2>2. PICK r \in Promise : r = h.task[h.promise[q].task].pr
    BY <1>1, <1>3, <2>1
  <2>3. ASSUME NEW P \in SUBSET Promise, p \in P, Passes(h, P) PROVE r \in P
    BY <1>1, <2>1, <2>2, <2>3, SMTT(40) DEF Passes
  <2> QED BY <1>1, <2>2, <2>3
<1>5. ASSUME NEW q \in C
      PROVE  q = p \/ \E x \in C : h.promise[x].task # None /\ h.task[h.promise[x].task].pr = q
  <2>1. PICK P : P = {r \in C : r = p \/ \E x \in C : /\ h.promise[x].task # None
                                                      /\ h.task[h.promise[x].task].pr = r}
    BY ZenonT(60)
  <2>2. P \in SUBSET Promise /\ p \in P
    BY <1>1, <1>2, <2>1
  <2>3. Passes(h, P)
    BY <1>4, <2>1, ZenonT(60) DEF Passes
  <2> QED BY <1>1, <2>1, <2>2, <2>3
<1> QED BY <1>1, <1>2, <1>4, <1>5 DEF C

\* promise::~promise, with all that goes away with it.
LEMMA DestroyLinks ==
    ASSUME NEW h, Linked(h, None, None), NEW p \in Promise,
           \A t \in Task : h.task[t].pr # p
    PROVE  Linked(destroy(h, p), None, None)
<1>1. Typed(h) /\ None \notin Promise \cup Future \cup Task
  BY AddressAssumption DEF Linked
<1>2. PICK k, C, T, F : /\ k = destroy(h, p) /\ C = Chain(h, p)
                        /\ T = {h.promise[q].task : q \in C} \ {None}
                        /\ F = {h.promise[q].future : q \in C} \ {None}
  OBVIOUS
<1>3. k.future = [f \in Future |->
            IF f \in F THEN [h.future[f] EXCEPT !.local = state(h, f), !.promise = None]
            ELSE h.future[f]]
  BY <1>2 DEF destroy
<1>4. k.promise = [q \in Promise |-> IF q \in C THEN DeadPromise ELSE h.promise[q]]
  BY <1>2 DEF destroy
<1>5. k.task = [t \in Task |-> IF t \in T THEN NoTask ELSE h.task[t]]
  BY <1>2 DEF destroy
<1>6. k.queue = h.queue /\ k.reported \in BOOLEAN
  <2>1. h.reported \in BOOLEAN
    BY <1>1 DEF Typed
  <2> QED BY <1>2, <2>1 DEF destroy
<1>7. /\ p \in C /\ C \subseteq Promise /\ Passes(h, C)
      /\ \A q \in C : q = p \/ \E x \in C : /\ h.promise[x].task # None
                                            /\ h.task[h.promise[x].task].pr = q
  BY <1>2, ChainFacts
<1>8. \A q \in Promise : /\ h.promise[q] \in PromiseRecord
                         /\ h.promise[q].future \in Future \cup {None}
                         /\ h.promise[q].task \in Task \cup {None}
  BY <1>1 DEF Typed, PromiseRecord
<1>9. /\ T \subseteq Task /\ \A q \in Promise : h.promise[q].task # None =>
                                (q \in C <=> h.promise[q].task \in T)
  <2>1. \A q, r \in Promise : h.promise[q].task # None /\ h.promise[q].task = h.promise[r].task => q = r
    BY DEF Linked, Attached
  <2> QED BY <1>2, <1>7, <1>8, <2>1
<1>10. /\ F \subseteq Future /\ \A f \in Future : f \in F <=> h.future[f].promise \in C
  <2>1. F \subseteq Future
    BY <1>2, <1>7, <1>8
  <2>2. ASSUME NEW f \in Future, h.future[f].promise \in C PROVE f \in F
    BY <1>1, <1>2, <1>7, <2>2 DEF Linked, Paired
  <2>3. ASSUME NEW f \in F PROVE h.future[f].promise \in C
    BY <1>2, <1>7, <2>3 DEF Linked, Paired
  <2> QED BY <2>1, <2>2, <2>3
<1>11. /\ \A q \in C : k.promise[q] = DeadPromise
      /\ \A q \in Promise \ C : k.promise[q] = h.promise[q]
  BY <1>4, <1>7
<1>12. /\ \A t \in T : k.task[t] = NoTask
      /\ \A t \in Task \ T : k.task[t] = h.task[t]
  BY <1>5, <1>9
<1>13. \A f \in Future : /\ k.future[f].life = h.future[f].life
                         /\ k.future[f].promise = IF f \in F THEN None ELSE h.future[f].promise
  <2>1. SUFFICES ASSUME NEW f \in Future
                 PROVE  /\ k.future[f].life = h.future[f].life
                        /\ k.future[f].promise = IF f \in F THEN None ELSE h.future[f].promise
    OBVIOUS
  <2>2. PICK x, v : x = h.future[f] /\ v = state(h, f)
    OBVIOUS
  <2>3. x \in FutureRecord /\ k.future[f] = IF f \in F THEN [x EXCEPT !.local = v, !.promise = None] ELSE x
    BY <1>1, <1>3, <2>2 DEF Typed
  <2> QED BY <2>2, <2>3 DEF FutureRecord
<1>14. \A f \in Future : state(h, f) \in States
  <2>1. SUFFICES ASSUME NEW f \in Future PROVE state(h, f) \in States
    OBVIOUS
  <2>2. ASSUME NEW q \in Promise PROVE Written(h, q) \in States
    <3>1. h.promise[q].local \in States /\ "invalid" \in States
      BY <1>8 DEF PromiseRecord, States
    <3>2. h.promise[q].state = "task" => h.promise[q].task \in Task
      BY <1>8 DEF Linked, Writes
    <3>3. \A t \in Task : h.task[t].state \in States
      BY <1>1 DEF Typed, TaskRecord
    <3> QED BY <3>1, <3>2, <3>3 DEF Written
  <2>3. h.future[f].local \in States /\ h.future[f].promise \in Promise \cup {None}
    BY <1>1 DEF Typed, FutureRecord
  <2> QED BY <2>2, <2>3 DEF state
<1>15. Typed(k)
  <2>1. DeadPromise \in PromiseRecord /\ NoTask \in TaskRecord
    BY DEF DeadPromise, NullPromise, NoTask, PromiseRecord, TaskRecord, States
  <2>2. k.promise \in [Promise -> PromiseRecord]
    BY <1>4, <1>8, <2>1
  <2>3. k.task \in [Task -> TaskRecord]
    <3>1. \A t \in Task : h.task[t] \in TaskRecord
      BY <1>1 DEF Typed
    <3> QED BY <1>5, <2>1, <3>1
  <2>4. k.future \in [Future -> FutureRecord]
    <3>1. ASSUME NEW f \in Future, NEW s \in States
          PROVE  [h.future[f] EXCEPT !.local = s, !.promise = None] \in FutureRecord
      <4>1. PICK x : x = h.future[f]
        OBVIOUS
      <4>2. x \in FutureRecord
        BY <1>1, <4>1 DEF Typed
      <4> QED BY <4>1, <4>2 DEF FutureRecord
    <3>2. \A f \in Future : h.future[f] \in FutureRecord
      BY <1>1 DEF Typed
    <3> DEFINE new(f) == [h.future[f] EXCEPT !.local = state(h, f), !.promise = None]
    <3>3. \A f \in Future : new(f) \in FutureRecord
      BY <1>14, <3>1
    <3>4. k.future = [f \in Future |-> IF f \in F THEN new(f) ELSE h.future[f]]
      BY <1>3
    <3> HIDE DEF new
    <3> QED BY <3>2, <3>3, <3>4
  <2> QED BY <1>1, <1>6, <2>2, <2>3, <2>4 DEF Typed
<1>16. Writes(k)
  BY <1>11 DEF Linked, Writes, DeadPromise, NullPromise
<1>17. Paired(k)
  <2>1. ASSUME NEW f \in Future, k.future[f].promise # None
        PROVE  /\ k.promise[k.future[f].promise].future = f
               /\ k.promise[k.future[f].promise].state = "local"
               /\ k.future[f].life # "dead"
    <3>1. f \notin F /\ h.future[f].promise = k.future[f].promise
      BY <1>13, <2>1
    <3>2. h.future[f].promise \in Promise \ C
      BY <1>1, <1>10, <2>1, <3>1 DEF Typed, FutureRecord
    <3> QED BY <1>11, <1>13, <2>1, <3>1, <3>2 DEF Linked, Paired
  <2>2. ASSUME NEW q \in Promise, k.promise[q].future # None
        PROVE  k.future[k.promise[q].future].promise = q
    <3>1. q \notin C /\ k.promise[q] = h.promise[q]
      BY <1>11, <2>2 DEF DeadPromise, NullPromise
    <3>2. h.promise[q].future \in Future /\ h.future[h.promise[q].future].promise = q
      BY <1>8, <2>2, <3>1 DEF Linked, Paired
    <3> QED BY <1>10, <1>13, <3>1, <3>2
  <2> QED BY <2>1, <2>2 DEF Paired
<1>18. Readable(k, None)
  <2>1. SUFFICES ASSUME NEW f \in Future, k.future[f].life = "live", k.future[f].promise # None
                 PROVE  k.promise[k.future[f].promise].local # "invalid"
    BY DEF Readable
  <2>2. f \notin F /\ h.future[f].promise = k.future[f].promise /\ h.future[f].life = "live"
    BY <1>13, <2>1
  <2>3. h.future[f].promise \in Promise \ C
    BY <1>1, <1>10, <2>1, <2>2 DEF Typed, FutureRecord
  <2> QED BY <1>1, <1>11, <2>1, <2>2, <2>3 DEF Linked, Readable
<1>19. Attached(k, None)
  <2>1. SUFFICES ASSUME NEW q \in Promise, k.promise[q].task # None
                 PROVE  /\ k.task[k.promise[q].task].pr # None
                        /\ k.task[k.promise[q].task].state = "future"
                        /\ k.promise[q].task # None
                        /\ \A r \in Promise : k.promise[r].task = k.promise[q].task => r = q
    BY DEF Attached
  <2>2. q \notin C /\ k.promise[q] = h.promise[q]
    BY <1>11, <2>1 DEF DeadPromise, NullPromise
  <2>3. h.promise[q].task \in Task \ T
    BY <1>8, <1>9, <2>1, <2>2
  <2>4. \A r \in Promise : k.promise[r].task # None => k.promise[r].task = h.promise[r].task
    BY <1>11 DEF DeadPromise, NullPromise
  <2>5. Attached(h, None)
    BY DEF Linked
  <2> QED BY <1>12, <2>1, <2>2, <2>3, <2>4, <2>5 DEF Attached
<1>20. Queued(k, None)
  <2>1. ASSUME NEW i \in DOMAIN h.queue PROVE h.queue[i] \in Task \ T
    <3>1. h.queue[i] \in Task
      BY <1>1, <2>1 DEF Typed
    <3>2. \A q \in C : h.promise[q].task # h.queue[i]
      BY <1>1, <1>7, <3>1 DEF Linked, Attached, Queued
    <3> QED BY <1>2, <3>1, <3>2
  <2>2. Queued(h, None)
    BY DEF Linked
  <2>3. \A i \in DOMAIN h.queue : k.task[h.queue[i]] = h.task[h.queue[i]]
    BY <1>12, <2>1
  <2> QED BY <1>6, <2>2, <2>3 DEF Queued
<1>21. Captured(k, None)
  <2>1. SUFFICES ASSUME NEW t \in Task, k.task[t].pr # None
                 PROVE  /\ k.promise[k.task[t].pr].state # "dead"
                        /\ \A u \in Task : k.task[u].pr = k.task[t].pr => u = t
                        /\ \/ t = None
                           \/ \E q \in Promise : k.promise[q].task = t
                           \/ \E i \in DOMAIN k.queue : k.queue[i] = t
    BY DEF Captured
  <2>2. t \notin T /\ k.task[t] = h.task[t] /\ h.task[t].pr \in Promise
    BY <1>1, <1>12, <2>1 DEF NoTask, Typed, TaskRecord
  <2>3. /\ h.promise[h.task[t].pr].state # "dead"
        /\ \A u \in Task : h.task[u].pr = h.task[t].pr => u = t
        /\ \/ \E q \in Promise : h.promise[q].task = t
           \/ \E i \in DOMAIN h.queue : h.queue[i] = t
    BY <1>1, <2>1, <2>2 DEF Linked, Captured
  <2>4. h.task[t].pr \notin C
    <3>1. SUFFICES ASSUME h.task[t].pr \in C PROVE FALSE
      OBVIOUS
    <3>2. PICK x \in C : h.promise[x].task # None /\ h.task[h.promise[x].task].pr = h.task[t].pr
      BY <1>7, <3>1
    <3>3. h.promise[x].task \in Task /\ h.promise[x].task = t
      BY <1>7, <1>8, <2>3, <3>2
    <3> QED BY <1>2, <1>1, <2>2, <3>2, <3>3
  <2>5. \A u \in Task : k.task[u].pr # None => k.task[u].pr = h.task[u].pr
    BY <1>12 DEF NoTask
  <2>6. ASSUME NEW q \in Promise, h.promise[q].task = t PROVE k.promise[q].task = t
    BY <1>1, <1>9, <1>11, <2>2, <2>6
  <2>7. k.promise[k.task[t].pr].state # "dead"
    BY <1>11, <2>2, <2>3, <2>4
  <2>8. \A u \in Task : k.task[u].pr = k.task[t].pr => u = t
    BY <2>1, <2>2, <2>3, <2>5
  <2> QED BY <1>6, <2>3, <2>6, <2>7, <2>8
<1> QED BY <1>2, <1>15, <1>16, <1>17, <1>18, <1>19, <1>20, <1>21 DEF Linked

-----------------------------------------------------------------------------
\* k is h with f used up by a continuation t that has captured p, the promise
\* of the future g.
Captures(h, k, f, t, p, g, s, w) ==
    /\ k.promise = [h.promise EXCEPT ![p] = [NewPromise EXCEPT !.future = g]]
    /\ k.future = [h.future EXCEPT ![g] = [promise |-> p, local |-> "future", life |-> "live"],
                                   ![f].life = "spent"]
    /\ k.task = [h.task EXCEPT ![t] = [state |-> s, pr |-> p, wrapped |-> w]]
    /\ k.queue = h.queue
    /\ k.reported \in BOOLEAN

\* then(): a new promise for the continuation and a future for its result;
\* the future it is attached to is used up.
LEMMA CaptureLinks ==
    ASSUME NEW h, NEW k, Linked(h, None, None), NEW f \in Future, NEW t \in Task, NEW p \in Promise,
           NEW g \in Future, NEW s \in States, NEW w \in BOOLEAN,
           h.future[f].life = "live", h.task[t].pr = None, h.promise[p].state = "dead",
           h.future[g].life = "dead", Captures(h, k, f, t, p, g, s, w)
    PROVE  Linked(k, t, f)
<1> USE DEF Captures
<1>1. Typed(h) /\ None \notin Promise \cup Future \cup Task
  BY AddressAssumption DEF Linked
<1>2. /\ \A q \in Promise : /\ h.promise[q].future \in Future \cup {None}
                            /\ h.promise[q].task \in Task \cup {None}
      /\ \A x \in Future : h.future[x].promise \in Promise \cup {None}
      /\ \A u \in Task : h.task[u].pr \in Promise \cup {None}
  BY <1>1 DEF Typed, PromiseRecord, FutureRecord, TaskRecord
<1>3. /\ k.promise[p].future = g /\ k.promise[p].state = "local"
      /\ k.promise[p].local = "future" /\ k.promise[p].task = None
      /\ \A q \in Promise \ {p} : k.promise[q] = h.promise[q]
  BY <1>1 DEF Typed, NewPromise
<1>4. /\ g # f
      /\ k.future[g].promise = p /\ k.future[g].life = "live"
      /\ k.future[f].promise = h.future[f].promise /\ k.future[f].life = "spent"
      /\ \A x \in Future \ {f, g} : k.future[x] = h.future[x]
  <2>1. g # f
    OBVIOUS
  <2>2. PICK y : y = h.future[f]
    OBVIOUS
  <2>3. k.future[f] = [y EXCEPT !.life = "spent"] /\ y \in FutureRecord
    BY <1>1, <2>1, <2>2 DEF Typed
  <2>4. k.future[g] = [promise |-> p, local |-> "future", life |-> "live"]
    BY <1>1, <2>1 DEF Typed
  <2>5. \A x \in Future \ {f, g} : k.future[x] = h.future[x]
    BY <1>1 DEF Typed
  <2> QED BY <2>1, <2>2, <2>3, <2>4, <2>5 DEF FutureRecord
<1>5. /\ k.task[t].pr = p
      /\ \A u \in Task \ {t} : k.task[u] = h.task[u]
  BY <1>1 DEF Typed
<1>6. Typed(k)
  <2>1. [NewPromise EXCEPT !.future = g] \in PromiseRecord
    BY DEF NewPromise, PromiseRecord, States
  <2>2. k.promise \in [Promise -> PromiseRecord]
    BY <1>1, <2>1 DEF Typed
  <2>3. PICK y : y = h.future[f]
    OBVIOUS
  <2>4. /\ y \in FutureRecord
        /\ [promise |-> p, local |-> "future", life |-> "live"] \in FutureRecord
    BY <1>1, <2>3 DEF Typed, FutureRecord, States
  <2>5. [y EXCEPT !.life = "spent"] \in FutureRecord
    BY <2>4 DEF FutureRecord
  <2>6. k.future \in [Future -> FutureRecord]
    BY <1>1, <1>4, <2>3, <2>4, <2>5, ZenonT(60) DEF Typed
  <2>7. [state |-> s, pr |-> p, wrapped |-> w] \in TaskRecord
    BY DEF TaskRecord
  <2>8. k.task \in [Task -> TaskRecord]
    BY <1>1, <2>7 DEF Typed
  <2> QED BY <1>1, <2>2, <2>6, <2>8 DEF Typed
<1>7. /\ \A x \in Future : h.future[x].promise # p
      /\ h.future[g].promise = None
      /\ \A u \in Task : h.task[u].pr # p
  BY <1>1, <1>2 DEF Linked, Paired, Captured
<1>8. /\ \A q \in Promise : h.promise[q].future # g /\ h.promise[q].task # t
      /\ \A i \in DOMAIN h.queue : h.queue[i] # t
  BY <1>1, <1>2, <1>7 DEF Linked, Paired, Attached, Queued
<1>9. Writes(k)
  BY <1>3, SMTT(40) DEF Linked, Writes
<1>10. Paired(k)
  <2>1. ASSUME NEW x \in Future, k.future[x].promise # None
        PROVE  /\ k.promise[k.future[x].promise].future = x
               /\ k.promise[k.future[x].promise].state = "local"
               /\ k.future[x].life # "dead"
    <3>1. CASE x = g
      BY <1>3, <1>4, <3>1, SMTT(40)
    <3>2. CASE x # g
      BY <1>2, <1>3, <1>4, <1>7, <2>1, <3>2 DEF Linked, Paired
    <3> QED BY <3>1, <3>2
  <2>2. ASSUME NEW q \in Promise, k.promise[q].future # None
        PROVE  k.future[k.promise[q].future].promise = q
    <3>1. CASE q = p
      BY <1>3, <1>4, <3>1
    <3>2. CASE q # p
      BY <1>2, <1>3, <1>4, <1>8, <2>2, <3>2, SMTT(40) DEF Linked, Paired
    <3> QED BY <3>1, <3>2
  <2> QED BY <2>1, <2>2 DEF Paired
<1>11. Readable(k, f)
  <2>1. SUFFICES ASSUME NEW x \in Future \ {f}, k.future[x].life = "live", k.future[x].promise # None
                 PROVE  k.promise[k.future[x].promise].local # "invalid"
    BY DEF Readable
  <2>2. CASE x = g
    BY <1>3, <1>4, <2>2
  <2>3. CASE x # g
    BY <1>1, <1>2, <1>3, <1>4, <1>7, <2>1, <2>3 DEF Linked, Readable
  <2> QED BY <2>2, <2>3
<1>12. Attached(k, t)
  <2>1. \A q \in Promise : k.promise[q].task # None =>
            q # p /\ k.promise[q].task = h.promise[q].task /\ h.promise[q].task \in Task \ {t}
    BY <1>2, <1>3, <1>8
  <2>2. Attached(h, None)
    BY DEF Linked
  <2> QED BY <1>5, <2>1, <2>2 DEF Attached
<1>13. Queued(k, t)
  <2>1. \A i \in DOMAIN h.queue : h.queue[i] \in Task \ {t} /\ k.task[h.queue[i]] = h.task[h.queue[i]]
    BY <1>1, <1>5, <1>8 DEF Typed
  <2> QED BY <2>1 DEF Linked, Queued
<1>14. Captured(k, t)
  <2>1. SUFFICES ASSUME NEW u \in Task, k.task[u].pr # None
                 PROVE  /\ k.promise[k.task[u].pr].state # "dead"
                        /\ \A x \in Task : k.task[x].pr = k.task[u].pr => x = u
                        /\ \/ u = t
                           \/ \E q \in Promise : k.promise[q].task = u
                           \/ \E i \in DOMAIN k.queue : k.queue[i] = u
    BY DEF Captured
  <2>2. CASE u = t
    BY <1>3, <1>5, <1>7, <2>2
  <2>3. CASE u # t
    <3>1. /\ h.promise[h.task[u].pr].state # "dead" /\ h.task[u].pr \in Promise \ {p}
          /\ \A x \in Task : h.task[x].pr = h.task[u].pr => x = u
          /\ \/ \E q \in Promise : h.promise[q].task = u
             \/ \E i \in DOMAIN h.queue : h.queue[i] = u
      BY <1>1, <1>2, <1>5, <1>7, <2>1, <2>3 DEF Linked, Captured
    <3>2. ASSUME NEW q \in Promise, h.promise[q].task = u PROVE k.promise[q].task = u
      <4>1. q # p
        BY <1>1, <3>2 DEF Linked, Writes
      <4> QED BY <1>3, <3>2, <4>1
    <3>3. k.promise[k.task[u].pr].state # "dead"
      BY <1>3, <1>5, <2>3, <3>1
    <3>4. \A x \in Task : k.task[x].pr = k.task[u].pr => x = u
      BY <1>5, <2>3, <3>1
    <3> QED BY <3>1, <3>2, <3>3, <3>4
  <2> QED BY <2>2, <2>3
<1> QED BY <1>6, <1>9, <1>10, <1>11, <1>12, <1>13, <1>14 DEF Linked

\* schedule(): a continuation whose outcome is there goes to the queue.
LEMMA ScheduleLinks ==
    ASSUME NEW h, NEW t \in Task, NEW used, Linked(h, t, used), NEW k,
           h.task[t].pr # None, h.task[t].state # "future",
           k.promise = h.promise, k.future = h.future, k.task = h.task,
           k.queue = Append(h.queue, t), k.reported = h.reported
    PROVE  Linked(k, None, used)
<1>1. Typed(h) /\ None \notin Promise \cup Future \cup Task
  BY AddressAssumption DEF Linked
<1>2. /\ DOMAIN k.queue = 1 .. Len(h.queue) + 1
      /\ DOMAIN h.queue = 1 .. Len(h.queue) /\ Len(h.queue) \in Nat
      /\ \A i \in DOMAIN h.queue : k.queue[i] = h.queue[i] /\ h.queue[i] \in Task
      /\ k.queue[Len(h.queue) + 1] = t
  BY <1>1 DEF Typed
<1>3. Typed(k)
  BY <1>1 DEF Typed
<1>4. Writes(k) /\ Paired(k) /\ Readable(k, used)
  BY DEF Linked, Writes, Paired, Readable
<1>5. Attached(k, None)
  BY DEF Linked, Attached
<1>6. Queued(k, None)
  <2>1. \A i \in DOMAIN k.queue : i \in DOMAIN h.queue \/ i = Len(h.queue) + 1
    BY <1>2
  <2>2. Queued(h, t)
    BY DEF Linked
  <2> QED BY <1>1, <1>2, <2>1, <2>2 DEF Queued
<1>7. Captured(k, None)
  <2>1. \A u \in Task : (\E i \in DOMAIN h.queue : h.queue[i] = u) \/ u = t =>
                           \E i \in DOMAIN k.queue : k.queue[i] = u
    BY <1>2
  <2>2. Captured(h, t)
    BY DEF Linked
  <2> QED BY <2>1, <2>2 DEF Captured
<1> QED BY <1>3, <1>4, <1>5, <1>6, <1>7 DEF Linked

\* k is h with t attached to the promise q of f.
Attaches(h, k, f, t, q) ==
    /\ k.promise = [h.promise EXCEPT ![q] = [@ EXCEPT !.state = "task", !.task = t, !.future = None]]
    /\ k.future = [h.future EXCEPT ![f].promise = None]
    /\ k.task = h.task /\ k.queue = h.queue /\ k.reported = h.reported

\* future::schedule() when the outcome is not there: the continuation takes
\* the place of the future at its promise.
LEMMA AttachLinks ==
    ASSUME NEW h, NEW t \in Task, NEW f \in Future, Linked(h, t, f), NEW k, NEW q \in Promise,
           h.task[t].pr # None, h.task[t].state = "future", h.future[f].promise = q,
           Attaches(h, k, f, t, q)
    PROVE  Linked(k, None, None)
<1> USE DEF Attaches
<1>1. Typed(h) /\ None \notin Promise \cup Future \cup Task
  BY AddressAssumption DEF Linked
<1>2. /\ \A p \in Promise : /\ h.promise[p].future \in Future \cup {None}
                            /\ h.promise[p].task \in Task \cup {None}
      /\ \A x \in Future : h.future[x].promise \in Promise \cup {None}
      /\ \A u \in Task : h.task[u].pr \in Promise \cup {None}
  BY <1>1 DEF Typed, PromiseRecord, FutureRecord, TaskRecord
<1>3. PICK x, y : x = h.promise[q] /\ y = h.future[f]
  OBVIOUS
<1>4. x \in PromiseRecord /\ y \in FutureRecord
  BY <1>1, <1>3 DEF Typed
<1>5. /\ k.promise[q] = [x EXCEPT !.state = "task", !.task = t, !.future = None]
      /\ k.future[f] = [y EXCEPT !.promise = None]
  BY <1>1, <1>3 DEF Typed
<1>6. k.promise[q] \in PromiseRecord /\ k.future[f] \in FutureRecord
  BY <1>4, <1>5 DEF PromiseRecord, FutureRecord
<1>7. Typed(k)
  <2>1. k.promise \in [Promise -> PromiseRecord]
    BY <1>1, <1>3, <1>5, <1>6 DEF Typed
  <2>2. k.future \in [Future -> FutureRecord]
    BY <1>1, <1>3, <1>5, <1>6 DEF Typed
  <2> QED BY <1>1, <2>1, <2>2 DEF Typed
<1>8. /\ k.promise[q].state = "task" /\ k.promise[q].task = t /\ k.promise[q].future = None
      /\ \A p \in Promise \ {q} : k.promise[p] = h.promise[p]
  <2>1. \A p \in Promise \ {q} : k.promise[p] = h.promise[p]
    BY <1>1 DEF Typed
  <2> QED BY <1>4, <1>5, <2>1 DEF PromiseRecord
<1>9. /\ k.future[f].promise = None
      /\ \A g \in Future \ {f} : k.future[g] = h.future[g]
  <2>1. \A g \in Future \ {f} : k.future[g] = h.future[g]
    BY <1>1 DEF Typed
  <2> QED BY <1>4, <1>5, <2>1 DEF FutureRecord
<1>10. /\ h.promise[q].future = f /\ h.promise[q].state = "local" /\ h.promise[q].task = None
       /\ \A g \in Future \ {f} : h.future[g].promise # q
  BY <1>1, <1>2 DEF Linked, Writes, Paired
<1>11. /\ \A p \in Promise : h.promise[p].task # t
       /\ \A i \in DOMAIN h.queue : h.queue[i] # t
  BY <1>1 DEF Linked, Attached, Queued
<1>12. Writes(k)
  BY <1>1, <1>8 DEF Linked, Writes
<1>13. Paired(k)
  <2>1. ASSUME NEW g \in Future, k.future[g].promise # None
        PROVE  /\ k.promise[k.future[g].promise].future = g
               /\ k.promise[k.future[g].promise].state = "local"
               /\ k.future[g].life # "dead"
    BY <1>2, <1>8, <1>9, <1>10, <2>1 DEF Linked, Paired
  <2>2. ASSUME NEW p \in Promise, k.promise[p].future # None
        PROVE  k.future[k.promise[p].future].promise = p
    BY <1>2, <1>8, <1>9, <1>10, <2>2 DEF Linked, Paired
  <2> QED BY <2>1, <2>2 DEF Paired
<1>14. Readable(k, None)
  BY <1>1, <1>2, <1>8, <1>9, <1>10 DEF Linked, Readable
<1>15. Attached(k, None)
  <2>1. Attached(h, t)
    BY DEF Linked
  <2> QED BY <1>1, <1>2, <1>8, <1>10, <1>11, <2>1 DEF Attached
<1>16. Queued(k, None)
  BY <1>1 DEF Linked, Queued, Typed
<1>17. Captured(k, None)
  <2>1. SUFFICES ASSUME NEW u \in Task, k.task[u].pr # None
                 PROVE  /\ k.promise[k.task[u].pr].state # "dead"
                        /\ \A z \in Task : k.task[z].pr = k.task[u].pr => z = u
                        /\ \/ u = None
                           \/ \E p \in Promise : k.promise[p].task = u
                           \/ \E i \in DOMAIN k.queue : k.queue[i] = u
    BY DEF Captured
  <2>2. Captured(h, t)
    BY DEF Linked
  <2>3. k.promise[k.task[u].pr].state # "dead"
    BY <1>2, <1>8, <2>1, <2>2 DEF Captured
  <2>4. \A p \in Promise : h.promise[p].task = u => k.promise[p].task = u
    BY <1>1, <1>8, <1>10
  <2> QED BY <1>8, <2>1, <2>2, <2>3, <2>4 DEF Captured
<1> QED BY <1>7, <1>12, <1>13, <1>14, <1>15, <1>16, <1>17 DEF Linked

\* run_tasks takes the first continuation from the queue.
LEMMA DequeueLinks ==
    ASSUME NEW h, NEW k, Linked(h, None, None), h.queue # << >>,
           k.promise = h.promise, k.future = h.future, k.task = h.task,
           k.queue = Tail(h.queue), k.reported \in BOOLEAN
    PROVE  /\ Head(h.queue) \in Task /\ Linked(k, Head(h.queue), None)
           /\ k.task[Head(h.queue)].pr \in Promise
<1>1. Typed(h) /\ None \notin Promise \cup Future \cup Task
  BY AddressAssumption DEF Linked
<1>2. PICK t : t = Head(h.queue)
  OBVIOUS
<1>3. /\ t = h.queue[1] /\ 1 \in DOMAIN h.queue /\ t \in Task
      /\ DOMAIN h.queue = 1 .. Len(h.queue) /\ Len(h.queue) \in Nat
      /\ DOMAIN k.queue = 1 .. Len(h.queue) - 1 /\ k.queue \in Seq(Task)
      /\ \A i \in DOMAIN k.queue : k.queue[i] = h.queue[i + 1]
  BY <1>1, <1>2 DEF Typed
<1>4. h.task[t].pr \in Promise /\ h.task[t].state # "future"
  BY <1>1, <1>3 DEF Linked, Queued, Typed, TaskRecord
<1>5. Typed(k)
  BY <1>1, <1>3 DEF Typed
<1>6. Writes(k) /\ Paired(k) /\ Readable(k, None)
  BY DEF Linked, Writes, Paired, Readable
<1>7. Attached(k, t)
  BY <1>1, <1>4 DEF Linked, Attached
<1>8. Queued(k, t)
  <2>1. \A i \in DOMAIN k.queue : i \in Nat /\ i + 1 \in DOMAIN h.queue /\ i + 1 # 1
    BY <1>3
  <2>2. Queued(h, None)
    BY DEF Linked
  <2> QED BY <1>3, <2>1, <2>2 DEF Queued
<1>9. Captured(k, t)
  <2>1. ASSUME NEW u \in Task, u # t, NEW i \in DOMAIN h.queue, h.queue[i] = u
        PROVE  \E j \in DOMAIN k.queue : k.queue[j] = u
    <3>1. i - 1 \in DOMAIN k.queue /\ i - 1 + 1 = i
      BY <1>3, <2>1
    <3> QED BY <1>3, <2>1, <3>1
  <2>2. Captured(h, None)
    BY DEF Linked
  <2> QED BY <1>1, <2>1, <2>2 DEF Captured
<1> QED BY <1>2, <1>3, <1>4, <1>5, <1>6, <1>7, <1>8, <1>9 DEF Linked

\* The continuation that ran is gone, and its promise has no other.
LEMMA EndLinks ==
    ASSUME NEW h, NEW t \in Task, Linked(h, t, None), h.task[t].pr # None
    PROVE  /\ Linked([h EXCEPT !.task[t] = NoTask], None, None)
           /\ \A u \in Task : [h EXCEPT !.task[t] = NoTask].task[u].pr # h.task[t].pr
<1>1. Typed(h) /\ None \notin Promise \cup Future \cup Task
  BY AddressAssumption DEF Linked
<1>2. PICK k : k = [h EXCEPT !.task[t] = NoTask]
  OBVIOUS
<1>3. /\ k.promise = h.promise /\ k.future = h.future /\ k.queue = h.queue /\ k.reported = h.reported
      /\ k.task = [h.task EXCEPT ![t] = NoTask]
  BY <1>1, <1>2 DEF Typed
<1>4. k.task[t].pr = None /\ \A u \in Task \ {t} : k.task[u] = h.task[u]
  BY <1>1, <1>3 DEF Typed, NoTask
<1>5. Typed(k)
  <2>1. NoTask \in TaskRecord
    BY DEF NoTask, TaskRecord, States
  <2> QED BY <1>1, <1>3, <2>1 DEF Typed
<1>6. Writes(k) /\ Paired(k) /\ Readable(k, None)
  BY <1>3 DEF Linked, Writes, Paired, Readable
<1>7. Attached(k, None)
  <2>1. \A p \in Promise : h.promise[p].task # None =>
                              h.promise[p].task \in Task \ {t} /\ k.task[h.promise[p].task] = h.task[h.promise[p].task]
    BY <1>1, <1>4 DEF Linked, Attached, Typed, PromiseRecord
  <2> QED BY <1>3, <2>1 DEF Linked, Attached
<1>8. Queued(k, None)
  <2>1. \A i \in DOMAIN h.queue : /\ h.queue[i] \in Task \ {t} /\ k.task[h.queue[i]] = h.task[h.queue[i]]
                                  /\ h.queue[i] # None
    BY <1>1, <1>4 DEF Linked, Queued, Typed
  <2> QED BY <1>3, <2>1 DEF Linked, Queued
<1>9. Captured(k, None)
  BY <1>3, <1>4 DEF Linked, Captured
<1>10. \A u \in Task : k.task[u].pr # h.task[t].pr
  BY <1>4, SMTT(40) DEF Linked, Captured
<1> QED BY <1>2, <1>5, <1>6, <1>7, <1>8, <1>9, <1>10 DEF Linked

-----------------------------------------------------------------------------
(* The steps of the program.                                               *)

\* Only the members of a heap matter.
LEMMA SameLinks ==
    ASSUME NEW h, NEW k, Linked(h, None, None),
           k.promise = h.promise, k.future = h.future, k.task = h.task, k.queue = h.queue,
           k.reported \in BOOLEAN
    PROVE  Linked(k, None, None)
BY SMTT(40) DEF Linked, Typed, Writes, Paired, Readable, Attached, Queued, Captured

\* The heap after a step is the one its member functions built.
LEMMA Becomes ==
    ASSUME NEW h, HeapBecomes(h), Linked(h, None, None)
    PROVE  IInv'
<1>1. /\ Now'.promise = h.promise /\ Now'.future = h.future /\ Now'.task = h.task
      /\ Now'.queue = h.queue /\ Now'.reported = h.reported
  BY DEF Now, HeapBecomes
<1>2. h.reported \in BOOLEAN
  BY DEF Linked, Typed
<1>3. Linked(Now', None, None)
  BY <1>1, <1>2, SameLinks
<1> QED BY <1>3 DEF IInv, Linked, Typed, Writes, Paired, Readable, Attached, Queued, Captured, Now

\* The heap that the operations work on.
LEMMA HeapLinks ==
    ASSUME IInv
    PROVE  /\ Linked(Heap, None, None)
           /\ Heap.promise = promise /\ Heap.future = future /\ Heap.task = task
           /\ Heap.queue = _pending_tasks /\ Heap.reported = FALSE
<1>1. /\ Heap.promise = promise /\ Heap.future = future /\ Heap.task = task
      /\ Heap.queue = _pending_tasks /\ Heap.reported = FALSE
  BY DEF Heap
<1>2. /\ Now.promise = promise /\ Now.future = future /\ Now.task = task
      /\ Now.queue = _pending_tasks
  BY DEF Now
<1> QED BY <1>1, <1>2, SameLinks DEF IInv

\* An exemption for a future in use asks less of a heap.
LEMMA UsedLinks ==
    ASSUME NEW h, NEW running, Linked(h, running, None), NEW f \in Future
    PROVE  Linked(h, running, f)
BY AddressAssumption DEF Linked, Readable

\* promise::promise()
LEMMA ConstructStep == ASSUME IInv, NEW p \in Promise, Construct(p) PROVE IInv'
<1>1. PICK h, k : h = Heap /\ k = [Heap EXCEPT !.promise[p] = NewPromise]
  OBVIOUS
<1>2. /\ Linked(h, None, None) /\ HeapBecomes(k)
      /\ h.promise = promise /\ h.future = future /\ h.task = task /\ h.queue = _pending_tasks
      /\ h.promise[p].state = "dead"
  BY <1>1, HeapLinks DEF Construct, Alive
<1>3. Typed(h) /\ None \notin Promise \cup Future \cup Task
  BY <1>2, AddressAssumption DEF Linked
<1>4. /\ k.promise = [h.promise EXCEPT ![p] = NewPromise]
      /\ k.future = h.future /\ k.task = h.task /\ k.queue = h.queue /\ k.reported = h.reported
  BY <1>1, <1>3 DEF Typed, Heap
<1>5. NewPromise \in PromiseRecord
  BY DEF NewPromise, PromiseRecord, States
<1>6. Typed(k)
  BY <1>3, <1>4, <1>5 DEF Typed
<1>7. k.promise[p] = NewPromise /\ \A q \in Promise \ {p} : k.promise[q] = h.promise[q]
  BY <1>3, <1>4 DEF Typed
<1>8. /\ h.promise[p].task = None /\ \A f \in Future : h.future[f].promise # p
      /\ \A t \in Task : h.task[t].pr # p
  BY <1>2, <1>3 DEF Linked, Writes, Paired, Captured
<1>9. Writes(k)
  BY <1>2, <1>7 DEF Linked, Writes, NewPromise
<1>10. Paired(k) /\ Readable(k, None)
  <2>1. \A f \in Future : h.future[f].promise \in (Promise \ {p}) \cup {None}
    BY <1>3, <1>8 DEF Typed, FutureRecord
  <2>2. Paired(k)
    BY <1>2, <1>4, <1>7, <2>1 DEF Linked, Paired, NewPromise
  <2>3. Readable(k, None)
    BY <1>2, <1>4, <1>7, <2>1 DEF Linked, Readable
  <2> QED BY <2>2, <2>3
<1>11. Attached(k, None) /\ Queued(k, None)
  BY <1>2, <1>3, <1>4, <1>7 DEF Linked, Attached, Queued, NewPromise
<1>12. Captured(k, None)
  <2>1. Captured(h, None)
    BY <1>2 DEF Linked
  <2>2. \A t \in Task : k.task[t].pr # None =>
            k.promise[k.task[t].pr] = h.promise[h.task[t].pr]
    BY <1>3, <1>4, <1>7, <1>8 DEF Typed, TaskRecord
  <2>3. \A t \in Task, q \in Promise : h.promise[q].task = t => k.promise[q].task = t
    BY <1>3, <1>7, <1>8
  <2> QED BY <1>3, <1>4, <2>1, <2>2, <2>3 DEF Captured
<1>13. Linked(k, None, None)
  BY <1>6, <1>9, <1>10, <1>11, <1>12 DEF Linked
<1> QED BY <1>2, <1>13, Becomes

\* promise::get_future
LEMMA GetFutureStep ==
    ASSUME IInv, NEW p \in Promise, NEW f \in Future, get_future(p, f)
    PROVE  IInv'
<1>1. PICK h, k : /\ h = Heap
                  /\ k = [Heap EXCEPT !.promise[p].future = f,
                                      !.future[f] = [promise |-> p, local |-> "future", life |-> "live"]]
  OBVIOUS
<1>2. /\ Linked(h, None, None) /\ HeapBecomes(k)
      /\ h.promise = promise /\ h.future = future /\ h.task = task /\ h.queue = _pending_tasks
      /\ h.promise[p].state = "local" /\ h.promise[p].local # "invalid" /\ h.promise[p].future = None
      /\ h.future[f].life = "dead"
  BY <1>1, HeapLinks DEF get_future
<1>3. Typed(h) /\ None \notin Promise \cup Future \cup Task
  BY <1>2, AddressAssumption DEF Linked
<1>4. PICK x : x = h.promise[p]
  OBVIOUS
<1>5. /\ k.promise = [h.promise EXCEPT ![p] = [x EXCEPT !.future = f]]
      /\ k.future = [h.future EXCEPT ![f] = [promise |-> p, local |-> "future", life |-> "live"]]
      /\ k.task = h.task /\ k.queue = h.queue /\ k.reported = h.reported
  BY <1>1, <1>3, <1>4 DEF Typed, Heap
<1>6. x \in PromiseRecord
  BY <1>3, <1>4 DEF Typed
<1>7. [x EXCEPT !.future = f] \in PromiseRecord
  BY <1>6 DEF PromiseRecord
<1>8. [promise |-> p, local |-> "future", life |-> "live"] \in FutureRecord
  BY DEF FutureRecord, States
<1>9. Typed(k)
  BY <1>3, <1>5, <1>7, <1>8 DEF Typed
<1>10. /\ k.promise[p].future = f
       /\ \A q \in Promise : /\ k.promise[q].state = h.promise[q].state
                             /\ k.promise[q].task = h.promise[q].task
                             /\ k.promise[q].local = h.promise[q].local
                             /\ q # p => k.promise[q].future = h.promise[q].future
  BY <1>3, <1>4, <1>5, <1>6 DEF Typed, PromiseRecord
<1>11. /\ k.future[f].promise = p /\ k.future[f].life = "live"
       /\ \A g \in Future \ {f} : k.future[g] = h.future[g]
  BY <1>3, <1>5 DEF Typed
<1>12. /\ \A g \in Future : h.future[g].promise \in (Promise \ {p}) \cup {None}
       /\ \A q \in Promise : h.promise[q].future \in (Future \ {f}) \cup {None}
  BY <1>2, <1>3 DEF Linked, Paired, Typed, PromiseRecord, FutureRecord
<1>13. Writes(k)
  BY <1>2, <1>10 DEF Linked, Writes
<1>14. Paired(k)
  BY <1>2, <1>3, <1>10, <1>11, <1>12 DEF Linked, Paired
<1>15. Readable(k, None)
  BY <1>2, <1>3, <1>10, <1>11, <1>12 DEF Linked, Readable
<1>16. Attached(k, None) /\ Queued(k, None)
  BY <1>2, <1>5, <1>10 DEF Linked, Attached, Queued
<1>17. Captured(k, None)
  BY <1>2, <1>3, <1>5, <1>10 DEF Linked, Captured, Typed, TaskRecord
<1>18. Linked(k, None, None)
  BY <1>9, <1>13, <1>14, <1>15, <1>16, <1>17 DEF Linked
<1> QED BY <1>2, <1>18, Becomes

\* promise::set_value, set_exception
LEMMA SetStep ==
    ASSUME IInv, NEW p \in Promise, NEW v \in {"result", "exception"}, Set(p, v)
    PROVE  IInv'
BY HeapLinks, SetLinks, Becomes DEF Set

\* promise::promise(promise&&) and migrated()
LEMMA MovePromiseStep ==
    ASSUME IInv, NEW p \in Promise, NEW q \in Promise, MovePromise(p, q)
    PROVE  IInv'
<1>1. PICK h, k, g : h = Heap /\ k = [move(Heap, p, q) EXCEPT !.promise[p] = DeadPromise] /\ g = promise[p].future
  OBVIOUS
<1>2. /\ Linked(h, None, None) /\ HeapBecomes(k)
      /\ h.promise = promise /\ h.future = future /\ h.task = task /\ h.queue = _pending_tasks
      /\ h.promise[p].state # "dead" /\ h.promise[q].state = "dead"
      /\ \A t \in Task : h.task[t].pr # p
  BY <1>1, HeapLinks DEF MovePromise, Owned, Alive
<1>3. Typed(h) /\ None \notin Promise \cup Future \cup Task
  BY <1>2, AddressAssumption DEF Linked
<1>4. p # q /\ g \in Future \cup {None} /\ g = h.promise[p].future
  BY <1>1, <1>2, <1>3 DEF Typed, PromiseRecord
<1>5. DeadPromise \in PromiseRecord /\ NullPromise \in PromiseRecord
  BY DEF DeadPromise, NullPromise, PromiseRecord, States
<1>6. /\ k.promise = [h.promise EXCEPT ![q] = h.promise[p], ![p] = DeadPromise]
      /\ k.future = IF g = None THEN h.future ELSE [h.future EXCEPT ![g].promise = q]
      /\ k.task = h.task /\ k.queue = h.queue /\ k.reported = h.reported
  <2>1. PICK m : m = move(Heap, p, q)
    OBVIOUS
  <2>2. m = [h EXCEPT !.promise[q] = h.promise[p], !.promise[p] = NullPromise,
                      !.future = IF g = None THEN @ ELSE [@ EXCEPT ![g].promise = q]]
    BY <1>1, <1>4, <2>1 DEF move
  <2>3. h = [promise |-> promise, future |-> future, task |-> task,
             queue |-> _pending_tasks, reported |-> FALSE]
    BY <1>1 DEF Heap
  <2>4. /\ m.promise = [h.promise EXCEPT ![q] = h.promise[p], ![p] = NullPromise]
        /\ m.future = IF g = None THEN h.future ELSE [h.future EXCEPT ![g].promise = q]
        /\ m.task = h.task /\ m.queue = h.queue /\ m.reported = h.reported
    BY <1>2, <2>2, <2>3
  <2>5. /\ k.promise = [m.promise EXCEPT ![p] = DeadPromise]
        /\ k.future = m.future /\ k.task = m.task /\ k.queue = m.queue /\ k.reported = m.reported
    BY <1>1, <2>1, <2>2, <2>3
  <2>6. h.promise \in [Promise -> PromiseRecord]
    BY <1>3 DEF Typed
  <2>7. k.promise = [h.promise EXCEPT ![q] = h.promise[p], ![p] = DeadPromise]
    BY <2>4, <2>5, <2>6
  <2> QED BY <2>4, <2>5, <2>7
<1>7. \A f \in Future : /\ k.future[f].life = h.future[f].life
                        /\ k.future[f].promise = IF f = g THEN q ELSE h.future[f].promise
  BY <1>3, <1>4, <1>6 DEF Typed, FutureRecord
<1>8. Typed(k)
  <2>1. k.promise \in [Promise -> PromiseRecord]
    BY <1>3, <1>5, <1>6 DEF Typed
  <2>2. k.future \in [Future -> FutureRecord]
    <3>1. PICK x : x = h.future[g]
      OBVIOUS
    <3>2. g # None => [x EXCEPT !.promise = q] \in FutureRecord
      BY <1>3, <1>4, <3>1 DEF Typed, FutureRecord
    <3> QED BY <1>3, <1>4, <1>6, <3>1, <3>2 DEF Typed
  <2> QED BY <1>3, <1>6, <2>1, <2>2, SMTT(40) DEF Typed
<1>9. /\ \A f \in Future : (h.future[f].promise = p <=> f = g) /\ h.future[f].promise # q
      /\ h.promise[q].task = None
  BY <1>2, <1>3, <1>4 DEF Linked, Writes, Paired
<1>10. /\ k.promise[q] = h.promise[p] /\ k.promise[p] = DeadPromise
       /\ \A r \in Promise \ {p, q} : k.promise[r] = h.promise[r]
  BY <1>3, <1>4, <1>6 DEF Typed
<1>11. TakenOver(h, k, p, q)
  BY <1>6, <1>7, <1>9, <1>10 DEF TakenOver, DeadPromise, NullPromise
<1>12. Linked(k, None, None)
  BY <1>2, <1>4, <1>8, <1>9, <1>11, TakenOverLinks
<1> QED BY <1>2, <1>12, Becomes

\* promise::~promise
LEMMA DestroyPromiseStep == ASSUME IInv, NEW p \in Promise, DestroyPromise(p) PROVE IInv'
BY HeapLinks, DestroyLinks, Becomes DEF DestroyPromise, Owned

\* future::~future
LEMMA DestroyFutureStep == ASSUME IInv, NEW f \in Future, DestroyFuture(f) PROVE IInv'
BY HeapLinks, UsedLinks, DestroyFutureLinks, Becomes DEF DestroyFuture

\* future::future(future&&)
LEMMA MoveFutureStep ==
    ASSUME IInv, NEW f \in Future, NEW g \in Future, MoveFuture(f, g)
    PROVE  IInv'
<1>1. PICK h, k, p, y : /\ h = Heap /\ p = future[f].promise /\ y = future[f]
                        /\ k = [Heap EXCEPT !.future[g] = future[f], !.future[f] = DeadFuture,
                                   !.promise = IF p = None THEN @ ELSE [@ EXCEPT ![p].future = g]]
  OBVIOUS
<1>2. /\ Linked(h, None, None) /\ HeapBecomes(k)
      /\ h.promise = promise /\ h.future = future /\ h.task = task /\ h.queue = _pending_tasks
      /\ h.future[f].life # "dead" /\ h.future[g].life = "dead" /\ f # g
  BY <1>1, HeapLinks DEF MoveFuture
<1>3. Typed(h) /\ None \notin Promise \cup Future \cup Task
  BY <1>2, AddressAssumption DEF Linked
<1>4. /\ k.future = [h.future EXCEPT ![g] = y, ![f] = DeadFuture]
      /\ k.promise = IF p = None THEN h.promise ELSE [h.promise EXCEPT ![p].future = g]
      /\ k.task = h.task /\ k.queue = h.queue /\ k.reported = h.reported
  BY <1>1 DEF Heap
<1>5. /\ p \in Promise \cup {None} /\ p = h.future[f].promise /\ y = h.future[f] /\ y \in FutureRecord
  BY <1>1, <1>2, <1>3 DEF Typed, FutureRecord
<1>6. Typed(k)
  <2>1. DeadFuture \in FutureRecord
    BY DEF DeadFuture, FutureRecord, States
  <2>2. k.future \in [Future -> FutureRecord]
    BY <1>3, <1>4, <1>5, <2>1 DEF Typed
  <2>3. PICK x : x = h.promise[p]
    OBVIOUS
  <2>4. p # None => [x EXCEPT !.future = g] \in PromiseRecord
    BY <1>3, <1>5, <2>3 DEF Typed, PromiseRecord
  <2>5. k.promise \in [Promise -> PromiseRecord]
    BY <1>3, <1>4, <1>5, <2>3, <2>4 DEF Typed
  <2> QED BY <1>3, <1>4, <2>2, <2>5 DEF Typed
<1>7. /\ k.future[g] = y /\ k.future[f] = DeadFuture
      /\ \A x \in Future \ {f, g} : k.future[x] = h.future[x]
  BY <1>2, <1>3, <1>4 DEF Typed
<1>8. \A q \in Promise : /\ k.promise[q].state = h.promise[q].state
                         /\ k.promise[q].task = h.promise[q].task
                         /\ k.promise[q].local = h.promise[q].local
                         /\ k.promise[q].future = IF q = p THEN g ELSE h.promise[q].future
  BY <1>3, <1>4, <1>5 DEF Typed, PromiseRecord
<1>9. /\ \A x \in Future \ {f} : p = None \/ h.future[x].promise # p
      /\ \A q \in Promise : q # p => h.promise[q].future \in (Future \ {f, g}) \cup {None}
  <2>1. \A q \in Promise : h.promise[q].future \in Future \cup {None}
    BY <1>3 DEF Typed, PromiseRecord
  <2> QED BY <1>2, <1>3, <1>5, <2>1 DEF Linked, Paired
<1>10. \A x \in Future : h.future[x].promise \in Promise \cup {None}
  BY <1>3 DEF Typed, FutureRecord
<1>11. Writes(k)
  BY <1>2, <1>8 DEF Linked, Writes
<1>12. Paired(k)
  <2>1. ASSUME NEW x \in Future, k.future[x].promise # None
        PROVE  /\ k.promise[k.future[x].promise].future = x
               /\ k.promise[k.future[x].promise].state = "local"
               /\ k.future[x].life # "dead"
    <3>1. CASE x = g
      BY <1>2, <1>5, <1>7, <1>8, <2>1, <3>1 DEF Linked, Paired
    <3>2. CASE x = f
      BY <1>7, <2>1, <3>2 DEF DeadFuture
    <3>3. CASE x # f /\ x # g
      BY <1>2, <1>7, <1>8, <1>9, <1>10, <2>1, <3>3 DEF Linked, Paired
    <3> QED BY <3>1, <3>2, <3>3
  <2>2. ASSUME NEW q \in Promise, k.promise[q].future # None
        PROVE  k.future[k.promise[q].future].promise = q
    <3>1. CASE q = p
      BY <1>5, <1>7, <1>8, <3>1
    <3>2. CASE q # p
      BY <1>2, <1>7, <1>8, <1>9, <2>2, <3>2 DEF Linked, Paired
    <3> QED BY <3>1, <3>2
  <2> QED BY <2>1, <2>2 DEF Paired
<1>13. Readable(k, None)
  <2>1. SUFFICES ASSUME NEW x \in Future, k.future[x].life = "live", k.future[x].promise # None
                 PROVE  k.promise[k.future[x].promise].local # "invalid"
    BY DEF Readable
  <2>2. CASE x = g
    BY <1>2, <1>3, <1>5, <1>7, <1>8, <2>1, <2>2 DEF Linked, Readable
  <2>3. CASE x = f
    BY <1>7, <2>1, <2>3 DEF DeadFuture
  <2>4. CASE x # f /\ x # g
    BY <1>2, <1>3, <1>7, <1>8, <1>10, <2>1, <2>4 DEF Linked, Readable
  <2> QED BY <2>2, <2>3, <2>4
<1>14. Attached(k, None) /\ Queued(k, None)
  BY <1>2, <1>4, <1>8 DEF Linked, Attached, Queued
<1>15. Captured(k, None)
  BY <1>2, <1>3, <1>4, <1>8 DEF Linked, Captured, Typed, TaskRecord
<1>16. Linked(k, None, None)
  BY <1>6, <1>11, <1>12, <1>13, <1>14, <1>15 DEF Linked
<1> QED BY <1>2, <1>16, Becomes

\* future::then, then_wrapped
LEMMA ThenStep ==
    ASSUME IInv, NEW f \in Future, NEW g \in Future, NEW t \in Task, NEW p \in Promise,
           NEW w \in BOOLEAN, then(f, t, p, g, w)
    PROVE  IInv'
<1>1. PICK q, s, h : /\ q = future[f].promise /\ s = state(Heap, f)
                     /\ h = [Heap EXCEPT !.promise[p] = [NewPromise EXCEPT !.future = g],
                                !.future[g] = [promise |-> p, local |-> "future", life |-> "live"],
                                !.future[f].life = "spent",
                                !.task[t] = [state |-> s, pr |-> p, wrapped |-> w]]
  OBVIOUS
<1>2. PICK a : a = Heap
  OBVIOUS
<1>3. /\ Linked(a, None, None)
      /\ a.promise = promise /\ a.future = future /\ a.task = task /\ a.queue = _pending_tasks
      /\ a.future[f].life = "live" /\ a.task[t].pr = None /\ a.promise[p].state = "dead"
      /\ a.future[g].life = "dead" /\ g # f
      /\ available(s) \/ q # None
  BY <1>1, <1>2, HeapLinks DEF then, Usable, Alive
<1>4. HeapBecomes(IF available(s) THEN [Moved(h, f) EXCEPT !.queue = Append(@, t)]
                  ELSE [h EXCEPT !.promise[q] = [@ EXCEPT !.state = "task", !.task = t, !.future = None],
                                 !.future[f].promise = None])
  BY <1>1 DEF then
<1>5. Typed(a) /\ None \notin Promise \cup Future \cup Task
  BY <1>3, AddressAssumption DEF Linked
<1>6. /\ h.promise = [a.promise EXCEPT ![p] = [NewPromise EXCEPT !.future = g]]
      /\ h.future = [a.future EXCEPT ![g] = [promise |-> p, local |-> "future", life |-> "live"],
                                     ![f].life = "spent"]
      /\ h.task = [a.task EXCEPT ![t] = [state |-> s, pr |-> p, wrapped |-> w]]
      /\ h.queue = a.queue /\ h.reported = FALSE
  BY <1>1, <1>2 DEF Heap
<1>7. s \in States
  <2>1. \A r \in Promise : /\ a.promise[r].local \in States
                           /\ a.promise[r].state = "task" => a.task[a.promise[r].task].state \in States
    BY <1>3, <1>5 DEF Linked, Writes, Typed, PromiseRecord, TaskRecord
  <2>2. "invalid" \in States
    BY DEF States
  <2>3. \A r \in Promise : Written(a, r) \in States
    BY <2>1, <2>2 DEF Written
  <2>4. a.future[f].local \in States /\ a.future[f].promise \in Promise \cup {None}
    BY <1>5 DEF Typed, FutureRecord
  <2> QED BY <1>1, <1>2, <2>3, <2>4 DEF state
<1>8. Linked(h, t, f)
  <2>1. Captures(a, h, f, t, p, g, s, w)
    BY <1>6 DEF Captures
  <2> QED BY <1>3, <1>7, <2>1, CaptureLinks
<1>9. h.task[t].pr = p /\ h.task[t].state = s
  BY <1>5, <1>6 DEF Typed
<1>10. CASE available(s)
  <2>1. PICK m, k : m = Moved(h, f) /\ k = [m EXCEPT !.queue = Append(@, t)]
    OBVIOUS
  <2>2. Linked(m, t, f) /\ m.task = h.task
    BY <1>8, <2>1, MovedLinks
  <2>3. /\ k.promise = m.promise /\ k.future = m.future /\ k.task = m.task
        /\ k.queue = Append(m.queue, t) /\ k.reported = m.reported
  <3>1. h = [promise |-> h.promise, future |-> h.future, task |-> h.task,
             queue |-> h.queue, reported |-> h.reported]
    BY <1>1 DEF Heap
  <3>2. m = [promise |-> m.promise, future |-> m.future, task |-> m.task,
             queue |-> m.queue, reported |-> m.reported]
    BY <2>1, <3>1 DEF Moved
  <3> QED BY <2>1, <3>2
  <2>4. m.task[t].pr # None /\ m.task[t].state # "future"
    BY <1>5, <1>9, <1>10, <2>2 DEF available
  <2>5. Linked(k, None, f)
    BY <2>2, <2>3, <2>4, ScheduleLinks
  <2>6. k.future[f].life = "spent"
    <3>1. PICK y : y = a.future[f]
      OBVIOUS
    <3>2. h.future[f] = [y EXCEPT !.life = "spent"] /\ y \in FutureRecord
      BY <1>3, <1>5, <1>6, <3>1 DEF Typed
    <3>3. h.future[f].life = "spent"
      BY <3>2 DEF FutureRecord
    <3>4. m.future[f].life = h.future[f].life
      <4>1. h.future[f] \in FutureRecord /\ h.future \in [Future -> FutureRecord]
        BY <1>8 DEF Linked, Typed
      <4> QED BY <1>1, <2>1, <4>1 DEF Moved, FutureRecord
    <3> QED BY <2>3, <3>3, <3>4
  <2>7. Linked(k, None, None)
    BY <2>5, <2>6 DEF Linked, Readable
  <2> QED BY <1>4, <1>10, <2>1, <2>7, Becomes
<1>11. CASE ~available(s)
  <2>1. PICK k : k = [h EXCEPT !.promise[q] = [@ EXCEPT !.state = "task", !.task = t, !.future = None],
                               !.future[f].promise = None]
    OBVIOUS
  <2>2. /\ k.promise = [h.promise EXCEPT ![q] = [@ EXCEPT !.state = "task", !.task = t, !.future = None]]
        /\ k.future = [h.future EXCEPT ![f].promise = None]
        /\ k.task = h.task /\ k.queue = h.queue /\ k.reported = h.reported
    BY <1>1, <2>1 DEF Heap
  <2>3. q \in Promise /\ q = a.future[f].promise
    BY <1>1, <1>3, <1>5, <1>11 DEF Typed, FutureRecord
  <2>4. s = "future"
    <3>1. a.promise[q].state = "local" /\ a.promise[q].local # "invalid"
      BY <1>3, <1>5, <2>3 DEF Linked, Paired, Readable
    <3>2. s = a.promise[q].local
      BY <1>1, <1>2, <1>5, <2>3, <3>1 DEF state, Written
    <3> QED BY <1>7, <1>11, <3>1, <3>2 DEF States, available
  <2>5. h.future[f].promise = q
    <3>1. PICK y : y = a.future[f]
      OBVIOUS
    <3>2. h.future[f] = [y EXCEPT !.life = "spent"] /\ y \in FutureRecord
      BY <1>3, <1>5, <1>6, <3>1 DEF Typed
    <3> QED BY <2>3, <3>1, <3>2 DEF FutureRecord
  <2>6. h.task[t].pr # None /\ h.task[t].state = "future"
    BY <1>5, <1>9, <2>4
  <2>7. Attaches(h, k, f, t, q)
    BY <2>2 DEF Attaches
  <2>8. Linked(k, None, None)
    BY <1>8, <2>3, <2>5, <2>6, <2>7, AttachLinks
  <2> QED BY <1>4, <1>11, <2>1, <2>8, Becomes
<1> QED BY <1>10, <1>11

\* future::forward_to, called by the program
LEMMA ForwardToStep ==
    ASSUME IInv, NEW f \in Future, NEW p \in Promise, ForwardTo(f, p)
    PROVE  IInv'
<1>1. PICK h, m : h = Heap /\ m = forward_to(h, f, p)
  OBVIOUS
<1>2. /\ Linked(h, None, None) /\ HeapBecomes([m EXCEPT !.future[f].life = "spent"])
      /\ h.promise[p].state # "dead"
      /\ available(state(h, f)) \/ (h.future[f].promise # None /\ h.future[f].promise # p)
  <2>1. Linked(h, None, None) /\ h.promise = promise /\ h.future = future
    BY <1>1, HeapLinks
  <2>2. p \in Chain(h, p)
    BY <2>1, ChainFacts
  <2> QED BY <1>1, <2>1, <2>2 DEF ForwardTo, Usable, Owned, Alive, Apart
<1>3. Linked(m, None, f)
  BY <1>1, <1>2, ForwardLinks
<1> QED BY <1>2, <1>3, SpentLinks, Becomes

\* reactor::run_tasks, with all that the continuation does.
LEMMA RunStep == ASSUME IInv, Run PROVE IInv'
<1> DEFINE t == Head(_pending_tasks)
           p == task[t].pr
           h == [Heap EXCEPT !.queue = Tail(@)]
<1>1. IF ~CallsFunction(t)
      THEN HeapBecomes(destroy([set(h, p, "exception") EXCEPT !.task[t] = NoTask], p))
      ELSE \E looked \in BOOLEAN :
           LET k == [h EXCEPT !.reported = ~looked /\ task[t].state = "exception"] IN
           \/ \E v \in {"result", "exception"} :
                 HeapBecomes(destroy([set(k, p, v) EXCEPT !.task[t] = NoTask], p))
           \/ \E f \in Future :
                 /\ Usable(f)
                 /\ available(state(h, f)) \/ Apart(h, f, p)
                 /\ HeapBecomes(destroy([destroyFuture(forward_to(k, f, p), f) EXCEPT
                                            !.task[t] = NoTask], p))
  BY Zenon DEF Run
<1>2. PICK a : /\ a = Heap /\ t = Head(_pending_tasks) /\ p = task[t].pr
               /\ h = [Heap EXCEPT !.queue = Tail(@)]
  BY SMTT(40)
<1> HIDE DEF t, p, h
<1>3. /\ Linked(a, None, None)
      /\ a.promise = promise /\ a.future = future /\ a.task = task /\ a.queue = _pending_tasks
      /\ h.promise = a.promise /\ h.future = a.future /\ h.task = a.task
      /\ h.queue = Tail(a.queue) /\ h.reported = FALSE
      /\ a.queue # << >>
  BY <1>2, HeapLinks DEF Run, Heap
<1>4. t \in Task /\ Linked(h, t, None) /\ h.task[t].pr = p /\ p \in Promise
  BY <1>2, <1>3, DequeueLinks
<1>5. None \notin Promise \cup Future \cup Task
  BY AddressAssumption
<1>6. ASSUME NEW g, Linked(g, t, None), \A u \in Task : g.task[u].pr = h.task[u].pr,
             HeapBecomes(destroy([g EXCEPT !.task[t] = NoTask], p))
      PROVE  IInv'
  <2>1. g.task[t].pr = p
    BY <1>4, <1>6
  <2>2. PICK e : e = [g EXCEPT !.task[t] = NoTask]
    OBVIOUS
  <2>3. Linked(e, None, None) /\ \A u \in Task : e.task[u].pr # p
    BY <1>4, <1>5, <1>6, <2>1, <2>2, EndLinks
  <2>4. Linked(destroy(e, p), None, None)
    BY <1>4, <2>3, DestroyLinks
  <2> QED BY <1>6, <2>2, <2>4, Becomes
<1>7. CASE ~CallsFunction(t)
  <2>1. HeapBecomes(destroy([set(h, p, "exception") EXCEPT !.task[t] = NoTask], p))
    BY <1>7, <1>1, Zenon
  <2> QED BY <1>4, <1>6, <2>1, SetLinks
<1>8. ASSUME CallsFunction(t), NEW looked \in BOOLEAN, NEW k,
             k = [h EXCEPT !.reported = ~looked /\ task[t].state = "exception"],
             \/ \E v \in {"result", "exception"} :
                   HeapBecomes(destroy([set(k, p, v) EXCEPT !.task[t] = NoTask], p))
             \/ \E f \in Future :
                   /\ Usable(f)
                   /\ available(state(h, f)) \/ Apart(h, f, p)
                   /\ HeapBecomes(destroy([destroyFuture(forward_to(k, f, p), f) EXCEPT
                                              !.task[t] = NoTask], p))
      PROVE  IInv'
  <2>1. /\ k.promise = h.promise /\ k.future = h.future /\ k.task = h.task /\ k.queue = h.queue
        /\ k.reported \in BOOLEAN
    BY <1>2, <1>8, ZenonT(60) DEF Heap
  <2>2. Linked(k, t, None)
    BY <1>4, <2>1 DEF Linked, Typed, Writes, Paired, Readable, Attached, Queued, Captured
  <2>3. CASE \E v \in {"result", "exception"} :
                HeapBecomes(destroy([set(k, p, v) EXCEPT !.task[t] = NoTask], p))
    <3>1. PICK v \in {"result", "exception"} :
                 HeapBecomes(destroy([set(k, p, v) EXCEPT !.task[t] = NoTask], p))
      BY <2>3
    <3>2. PICK m : m = set(k, p, v)
      OBVIOUS
    <3>3. Linked(m, t, None) /\ \A u \in Task : m.task[u].pr = h.task[u].pr
      BY <1>4, <2>1, <2>2, <3>2, SetLinks
    <3> QED BY <1>6, <3>1, <3>2, <3>3
  <2>4. ASSUME NEW f \in Future, Usable(f), available(state(h, f)) \/ Apart(h, f, p),
               HeapBecomes(destroy([destroyFuture(forward_to(k, f, p), f) EXCEPT !.task[t] = NoTask], p))
        PROVE  IInv'
    <3>1. state(k, f) = state(h, f) /\ state(h, f) = state(Heap, f)
      <4>1. /\ k.promise = h.promise /\ k.future = h.future /\ k.task = h.task
            /\ Heap.promise = h.promise /\ Heap.future = h.future /\ Heap.task = h.task
        BY <1>2, <1>3, <2>1
      <4>2. \A q : Written(k, q) = Written(h, q) /\ Written(Heap, q) = Written(h, q)
        BY <4>1, Zenon DEF Written
      <4> QED BY <4>1, <4>2, Zenon DEF state
    <3>2. p \in Chain(h, p)
      BY <1>4, ChainFacts
    <3>3. available(state(k, f)) \/ (k.future[f].promise # None /\ k.future[f].promise # p)
      BY <1>3, <2>1, <2>4, <3>1, <3>2 DEF Usable, Apart
    <3>4. k.promise[p].state # "dead"
      BY <1>4, <1>5, <2>1 DEF Linked, Captured
    <3>5. PICK m : m = forward_to(k, f, p)
      OBVIOUS
    <3>6. Linked(m, t, f) /\ \A u \in Task : m.task[u].pr = k.task[u].pr
      BY <1>4, <2>2, <3>3, <3>4, <3>5, ForwardLinks
    <3>7. Linked(destroyFuture(m, f), t, None) /\ destroyFuture(m, f).task = m.task
      BY <3>6, DestroyFutureLinks
    <3> QED BY <1>6, <2>1, <2>4, <3>5, <3>6, <3>7
  <2> QED BY <1>8, <2>3, <2>4, ZenonT(60)
<1>9. CASE CallsFunction(t)
  <2>1. PICK looked \in BOOLEAN :
           LET k == [h EXCEPT !.reported = ~looked /\ task[t].state = "exception"] IN
           \/ \E v \in {"result", "exception"} :
                 HeapBecomes(destroy([set(k, p, v) EXCEPT !.task[t] = NoTask], p))
           \/ \E f \in Future :
                 /\ Usable(f)
                 /\ available(state(h, f)) \/ Apart(h, f, p)
                 /\ HeapBecomes(destroy([destroyFuture(forward_to(k, f, p), f) EXCEPT
                                            !.task[t] = NoTask], p))
    BY <1>9, <1>1, Zenon
  <2> QED BY <1>8, <1>9, <2>1
<1> QED BY <1>7, <1>9

-----------------------------------------------------------------------------
\* Nothing exists at the start.
LEMMA InitLinks == Init => IInv
<1> SUFFICES ASSUME Init PROVE IInv
  OBVIOUS
<1>1. /\ Now.promise = [p \in Promise |-> DeadPromise] /\ Now.future = [f \in Future |-> DeadFuture]
      /\ Now.task = [t \in Task |-> NoTask] /\ Now.queue = << >> /\ Now.reported = FALSE
  BY DEF Init, Now
<1>2. Typed(Now)
  <2>1. DeadPromise \in PromiseRecord
    BY DEF DeadPromise, NullPromise, PromiseRecord, States
  <2>2. DeadFuture \in FutureRecord
    BY DEF DeadFuture, FutureRecord, States
  <2>3. NoTask \in TaskRecord
    BY DEF NoTask, TaskRecord, States
  <2>4. Now.queue \in Seq(Task)
    BY <1>1
  <2> QED BY <1>1, <2>1, <2>2, <2>3, <2>4 DEF Typed
<1>3. Writes(Now) /\ Paired(Now) /\ Readable(Now, None) /\ Attached(Now, None)
  BY <1>1 DEF Writes, Paired, Readable, Attached, DeadPromise, NullPromise, DeadFuture
<1>4. Queued(Now, None) /\ Captured(Now, None)
  BY <1>1 DEF Queued, Captured, NoTask
<1> QED BY <1>2, <1>3, <1>4 DEF IInv, Linked

\* Every operation of the program, and run_tasks, keeps the heap linked.
LEMMA NextLinks == IInv /\ [Next]_vars => IInv'
<1> SUFFICES ASSUME IInv, [Next]_vars PROVE IInv'
  OBVIOUS
<1>1. CASE User
  BY <1>1, ConstructStep, DestroyPromiseStep, DestroyFutureStep, GetFutureStep, ForwardToStep,
     SetStep, MovePromiseStep, MoveFutureStep, ThenStep DEF User
<1>2. CASE Run
  BY <1>2, RunStep
<1>3. CASE UNCHANGED vars
  BY <1>3 DEF vars, IInv, Now, Linked, Typed, Writes, Paired, Readable, Attached, Queued, Captured
<1> QED BY <1>1, <1>2, <1>3 DEF Next

\* The heap of promises, futures and continuations is linked in every state.
THEOREM Invariance == Spec => []IInv
BY InitLinks, NextLinks, PTL DEF Spec

\* The variables have their types, and a promise points into its continuation
\* as long as it owns one.
THEOREM TypeCorrect == Spec => []TypeOK
<1>1. IInv => TypeOK
  BY DEF IInv, Linked, Now, Typed, Writes, TypeOK, PromiseRecord, FutureRecord, TaskRecord
<1> QED BY <1>1, Invariance, PTL

\* No pointer between promises, futures and continuations dangles or is
\* one-sided, whatever the program moves, attaches, forwards and destroys.
THEOREM PointersAgree == Spec => []LinksAgree
<1>1. ASSUME IInv PROVE LinksAgree
  <2>1. /\ Now.promise = promise /\ Now.future = future /\ Now.task = task /\ Now.queue = _pending_tasks
    BY DEF Now
  <2>2. None \notin Promise \cup Future \cup Task
    BY AddressAssumption
  <2>3. ASSUME NEW f \in Future, future[f].promise # None
        PROVE  /\ promise[future[f].promise].future = f
               /\ promise[future[f].promise].state = "local"
               /\ future[f].life # "dead"
    BY <1>1, <2>1, <2>3 DEF IInv, Linked, Paired
  <2>4. ASSUME NEW p \in Promise, promise[p].future # None
        PROVE  future[promise[p].future].promise = p
    BY <1>1, <2>1, <2>4 DEF IInv, Linked, Paired
  <2>5. ASSUME NEW t \in Task, NEW owners, NEW places,
               owners = {p \in Promise : promise[p].task = t},
               places = {i \in DOMAIN _pending_tasks : _pending_tasks[i] = t}
        PROVE  IF task[t].pr = None THEN owners = {} /\ places = {}
               ELSE /\ Cardinality(owners) + Cardinality(places) = 1
                    /\ (task[t].state = "future") = (owners # {})
                    /\ Alive(task[t].pr)
                    /\ \A u \in Task \ {t} : task[u].pr # task[t].pr
    <3>1. /\ \A p \in owners : task[t].pr # None /\ task[t].state = "future" /\ owners = {p}
          /\ \A i \in places : task[t].pr # None /\ task[t].state # "future" /\ places = {i}
      <4>1. ASSUME NEW p \in owners
            PROVE task[t].pr # None /\ task[t].state = "future" /\ owners = {p}
        BY <1>1, <2>1, <2>2, <2>5 DEF IInv, Linked, Attached
      <4>2. ASSUME NEW i \in places
            PROVE task[t].pr # None /\ task[t].state # "future" /\ places = {i}
        BY <1>1, <2>1, <2>2, <2>5 DEF IInv, Linked, Queued
      <4> QED BY <4>1, <4>2
    <3>2. task[t].pr # None => /\ Alive(task[t].pr)
                               /\ \A u \in Task \ {t} : task[u].pr # task[t].pr
                               /\ owners # {} \/ places # {}
      BY <1>1, <2>1, <2>2, <2>5 DEF IInv, Linked, Captured, Alive
    <3>3. \A x : Cardinality({x}) = 1
      BY FS_Singleton
    <3>4. Cardinality({}) = 0
      BY FS_EmptySet
    <3>5. CASE task[t].pr = None
      BY <3>1, <3>5
    <3>6. CASE task[t].pr # None /\ owners # {}
      <4>1. places = {} /\ Cardinality(owners) = 1
        BY <3>1, <3>3, <3>6
      <4> QED BY <3>1, <3>2, <3>4, <3>6, <4>1
    <3>7. CASE task[t].pr # None /\ owners = {}
      <4>1. Cardinality(places) = 1 /\ task[t].state # "future"
        BY <3>1, <3>2, <3>3, <3>7
      <4> QED BY <3>2, <3>4, <3>7, <4>1
    <3> QED BY <3>5, <3>6, <3>7
  <2> QED BY <2>3, <2>4, <2>5 DEF LinksAgree
<1> QED BY <1>1, Invariance, PTL

-----------------------------------------------------------------------------
(* The channels.  Every channel has one object at its end; an operation is  *)
(* a step of the channels because it changes the ends of few objects.       *)

\* The channel that an object is the end of, if any: a promise that will be or
\* has been written, a future on its own, a task in the queue.
NoChannel == Ends(None, None, "none")
\* A promise, a future or a task.
Addresses == Promise \cup Future \cup Task

PromiseEnd(h, p) == IF Written(h, p) = "invalid" THEN NoChannel
                    ELSE Ends(p, Reader(h, p), Written(h, p))
StillHolds(h, f) == available(h.future[f].local) \/ (h.future[f].local = "future" /\ h.future[f].life = "live")
FutureEnd(h, f) == IF h.future[f].promise = None /\ StillHolds(h, f) THEN Ends(None, f, h.future[f].local)
                   ELSE NoChannel
InQueue(h, t) == \E i \in DOMAIN h.queue : h.queue[i] = t
TaskEnd(h, t) == IF InQueue(h, t) THEN Ends(None, t, h.task[t].state) ELSE NoChannel

End(h, i) == IF i \in Promise THEN PromiseEnd(h, i)
             ELSE IF i \in Future THEN FutureEnd(h, i) ELSE TaskEnd(h, i)
Shown(h) == {End(h, i) : i \in Addresses} \ {NoChannel}

\* What a promise, a future and a task hold while they exist; running is the
\* continuation that run_tasks has taken from the queue.
TightTasks(h, running) ==
    \A t \in Task :
        /\ h.task[t].pr = None => h.task[t].wrapped = FALSE
        /\ h.task[t].pr # None => h.task[t].state # "invalid"
        /\ h.task[t].pr # None /\ t # running => Written(h, h.task[t].pr) = "future"
TightFutures(h) ==
    \A f \in Future :
        /\ h.future[f].life = "dead" => h.future[f].local = "invalid"
        /\ h.future[f].promise # None => h.future[f].local = "future"
        /\ h.future[f].promise # None /\ h.future[f].life = "spent" =>
              h.promise[h.future[f].promise].local = "invalid"
Tight(h, running) == TightTasks(h, running) /\ TightFutures(h)

-----------------------------------------------------------------------------
\* Addresses tell the three kinds of objects apart.
LEMMA Kinds ==
    ASSUME NEW h
    PROVE  /\ \A p \in Promise : p \in Addresses /\ End(h, p) = PromiseEnd(h, p)
           /\ \A f \in Future : f \in Addresses /\ End(h, f) = FutureEnd(h, f)
           /\ \A t \in Task : t \in Addresses /\ End(h, t) = TaskEnd(h, t)
           /\ \A i \in Addresses : i \in Promise \/ i \in Future \/ i \in Task
BY AddressAssumption DEF End, Addresses

\* A channel belongs to one object.
LEMMA Keyed ==
    ASSUME NEW h, NEW i \in Addresses, NEW j \in Addresses, End(h, i) = End(h, j)
    PROVE  i = j \/ End(h, i) = NoChannel
<1>1. \A x, y, u, v, a, b : Ends(x, y, a) = Ends(u, v, b) => x = u /\ y = v /\ a = b
  BY DEF Ends
<1>2. ASSUME NEW x \in Addresses
      PROVE  \/ End(h, x) = NoChannel
             \/ x \in Promise /\ \E r, v : End(h, x) = Ends(x, r, v)
             \/ x \notin Promise /\ x # None /\ \E v : End(h, x) = Ends(None, x, v)
  BY AddressAssumption, Kinds DEF PromiseEnd, FutureEnd, TaskEnd, Addresses
<1>3. None \notin Promise
  BY AddressAssumption
<1> QED BY <1>1, <1>2, <1>3

\* What the channels of a heap are, object by object.
LEMMA ChansShown == ASSUME NEW h, Typed(h) PROVE Chans(h) = Shown(h)
<1>1. \A p \in Promise : \A r, v : Ends(p, r, v) # NoChannel
  BY AddressAssumption DEF Ends, NoChannel
<1>2. \A i \in Future \cup Task : \A v : Ends(None, i, v) # NoChannel
  BY AddressAssumption DEF Ends, NoChannel
<1>3. \A t \in Task : InQueue(h, t) <=> t \in Range(h.queue)
  BY DEF InQueue, Range
<1>4. Range(h.queue) \subseteq Task
  BY DEF Typed, Range
<1>5. \A c : c \in {End(h, p) : p \in Promise} \ {NoChannel} <=>
             c \in {Ends(p, Reader(h, p), Written(h, p)) : p \in {q \in Promise : Written(h, q) # "invalid"}}
  BY <1>1, Kinds, Zenon DEF PromiseEnd
<1>6. \A c : c \in {End(h, f) : f \in Future} \ {NoChannel} <=>
             c \in {Ends(None, f, h.future[f].local) :
              f \in {g \in Future : /\ h.future[g].promise = None
                                    /\ \/ available(h.future[g].local)
                                       \/ h.future[g].local = "future" /\ h.future[g].life = "live"}}
  BY <1>2, Kinds, Zenon DEF FutureEnd, StillHolds
<1>7. \A c : c \in {End(h, t) : t \in Task} \ {NoChannel} <=>
             c \in {Ends(None, t, h.task[t].state) : t \in Range(h.queue)}
  <2>1. \A t \in Task : End(h, t) = IF t \in Range(h.queue) THEN Ends(None, t, h.task[t].state) ELSE NoChannel
    BY <1>3, Kinds, Zenon DEF TaskEnd
  <2> QED BY <1>2, <1>4, <2>1, Zenon
<1>8. Shown(h) = ({End(h, p) : p \in Promise} \ {NoChannel})
                 \cup ({End(h, f) : f \in Future} \ {NoChannel})
                 \cup ({End(h, t) : t \in Task} \ {NoChannel})
  BY Zenon DEF Shown, Addresses
<1> QED BY <1>5, <1>6, <1>7, <1>8, Zenon DEF Chans

\* A step that changes the channels of the objects S only.
Only(h, k, S) == \A i \in Addresses \ S : End(k, i) = End(h, i)

\* A step changes the set of channels by those of the objects it changes.
LEMMA Changes ==
    ASSUME NEW h, NEW k, NEW S, S \subseteq Addresses,
           Only(h, k, S)
    PROVE  Shown(k) = (Shown(h) \ {End(h, i) : i \in S}) \cup ({End(k, i) : i \in S} \ {NoChannel})
<1>1. ASSUME NEW c, c \in Shown(k)
      PROVE  c \in (Shown(h) \ {End(h, i) : i \in S}) \cup ({End(k, i) : i \in S} \ {NoChannel})
  <2>1. PICK i \in Addresses : c = End(k, i) /\ c # NoChannel
    BY <1>1, Zenon DEF Shown
  <2>2. CASE i \in S
    BY <2>1, <2>2, Zenon
  <2>3. CASE i \notin S
    <3>1. c = End(h, i) /\ c \in Shown(h)
      BY <2>1, <2>3, Zenon DEF Shown, Only
    <3>2. ASSUME NEW j \in S PROVE c # End(h, j)
      BY <2>1, <2>3, <3>1, Keyed, Zenon
    <3> QED BY <3>1, <3>2, Zenon
  <2> QED BY <2>2, <2>3, Zenon
<1>2. ASSUME NEW c, c \in (Shown(h) \ {End(h, i) : i \in S}) \cup ({End(k, i) : i \in S} \ {NoChannel})
      PROVE  c \in Shown(k)
  <2>1. CASE c \in {End(k, i) : i \in S} \ {NoChannel}
    BY <2>1, Zenon DEF Shown
  <2>2. CASE c \in Shown(h) \ {End(h, i) : i \in S}
    BY <2>2, Zenon DEF Shown, Only
  <2> QED BY <1>2, <2>1, <2>2, Zenon
<1> QED BY <1>1, <1>2, Zenon

\* A step that changes the channels of one object, or of two.
OnlyOne(h, k, p) == Only(h, k, {p})
OnlyTwo(h, k, p, q) == Only(h, k, {p, q})

\* The channels after a step that changes the end of one object.
LEMMA OneChange ==
    ASSUME NEW h, NEW k, NEW p \in Addresses, OnlyOne(h, k, p)
    PROVE  Shown(k) = (Shown(h) \ {End(h, p)}) \cup ({End(k, p)} \ {NoChannel})
<1>1. PICK S : S = {p}
  OBVIOUS
<1>2. Shown(k) = (Shown(h) \ {End(h, i) : i \in S}) \cup ({End(k, i) : i \in S} \ {NoChannel})
  BY <1>1, Changes DEF OnlyOne
<1>3. {End(h, i) : i \in S} = {End(h, p)} /\ {End(k, i) : i \in S} = {End(k, p)}
  BY <1>1, Zenon
<1> QED BY <1>2, <1>3, Zenon

\* The channels after a step that changes the ends of two objects.
LEMMA TwoChanges ==
    ASSUME NEW h, NEW k, NEW p \in Addresses, NEW q \in Addresses, OnlyTwo(h, k, p, q)
    PROVE  Shown(k) = (Shown(h) \ {End(h, p), End(h, q)}) \cup ({End(k, p), End(k, q)} \ {NoChannel})
<1>1. PICK S : S = {p, q}
  OBVIOUS
<1>2. Shown(k) = (Shown(h) \ {End(h, i) : i \in S}) \cup ({End(k, i) : i \in S} \ {NoChannel})
  BY <1>1, Changes DEF OnlyTwo
<1>3. {End(h, i) : i \in S} = {End(h, p), End(h, q)} /\ {End(k, i) : i \in S} = {End(k, p), End(k, q)}
  BY <1>1, Zenon
<1> QED BY <1>2, <1>3, Zenon

\* The state that a promise writes is its own or that of its continuation.
LEMMA WrittenIs ==
    ASSUME NEW h, NEW running, NEW used, Linked(h, running, used), NEW p \in Promise
    PROVE  /\ Written(h, p) \in States
           /\ h.promise[p].task = None /\ h.promise[p].state = "local" => Written(h, p) = h.promise[p].local
           /\ h.promise[p].task = None /\ h.promise[p].state # "local" => Written(h, p) = "invalid"
           /\ h.promise[p].task # None => /\ Written(h, p) = "future" /\ h.promise[p].state = "task"
                                          /\ h.promise[p].future = None
           /\ h.promise[p].future # None => h.promise[p].state = "local" /\ h.promise[p].task = None
<1>1. Typed(h) /\ None \notin Promise \cup Future \cup Task
  BY AddressAssumption DEF Linked
<1>2. /\ h.promise[p] \in PromiseRecord
      /\ h.promise[p].future \in Future \cup {None}
      /\ h.promise[p].local \in States
      /\ (h.promise[p].state = "task") = (h.promise[p].task # None)
  BY <1>1 DEF Linked, Writes, Typed, PromiseRecord
<1>3. h.promise[p].task # None => h.task[h.promise[p].task].state = "future"
  BY DEF Linked, Attached
<1>4. h.promise[p].future # None => h.promise[p].state = "local"
  BY <1>1, <1>2 DEF Linked, Paired
<1> QED BY <1>2, <1>3, <1>4 DEF Written, States

\* What future::state() reads is the outcome of one channel, that of the
\* promise of the future or, when it has none, its own.
Source(h, f) == IF h.future[f].promise = None THEN f ELSE h.future[f].promise

\* The channel at Source(h, f) is the one that state(h, f) reads.
LEMMA SourceEnd ==
    ASSUME NEW h, NEW running, NEW used, Linked(h, running, used), TightFutures(h),
           NEW f \in Future, NEW x, x = Source(h, f)
    PROVE  /\ x \in Addresses
           /\ available(state(h, f)) \/ (state(h, f) = "future" /\ h.future[f].life = "live") =>
                 End(h, x) = Ends(h.future[f].promise, f, state(h, f)) /\ End(h, x) # NoChannel
           /\ ~available(state(h, f)) /\ ~(state(h, f) = "future" /\ h.future[f].life = "live") =>
                 End(h, x) = NoChannel
           /\ state(h, f) \in States
<1>1. Typed(h) /\ None \notin Promise \cup Future \cup Task
  BY AddressAssumption DEF Linked
<1>2. CASE h.future[f].promise = None
  <2>1. x = f /\ x \in Addresses /\ End(h, x) = FutureEnd(h, f) /\ state(h, f) = h.future[f].local
    BY <1>2, Kinds DEF Source, state
  <2>2. h.future[f].local \in States
    BY <1>1 DEF Typed, FutureRecord
  <2>3. \A v : Ends(None, f, v) # NoChannel
    BY <1>1, SMTT(40) DEF Ends, NoChannel
  <2> QED BY <1>2, <2>1, <2>2, <2>3 DEF FutureEnd, StillHolds
<1>3. CASE h.future[f].promise # None
  <2>1. PICK q \in Promise : q = h.future[f].promise
    BY <1>1, <1>3 DEF Typed, FutureRecord
  <2>2. x = q /\ x \in Addresses /\ End(h, x) = PromiseEnd(h, q) /\ state(h, f) = Written(h, q)
    BY <1>3, <2>1, Kinds DEF Source, state
  <2>3. h.promise[q].future = f /\ h.promise[q].state = "local" /\ h.future[f].life # "dead"
    BY <1>3, <2>1 DEF Linked, Paired
  <2>4. h.promise[q].task = None /\ Written(h, q) = h.promise[q].local /\ Written(h, q) \in States
    BY <1>1, <2>3, WrittenIs
  <2>5. h.future[f].life \in {"live", "spent"}
    BY <1>1, <2>3 DEF Typed, FutureRecord
  <2>6. h.future[f].life = "spent" => Written(h, q) = "invalid"
    BY <1>3, <2>1, <2>4 DEF TightFutures
  <2>7. Reader(h, q) = f
    BY <2>3, <2>4 DEF Reader
  <2>8. \A v : Ends(q, f, v) # NoChannel
    BY <1>1 DEF Ends, NoChannel
  <2>9. Written(h, q) = "invalid" \/ Written(h, q) = "future" \/ available(Written(h, q))
    BY <2>4 DEF States, available
  <2>10. ~available("invalid") /\ ~available("future")
    BY DEF available
  <2> QED BY <2>1, <2>2, <2>4, <2>5, <2>6, <2>7, <2>8, <2>9, <2>10 DEF PromiseEnd
<1> QED BY <1>2, <1>3

\* promise::set_value and set_exception resolve the channel of the promise.
LEMMA SetChans ==
    ASSUME NEW h, NEW running, NEW used, Linked(h, running, used), Tight(h, running),
           NEW p \in Promise, NEW v \in {"result", "exception"},
           Written(h, p) = "future", \A t \in Task : h.task[t].pr = p => t = running,
           NEW k, k = set(h, p, v)
    PROVE  /\ Tight(k, running)
           /\ Shown(k) = (Shown(h) \ {End(h, p)}) \cup {Channels!Resolved(End(h, p), v)}
           /\ End(h, p) = Ends(p, Reader(h, p), "future")
           /\ Outputs(k) = Outputs(h) /\ Handles(k) = Handles(h) /\ k.reported = h.reported
           /\ k.promise[p].task = None
           /\ \A f \in Future : h.promise[p].future # f => state(k, f) = state(h, f)
<1>1. Typed(h) /\ None \notin Promise \cup Future \cup Task /\ p \in Addresses
  BY AddressAssumption, Kinds DEF Linked
<1>2. End(h, p) = Ends(p, Reader(h, p), "future")
  BY Kinds DEF PromiseEnd
<1>3. v # "invalid" /\ v # "future" /\ v \in States
  BY DEF States
<1>4. CASE h.promise[p].task = None
  <2>1. /\ k.promise = [h.promise EXCEPT ![p].local = v]
        /\ k.future = h.future /\ k.task = h.task /\ k.queue = h.queue /\ k.reported = h.reported
    BY <1>1, <1>4 DEF set, Typed
  <2>2. \A q \in Promise : /\ k.promise[q].future = h.promise[q].future
                           /\ k.promise[q].state = h.promise[q].state
                           /\ k.promise[q].task = h.promise[q].task
                           /\ q # p => k.promise[q].local = h.promise[q].local
    BY <1>1, <2>1 DEF Typed, PromiseRecord
  <2>3. h.promise[p].state = "local" /\ h.promise[p].local = "future"
    BY <1>3, <1>4, WrittenIs
  <2>4. /\ \A q \in Promise \ {p} : Written(k, q) = Written(h, q)
        /\ Written(k, p) = v
    <3>1. k.promise[p].local = v
      BY <1>1, <2>1 DEF Typed, PromiseRecord
    <3> QED BY <2>1, <2>2, <2>3, <3>1 DEF Written
  <2>5. \A q \in Promise : Reader(k, q) = Reader(h, q)
    BY <2>2 DEF Reader
  <2>6. OnlyOne(h, k, p)
    <3>1. \A q \in Promise \ {p} : PromiseEnd(k, q) = PromiseEnd(h, q)
      BY <2>4, <2>5 DEF PromiseEnd
    <3>2. \A f \in Future : FutureEnd(k, f) = FutureEnd(h, f)
      BY <2>1 DEF FutureEnd, StillHolds
    <3>3. \A t \in Task : TaskEnd(k, t) = TaskEnd(h, t)
      BY <2>1 DEF TaskEnd, InQueue
    <3> QED BY <3>1, <3>2, <3>3, Kinds DEF Only, OnlyOne
  <2>7. End(k, p) = Ends(p, Reader(h, p), v) /\ End(k, p) # NoChannel
    <3>1. Ends(p, Reader(h, p), v) # NoChannel
      BY <1>1 DEF Ends, NoChannel
    <3> QED BY <1>3, <2>4, <2>5, <3>1, Kinds DEF PromiseEnd
  <2>8. Channels!Resolved(End(h, p), v) = End(k, p)
    <3>1. Reader(h, p) \notin Task
      <4>1. h.promise[p].future \in Future \cup {None}
        BY <1>1 DEF Typed, PromiseRecord
      <4> QED BY <1>4, <4>1, AddressAssumption DEF Reader
    <3> QED BY <1>2, <2>7, <3>1 DEF Channels!Resolved, Channels!Channel, Ends
  <2>9. Shown(k) = (Shown(h) \ {End(h, p)}) \cup {End(k, p)}
    <3>1. Shown(k) = (Shown(h) \ {End(h, p)}) \cup ({End(k, p)} \ {NoChannel})
      BY <1>1, <2>6, OneChange
    <3> QED BY <2>7, <3>1
  <2>10. Tight(k, running)
    <3>1. TightTasks(k, running)
      <4>1. \A t \in Task : h.task[t].pr \in Promise \cup {None}
        BY <1>1 DEF Typed, TaskRecord
      <4> QED BY <2>1, <2>4, <4>1 DEF Tight, TightTasks
    <3>2. TightFutures(k)
      <4>1. \A f \in Future : h.future[f].promise \in Promise \cup {None}
        BY <1>1 DEF Typed, FutureRecord
      <4>2. \A f \in Future : h.future[f].promise # None /\ h.future[f].life = "spent" =>
                                 h.future[f].promise # p
        BY <2>3 DEF Tight, TightFutures
      <4> QED BY <2>1, <2>2, <4>1, <4>2 DEF Tight, TightFutures
    <3> QED BY <3>1, <3>2 DEF Tight
  <2>11. ASSUME NEW f \in Future, h.promise[p].future # f PROVE state(k, f) = state(h, f)
    <3>1. h.future[f].promise \in (Promise \ {p}) \cup {None}
      BY <1>1, <2>11 DEF Linked, Paired, Typed, FutureRecord
    <3> QED BY <2>1, <2>4, <3>1 DEF state
  <2> QED BY <1>2, <1>4, <2>1, <2>2, <2>8, <2>9, <2>10, <2>11 DEF Outputs, Handles
<1>5. CASE h.promise[p].task # None
  <2>1. PICK t \in Task : t = h.promise[p].task
    BY <1>1, <1>5 DEF Typed, PromiseRecord
  <2>2. /\ k.promise = [h.promise EXCEPT ![p].task = None, ![p].state = "null"]
        /\ k.future = h.future /\ k.reported = h.reported
        /\ k.task = [h.task EXCEPT ![t].state = v]
        /\ k.queue = Append(h.queue, t)
    BY <1>1, <1>5, <2>1 DEF set, Typed
  <2>3. /\ k.promise[p].task = None /\ k.promise[p].state = "null"
        /\ \A q \in Promise : /\ k.promise[q].local = h.promise[q].local
                              /\ q # p => k.promise[q] = h.promise[q]
    BY <1>1, <2>2 DEF Typed, PromiseRecord
  <2>4. /\ \A u \in Task : /\ k.task[u].pr = h.task[u].pr /\ k.task[u].wrapped = h.task[u].wrapped
                           /\ u # t => k.task[u] = h.task[u]
        /\ k.task[t].state = v
    BY <1>1, <2>2 DEF Typed, TaskRecord
  <2>5. /\ h.promise[p].state = "task" /\ h.promise[p].future = None
        /\ \A q \in Promise \ {p} : h.promise[q].task # t
        /\ h.task[t].pr # None /\ t # running
        /\ \A i \in DOMAIN h.queue : h.queue[i] # t
    <3>1. h.promise[p].state = "task" /\ h.promise[p].future = None
      BY <1>5, WrittenIs
    <3>2. h.task[t].pr # None /\ h.task[t].state = "future" /\ t # running
          /\ \A q \in Promise \ {p} : h.promise[q].task # t
      BY <1>5, <2>1 DEF Linked, Attached
    <3> QED BY <3>1, <3>2 DEF Linked, Queued
  <2>6. /\ \A q \in Promise \ {p} : Written(k, q) = Written(h, q) /\ Reader(k, q) = Reader(h, q)
        /\ Written(k, p) = "invalid"
    <3>1. \A q \in Promise \ {p} : h.promise[q].state = "task" => h.promise[q].task \in Task \ {t}
      BY <1>1, <2>5 DEF Linked, Writes, Typed, PromiseRecord
    <3> QED BY <2>3, <2>4, <3>1 DEF Written, Reader
  <2>7. /\ \A u \in Task \ {t} : InQueue(k, u) <=> InQueue(h, u)
        /\ InQueue(k, t) /\ ~InQueue(h, t)
    <3>1. /\ DOMAIN k.queue = 1 .. Len(h.queue) + 1
          /\ DOMAIN h.queue = 1 .. Len(h.queue) /\ Len(h.queue) \in Nat
          /\ \A i \in DOMAIN h.queue : k.queue[i] = h.queue[i]
          /\ k.queue[Len(h.queue) + 1] = t
      BY <1>1, <2>2 DEF Typed
    <3>2. \A i \in DOMAIN k.queue : i \in DOMAIN h.queue \/ i = Len(h.queue) + 1
      BY <3>1
    <3> QED BY <2>5, <3>1, <3>2 DEF InQueue
  <2>8. OnlyTwo(h, k, p, t)
    <3>1. \A q \in Promise \ {p} : PromiseEnd(k, q) = PromiseEnd(h, q)
      BY <2>6 DEF PromiseEnd
    <3>2. \A f \in Future : FutureEnd(k, f) = FutureEnd(h, f)
      BY <2>2 DEF FutureEnd, StillHolds
    <3>3. \A u \in Task \ {t} : TaskEnd(k, u) = TaskEnd(h, u)
      BY <2>4, <2>7 DEF TaskEnd
    <3> QED BY <3>1, <3>2, <3>3, Kinds DEF Only, OnlyTwo
  <2>9. /\ End(k, p) = NoChannel /\ End(h, t) = NoChannel
        /\ End(k, t) = Ends(None, t, v) /\ End(k, t) # NoChannel
    <3>1. Ends(None, t, v) # NoChannel
      BY <1>1 DEF Ends, NoChannel
    <3> QED BY <2>4, <2>6, <2>7, <3>1, Kinds DEF PromiseEnd, TaskEnd
  <2>10. Channels!Resolved(End(h, p), v) = End(k, t)
    <3>1. Reader(h, p) = t
      BY <1>5, <2>1 DEF Reader
    <3> QED BY <1>2, <2>9, <3>1 DEF Channels!Resolved, Channels!Channel, Ends
  <2>11. Shown(k) = (Shown(h) \ {End(h, p)}) \cup {End(k, t)}
    <3>1. p \in Addresses /\ t \in Addresses
      BY <1>1, Kinds
    <3>2. Shown(k) = (Shown(h) \ {End(h, p), End(h, t)}) \cup ({End(k, p), End(k, t)} \ {NoChannel})
      BY <2>8, <3>1, TwoChanges, SMTT(60)
    <3>3. NoChannel \notin Shown(h)
      BY DEF Shown
    <3> QED BY <2>9, <3>2, <3>3
  <2>12. Tight(k, running)
    <3>1. TightTasks(k, running)
      <4>1. \A u \in Task : h.task[u].pr \in Promise \cup {None}
        BY <1>1 DEF Typed, TaskRecord
      <4> QED BY <1>3, <2>4, <2>6, <4>1 DEF Tight, TightTasks
    <3>2. TightFutures(k)
      <4>1. \A f \in Future : h.future[f].promise \in Promise \cup {None}
        BY <1>1 DEF Typed, FutureRecord
      <4> QED BY <2>2, <2>3, <4>1 DEF Tight, TightFutures
    <3> QED BY <3>1, <3>2 DEF Tight
  <2>13. ASSUME NEW f \in Future PROVE state(k, f) = state(h, f)
    <3>1. h.future[f].promise \in (Promise \ {p}) \cup {None}
      BY <1>1, <2>5 DEF Linked, Paired, Typed, FutureRecord
    <3> QED BY <2>2, <2>6, <3>1 DEF state
  <2> QED BY <1>2, <2>2, <2>3, <2>4, <2>10, <2>11, <2>12, <2>13 DEF Outputs, Handles
<1> QED BY <1>4, <1>5

\* The outcome that is moved out of a future has left its channel.
LEMMA MovedChans ==
    ASSUME NEW h, NEW running, NEW f \in Future, Linked(h, running, f), Tight(h, running),
           available(state(h, f)), NEW x, x = Source(h, f), NEW k, k = Moved(h, f)
    PROVE  /\ Tight(k, running)
           /\ Shown(k) = Shown(h) \ {End(h, x)}
           /\ Outputs(k) = Outputs(h) /\ Handles(k) = Handles(h) /\ k.reported = h.reported
           /\ k.future[f].promise = h.future[f].promise /\ k.future[f].life = h.future[f].life
           /\ k.future[f].promise = None => k.future[f].local = "invalid"
           /\ k.future[f].promise # None => k.promise[k.future[f].promise].local = "invalid"
           /\ \A p \in Promise : /\ k.promise[p].task = h.promise[p].task
                                 /\ k.promise[p].state = h.promise[p].state
<1>1. Typed(h) /\ None \notin Promise \cup Future \cup Task /\ x \in Addresses
  BY AddressAssumption, SourceEnd DEF Linked, Tight
<1>2. CASE h.future[f].promise = None
  <2>1. /\ k.future = [h.future EXCEPT ![f].local = "invalid"]
        /\ k.promise = h.promise /\ k.task = h.task /\ k.queue = h.queue /\ k.reported = h.reported
    BY <1>1, <1>2 DEF Moved, Typed
  <2>2. /\ \A g \in Future : /\ k.future[g].promise = h.future[g].promise
                             /\ k.future[g].life = h.future[g].life
                             /\ g # f => k.future[g].local = h.future[g].local
        /\ k.future[f].local = "invalid"
    BY <1>1, <2>1 DEF Typed, FutureRecord
  <2>3. x = f
    BY <1>2 DEF Source
  <2>4. OnlyOne(h, k, x)
    <3>1. \A q \in Promise : PromiseEnd(k, q) = PromiseEnd(h, q)
      BY <2>1 DEF PromiseEnd, Written, Reader
    <3>2. \A g \in Future \ {x} : FutureEnd(k, g) = FutureEnd(h, g)
      BY <2>2, <2>3 DEF FutureEnd, StillHolds
    <3>3. \A t \in Task : TaskEnd(k, t) = TaskEnd(h, t)
      BY <2>1 DEF TaskEnd, InQueue
    <3> QED BY <3>1, <3>2, <3>3, Kinds DEF Only, OnlyOne
  <2>5. End(k, x) = NoChannel
    BY <2>2, <2>3, Kinds DEF FutureEnd, StillHolds, available
  <2>6. Tight(k, running)
    <3>1. TightTasks(k, running)
      BY <2>1 DEF Tight, TightTasks, Written
    <3>2. TightFutures(k)
      BY <1>2, <2>1, <2>2 DEF Tight, TightFutures
    <3> QED BY <3>1, <3>2, SMTT(40) DEF Tight
  <2>7. Shown(k) = Shown(h) \ {End(h, x)}
    <3>1. Shown(k) = (Shown(h) \ {End(h, x)}) \cup ({End(k, x)} \ {NoChannel})
      BY <1>1, <2>4, OneChange, SMTT(40)
    <3> QED BY <2>5, <3>1
  <2> QED BY <1>2, <2>1, <2>2, <2>6, <2>7 DEF Outputs, Handles
<1>3. CASE h.future[f].promise # None
  <2>1. PICK p \in Promise : p = h.future[f].promise
    BY <1>1, <1>3 DEF Typed, FutureRecord
  <2>2. /\ k.promise = [h.promise EXCEPT ![p].local = "invalid"]
        /\ k.future = h.future /\ k.task = h.task /\ k.queue = h.queue /\ k.reported = h.reported
    BY <1>1, <1>3, <2>1 DEF Moved, Typed
  <2>3. /\ \A q \in Promise : /\ k.promise[q].future = h.promise[q].future
                              /\ k.promise[q].state = h.promise[q].state
                              /\ k.promise[q].task = h.promise[q].task
                              /\ q # p => k.promise[q].local = h.promise[q].local
        /\ k.promise[p].local = "invalid"
    BY <1>1, <2>2 DEF Typed, PromiseRecord
  <2>4. x = p /\ h.promise[p].state = "local"
    BY <1>3, <2>1 DEF Source, Linked, Paired
  <2>5. /\ \A q \in Promise : q # p => Written(k, q) = Written(h, q)
        /\ Written(k, p) = "invalid"
        /\ \A q \in Promise : Reader(k, q) = Reader(h, q)
    BY <2>2, <2>3, <2>4 DEF Written, Reader
  <2>6. OnlyOne(h, k, x)
    <3>1. \A q \in Promise \ {x} : PromiseEnd(k, q) = PromiseEnd(h, q)
      BY <2>4, <2>5 DEF PromiseEnd
    <3>2. \A g \in Future : FutureEnd(k, g) = FutureEnd(h, g)
      BY <2>2 DEF FutureEnd, StillHolds
    <3>3. \A t \in Task : TaskEnd(k, t) = TaskEnd(h, t)
      BY <2>2 DEF TaskEnd, InQueue
    <3> QED BY <3>1, <3>2, <3>3, Kinds DEF Only, OnlyOne
  <2>7. End(k, x) = NoChannel
    BY <2>4, <2>5, Kinds DEF PromiseEnd
  <2>8. Tight(k, running)
    <3>1. TightTasks(k, running)
      <4>1. \A t \in Task : h.task[t].pr \in Promise \cup {None}
        BY <1>1 DEF Typed, TaskRecord
      <4>2. Written(h, p) # "future"
        BY <1>3, <2>1 DEF state, available
      <4> QED BY <2>2, <2>5, <4>1, <4>2 DEF Tight, TightTasks
    <3>2. TightFutures(k)
      <4>1. \A g \in Future : h.future[g].promise \in Promise \cup {None}
        BY <1>1 DEF Typed, FutureRecord
      <4> QED BY <2>2, <2>3, <4>1 DEF Tight, TightFutures
    <3> QED BY <3>1, <3>2 DEF Tight
  <2>9. Shown(k) = Shown(h) \ {End(h, x)}
    <3>1. Shown(k) = (Shown(h) \ {End(h, x)}) \cup ({End(k, x)} \ {NoChannel})
      BY <1>1, <2>6, OneChange
    <3> QED BY <2>7, <3>1
  <2> QED BY <1>3, <2>1, <2>2, <2>3, <2>8, <2>9 DEF Outputs, Handles
<1> QED BY <1>2, <1>3

\* What p was to write, and whom it was to tell, has gone over to q; a future
\* that q had is used up.
Replaced(h, k, p, q) ==
    /\ k.promise[q] = h.promise[p]
    /\ k.promise[p].future = None /\ k.promise[p].task = None
    /\ k.promise[p].state \in {"null", "dead"}
    /\ \A r \in Promise \ {p, q} : k.promise[r] = h.promise[r]
    /\ \A f \in Future :
          IF h.future[f].promise = q
          THEN /\ k.future[f].promise = None
               /\ \/ k.future[f].life = "spent" /\ k.future[f].local = "future"
                  \/ k.future[f].life = "dead" /\ k.future[f].local = "invalid"
          ELSE /\ k.future[f].life = h.future[f].life /\ k.future[f].local = h.future[f].local
               /\ k.future[f].promise = IF h.future[f].promise = p THEN q ELSE h.future[f].promise
    /\ k.task = h.task /\ k.queue = h.queue

\* promise::promise(promise&&), or forward_to: the channel of p has a new writer.
LEMMA ReplacedChans ==
    ASSUME NEW h, NEW running, NEW used, Linked(h, running, used), Tight(h, running),
           NEW p \in Promise, NEW q \in Promise, p # q, NEW k, Replaced(h, k, p, q),
           \A t \in Task : h.task[t].pr = p => t = running,
           \A t \in Task : h.task[t].pr = q => t = running \/ Written(h, p) = "future"
    PROVE  /\ Tight(k, running)
           /\ End(h, p) = NoChannel => Shown(k) = Shown(h) \ {End(h, q)}
           /\ End(h, p) # NoChannel => Shown(k) = (Shown(h) \ {End(h, p), End(h, q)})
                                                     \cup {[End(h, p) EXCEPT !.writer = q]}
           /\ Outputs(k) = Outputs(h) /\ Handles(k) = Handles(h)
<1>1. Typed(h) /\ None \notin Promise \cup Future \cup Task /\ p \in Addresses /\ q \in Addresses
  BY AddressAssumption, Kinds DEF Linked
<1>2. /\ \A f \in Future : h.future[f].promise \in Promise \cup {None}
      /\ \A t \in Task : h.task[t].pr \in Promise \cup {None}
  BY <1>1 DEF Typed, FutureRecord, TaskRecord
<1>3. k.task = h.task /\ k.queue = h.queue
  BY DEF Replaced
<1>4. /\ Written(k, q) = Written(h, p) /\ Reader(k, q) = Reader(h, p)
      /\ Written(k, p) = "invalid"
      /\ \A r \in Promise \ {p, q} : Written(k, r) = Written(h, r) /\ Reader(k, r) = Reader(h, r)
  BY <1>3 DEF Replaced, Written, Reader
<1>5. OnlyTwo(h, k, p, q)
  <2>1. \A r \in Promise \ {p, q} : PromiseEnd(k, r) = PromiseEnd(h, r)
    BY <1>4 DEF PromiseEnd
  <2>2. ASSUME NEW f \in Future PROVE FutureEnd(k, f) = FutureEnd(h, f)
    <3>1. CASE h.future[f].promise = q
      BY <1>1, <3>1 DEF Replaced, FutureEnd, StillHolds, available
    <3>2. CASE h.future[f].promise # q
      BY <1>1, <3>2 DEF Replaced, FutureEnd, StillHolds
    <3> QED BY <3>1, <3>2
  <2>3. \A t \in Task : TaskEnd(k, t) = TaskEnd(h, t)
    BY <1>3 DEF TaskEnd, InQueue
  <2> QED BY <2>1, <2>2, <2>3, Kinds DEF Only, OnlyTwo
<1>6. /\ End(k, p) = NoChannel
      /\ End(h, p) = NoChannel => End(k, q) = NoChannel
      /\ End(h, p) # NoChannel => /\ End(k, q) = [End(h, p) EXCEPT !.writer = q]
                                  /\ End(k, q) # NoChannel
  <2>1. \A r, v : Ends(q, r, v) # NoChannel /\ Ends(p, r, v) # NoChannel
    BY <1>1 DEF Ends, NoChannel
  <2>2. \A r, v : [Ends(p, r, v) EXCEPT !.writer = q] = Ends(q, r, v)
    BY DEF Ends
  <2>3. /\ End(k, p) = PromiseEnd(k, p) /\ End(k, q) = PromiseEnd(k, q) /\ End(h, p) = PromiseEnd(h, p)
    BY Kinds
  <2> QED BY <1>4, <2>1, <2>2, <2>3 DEF PromiseEnd
<1>7. PICK a, b, c, e : a = End(h, p) /\ b = End(h, q) /\ c = End(k, p) /\ e = End(k, q)
  OBVIOUS
<1>8. Shown(k) = (Shown(h) \ {a, b}) \cup ({c, e} \ {NoChannel})
  BY <1>1, <1>5, <1>7, TwoChanges
<1>9. NoChannel \notin Shown(h)
  BY DEF Shown
<1>10. /\ End(h, p) = NoChannel => Shown(k) = Shown(h) \ {End(h, q)}
       /\ End(h, p) # NoChannel => Shown(k) = (Shown(h) \ {End(h, p), End(h, q)})
                                                 \cup {[End(h, p) EXCEPT !.writer = q]}
  BY <1>6, <1>7, <1>8, <1>9
<1>11. Tight(k, running)
  <2>1. TightTasks(k, running)
    <3>1. SUFFICES ASSUME NEW t \in Task
                   PROVE  /\ k.task[t].pr = None => k.task[t].wrapped = FALSE
                          /\ k.task[t].pr # None => k.task[t].state # "invalid"
                          /\ k.task[t].pr # None /\ t # running => Written(k, k.task[t].pr) = "future"
      BY DEF TightTasks
    <3>2. TightTasks(h, running)
      BY DEF Tight
    <3>3. h.task[t].pr # None /\ t # running => Written(k, h.task[t].pr) = "future"
      BY <1>2, <1>4, <3>2 DEF TightTasks
    <3> QED BY <1>3, <3>2, <3>3 DEF TightTasks
  <2>2. TightFutures(k)
    <3>1. SUFFICES ASSUME NEW f \in Future
                   PROVE  /\ k.future[f].life = "dead" => k.future[f].local = "invalid"
                          /\ k.future[f].promise # None => k.future[f].local = "future"
                          /\ k.future[f].promise # None /\ k.future[f].life = "spent" =>
                                k.promise[k.future[f].promise].local = "invalid"
      BY DEF TightFutures
    <3>2. TightFutures(h)
      BY DEF Tight
    <3>3. CASE h.future[f].promise = q
      BY <1>1, <3>2, <3>3 DEF Replaced, TightFutures
    <3>4. CASE h.future[f].promise # q
      BY <1>1, <1>2, <3>2, <3>4 DEF Replaced, TightFutures
    <3> QED BY <3>3, <3>4
  <2> QED BY <2>1, <2>2 DEF Tight
<1> QED BY <1>3, <1>10, <1>11 DEF Outputs, Handles

\* A future whose outcome has been moved out is marked as used, or destroyed.
UsedUp(m, k, f) == k = [m EXCEPT !.future[f].life = "spent"] \/ k = destroyFuture(m, f)

\* A future that holds nothing more goes without a change of the channels.
LEMMA UsedChans ==
    ASSUME NEW h, NEW running, NEW f \in Future, Linked(h, running, f), Tight(h, running),
           h.future[f].promise = None => h.future[f].local = "invalid",
           h.future[f].promise # None => h.promise[h.future[f].promise].local = "invalid",
           NEW k, UsedUp(h, k, f)
    PROVE  /\ Tight(k, running) /\ Shown(k) = Shown(h)
           /\ Outputs(k) = Outputs(h) /\ Handles(k) = Handles(h) /\ k.reported = h.reported
           /\ \A p \in Promise : k.promise[p].task = h.promise[p].task
<1>1. Typed(h) /\ None \notin Promise \cup Future \cup Task /\ f \in Addresses
  BY AddressAssumption, Kinds DEF Linked
<1>2. PICK q : q = h.future[f].promise
  OBVIOUS
<1>3. /\ q \in Promise \cup {None}
      /\ q # None => h.promise[q].state = "local" /\ h.promise[q].future = f
                     /\ h.promise[q].task = None /\ h.promise[q].local = "invalid"
      /\ q = None => h.future[f].local = "invalid"
      /\ \A g \in Future : g # f => h.future[g].promise # q \/ q = None
  BY <1>1, <1>2 DEF Linked, Paired, Writes, Typed, FutureRecord
<1>4. /\ k.task = h.task /\ k.queue = h.queue
      /\ \A g \in Future \ {f} : k.future[g] = h.future[g]
  <2>1. CASE k = [h EXCEPT !.future[f].life = "spent"]
    BY <1>1, <2>1 DEF Typed
  <2>2. CASE k = destroyFuture(h, f)
    BY <1>1, <2>2 DEF Typed, destroyFuture
  <2> QED BY <2>1, <2>2 DEF UsedUp
<1>5. \/ k.future[f].promise = q /\ k.future[f].life = "spent" /\ k.future[f].local = h.future[f].local
      \/ k.future[f] = DeadFuture
  <2>1. CASE k = [h EXCEPT !.future[f].life = "spent"]
    BY <1>1, <1>2, <2>1 DEF Typed, FutureRecord
  <2>2. CASE k = destroyFuture(h, f)
    BY <1>1, <2>2 DEF Typed, destroyFuture
  <2> QED BY <2>1, <2>2 DEF UsedUp
<1>6. \A p \in Promise : /\ k.promise[p].state = h.promise[p].state
                         /\ k.promise[p].task = h.promise[p].task
                         /\ k.promise[p].local = h.promise[p].local
                         /\ p # q => k.promise[p].future = h.promise[p].future
  <2>1. CASE k = [h EXCEPT !.future[f].life = "spent"]
    BY <1>1, <2>1 DEF Typed
  <2>2. CASE k = destroyFuture(h, f)
    <3>1. k.promise = IF q = None THEN h.promise ELSE [h.promise EXCEPT ![q].future = None]
      BY <1>1, <1>2, <2>2 DEF Typed, destroyFuture
    <3> QED BY <1>1, <1>3, <3>1 DEF Typed, PromiseRecord
  <2> QED BY <2>1, <2>2 DEF UsedUp
<1>7. k.reported = h.reported
  <2>1. CASE k = [h EXCEPT !.future[f].life = "spent"]
    BY <1>1, <2>1 DEF Typed
  <2>2. CASE k = destroyFuture(h, f)
    <3>1. state(h, f) # "exception"
      BY <1>1, <1>2, <1>3 DEF state, Written
    <3>2. k.reported = (h.reported \/ state(h, f) = "exception") /\ h.reported \in BOOLEAN
      BY <1>1, <2>2 DEF Typed, destroyFuture
    <3> QED BY <3>1, <3>2, SMTT(40)
  <2> QED BY <2>1, <2>2 DEF UsedUp
<1>8. \A p \in Promise : Written(k, p) = Written(h, p)
  BY <1>4, <1>6 DEF Written
<1>9. \A i \in Addresses : End(k, i) = End(h, i)
  <2>1. \A p \in Promise : PromiseEnd(k, p) = PromiseEnd(h, p)
    <3>1. q # None => Written(h, q) = "invalid"
      BY <1>3 DEF Written
    <3> QED BY <1>1, <1>3, <1>6, <1>8, <3>1 DEF PromiseEnd, Reader
  <2>2. \A g \in Future \ {f} : FutureEnd(k, g) = FutureEnd(h, g)
    BY <1>4 DEF FutureEnd, StillHolds
  <2>3. FutureEnd(k, f) = NoChannel /\ FutureEnd(h, f) = NoChannel
    BY <1>2, <1>3, <1>5 DEF FutureEnd, StillHolds, available, DeadFuture
  <2>4. \A t \in Task : TaskEnd(k, t) = TaskEnd(h, t)
    BY <1>4 DEF TaskEnd, InQueue
  <2> QED BY <2>1, <2>2, <2>3, <2>4, Kinds
<1>10. Tight(k, running)
  <2>1. TightTasks(k, running)
    <3>1. \A t \in Task : h.task[t].pr \in Promise \cup {None}
      BY <1>1 DEF Typed, TaskRecord
    <3> QED BY <1>4, <1>8, <3>1 DEF Tight, TightTasks
  <2>2. TightFutures(k)
    <3>1. \A g \in Future : h.future[g].promise \in Promise \cup {None}
      BY <1>1 DEF Typed, FutureRecord
    <3> QED BY <1>2, <1>3, <1>4, <1>5, <1>6, <3>1, SMTT(40) DEF Tight, TightFutures, DeadFuture
  <2> QED BY <2>1, <2>2 DEF Tight
<1>11. Shown(k) = Shown(h)
  BY <1>9 DEF Shown
<1> QED BY <1>4, <1>6, <1>7, <1>10, <1>11 DEF Outputs, Handles

\* future_state::forward_to joins the channel of the future to that of p.
LEMMA ForwardChans ==
    ASSUME NEW h, NEW running, Linked(h, running, None), Tight(h, running),
           NEW f \in Future, NEW p \in Promise, h.future[f].life = "live",
           Written(h, p) = "future", \A t \in Task : h.task[t].pr = p => t = running,
           available(state(h, f)) \/ (h.future[f].promise # None /\ h.future[f].promise # p),
           NEW m, m = forward_to(h, f, p), NEW k, UsedUp(m, k, f),
           NEW x, x = Source(h, f)
    PROVE  /\ Tight(k, running)
           /\ Shown(k) = Channels!Joined(Shown(h), End(h, x), End(h, p))
           /\ End(h, x) \in Shown(h) /\ End(h, p) \in Shown(h) /\ End(h, x) # End(h, p)
           /\ End(h, x) = Ends(h.future[f].promise, f, state(h, f))
           /\ End(h, p) = Ends(p, Reader(h, p), "future")
           /\ Outputs(k) = Outputs(h) /\ Handles(k) = Handles(h) /\ k.reported = h.reported
           /\ k.promise[p].task = None
<1>1. Typed(h) /\ None \notin Promise \cup Future \cup Task /\ p \in Addresses
  BY AddressAssumption, Kinds DEF Linked
<1>2. Linked(h, running, f)
  BY UsedLinks
<1>3. state(h, f) \in {"future", "result", "exception"}
  <2>1. state(h, f) \in States
    BY SourceEnd DEF Tight
  <2>2. h.future[f].promise # None => h.promise[h.future[f].promise].local # "invalid"
    BY <1>1, SMTT(40) DEF Linked, Readable
  <2>3. h.future[f].promise # None => state(h, f) = h.promise[h.future[f].promise].local
    BY ZenonT(60) DEF Linked, Paired, state, Written
  <2> QED BY <2>1, <2>2, <2>3 DEF States, available
<1>4. x \in Addresses /\ End(h, x) = Ends(h.future[f].promise, f, state(h, f)) /\ End(h, x) # NoChannel
  BY <1>3, SourceEnd DEF Tight, available
<1>5. End(h, p) = Ends(p, Reader(h, p), "future") /\ End(h, p) # NoChannel
  <2>1. Ends(p, Reader(h, p), "future") # NoChannel
    BY <1>1 DEF Ends, NoChannel
  <2> QED BY <2>1, Kinds DEF PromiseEnd
<1>6. End(h, x) \in Shown(h) /\ End(h, p) \in Shown(h)
  BY <1>1, <1>4, <1>5 DEF Shown
<1>7. End(h, x) # End(h, p)
  <2>1. End(h, x).content = state(h, f) /\ End(h, x).writer = h.future[f].promise
        /\ End(h, p).content = "future" /\ End(h, p).writer = p
    BY <1>4, <1>5 DEF Ends
  <2> QED BY <2>1 DEF available
<1>8. PICK a, b : a = End(h, x) /\ b = End(h, p)
  OBVIOUS
<1>9. CASE available(state(h, f))
  <2>1. PICK s, n : s = state(h, f) /\ n = set(h, p, s)
    OBVIOUS
  <2>2. s \in {"result", "exception"}
    BY <1>9, <2>1 DEF available
  <2>3. h.promise[p].future # f
    <3>1. h.promise[p].future = f => h.future[f].promise = p
      BY <1>1 DEF Linked, Paired
    <3> QED BY <1>1, <2>1, <2>2, <3>1 DEF state
  <2>4. /\ Tight(n, running) /\ n.promise[p].task = None
        /\ Shown(n) = (Shown(h) \ {b}) \cup {Channels!Resolved(b, s)}
        /\ Outputs(n) = Outputs(h) /\ Handles(n) = Handles(h) /\ n.reported = h.reported
        /\ state(n, f) = s
    BY <1>8, <2>1, <2>2, <2>3, SetChans
  <2>5. Linked(n, running, f) /\ n.future = h.future
    BY <1>2, <2>1, <2>2, SetLinks
  <2>6. m = Moved(n, f)
    BY <1>9, <2>1 DEF forward_to
  <2>7. x = Source(n, f)
    BY <2>5 DEF Source
  <2>8. End(n, x) = a
    BY <1>4, <1>8, <1>9, <2>1, <2>4, <2>5, <2>7, SourceEnd DEF Tight
  <2>9. /\ Tight(m, running)
        /\ Shown(m) = Shown(n) \ {a}
        /\ Outputs(m) = Outputs(n) /\ Handles(m) = Handles(n) /\ m.reported = n.reported
        /\ m.future[f].promise = None => m.future[f].local = "invalid"
        /\ m.future[f].promise # None => m.promise[m.future[f].promise].local = "invalid"
        /\ m.promise[p].task = n.promise[p].task
    BY <1>9, <2>1, <2>4, <2>5, <2>6, <2>7, <2>8, MovedChans
  <2>10. Linked(m, running, f)
    BY <2>5, <2>6, MovedLinks
  <2>11. /\ Tight(k, running) /\ Shown(k) = Shown(m)
         /\ Outputs(k) = Outputs(m) /\ Handles(k) = Handles(m) /\ k.reported = m.reported
         /\ k.promise[p].task = m.promise[p].task
    BY <2>9, <2>10, UsedChans
  <2>12. Channels!Resolved(b, s) # a
    <3>1. Channels!Resolved(b, s).reader = Reader(h, p)
      BY <1>5, <1>8 DEF Channels!Resolved, Channels!Channel, Ends
    <3>2. a.reader = f
      BY <1>4, <1>8 DEF Ends
    <3>3. Reader(h, p) # f
      <4>1. h.promise[p].task \in Task \cup {None}
        BY <1>1 DEF Typed, PromiseRecord
      <4> QED BY <2>3, <4>1, AddressAssumption DEF Reader
    <3> QED BY <3>1, <3>2, <3>3
  <2>13. Channels!Joined(Shown(h), a, b) = (Shown(h) \ {a, b}) \cup {Channels!Resolved(b, s)}
    <3>1. a.content = s
      BY <1>4, <1>8, <2>1 DEF Ends
    <3> QED BY <2>2, <3>1 DEF Channels!Joined
  <2>14. Shown(k) = Channels!Joined(Shown(h), a, b)
    BY <2>4, <2>9, <2>11, <2>12, <2>13
  <2> QED BY <1>4, <1>5, <1>6, <1>7, <1>8, <2>4, <2>9, <2>11, <2>14
<1>10. CASE ~available(state(h, f))
  <2>1. PICK q \in Promise : q = h.future[f].promise /\ q # p
    BY <1>1, <1>10 DEF Typed, FutureRecord
  <2>2. x = q /\ state(h, f) = "future"
    BY <1>1, <1>3, <1>10, <2>1 DEF Source, available
  <2>3. PICK n, g : n = [h EXCEPT !.future[f].promise = None] /\ g = h.promise[p].future
    OBVIOUS
  <2>4. m = move(n, p, q)
    BY <1>10, <2>1, <2>3 DEF forward_to
  <2>5. /\ n.promise = h.promise /\ n.task = h.task /\ n.queue = h.queue /\ n.reported = h.reported
        /\ n.future = [h.future EXCEPT ![f].promise = None]
    BY <1>1, <2>3 DEF Typed
  <2>6. /\ m.promise = [h.promise EXCEPT ![q] = h.promise[p], ![p] = NullPromise]
        /\ m.future = IF g = None THEN n.future ELSE [n.future EXCEPT ![g].promise = q]
        /\ m.task = h.task /\ m.queue = h.queue /\ m.reported = h.reported
    BY <1>1, <2>3, <2>4, <2>5 DEF move, Typed
  <2>7. /\ h.promise[q].future = f
        /\ \A y \in Future : /\ h.future[y].promise = p <=> y = g
                             /\ h.future[y].promise = q <=> y = f
    BY <1>1, <2>1, <2>3 DEF Linked, Paired, Typed
  <2>8. g \in Future \cup {None} /\ g # f
    BY <1>1, <2>1, <2>3, <2>7 DEF Typed, PromiseRecord
  <2>9. \A y \in Future : /\ m.future[y].life = h.future[y].life
                          /\ m.future[y].local = h.future[y].local
                          /\ m.future[y].promise = IF y = g THEN q ELSE IF y = f THEN None
                                                   ELSE h.future[y].promise
    <3>1. \A y \in Future : /\ n.future[y].life = h.future[y].life
                            /\ n.future[y].local = h.future[y].local
                            /\ n.future[y].promise = IF y = f THEN None ELSE h.future[y].promise
      BY <1>1, <2>5 DEF Typed, FutureRecord
    <3>2. n.future \in [Future -> FutureRecord]
      <4>1. PICK y : y = h.future[f]
        OBVIOUS
      <4>2. [y EXCEPT !.promise = None] \in FutureRecord
        BY <1>1, <4>1 DEF Typed, FutureRecord
      <4> QED BY <1>1, <2>5, <4>1, <4>2 DEF Typed
    <3>3. \A y \in Future : /\ m.future[y].life = n.future[y].life
                            /\ m.future[y].local = n.future[y].local
                            /\ m.future[y].promise = IF y = g THEN q ELSE n.future[y].promise
      BY <1>1, <2>6, <2>8, <3>2 DEF FutureRecord
    <3> QED BY <2>8, <3>1, <3>3
  <2>10. m.future[f].promise = None /\ h.future[f].local = "future"
    BY <1>1, <2>1, <2>8, <2>9 DEF Tight, TightFutures
  <2>11. /\ k.promise = m.promise /\ k.task = m.task /\ k.queue = m.queue
         /\ \A y \in Future \ {f} : k.future[y] = m.future[y]
         /\ k.future[f].promise = None
         /\ \/ k.future[f].life = "spent" /\ k.future[f].local = "future"
            \/ k.future[f].life = "dead" /\ k.future[f].local = "invalid"
         /\ k.reported = m.reported
    <3>1. m.future \in [Future -> FutureRecord] /\ m.reported \in BOOLEAN /\ available(state(m, f)) = FALSE
      <4>2. Linked(m, running, f)
        BY <1>1, <1>10, <2>1, <2>2, ForwardLinks, WrittenIs DEF Written, available
      <4>3. state(m, f) = "future"
        BY <2>9, <2>10 DEF state
      <4> QED BY <4>2, <4>3 DEF Linked, Typed, available
    <3>2. CASE k = [m EXCEPT !.future[f].life = "spent"]
      <4>1. /\ k.promise = m.promise /\ k.task = m.task /\ k.queue = m.queue
            /\ k.future = [m.future EXCEPT ![f].life = "spent"] /\ k.reported = m.reported
        BY <3>1, <3>2
      <4>2. /\ \A y \in Future \ {f} : k.future[y] = m.future[y]
            /\ k.future[f].promise = m.future[f].promise /\ k.future[f].life = "spent"
            /\ k.future[f].local = m.future[f].local
        BY <3>1, <4>1 DEF FutureRecord
      <4> QED BY <2>9, <2>10, <4>1, <4>2
    <3>3. CASE k = destroyFuture(m, f)
      BY <2>9, <2>10, <3>1, <3>3 DEF destroyFuture, DeadFuture, available
    <3> QED BY <3>2, <3>3 DEF UsedUp
  <2>12. Replaced(h, k, p, q)
    <3>1. /\ m.promise[q] = h.promise[p] /\ m.promise[p] = NullPromise
          /\ \A r \in Promise \ {p, q} : m.promise[r] = h.promise[r]
      BY <1>1, <2>1, <2>6 DEF Typed
    <3>2. /\ k.task = h.task /\ k.queue = h.queue
      BY <2>6, <2>11
    <3>3. \A y \in Future \ {f} : /\ h.future[y].promise # q
                                  /\ k.future[y].life = h.future[y].life
                                  /\ k.future[y].local = h.future[y].local
                                  /\ k.future[y].promise = IF h.future[y].promise = p THEN q
                                                           ELSE h.future[y].promise
      BY <2>7, <2>9, <2>11
    <3> QED BY <2>1, <2>11, <3>1, <3>2, <3>3 DEF Replaced, NullPromise
  <2>13. /\ Tight(k, running)
         /\ Shown(k) = (Shown(h) \ {b, a}) \cup {[b EXCEPT !.writer = q]}
         /\ Outputs(k) = Outputs(h) /\ Handles(k) = Handles(h)
    BY <1>5, <1>8, <2>1, <2>2, <2>12, ReplacedChans
  <2>14. Shown(k) = Channels!Joined(Shown(h), a, b)
    <3>1. a.content = "future" /\ a.writer = q
      BY <1>4, <1>8, <2>1, <2>2 DEF Ends
    <3> QED BY <2>13, <3>1 DEF Channels!Joined
  <2> QED BY <1>4, <1>5, <1>6, <1>7, <1>8, <2>6, <2>11, <2>12, <2>13, <2>14 DEF Replaced
<1> QED BY <1>9, <1>10

\* The same, with what it needs and what it does named.
Forwards(h, running, f, p, k) ==
    /\ h.future[f].life = "live" /\ Written(h, p) = "future"
    /\ \A t \in Task : h.task[t].pr = p => t = running
    /\ available(state(h, f)) \/ (h.future[f].promise # None /\ h.future[f].promise # p)
    /\ UsedUp(forward_to(h, f, p), k, f)
\* The two channels become one, and the promise is free.
Forwarded(h, f, p, k, a, b) ==
    /\ Shown(k) = Channels!Joined(Shown(h), a, b)
    /\ a \in Shown(h) /\ b \in Shown(h) /\ a # b /\ b = End(h, p)
    /\ a = Ends(h.future[f].promise, f, state(h, f))
    /\ b = Ends(p, Reader(h, p), "future")
    /\ Outputs(k) = Outputs(h) /\ Handles(k) = Handles(h) /\ k.reported = h.reported
    /\ k.promise[p].task = None

\* forward_to joins the channel of the future and that of the promise.
LEMMA ForwardedChans ==
    ASSUME NEW h, NEW running, Linked(h, running, None), Tight(h, running),
           NEW f \in Future, NEW p \in Promise, NEW k, Forwards(h, running, f, p, k)
    PROVE  Tight(k, running) /\ \E a, b : Forwarded(h, f, p, k, a, b)
<1>1. PICK m, x : m = forward_to(h, f, p) /\ x = Source(h, f)
  OBVIOUS
<1>2. /\ h.future[f].life = "live" /\ Written(h, p) = "future"
      /\ \A t \in Task : h.task[t].pr = p => t = running
      /\ available(state(h, f)) \/ (h.future[f].promise # None /\ h.future[f].promise # p)
      /\ UsedUp(m, k, f)
  BY <1>1 DEF Forwards
<1>3. /\ Tight(k, running)
      /\ Shown(k) = Channels!Joined(Shown(h), End(h, x), End(h, p))
      /\ End(h, x) \in Shown(h) /\ End(h, p) \in Shown(h) /\ End(h, x) # End(h, p)
      /\ End(h, x) = Ends(h.future[f].promise, f, state(h, f))
      /\ End(h, p) = Ends(p, Reader(h, p), "future")
      /\ Outputs(k) = Outputs(h) /\ Handles(k) = Handles(h) /\ k.reported = h.reported
      /\ k.promise[p].task = None
  BY <1>1, <1>2, ForwardChans, SMTT(60)
<1>4. Forwarded(h, f, p, k, End(h, x), End(h, p))
  BY <1>3, Zenon DEF Forwarded
<1> QED BY <1>3, <1>4, Zenon

\* What promise::~promise takes away: the channels of the promises that go,
\* but what a future still has to read.
Lost(h, G) == {h.promise[q].task : q \in G} \ {None}
\* The promises G that go with p, their channels D, and the heap without them.
Destroyed(h, p, G, D, k) ==
    /\ G = Chain(h, p) /\ D = {End(h, q) : q \in G} \ {NoChannel} /\ k = destroy(h, p)
    /\ \A t \in Task : h.task[t].pr # p
\* What the channels, the outputs and the handles are then.
Dropped(h, p, G, D, k) ==
    /\ Shown(k) = (Shown(h) \ D) \cup {[d EXCEPT !.writer = None] : d \in {e \in D : e.reader \in Future}}
    /\ k.reported = (h.reported \/ (h.promise[p].future = None /\ Written(h, p) = "exception"))
    /\ Outputs(k) = [t \in Task |-> IF t \in Lost(h, G) THEN None ELSE Outputs(h)[t]]
    /\ Handles(k) = Handles(h) \ Lost(h, G)
    /\ Lost(h, G) = {d.reader : d \in D} \cap Task
    /\ \A q \in G : End(h, q) = NoChannel \/ \E r : End(h, q) = Ends(q, r, Written(h, q))
    /\ \A q \in G : q # p => \E t \in Lost(h, G) : h.task[t].pr = q
    /\ \A t \in Lost(h, G) : \E d \in D : d.writer = h.task[t].pr

\* promise::~promise closes the channels of the promises that go with it.
LEMMA DestroyChans ==
    ASSUME NEW h, Linked(h, None, None), Tight(h, None), NEW p \in Promise,
           NEW G, NEW D, NEW k, Destroyed(h, p, G, D, k)
    PROVE  Tight(k, None) /\ Dropped(h, p, G, D, k)
<1> USE DEF Destroyed
<1>1. Typed(h) /\ None \notin Promise \cup Future \cup Task
  BY AddressAssumption DEF Linked
<1>2. PICK T, F : T = Lost(h, G) /\ F = {h.promise[q].future : q \in G} \ {None}
  OBVIOUS
<1>3. /\ p \in G /\ G \subseteq Promise /\ Passes(h, G)
      /\ \A q \in G : q = p \/ \E x \in G : /\ h.promise[x].task # None
                                            /\ h.task[h.promise[x].task].pr = q
  BY ChainFacts
<1>4. \A q \in Promise : /\ h.promise[q].future \in Future \cup {None}
                         /\ h.promise[q].task \in Task \cup {None}
  BY <1>1 DEF Typed, PromiseRecord
<1>5. /\ T \subseteq Task
      /\ \A q \in Promise : h.promise[q].task # None => (q \in G <=> h.promise[q].task \in T)
  <2>1. \A q, r \in Promise : h.promise[q].task # None /\ h.promise[q].task = h.promise[r].task => q = r
    BY DEF Linked, Attached
  <2> QED BY <1>2, <1>3, <1>4, <2>1 DEF Lost
<1>6. /\ F \subseteq Future
      /\ \A f \in Future : f \in F <=> h.future[f].promise \in G
      /\ \A q \in G : h.promise[q].future # None => h.promise[q].future \in F
      /\ \A f \in F : h.promise[h.future[f].promise].future = f
  <2>1. F \subseteq Future
    BY <1>2, <1>3, <1>4
  <2>2. ASSUME NEW f \in Future, h.future[f].promise \in G
        PROVE f \in F /\ h.promise[h.future[f].promise].future = f
    BY <1>1, <1>2, <1>3, <2>2 DEF Linked, Paired
  <2>3. ASSUME NEW f \in F PROVE h.future[f].promise \in G
    BY <1>2, <1>3, <2>3 DEF Linked, Paired
  <2> QED BY <1>2, <2>1, <2>2, <2>3
<1>7. /\ k.promise = [q \in Promise |-> IF q \in G THEN DeadPromise ELSE h.promise[q]]
      /\ k.task = [t \in Task |-> IF t \in T THEN NoTask ELSE h.task[t]]
      /\ k.future = [f \in Future |-> IF f \in F
                        THEN [h.future[f] EXCEPT !.local = state(h, f), !.promise = None]
                        ELSE h.future[f]]
      /\ k.queue = h.queue
  BY <1>2, Zenon DEF destroy, Lost
<1>8. k.reported = (h.reported \/ \E q \in G : h.promise[q].future = None /\ Written(h, q) = "exception")
  BY <1>2, Zenon DEF destroy
<1>9. /\ \A q \in G : k.promise[q] = DeadPromise
      /\ \A q \in Promise \ G : k.promise[q] = h.promise[q]
  BY <1>3, <1>7
<1>10. /\ \A t \in T : k.task[t] = NoTask
       /\ \A t \in Task \ T : k.task[t] = h.task[t]
  BY <1>5, <1>7
<1>11. /\ \A f \in F : /\ k.future[f].life = h.future[f].life /\ k.future[f].promise = None
                       /\ k.future[f].local = state(h, f)
       /\ \A f \in Future \ F : k.future[f] = h.future[f]
  <2>1. \A f \in Future \ F : k.future[f] = h.future[f]
    BY <1>7
  <2>2. ASSUME NEW f \in F
        PROVE  /\ k.future[f].life = h.future[f].life /\ k.future[f].promise = None
               /\ k.future[f].local = state(h, f)
    <3>1. PICK x, v : x = h.future[f] /\ v = state(h, f)
      OBVIOUS
    <3>2. x \in FutureRecord /\ k.future[f] = [x EXCEPT !.local = v, !.promise = None]
      BY <1>1, <1>6, <1>7, <3>1 DEF Typed
    <3> QED BY <3>1, <3>2 DEF FutureRecord
  <2> QED BY <2>1, <2>2
\* A promise captured by one of the continuations is still to be written.
<1>12. ASSUME NEW t \in T
       PROVE  /\ h.task[t].pr \in G /\ h.task[t].pr # p
              /\ Written(h, h.task[t].pr) = "future" /\ End(h, h.task[t].pr) \in D
              /\ End(h, h.task[t].pr).writer = h.task[t].pr
  <2>1. PICK q \in G : h.promise[q].task = t
    BY <1>2, <1>12 DEF Lost
  <2>2. t \in Task /\ h.task[t].pr \in G /\ h.task[t].pr # p
    BY <1>1, <1>3, <1>5, <2>1 DEF Passes
  <2>3. h.task[t].pr \in Promise
    BY <1>3, <2>2
  <2>4. Written(h, h.task[t].pr) = "future"
    BY <1>1, <2>2, <2>3 DEF Tight, TightTasks
  <2>5. End(h, h.task[t].pr) = Ends(h.task[t].pr, Reader(h, h.task[t].pr), "future")
    BY <2>3, <2>4, Kinds DEF PromiseEnd
  <2>6. End(h, h.task[t].pr) # NoChannel /\ End(h, h.task[t].pr).writer = h.task[t].pr
    BY <1>1, <2>3, <2>5 DEF Ends, NoChannel
  <2> QED BY <2>2, <2>4, <2>6
<1>13. \A q \in G : q # p => \E t \in T : h.task[t].pr = q
  BY <1>2, <1>3 DEF Lost
<1>14. k.reported = (h.reported \/ (h.promise[p].future = None /\ Written(h, p) = "exception"))
  <2>1. \A q \in G : q # p => Written(h, q) = "future"
    BY <1>12, <1>13
  <2> QED BY <1>3, <1>8, <2>1
<1>15. \A q \in Promise \ G : Written(k, q) = Written(h, q) /\ Reader(k, q) = Reader(h, q)
  <2>1. SUFFICES ASSUME NEW q \in Promise \ G
                 PROVE  Written(k, q) = Written(h, q) /\ Reader(k, q) = Reader(h, q)
    OBVIOUS
  <2>2. k.promise[q] = h.promise[q]
    BY <1>9
  <2>3. h.promise[q].task # None => k.task[h.promise[q].task] = h.task[h.promise[q].task]
    BY <1>4, <1>5, <1>10
  <2>4. h.promise[q].state = "task" => h.promise[q].task # None
    BY DEF Linked, Writes
  <2> QED BY <2>2, <2>3, <2>4 DEF Written, Reader
<1>16. Only(h, k, G \cup F)
  <2>1. \A q \in Promise \ G : PromiseEnd(k, q) = PromiseEnd(h, q)
    BY <1>15 DEF PromiseEnd
  <2>2. \A f \in Future \ F : FutureEnd(k, f) = FutureEnd(h, f)
    BY <1>11 DEF FutureEnd, StillHolds
  <2>3. ASSUME NEW t \in Task PROVE TaskEnd(k, t) = TaskEnd(h, t)
    <3>1. InQueue(k, t) <=> InQueue(h, t)
      BY <1>7 DEF InQueue
    <3>2. InQueue(h, t) => t \notin T
      <4>1. ASSUME NEW q \in G, h.promise[q].task = t PROVE ~InQueue(h, t)
        BY <1>1, <1>3, <4>1 DEF InQueue, Linked, Queued, Attached
      <4> QED BY <1>2, <4>1 DEF Lost
    <3> QED BY <1>10, <3>1, <3>2 DEF TaskEnd
  <2> QED BY <1>3, <1>6, <2>1, <2>2, <2>3, Kinds DEF Only
<1>17. \A q \in G : /\ End(k, q) = NoChannel
                    /\ End(h, q) = NoChannel \/ End(h, q) = Ends(q, Reader(h, q), Written(h, q))
                    /\ q \in Addresses
  <2>1. \A q \in G : Written(k, q) = "invalid"
    BY <1>9 DEF Written, DeadPromise, NullPromise
  <2> QED BY <1>3, <2>1, Kinds DEF PromiseEnd
\* The heirs read what their promises wrote.
<1>18. ASSUME NEW f \in F
       PROVE  /\ f \in Addresses /\ End(h, f) = NoChannel
              /\ h.future[f].promise \in G /\ Reader(h, h.future[f].promise) = f
              /\ End(h, h.future[f].promise) = NoChannel => End(k, f) = NoChannel
              /\ End(h, h.future[f].promise) # NoChannel =>
                    /\ End(k, f) = [End(h, h.future[f].promise) EXCEPT !.writer = None]
                    /\ End(k, f) # NoChannel
  <2>1. PICK q \in Promise : q = h.future[f].promise /\ q \in G /\ h.promise[q].future = f
    BY <1>3, <1>6
  <2>2. f \in Future /\ f \in Addresses /\ End(h, f) = NoChannel
    BY <1>1, <1>6, <2>1, Kinds DEF FutureEnd
  <2>3. h.promise[q].task = None /\ h.promise[q].state = "local" /\ Reader(h, q) = f
    BY <1>1, <2>1, <2>2, WrittenIs DEF Reader
  <2>4. q = Source(h, f)
    BY <1>1, <2>1 DEF Source
  <2>5. /\ available(state(h, f)) \/ (state(h, f) = "future" /\ h.future[f].life = "live") =>
              End(h, q) = Ends(q, f, state(h, f)) /\ End(h, q) # NoChannel
        /\ ~available(state(h, f)) /\ ~(state(h, f) = "future" /\ h.future[f].life = "live") =>
              End(h, q) = NoChannel
    BY <2>1, <2>2, <2>4, SourceEnd DEF Tight
  <2>6. End(k, f) = IF available(state(h, f)) \/ (state(h, f) = "future" /\ h.future[f].life = "live")
                    THEN Ends(None, f, state(h, f)) ELSE NoChannel
    BY <1>11, <2>2, Kinds DEF FutureEnd, StillHolds
  <2>7. \A v : /\ [Ends(q, f, v) EXCEPT !.writer = None] = Ends(None, f, v)
               /\ Ends(None, f, v) # NoChannel
    BY <1>1, <2>2 DEF Ends, NoChannel
  <2> QED BY <2>1, <2>2, <2>3, <2>5, <2>6, <2>7
<1>19. Shown(k) = (Shown(h) \ D) \cup {[d EXCEPT !.writer = None] : d \in {e \in D : e.reader \in Future}}
  <2>1. PICK S : S = G \cup F /\ S \subseteq Addresses
    BY <1>17, <1>18
  <2>2. Shown(k) = (Shown(h) \ {End(h, i) : i \in S}) \cup ({End(k, i) : i \in S} \ {NoChannel})
    BY <1>16, <2>1, Changes
  <2>3. NoChannel \notin Shown(h)
    BY DEF Shown
  <2>4. \A c \in Shown(h) : c \in {End(h, i) : i \in S} <=> c \in D
    BY <1>18, <2>1, <2>3, Zenon
  <2>5. ASSUME NEW c, c \in {End(k, i) : i \in S} \ {NoChannel}
        PROVE  c \in {[d EXCEPT !.writer = None] : d \in {e \in D : e.reader \in Future}}
    <3>1. PICK f \in F : c = End(k, f) /\ c # NoChannel
      BY <1>17, <2>1, <2>5, Zenon
    <3>2. PICK d : d = End(h, h.future[f].promise)
      OBVIOUS
    <3>3. d \in D /\ c = [d EXCEPT !.writer = None]
      BY <1>18, <3>1, <3>2
    <3>4. d.reader = f /\ f \in Future
      <4>1. d = Ends(h.future[f].promise, f, Written(h, h.future[f].promise))
        BY <1>17, <1>18, <3>2, <3>3
      <4> QED BY <1>6, <4>1 DEF Ends
    <3> QED BY <3>3, <3>4
  <2>6. ASSUME NEW d \in D, d.reader \in Future
        PROVE  [d EXCEPT !.writer = None] \in {End(k, i) : i \in S} \ {NoChannel}
    <3>1. PICK q \in G : d = End(h, q) /\ d # NoChannel
      BY Zenon
    <3>2. d = Ends(q, Reader(h, q), Written(h, q))
      BY <1>17, <3>1
    <3>3. Reader(h, q) \in Future
      BY <2>6, <3>2 DEF Ends
    <3>4. h.promise[q].future \in F /\ h.future[h.promise[q].future].promise = q
      <4>1. q \in Promise /\ h.promise[q].future = Reader(h, q)
        BY <1>3, <1>4, <3>3, AddressAssumption DEF Reader
      <4> QED BY <1>1, <1>6, <3>3, <4>1 DEF Linked, Paired
    <3>5. PICK f \in F : f = h.promise[q].future /\ h.future[f].promise = q
      BY <3>4
    <3>6. End(k, f) = [d EXCEPT !.writer = None] /\ End(k, f) # NoChannel
      BY <1>18, <3>1, <3>5
    <3> QED BY <2>1, <3>6
  <2> QED BY <2>2, <2>4, <2>5, <2>6
<1>20. T = {d.reader : d \in D} \cap Task
  <2>1. ASSUME NEW t \in T PROVE t \in Task /\ \E d \in D : d.reader = t
    <3>1. PICK q \in G : h.promise[q].task = t /\ t # None /\ t \in Task
      BY <1>2, <1>5, <2>1 DEF Lost
    <3>2. q \in Promise /\ Written(h, q) = "future" /\ Reader(h, q) = t
      BY <1>3, <3>1, WrittenIs DEF Reader
    <3>3. End(h, q) = Ends(q, t, "future")
      BY <3>2, Kinds DEF PromiseEnd
    <3>4. End(h, q) \in D /\ End(h, q).reader = t
      BY <1>1, <3>2, <3>3 DEF Ends, NoChannel
    <3> QED BY <3>1, <3>4
  <2>2. ASSUME NEW d \in D, d.reader \in Task PROVE d.reader \in T
    <3>1. PICK q \in G : d = End(h, q) /\ d # NoChannel
      BY Zenon
    <3>2. d.reader = Reader(h, q)
      BY <1>17, <3>1 DEF Ends
    <3>3. q \in Promise /\ Reader(h, q) = h.promise[q].task /\ Reader(h, q) # None
      BY <1>1, <1>3, <1>4, <2>2, <3>2, AddressAssumption DEF Reader
    <3> QED BY <1>2, <3>2, <3>3 DEF Lost
  <2> QED BY <2>1, <2>2
<1>21. Tight(k, None)
  <2>1. TightTasks(k, None)
    <3>1. SUFFICES ASSUME NEW t \in Task
                   PROVE  /\ k.task[t].pr = None => k.task[t].wrapped = FALSE
                          /\ k.task[t].pr # None => k.task[t].state # "invalid"
                          /\ k.task[t].pr # None /\ t # None => Written(k, k.task[t].pr) = "future"
      BY DEF TightTasks
    <3>2. CASE t \in T
      BY <1>10, <3>2 DEF NoTask
    <3>3. CASE t \notin T
      <4>1. k.task[t] = h.task[t] /\ h.task[t].pr \in Promise \cup {None}
        BY <1>1, <1>10, <3>3 DEF Typed, TaskRecord
      <4>2. h.task[t].pr # None => h.task[t].pr \notin G
        <5>1. SUFFICES ASSUME h.task[t].pr \in G, h.task[t].pr # None PROVE FALSE
          OBVIOUS
        <5>2. PICK u \in T : h.task[u].pr = h.task[t].pr
          BY <1>13, <5>1
        <5>3. u = t
          BY <1>5, <5>1, <5>2 DEF Linked, Captured
        <5> QED BY <3>3, <5>3
      <4> QED BY <1>15, <4>1, <4>2 DEF Tight, TightTasks
    <3> QED BY <3>2, <3>3
  <2>2. TightFutures(k)
    <3>1. SUFFICES ASSUME NEW f \in Future
                   PROVE  /\ k.future[f].life = "dead" => k.future[f].local = "invalid"
                          /\ k.future[f].promise # None => k.future[f].local = "future"
                          /\ k.future[f].promise # None /\ k.future[f].life = "spent" =>
                                k.promise[k.future[f].promise].local = "invalid"
      BY DEF TightFutures
    <3>2. CASE f \in F
      <4>1. h.future[f].promise # None
        BY <1>1, <1>3, <1>6, <3>2
      <4>2. h.future[f].life # "dead"
        BY <4>1 DEF Linked, Paired
      <4> QED BY <1>11, <3>2, <4>2
    <3>3. CASE f \notin F
      <4>1. k.future[f] = h.future[f] /\ h.future[f].promise \notin G
            /\ h.future[f].promise \in Promise \cup {None}
        BY <1>1, <1>6, <1>11, <3>3 DEF Typed, FutureRecord
      <4> QED BY <1>9, <4>1 DEF Tight, TightFutures
    <3> QED BY <3>2, <3>3
  <2> QED BY <2>1, <2>2 DEF Tight
<1>22. Outputs(k) = [t \in Task |-> IF t \in T THEN None ELSE Outputs(h)[t]]
  BY <1>10 DEF Outputs, NoTask
<1>23. Handles(k) = Handles(h) \ T
  BY <1>5, <1>10 DEF Handles, NoTask
<1> QED BY <1>2, <1>12, <1>13, <1>14, <1>17, <1>19, <1>20, <1>21, <1>22, <1>23 DEF Dropped

-----------------------------------------------------------------------------
(* Every step of the program is a step of the channels.                    *)

\* The heap that the operations work on, and its channels.
LEMMA HeapChans ==
    ASSUME IInv, Tight(Now, None)
    PROVE  /\ Tight(Heap, None) /\ Chans(Heap) = Shown(Heap)
<1>1. Chans(Heap) = Shown(Heap)
  BY HeapLinks, ChansShown DEF Linked
<1>2. Heap.promise = Now.promise /\ Heap.future = Now.future /\ Heap.task = Now.task
  BY SMTT(40) DEF Heap, Now
<1>3. Tight(Heap, None)
  BY <1>2 DEF Tight, TightTasks, TightFutures, Written
<1> QED BY <1>1, <1>3

\* The channels after a step.
LEMMA BecomesChans ==
    ASSUME IInv', NEW k, HeapBecomes(k), Tight(k, None)
    PROVE  /\ Tight(Now, None)'
           /\ Chans(Heap)' = Shown(k) /\ Outputs(Heap)' = Outputs(k)
           /\ Handles(Heap)' = Handles(k) /\ reported' = k.reported
<1>1. /\ k.promise = promise' /\ k.future = future' /\ k.task = task'
      /\ k.queue = _pending_tasks' /\ k.reported = reported'
  BY DEF HeapBecomes
<1>2. Typed(k)
  BY <1>1 DEF IInv, Now, Linked, Typed
<1>3. Chans(k) = Shown(k)
  BY <1>2, ChansShown
<1>4. Tight(Now, None)'
  BY <1>1 DEF Tight, TightTasks, TightFutures, Written, Now
<1>5. Chans(Heap)' = Chans(k)
  BY <1>1 DEF Chans, Heap, Written, Reader
<1>6. Outputs(Heap)' = Outputs(k) /\ Handles(Heap)' = Handles(k)
  BY <1>1 DEF Outputs, Handles, Heap
<1> QED BY <1>1, <1>3, <1>4, <1>5, <1>6

\* A channel with a writer is that of the writer.
LEMMA Writers ==
    ASSUME NEW h, NEW c \in Shown(h)
    PROVE  /\ c.writer \in Promise \cup {None}
           /\ c.writer # None => c = End(h, c.writer)
<1>1. PICK i \in Addresses : c = End(h, i) /\ c # NoChannel
  BY Zenon DEF Shown
<1>2. CASE i \in Promise
  BY <1>1, <1>2, Kinds DEF PromiseEnd, Ends
<1>3. CASE i \in Future
  <2>1. c = Ends(None, i, h.future[i].local)
    BY <1>1, <1>3, Kinds DEF FutureEnd
  <2> QED BY <2>1 DEF Ends
<1>4. CASE i \in Task
  BY <1>1, <1>4, Kinds DEF TaskEnd, Ends
<1> QED BY <1>2, <1>3, <1>4, Kinds

\* One promise changes, and no future or task that has a channel of its own.
LEMMA PromiseChange ==
    ASSUME NEW h, NEW k, NEW p \in Promise, k.task = h.task, k.queue = h.queue,
           \A q \in Promise \ {p} : k.promise[q] = h.promise[q],
           \A f \in Future : FutureEnd(k, f) = FutureEnd(h, f)
    PROVE  /\ Shown(k) = (Shown(h) \ {End(h, p)}) \cup ({End(k, p)} \ {NoChannel})
           /\ \A q \in Promise \ {p} : Written(k, q) = Written(h, q)
           /\ Outputs(k) = Outputs(h) /\ Handles(k) = Handles(h)
<1>1. \A q \in Promise \ {p} : Written(k, q) = Written(h, q) /\ Reader(k, q) = Reader(h, q)
  BY DEF Written, Reader
<1>2. \A q \in Promise \ {p} : PromiseEnd(k, q) = PromiseEnd(h, q)
  BY <1>1 DEF PromiseEnd
<1>3. \A t \in Task : TaskEnd(k, t) = TaskEnd(h, t)
  BY DEF TaskEnd, InQueue
<1>4. OnlyOne(h, k, p)
  BY <1>2, <1>3, Kinds DEF Only, OnlyOne
<1>5. p \in Addresses
  BY Kinds
<1>6. Shown(k) = (Shown(h) \ {End(h, p)}) \cup ({End(k, p)} \ {NoChannel})
  BY <1>4, <1>5, OneChange
<1> QED BY <1>1, <1>6 DEF Outputs, Handles

\* promise::promise() opens a channel.
LEMMA ConstructChans ==
    ASSUME IInv, IInv', Tight(Now, None), NEW p \in Promise, Construct(p)
    PROVE  Channels!Next /\ Tight(Now, None)'
<1>1. PICK h, k : h = Heap /\ k = [Heap EXCEPT !.promise[p] = NewPromise]
  OBVIOUS
<1>2. /\ Linked(h, None, None) /\ Tight(h, None) /\ HeapBecomes(k) /\ Chans(Heap) = Shown(h)
      /\ h.promise[p].state = "dead" /\ h.promise = promise /\ h.reported = FALSE
  BY <1>1, HeapLinks, HeapChans DEF Construct, Alive
<1>3. Typed(h) /\ None \notin Promise \cup Future \cup Task
  BY <1>2, AddressAssumption DEF Linked
<1>4. /\ k.promise = [h.promise EXCEPT ![p] = NewPromise]
      /\ k.future = h.future /\ k.task = h.task /\ k.queue = h.queue /\ k.reported = h.reported
  BY <1>1, <1>3 DEF Typed, Heap
<1>5. k.promise[p] = NewPromise /\ \A q \in Promise \ {p} : k.promise[q] = h.promise[q]
  BY <1>3, <1>4 DEF Typed
<1>6. /\ Shown(k) = (Shown(h) \ {End(h, p)}) \cup ({End(k, p)} \ {NoChannel})
      /\ \A q \in Promise \ {p} : Written(k, q) = Written(h, q)
      /\ Outputs(k) = Outputs(h) /\ Handles(k) = Handles(h)
  <2>1. \A f \in Future : FutureEnd(k, f) = FutureEnd(h, f)
    BY <1>4 DEF FutureEnd, StillHolds
  <2> QED BY <1>4, <1>5, <2>1, PromiseChange
<1>7. End(h, p) = NoChannel
  BY <1>2, Kinds DEF PromiseEnd, Written
<1>8. End(k, p) = Ends(p, None, "future") /\ End(k, p) # NoChannel
  BY <1>3, <1>5, Kinds DEF PromiseEnd, Written, Reader, NewPromise, Ends, NoChannel
<1>9. Tight(k, None)
  <2>1. \A t \in Task : h.task[t].pr \in (Promise \ {p}) \cup {None}
    BY <1>2, <1>3 DEF Linked, Captured, Typed, TaskRecord
  <2>2. \A f \in Future : h.future[f].promise \in (Promise \ {p}) \cup {None}
    BY <1>2, <1>3 DEF Linked, Paired, Typed, FutureRecord
  <2>3. TightTasks(k, None)
    BY <1>2, <1>4, <1>6, <2>1 DEF Tight, TightTasks
  <2>4. TightFutures(k)
    BY <1>2, <1>4, <1>5, <2>2 DEF Tight, TightFutures
  <2> QED BY <2>3, <2>4 DEF Tight
<1>10. /\ Tight(Now, None)'
       /\ Chans(Heap)' = Shown(k) /\ Outputs(Heap)' = Outputs(k)
       /\ Handles(Heap)' = Handles(k) /\ reported' = k.reported
  BY <1>2, <1>9, BecomesChans
<1>11. ~ \E c \in Chans(Heap) : c.writer = p
  BY <1>2, <1>3, <1>7, Writers DEF Shown
<1>12. Chans(Heap)' = Chans(Heap) \cup {Ends(p, None, "future")}
  BY <1>2, <1>6, <1>7, <1>8, <1>10 DEF Shown
<1>13. Channels!Open(p)
  <2>1. Channels!Channel(p, None, "future") = Ends(p, None, "future")
    BY DEF Channels!Channel, Ends
  <2>2. Outputs(Heap)' = Outputs(Heap) /\ Handles(Heap)' = Handles(Heap) /\ ~reported'
    BY <1>1, <1>2, <1>4, <1>6, <1>10
  <2> QED BY <1>11, <1>12, <2>1, <2>2 DEF Channels!Open, Channels!Quiet
<1> QED BY <1>10, <1>13 DEF Channels!Next

\* promise::get_future gives a channel its reader.
LEMMA GetFutureChans ==
    ASSUME IInv, IInv', Tight(Now, None), NEW p \in Promise, NEW f \in Future, get_future(p, f)
    PROVE  Channels!Next /\ Tight(Now, None)'
<1>1. PICK h, k : /\ h = Heap
                  /\ k = [Heap EXCEPT !.promise[p].future = f,
                                      !.future[f] = [promise |-> p, local |-> "future", life |-> "live"]]
  OBVIOUS
<1>2. /\ Linked(h, None, None) /\ Tight(h, None) /\ HeapBecomes(k) /\ Chans(Heap) = Shown(h)
      /\ h.promise[p].state = "local" /\ h.promise[p].local # "invalid" /\ h.promise[p].future = None
      /\ h.future[f].life = "dead" /\ h.reported = FALSE
  BY <1>1, HeapLinks, HeapChans DEF get_future
<1>3. Typed(h) /\ None \notin Promise \cup Future \cup Task
  BY <1>2, AddressAssumption DEF Linked
<1>4. PICK x, v : x = h.promise[p] /\ v = h.promise[p].local
  OBVIOUS
<1>5. /\ k.promise = [h.promise EXCEPT ![p] = [x EXCEPT !.future = f]]
      /\ k.future = [h.future EXCEPT ![f] = [promise |-> p, local |-> "future", life |-> "live"]]
      /\ k.task = h.task /\ k.queue = h.queue /\ k.reported = h.reported
  BY <1>1, <1>3, <1>4 DEF Typed, Heap
<1>6. x \in PromiseRecord
  BY <1>3, <1>4 DEF Typed
<1>7. /\ k.promise[p].future = f /\ k.promise[p].state = "local"
      /\ k.promise[p].local = v /\ k.promise[p].task = h.promise[p].task
      /\ \A q \in Promise \ {p} : k.promise[q] = h.promise[q]
  BY <1>2, <1>3, <1>4, <1>5, <1>6 DEF Typed, PromiseRecord
<1>8. /\ k.future[f] = [promise |-> p, local |-> "future", life |-> "live"]
      /\ \A g \in Future \ {f} : k.future[g] = h.future[g]
  BY <1>3, <1>5 DEF Typed
<1>9. h.promise[p].task = None /\ v # "invalid"
  BY <1>2, <1>3, <1>4, WrittenIs DEF Linked, Writes
<1>10. h.future[f].promise = None /\ h.future[f].local = "invalid"
  BY <1>2 DEF Linked, Paired, Tight, TightFutures
<1>11. /\ Shown(k) = (Shown(h) \ {End(h, p)}) \cup ({End(k, p)} \ {NoChannel})
       /\ \A q \in Promise \ {p} : Written(k, q) = Written(h, q)
       /\ Outputs(k) = Outputs(h) /\ Handles(k) = Handles(h)
  <2>1. \A g \in Future \ {f} : FutureEnd(k, g) = FutureEnd(h, g)
    BY <1>8 DEF FutureEnd, StillHolds
  <2>2. FutureEnd(h, f) = NoChannel /\ FutureEnd(k, f) = NoChannel
    BY <1>3, <1>8, <1>10 DEF FutureEnd, StillHolds, available
  <2> QED BY <1>5, <1>7, <2>1, <2>2, PromiseChange
<1>12. Written(h, p) = v /\ Written(k, p) = v /\ Reader(h, p) = None /\ Reader(k, p) = f
  BY <1>2, <1>4, <1>7, <1>9 DEF Written, Reader
<1>13. End(h, p) = Ends(p, None, v) /\ End(k, p) = Ends(p, f, v)
  BY <1>9, <1>12, Kinds DEF PromiseEnd
<1>14. Tight(k, None)
  <2>1. \A t \in Task : h.task[t].pr \in Promise \cup {None}
    BY <1>3 DEF Typed, TaskRecord
  <2>2. TightTasks(k, None)
    BY <1>2, <1>5, <1>11, <1>12, <2>1 DEF Tight, TightTasks
  <2>3. \A g \in Future \ {f} : h.future[g].promise \in (Promise \ {p}) \cup {None}
    BY <1>2, <1>3 DEF Linked, Paired, Typed, FutureRecord
  <2>4. TightFutures(k)
    BY <1>2, <1>7, <1>8, <2>3 DEF Tight, TightFutures
  <2> QED BY <2>2, <2>4 DEF Tight
<1>15. /\ Tight(Now, None)'
       /\ Chans(Heap)' = Shown(k) /\ Outputs(Heap)' = Outputs(k)
       /\ Handles(Heap)' = Handles(k) /\ reported' = k.reported
  BY <1>2, <1>14, BecomesChans
<1>16. PICK c : c = Ends(p, None, v)
  OBVIOUS
<1>17. c \in Chans(Heap) /\ c.reader = None /\ c.writer = p /\ [c EXCEPT !.reader = f] = Ends(p, f, v)
       /\ Ends(p, f, v) # NoChannel
  <2>1. c # NoChannel /\ Ends(p, f, v) # NoChannel
    BY <1>3, <1>16 DEF Ends, NoChannel
  <2>2. c \in Shown(h)
    BY <1>13, <1>16, <2>1, Kinds DEF Shown
  <2> QED BY <1>2, <1>16, <2>1, <2>2 DEF Ends
<1>18. Channels!GetFuture(c, f)
  <2>1. Outputs(Heap)' = Outputs(Heap) /\ Handles(Heap)' = Handles(Heap) /\ ~reported'
    BY <1>1, <1>2, <1>5, <1>11, <1>15
  <2>2. Chans(Heap)' = (Chans(Heap) \ {c}) \cup {[c EXCEPT !.reader = f]}
    BY <1>2, <1>11, <1>13, <1>15, <1>16, <1>17
  <2> QED BY <1>3, <1>17, <2>1, <2>2 DEF Channels!GetFuture, Channels!Quiet
<1> QED BY <1>15, <1>17, <1>18 DEF Channels!Next

\* promise::set_value, set_exception resolve a channel.
LEMMA SetActionChans ==
    ASSUME IInv, IInv', Tight(Now, None),
           NEW p \in Promise, NEW v \in {"result", "exception"}, Set(p, v)
    PROVE  Channels!Next /\ Tight(Now, None)'
<1>1. PICK h, k : h = Heap /\ k = set(Heap, p, v)
  OBVIOUS
<1>2. /\ Linked(h, None, None) /\ Tight(h, None) /\ HeapBecomes(k) /\ Chans(Heap) = Shown(h)
      /\ Written(h, p) = "future" /\ \A t \in Task : h.task[t].pr # p
      /\ h.reported = FALSE /\ k = set(h, p, v)
  BY <1>1, HeapLinks, HeapChans DEF Set, Unset, Owned
<1>3. None \notin Promise \cup Future \cup Task
  BY AddressAssumption
<1>4. /\ Tight(k, None)
      /\ Shown(k) = (Shown(h) \ {End(h, p)}) \cup {Channels!Resolved(End(h, p), v)}
      /\ End(h, p) = Ends(p, Reader(h, p), "future")
      /\ Outputs(k) = Outputs(h) /\ Handles(k) = Handles(h) /\ k.reported = h.reported
  BY <1>2, SetChans
<1>5. /\ Tight(Now, None)'
      /\ Chans(Heap)' = Shown(k) /\ Outputs(Heap)' = Outputs(k)
      /\ Handles(Heap)' = Handles(k) /\ reported' = k.reported
  BY <1>2, <1>4, BecomesChans
<1>6. PICK c : c = End(h, p)
  OBVIOUS
<1>7. c \in Chans(Heap) /\ c.writer # None /\ c.content = "future"
  <2>1. c # NoChannel /\ c.writer = p /\ c.content = "future"
    BY <1>3, <1>4, <1>6 DEF Ends, NoChannel
  <2> QED BY <1>2, <1>3, <1>6, <2>1, Kinds DEF Shown
<1>8. Channels!Resolve(c, v)
  <2>1. Outputs(Heap)' = Outputs(Heap) /\ Handles(Heap)' = Handles(Heap) /\ ~reported'
    BY <1>1, <1>2, <1>4, <1>5
  <2>2. Chans(Heap)' = (Chans(Heap) \ {c}) \cup {Channels!Resolved(c, v)}
    BY <1>2, <1>4, <1>5, <1>6
  <2> QED BY <1>7, <2>1, <2>2 DEF Channels!Resolve, Channels!Quiet
<1>9. v \in Channels!Outcome
  BY DEF Channels!Outcome
<1> QED BY <1>5, <1>7, <1>8, <1>9 DEF Channels!Next

\* The heap after promise::promise(promise&&).
MovedTo(h, k, p, q, g) ==
    /\ k.promise = [h.promise EXCEPT ![q] = h.promise[p], ![p] = DeadPromise]
    /\ k.future = IF g = None THEN h.future ELSE [h.future EXCEPT ![g].promise = q]
    /\ k.task = h.task /\ k.queue = h.queue /\ k.reported = h.reported

\* The move constructor of a promise leaves the heap that MovedTo describes.
LEMMA MovedHeap ==
    ASSUME NEW h, h = Heap, Typed(h), NEW p \in Promise, NEW q \in Promise,
           NEW g, g = h.promise[p].future,
           NEW k, k = [move(h, p, q) EXCEPT !.promise[p] = DeadPromise]
    PROVE  MovedTo(h, k, p, q, g)
<1>1. PICK m : m = move(h, p, q)
  OBVIOUS
<1>2. m = [h EXCEPT !.promise[q] = h.promise[p], !.promise[p] = NullPromise,
                    !.future = IF g = None THEN @ ELSE [@ EXCEPT ![g].promise = q]]
  BY <1>1 DEF move
<1>3. h = [promise |-> promise, future |-> future, task |-> task,
           queue |-> _pending_tasks, reported |-> FALSE]
  BY DEF Heap
<1>4. /\ m.promise = [h.promise EXCEPT ![q] = h.promise[p], ![p] = NullPromise]
      /\ m.future = IF g = None THEN h.future ELSE [h.future EXCEPT ![g].promise = q]
      /\ m.task = h.task /\ m.queue = h.queue /\ m.reported = h.reported
  BY <1>2, <1>3
<1>5. /\ k.promise = [m.promise EXCEPT ![p] = DeadPromise]
      /\ k.future = m.future /\ k.task = m.task /\ k.queue = m.queue /\ k.reported = m.reported
  BY <1>1, <1>2, <1>3
<1>6. h.promise \in [Promise -> PromiseRecord]
  BY DEF Typed
<1>7. k.promise = [h.promise EXCEPT ![q] = h.promise[p], ![p] = DeadPromise]
  BY <1>4, <1>5, <1>6
<1> QED BY <1>4, <1>5, <1>7 DEF MovedTo

\* promise::promise(promise&&) gives a channel another writer.
LEMMA MovePromiseChans ==
    ASSUME IInv, IInv', Tight(Now, None), NEW p \in Promise, NEW q \in Promise, MovePromise(p, q)
    PROVE  Channels!Next /\ Tight(Now, None)'
<1>1. PICK h, k, g : h = Heap /\ k = [move(Heap, p, q) EXCEPT !.promise[p] = DeadPromise] /\ g = h.promise[p].future
  OBVIOUS
<1>2. /\ Linked(h, None, None) /\ Tight(h, None) /\ HeapBecomes(k) /\ Chans(Heap) = Shown(h)
      /\ h.promise[p].state # "dead" /\ h.promise[q].state = "dead"
      /\ h.reported = FALSE /\ \A t \in Task : h.task[t].pr # p
  BY <1>1, HeapLinks, HeapChans DEF MovePromise, Owned, Alive
<1>3. Typed(h) /\ None \notin Promise \cup Future \cup Task
  BY <1>2, AddressAssumption DEF Linked
<1>4. p # q /\ g \in Future \cup {None}
  BY <1>1, <1>2, <1>3 DEF Typed, PromiseRecord
<1>5. MovedTo(h, k, p, q, g)
  BY <1>1, <1>3, MovedHeap
<1>6. \A f \in Future : (h.future[f].promise = p <=> f = g) /\ h.future[f].promise # q
  BY <1>1, <1>2, <1>3, <1>4 DEF Linked, Paired
<1>7. \A f \in Future : /\ k.future[f].life = h.future[f].life
                        /\ k.future[f].local = h.future[f].local
                        /\ k.future[f].promise = IF h.future[f].promise = p THEN q ELSE h.future[f].promise
  <2>1. \A f \in Future : /\ k.future[f].life = h.future[f].life
                          /\ k.future[f].local = h.future[f].local
                          /\ k.future[f].promise = IF f = g THEN q ELSE h.future[f].promise
    BY <1>3, <1>4, <1>5 DEF Typed, FutureRecord, MovedTo
  <2> QED BY <1>6, <2>1
<1>8. /\ k.promise[q] = h.promise[p] /\ k.promise[p] = DeadPromise
      /\ \A r \in Promise \ {p, q} : k.promise[r] = h.promise[r]
      /\ k.task = h.task /\ k.queue = h.queue /\ k.reported = h.reported
  BY <1>3, <1>4, <1>5 DEF Typed, MovedTo
<1>9. Replaced(h, k, p, q)
  BY <1>6, <1>7, <1>8 DEF Replaced, DeadPromise, NullPromise
<1>10. \A t \in Task : h.task[t].pr # q
  BY <1>2, <1>3 DEF Linked, Captured
<1>11. End(h, q) = NoChannel
  BY <1>2, Kinds DEF PromiseEnd, Written
<1>12. PICK c : c = End(h, p)
  OBVIOUS
<1>13. /\ Tight(k, None)
       /\ c = NoChannel => Shown(k) = Shown(h) \ {NoChannel}
       /\ c # NoChannel => Shown(k) = (Shown(h) \ {c, NoChannel}) \cup {[c EXCEPT !.writer = q]}
       /\ Outputs(k) = Outputs(h) /\ Handles(k) = Handles(h)
  BY <1>2, <1>4, <1>9, <1>10, <1>11, <1>12, ReplacedChans
<1>14. /\ Tight(Now, None)'
       /\ Chans(Heap)' = Shown(k) /\ Outputs(Heap)' = Outputs(k)
       /\ Handles(Heap)' = Handles(k) /\ reported' = k.reported
  BY <1>2, <1>13, BecomesChans
<1>15. Channels!Quiet
  BY <1>1, <1>2, <1>8, <1>13, <1>14 DEF Channels!Quiet
<1>16. NoChannel \notin Shown(h)
  BY DEF Shown
<1>17. CASE c = NoChannel
  <2>1. Chans(Heap)' = Chans(Heap)
    BY <1>2, <1>13, <1>14, <1>16, <1>17
  <2>2. Channels!Idle
    BY <1>15, <2>1 DEF Channels!Idle
  <2> QED BY <1>14, <2>2 DEF Channels!Next
<1>18. CASE c # NoChannel
  <2>1. c \in Chans(Heap)
    BY <1>2, <1>12, <1>18, Kinds DEF Shown
  <2>2. c.writer = p
    BY <1>12, <1>18, Kinds DEF PromiseEnd, Ends
  <2>3. Chans(Heap)' = (Chans(Heap) \ {c}) \cup {[c EXCEPT !.writer = q]}
    BY <1>2, <1>13, <1>14, <1>16, <1>18
  <2>4. Channels!MoveWriter(c, q)
    BY <1>3, <1>15, <2>2, <2>3 DEF Channels!MoveWriter
  <2> QED BY <1>14, <2>1, <2>4 DEF Channels!Next
<1> QED BY <1>17, <1>18

\* A promise without a continuation takes no other with it.
LEMMA ChainAlone ==
    ASSUME NEW h, NEW p \in Promise, h.promise[p].task = None
    PROVE  Chain(h, p) = {p}
<1>1. Passes(h, {p})
  BY DEF Passes
<1>2. {p} \in SUBSET Promise /\ p \in {p}
  OBVIOUS
<1>3. \A q \in Chain(h, p) : q \in {p}
  BY <1>1, <1>2, Zenon DEF Chain
<1>4. p \in Chain(h, p)
  BY Zenon DEF Chain
<1> QED BY <1>3, <1>4

\* promise::~promise drops the writer of a channel, and of those that
\* nothing will write now.
LEMMA DestroyPromiseChans ==
    ASSUME IInv, IInv', Tight(Now, None), NEW p \in Promise, DestroyPromise(p)
    PROVE  Channels!Next /\ Tight(Now, None)'
<1>1. PICK h, k, G, D : /\ h = Heap /\ k = destroy(h, p) /\ G = Chain(h, p)
                        /\ D = {End(h, q) : q \in G} \ {NoChannel}
  OBVIOUS
<1> DEFINE L == Lost(h, G)
<1>2. /\ Linked(h, None, None) /\ Tight(h, None) /\ HeapBecomes(k) /\ Chans(Heap) = Shown(h)
      /\ h.reported = FALSE /\ \A t \in Task : h.task[t].pr # p
  BY <1>1, HeapLinks, HeapChans DEF DestroyPromise, Owned
<1>3. None \notin Promise \cup Future \cup Task
  BY AddressAssumption
<1>4. /\ Tight(k, None)
      /\ Shown(k) = (Shown(h) \ D) \cup {[d EXCEPT !.writer = None] : d \in {e \in D : e.reader \in Future}}
      /\ k.reported = (h.reported \/ (h.promise[p].future = None /\ Written(h, p) = "exception"))
      /\ Outputs(k) = [t \in Task |-> IF t \in L THEN None ELSE Outputs(h)[t]]
      /\ Handles(k) = Handles(h) \ L
      /\ L = {d.reader : d \in D} \cap Task
      /\ \A q \in G : End(h, q) = NoChannel \/ \E r : End(h, q) = Ends(q, r, Written(h, q))
      /\ \A q \in G : q # p => \E t \in L : h.task[t].pr = q
      /\ \A t \in L : \E d \in D : d.writer = h.task[t].pr
  <2>1. Destroyed(h, p, G, D, k)
    BY <1>1, <1>2 DEF Destroyed
  <2>2. Tight(k, None) /\ Dropped(h, p, G, D, k)
    BY <1>2, <2>1, DestroyChans
  <2> QED BY <2>2, Zenon DEF Dropped
<1> HIDE DEF L
<1>5. /\ Tight(Now, None)'
      /\ Chans(Heap)' = Shown(k) /\ Outputs(Heap)' = Outputs(k)
      /\ Handles(Heap)' = Handles(k) /\ reported' = k.reported
  BY <1>2, <1>4, BecomesChans
<1>6. p \in G /\ G \subseteq Promise
  BY <1>1, <1>2, ChainFacts
<1>7. PICK c : c = End(h, p)
  OBVIOUS
<1>8. CASE c = NoChannel
  <2>1. Written(h, p) = "invalid" /\ h.promise[p].task = None
    <3>1. c = Ends(p, Reader(h, p), Written(h, p)) \/ Written(h, p) = "invalid"
      BY <1>7, Kinds DEF PromiseEnd
    <3>2. Written(h, p) = "invalid"
      BY <1>3, <1>8, <3>1 DEF Ends, NoChannel
    <3> QED BY <1>2, <3>2, WrittenIs
  <2>2. G = {p}
    BY <1>1, <2>1, ChainAlone
  <2>3. D = {} /\ L = {}
    <3>1. D = {}
      BY <1>1, <1>7, <1>8, <2>2
    <3> QED BY <1>4, <3>1
  <2>4. Shown(k) = Shown(h) /\ Handles(k) = Handles(h) /\ ~reported'
    BY <1>2, <1>4, <1>5, <2>1, <2>3
  <2>5. Outputs(k) = Outputs(h)
    BY <1>4, <2>3 DEF Outputs
  <2>6. Channels!Idle
    BY <1>1, <1>2, <1>5, <2>4, <2>5 DEF Channels!Idle, Channels!Quiet
  <2> QED BY <1>5, <2>6 DEF Channels!Next
<1>9. CASE c # NoChannel
  <2>1. c = Ends(p, Reader(h, p), Written(h, p))
    BY <1>7, <1>9, Kinds DEF PromiseEnd
  <2>2. c \in D /\ c.writer = p
    <3>1. c.writer = p
      BY <2>1 DEF Ends
    <3>2. c \in D
      BY <1>1, <1>6, <1>7, <1>9, Zenon
    <3> QED BY <3>1, <3>2
  <2>3. \A d \in D : d \in Chans(Heap) /\ d.writer # None /\ d # NoChannel /\ d.writer \in G /\ d = End(h, d.writer)
    <3>1. SUFFICES ASSUME NEW d \in D
                   PROVE  d \in Chans(Heap) /\ d.writer # None /\ d # NoChannel /\ d.writer \in G
                          /\ d = End(h, d.writer)
      OBVIOUS
    <3>2. PICK q \in G : d = End(h, q) /\ d # NoChannel
      BY <1>1, Zenon
    <3>3. d.writer = q
      BY <1>4, <3>2 DEF Ends
    <3>4. q \in Addresses
      BY <1>6, Kinds
    <3>5. d \in Shown(h)
      BY <3>2, <3>4, Zenon DEF Shown
    <3> QED BY <1>2, <1>3, <1>6, <3>2, <3>3, <3>5
  <2>4. \A t \in L : t \in Task /\ Outputs(Heap)[t] = h.task[t].pr
    BY <1>1, <1>4 DEF Outputs
  <2>5. \A d \in D : d # c => \E t \in L : d.writer = Outputs(Heap)[t]
    BY <1>4, <1>7, <2>3, <2>4
  <2>6. \A t \in L : \E d \in D : d.writer = Outputs(Heap)[t]
    BY <1>4, <2>4
  <2>7. reported' = (c.reader = None /\ c.content = "exception")
    <3>1. c.reader = Reader(h, p) /\ c.content = Written(h, p)
      BY <2>1 DEF Ends
    <3>2. h.promise[p].task # None => Written(h, p) = "future"
      BY <1>2, WrittenIs
    <3> QED BY <1>2, <1>4, <1>5, <3>1, <3>2 DEF Reader
  <2>8. /\ Outputs(Heap)' = [t \in Task |-> IF t \in L THEN None ELSE Outputs(Heap)[t]]
        /\ Handles(Heap)' = Handles(Heap) \ L
        /\ Chans(Heap)' = (Chans(Heap) \ D) \cup {[d EXCEPT !.writer = None] : d \in {e \in D : e.reader \in Future}}
    BY <1>1, <1>2, <1>4, <1>5
  <2>9. D \in SUBSET {d \in Chans(Heap) : d.writer # None}
    BY <2>3
  <2>10. Channels!DropWriter(c)
    <3>1. c.writer # None
      BY <2>2, <2>3
    <3> QED BY <1>4, <2>2, <2>5, <2>6, <2>7, <2>8, <2>9, <3>1, ZenonT(60) DEF Channels!DropWriter
  <2>11. c \in Chans(Heap)
    BY <2>2, <2>3
  <2> QED BY <1>5, <2>10, <2>11 DEF Channels!Next
<1> QED BY <1>8, <1>9

\* future::~future drops the reader of a channel.
LEMMA DestroyFutureChans ==
    ASSUME IInv, IInv', Tight(Now, None), NEW f \in Future, DestroyFuture(f)
    PROVE  Channels!Next /\ Tight(Now, None)'
<1>1. PICK h, k, q, x, c : /\ h = Heap /\ k = destroyFuture(h, f) /\ q = h.future[f].promise
                           /\ x = Source(h, f) /\ c = End(h, x)
  OBVIOUS
<1>2. /\ Linked(h, None, None) /\ Tight(h, None) /\ HeapBecomes(k) /\ Chans(Heap) = Shown(h)
      /\ h.reported = FALSE
  BY <1>1, HeapLinks, HeapChans DEF DestroyFuture
<1>3. Typed(h) /\ None \notin Promise \cup Future \cup Task
  BY <1>2, AddressAssumption DEF Linked
<1>4. /\ k.promise = IF q = None THEN h.promise ELSE [h.promise EXCEPT ![q].future = None]
      /\ k.future = [h.future EXCEPT ![f] = DeadFuture]
      /\ k.task = h.task /\ k.queue = h.queue
      /\ k.reported = (state(h, f) = "exception")
  BY <1>1, <1>2, <1>3 DEF destroyFuture, Typed
<1>5. q \in Promise \cup {None}
  BY <1>1, <1>3 DEF Typed, FutureRecord
<1>6. \A p \in Promise : /\ k.promise[p].state = h.promise[p].state
                         /\ k.promise[p].task = h.promise[p].task
                         /\ k.promise[p].local = h.promise[p].local
                         /\ p # q => k.promise[p] = h.promise[p]
                         /\ p = q => k.promise[p].future = None
  BY <1>3, <1>4, <1>5 DEF Typed, PromiseRecord
<1>7. /\ k.future[f] = DeadFuture
      /\ \A g \in Future \ {f} : k.future[g] = h.future[g]
  BY <1>3, <1>4 DEF Typed
<1>8. \A p \in Promise : Written(k, p) = Written(h, p)
  BY <1>4, <1>6 DEF Written
<1>9. Tight(k, None)
  <2>1. \A t \in Task : h.task[t].pr \in Promise \cup {None}
    BY <1>3 DEF Typed, TaskRecord
  <2>2. TightTasks(k, None)
    BY <1>2, <1>4, <1>8, <2>1 DEF Tight, TightTasks
  <2>3. \A g \in Future : h.future[g].promise \in Promise \cup {None}
    BY <1>3 DEF Typed, FutureRecord
  <2>4. TightFutures(k)
    BY <1>2, <1>6, <1>7, <2>3 DEF Tight, TightFutures, DeadFuture
  <2> QED BY <2>2, <2>4 DEF Tight
<1>10. /\ Tight(Now, None)'
       /\ Chans(Heap)' = Shown(k) /\ Outputs(Heap)' = Outputs(k)
       /\ Handles(Heap)' = Handles(k) /\ reported' = k.reported
  BY <1>2, <1>9, BecomesChans
<1>11. /\ x \in Addresses
       /\ available(state(h, f)) \/ (state(h, f) = "future" /\ h.future[f].life = "live") =>
             c = Ends(q, f, state(h, f)) /\ c # NoChannel
       /\ ~available(state(h, f)) /\ ~(state(h, f) = "future" /\ h.future[f].life = "live") =>
             c = NoChannel
  BY <1>1, <1>2, SourceEnd DEF Tight
<1>12. FutureEnd(k, f) = NoChannel
  BY <1>7 DEF FutureEnd, StillHolds, DeadFuture, available
<1>13. \A g \in Future \ {f} : FutureEnd(k, g) = FutureEnd(h, g)
  BY <1>7 DEF FutureEnd, StillHolds
<1>14. Outputs(Heap)' = Outputs(Heap) /\ Handles(Heap)' = Handles(Heap)
  BY <1>1, <1>4, <1>10 DEF Outputs, Handles
<1>15. Shown(k) = (Shown(h) \ {c}) \cup ({End(k, x)} \ {NoChannel})
  <2>1. CASE q = None
    <3>1. \A p \in Promise : PromiseEnd(k, p) = PromiseEnd(h, p)
      BY <1>4, <2>1 DEF PromiseEnd, Written, Reader
    <3>2. \A t \in Task : TaskEnd(k, t) = TaskEnd(h, t)
      BY <1>4 DEF TaskEnd, InQueue
    <3>3. x = f
      BY <1>1, <2>1 DEF Source
    <3>4. OnlyOne(h, k, x)
      BY <1>13, <3>1, <3>2, <3>3, Kinds DEF Only, OnlyOne
    <3> QED BY <1>1, <1>11, <3>4, OneChange
  <2>2. CASE q # None
    <3>1. x = q /\ q \in Promise
      BY <1>1, <1>5, <2>2 DEF Source
    <3>2. FutureEnd(h, f) = NoChannel
      BY <1>1, <2>2 DEF FutureEnd
    <3>3. \A g \in Future : FutureEnd(k, g) = FutureEnd(h, g)
      BY <1>12, <1>13, <3>2
    <3>4. \A p \in Promise \ {q} : k.promise[p] = h.promise[p]
      BY <1>6
    <3>5. Shown(k) = (Shown(h) \ {End(h, q)}) \cup ({End(k, q)} \ {NoChannel})
      <4>1. q \in Promise /\ k.task = h.task /\ k.queue = h.queue
        BY <1>4, <3>1
      <4> QED BY <3>3, <3>4, <4>1, PromiseChange
    <3> QED BY <1>1, <3>1, <3>5
  <2> QED BY <2>1, <2>2
<1>16. /\ c = NoChannel => End(k, x) = NoChannel
       /\ c # NoChannel => End(k, x) = IF q = None THEN NoChannel ELSE [c EXCEPT !.reader = None]
  <2>1. CASE q = None
    <3>1. x = f
      BY <1>1, <2>1 DEF Source
    <3> QED BY <1>12, <2>1, <3>1, Kinds
  <2>2. CASE q # None
    <3>1. x = q /\ q \in Promise
      BY <1>1, <1>5, <2>2 DEF Source
    <3>2. h.promise[q].task = None
      BY <1>1, <1>2, <1>3, <2>2, <3>1 DEF Linked, Paired, Writes
    <3>3. Reader(k, q) = None
      BY <1>6, <3>1, <3>2 DEF Reader
    <3>4. End(k, q) = IF Written(h, q) = "invalid" THEN NoChannel ELSE Ends(q, None, Written(h, q))
      BY <1>8, <3>1, <3>3, Kinds DEF PromiseEnd
    <3>5. End(h, q) = IF Written(h, q) = "invalid" THEN NoChannel ELSE Ends(q, Reader(h, q), Written(h, q))
      BY <3>1, Kinds DEF PromiseEnd
    <3>6. \A r, v : [Ends(q, r, v) EXCEPT !.reader = None] = Ends(q, None, v) /\ Ends(q, r, v) # NoChannel
      BY <1>3, <3>1 DEF Ends, NoChannel
    <3> QED BY <1>1, <2>2, <3>1, <3>4, <3>5, <3>6
  <2> QED BY <2>1, <2>2
<1>17. NoChannel \notin Shown(h)
  BY DEF Shown
<1>18. CASE c = NoChannel
  <2>1. ~reported'
    BY <1>4, <1>10, <1>11, <1>18 DEF available
  <2>2. Chans(Heap)' = Chans(Heap)
    BY <1>2, <1>10, <1>15, <1>16, <1>17, <1>18
  <2>3. Channels!Idle
    BY <1>14, <2>1, <2>2 DEF Channels!Idle, Channels!Quiet
  <2> QED BY <1>10, <2>3 DEF Channels!Next
<1>19. CASE c # NoChannel
  <2>1. c.writer = q /\ c.reader = f /\ c.content = state(h, f)
    BY <1>11, <1>19 DEF Ends
  <2>2. c \in Chans(Heap)
    BY <1>1, <1>2, <1>11, <1>19 DEF Shown
  <2>3. [c EXCEPT !.reader = None] # NoChannel \/ q = None
    BY <1>11, <1>19 DEF Ends, NoChannel
  <2>4. Chans(Heap)' = (Chans(Heap) \ {c}) \cup (IF c.writer = None THEN {} ELSE {[c EXCEPT !.reader = None]})
    BY <1>2, <1>10, <1>15, <1>16, <1>19, <2>1, <2>3
  <2>5. Channels!DropReader(c)
    BY <1>4, <1>10, <1>14, <2>1, <2>4 DEF Channels!DropReader
  <2> QED BY <1>10, <2>2, <2>5 DEF Channels!Next
<1> QED BY <1>18, <1>19

\* The channel c of the future f, if it has one, becomes the channel e of g.
Reread(h, k, f, g, c, e) ==
    /\ Shown(k) = (Shown(h) \ {c}) \cup ({e} \ {NoChannel})
    /\ c = NoChannel => e = NoChannel
    /\ c # NoChannel => /\ c \in Shown(h) /\ c.reader = f
                        /\ e = [c EXCEPT !.reader = g] /\ e # NoChannel

\* future::future(future&&) gives a channel another reader.
LEMMA MoveFutureChans ==
    ASSUME IInv, IInv', Tight(Now, None), NEW f \in Future, NEW g \in Future, MoveFuture(f, g)
    PROVE  Channels!Next /\ Tight(Now, None)'
<1>1. PICK h, k, q, y : /\ h = Heap /\ q = future[f].promise /\ y = future[f]
                        /\ k = [Heap EXCEPT !.future[g] = future[f], !.future[f] = DeadFuture,
                                   !.promise = IF q = None THEN @ ELSE [@ EXCEPT ![q].future = g]]
  OBVIOUS
<1>2. /\ Linked(h, None, None) /\ Tight(h, None) /\ HeapBecomes(k) /\ Chans(Heap) = Shown(h)
      /\ h.reported = FALSE /\ h.future = future
      /\ h.future[f].life # "dead" /\ h.future[g].life = "dead" /\ f # g
  BY <1>1, HeapLinks, HeapChans DEF MoveFuture
<1>3. Typed(h) /\ None \notin Promise \cup Future \cup Task
  BY <1>2, AddressAssumption DEF Linked
<1>4. /\ k.future = [h.future EXCEPT ![g] = y, ![f] = DeadFuture]
      /\ k.promise = IF q = None THEN h.promise ELSE [h.promise EXCEPT ![q].future = g]
      /\ k.task = h.task /\ k.queue = h.queue /\ k.reported = FALSE
  BY <1>1 DEF Heap
<1>5. q \in Promise \cup {None} /\ q = h.future[f].promise /\ y = h.future[f] /\ y.promise = q
  BY <1>1, <1>2, <1>3 DEF Typed, FutureRecord
<1>6. /\ k.future[g] = y /\ k.future[f] = DeadFuture
      /\ \A x \in Future \ {f, g} : k.future[x] = h.future[x]
  BY <1>2, <1>3, <1>4 DEF Typed
<1>7. \A p \in Promise : /\ k.promise[p].state = h.promise[p].state
                         /\ k.promise[p].task = h.promise[p].task
                         /\ k.promise[p].local = h.promise[p].local
                         /\ p # q => k.promise[p] = h.promise[p]
                         /\ p = q => k.promise[p].future = g
  BY <1>3, <1>4, <1>5 DEF Typed, PromiseRecord
<1>8. \A p \in Promise : Written(k, p) = Written(h, p)
  BY <1>4, <1>7 DEF Written
<1>9. Tight(k, None)
  <2>1. \A t \in Task : h.task[t].pr \in Promise \cup {None}
    BY <1>3 DEF Typed, TaskRecord
  <2>2. TightTasks(k, None)
    BY <1>2, <1>4, <1>8, <2>1 DEF Tight, TightTasks
  <2>3. \A x \in Future : h.future[x].promise \in Promise \cup {None}
    BY <1>3 DEF Typed, FutureRecord
  <2>4. TightFutures(k)
    BY <1>2, <1>5, <1>6, <1>7, <2>3, SMTT(40) DEF Tight, TightFutures, DeadFuture
  <2> QED BY <2>2, <2>4 DEF Tight
<1>10. /\ Tight(Now, None)'
       /\ Chans(Heap)' = Shown(k) /\ Outputs(Heap)' = Outputs(k)
       /\ Handles(Heap)' = Handles(k) /\ reported' = k.reported
  BY <1>2, <1>9, BecomesChans
<1>11. Channels!Quiet
  BY <1>1, <1>4, <1>10 DEF Channels!Quiet, Outputs, Handles
<1>12. h.future[g].promise = None /\ h.future[g].local = "invalid"
  BY <1>2 DEF Linked, Paired, Tight, TightFutures
<1>13. /\ FutureEnd(h, g) = NoChannel /\ FutureEnd(k, f) = NoChannel
       /\ \A x \in Future \ {f, g} : FutureEnd(k, x) = FutureEnd(h, x)
  BY <1>6, <1>12 DEF FutureEnd, StillHolds, DeadFuture, available
<1>14. NoChannel \notin Shown(h)
  BY DEF Shown
\* The channel of f is c, and that of g becomes e.
<1>15. ASSUME NEW c, NEW e, Reread(h, k, f, g, c, e)
       PROVE  Channels!Next
  <2> USE <1>15 DEF Reread
  <2>1. CASE c = NoChannel
    <3>1. Chans(Heap)' = Chans(Heap)
      BY <1>2, <1>10, <1>14, <1>15, <2>1
    <3> QED BY <1>11, <3>1 DEF Channels!Idle, Channels!Next
  <2>2. CASE c # NoChannel
    <3>1. c \in Chans(Heap) /\ Chans(Heap)' = (Chans(Heap) \ {c}) \cup {[c EXCEPT !.reader = g]}
      BY <1>2, <1>10, <1>15, <2>2
    <3>2. Channels!MoveReader(c, g)
      BY <1>11, <1>15, <2>2, <3>1 DEF Channels!MoveReader
    <3> QED BY <3>1, <3>2 DEF Channels!Next
  <2> QED BY <2>1, <2>2
<1>16. CASE q = None
  <2>1. OnlyTwo(h, k, f, g)
    <3>1. \A p \in Promise : PromiseEnd(k, p) = PromiseEnd(h, p)
      BY <1>4, <1>16 DEF PromiseEnd, Written, Reader
    <3>2. \A t \in Task : TaskEnd(k, t) = TaskEnd(h, t)
      BY <1>4 DEF TaskEnd, InQueue
    <3> QED BY <1>13, <3>1, <3>2, Kinds DEF Only, OnlyTwo
  <2>2. PICK c, e : c = End(h, f) /\ e = End(k, g)
    OBVIOUS
  <2>3. f \in Addresses /\ g \in Addresses /\ End(h, g) = NoChannel /\ End(k, f) = NoChannel
    BY <1>13, Kinds
  <2>4. Shown(k) = (Shown(h) \ {End(h, f), End(h, g)}) \cup ({End(k, f), End(k, g)} \ {NoChannel})
    <3>1. f \in Addresses /\ g \in Addresses
      BY <2>3
    <3>2. PICK i, j, u, v : i = End(h, f) /\ j = End(h, g) /\ u = End(k, f) /\ v = End(k, g)
      OBVIOUS
    <3>3. Shown(k) = (Shown(h) \ {i, j}) \cup ({u, v} \ {NoChannel})
      BY <2>1, <3>1, <3>2, TwoChanges
    <3> QED BY <3>2, <3>3, Zenon
  <2>5. Shown(k) = (Shown(h) \ {c}) \cup ({e} \ {NoChannel})
    BY <1>14, <2>2, <2>3, <2>4
  <2>6. /\ c = FutureEnd(h, f) /\ e = FutureEnd(k, g)
    BY <2>2, Kinds
  <2>7. \A v : /\ [Ends(None, f, v) EXCEPT !.reader = g] = Ends(None, g, v)
               /\ Ends(None, f, v) # NoChannel /\ Ends(None, g, v) # NoChannel
               /\ Ends(None, f, v).reader = f
    BY <1>3 DEF Ends, NoChannel
  <2>8. /\ c = NoChannel => e = NoChannel
        /\ c # NoChannel => c.reader = f /\ e = [c EXCEPT !.reader = g] /\ e # NoChannel
    BY <1>5, <1>6, <2>6, <2>7 DEF FutureEnd, StillHolds
  <2>9. c # NoChannel => c \in Shown(h)
    BY <2>2, <2>3, Zenon DEF Shown
  <2>10. Reread(h, k, f, g, c, e)
    BY <2>5, <2>8, <2>9, Zenon DEF Reread
  <2> QED BY <1>10, <1>15, <2>10, Zenon
<1>17. CASE q # None
  <2>1. q \in Promise /\ k.task = h.task /\ k.queue = h.queue
    BY <1>4, <1>5, <1>17
  <2>2. \A p \in Promise \ {q} : k.promise[p] = h.promise[p]
    BY <1>7
  <2>3. \A x \in Future : FutureEnd(k, x) = FutureEnd(h, x)
    <3>1. FutureEnd(h, f) = NoChannel /\ FutureEnd(k, g) = NoChannel
      BY <1>5, <1>6, <1>17 DEF FutureEnd
    <3> QED BY <1>13, <3>1
  <2>4. Shown(k) = (Shown(h) \ {End(h, q)}) \cup ({End(k, q)} \ {NoChannel})
    BY <2>1, <2>2, <2>3, PromiseChange
  <2>5. PICK c, e : c = End(h, q) /\ e = End(k, q)
    OBVIOUS
  <2>6. Reader(h, q) = f /\ Reader(k, q) = g
    <3>1. h.promise[q].future = f
      BY <1>2, <1>5, <1>17 DEF Linked, Paired
    <3>2. h.promise[q].task = None
      BY <1>2, <1>3, <2>1, <3>1, WrittenIs
    <3> QED BY <1>7, <2>1, <3>1, <3>2 DEF Reader
  <2>7. \A v : /\ [Ends(q, f, v) EXCEPT !.reader = g] = Ends(q, g, v)
               /\ Ends(q, f, v) # NoChannel /\ Ends(q, g, v) # NoChannel
               /\ Ends(q, f, v).reader = f
    BY <1>3 DEF Ends, NoChannel
  <2>8. /\ c = PromiseEnd(h, q) /\ e = PromiseEnd(k, q)
    BY <2>1, <2>5, Kinds
  <2>9. /\ c = NoChannel => e = NoChannel
        /\ c # NoChannel => c.reader = f /\ e = [c EXCEPT !.reader = g] /\ e # NoChannel
    BY <1>8, <2>1, <2>6, <2>7, <2>8 DEF PromiseEnd
  <2>10. c # NoChannel => c \in Shown(h)
    BY <2>1, <2>5, Kinds, Zenon DEF Shown
  <2>11. Shown(k) = (Shown(h) \ {c}) \cup ({e} \ {NoChannel})
    BY <2>4, <2>5
  <2>12. Reread(h, k, f, g, c, e)
    BY <2>9, <2>10, <2>11, Zenon DEF Reread
  <2> QED BY <1>10, <1>15, <2>12, Zenon
<1> QED BY <1>10, <1>16, <1>17, Zenon

\* future::forward_to joins two channels.
LEMMA ForwardToChans ==
    ASSUME IInv, IInv', Tight(Now, None), NEW f \in Future, NEW p \in Promise, ForwardTo(f, p)
    PROVE  Channels!Next /\ Tight(Now, None)'
<1>1. PICK h, m, k : /\ h = Heap /\ m = forward_to(h, f, p)
                     /\ k = [m EXCEPT !.future[f].life = "spent"]
  OBVIOUS
<1>2. /\ Linked(h, None, None) /\ Tight(h, None) /\ Chans(Heap) = Shown(h)
      /\ h.reported = FALSE /\ h.future = future
  BY <1>1, HeapLinks, HeapChans
<1>3. HeapBecomes(k)
  BY <1>1 DEF ForwardTo
<1>4. /\ h.future[f].life = "live" /\ Written(h, p) = "future"
      /\ \A t \in Task : h.task[t].pr # p
      /\ available(state(h, f)) \/ (h.future[f].promise # None /\ h.future[f].promise # p)
  <2>1. p \in Chain(h, p)
    BY <1>2, ChainFacts
  <2>2. h.task = task
    BY <1>1 DEF Heap
  <2> QED BY <1>1, <1>2, <2>1, <2>2 DEF ForwardTo, Usable, Owned, Unset, Apart
<1>5. Forwards(h, None, f, p, k)
  <2>1. UsedUp(forward_to(h, f, p), k, f)
    BY <1>1 DEF UsedUp
  <2>2. \A t \in Task : h.task[t].pr = p => t = None
    BY <1>4
  <2> QED BY <1>4, <2>1, <2>2, Zenon DEF Forwards
<1>6. Tight(k, None) /\ \E a, b : Forwarded(h, f, p, k, a, b)
  BY <1>2, <1>5, ForwardedChans, Zenon
<1>7. PICK a, b : Forwarded(h, f, p, k, a, b)
  BY <1>6, Zenon
<1>8. /\ Tight(Now, None)'
      /\ Chans(Heap)' = Shown(k) /\ Outputs(Heap)' = Outputs(k)
      /\ Handles(Heap)' = Handles(k) /\ reported' = k.reported
  BY <1>3, <1>6, BecomesChans
<1>9. /\ a \in Chans(Heap) /\ b \in Chans(Heap) /\ a # b /\ a.reader \in Future
      /\ b.writer # None /\ b.content = "future"
  <2>1. a.reader = f /\ b.writer = p /\ b.content = "future"
    BY <1>7 DEF Ends, Forwarded
  <2>2. p # None
    BY AddressAssumption
  <2>3. a \in Shown(h) /\ b \in Shown(h) /\ a # b
    BY <1>7 DEF Forwarded
  <2> QED BY <1>2, <2>1, <2>2, <2>3
<1>10. Channels!Forward(a, b)
  <2>1. Outputs(Heap)' = Outputs(Heap) /\ Handles(Heap)' = Handles(Heap) /\ ~reported'
    BY <1>1, <1>2, <1>7, <1>8 DEF Forwarded
  <2>2. Chans(Heap)' = Channels!Joined(Chans(Heap), a, b)
    BY <1>2, <1>7, <1>8 DEF Forwarded
  <2> QED BY <1>9, <2>1, <2>2 DEF Channels!Forward, Channels!Quiet
<1> QED BY <1>8, <1>9, <1>10 DEF Channels!Next

\* A step that changes the channels of three objects.
OnlyThree(h, k, p, q, r) == Only(h, k, {p, q, r})

\* The channels after a step that changes the ends of three objects.
LEMMA ThreeChanges ==
    ASSUME NEW h, NEW k, NEW p \in Addresses, NEW q \in Addresses, NEW r \in Addresses,
           OnlyThree(h, k, p, q, r)
    PROVE  Shown(k) = (Shown(h) \ {End(h, p), End(h, q), End(h, r)})
                         \cup ({End(k, p), End(k, q), End(k, r)} \ {NoChannel})
<1>1. PICK S : S = {p, q, r}
  OBVIOUS
<1>2. Shown(k) = (Shown(h) \ {End(h, i) : i \in S}) \cup ({End(k, i) : i \in S} \ {NoChannel})
  BY <1>1, Changes DEF OnlyThree
<1>3. /\ {End(h, i) : i \in S} = {End(h, p), End(h, q), End(h, r)}
      /\ {End(k, i) : i \in S} = {End(k, p), End(k, q), End(k, r)}
  BY <1>1, Zenon
<1> QED BY <1>2, <1>3, Zenon

\* The heap after then(): the outcome is moved into the continuation, which is
\* scheduled, or the continuation takes the place of the future.
Continued(a, k, f, g, t, p, q, s, w) ==
    /\ /\ k.promise[p].future = g /\ k.promise[p].state = "local"
       /\ k.promise[p].local = "future" /\ k.promise[p].task = None
    /\ k.future[g].promise = p /\ k.future[g].local = "future" /\ k.future[g].life = "live"
    /\ k.future[f].life = "spent"
    /\ k.task[t].state = s /\ k.task[t].pr = p /\ k.task[t].wrapped = w
    /\ \A u \in Task \ {t} : k.task[u] = a.task[u]
    /\ \A y \in Future \ {f, g} : k.future[y] = a.future[y]
    /\ \A r \in Promise \ {p, q} : k.promise[r] = a.promise[r]
    /\ k.reported = FALSE

\* The outcome was there: the task is scheduled.
ContinuedReady(a, k, f, t, q) ==
    /\ k.queue = Append(a.queue, t) /\ k.future[f].promise = q
    /\ q = None => k.future[f].local = "invalid"
    /\ q # None => /\ k.future[f].local = a.future[f].local
                   /\ k.promise[q].state = a.promise[q].state /\ k.promise[q].local = "invalid"
                   /\ k.promise[q].task = a.promise[q].task
                   /\ k.promise[q].future = a.promise[q].future

\* It was not: the task waits at the promise.
ContinuedLater(a, k, f, t, q) ==
    /\ k.queue = a.queue /\ k.future[f].promise = None /\ k.future[f].local = a.future[f].local
    /\ k.promise[q].state = "task" /\ k.promise[q].task = t /\ k.promise[q].future = None

\* The assignments of then(), in two steps.
Continues(a, h, k, f, g, t, p, q, s, w) ==
    /\ h = [a EXCEPT !.promise[p] = [NewPromise EXCEPT !.future = g],
                     !.future[g] = [promise |-> p, local |-> "future", life |-> "live"],
                     !.future[f].life = "spent",
                     !.task[t] = [state |-> s, pr |-> p, wrapped |-> w]]
    /\ k = IF available(s) THEN [Moved(h, f) EXCEPT !.queue = Append(@, t)]
           ELSE [h EXCEPT !.promise[q] = [@ EXCEPT !.state = "task", !.task = t, !.future = None],
                          !.future[f].promise = None]
\* What then() needs, and what it leaves.
Continuing(a, f, g, p, q, s) ==
    /\ a = Heap /\ Linked(a, None, None)
    /\ a.promise[p].state = "dead" /\ a.future[g].life = "dead" /\ g # f
    /\ q = a.future[f].promise /\ q \in Promise \cup {None}
    /\ available(s) \/ q # None
ContinuedHeap(a, k, f, g, t, p, q, s, w) ==
    /\ Continued(a, k, f, g, t, p, q, s, w) /\ p # q
    /\ available(s) => ContinuedReady(a, k, f, t, q)
    /\ ~available(s) => ContinuedLater(a, k, f, t, q)

\* then() leaves the heap that ContinuedHeap describes.
LEMMA ThenHeap ==
    ASSUME NEW a, NEW f \in Future, NEW g \in Future, NEW t \in Task, NEW p \in Promise,
           NEW w \in BOOLEAN, NEW q, NEW s, Continuing(a, f, g, p, q, s),
           NEW h, NEW k, Continues(a, h, k, f, g, t, p, q, s, w)
    PROVE  ContinuedHeap(a, k, f, g, t, p, q, s, w)
<1> USE DEF Continuing, ContinuedHeap
<1>1. /\ h = [a EXCEPT !.promise[p] = [NewPromise EXCEPT !.future = g],
                       !.future[g] = [promise |-> p, local |-> "future", life |-> "live"],
                       !.future[f].life = "spent",
                       !.task[t] = [state |-> s, pr |-> p, wrapped |-> w]]
      /\ k = IF available(s) THEN [Moved(h, f) EXCEPT !.queue = Append(@, t)]
             ELSE [h EXCEPT !.promise[q] = [@ EXCEPT !.state = "task", !.task = t, !.future = None],
                            !.future[f].promise = None]
  BY Zenon DEF Continues
<1>2. Typed(a) /\ None \notin Promise \cup Future \cup Task
  BY AddressAssumption DEF Linked
<1>3. p # q
  <2>1. q # None => a.promise[q].state = "local"
    BY DEF Linked, Paired
  <2> QED BY <1>2, <2>1
<1>4. /\ h.promise = [a.promise EXCEPT ![p] = [NewPromise EXCEPT !.future = g]]
      /\ h.future = [a.future EXCEPT ![g] = [promise |-> p, local |-> "future", life |-> "live"],
                                     ![f].life = "spent"]
      /\ h.task = [a.task EXCEPT ![t] = [state |-> s, pr |-> p, wrapped |-> w]]
      /\ h.queue = a.queue /\ h.reported = FALSE
  BY <1>1 DEF Heap
<1>5. h = [promise |-> h.promise, future |-> h.future, task |-> h.task,
           queue |-> h.queue, reported |-> h.reported]
  BY <1>1 DEF Heap
<1>6. /\ h.promise[p] = [NewPromise EXCEPT !.future = g]
      /\ \A r \in Promise \ {p} : h.promise[r] = a.promise[r]
      /\ h.promise \in [Promise -> PromiseRecord]
  <2>1. [NewPromise EXCEPT !.future = g] \in PromiseRecord
    BY DEF NewPromise, PromiseRecord, States
  <2> QED BY <1>2, <1>4, <2>1 DEF Typed
<1>7. /\ h.task[t] = [state |-> s, pr |-> p, wrapped |-> w]
      /\ \A u \in Task \ {t} : h.task[u] = a.task[u]
  BY <1>2, <1>4 DEF Typed
<1>8. /\ h.future[g] = [promise |-> p, local |-> "future", life |-> "live"]
      /\ \A y \in Future \ {f, g} : h.future[y] = a.future[y]
      /\ h.future[f].promise = q /\ h.future[f].local = a.future[f].local /\ h.future[f].life = "spent"
      /\ h.future \in [Future -> FutureRecord]
  <2>1. PICK y : y = a.future[f]
    OBVIOUS
  <2>2. y \in FutureRecord
    BY <1>2, <2>1 DEF Typed
  <2>3. [y EXCEPT !.life = "spent"] \in FutureRecord
    BY <2>2 DEF FutureRecord
  <2>4. [promise |-> p, local |-> "future", life |-> "live"] \in FutureRecord
    BY DEF FutureRecord, States
  <2>5. h.future = [a.future EXCEPT ![g] = [promise |-> p, local |-> "future", life |-> "live"],
                                    ![f] = [y EXCEPT !.life = "spent"]]
    BY <1>2, <1>4, <2>1 DEF Typed
  <2>6. /\ h.future[g] = [promise |-> p, local |-> "future", life |-> "live"]
        /\ \A x \in Future \ {f, g} : h.future[x] = a.future[x]
        /\ h.future[f] = [y EXCEPT !.life = "spent"]
    BY <1>2, <2>5 DEF Typed
  <2>7. h.future \in [Future -> FutureRecord]
    BY <1>2, <2>3, <2>4, <2>5 DEF Typed
  <2> QED BY <2>1, <2>2, <2>6, <2>7 DEF FutureRecord
<1>9. CASE available(s)
  <2>1. PICK m : m = Moved(h, f)
    OBVIOUS
  <2>2. k = [m EXCEPT !.queue = Append(@, t)]
    BY <1>1, <1>9, <2>1, Zenon
  <2>3. m = [promise |-> m.promise, future |-> m.future, task |-> m.task,
             queue |-> m.queue, reported |-> m.reported]
    BY <1>5, <2>1 DEF Moved
  <2>4. /\ k.promise = m.promise /\ k.future = m.future /\ k.task = h.task
        /\ k.queue = Append(a.queue, t) /\ k.reported = FALSE
    <3>1. m.task = h.task /\ m.queue = h.queue /\ m.reported = h.reported
      BY <1>5, <2>1 DEF Moved
    <3>2. /\ k.promise = m.promise /\ k.future = m.future /\ k.task = m.task
          /\ k.queue = Append(m.queue, t) /\ k.reported = m.reported
      BY <2>2, <2>3
    <3> QED BY <1>4, <3>1, <3>2
  <2>5. CASE q = None
    <3>1. m.promise = h.promise /\ m.future = [h.future EXCEPT ![f].local = "invalid"]
      BY <1>5, <1>8, <2>1, <2>5 DEF Moved
    <3>2. /\ m.future[f].local = "invalid" /\ m.future[f].promise = q /\ m.future[f].life = "spent"
          /\ \A y \in Future \ {f} : m.future[y] = h.future[y]
      BY <1>8, <3>1 DEF FutureRecord
    <3>3. ContinuedReady(a, k, f, t, q)
      BY <2>4, <2>5, <3>2 DEF ContinuedReady
    <3>4. Continued(a, k, f, g, t, p, q, s, w)
      <4>1. /\ k.promise[p] = [NewPromise EXCEPT !.future = g]
            /\ \A r \in Promise \ {p, q} : k.promise[r] = a.promise[r]
        BY <1>6, <2>4, <3>1
      <4>2. /\ k.future[g] = [promise |-> p, local |-> "future", life |-> "live"]
            /\ \A y \in Future \ {f, g} : k.future[y] = a.future[y]
            /\ k.future[f].life = "spent"
        BY <1>8, <2>4, <3>2
      <4> QED BY <1>7, <2>4, <4>1, <4>2 DEF Continued, NewPromise
    <3> QED BY <1>3, <1>9, <3>3, <3>4
  <2>6. CASE q # None
    <3>1. m.promise = [h.promise EXCEPT ![q].local = "invalid"] /\ m.future = h.future
      BY <1>5, <1>8, <2>1, <2>6 DEF Moved
    <3>2. q \in Promise /\ a.promise[q] \in PromiseRecord
      BY <1>2, <2>6 DEF Typed
    <3>3. /\ m.promise[q].local = "invalid" /\ m.promise[q].state = a.promise[q].state
          /\ m.promise[q].task = a.promise[q].task /\ m.promise[q].future = a.promise[q].future
          /\ \A r \in Promise \ {q} : m.promise[r] = h.promise[r]
      <4>1. PICK x : x = a.promise[q]
        BY SMTT(40)
      <4>2. m.promise[q] = [x EXCEPT !.local = "invalid"] /\ x \in PromiseRecord
        BY <1>3, <1>6, <3>1, <3>2, <4>1
      <4>3. \A r \in Promise \ {q} : m.promise[r] = h.promise[r]
        BY <1>6, <3>1
      <4> QED BY <4>1, <4>2, <4>3 DEF PromiseRecord
    <3>4. ContinuedReady(a, k, f, t, q)
      <4>1. k.queue = Append(a.queue, t) /\ k.future[f].promise = q /\ k.future[f].local = a.future[f].local
        BY <1>8, <2>4, <3>1
      <4>2. k.promise[q] = m.promise[q]
        BY <2>4
      <4> QED BY <2>6, <3>3, <4>1, <4>2 DEF ContinuedReady
    <3>5. Continued(a, k, f, g, t, p, q, s, w)
      <4>1. /\ k.promise[p] = [NewPromise EXCEPT !.future = g]
            /\ \A r \in Promise \ {p, q} : k.promise[r] = a.promise[r]
        BY <1>3, <1>6, <2>4, <3>3
      <4>2. /\ k.future[g] = [promise |-> p, local |-> "future", life |-> "live"]
            /\ \A y \in Future \ {f, g} : k.future[y] = a.future[y]
            /\ k.future[f].life = "spent"
        BY <1>8, <2>4, <3>1
      <4> QED BY <1>7, <2>4, <4>1, <4>2 DEF Continued, NewPromise
    <3> QED BY <1>3, <1>9, <3>4, <3>5
  <2> QED BY <2>5, <2>6
<1>10. CASE ~available(s)
  <2>1. k = [h EXCEPT !.promise[q] = [@ EXCEPT !.state = "task", !.task = t, !.future = None],
                      !.future[f].promise = None]
    BY <1>1, <1>10, Zenon
  <2>2. PICK u, v : u = h.promise[q] /\ v = h.future[f]
    OBVIOUS
  <2>3. /\ k.promise = [h.promise EXCEPT ![q] = [u EXCEPT !.state = "task", !.task = t, !.future = None]]
        /\ k.future = [h.future EXCEPT ![f] = [v EXCEPT !.promise = None]]
        /\ k.task = h.task /\ k.queue = h.queue /\ k.reported = h.reported
    BY <1>5, <1>6, <1>8, <2>2, <2>1
  <2>4. q \in Promise /\ a.promise[q] \in PromiseRecord
    BY <1>2, <1>10 DEF Typed
  <2>5. /\ k.promise[q].state = "task" /\ k.promise[q].task = t /\ k.promise[q].future = None
        /\ \A r \in Promise \ {q} : k.promise[r] = h.promise[r]
    <3>1. k.promise[q] = [u EXCEPT !.state = "task", !.task = t, !.future = None]
      BY <1>6, <2>3, <2>4
    <3>2. u \in PromiseRecord
      BY <1>6, <2>2, <2>4
    <3>3. \A r \in Promise \ {q} : k.promise[r] = h.promise[r]
      BY <1>6, <2>3
    <3>4. k.promise[q].state = "task" /\ k.promise[q].task = t /\ k.promise[q].future = None
      BY <3>1, <3>2 DEF PromiseRecord
    <3> QED BY <3>3, <3>4
  <2>6. /\ k.future[f].promise = None /\ k.future[f].local = a.future[f].local /\ k.future[f].life = "spent"
        /\ \A y \in Future \ {f} : k.future[y] = h.future[y]
    <3>1. h.future \in [Future -> FutureRecord] /\ v \in FutureRecord
      BY <1>8, <2>2
    <3>2. k.future[f] = [v EXCEPT !.promise = None]
      BY <2>3, <3>1
    <3>3. \A y \in Future \ {f} : k.future[y] = h.future[y]
      BY <2>3, <3>1
    <3>4. v.local = a.future[f].local /\ v.life = "spent"
      BY <1>8, <2>2
    <3> QED BY <3>1, <3>2, <3>3, <3>4 DEF FutureRecord
  <2>7. ContinuedLater(a, k, f, t, q)
    BY <1>4, <2>3, <2>5, <2>6 DEF ContinuedLater
  <2>8. Continued(a, k, f, g, t, p, q, s, w)
    <3>1. /\ k.promise[p] = [NewPromise EXCEPT !.future = g]
          /\ \A r \in Promise \ {p, q} : k.promise[r] = a.promise[r]
      BY <1>3, <1>6, <2>5
    <3>2. /\ k.future[g] = [promise |-> p, local |-> "future", life |-> "live"]
          /\ \A y \in Future \ {f, g} : k.future[y] = a.future[y]
          /\ k.future[f].life = "spent"
      BY <1>8, <2>6
    <3>3. k.reported = FALSE /\ k.task = h.task
      BY <1>4, <2>3
    <3> QED BY <1>7, <3>1, <3>2, <3>3 DEF Continued, NewPromise
  <2> QED BY <1>3, <1>10, <2>7, <2>8
<1> QED BY <1>9, <1>10

\* What then() finds, and what it makes of the channels.
Continuable(a, k, f, g, t, p, q, s, w) ==
    /\ a.future[f].life = "live" /\ a.future[g].life = "dead" /\ g # f
    /\ a.task[t].pr = None /\ a.promise[p].state = "dead" /\ p # q
    /\ q = a.future[f].promise /\ s = state(a, f)
    /\ available(s) \/ q # None
    /\ Continued(a, k, f, g, t, p, q, s, w)
    /\ available(s) => ContinuedReady(a, k, f, t, q)
    /\ ~available(s) => ContinuedLater(a, k, f, t, q)
\* The channel of a future that then() has given to the task.
Waits(q, t, s) == IF s = "future" THEN Ends(q, t, s) ELSE Ends(None, t, s)

\* then() replaces the future by the continuation at the end of its channel,
\* and opens a channel for the result.
LEMMA ContinuedChans ==
    ASSUME NEW a, NEW k, Linked(a, None, None), NEW f \in Future, NEW g \in Future, NEW t \in Task,
           NEW p \in Promise, NEW w, NEW q, NEW s, Tight(a, None),
           Continuable(a, k, f, g, t, p, q, s, w)
    PROVE  /\ Ends(q, f, s) \in Shown(a)
           /\ Shown(k) = (Shown(a) \ {Ends(q, f, s)}) \cup {Waits(q, t, s), Ends(p, g, "future")}
           /\ available(s) \/ (s = "future" /\ q \in Promise)
<1>1. Typed(a) /\ None \notin Promise \cup Future \cup Task
  BY AddressAssumption DEF Linked
<1>2. q \in Promise \cup {None}
  BY <1>1 DEF Continuable, Typed, FutureRecord
<1>3. PICK x : x = Source(a, f)
  OBVIOUS
<1>4. /\ a.future[f].life = "live" /\ a.future[g].life = "dead" /\ g # f
      /\ a.task[t].pr = None /\ a.promise[p].state = "dead" /\ p # q
      /\ q = a.future[f].promise /\ s = state(a, f)
  BY Zenon DEF Continuable
<1>5. available(s) \/ (s = "future" /\ q \in Promise)
  <2>1. s \in States
    BY <1>3, <1>4, SourceEnd DEF Tight
  <2>2. CASE q # None
    <3>1. a.promise[q].state = "local" /\ a.promise[q].local # "invalid"
      BY <1>1, <1>4, <2>2 DEF Linked, Paired, Readable
    <3>2. s = a.promise[q].local
      BY <1>4, <2>2, <3>1 DEF state, Written
    <3> QED BY <1>2, <2>1, <2>2, <3>1, <3>2 DEF States, available
  <2>3. CASE q = None
    BY <2>3, Zenon DEF Continuable
  <2> QED BY <2>2, <2>3
<1>6. x \in Addresses /\ End(a, x) = Ends(q, f, s) /\ End(a, x) # NoChannel
  BY <1>3, <1>4, <1>5, SourceEnd DEF Tight
<1>7. /\ k.promise[p].future = g /\ k.promise[p].state = "local"
      /\ k.promise[p].local = "future" /\ k.promise[p].task = None
      /\ k.future[g].promise = p /\ k.future[f].life = "spent"
      /\ k.task[t].state = s
      /\ \A u \in Task \ {t} : k.task[u] = a.task[u]
      /\ \A y \in Future \ {f, g} : k.future[y] = a.future[y]
      /\ \A r \in Promise \ {p, q} : k.promise[r] = a.promise[r]
  BY Zenon DEF Continuable, Continued
<1>8. x = IF q = None THEN f ELSE q
  BY <1>3, <1>4 DEF Source
\* No other promise, future or continuation changes.
<1>9. \A r \in Promise \ {p, q} : PromiseEnd(k, r) = PromiseEnd(a, r)
  <2>1. SUFFICES ASSUME NEW r \in Promise \ {p, q}
                 PROVE  PromiseEnd(k, r) = PromiseEnd(a, r)
    OBVIOUS
  <2>2. a.promise[r].task # None => a.promise[r].task \in Task \ {t}
    BY <1>1, <1>4 DEF Linked, Attached, Typed, PromiseRecord
  <2>3. a.promise[r].state = "task" => a.promise[r].task # None
    BY DEF Linked, Writes
  <2>4. k.promise[r] = a.promise[r]
    BY <1>7
  <2> QED BY <1>7, <2>2, <2>3, <2>4 DEF PromiseEnd, Written, Reader
<1>10. \A y \in Future \ {x} : FutureEnd(k, y) = FutureEnd(a, y)
  <2>1. FutureEnd(a, g) = NoChannel /\ FutureEnd(k, g) = NoChannel
    <3>1. a.future[g].local = "invalid"
      BY <1>4 DEF Tight, TightFutures
    <3> QED BY <1>1, <1>4, <1>7, <3>1 DEF FutureEnd, StillHolds, available
  <2>2. q # None => FutureEnd(a, f) = NoChannel
    BY <1>4 DEF FutureEnd
  <2>3. q # None => FutureEnd(k, f) = NoChannel
    <3>1. SUFFICES ASSUME q # None PROVE FutureEnd(k, f) = NoChannel
      OBVIOUS
    <3>2. CASE available(s)
      <4>1. k.future[f].promise = q
        BY <3>2, Zenon DEF Continuable, ContinuedReady
      <4> QED BY <3>1, <4>1 DEF FutureEnd
    <3>3. CASE ~available(s)
      <4>1. k.future[f].local = a.future[f].local
        BY <3>3, Zenon DEF Continuable, ContinuedLater
      <4>2. a.future[f].local = "future"
        BY <1>4, <3>1 DEF Tight, TightFutures
      <4> QED BY <1>7, <4>1, <4>2 DEF FutureEnd, StillHolds, available
    <3> QED BY <3>2, <3>3
  <2>4. \A y \in Future \ {f, g} : FutureEnd(k, y) = FutureEnd(a, y)
    BY <1>7 DEF FutureEnd, StillHolds
  <2> QED BY <1>8, <2>1, <2>2, <2>3, <2>4
<1>11. \A u \in Task \ {t} : TaskEnd(k, u) = TaskEnd(a, u)
  <2>1. SUFFICES ASSUME NEW u \in Task \ {t} PROVE TaskEnd(k, u) = TaskEnd(a, u)
    OBVIOUS
  <2>2. InQueue(k, u) <=> InQueue(a, u)
    <3>1. CASE available(s)
      <4>1. k.queue = Append(a.queue, t)
        BY <3>1, Zenon DEF Continuable, ContinuedReady
      <4>2. /\ DOMAIN k.queue = 1 .. Len(a.queue) + 1
            /\ DOMAIN a.queue = 1 .. Len(a.queue) /\ Len(a.queue) \in Nat
            /\ \A i \in DOMAIN a.queue : k.queue[i] = a.queue[i]
            /\ k.queue[Len(a.queue) + 1] = t
        BY <1>1, <4>1 DEF Typed
      <4>3. \A i \in DOMAIN k.queue : i \in DOMAIN a.queue \/ i = Len(a.queue) + 1
        BY <4>2
      <4>4. \A i \in DOMAIN a.queue : i \in DOMAIN k.queue
        BY <4>2
      <4> QED BY <4>2, <4>3, <4>4 DEF InQueue
    <3>2. CASE ~available(s)
      <4>1. k.queue = a.queue
        BY <3>2, Zenon DEF Continuable, ContinuedLater
      <4> QED BY <4>1 DEF InQueue
    <3> QED BY <3>1, <3>2
  <2> QED BY <1>7, <2>2 DEF TaskEnd
\* The three ends that change.
<1>12. p \in Addresses /\ t \in Addresses /\ x \in Addresses
  BY <1>6, Kinds
<1>13. OnlyThree(a, k, x, p, t)
  <2>1. \A r \in Promise \ {x, p} : PromiseEnd(k, r) = PromiseEnd(a, r)
    BY <1>1, <1>2, <1>8, <1>9
  <2> QED BY <1>10, <1>11, <2>1, Kinds DEF Only, OnlyThree
<1>14. ~InQueue(a, t)
  BY <1>4 DEF InQueue, Linked, Queued
<1>15. End(a, p) = NoChannel /\ End(a, t) = NoChannel
  <2>1. Written(a, p) = "invalid"
    BY <1>4 DEF Written
  <2> QED BY <1>14, <2>1, Kinds DEF PromiseEnd, TaskEnd
<1>16. End(k, p) = Ends(p, g, "future") /\ End(k, p) # NoChannel
  <2>1. Written(k, p) = "future" /\ Reader(k, p) = g
    BY <1>7 DEF Written, Reader
  <2>2. Ends(p, g, "future") # NoChannel
    BY <1>1 DEF Ends, NoChannel
  <2> QED BY <2>1, <2>2, Kinds DEF PromiseEnd
<1>17. PICK e : e = Waits(q, t, s) /\ e # NoChannel
  <2>1. \A i : Ends(i, t, s) # NoChannel
    BY <1>1 DEF Ends, NoChannel
  <2>2. Waits(q, t, s) # NoChannel
    BY <2>1 DEF Waits
  <2> QED BY <2>2
<1>18. {End(k, x), End(k, t)} \ {NoChannel} = {e}
  <2>1. CASE available(s)
    <3>1. k.queue = Append(a.queue, t) /\ k.future[f].promise = q
          /\ (q = None => k.future[f].local = "invalid")
          /\ (q # None => k.promise[q].local = "invalid" /\ k.promise[q].state = a.promise[q].state)
      BY <2>1, Zenon DEF Continuable, ContinuedReady
    <3>2. InQueue(k, t)
      <4>1. Len(a.queue) + 1 \in DOMAIN k.queue /\ k.queue[Len(a.queue) + 1] = t
        BY <1>1, <3>1 DEF Typed
      <4> QED BY <4>1 DEF InQueue
    <3>3. End(k, t) = Ends(None, t, s)
      BY <1>7, <3>2, Kinds DEF TaskEnd
    <3>4. End(k, x) = NoChannel
      <4>1. CASE q = None
        BY <1>8, <3>1, <4>1, Kinds DEF FutureEnd, StillHolds, available
      <4>2. CASE q # None
        <5>1. a.promise[q].state = "local"
          BY <1>4, <4>2 DEF Linked, Paired
        <5>2. Written(k, q) = "invalid"
          BY <3>1, <4>2, <5>1 DEF Written
        <5> QED BY <1>2, <1>8, <4>2, <5>2, Kinds DEF PromiseEnd
      <4> QED BY <4>1, <4>2
    <3>5. e = Ends(None, t, s)
      BY <1>17, <2>1 DEF Waits, available
    <3> QED BY <1>17, <3>3, <3>4, <3>5
  <2>2. CASE ~available(s)
    <3>1. k.queue = a.queue /\ k.promise[q].state = "task" /\ k.promise[q].task = t
      BY <2>2, Zenon DEF Continuable, ContinuedLater
    <3>2. s = "future" /\ q \in Promise /\ x = q
      BY <1>1, <1>5, <1>8, <2>2
    <3>3. Written(k, q) = s /\ Reader(k, q) = t
      BY <1>1, <1>7, <3>1 DEF Written, Reader
    <3>4. End(k, x) = Ends(q, t, s)
      BY <3>2, <3>3, Kinds DEF PromiseEnd
    <3>5. End(k, t) = NoChannel
      BY <1>14, <3>1, Kinds DEF TaskEnd, InQueue
    <3>6. e = Ends(q, t, s)
      BY <1>17, <3>2 DEF Waits
    <3> QED BY <1>17, <3>4, <3>5, <3>6
  <2> QED BY <2>1, <2>2
<1>19. Shown(k) = (Shown(a) \ {Ends(q, f, s)}) \cup {Waits(q, t, s), Ends(p, g, "future")}
  <2>1. PICK c, d, u, v, y, z : /\ c = End(a, x) /\ d = End(a, p) /\ u = End(a, t)
                                /\ v = End(k, x) /\ y = End(k, p) /\ z = End(k, t)
    OBVIOUS
  <2>2. Shown(k) = (Shown(a) \ {c, d, u}) \cup ({v, y, z} \ {NoChannel})
    BY <1>12, <1>13, <2>1, ThreeChanges
  <2>3. NoChannel \notin Shown(a)
    BY DEF Shown
  <2>4. {v, y, z} \ {NoChannel} = {e, y}
    BY <1>16, <1>18, <2>1
  <2> QED BY <1>6, <1>15, <1>16, <1>17, <2>1, <2>2, <2>3, <2>4
<1>20. Ends(q, f, s) \in Shown(a)
  BY <1>6, Zenon DEF Shown
<1> QED BY <1>5, <1>19, <1>20

\* then() keeps what futures and tasks hold, and its continuation has the new promise.
LEMMA ContinuedTight ==
    ASSUME NEW a, NEW k, Linked(a, None, None), NEW f \in Future, NEW g \in Future, NEW t \in Task,
           NEW p \in Promise, NEW w \in BOOLEAN, NEW q, NEW s, Tight(a, None),
           Continuable(a, k, f, g, t, p, q, s, w), available(s) \/ (s = "future" /\ q \in Promise)
    PROVE  /\ Tight(k, None)
           /\ Outputs(k) = [Outputs(a) EXCEPT ![t] = p]
           /\ Handles(k) \in {Handles(a), Handles(a) \cup {t}}
<1>1. Typed(a) /\ None \notin Promise \cup Future \cup Task
  BY AddressAssumption DEF Linked
<1>2. q \in Promise \cup {None}
  BY <1>1 DEF Continuable, Typed, FutureRecord
<1>3. /\ a.future[f].life = "live" /\ a.future[g].life = "dead" /\ g # f
      /\ a.task[t].pr = None /\ a.promise[p].state = "dead" /\ p # q
      /\ q = a.future[f].promise /\ s = state(a, f)
  BY Zenon DEF Continuable
<1>4. /\ k.promise[p].state = "local" /\ k.promise[p].local = "future"
      /\ k.future[g].promise = p /\ k.future[g].local = "future" /\ k.future[g].life = "live"
      /\ k.future[f].life = "spent"
      /\ k.task[t].state = s /\ k.task[t].pr = p /\ k.task[t].wrapped = w
      /\ \A u \in Task \ {t} : k.task[u] = a.task[u]
      /\ \A y \in Future \ {f, g} : k.future[y] = a.future[y]
      /\ \A r \in Promise \ {p, q} : k.promise[r] = a.promise[r]
  BY Zenon DEF Continuable, Continued
<1>5. TightTasks(a, None) /\ TightFutures(a)
  BY DEF Tight
<1>6. \A u \in Task : a.task[u].pr \in (Promise \ {p}) \cup {None}
  BY <1>1, <1>3 DEF Linked, Captured, Typed, TaskRecord
<1>7. \A r \in Promise \ {p, q} : Written(k, r) = Written(a, r)
  <2>1. SUFFICES ASSUME NEW r \in Promise \ {p, q} PROVE Written(k, r) = Written(a, r)
    OBVIOUS
  <2>2. a.promise[r].state = "task" => a.promise[r].task \in Task \ {t}
    BY <1>1, <1>3 DEF Linked, Writes, Attached, Typed, PromiseRecord
  <2>3. k.promise[r] = a.promise[r]
    BY <1>4, SMTT(40)
  <2> QED BY <1>4, <2>2, <2>3 DEF Written
<1>8. q # None => a.promise[q].state = "local" /\ Written(a, q) = s
  BY <1>3, ZenonT(60) DEF Linked, Paired, state, Written
<1>9. TightTasks(k, None)
  <2>1. SUFFICES ASSUME NEW u \in Task
                 PROVE  /\ k.task[u].pr = None => k.task[u].wrapped = FALSE
                        /\ k.task[u].pr # None => k.task[u].state # "invalid"
                        /\ k.task[u].pr # None /\ u # None => Written(k, k.task[u].pr) = "future"
    BY DEF TightTasks
  <2>2. CASE u = t
    <3>1. Written(k, p) = "future"
      BY <1>4 DEF Written
    <3>2. s # "invalid"
      BY DEF available
    <3> QED BY <1>1, <1>4, <2>2, <3>1, <3>2
  <2>3. CASE u # t
    <3>1. k.task[u] = a.task[u]
      BY <1>4, <2>3
    <3>2. a.task[u].pr # None => Written(a, a.task[u].pr) = "future"
      BY <1>1, <1>5 DEF TightTasks
    <3>3. a.task[u].pr # None => Written(k, a.task[u].pr) = "future"
      <4>1. CASE a.task[u].pr # q
        BY <1>6, <1>7, <3>2, <4>1
      <4>2. CASE a.task[u].pr = q /\ q # None
        <5>1. s = "future" /\ ~available(s)
          BY <1>8, <3>2, <4>2 DEF available
        <5>2. k.promise[q].state = "task" /\ k.promise[q].task = t
          BY <5>1, Zenon DEF Continuable, ContinuedLater
        <5>3. Written(k, q) = "future"
          BY <1>4, <5>1, <5>2 DEF Written
        <5> QED BY <4>2, <5>3
      <4> QED BY <4>1, <4>2
    <3> QED BY <1>5, <3>1, <3>3 DEF TightTasks
  <2> QED BY <2>2, <2>3
<1>10. TightFutures(k)
  <2>1. SUFFICES ASSUME NEW y \in Future
                 PROVE  /\ k.future[y].life = "dead" => k.future[y].local = "invalid"
                        /\ k.future[y].promise # None => k.future[y].local = "future"
                        /\ k.future[y].promise # None /\ k.future[y].life = "spent" =>
                              k.promise[k.future[y].promise].local = "invalid"
    BY DEF TightFutures
  <2>2. CASE y = g
    BY <1>4, <2>2
  <2>3. CASE y = f
    <3>1. CASE available(s)
      <4>1. k.future[f].promise = q
            /\ (q # None => k.future[f].local = a.future[f].local /\ k.promise[q].local = "invalid")
        BY <3>1, Zenon DEF Continuable, ContinuedReady
      <4> QED BY <1>3, <1>4, <1>5, <2>3, <4>1 DEF TightFutures
    <3>2. CASE ~available(s)
      <4>1. k.future[f].promise = None
        BY <3>2, Zenon DEF Continuable, ContinuedLater
      <4> QED BY <1>4, <2>3, <4>1
    <3> QED BY <3>1, <3>2
  <2>4. CASE y # f /\ y # g
    <3>1. k.future[y] = a.future[y]
      BY <1>4, <2>4
    <3>2. a.future[y].promise # None => a.future[y].promise \in Promise \ {p, q}
      <4>1. a.future[y].promise \in Promise \cup {None}
        BY <1>1 DEF Typed, FutureRecord
      <4>2. a.future[y].promise # p
        BY <1>1, <1>3 DEF Linked, Paired
      <4>3. a.future[y].promise = q => q = None
        BY <1>3, <2>4 DEF Linked, Paired
      <4> QED BY <4>1, <4>2, <4>3
    <3> QED BY <1>4, <1>5, <3>1, <3>2 DEF TightFutures
  <2> QED BY <2>2, <2>3, <2>4
<1>11. Outputs(k) = [Outputs(a) EXCEPT ![t] = p]
  BY <1>4 DEF Outputs
<1>12. Handles(k) \in {Handles(a), Handles(a) \cup {t}}
  <2>1. t \notin Handles(a)
    BY <1>3, <1>5 DEF Handles, TightTasks
  <2>2. CASE w = TRUE
    BY <1>4, <2>2 DEF Handles
  <2>3. CASE w = FALSE
    BY <1>4, <2>1, <2>3 DEF Handles
  <2> QED BY <2>2, <2>3
<1> QED BY <1>9, <1>10, <1>11, <1>12 DEF Tight

\* future::then and then_wrapped attach a continuation to a channel.
LEMMA ThenChans ==
    ASSUME IInv, IInv', Tight(Now, None), NEW f \in Future, NEW g \in Future, NEW t \in Task,
           NEW p \in Promise, NEW w \in BOOLEAN, then(f, t, p, g, w)
    PROVE  Channels!Next /\ Tight(Now, None)'
<1>1. PICK a, q, s : a = Heap /\ q = future[f].promise /\ s = state(a, f)
  OBVIOUS
<1>2. PICK h, k : Continues(a, h, k, f, g, t, p, q, s, w)
  <2>1. PICK h : h = [a EXCEPT !.promise[p] = [NewPromise EXCEPT !.future = g],
                       !.future[g] = [promise |-> p, local |-> "future", life |-> "live"],
                       !.future[f].life = "spent",
                       !.task[t] = [state |-> s, pr |-> p, wrapped |-> w]]
    OBVIOUS
  <2>2. PICK k : k = IF available(s) THEN [Moved(h, f) EXCEPT !.queue = Append(@, t)]
                     ELSE [h EXCEPT !.promise[q] = [@ EXCEPT !.state = "task", !.task = t, !.future = None],
                                    !.future[f].promise = None]
    OBVIOUS
  <2>3. Continues(a, h, k, f, g, t, p, q, s, w)
    BY <2>1, <2>2, Zenon DEF Continues
  <2> QED BY <2>3
<1>3. HeapBecomes(k)
  BY <1>1, <1>2, Zenon DEF then, Continues
<1>4. /\ Linked(a, None, None) /\ Tight(a, None) /\ Chans(Heap) = Shown(a)
      /\ a.promise = promise /\ a.future = future /\ a.task = task /\ a.reported = FALSE
  BY <1>1, HeapLinks, HeapChans
<1>5. /\ a.future[f].life = "live" /\ a.future[g].life = "dead" /\ g # f
      /\ a.task[t].pr = None /\ a.promise[p].state = "dead"
      /\ q = a.future[f].promise /\ q \in Promise \cup {None}
  <2>1. a.future[f].promise \in Promise \cup {None}
    BY <1>4 DEF Linked, Typed, FutureRecord
  <2> QED BY <1>1, <1>4, <2>1 DEF then, Usable, Alive
<1>6. available(s) \/ q # None
  BY <1>1 DEF then, Usable
<1>7. /\ Continued(a, k, f, g, t, p, q, s, w) /\ p # q
      /\ available(s) => ContinuedReady(a, k, f, t, q)
      /\ ~available(s) => ContinuedLater(a, k, f, t, q)
  <2>1. Continuing(a, f, g, p, q, s)
    BY <1>1, <1>4, <1>5, <1>6 DEF Continuing
  <2>2. ContinuedHeap(a, k, f, g, t, p, q, s, w)
    BY <1>2, <2>1, ThenHeap
  <2> QED BY <2>2, Zenon DEF ContinuedHeap
<1>8. Continuable(a, k, f, g, t, p, q, s, w)
  BY <1>1, <1>5, <1>6, <1>7, Zenon DEF Continuable
<1>9. PICK c : c = Ends(q, f, s)
  OBVIOUS
<1>10. /\ c \in Chans(Heap)
       /\ Shown(k) = (Chans(Heap) \ {c}) \cup {Waits(q, t, s), Ends(p, g, "future")}
       /\ available(s) \/ (s = "future" /\ q \in Promise)
  BY <1>4, <1>8, <1>9, ContinuedChans
<1>11. /\ Tight(k, None)
       /\ Outputs(k) = [Outputs(a) EXCEPT ![t] = p]
       /\ Handles(k) \in {Handles(a), Handles(a) \cup {t}}
  BY <1>4, <1>8, <1>10, ContinuedTight
<1>12. /\ Tight(Now, None)'
       /\ Chans(Heap)' = Shown(k) /\ Outputs(Heap)' = Outputs(k)
       /\ Handles(Heap)' = Handles(k) /\ reported' = k.reported
  BY <1>3, <1>11, BecomesChans
<1>13. Channels!Attach(c, t, p, g)
  <2>1. c.reader \in Future /\ c.content = s
    BY <1>9 DEF Ends
  <2>2. ~reported'
    BY <1>7, <1>12 DEF Continued
  <2>3. Outputs(Heap)[t] = None
    BY <1>1, <1>5 DEF Outputs
  <2>4. /\ Outputs(Heap)' = [Outputs(Heap) EXCEPT ![t] = p]
        /\ Handles(Heap)' \in {Handles(Heap), Handles(Heap) \cup {t}}
    BY <1>1, <1>11, <1>12
  <2>5. Waits(q, t, s) = IF c.content = "future" THEN [c EXCEPT !.reader = t]
                         ELSE Channels!Channel(None, t, c.content)
    BY <1>9 DEF Waits, Ends, Channels!Channel
  <2>6. Ends(p, g, "future") = Channels!Channel(p, g, "future")
    BY DEF Ends, Channels!Channel
  <2>7. Chans(Heap)' = (Chans(Heap) \ {c}) \cup {IF c.content = "future" THEN [c EXCEPT !.reader = t]
                                                 ELSE Channels!Channel(None, t, c.content),
                                                 Channels!Channel(p, g, "future")}
    BY <1>10, <1>12, <2>5, <2>6, Zenon
  <2> QED BY <2>1, <2>2, <2>3, <2>4, <2>7, Zenon DEF Channels!Attach
<1> QED BY <1>10, <1>12, <1>13 DEF Channels!Next

\* run_tasks takes a continuation from the queue: its channel is read.
LEMMA DequeueChans ==
    ASSUME NEW a, NEW h, Linked(a, None, None), Tight(a, None), a.queue # << >>,
           h.promise = a.promise, h.future = a.future, h.task = a.task,
           h.queue = Tail(a.queue), NEW t, t = Head(a.queue), NEW p, p = a.task[t].pr
    PROVE  /\ Tight(h, t)
           /\ Ends(None, t, a.task[t].state) \in Shown(a)
           /\ Shown(h) = Shown(a) \ {Ends(None, t, a.task[t].state)}
           /\ a.task[t].state \in {"result", "exception"}
           /\ p \in Promise /\ Written(h, p) = "future"
           /\ \A u \in Task : h.task[u].pr = p => u = t
           /\ Outputs(h) = Outputs(a) /\ Handles(h) = Handles(a)
<1>1. Typed(a) /\ None \notin Promise \cup Future \cup Task
  BY AddressAssumption DEF Linked
<1>2. /\ t = a.queue[1] /\ 1 \in DOMAIN a.queue /\ t \in Task
      /\ DOMAIN a.queue = 1 .. Len(a.queue) /\ Len(a.queue) \in Nat
      /\ DOMAIN h.queue = 1 .. Len(a.queue) - 1
      /\ \A i \in DOMAIN h.queue : h.queue[i] = a.queue[i + 1]
  BY <1>1 DEF Typed
<1>3. \A q \in Promise : Written(h, q) = Written(a, q) /\ Reader(h, q) = Reader(a, q)
  BY DEF Written, Reader
<1>4. a.task[t].pr # None /\ a.task[t].state # "future"
  BY <1>1, <1>2 DEF Linked, Queued
<1>5. p \in Promise /\ a.task[t].state \in States
  BY <1>1, <1>2, <1>4 DEF Typed, TaskRecord
<1>6. a.task[t].state \in {"result", "exception"}
  <2>1. a.task[t].state # "invalid"
    BY <1>2, <1>4 DEF Tight, TightTasks
  <2> QED BY <1>4, <1>5, <2>1 DEF States
<1>7. Written(h, p) = "future"
  BY <1>1, <1>2, <1>3, <1>4, <1>5 DEF Tight, TightTasks
<1>8. \A u \in Task : h.task[u].pr = p => u = t
  BY <1>2, <1>4 DEF Linked, Captured
<1>9. Tight(h, t)
  <2>1. TightTasks(h, t)
    <3>1. \A u \in Task : a.task[u].pr \in Promise \cup {None}
      BY <1>1 DEF Typed, TaskRecord
    <3> QED BY <1>1, <1>3, <3>1 DEF Tight, TightTasks
  <2>2. TightFutures(h)
    BY DEF Tight, TightFutures
  <2> QED BY <2>1, <2>2 DEF Tight
<1>10. InQueue(a, t) /\ ~InQueue(h, t)
  <2>1. \A i \in DOMAIN a.queue : a.queue[i] = t => i = 1
    BY <1>2 DEF Linked, Queued
  <2>2. \A i \in DOMAIN h.queue : i + 1 \in DOMAIN a.queue /\ i + 1 # 1
    BY <1>2
  <2> QED BY <1>2, <2>1, <2>2 DEF InQueue
<1>11. \A u \in Task \ {t} : InQueue(h, u) <=> InQueue(a, u)
  <2>1. ASSUME NEW u \in Task \ {t}, NEW i \in DOMAIN a.queue, a.queue[i] = u
        PROVE  \E j \in DOMAIN h.queue : h.queue[j] = u
    <3>1. i - 1 \in DOMAIN h.queue /\ i - 1 + 1 = i
      BY <1>2, <2>1
    <3> QED BY <1>2, <2>1, <3>1
  <2>2. \A i \in DOMAIN h.queue : i + 1 \in DOMAIN a.queue
    BY <1>2
  <2> QED BY <1>2, <2>1, <2>2 DEF InQueue
<1>12. OnlyOne(a, h, t)
  <2>1. \A q \in Promise : PromiseEnd(h, q) = PromiseEnd(a, q)
    BY <1>3 DEF PromiseEnd
  <2>2. \A f \in Future : FutureEnd(h, f) = FutureEnd(a, f)
    BY DEF FutureEnd, StillHolds
  <2>3. \A u \in Task \ {t} : TaskEnd(h, u) = TaskEnd(a, u)
    BY <1>11 DEF TaskEnd
  <2> QED BY <2>1, <2>2, <2>3, Kinds DEF Only, OnlyOne
<1>13. PICK c : c = Ends(None, t, a.task[t].state)
  OBVIOUS
<1>14. /\ End(a, t) = c /\ End(h, t) = NoChannel /\ t \in Addresses /\ c # NoChannel
  <2>1. c # NoChannel
    BY <1>1, <1>2, <1>13 DEF Ends, NoChannel
  <2> QED BY <1>2, <1>10, <1>13, <2>1, Kinds DEF TaskEnd
<1>15. Shown(h) = Shown(a) \ {c}
  <2>1. Shown(h) = (Shown(a) \ {End(a, t)}) \cup ({End(h, t)} \ {NoChannel})
    BY <1>12, <1>14, OneChange
  <2> QED BY <1>14, <2>1
<1>16. c \in Shown(a)
  BY <1>14, Zenon DEF Shown
<1> QED BY <1>5, <1>6, <1>7, <1>8, <1>9, <1>13, <1>15, <1>16 DEF Outputs, Handles

\* The continuation that ran is gone, and its promise with it.
Finished(g, t, p, k) ==
    /\ g.promise[p].task = None /\ g.task[t].pr = p
    /\ k = destroy([g EXCEPT !.task[t] = NoTask], p)

\* run_tasks destroys a continuation that has run, and with it its promise.
LEMMA FinishedChans ==
    ASSUME NEW g, NEW t \in Task, NEW p \in Promise, NEW k, Linked(g, t, None), Tight(g, t),
           Finished(g, t, p, k)
    PROVE  /\ Tight(k, None)
           /\ Shown(k) = Channels!Closed(Shown(g), p)
           /\ k.reported <=> (g.reported \/ Channels!Unread(Shown(g), p))
           /\ k.reported \in BOOLEAN
           /\ Outputs(k) = [Outputs(g) EXCEPT ![t] = None]
           /\ Handles(k) = Handles(g) \ {t}
<1>1. Typed(g) /\ None \notin Promise \cup Future \cup Task
  BY AddressAssumption DEF Linked
<1>2. PICK e : e = [g EXCEPT !.task[t] = NoTask]
  OBVIOUS
<1>3. k = destroy(e, p) /\ g.promise[p].task = None /\ g.task[t].pr = p
  BY <1>2, Zenon DEF Finished
<1>4. /\ e.promise = g.promise /\ e.future = g.future /\ e.queue = g.queue /\ e.reported = g.reported
      /\ e.task = [g.task EXCEPT ![t] = NoTask]
  BY <1>1, <1>2 DEF Typed
<1>5. e.task[t] = NoTask /\ \A u \in Task \ {t} : e.task[u] = g.task[u]
  BY <1>1, <1>4 DEF Typed
<1>6. Linked(e, None, None) /\ \A u \in Task : e.task[u].pr # p
  BY <1>1, <1>2, <1>3, EndLinks
<1>7. \A q \in Promise : Written(e, q) = Written(g, q) /\ Reader(e, q) = Reader(g, q)
  <2>1. SUFFICES ASSUME NEW q \in Promise
                 PROVE  Written(e, q) = Written(g, q) /\ Reader(e, q) = Reader(g, q)
    OBVIOUS
  <2>2. g.promise[q].state = "task" => g.promise[q].task \in Task \ {t}
    BY <1>1 DEF Linked, Writes, Attached, Typed, PromiseRecord
  <2> QED BY <1>4, <1>5, <2>2 DEF Written, Reader
<1>8. Shown(e) = Shown(g)
  <2>1. \A q \in Promise : PromiseEnd(e, q) = PromiseEnd(g, q)
    BY <1>7 DEF PromiseEnd
  <2>2. \A f \in Future : FutureEnd(e, f) = FutureEnd(g, f)
    BY <1>4 DEF FutureEnd, StillHolds
  <2>3. ASSUME NEW u \in Task PROVE TaskEnd(e, u) = TaskEnd(g, u)
    <3>1. InQueue(e, u) <=> InQueue(g, u)
      BY <1>4 DEF InQueue
    <3>2. ~InQueue(g, t)
      BY DEF InQueue, Linked, Queued
    <3> QED BY <1>5, <3>1, <3>2 DEF TaskEnd
  <2>4. \A i \in Addresses : End(e, i) = End(g, i)
    BY <2>1, <2>2, <2>3, Kinds
  <2> QED BY <2>4 DEF Shown
<1>9. Tight(e, None)
  <2>1. TightTasks(e, None)
    <3>1. \A u \in Task : g.task[u].pr \in Promise \cup {None}
      BY <1>1 DEF Typed, TaskRecord
    <3> QED BY <1>5, <1>7, <3>1 DEF Tight, TightTasks, NoTask
  <2>2. TightFutures(e)
    BY <1>4 DEF Tight, TightFutures
  <2> QED BY <2>1, <2>2 DEF Tight
<1>10. PICK G, D : G = Chain(e, p) /\ D = {End(e, q) : q \in G} \ {NoChannel}
  OBVIOUS
<1>11. G = {p}
  BY <1>3, <1>4, <1>10, ChainAlone
<1>12. D = {End(e, p)} \ {NoChannel}
  BY <1>10, <1>11, Zenon
<1>13. Tight(k, None) /\ Dropped(e, p, G, D, k)
  <2>1. Destroyed(e, p, G, D, k)
    BY <1>3, <1>6, <1>10 DEF Destroyed
  <2> QED BY <1>6, <1>9, <2>1, DestroyChans
<1>14. Lost(e, G) = {}
  BY <1>3, <1>4, <1>11 DEF Lost
<1>15. /\ Shown(k) = (Shown(e) \ D) \cup {[d EXCEPT !.writer = None] : d \in {x \in D : x.reader \in Future}}
       /\ k.reported = (e.reported \/ (e.promise[p].future = None /\ Written(e, p) = "exception"))
       /\ Outputs(k) = [u \in Task |-> IF u \in Lost(e, G) THEN None ELSE Outputs(e)[u]]
       /\ Handles(k) = Handles(e) \ Lost(e, G)
  BY <1>13, Zenon DEF Dropped
<1>16. PICK b : b = End(e, p)
  OBVIOUS
<1>17. b # NoChannel => /\ b.writer = p /\ b.reader = e.promise[p].future /\ b.content = Written(e, p)
                        /\ b \in Shown(e) /\ b.reader \in Future \cup {None}
  <2>1. SUFFICES ASSUME b # NoChannel
                 PROVE  /\ b.writer = p /\ b.reader = e.promise[p].future /\ b.content = Written(e, p)
                        /\ b \in Shown(e) /\ b.reader \in Future \cup {None}
    OBVIOUS
  <2>2. b = Ends(p, Reader(e, p), Written(e, p))
    BY <1>16, <2>1, Kinds DEF PromiseEnd
  <2>3. Reader(e, p) = e.promise[p].future
    BY <1>3, <1>4 DEF Reader
  <2>4. e.promise[p].future \in Future \cup {None}
    BY <1>1, <1>4 DEF Typed, PromiseRecord
  <2>5. b \in Shown(e)
    BY <1>16, <2>1, Kinds, Zenon DEF Shown
  <2> QED BY <2>2, <2>3, <2>4, <2>5 DEF Ends
<1>18. b = NoChannel => Written(e, p) = "invalid"
  <2>1. Ends(p, Reader(e, p), Written(e, p)) # NoChannel
    BY <1>1 DEF Ends, NoChannel
  <2> QED BY <1>16, <2>1, Kinds DEF PromiseEnd
<1>19. {c \in Shown(e) : c.writer = p} = D
  <2>1. \A c \in Shown(e) : c.writer = p => c = b /\ c # NoChannel
    <3>1. \A c \in Shown(e) : c.writer = p => c = End(e, p)
      BY <1>1, Writers
    <3>2. NoChannel \notin Shown(e)
      BY DEF Shown
    <3> QED BY <1>16, <3>1, <3>2
  <2> QED BY <1>12, <1>16, <1>17, <2>1
<1>20. Shown(k) = Channels!Closed(Shown(g), p)
  <2>1. \A d \in D : d.reader \in Future <=> d.reader # None
    BY <1>1, <1>12, <1>16, <1>17
  <2>2. {x \in D : x.reader \in Future} = {x \in D : x.reader # None}
    BY <2>1
  <2> QED BY <1>8, <1>15, <1>19, <2>2, Zenon DEF Channels!Closed
<1>21. k.reported <=> (g.reported \/ Channels!Unread(Shown(g), p))
  <2>1. Channels!Unread(Shown(e), p) <=> (e.promise[p].future = None /\ Written(e, p) = "exception")
    <3>1. Channels!Unread(Shown(e), p) <=> \E c \in D : c.reader = None /\ c.content = "exception"
      BY <1>19, Zenon DEF Channels!Unread
    <3> QED BY <1>12, <1>16, <1>17, <1>18, <3>1
  <2> QED BY <1>4, <1>8, <1>15, <2>1
<1>22. k.reported \in BOOLEAN
  BY <1>15
<1>23. Outputs(k) = [Outputs(g) EXCEPT ![t] = None] /\ Handles(k) = Handles(g) \ {t}
  <2>1. Outputs(k) = Outputs(e) /\ Handles(k) = Handles(e)
    BY <1>14, <1>15 DEF Outputs
  <2>2. Outputs(e) = [Outputs(g) EXCEPT ![t] = None]
    <3>1. \A u \in Task : Outputs(e)[u] = IF u = t THEN None ELSE Outputs(g)[u]
      BY <1>5 DEF Outputs, NoTask
    <3> QED BY <3>1 DEF Outputs
  <2>3. Handles(e) = Handles(g) \ {t}
    BY <1>5 DEF Handles, NoTask
  <2> QED BY <2>1, <2>2, <2>3
<1> QED BY <1>13, <1>20, <1>21, <1>22, <1>23

\* What a continuation may do: it is skipped and its failure passes on, or it
\* writes an outcome, or it returns a future.
After(rest, b, c, H, A) ==
    IF c.content = "exception" /\ c.reader \notin H
    THEN A = (rest \ {b}) \cup {Channels!Resolved(b, "exception")}
    ELSE \/ \E v \in Channels!Outcome : A = (rest \ {b}) \cup {Channels!Resolved(b, v)}
         \/ \E d \in rest : /\ d.reader \in Future /\ d # b
                            /\ A = Channels!Joined(rest, d, b)
\* The continuation t with the promise p, the channel c it reads, the
\* channel b it writes, and the heap g when its function has ended.
Running(a, t, p, c, b, g) ==
    /\ c = Ends(None, t, a.task[t].state) /\ c \in Shown(a)
    /\ a.task[t].state \in {"result", "exception"} /\ a.task[t].pr = p
    /\ b \in Shown(a) \ {c} /\ b.writer = p
    /\ Linked(g, t, None) /\ Tight(g, t)
    /\ Outputs(g) = Outputs(a) /\ Handles(g) = Handles(a)
    /\ After(Shown(a) \ {c}, b, c, Handles(a), Shown(g))
    /\ g.reported => c.content = "exception" /\ t \in Handles(a)

\* What is left of the channels, now C, and whether a failure was reported.
Ended(rest, b, c, t, p, H, C, told) ==
    \E after \in
       IF c.content = "exception" /\ t \notin H
       THEN {(rest \ {b}) \cup {Channels!Resolved(b, "exception")}}
       ELSE {(rest \ {b}) \cup {Channels!Resolved(b, v)} : v \in Channels!Outcome}
               \cup {Channels!Joined(rest, from, b) :
                       from \in {d \in rest : d.reader \in Future /\ d # b}} :
       /\ C = Channels!Closed(after, p)
       /\ \/ told = Channels!Unread(after, p)
          \/ c.content = "exception" /\ t \in H /\ told

\* The end of a continuation is the end of a step of its channels.
LEMMA RunningChans ==
    ASSUME IInv', NEW a, a = Heap, Chans(Heap) = Shown(a),
           NEW t \in Task, NEW p \in Promise, NEW c, NEW b, NEW g, NEW k,
           Running(a, t, p, c, b, g), Finished(g, t, p, k), HeapBecomes(k)
    PROVE  Channels!Next /\ Tight(Now, None)'
<1>1. Linked(g, t, None) /\ Tight(g, t)
  BY Zenon DEF Running
<1>2. /\ Tight(k, None)
      /\ Shown(k) = Channels!Closed(Shown(g), p)
      /\ k.reported <=> (g.reported \/ Channels!Unread(Shown(g), p))
      /\ k.reported \in BOOLEAN
      /\ Outputs(k) = [Outputs(g) EXCEPT ![t] = None]
      /\ Handles(k) = Handles(g) \ {t}
  BY <1>1, FinishedChans
<1>3. /\ Tight(Now, None)'
      /\ Chans(Heap)' = Shown(k) /\ Outputs(Heap)' = Outputs(k)
      /\ Handles(Heap)' = Handles(k) /\ reported' = k.reported
  BY <1>2, BecomesChans
<1>4. PICK A, rest : A = Shown(g) /\ rest = Chans(Heap) \ {c}
  OBVIOUS
<1>5. c.reader = t /\ c.content \in Channels!Outcome /\ c \in Chans(Heap)
  BY DEF Running, Ends, Channels!Outcome
<1>6. Outputs(Heap)[t] = p
  BY DEF Running, Outputs
<1>7. /\ Outputs(Heap)' = [Outputs(Heap) EXCEPT ![t] = None]
      /\ Handles(Heap)' = Handles(Heap) \ {t}
  <2>1. Outputs(g) = Outputs(Heap) /\ Handles(g) = Handles(Heap)
    BY Zenon DEF Running
  <2> QED BY <1>2, <1>3, <2>1
<1>8. b \in {d \in rest : d.writer = p}
  BY <1>4 DEF Running
<1>9. A \in IF c.content = "exception" /\ t \notin Handles(Heap)
            THEN {(rest \ {b}) \cup {Channels!Resolved(b, "exception")}}
            ELSE {(rest \ {b}) \cup {Channels!Resolved(b, v)} : v \in Channels!Outcome}
                    \cup {Channels!Joined(rest, from, b) :
                            from \in {d \in rest : d.reader \in Future /\ d # b}}
  <2>1. After(rest, b, c, Handles(Heap), A)
    BY <1>4, Zenon DEF Running
  <2>2. CASE c.content = "exception" /\ t \notin Handles(Heap)
    <3>1. A = (rest \ {b}) \cup {Channels!Resolved(b, "exception")}
      BY <1>5, <2>1, <2>2 DEF After
    <3> QED BY <2>2, <3>1
  <2>3. CASE ~(c.content = "exception" /\ t \notin Handles(Heap))
    <3>1. \/ \E v \in Channels!Outcome : A = (rest \ {b}) \cup {Channels!Resolved(b, v)}
          \/ \E d \in rest : /\ d.reader \in Future /\ d # b
                             /\ A = Channels!Joined(rest, d, b)
      BY <1>5, <2>1, <2>3, Zenon DEF After
    <3> QED BY <2>3, <3>1, Zenon
  <2> QED BY <2>2, <2>3
<1>10. Chans(Heap)' = Channels!Closed(A, p)
  BY <1>2, <1>3, <1>4
<1>11. \/ reported' = Channels!Unread(A, p)
       \/ c.content = "exception" /\ t \in Handles(Heap) /\ reported'
  <2>1. g.reported => c.content = "exception" /\ t \in Handles(Heap)
    BY Zenon DEF Running
  <2>2. Channels!Unread(A, p) \in BOOLEAN
    BY DEF Channels!Unread
  <2>3. reported' \in BOOLEAN /\ (reported' <=> (g.reported \/ Channels!Unread(A, p)))
    BY <1>2, <1>3, <1>4
  <2> QED BY <2>1, <2>2, <2>3
<1>12. Channels!Run(c)
  <2>1. Ended(rest, b, c, t, p, Handles(Heap), Chans(Heap)', reported')
    <3>1. \A S : A \in S => \E after \in S : after = A
      OBVIOUS
    <3> QED BY <1>9, <1>10, <1>11, Zenon DEF Ended
  <2>2. Ended(Chans(Heap) \ {c}, b, c, c.reader, Outputs(Heap)[c.reader], Handles(Heap),
              Chans(Heap)', reported')
    BY <1>4, <1>5, <1>6, <2>1
  <2>3. b \in {d \in Chans(Heap) \ {c} : d.writer = Outputs(Heap)[c.reader]}
    BY <1>4, <1>5, <1>6, <1>8
  <2>4. /\ c.reader \in Task /\ c.content \in Channels!Outcome
        /\ Outputs(Heap)' = [Outputs(Heap) EXCEPT ![c.reader] = None]
        /\ Handles(Heap)' = Handles(Heap) \ {c.reader}
    BY <1>5, <1>7
  <2> QED BY <2>2, <2>3, <2>4, Zenon DEF Channels!Run, Ended
<1> QED BY <1>3, <1>5, <1>12 DEF Channels!Next

\* reactor::run_tasks runs the continuation at the end of a channel.
LEMMA RunChans == ASSUME IInv, IInv', Tight(Now, None), Run PROVE Channels!Next /\ Tight(Now, None)'
<1> DEFINE t == Head(_pending_tasks)
           p == task[t].pr
           h == [Heap EXCEPT !.queue = Tail(@)]
<1>1. IF ~CallsFunction(t)
      THEN HeapBecomes(destroy([set(h, p, "exception") EXCEPT !.task[t] = NoTask], p))
      ELSE \E looked \in BOOLEAN :
           LET k == [h EXCEPT !.reported = ~looked /\ task[t].state = "exception"] IN
           \/ \E v \in {"result", "exception"} :
                 HeapBecomes(destroy([set(k, p, v) EXCEPT !.task[t] = NoTask], p))
           \/ \E f \in Future :
                 /\ Usable(f)
                 /\ available(state(h, f)) \/ Apart(h, f, p)
                 /\ HeapBecomes(destroy([destroyFuture(forward_to(k, f, p), f) EXCEPT
                                            !.task[t] = NoTask], p))
  BY Zenon DEF Run
<1>2. PICK a : /\ a = Heap /\ t = Head(_pending_tasks) /\ p = task[t].pr
               /\ h = [Heap EXCEPT !.queue = Tail(@)]
  BY SMTT(40)
<1> HIDE DEF t, p, h
<1>3. /\ Linked(a, None, None)
      /\ a.promise = promise /\ a.future = future /\ a.task = task /\ a.queue = _pending_tasks
      /\ h.promise = a.promise /\ h.future = a.future /\ h.task = a.task
      /\ h.queue = Tail(a.queue) /\ h.reported = FALSE
      /\ a.queue # << >>
  BY <1>2, HeapLinks DEF Run, Heap
<1>4. t \in Task /\ Linked(h, t, None) /\ h.task[t].pr = p /\ p \in Promise
  BY <1>2, <1>3, DequeueLinks
<1>5. None \notin Promise \cup Future \cup Task
  BY AddressAssumption
<1>6. PICK c : c = Ends(None, t, a.task[t].state)
  OBVIOUS
<1>7. Tight(a, None) /\ Chans(Heap) = Shown(a)
  BY <1>2, HeapChans
<1>8. /\ Tight(h, t) /\ c \in Shown(a) /\ Shown(h) = Shown(a) \ {c}
      /\ a.task[t].state \in {"result", "exception"}
      /\ Written(h, p) = "future" /\ \A u \in Task : h.task[u].pr = p => u = t
      /\ Outputs(h) = Outputs(a) /\ Handles(h) = Handles(a)
  <2>1. p = a.task[t].pr /\ t = Head(a.queue)
    BY <1>2, <1>3
  <2>2. /\ Linked(a, None, None) /\ Tight(a, None) /\ a.queue # << >>
        /\ h.promise = a.promise /\ h.future = a.future /\ h.task = a.task
        /\ h.queue = Tail(a.queue)
    BY <1>3, <1>7
  <2>3. /\ Tight(h, t)
        /\ Ends(None, t, a.task[t].state) \in Shown(a)
        /\ Shown(h) = Shown(a) \ {Ends(None, t, a.task[t].state)}
        /\ a.task[t].state \in {"result", "exception"}
        /\ Written(h, p) = "future"
        /\ \A u \in Task : h.task[u].pr = p => u = t
        /\ Outputs(h) = Outputs(a) /\ Handles(h) = Handles(a)
    BY <2>1, <2>2, DequeueChans
  <2> QED BY <1>6, <2>3
\* The channel that the promise of the continuation writes.
<1>9. PICK b : b = End(h, p)
  OBVIOUS
<1>10. b = Ends(p, Reader(h, p), "future") /\ b \in Shown(h) /\ b.writer = p
  <2>1. b = Ends(p, Reader(h, p), "future") /\ p \in Addresses
    BY <1>4, <1>8, <1>9, Kinds DEF PromiseEnd
  <2>2. b # NoChannel /\ b.writer = p
    BY <1>4, <1>5, <2>1 DEF Ends, NoChannel
  <2> QED BY <1>9, <2>1, <2>2, Zenon DEF Shown
<1>11. c.content = a.task[t].state /\ c.reader = t
  BY <1>6 DEF Ends
<1>12. CallsFunction(t) <=> ~(c.content = "exception" /\ c.reader \notin Handles(a))
  <2>1. t \in Handles(a) <=> a.task[t].wrapped
    BY <1>4 DEF Handles
  <2>2. CallsFunction(t) <=> (a.task[t].wrapped \/ a.task[t].state = "result")
    BY <1>3 DEF CallsFunction
  <2> QED BY <1>8, <1>11, <2>1, <2>2
<1>13. ASSUME NEW g, Linked(g, t, None), Tight(g, t), g.promise[p].task = None,
              \A u \in Task : g.task[u].pr = h.task[u].pr,
              Outputs(g) = Outputs(h), Handles(g) = Handles(h),
              After(Shown(h), b, c, Handles(a), Shown(g)),
              g.reported => c.content = "exception" /\ t \in Handles(a),
              HeapBecomes(destroy([g EXCEPT !.task[t] = NoTask], p))
       PROVE  Channels!Next /\ Tight(Now, None)'
  <2>1. PICK k : k = destroy([g EXCEPT !.task[t] = NoTask], p)
    OBVIOUS
  <2>2. HeapBecomes(k)
    BY <1>13, <2>1
  <2>3. Finished(g, t, p, k)
    BY <1>4, <1>13, <2>1 DEF Finished
  <2>4. Running(a, t, p, c, b, g)
    <3>1. After(Shown(a) \ {c}, b, c, Handles(a), Shown(g)) /\ b \in Shown(a) \ {c}
      BY <1>8, <1>10, <1>13
    <3>2. a.task[t].pr = p
      BY <1>3, <1>4
    <3> QED BY <1>6, <1>8, <1>10, <1>13, <3>1, <3>2 DEF Running
  <2> QED BY <1>2, <1>4, <1>7, <2>2, <2>3, <2>4, RunningChans
<1>14. CASE ~CallsFunction(t)
  <2>1. HeapBecomes(destroy([set(h, p, "exception") EXCEPT !.task[t] = NoTask], p))
    BY <1>14, <1>1, Zenon
  <2>2. PICK g : g = set(h, p, "exception")
    OBVIOUS
  <2>3. Linked(g, t, None) /\ \A u \in Task : g.task[u].pr = h.task[u].pr
    BY <1>4, <2>2, SetLinks
  <2>4. /\ Tight(g, t) /\ g.promise[p].task = None
        /\ Shown(g) = (Shown(h) \ {b}) \cup {Channels!Resolved(b, "exception")}
        /\ Outputs(g) = Outputs(h) /\ Handles(g) = Handles(h) /\ g.reported = h.reported
    BY <1>4, <1>8, <1>9, <2>2, SetChans
  <2>5. After(Shown(h), b, c, Handles(a), Shown(g))
    BY <1>12, <1>14, <2>4, Zenon DEF After
  <2> QED BY <1>3, <1>13, <2>1, <2>2, <2>3, <2>4, <2>5
<1>15. ASSUME CallsFunction(t), NEW looked \in BOOLEAN, NEW k,
              k = [h EXCEPT !.reported = ~looked /\ task[t].state = "exception"],
              \/ \E v \in {"result", "exception"} :
                    HeapBecomes(destroy([set(k, p, v) EXCEPT !.task[t] = NoTask], p))
              \/ \E f \in Future :
                    /\ Usable(f)
                    /\ available(state(h, f)) \/ Apart(h, f, p)
                    /\ HeapBecomes(destroy([destroyFuture(forward_to(k, f, p), f) EXCEPT
                                               !.task[t] = NoTask], p))
       PROVE  Channels!Next /\ Tight(Now, None)'
  <2>1. /\ k.promise = h.promise /\ k.future = h.future /\ k.task = h.task /\ k.queue = h.queue
        /\ k.reported = (~looked /\ task[t].state = "exception")
    BY <1>2, <1>15, ZenonT(60) DEF Heap
  <2>2. Linked(k, t, None)
    <3>1. k.reported \in BOOLEAN
      BY <2>1
    <3> QED BY <1>4, <2>1, <3>1 DEF Linked, Typed, Writes, Paired, Readable, Attached, Queued, Captured
  <2>3. \A q : Written(k, q) = Written(h, q) /\ Reader(k, q) = Reader(h, q)
    BY <2>1, Zenon DEF Written, Reader
  <2>4. /\ Tight(k, t) /\ Shown(k) = Shown(h) /\ End(k, p) = b
        /\ Outputs(k) = Outputs(h) /\ Handles(k) = Handles(h)
    <3>1. \A i \in Addresses : End(k, i) = End(h, i)
      <4>1. \A q \in Promise : PromiseEnd(k, q) = PromiseEnd(h, q)
        BY <2>3 DEF PromiseEnd
      <4>2. \A f \in Future : FutureEnd(k, f) = FutureEnd(h, f)
        BY <2>1 DEF FutureEnd, StillHolds
      <4>3. \A u \in Task : TaskEnd(k, u) = TaskEnd(h, u)
        BY <2>1 DEF TaskEnd, InQueue
      <4> QED BY <4>1, <4>2, <4>3, Kinds
    <3>2. Shown(k) = Shown(h)
      BY <3>1 DEF Shown
    <3>3. End(k, p) = b
      BY <1>4, <1>9, <3>1, Kinds
    <3>4. Tight(k, t)
      BY <1>8, <2>1, <2>3 DEF Tight, TightTasks, TightFutures
    <3> QED BY <2>1, <3>2, <3>3, <3>4 DEF Outputs, Handles
  <2>5. Written(k, p) = "future" /\ \A u \in Task : k.task[u].pr = p => u = t
    BY <1>8, <2>1, <2>3
  <2>6. k.reported => c.content = "exception" /\ t \in Handles(a)
    BY <1>3, <1>11, <1>12, <1>15, <2>1
  <2>7. ASSUME NEW v \in {"result", "exception"},
               HeapBecomes(destroy([set(k, p, v) EXCEPT !.task[t] = NoTask], p))
        PROVE  Channels!Next /\ Tight(Now, None)'
    <3>1. PICK g : g = set(k, p, v)
      OBVIOUS
    <3>2. Linked(g, t, None) /\ \A u \in Task : g.task[u].pr = h.task[u].pr
      BY <1>4, <2>1, <2>2, <3>1, SetLinks
    <3>3. /\ Tight(g, t) /\ g.promise[p].task = None
          /\ Shown(g) = (Shown(k) \ {End(k, p)}) \cup {Channels!Resolved(End(k, p), v)}
          /\ Outputs(g) = Outputs(k) /\ Handles(g) = Handles(k) /\ g.reported = k.reported
      BY <1>4, <2>2, <2>4, <2>5, <3>1, SetChans
    <3>4. Shown(g) = (Shown(h) \ {b}) \cup {Channels!Resolved(b, v)} /\ v \in Channels!Outcome
      BY <2>4, <3>3 DEF Channels!Outcome
    <3>5. After(Shown(h), b, c, Handles(a), Shown(g))
      BY <1>12, <1>15, <3>4, Zenon DEF After
    <3> QED BY <1>13, <2>4, <2>6, <2>7, <3>1, <3>2, <3>3, <3>5
  <2>8. ASSUME NEW f \in Future, Usable(f), available(state(h, f)) \/ Apart(h, f, p),
               HeapBecomes(destroy([destroyFuture(forward_to(k, f, p), f) EXCEPT !.task[t] = NoTask], p))
        PROVE  Channels!Next /\ Tight(Now, None)'
    <3>1. state(k, f) = state(h, f) /\ state(h, f) = state(Heap, f)
      <4>1. /\ k.promise = h.promise /\ k.future = h.future /\ k.task = h.task
            /\ Heap.promise = h.promise /\ Heap.future = h.future /\ Heap.task = h.task
        BY <1>2, <1>3, <2>1
      <4>2. \A q : Written(k, q) = Written(h, q) /\ Written(Heap, q) = Written(h, q)
        BY <4>1, Zenon DEF Written
      <4> QED BY <4>1, <4>2, Zenon DEF state
    <3>2. p \in Chain(h, p)
      BY <1>4, ChainFacts
    <3>3. available(state(k, f)) \/ (k.future[f].promise # None /\ k.future[f].promise # p)
      BY <1>3, <2>1, <2>8, <3>1, <3>2 DEF Usable, Apart
    <3>4. k.promise[p].state # "dead"
      BY <1>4, <1>5, <2>1 DEF Linked, Captured
    <3>5. PICK m, g : m = forward_to(k, f, p) /\ g = destroyFuture(m, f)
      OBVIOUS
    <3>6. Linked(m, t, f) /\ \A u \in Task : m.task[u].pr = k.task[u].pr
      BY <1>4, <2>2, <3>3, <3>4, <3>5, ForwardLinks
    <3>7. Linked(g, t, None) /\ g.task = m.task
      BY <3>5, <3>6, DestroyFutureLinks
    <3>8. Forwards(k, t, f, p, g)
      <4>1. k.future[f].life = "live"
        BY <1>3, <2>1, <2>8 DEF Usable
      <4>2. UsedUp(forward_to(k, f, p), g, f)
        BY <3>5 DEF UsedUp
      <4> QED BY <2>5, <3>3, <4>1, <4>2, Zenon DEF Forwards
    <3>9. Tight(g, t) /\ \E x, y : Forwarded(k, f, p, g, x, y)
      BY <1>4, <2>2, <2>4, <3>8, ForwardedChans
    <3>10. PICK x, y : Forwarded(k, f, p, g, x, y)
      BY <3>9
    <3>11. /\ Shown(g) = Channels!Joined(Shown(h), x, b)
           /\ x \in Shown(h) /\ x # b /\ x.reader = f
           /\ Outputs(g) = Outputs(h) /\ Handles(g) = Handles(h) /\ g.reported = k.reported
           /\ g.promise[p].task = None
      <4>1. y = b
        BY <2>4, <3>10 DEF Forwarded
      <4>2. x.reader = f
        BY <3>10 DEF Forwarded, Ends
      <4> QED BY <2>4, <3>10, <4>1, <4>2 DEF Forwarded
    <3>12. After(Shown(h), b, c, Handles(a), Shown(g))
      <4>1. \E d \in Shown(h) : /\ d.reader \in Future /\ d # b
                                /\ Shown(g) = Channels!Joined(Shown(h), d, b)
        BY <3>11
      <4> QED BY <1>12, <1>15, <4>1, Zenon DEF After
    <3>13. HeapBecomes(destroy([g EXCEPT !.task[t] = NoTask], p))
      BY <2>8, <3>5
    <3>14. \A u \in Task : g.task[u].pr = h.task[u].pr
      BY <2>1, <3>6, <3>7
    <3> QED BY <1>13, <2>6, <3>7, <3>9, <3>11, <3>12, <3>13, <3>14
  <2> QED BY <1>15, <2>7, <2>8, ZenonT(60)
<1>16. CASE CallsFunction(t)
  <2>1. PICK looked \in BOOLEAN :
           LET k == [h EXCEPT !.reported = ~looked /\ task[t].state = "exception"] IN
           \/ \E v \in {"result", "exception"} :
                 HeapBecomes(destroy([set(k, p, v) EXCEPT !.task[t] = NoTask], p))
           \/ \E f \in Future :
                 /\ Usable(f)
                 /\ available(state(h, f)) \/ Apart(h, f, p)
                 /\ HeapBecomes(destroy([destroyFuture(forward_to(k, f, p), f) EXCEPT
                                            !.task[t] = NoTask], p))
    BY <1>16, <1>1, Zenon
  <2> QED BY <1>15, <1>16, <2>1
<1> QED BY <1>14, <1>16

-----------------------------------------------------------------------------
\* There are no channels at the start.
LEMMA InitChans == Init => Channels!Init /\ Tight(Now, None)
<1> SUFFICES ASSUME Init PROVE Channels!Init /\ Tight(Now, None)
  OBVIOUS
<1>1. PICK a : a = Heap
  OBVIOUS
<1>2. /\ a.promise = [p \in Promise |-> DeadPromise] /\ a.future = [f \in Future |-> DeadFuture]
      /\ a.task = [t \in Task |-> NoTask] /\ a.queue = << >> /\ reported = FALSE
  BY <1>1 DEF Init, Heap
<1>3. Tight(Now, None)
  BY DEF Init, Now, Tight, TightTasks, TightFutures, DeadFuture, NoTask
<1>4. Chans(a) = Shown(a)
  <2>1. IInv
    BY InitLinks
  <2> QED BY <1>1, <1>3, <2>1, HeapChans
<1>5. \A i \in Addresses : End(a, i) = NoChannel
  <2>1. \A p \in Promise : PromiseEnd(a, p) = NoChannel
    BY <1>2 DEF PromiseEnd, Written, DeadPromise, NullPromise
  <2>2. \A f \in Future : FutureEnd(a, f) = NoChannel
    BY <1>2 DEF FutureEnd, StillHolds, DeadFuture, available
  <2>3. \A t \in Task : TaskEnd(a, t) = NoChannel
    BY <1>2 DEF TaskEnd, InQueue
  <2> QED BY <2>1, <2>2, <2>3, Kinds
<1>6. Shown(a) = {}
  BY <1>5 DEF Shown
<1>7. Outputs(a) = [t \in Task |-> None] /\ Handles(a) = {}
  BY <1>2 DEF Outputs, Handles, NoTask
<1> QED BY <1>1, <1>2, <1>3, <1>4, <1>6, <1>7 DEF Channels!Init

\* Every step is a step of the channels, or changes none of them.
LEMMA NextChans ==
    ASSUME IInv, IInv', Tight(Now, None), [Next]_vars
    PROVE  [Channels!Next]_Channels!chanVars /\ Tight(Now, None)'
<1>1. CASE User
  BY <1>1, ConstructChans, DestroyPromiseChans, DestroyFutureChans, GetFutureChans, ForwardToChans,
     SetActionChans, MovePromiseChans, MoveFutureChans, ThenChans DEF User
<1>2. CASE Run
  BY <1>2, RunChans
<1>3. CASE UNCHANGED vars
  <2>1. Heap' = Heap /\ Now' = Now /\ reported' = reported
    BY <1>3 DEF vars, Heap, Now
  <2>2. UNCHANGED Channels!chanVars
    BY <2>1, SMTT(40) DEF Channels!chanVars, Chans, Outputs, Handles, Written, Reader
  <2>3. Tight(Now, None)'
    BY <2>1 DEF Tight, TightTasks, TightFutures, Written
  <2> QED BY <2>2, <2>3
<1> QED BY <1>1, <1>2, <1>3 DEF Next

\* Promises and futures implement channels: whatever the program moves,
\* attaches, forwards and destroys, an outcome goes to the one reader of its
\* channel, and a failure that nothing can read any more is reported.
THEOREM FuturesAreChannels == Spec => ImplementsChannels
<1>1. Init => IInv /\ Channels!Init /\ Tight(Now, None)
  BY InitLinks, InitChans
<1>2. IInv /\ Tight(Now, None) /\ [Next]_vars =>
         IInv' /\ [Channels!Next]_Channels!chanVars /\ Tight(Now, None)'
  BY NextLinks, NextChans
<1> QED BY <1>1, <1>2, PTL DEF Spec, ImplementsChannels, Channels!Spec
=============================================================================
