-------------------------------- MODULE Joins -------------------------------
(***************************************************************************)
(* parallel_for_each, when_all of a tuple and of a vector, and the two     *)
(* forms of map_reduce (src/include/future/future_all11.hh): functions are *)
(* started one after the other, their futures resolve in any order, and    *)
(* the future of the whole resolves when the last of them is done with.    *)
(***************************************************************************)
EXTENDS Integers, Sequences, FiniteSets

CONSTANT Parts    \* number of functions or futures that are joined

VARIABLES kind,     \* which join, once it was called
          next,     \* the part to start next; Parts + 2 when the call is over
          part,     \* the future of each part
          stage,    \* how far the continuations on each part are
          waiting,  \* parallel_for_each_state::waiting, or the owners of the
                    \* when_all_state
          ex,       \* the part whose exception parallel_for_each keeps, or 0
          ret,      \* map_reduce: the outcome of ret after each part
          reduced,  \* map_reduce: the parts in the order of their reduction
          answers   \* what the promise of the whole was set to, in order

joinVars == <<kind, next, part, stage, waiting, ex, ret, reduced, answers>>

Part == 1 .. Parts
Kind == {"for_each", "tuple", "vector", "reducer", "reduce"}
Value == 0      \* an outcome is Value, or the part whose exception it is
Pending == -1

Init == /\ kind = "none"
        /\ next = 0
        /\ part = [i \in Part |-> "none"]
        /\ stage = [i \in Part |-> "none"]
        /\ waiting = 0
        /\ ex = 0
        /\ ret = [i \in 0 .. Parts |-> IF i = 0 THEN Value ELSE Pending]
        /\ reduced = << >>
        /\ answers = << >>

Answer(outcome) == answers' = Append(answers, outcome)
Becomes(i, s) == stage' = [stage EXCEPT ![i] = s]

\* parallel_for_each_state::complete, and an owner of the when_all_state
\* that leaves: w is the count before, e the outcome.
Complete(w, e) == /\ waiting' = w - 1
                  /\ IF w = 1 THEN Answer(e) ELSE UNCHANGED answers

\* Fault: nothing holds the state while the functions are started.
Call_NoReference(k) ==
    /\ kind = "none"
    /\ kind' = k
    /\ next' = 1
    /\ UNCHANGED <<part, stage, waiting, ex, ret, reduced, answers>>

\* The join is called; its own reference on the state keeps it from
\* answering before every function was started.
Call(k) ==
    /\ kind = "none"
    /\ kind' = k
    /\ next' = 1
    /\ waiting' = IF k \in {"for_each", "tuple"} THEN 1 ELSE 0
    /\ UNCHANGED <<part, stage, ex, ret, reduced, answers>>

\* A function is called, or a future of when_all looked at, with the future
\* it returns: what a mapper throws is a failed future as well.
Launch(outcome) ==
    /\ next \in Part
    /\ next' = next + 1
    /\ part' = [part EXCEPT ![next] = outcome]
    /\ IF \/ kind \in {"for_each", "reducer", "reduce"}
          \/ kind = "tuple" /\ outcome = "pending"
       THEN Becomes(next, "attached") ELSE UNCHANGED stage
    /\ IF kind = "for_each" \/ (kind = "tuple" /\ outcome = "pending")
       THEN waiting' = waiting + 1 ELSE UNCHANGED waiting
    /\ UNCHANGED <<kind, ex, ret, reduced, answers>>

\* A function of parallel_for_each throws.
LaunchThrows ==
    /\ kind = "for_each"
    /\ next \in Part
    /\ next' = next + 1
    /\ part' = [part EXCEPT ![next] = "failed"]
    /\ Becomes(next, "done")
    /\ ex' = IF ex = 0 THEN next ELSE ex
    /\ Complete(waiting + 1, ex')
    /\ UNCHANGED <<kind, ret, reduced>>

Available(i) == part[i] \in {"value", "failed", "threw"}

\* The parts whose function failed, or, for map_reduce, whose reduction did.
Failed == {i \in Part : part[i] \in {"failed", "threw"}}

\* complete_when_all: waits for the first future from part i on that is not
\* available, or answers.
AwaitFrom(i, stages) ==
    LET left == {j \in i .. Parts : ~Available(j)} IN
    IF left = {}
    THEN stage' = stages /\ Answer(Value)
    ELSE /\ stage' = [stages EXCEPT ![CHOOSE j \in left : \A k \in left : j <= k] = "attached"]
         /\ UNCHANGED answers

\* Fault: the reference of the call is kept.
Return_KeepsReference ==
    /\ next = Parts + 1
    /\ next' = Parts + 2
    /\ CASE kind \in {"for_each", "tuple"} -> UNCHANGED <<waiting, answers, stage>>
         [] kind = "vector" -> AwaitFrom(1, stage) /\ UNCHANGED waiting
         [] OTHER -> UNCHANGED <<stage, waiting, answers>>
    /\ UNCHANGED <<kind, part, ex, ret, reduced>>

\* The call returns.
Return ==
    /\ next = Parts + 1
    /\ next' = Parts + 2
    /\ CASE kind \in {"for_each", "tuple"} -> Complete(waiting, ex) /\ UNCHANGED stage
         [] kind = "vector" -> AwaitFrom(1, stage) /\ UNCHANGED waiting
         [] OTHER -> UNCHANGED <<stage, waiting, answers>>
    /\ UNCHANGED <<kind, part, ex, ret, reduced>>

\* The promise of a part is resolved, by a function started later as well.
Resolve(i) ==
    /\ next = Parts + 2 \/ kind \notin {"tuple", "vector"}
    /\ part[i] = "pending"
    /\ \E outcome \in {"value", "failed"} : part' = [part EXCEPT ![i] = outcome]
    /\ UNCHANGED <<kind, next, stage, waiting, ex, ret, reduced, answers>>

Runs(i, k) == kind = k /\ next = Parts + 2 /\ stage[i] = "attached" /\ Available(i)

\* The continuation of parallel_for_each on a part.
ForEachContinues(i) ==
    /\ Runs(i, "for_each")
    /\ Becomes(i, "done")
    /\ ex' = IF part[i] = "failed" /\ ex = 0 THEN i ELSE ex
    /\ Complete(waiting, ex')
    /\ UNCHANGED <<kind, next, part, ret, reduced>>

\* The continuation of when_all on a part, an owner of the when_all_state.
TupleContinues(i) ==
    /\ Runs(i, "tuple")
    /\ Becomes(i, "done")
    /\ Complete(waiting, Value)
    /\ UNCHANGED <<kind, next, part, ex, ret, reduced>>

\* The continuation of complete_when_all.
VectorContinues(i) ==
    /\ Runs(i, "vector")
    /\ AwaitFrom(i + 1, [stage EXCEPT ![i] = "done"])
    /\ UNCHANGED <<kind, next, part, waiting, ex, ret, reduced>>

\* map_reduce with a Reducer: the continuation on the mapper's future waits
\* for the reductions before it.
ReducerContinues(i) ==
    /\ Runs(i, "reducer")
    /\ Becomes(i, "mapped")
    /\ UNCHANGED <<kind, next, part, waiting, ex, ret, reduced, answers>>

\* Fault: it does not wait for the reductions before it.
ReducerReduces_AtOnce(i) ==
    /\ kind = "reducer" /\ stage[i] = "mapped"
    /\ IF ret[i - 1] \notin {Value, Pending} \/ i \in Failed
       THEN /\ Becomes(i, "done")
            /\ ret' = [ret EXCEPT ![i] = IF ret[i - 1] \notin {Value, Pending} THEN ret[i - 1] ELSE i]
            /\ UNCHANGED reduced
       ELSE /\ Becomes(i, "reducing")
            /\ reduced' = Append(reduced, i)
            /\ UNCHANGED ret
    /\ UNCHANGED <<kind, next, part, waiting, ex, answers>>

\* It calls the Reducer, unless something failed before it.
ReducerReduces(i) ==
    /\ kind = "reducer" /\ stage[i] = "mapped" /\ ret[i - 1] # Pending
    /\ IF ret[i - 1] # Value \/ i \in Failed
       THEN /\ Becomes(i, "done")
            /\ ret' = [ret EXCEPT ![i] = IF ret[i - 1] # Value THEN ret[i - 1] ELSE i]
            /\ UNCHANGED reduced
       ELSE /\ Becomes(i, "reducing")
            /\ reduced' = Append(reduced, i)
            /\ UNCHANGED ret
    /\ UNCHANGED <<kind, next, part, waiting, ex, answers>>

\* The Reducer returns or throws, or the future it returned resolves.
ReductionEnds(i) ==
    /\ kind = "reducer" /\ stage[i] = "reducing"
    /\ Becomes(i, "done")
    /\ \E outcome \in {"value", "threw"} :
          /\ part' = [part EXCEPT ![i] = outcome]
          /\ ret' = [ret EXCEPT ![i] = IF outcome = "threw" THEN i ELSE Value]
    /\ UNCHANGED <<kind, next, waiting, ex, reduced, answers>>

\* map_reduce with an initial value: reduces in the order in which mappers
\* end, and a reduction that throws fails its part.
ReduceContinues(i) ==
    /\ Runs(i, "reduce")
    /\ Becomes(i, "mapped")
    /\ IF part[i] = "value"
       THEN /\ reduced' = Append(reduced, i)
            /\ \E outcome \in {"value", "threw"} : part' = [part EXCEPT ![i] = outcome]
       ELSE UNCHANGED <<part, reduced>>
    /\ UNCHANGED <<kind, next, waiting, ex, ret, answers>>

\* Fault: an exception does not wait for the parts before it.
ReduceForwards_AtOnce(i) ==
    /\ kind = "reduce" /\ stage[i] = "mapped"
    /\ ret[i - 1] # Pending \/ i \in Failed
    /\ Becomes(i, "done")
    /\ ret' = [ret EXCEPT ![i] = IF i \in Failed THEN i ELSE ret[i - 1]]
    /\ UNCHANGED <<kind, next, part, waiting, ex, reduced, answers>>

\* The future before it resolves: its outcome is passed on, or ignored for
\* the exception of this part.
ReduceForwards(i) ==
    /\ kind = "reduce" /\ stage[i] = "mapped" /\ ret[i - 1] # Pending
    /\ Becomes(i, "done")
    /\ ret' = [ret EXCEPT ![i] = IF i \in Failed THEN i ELSE ret[i - 1]]
    /\ UNCHANGED <<kind, next, part, waiting, ex, reduced, answers>>

\* The last continuation of map_reduce, which has the result.
MapReduceAnswers ==
    /\ kind \in {"reducer", "reduce"} /\ next = Parts + 2
    /\ ret[Parts] # Pending /\ answers = << >>
    /\ Answer(ret[Parts])
    /\ UNCHANGED <<kind, next, part, stage, waiting, ex, ret, reduced>>

-----------------------------------------------------------------------------
TypeOK == /\ kind \in Kind \cup {"none"}
          /\ next \in 0 .. Parts + 2
          /\ part \in [Part -> {"none", "pending", "value", "failed", "threw"}]
          /\ stage \in [Part -> {"none", "attached", "mapped", "reducing", "done"}]
          /\ waiting \in Nat
          /\ ex \in 0 .. Parts
          /\ ret \in [0 .. Parts -> Pending .. Parts]
          /\ reduced \in Seq(Part)
          /\ answers \in Seq(0 .. Parts)

Over == \A i \in Part : Available(i) /\ stage[i] \in {"none", "done"}

\* A join answers once, not before every part has ended and nothing of it
\* will run any more (the state the continuations use is gone then), and as
\* soon as this is so.  It fails exactly if a part failed, or its reduction
\* did, with the exception of such a part: of the first one (a Reducer), or
\* of the last one (an initial value).  when_all hands the failed futures on.
JoinAnswersOnce ==
    /\ Len(answers) <= 1
    /\ answers # << >> => next = Parts + 2 /\ Over
    /\ next = Parts + 2 /\ Over => answers # << >> \/ kind \in {"reducer", "reduce"}
    /\ answers # << >> =>
          IF kind \in {"tuple", "vector"} \/ Failed = {} THEN answers[1] = Value
          ELSE /\ answers[1] \in Failed
               /\ kind = "reducer" => \A i \in Failed : answers[1] <= i
               /\ kind = "reduce" => \A i \in Failed : i <= answers[1]

HasValue(i) == part[i] \in {"value", "threw"}    \* its function did not fail
Reduced == {reduced[j] : j \in DOMAIN reduced}

\* Only values are reduced, and none twice.  A Reducer sees them in the order
\* of the range, although the mappers end in any order, one at a time, and
\* none after a failure.  When the join answers, every value was reduced, or,
\* with a Reducer, every value before the first failure.
ReducedOnce ==
    /\ \A j, k \in DOMAIN reduced : reduced[j] = reduced[k] => j = k
    /\ \A i \in Reduced : HasValue(i)
    /\ kind = "reducer" =>
          /\ \A j \in DOMAIN reduced : reduced[j] = j
          /\ \A i \in Part : stage[i] = "reducing" => i = Len(reduced)
          /\ \A i \in Reduced, k \in Failed : i <= k
    /\ answers # << >> =>
          \A i \in Part : \/ i \in Reduced \/ ~HasValue(i)
                          \/ kind = "reducer" /\ \E k \in Failed : k < i
                          \/ kind \notin {"reducer", "reduce"}
====
