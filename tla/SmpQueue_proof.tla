--------------------------- MODULE SmpQueue_proof ---------------------------
(***************************************************************************)
(* Cross-core calls, for every number of cores, every program of calls and *)
(* every size of rings and batches.  First the books kept on the requests: *)
(* each is in one place, each core has a rest of its program to submit,    *)
(* batches and rings are in the order of submission, and the length of a   *)
(* queue counts what is in flight; each operation on queues and tasks      *)
(* keeps the books.  Then what follows for the steps of the cores, and     *)
(* that the calls implement RemoteCalls.  At the end: sleep and wake-up.   *)
(***************************************************************************)
EXTENDS SmpQueue, FiniteSetTheorems, FunctionTheorems, SequenceTheorems, TLAPS

-----------------------------------------------------------------------------
(* Sequences without repetitions.                                          *)

\* No item of s occurs twice.
Distinct(s) == \A i, j \in DOMAIN s : s[i] = s[j] => i = j

\* A sequence without repetitions has as many items as its range.
LEMMA DistinctCard ==
    ASSUME NEW X, NEW s \in Seq(X), Distinct(s)
    PROVE  IsFiniteSet(Range(s)) /\ Cardinality(Range(s)) = Len(s)
<1>1. s \in [1 .. Len(s) -> Range(s)] /\ Len(s) \in Nat
  BY DEF Range
<1>2. s \in Bijection(1 .. Len(s), Range(s))
  BY <1>1 DEF Bijection, Injection, Surjection, IsInjective, Range, Distinct
<1>3. ExistsBijection(1 .. Len(s), Range(s))
  BY <1>2 DEF ExistsBijection
<1>4. IsFiniteSet(1 .. Len(s)) /\ Cardinality(1 .. Len(s)) = Len(s)
  <2>1. 1 \in Int /\ Len(s) \in Int /\ Len(s) >= 0
    BY <1>1
  <2>2. IsFiniteSet(1 .. Len(s)) /\ Cardinality(1 .. Len(s)) = IF 1 > Len(s) THEN 0 ELSE Len(s) - 1 + 1
    BY <2>1, FS_Interval, Zenon
  <2> QED BY <2>1, <2>2
<1> QED BY <1>3, <1>4, FS_Bijection

\* Taking the first n items off a sequence.
LEMMA SplitSeq ==
    ASSUME NEW X, NEW s \in Seq(X), NEW n \in 0 .. Len(s)
    PROVE  /\ SubSeq(s, 1, n) \in Seq(X)
           /\ Len(SubSeq(s, 1, n)) = n
           /\ \A i \in 1 .. n : SubSeq(s, 1, n)[i] = s[i]
           /\ SubSeq(s, n + 1, Len(s)) \in Seq(X)
           /\ Len(SubSeq(s, n + 1, Len(s))) = Len(s) - n
           /\ \A i \in 1 .. Len(s) - n : SubSeq(s, n + 1, Len(s))[i] = s[i + n]
OBVIOUS

\* The two parts have the items between them, and those of a sequence
\* without repetitions share none.
LEMMA SplitRange ==
    ASSUME NEW X, NEW s \in Seq(X), NEW n \in 0 .. Len(s)
    PROVE  /\ Range(s) = Range(SubSeq(s, 1, n)) \cup Range(SubSeq(s, n + 1, Len(s)))
           /\ Distinct(s) => /\ Distinct(SubSeq(s, 1, n))
                             /\ Distinct(SubSeq(s, n + 1, Len(s)))
                             /\ Range(SubSeq(s, 1, n)) \cap Range(SubSeq(s, n + 1, Len(s))) = {}
<1> DEFINE a == SubSeq(s, 1, n)
           b == SubSeq(s, n + 1, Len(s))
<1>1. /\ a \in Seq(X) /\ Len(a) = n /\ \A i \in 1 .. n : a[i] = s[i]
      /\ b \in Seq(X) /\ Len(b) = Len(s) - n /\ \A i \in 1 .. Len(s) - n : b[i] = s[i + n]
  BY SplitSeq
<1> HIDE DEF a, b
<1>2. Range(s) = Range(a) \cup Range(b)
  <2>1. ASSUME NEW i \in DOMAIN s PROVE s[i] \in Range(a) \cup Range(b)
    <3>1. CASE i <= n
      <4>1. i \in DOMAIN a /\ a[i] = s[i]
        BY <1>1, <3>1
      <4> QED BY <4>1 DEF Range
    <3>2. CASE i > n
      <4>1. PICK j \in 1 .. Len(s) - n : j + n = i
        BY <3>2
      <4>2. j \in DOMAIN b /\ b[j] = s[i]
        BY <1>1, <4>1
      <4> QED BY <4>2 DEF Range
    <3> QED BY <3>1, <3>2
  <2>2. \A i \in DOMAIN a : i \in DOMAIN s /\ a[i] = s[i]
    BY <1>1
  <2>3. \A i \in DOMAIN b : i + n \in DOMAIN s /\ b[i] = s[i + n]
    BY <1>1, SMTT(40)
  <2> QED BY <2>1, <2>2, <2>3 DEF Range
<1>3. ASSUME Distinct(s)
      PROVE  Distinct(a) /\ Distinct(b) /\ Range(a) \cap Range(b) = {}
  <2>1. Distinct(a)
    BY <1>1, <1>3 DEF Distinct
  <2>2. Distinct(b)
    <3>1. \A i \in DOMAIN b : i + n \in DOMAIN s /\ b[i] = s[i + n] /\ i \in Int
      BY <1>1, SMTT(40)
    <3>2. \A i, j \in DOMAIN b : b[i] = b[j] => i + n = j + n
      BY <1>3, <3>1 DEF Distinct
    <3> QED BY <3>1, <3>2 DEF Distinct
  <2>3. \A i \in DOMAIN a, j \in DOMAIN b : a[i] # b[j]
    <3>1. \A i \in DOMAIN a, j \in DOMAIN b :
              i \in DOMAIN s /\ a[i] = s[i] /\ j + n \in DOMAIN s /\ b[j] = s[j + n] /\ i # j + n
      BY <1>1
    <3> QED BY <1>3, <3>1 DEF Distinct
  <2> QED BY <2>1, <2>2, <2>3 DEF Range
<1> QED BY <1>2, <1>3 DEF a, b

\* Adding items at the back.
LEMMA JoinRange ==
    ASSUME NEW X, NEW s \in Seq(X), NEW t \in Seq(X)
    PROVE  /\ Range(s \o t) = Range(s) \cup Range(t)
           /\ Distinct(s) /\ Distinct(t) /\ Range(s) \cap Range(t) = {} => Distinct(s \o t)
<1> DEFINE u == s \o t
<1>1. /\ u \in Seq(X) /\ Len(u) = Len(s) + Len(t)
      /\ \A i \in DOMAIN s : i \in DOMAIN u /\ u[i] = s[i]
      /\ \A i \in DOMAIN t : i + Len(s) \in DOMAIN u /\ u[i + Len(s)] = t[i]
      /\ \A i \in DOMAIN u : \/ i \in DOMAIN s /\ u[i] = s[i]
                             \/ i - Len(s) \in DOMAIN t /\ u[i] = t[i - Len(s)]
  OBVIOUS
<1> HIDE DEF u
<1>2. Range(u) = Range(s) \cup Range(t)
  <2>1. ASSUME NEW x \in Range(u) PROVE x \in Range(s) \cup Range(t)
    BY <1>1, <2>1 DEF Range
  <2>2. ASSUME NEW x \in Range(s) \cup Range(t) PROVE x \in Range(u)
    BY <1>1, <2>2 DEF Range
  <2> QED BY <2>1, <2>2
<1>3. ASSUME Distinct(s), Distinct(t), Range(s) \cap Range(t) = {} PROVE Distinct(u)
  <2> SUFFICES ASSUME NEW i \in DOMAIN u, NEW j \in DOMAIN u, u[i] = u[j] PROVE i = j
    BY DEF Distinct
  <2>1. \A k \in DOMAIN s, l \in DOMAIN t : s[k] # t[l]
    BY <1>3 DEF Range
  <2>2. i \in Int /\ j \in Int /\ Len(s) \in Int
    BY <1>1
  <2>3. CASE i \in DOMAIN s /\ u[i] = s[i] /\ j \in DOMAIN s /\ u[j] = s[j]
    BY <1>3, <2>3 DEF Distinct
  <2>4. CASE /\ i - Len(s) \in DOMAIN t /\ u[i] = t[i - Len(s)]
             /\ j - Len(s) \in DOMAIN t /\ u[j] = t[j - Len(s)]
    <3>1. i - Len(s) = j - Len(s)
      BY <1>3, <2>4 DEF Distinct
    <3> QED BY <2>2, <3>1
  <2> QED BY <1>1, <2>1, <2>3, <2>4
<1> QED BY <1>2, <1>3 DEF u

\* One item at the back.
LEMMA AppendRange ==
    ASSUME NEW X, NEW s \in Seq(X), NEW x \in X
    PROVE  /\ Append(s, x) \in Seq(X)
           /\ Range(Append(s, x)) = Range(s) \cup {x}
           /\ Distinct(s) /\ x \notin Range(s) => Distinct(Append(s, x))
<1>1. Append(s, x) = s \o <<x>> /\ <<x>> \in Seq(X)
  OBVIOUS
<1>2. Range(<<x>>) = {x} /\ Distinct(<<x>>)
  BY DEF Range, Distinct
<1> DEFINE one == <<x>>
<1>3. Append(s, x) \in Seq(X) OBVIOUS
<1> HIDE DEF one
<1>4. /\ Range(s \o one) = Range(s) \cup Range(one)
      /\ Distinct(s) /\ Distinct(one) /\ Range(s) \cap Range(one) = {} => Distinct(s \o one)
  BY <1>1, JoinRange DEF one
<1> QED BY <1>1, <1>2, <1>3, <1>4 DEF one

\* The first item taken off.
LEMMA TailRange ==
    ASSUME NEW X, NEW s \in Seq(X), s # << >>
    PROVE  /\ Head(s) \in Range(s) /\ Head(s) = s[1] /\ Tail(s) \in Seq(X)
           /\ Range(s) = {Head(s)} \cup Range(Tail(s))
           /\ Distinct(s) => Distinct(Tail(s)) /\ Head(s) \notin Range(Tail(s))
<1>1. 1 \in 0 .. Len(s) /\ Tail(s) = SubSeq(s, 1 + 1, Len(s)) /\ Head(s) = s[1]
      /\ 1 \in DOMAIN s /\ Tail(s) \in Seq(X)
  OBVIOUS
<1>2. SubSeq(s, 1, 1) \in Seq(X) /\ Len(SubSeq(s, 1, 1)) = 1 /\ SubSeq(s, 1, 1)[1] = s[1]
  BY <1>1, SplitSeq
<1>3. Range(SubSeq(s, 1, 1)) = {Head(s)}
  BY <1>1, <1>2 DEF Range
<1>4. Head(s) \in Range(s)
  BY <1>1 DEF Range
<1>5. /\ Range(s) = Range(SubSeq(s, 1, 1)) \cup Range(Tail(s))
      /\ Distinct(s) => /\ Distinct(Tail(s))
                        /\ Range(SubSeq(s, 1, 1)) \cap Range(Tail(s)) = {}
  <2>1. PICK n \in 0 .. Len(s) : n = 1
    BY <1>1
  <2>2. Tail(s) = SubSeq(s, n + 1, Len(s))
    BY <1>1, <2>1
  <2>3. /\ Range(s) = Range(SubSeq(s, 1, n)) \cup Range(SubSeq(s, n + 1, Len(s)))
        /\ Distinct(s) => /\ Distinct(SubSeq(s, n + 1, Len(s)))
                          /\ Range(SubSeq(s, 1, n)) \cap Range(SubSeq(s, n + 1, Len(s))) = {}
    BY SplitRange
  <2>4. SubSeq(s, 1, n) = SubSeq(s, 1, 1)
    BY <2>1
  <2> QED BY <2>2, <2>3, <2>4, Zenon
<1> QED BY <1>1, <1>3, <1>4, <1>5

\* The two parts make up the sequence again.
LEMMA SplitJoin ==
    ASSUME NEW X, NEW s \in Seq(X), NEW n \in 0 .. Len(s)
    PROVE  SubSeq(s, 1, n) \o SubSeq(s, n + 1, Len(s)) = s
<1> DEFINE a == SubSeq(s, 1, n)
           b == SubSeq(s, n + 1, Len(s))
<1>1. /\ a \in Seq(X) /\ Len(a) = n /\ \A i \in 1 .. n : a[i] = s[i]
      /\ b \in Seq(X) /\ Len(b) = Len(s) - n /\ \A i \in 1 .. Len(s) - n : b[i] = s[i + n]
  BY SplitSeq
<1> HIDE DEF a, b
<1>2. /\ a \o b \in Seq(X) /\ Len(a \o b) = Len(s)
      /\ \A i \in 1 .. Len(s) : (a \o b)[i] = IF i <= n THEN a[i] ELSE b[i - n]
  BY <1>1, SMTT(40)
<1>3. ASSUME NEW i \in 1 .. Len(s) PROVE (a \o b)[i] = s[i]
  <2>1. CASE i <= n
    BY <1>1, <1>2, <2>1
  <2>2. CASE i > n
    <3>1. PICK j \in 1 .. Len(s) - n : j + n = i /\ i - n = j
      BY <2>2
    <3>2. (a \o b)[i] = b[j]
      BY <1>2, <2>2, <3>1
    <3> QED BY <1>1, <3>1, <3>2
  <2>3. i <= n \/ i > n
    OBVIOUS
  <2> QED BY <2>1, <2>2, <2>3
<1>4. a \o b = s
  BY <1>2, <1>3, SeqEqual
<1> QED BY <1>4 DEF a, b

-----------------------------------------------------------------------------
(* Requests, their queues and their order.                                 *)

\* The place of a request in the program of its core.
Rank == [r \in Request |-> CHOOSE i \in DOMAIN Program[From(Route[r])] :
                                Program[From(Route[r])][i] = r]

\* A request is submitted by one core, at one place of its program.
LEMMA SubmittedOnce ==
    ASSUME NEW c \in Core, NEW i \in DOMAIN Program[c]
    PROVE  /\ Program[c][i] \in Request
           /\ Route[Program[c][i]] = <<Target[Program[c][i]], c>>
           /\ <<Target[Program[c][i]], c>> \in Queue
           /\ Rank[Program[c][i]] = i
<1> DEFINE r == Program[c][i]
           q == <<Target[r], c>>
<1>1. r \in Request
  BY DEF Request
<1>2. q \in Queue /\ To(q) = Target[r] /\ From(q) = c
  BY ProgramAssumption DEF Queue, To, From
<1>3. r \in Range(Program[From(q)])
  BY <1>2 DEF Range
<1>4. ASSUME NEW p \in Queue, To(p) = Target[r], r \in Range(Program[From(p)]) PROVE p = q
  <2>1. p[1] \in Core /\ p[2] \in Core /\ p = <<p[1], p[2]>>
    BY DEF Queue
  <2>2. PICK j \in DOMAIN Program[p[2]] : Program[p[2]][j] = r
    BY <1>4 DEF Range, From
  <2>3. p[2] = c
    BY <2>1, <2>2, ProgramAssumption
  <2> QED BY <1>4, <2>1, <2>3 DEF To
<1>5. Route[r] = q
  <2> HIDE DEF q
  <2>1. Route[r] = CHOOSE p \in Queue : To(p) = Target[r] /\ r \in Range(Program[From(p)])
    BY <1>1 DEF Route
  <2> QED BY <1>2, <1>3, <1>4, <2>1
<1>6. \A j \in DOMAIN Program[c] : Program[c][j] = r => j = i
  BY ProgramAssumption
<1>7. Rank[r] = i
  <2>1. Rank[r] = CHOOSE j \in DOMAIN Program[c] : Program[c][j] = r
    BY <1>1, <1>2, <1>5 DEF Rank
  <2> HIDE DEF r
  <2>2. Program[c][i] = r
    BY DEF r
  <2> QED BY <1>6, <2>1, <2>2
<1> QED BY <1>1, <1>2, <1>5, <1>7

\* And every request is one of those.
LEMMA RequestFacts ==
    ASSUME NEW r \in Request
    PROVE  /\ Route[r] \in Queue
           /\ To(Route[r]) = Target[r] /\ To(Route[r]) \in Core /\ From(Route[r]) \in Core
           /\ Rank[r] \in DOMAIN Program[From(Route[r])] /\ Rank[r] \in Nat
           /\ Program[From(Route[r])][Rank[r]] = r
<1>1. PICK c \in Core : r \in {Program[c][i] : i \in DOMAIN Program[c]}
  BY DEF Request
<1>2. PICK i \in DOMAIN Program[c] : r = Program[c][i]
  BY <1>1
<1>3. Route[r] = <<Target[r], c>> /\ Route[r] \in Queue /\ Rank[r] = i
  BY <1>2, SubmittedOnce
<1>4. i \in Nat
  BY ProgramAssumption
<1> QED BY <1>2, <1>3, <1>4 DEF To, From, Queue

-----------------------------------------------------------------------------
(* The books: where the requests are, as a record of the variables.        *)

\* queue_length and every place where a request can be.
Books == [todo |-> todo, fifo |-> pending_fifo, ring |-> pending, deferred |-> deferred,
          tasks |-> tasks, answers |-> completed_fifo, back |-> completed, done |-> done,
          length |-> queue_length]

\* The types of the books.
Typed(b) ==
    /\ b.todo \in [Core -> Seq(Request)]
    /\ b.fifo \in [Queue -> Seq(Request)] /\ b.ring \in [Queue -> Seq(Request)]
    /\ b.deferred \subseteq Request /\ b.done \subseteq Request
    /\ b.tasks \in [Core -> Seq(Request)]
    /\ b.answers \in [Queue -> Seq(Request)] /\ b.back \in [Queue -> Seq(Request)]
    /\ b.length \in [Queue -> Int]

\* What a core has still to submit is the rest of its program.
Rest(c, s, gone) ==
    /\ Len(Program[c]) = gone + Len(s)
    /\ \A i \in DOMAIN s : s[i] = Program[c][gone + i]

\* So for every core.
RestOfProgram(b) ==
    \A c \in Core : \E gone \in Nat : Rest(c, b.todo[c], gone)

\* Requests are on their own queues and cores.
Routed(b) ==
    /\ \A q \in Queue : /\ \A r \in Range(b.fifo[q]) : Route[r] = q
                        /\ \A r \in Range(b.ring[q]) : Route[r] = q
                        /\ \A r \in Range(b.answers[q]) : Route[r] = q
                        /\ \A r \in Range(b.back[q]) : Route[r] = q
    /\ \A c \in Core : \A r \in Range(b.tasks[c]) : To(Route[r]) = c

\* Requests that have not been started are in the order of the program.
Ascending(s) == \A i, j \in DOMAIN s : i < j => Rank[s[i]] < Rank[s[j]]

\* In the ring of a queue and, behind it, in its _tx fifo.
Orderly(b) == \A q \in Queue : Ascending(b.ring[q] \o b.fifo[q])

\* No request is twice among tasks or answers.
NoneTwice(b) ==
    /\ \A q \in Queue : Distinct(b.answers[q]) /\ Distinct(b.back[q])
    /\ \A c \in Core : Distinct(b.tasks[c])

\* Every request is in one place.
Stage == {"todo", "fifo", "ring", "deferred", "task", "answer", "back", "done"}
\* The places that queue_length counts.
Flying == {"ring", "deferred", "task", "answer", "back"}

\* place[r] is where request r is, and r is nowhere else.
Placed(b, place) ==
    /\ place \in [Request -> Stage]
    /\ \A r \in Request :
          /\ place[r] = "todo" <=> r \in Range(b.todo[From(Route[r])])
          /\ place[r] = "fifo" <=> r \in Range(b.fifo[Route[r]])
          /\ place[r] = "ring" <=> r \in Range(b.ring[Route[r]])
          /\ place[r] = "deferred" <=> r \in b.deferred
          /\ place[r] = "task" <=> r \in Range(b.tasks[To(Route[r])])
          /\ place[r] = "answer" <=> r \in Range(b.answers[Route[r]])
          /\ place[r] = "back" <=> r \in Range(b.back[Route[r]])
          /\ place[r] = "done" <=> r \in b.done

\* The requests in flight on queue q, and their number.
InTheAir(place, q) == {r \in Request : Route[r] = q /\ place[r] \in Flying}

\* queue_length is the number of requests in flight.
Counted(b, place) ==
    \A q \in Queue : /\ IsFiniteSet(InTheAir(place, q))
                     /\ b.length[q] = Cardinality(InTheAir(place, q))

\* The books are right, with the requests at these places.
Account(b, place) ==
    /\ Typed(b) /\ RestOfProgram(b) /\ Routed(b) /\ Orderly(b) /\ NoneTwice(b)
    /\ Placed(b, place) /\ Counted(b, place)

\* There are such places.
Balanced(b) == \E place \in [Request -> Stage] : Account(b, place)

\* What an ascending sequence says about its two parts.
LEMMA AscendingParts ==
    ASSUME NEW s \in Seq(Request), NEW t \in Seq(Request), Ascending(s \o t)
    PROVE  /\ Ascending(s) /\ Ascending(t) /\ Distinct(s) /\ Distinct(t)
           /\ \A x \in Range(s), y \in Range(t) : Rank[x] < Rank[y]
<1> DEFINE u == s \o t
<1>1. /\ u \in Seq(Request)
      /\ \A i \in DOMAIN s : i \in DOMAIN u /\ u[i] = s[i] /\ i \in Nat /\ s[i] \in Request
      /\ \A i \in DOMAIN t : /\ i + Len(s) \in DOMAIN u /\ u[i + Len(s)] = t[i] /\ i \in Nat
                             /\ t[i] \in Request
      /\ \A i \in DOMAIN s, j \in DOMAIN t : i < j + Len(s)
      /\ Len(s) \in Nat
  OBVIOUS
<1>2. \A i, j \in DOMAIN u : i < j => Rank[u[i]] < Rank[u[j]]
  BY DEF Ascending
<1> HIDE DEF u
<1>3. \A x \in Request : Rank[x] \in Nat
  BY RequestFacts
<1>4. Ascending(s)
  BY <1>1, <1>2 DEF Ascending
<1>5. Ascending(t)
  <2> SUFFICES ASSUME NEW i \in DOMAIN t, NEW j \in DOMAIN t, i < j PROVE Rank[t[i]] < Rank[t[j]]
    BY DEF Ascending
  <2>1. i + Len(s) < j + Len(s)
    BY <1>1
  <2> QED BY <1>1, <1>2, <2>1
<1>6. Distinct(s)
  BY <1>1, <1>3, <1>4, SMTT(40) DEF Ascending, Distinct
<1>7. Distinct(t)
  <2>1. \A i \in DOMAIN t : i \in Nat /\ t[i] \in Request
    OBVIOUS
  <2> QED BY <1>3, <1>5, <2>1 DEF Ascending, Distinct
<1>8. \A i \in DOMAIN s, j \in DOMAIN t : Rank[s[i]] < Rank[t[j]]
  BY <1>1, <1>2
<1> QED BY <1>4, <1>5, <1>6, <1>7, <1>8 DEF Range

\* The requests of S go from one stage to another.
Shift(place, S, to) == [r \in Request |-> IF r \in S THEN to ELSE place[r]]

\* Requests that leave the batch for the ring are one by one in flight.
LEMMA TakeOff ==
    ASSUME NEW place \in [Request -> Stage], NEW q \in Queue, IsFiniteSet(InTheAir(place, q)),
           NEW s \in Seq(Request), Distinct(s),
           \A r \in Range(s) : Route[r] = q /\ place[r] \notin Flying,
           NEW to \in Flying, NEW after, after = Shift(place, Range(s), to)
    PROVE  /\ IsFiniteSet(InTheAir(after, q))
           /\ Cardinality(InTheAir(after, q)) = Cardinality(InTheAir(place, q)) + Len(s)
           /\ \A p \in Queue \ {q} : InTheAir(after, p) = InTheAir(place, p)
<1> DEFINE S == Range(s)
<1>1. S \subseteq Request
  BY DEF Range
<1>2. IsFiniteSet(S) /\ Cardinality(S) = Len(s)
  BY DistinctCard
<1>3. \A r \in Request : after[r] = IF r \in S THEN to ELSE place[r]
  BY DEF Shift
<1> HIDE DEF S
<1>4. \A r \in S : Route[r] = q /\ place[r] \notin Flying
  BY DEF S
<1>5. InTheAir(after, q) = InTheAir(place, q) \cup S
  BY <1>1, <1>3, <1>4 DEF InTheAir
<1>6. Cardinality(InTheAir(place, q) \cap S) = 0
  <2>1. InTheAir(place, q) \cap S = {}
    BY <1>4 DEF InTheAir
  <2> QED BY <2>1, FS_EmptySet
<1>7. \A p \in Queue \ {q} : InTheAir(after, p) = InTheAir(place, p)
  BY <1>3, <1>4 DEF InTheAir
<1>8. Cardinality(InTheAir(place, q)) \in Nat
  BY FS_CardinalityType
<1>9. /\ IsFiniteSet(InTheAir(place, q) \cup S)
      /\ Cardinality(InTheAir(place, q) \cup S) =
            Cardinality(InTheAir(place, q)) + Cardinality(S) - Cardinality(InTheAir(place, q) \cap S)
  BY <1>2, FS_Union
<1>10. Len(s) \in Nat OBVIOUS
<1> QED BY <1>2, <1>5, <1>6, <1>7, <1>8, <1>9, <1>10

\* Requests whose promise is resolved are in flight no more.
LEMMA Land ==
    ASSUME NEW place \in [Request -> Stage], NEW q \in Queue, IsFiniteSet(InTheAir(place, q)),
           NEW s \in Seq(Request), Distinct(s),
           \A r \in Range(s) : Route[r] = q /\ place[r] \in Flying,
           NEW to \in Stage \ Flying, NEW after, after = Shift(place, Range(s), to)
    PROVE  /\ IsFiniteSet(InTheAir(after, q))
           /\ Cardinality(InTheAir(after, q)) = Cardinality(InTheAir(place, q)) - Len(s)
           /\ \A p \in Queue \ {q} : InTheAir(after, p) = InTheAir(place, p)
<1> DEFINE S == Range(s)
<1>1. S \subseteq Request
  BY DEF Range
<1>2. IsFiniteSet(S) /\ Cardinality(S) = Len(s)
  BY DistinctCard
<1>3. \A r \in Request : after[r] = IF r \in S THEN to ELSE place[r]
  BY DEF Shift
<1> HIDE DEF S
<1>4. \A r \in S : Route[r] = q /\ place[r] \in Flying
  BY DEF S
<1>5. InTheAir(place, q) = InTheAir(after, q) \cup S /\ InTheAir(after, q) \cap S = {}
  BY <1>1, <1>3, <1>4 DEF InTheAir
<1>6. \A p \in Queue \ {q} : InTheAir(after, p) = InTheAir(place, p)
  BY <1>3, <1>4 DEF InTheAir
<1>7. IsFiniteSet(InTheAir(after, q)) /\ Cardinality(InTheAir(after, q)) \in Nat
  <2>1. InTheAir(after, q) \in SUBSET InTheAir(place, q)
    BY <1>5
  <2> QED BY <2>1, FS_Subset, FS_CardinalityType
<1>8. Cardinality(InTheAir(after, q) \cup S) =
            Cardinality(InTheAir(after, q)) + Cardinality(S) - Cardinality(InTheAir(after, q) \cap S)
  BY <1>2, <1>7, FS_Union
<1>9. Cardinality(InTheAir(after, q) \cap S) = 0
  BY <1>5, FS_EmptySet
<1>10. Len(s) \in Nat OBVIOUS
<1> QED BY <1>2, <1>5, <1>6, <1>7, <1>8, <1>9, <1>10

\* Requests that stay in flight, or stay out of it, change no number.
LEMMA StayCounted ==
    ASSUME NEW b, NEW place \in [Request -> Stage], Counted(b, place),
           NEW S \in SUBSET Request, NEW to \in Stage,
           \A r \in S : place[r] \in Flying <=> to \in Flying
    PROVE  Counted(b, Shift(place, S, to))
<1>1. \A p \in Queue : InTheAir(Shift(place, S, to), p) = InTheAir(place, p)
  BY DEF InTheAir, Shift
<1> QED BY <1>1 DEF Counted

\* The batch and the ring of requests of a queue have no item in common.
LEMMA BatchAndRing ==
    ASSUME NEW b, Typed(b), Orderly(b), NEW q \in Queue
    PROVE  /\ b.fifo[q] \in Seq(Request) /\ b.ring[q] \in Seq(Request)
           /\ Distinct(b.fifo[q]) /\ Distinct(b.ring[q])
           /\ \A x \in Range(b.ring[q]), y \in Range(b.fifo[q]) : Rank[x] < Rank[y]
<1>1. b.fifo[q] \in Seq(Request) /\ b.ring[q] \in Seq(Request) /\ Ascending(b.ring[q] \o b.fifo[q])
  BY DEF Typed, Orderly
<1> QED BY <1>1, AscendingParts

\* move_pending: the first n requests of the batch go to the ring.
Sent(b, d, q, n) ==
    /\ d.fifo = [b.fifo EXCEPT ![q] = SubSeq(@, n + 1, Len(@))]
    /\ d.ring = [b.ring EXCEPT ![q] = @ \o SubSeq(b.fifo[q], 1, n)]
    /\ d.length = [b.length EXCEPT ![q] = @ + n]
    /\ d.todo = b.todo /\ d.deferred = b.deferred /\ d.tasks = b.tasks
    /\ d.answers = b.answers /\ d.back = b.back /\ d.done = b.done

\* A flush of requests keeps the account: those sent are now in the ring.
LEMMA SendRequests ==
    ASSUME NEW b, NEW place, Account(b, place),
           NEW q \in Queue, NEW n \in 0 .. Len(b.fifo[q]), NEW d, Sent(b, d, q, n)
    PROVE  /\ \A r \in Range(SubSeq(b.fifo[q], 1, n)) : r \in Request /\ place[r] = "fifo"
           /\ Account(d, Shift(place, Range(SubSeq(b.fifo[q], 1, n)), "ring"))
<1> USE DEF Sent
<1> DEFINE s == SubSeq(b.fifo[q], 1, n)
           rest == SubSeq(b.fifo[q], n + 1, Len(b.fifo[q]))
           after == Shift(place, Range(s), "ring")
<1>1. /\ b.fifo[q] \in Seq(Request) /\ b.ring[q] \in Seq(Request)
      /\ Distinct(b.fifo[q])
  BY BatchAndRing DEF Account
<1>2. /\ s \in Seq(Request) /\ Len(s) = n /\ Distinct(s)
      /\ rest \in Seq(Request)
      /\ Range(b.fifo[q]) = Range(s) \cup Range(rest) /\ Range(s) \cap Range(rest) = {}
      /\ s \o rest = b.fifo[q]
  <2>1. s \in Seq(Request) /\ Len(s) = n /\ rest \in Seq(Request)
    BY <1>1, SplitSeq
  <2>2. /\ Range(b.fifo[q]) = Range(s) \cup Range(rest)
        /\ Distinct(s) /\ Range(s) \cap Range(rest) = {}
    BY <1>1, SplitRange
  <2>3. s \o rest = b.fifo[q]
    BY <1>1, SplitJoin, Zenon
  <2> QED BY <2>1, <2>2, <2>3
<1> HIDE DEF s, rest
<1>3. /\ b.ring[q] \o s \in Seq(Request)
      /\ Range(b.ring[q] \o s) = Range(b.ring[q]) \cup Range(s)
  BY <1>1, <1>2, JoinRange
<1>4. (b.ring[q] \o s) \o rest = b.ring[q] \o b.fifo[q]
  <2>1. PICK ring \in Seq(Request) : ring = b.ring[q]
    BY <1>1
  <2>2. (ring \o s) \o rest = ring \o (s \o rest)
    <3>1. s \in Seq(Request) /\ rest \in Seq(Request)
      BY <1>2
    <3> QED BY <3>1, ConcatAssociative, SMTT(40)
  <2> QED BY <1>2, <2>1, <2>2
<1>5. /\ d.fifo[q] = rest /\ \A p \in Queue \ {q} : d.fifo[p] = b.fifo[p]
      /\ d.ring[q] = b.ring[q] \o s /\ \A p \in Queue \ {q} : d.ring[p] = b.ring[p]
  BY DEF Account, Typed, s, rest
<1>6. Typed(d)
  <2>1. d.fifo \in [Queue -> Seq(Request)] /\ d.ring \in [Queue -> Seq(Request)]
    BY <1>2, <1>3 DEF Account, Typed, s, rest
  <2>2. d.length \in [Queue -> Int]
    BY DEF Account, Typed
  <2> QED BY <2>1, <2>2 DEF Account, Typed
<1>7. \A r \in Range(s) : r \in Request /\ Route[r] = q /\ place[r] = "fifo"
  <2>1. \A r \in Range(b.fifo[q]) : r \in Request /\ Route[r] = q
    BY <1>1 DEF Account, Routed, Range
  <2> QED BY <1>2, <2>1 DEF Account, Placed
<1>8. Routed(d) /\ RestOfProgram(d) /\ NoneTwice(d)
  <2>1. ASSUME NEW p \in Queue
        PROVE  /\ \A r \in Range(d.fifo[p]) : Route[r] = p
               /\ \A r \in Range(d.ring[p]) : Route[r] = p
    <3>1. /\ \A r \in Range(b.fifo[p]) : Route[r] = p
          /\ \A r \in Range(b.ring[p]) : Route[r] = p
      BY DEF Account, Routed
    <3>2. CASE p = q
      BY <1>2, <1>3, <1>5, <1>7, <3>1, <3>2
    <3>3. CASE p # q
      BY <1>5, <3>1, <3>3
    <3> QED BY <3>2, <3>3
  <2> QED BY <2>1 DEF Account, Routed, RestOfProgram, NoneTwice
<1>9. Orderly(d)
  BY <1>4, <1>5 DEF Account, Orderly
<1>10. after \in [Request -> Stage]
  BY DEF Account, Placed, Shift, Stage
<1>11. Placed(d, after)
  <2> SUFFICES ASSUME NEW r \in Request
               PROVE  /\ after[r] = "fifo" <=> r \in Range(d.fifo[Route[r]])
                      /\ after[r] = "ring" <=> r \in Range(d.ring[Route[r]])
                      /\ after[r] \notin {"fifo", "ring"} => after[r] = place[r]
                      /\ place[r] \notin {"fifo", "ring"} => after[r] = place[r]
    BY <1>10 DEF Account, Placed
  <2>1. after[r] = IF r \in Range(s) THEN "ring" ELSE place[r]
    BY DEF Shift
  <2>2. Route[r] \in Queue
    BY RequestFacts
  <2>3. /\ place[r] = "fifo" <=> r \in Range(b.fifo[Route[r]])
        /\ place[r] = "ring" <=> r \in Range(b.ring[Route[r]])
    BY DEF Account, Placed
  <2> HIDE DEF after
  <2>4. CASE Route[r] = q
    BY <1>2, <1>3, <1>5, <1>7, <2>1, <2>3, <2>4
  <2>5. CASE Route[r] # q
    BY <1>5, <1>7, <2>1, <2>2, <2>3, <2>5
  <2> QED BY <2>4, <2>5
<1>12. Counted(d, after)
  <2>1. /\ place \in [Request -> Stage] /\ b.length \in [Queue -> Int]
        /\ \A p \in Queue : /\ IsFiniteSet(InTheAir(place, p))
                            /\ b.length[p] = Cardinality(InTheAir(place, p))
    BY DEF Account, Placed, Typed, Counted
  <2>2. "ring" \in Flying /\ \A r \in Range(s) : Route[r] = q /\ place[r] \notin Flying
    BY <1>7 DEF Flying
  <2>3. /\ IsFiniteSet(InTheAir(after, q))
        /\ Cardinality(InTheAir(after, q)) = Cardinality(InTheAir(place, q)) + Len(s)
        /\ \A p \in Queue \ {q} : InTheAir(after, p) = InTheAir(place, p)
    <3>1. place \in [Request -> Stage] /\ IsFiniteSet(InTheAir(place, q))
      BY <2>1
    <3>2. s \in Seq(Request) /\ Distinct(s) /\ Len(s) = n
      BY <1>2
    <3>3. after = Shift(place, Range(s), "ring")
      OBVIOUS
    <3> HIDE DEF after
    <3> QED BY <2>2, <3>1, <3>2, <3>3, TakeOff, SMTT(40)
  <2> HIDE DEF after
  <2> QED BY <1>2, <2>1, <2>3 DEF Counted
<1> QED BY <1>6, <1>7, <1>8, <1>9, <1>11, <1>12 DEF Account, s

\* What is left of a program has no request twice and keeps its order; the
\* requests of the core that are not in it come before it.
LEMMA RestFacts ==
    ASSUME NEW c \in Core, NEW s \in Seq(Request), NEW gone \in Nat, Rest(c, s, gone)
    PROVE  /\ \A i \in DOMAIN s : /\ Route[s[i]] = <<Target[s[i]], c>> /\ Route[s[i]] \in Queue
                                  /\ From(Route[s[i]]) = c /\ Rank[s[i]] = gone + i
           /\ \A x \in Request : From(Route[x]) = c /\ x \notin Range(s) => Rank[x] <= gone
           /\ Distinct(s)
<1>1. PICK P \in Seq(Request) : P = Program[c]
  BY ProgramAssumption
<1>2. Len(P) = gone + Len(s) /\ \A i \in DOMAIN s : s[i] = P[gone + i]
  BY <1>1 DEF Rest
<1>3. \A i \in DOMAIN s : gone + i \in DOMAIN P /\ i \in Nat
  BY <1>2
<1>4. ASSUME NEW i \in DOMAIN s
      PROVE  /\ Route[s[i]] = <<Target[s[i]], c>> /\ Route[s[i]] \in Queue
             /\ From(Route[s[i]]) = c /\ Rank[s[i]] = gone + i
  <2>1. PICK j \in DOMAIN Program[c] : j = gone + i
    BY <1>1, <1>3
  <2>2. s[i] = Program[c][j]
    BY <1>1, <1>2, <2>1
  <2>3. /\ Route[Program[c][j]] = <<Target[Program[c][j]], c>>
        /\ Route[Program[c][j]] \in Queue
        /\ Rank[Program[c][j]] = j
    BY SubmittedOnce
  <2>4. From(<<Target[s[i]], c>>) = c
    BY DEF From
  <2> QED BY <2>1, <2>2, <2>3, <2>4
<1>5. Distinct(s)
  <2>1. \A i \in DOMAIN s : Rank[s[i]] = gone + i /\ i \in Nat
    BY <1>3, <1>4
  <2>2. \A i, j \in DOMAIN s : s[i] = s[j] => gone + i = gone + j
    BY <2>1
  <2> QED BY <2>1, <2>2 DEF Distinct
<1>6. ASSUME NEW x \in Request, From(Route[x]) = c, x \notin Range(s) PROVE Rank[x] <= gone
  <2>1. PICK k \in DOMAIN P : k = Rank[x] /\ P[k] = x
    BY <1>1, <1>6, RequestFacts
  <2>2. SUFFICES ASSUME k > gone PROVE FALSE
    BY <2>1, <1>1
  <2>3. k - gone \in DOMAIN s /\ gone + (k - gone) = k
    BY <1>2, <2>2
  <2>4. s[k - gone] = x
    BY <1>2, <2>1, <2>3
  <2> QED BY <1>6, <2>3, <2>4 DEF Range
<1> QED BY <1>4, <1>5, <1>6

\* The next request of a program, and what it leaves.
LEMMA NextOfProgram ==
    ASSUME NEW c \in Core, NEW s \in Seq(Request), NEW gone \in Nat, Rest(c, s, gone),
           s # << >>
    PROVE  /\ Head(s) \in Request /\ Route[Head(s)] = <<Target[Head(s)], c>> /\ Route[Head(s)] \in Queue
           /\ From(Route[Head(s)]) = c /\ Rank[Head(s)] = gone + 1 /\ Distinct(s)
           /\ Range(s) = {Head(s)} \cup Range(Tail(s)) /\ Head(s) \notin Range(Tail(s))
           /\ \A x \in Range(Tail(s)) : From(Route[x]) = c
           /\ Rest(c, Tail(s), gone + 1)
           /\ \A x \in Request : From(Route[x]) = c =>
                 IF x \in Range(s) THEN Rank[x] >= Rank[Head(s)] ELSE Rank[x] < Rank[Head(s)]
<1> DEFINE r == Head(s)
<1>1. /\ \A i \in DOMAIN s : /\ Route[s[i]] = <<Target[s[i]], c>> /\ Route[s[i]] \in Queue
                             /\ From(Route[s[i]]) = c /\ Rank[s[i]] = gone + i
      /\ \A x \in Request : From(Route[x]) = c /\ x \notin Range(s) => Rank[x] <= gone
      /\ Distinct(s)
  BY RestFacts
<1>2. 1 \in DOMAIN s /\ r = s[1] /\ r \in Request /\ \A i \in DOMAIN s : i \in Nat /\ i >= 1
  OBVIOUS
<1>3. /\ Range(s) = {r} \cup Range(Tail(s)) /\ r \notin Range(Tail(s))
  BY <1>1, TailRange
<1> HIDE DEF r
<1>4. /\ r \in Request /\ Route[r] = <<Target[r], c>> /\ Route[r] \in Queue
      /\ From(Route[r]) = c /\ Rank[r] = gone + 1
  BY <1>1, <1>2
<1>5. \A x \in Range(s) : From(Route[x]) = c /\ Rank[x] >= Rank[r]
  BY <1>1, <1>2, <1>4 DEF Range
<1>6. Rest(c, Tail(s), gone + 1)
  <2>1. /\ Len(Program[c]) = gone + Len(s)
        /\ \A i \in DOMAIN s : s[i] = Program[c][gone + i]
    BY DEF Rest
  <2>2. Len(Tail(s)) = Len(s) - 1
    OBVIOUS
  <2>3. Len(Program[c]) = (gone + 1) + Len(Tail(s))
    BY <2>1, <2>2
  <2>4. ASSUME NEW i \in DOMAIN Tail(s) PROVE Tail(s)[i] = Program[c][(gone + 1) + i]
    <3>1. Tail(s)[i] = s[i + 1] /\ i + 1 \in DOMAIN s /\ gone + (i + 1) = (gone + 1) + i
      OBVIOUS
    <3> QED BY <2>1, <3>1
  <2> QED BY <2>3, <2>4 DEF Rest
<1>7. \A x \in Request : From(Route[x]) = c /\ x \notin Range(s) => Rank[x] < Rank[r]
  <2>1. \A x \in Request : Rank[x] \in Nat
    BY RequestFacts
  <2> QED BY <1>1, <1>4, <2>1
<1> QED BY <1>1, <1>3, <1>4, <1>5, <1>6, <1>7 DEF r

\* A request that comes after all the others goes to the back.
LEMMA AscendingAppend ==
    ASSUME NEW s \in Seq(Request), NEW r \in Request, Ascending(s),
           \A x \in Range(s) : Rank[x] < Rank[r]
    PROVE  Ascending(Append(s, r))
<1>1. \A i \in DOMAIN s : Rank[s[i]] < Rank[r]
  BY DEF Range
<1>2. /\ Len(Append(s, r)) = Len(s) + 1 /\ Append(s, r)[Len(s) + 1] = r
      /\ \A i \in DOMAIN s : Append(s, r)[i] = s[i]
      /\ Append(s, r) \in Seq(Request)
  OBVIOUS
<1> SUFFICES ASSUME NEW i \in 1 .. Len(s) + 1, NEW j \in 1 .. Len(s) + 1, i < j
             PROVE  Rank[Append(s, r)[i]] < Rank[Append(s, r)[j]]
  BY <1>2 DEF Ascending
<1>3. i \in DOMAIN s /\ (j \in DOMAIN s \/ j = Len(s) + 1)
  OBVIOUS
<1> QED BY <1>1, <1>2, <1>3 DEF Ascending

\* submit_item: the next request of the program goes to the back of the batch.
Enqueued(b, d, c, r, q) ==
    /\ b.todo[c] # << >> /\ r = Head(b.todo[c]) /\ q = <<Target[r], c>>
    /\ d.todo = [b.todo EXCEPT ![c] = Tail(@)]
    /\ d.fifo = [b.fifo EXCEPT ![q] = Append(@, r)]
    /\ d.ring = b.ring /\ d.length = b.length /\ d.deferred = b.deferred
    /\ d.tasks = b.tasks /\ d.answers = b.answers /\ d.back = b.back /\ d.done = b.done

\* A submission keeps the account: the request is now in the batch, behind
\* all that its core has submitted to the same core before.
LEMMA Enqueue ==
    ASSUME NEW b, NEW place, Account(b, place),
           NEW c \in Core, NEW r, NEW q, NEW d, Enqueued(b, d, c, r, q)
    PROVE  /\ q \in Queue /\ r \in Request /\ Route[r] = q /\ place[r] = "todo"
           /\ \A x \in Request : Route[x] = q =>
                 IF place[x] = "todo" THEN Rank[r] <= Rank[x] ELSE Rank[x] < Rank[r]
           /\ Account(d, Shift(place, {r}, "fifo"))
<1> USE DEF Enqueued
<1> DEFINE after == Shift(place, {r}, "fifo")
<1>1. PICK s \in Seq(Request) : s = b.todo[c]
  BY DEF Account, Typed
<1>2. PICK gone \in Nat : Rest(c, s, gone)
  BY <1>1 DEF Account, RestOfProgram
<1>3. /\ r \in Request /\ Route[r] = q /\ q \in Queue /\ From(q) = c
      /\ Range(s) = {r} \cup Range(Tail(s)) /\ r \notin Range(Tail(s))
      /\ \A x \in Range(Tail(s)) : From(Route[x]) = c
      /\ Rest(c, Tail(s), gone + 1)
      /\ \A x \in Request : From(Route[x]) = c =>
            IF x \in Range(s) THEN Rank[x] >= Rank[r] ELSE Rank[x] < Rank[r]
      /\ Tail(s) \in Seq(Request)
  <2>1. s # << >> /\ r = Head(s)
    BY <1>1
  <2>2. Tail(s) \in Seq(Request)
    BY <2>1
  <2>3. /\ Head(s) \in Request /\ Route[Head(s)] = <<Target[Head(s)], c>>
        /\ Route[Head(s)] \in Queue /\ From(Route[Head(s)]) = c
        /\ Range(s) = {Head(s)} \cup Range(Tail(s)) /\ Head(s) \notin Range(Tail(s))
        /\ \A x \in Range(Tail(s)) : From(Route[x]) = c
        /\ Rest(c, Tail(s), gone + 1)
        /\ \A x \in Request : From(Route[x]) = c =>
              IF x \in Range(s) THEN Rank[x] >= Rank[Head(s)] ELSE Rank[x] < Rank[Head(s)]
    BY <1>2, <2>1, NextOfProgram
  <2>4. q = <<Target[Head(s)], c>>
    BY <2>1, SMTT(40)
  <2> QED BY <2>1, <2>2, <2>3, <2>4, Zenon
<1>4. /\ place[r] = "todo"
      /\ \A x \in Request : From(Route[x]) = c => (place[x] = "todo" <=> x \in Range(s))
  <2>1. \A x \in Request : From(Route[x]) = c => (place[x] = "todo" <=> x \in Range(s))
    BY <1>1 DEF Account, Placed
  <2> QED BY <1>3, <2>1
<1>5. \A x \in Request : Route[x] = q =>
          IF place[x] = "todo" THEN Rank[r] <= Rank[x] ELSE Rank[x] < Rank[r]
  <2>1. \A x \in Request : Rank[x] \in Nat
    BY RequestFacts
  <2> QED BY <1>3, <1>4, <2>1
<1>6. PICK fifo \in Seq(Request), ring \in Seq(Request) : fifo = b.fifo[q] /\ ring = b.ring[q]
  BY <1>3, SMTT(40) DEF Account, Typed
<1>7. Append(fifo, r) \in Seq(Request) /\ Range(Append(fifo, r)) = Range(fifo) \cup {r}
  BY <1>3, AppendRange
<1>8. /\ d.todo[c] = Tail(s) /\ \A e \in Core \ {c} : d.todo[e] = b.todo[e]
      /\ d.fifo[q] = Append(fifo, r) /\ \A p \in Queue \ {q} : d.fifo[p] = b.fifo[p]
  BY <1>1, <1>3, <1>6, Zenon DEF Account, Typed
<1>9. /\ d.ring = b.ring /\ d.tasks = b.tasks /\ d.answers = b.answers /\ d.back = b.back
       /\ d.deferred = b.deferred /\ d.done = b.done /\ d.length = b.length
       /\ d.todo = [b.todo EXCEPT ![c] = Tail(@)] /\ d.fifo = [b.fifo EXCEPT ![q] = Append(@, r)]
  BY Zenon
<1>10. Typed(b) /\ Orderly(b) /\ RestOfProgram(b) /\ Routed(b) /\ NoneTwice(b) /\ Counted(b, place) /\ Placed(b, place)
  BY DEF Account
<1> HIDE DEF Enqueued
<1>11. Typed(d)
  <2>1. d.todo \in [Core -> Seq(Request)]
    BY <1>1, <1>3, <1>9, <1>10 DEF Typed
  <2>2. d.fifo \in [Queue -> Seq(Request)]
    BY <1>6, <1>7, <1>9, <1>10 DEF Typed
  <2> QED BY <1>9, <1>10, <2>1, <2>2 DEF Typed
<1>12. RestOfProgram(d)
  <2>1. \A e \in Core \ {c} : \E g \in Nat : Rest(e, d.todo[e], g)
    BY <1>8, <1>10, Zenon DEF RestOfProgram
  <2>2. gone + 1 \in Nat
    OBVIOUS
  <2>3. \E g \in Nat : Rest(c, d.todo[c], g)
    BY <1>3, <1>8, <2>2, Zenon
  <2> QED BY <2>1, <2>3 DEF RestOfProgram
<1>13. Routed(d) /\ NoneTwice(d)
  <2>1. ASSUME NEW p \in Queue PROVE \A x \in Range(d.fifo[p]) : Route[x] = p
    <3>1. \A x \in Range(b.fifo[p]) : Route[x] = p
      BY <1>10 DEF Routed
    <3>2. CASE p = q
      BY <1>3, <1>6, <1>7, <1>8, <3>1, <3>2, ZenonT(30)
    <3>3. CASE p # q
      BY <1>8, <3>1, <3>3, Zenon
    <3> QED BY <3>2, <3>3
  <2>2. Routed(b) /\ NoneTwice(b)
    BY DEF Account
  <2>3. Routed(d)
    <3>1. ASSUME NEW p \in Queue
          PROVE  /\ \A x \in Range(d.ring[p]) : Route[x] = p
                 /\ \A x \in Range(d.answers[p]) : Route[x] = p
                 /\ \A x \in Range(d.back[p]) : Route[x] = p
      BY <1>9, <2>2 DEF Routed
    <3>2. \A e \in Core : \A x \in Range(d.tasks[e]) : To(Route[x]) = e
      BY <1>9, <2>2 DEF Routed
    <3> QED BY <2>1, <3>1, <3>2, Zenon DEF Routed
  <2> QED BY <1>9, <2>2, <2>3 DEF NoneTwice
<1>14. \A x \in Range(ring) \cup Range(fifo) : x \in Request /\ Rank[x] < Rank[r]
  <2> SUFFICES ASSUME NEW x \in Range(ring) \cup Range(fifo)
               PROVE  x \in Request /\ Rank[x] < Rank[r]
    OBVIOUS
  <2>1. x \in Request
    BY DEF Range
  <2>2. Route[x] = q
    BY <1>3, <1>6, <1>10 DEF Routed
  <2>3. place[x] \in {"fifo", "ring"}
    BY <1>6, <1>10, <2>1, <2>2 DEF Placed
  <2> QED BY <1>5, <2>1, <2>2, <2>3
<1>15. Orderly(d)
  <2>1. \A p \in Queue \ {q} : Ascending(d.ring[p] \o d.fifo[p])
    BY <1>8, <1>9, <1>10 DEF Orderly
  <2>2. ring \o Append(fifo, r) = Append(ring \o fifo, r)
    BY <1>3
  <2>3. Ascending(ring \o fifo)
    BY <1>3, <1>6, <1>10 DEF Orderly
  <2>4. ring \o fifo \in Seq(Request) /\ Range(ring \o fifo) = Range(ring) \cup Range(fifo)
    BY JoinRange
  <2>5. Ascending(Append(ring \o fifo, r))
    BY <1>3, <1>14, <2>3, <2>4, AscendingAppend
  <2>6. d.ring[q] \o d.fifo[q] = Append(ring \o fifo, r)
    BY <1>6, <1>8, <1>9, <2>2, Zenon
  <2> QED BY <2>1, <2>5, <2>6, Zenon DEF Orderly
<1>16. \A x \in Request : after[x] = IF x = r THEN "fifo" ELSE place[x]
  BY DEF Shift
<1>17. after \in [Request -> Stage]
  BY <1>10 DEF Placed, Shift, Stage
<1>18. Counted(d, after)
  <2>1. place \in [Request -> Stage] /\ Counted(b, place) /\ {r} \in SUBSET Request /\ "fifo" \in Stage
    BY <1>3 DEF Account, Placed, Stage
  <2>2. \A x \in {r} : place[x] \in Flying <=> "fifo" \in Flying
    BY <1>4 DEF Flying
  <2>3. Counted(b, after)
    BY <2>1, <2>2, StayCounted
  <2> HIDE DEF after
  <2> QED BY <1>9, <2>3 DEF Counted
<1> HIDE DEF after
<1>19. Placed(d, after)
  <2>1. ASSUME NEW x \in Request
        PROVE  /\ after[x] = "fifo" <=> x \in Range(d.fifo[Route[x]])
               /\ after[x] = "todo" <=> x \in Range(d.todo[From(Route[x])])
    <3>1. Route[x] \in Queue /\ From(Route[x]) \in Core
      BY RequestFacts
    <3>2. /\ place[x] = "fifo" <=> x \in Range(b.fifo[Route[x]])
          /\ place[x] = "todo" <=> x \in Range(b.todo[From(Route[x])])
      BY <1>10 DEF Placed
    <3>3. after[x] = "fifo" <=> x \in Range(d.fifo[Route[x]])
      <4>1. CASE Route[x] = q
        <5>1. d.fifo[Route[x]] = Append(fifo, r) /\ b.fifo[Route[x]] = fifo
          BY <1>6, <1>8, <4>1, Zenon
        <5> QED BY <1>4, <1>7, <1>16, <3>2, <5>1, Zenon
      <4>2. CASE Route[x] # q
        BY <1>3, <1>8, <1>16, <3>1, <3>2, <4>2, Zenon
      <4> QED BY <4>1, <4>2
    <3>4. after[x] = "todo" <=> x \in Range(d.todo[From(Route[x])])
      <4>1. CASE From(Route[x]) = c
        BY <1>1, <1>3, <1>8, <1>16, <3>2, <4>1, Zenon
      <4>2. CASE From(Route[x]) # c
        BY <1>3, <1>8, <1>16, <3>1, <3>2, <4>2, Zenon
      <4> QED BY <4>1, <4>2
    <3> QED BY <3>3, <3>4
  <2>2. \A x \in Request : /\ after[x] \notin {"fifo", "todo"} => after[x] = place[x]
                           /\ place[x] \notin {"fifo", "todo"} => after[x] = place[x]
    BY <1>4, <1>16
  <2>3. ASSUME NEW x \in Request
        PROVE  /\ after[x] = "ring" <=> x \in Range(d.ring[Route[x]])
               /\ after[x] = "deferred" <=> x \in d.deferred
               /\ after[x] = "task" <=> x \in Range(d.tasks[To(Route[x])])
               /\ after[x] = "answer" <=> x \in Range(d.answers[Route[x]])
               /\ after[x] = "back" <=> x \in Range(d.back[Route[x]])
               /\ after[x] = "done" <=> x \in d.done
    BY <1>9, <1>10, <2>2 DEF Placed
  <2> QED BY <1>17, <2>1, <2>3, Zenon DEF Placed
<1> QED BY <1>3, <1>4, <1>5, <1>11, <1>12, <1>13, <1>15, <1>18, <1>19 DEF Account, after

\* respond(), without the flush: the response of the next task goes to the
\* back of its batch.
Responded(b, d, c, r, q) ==
    /\ b.tasks[c] # << >> /\ r = Head(b.tasks[c]) /\ q = Route[r]
    /\ d.tasks = [b.tasks EXCEPT ![c] = Tail(@)]
    /\ d.answers = [b.answers EXCEPT ![q] = Append(@, r)]
    /\ d.todo = b.todo /\ d.fifo = b.fifo /\ d.ring = b.ring /\ d.length = b.length
    /\ d.deferred = b.deferred /\ d.back = b.back /\ d.done = b.done

\* A response keeps the account: the request of the task is now answered.
LEMMA FinishTask ==
    ASSUME NEW b, NEW place, Account(b, place),
           NEW c \in Core, NEW r, NEW q, NEW d, Responded(b, d, c, r, q)
    PROVE  /\ r \in Request /\ q \in Queue /\ To(q) = c /\ place[r] = "task"
           /\ Account(d, Shift(place, {r}, "answer"))
<1> USE DEF Responded
<1> DEFINE after == Shift(place, {r}, "answer")
<1>1. PICK s \in Seq(Request) : s = b.tasks[c]
  BY DEF Account, Typed
<1>2. Routed(b) /\ NoneTwice(b) /\ Placed(b, place)
  BY DEF Account
<1>3. /\ r \in Range(s) /\ Tail(s) \in Seq(Request)
      /\ Range(s) = {r} \cup Range(Tail(s)) /\ r \notin Range(Tail(s))
      /\ Distinct(Tail(s))
  <2>1. s # << >> /\ Distinct(s) /\ r = Head(s)
    BY <1>1, <1>2 DEF NoneTwice
  <2>2. /\ Head(s) \in Range(s) /\ Tail(s) \in Seq(Request)
        /\ Range(s) = {Head(s)} \cup Range(Tail(s)) /\ Head(s) \notin Range(Tail(s))
        /\ Distinct(Tail(s))
    BY <2>1, TailRange, SMTT(40)
  <2> QED BY <2>1, <2>2
<1>4. r \in Request /\ q \in Queue /\ To(q) = c
  <2>1. r \in Request
    BY <1>3, SMTT(40) DEF Range
  <2>2. To(Route[r]) = c
    BY <1>1, <1>2, <1>3, SMTT(40) DEF Routed
  <2> QED BY <2>1, <2>2, RequestFacts, SMTT(40)
<1>5. place[r] = "task"
  BY <1>1, <1>2, <1>3, <1>4, SMTT(40) DEF Placed
<1>6. PICK t \in Seq(Request) : t = b.answers[q]
  BY <1>4, SMTT(40) DEF Account, Typed
<1>7. /\ Append(t, r) \in Seq(Request) /\ Range(Append(t, r)) = Range(t) \cup {r}
      /\ Distinct(Append(t, r))
  <2>1. r \notin Range(t)
    BY <1>2, <1>4, <1>5, <1>6, SMTT(40) DEF Placed
  <2>2. Distinct(t)
    BY <1>2, <1>4, <1>6 DEF NoneTwice
  <2> QED BY <1>4, <2>1, <2>2, AppendRange, SMTT(40)
<1>8. /\ d.tasks[c] = Tail(s) /\ \A e \in Core \ {c} : d.tasks[e] = b.tasks[e]
      /\ d.answers[q] = Append(t, r) /\ \A p \in Queue \ {q} : d.answers[p] = b.answers[p]
  BY <1>1, <1>4, <1>6, Zenon DEF Account, Typed
<1>9. /\ q = Route[r] /\ d.todo = b.todo /\ d.fifo = b.fifo /\ d.ring = b.ring /\ d.length = b.length
       /\ d.deferred = b.deferred /\ d.back = b.back /\ d.done = b.done
       /\ d.tasks = [b.tasks EXCEPT ![c] = Tail(@)] /\ d.answers = [b.answers EXCEPT ![q] = Append(@, r)]
  BY Zenon
<1>10. Typed(b) /\ Orderly(b) /\ RestOfProgram(b) /\ Counted(b, place)
  BY DEF Account
<1> HIDE DEF Responded
<1>11. Typed(d)
  <2>1. d.tasks \in [Core -> Seq(Request)]
    BY <1>1, <1>3, <1>9, <1>10 DEF Typed
  <2>2. d.answers \in [Queue -> Seq(Request)]
    BY <1>6, <1>7, <1>9, <1>10 DEF Typed
  <2> QED BY <1>9, <1>10, <2>1, <2>2 DEF Typed
<1>12. RestOfProgram(d) /\ Orderly(d)
  BY <1>9, <1>10 DEF RestOfProgram, Orderly
<1>13. Routed(d)
  <2>1. ASSUME NEW p \in Queue PROVE \A x \in Range(d.answers[p]) : Route[x] = p
    <3>1. \A x \in Range(b.answers[p]) : Route[x] = p
      BY <1>2 DEF Routed
    <3>2. CASE p = q
      <4>1. d.answers[p] = Append(t, r) /\ b.answers[p] = t
        BY <1>6, <1>8, <3>2
      <4> QED BY <1>7, <1>9, <3>1, <3>2, <4>1
    <3>3. CASE p # q
      BY <1>8, <3>1, <3>3, ZenonT(30)
    <3> QED BY <3>2, <3>3, Zenon
  <2>2. ASSUME NEW p \in Queue
        PROVE  /\ \A x \in Range(d.fifo[p]) : Route[x] = p
               /\ \A x \in Range(d.ring[p]) : Route[x] = p
               /\ \A x \in Range(d.back[p]) : Route[x] = p
    BY <1>2, <1>9 DEF Routed
  <2>3. ASSUME NEW e \in Core PROVE \A x \in Range(d.tasks[e]) : To(Route[x]) = e
    <3>1. \A x \in Range(b.tasks[e]) : To(Route[x]) = e
      BY <1>2 DEF Routed
    <3>2. CASE e = c
      BY <1>1, <1>3, <1>8, <3>1, <3>2, ZenonT(30)
    <3>3. CASE e # c
      BY <1>8, <3>1, <3>3, ZenonT(30)
    <3> QED BY <3>2, <3>3
  <2> QED BY <2>1, <2>2, <2>3, Zenon DEF Routed
<1>14. NoneTwice(d)
  <2>1. ASSUME NEW p \in Queue PROVE Distinct(d.answers[p]) /\ Distinct(d.back[p])
    <3>1. Distinct(b.answers[p]) /\ Distinct(d.back[p])
      BY <1>2, <1>9 DEF NoneTwice
    <3> QED BY <1>7, <1>8, <3>1, Zenon
  <2>2. ASSUME NEW e \in Core PROVE Distinct(d.tasks[e])
    <3>1. Distinct(b.tasks[e])
      BY <1>2 DEF NoneTwice
    <3> QED BY <1>3, <1>8, <3>1, ZenonT(30)
  <2> QED BY <2>1, <2>2, <1>9, <1>2 DEF NoneTwice
<1>15. \A x \in Request : after[x] = IF x = r THEN "answer" ELSE place[x]
  BY DEF Shift
<1>16. after \in [Request -> Stage]
  BY <1>2 DEF Placed, Shift, Stage
<1>17. Counted(d, after)
  <2>1. place \in [Request -> Stage] /\ Counted(b, place) /\ {r} \in SUBSET Request /\ "answer" \in Stage
    BY <1>4 DEF Account, Placed, Stage
  <2>2. \A x \in {r} : place[x] \in Flying <=> "answer" \in Flying
    BY <1>5 DEF Flying
  <2>3. Counted(b, after)
    BY <2>1, <2>2, StayCounted
  <2> HIDE DEF after
  <2> QED BY <1>9, <2>3 DEF Counted
<1> HIDE DEF after
<1>18. Placed(d, after)
  <2>1. ASSUME NEW x \in Request
        PROVE  /\ after[x] = "answer" <=> x \in Range(d.answers[Route[x]])
               /\ after[x] = "task" <=> x \in Range(d.tasks[To(Route[x])])
    <3>1. Route[x] \in Queue /\ To(Route[x]) \in Core
      BY RequestFacts
    <3>2. /\ place[x] = "answer" <=> x \in Range(b.answers[Route[x]])
          /\ place[x] = "task" <=> x \in Range(b.tasks[To(Route[x])])
      BY <1>2 DEF Placed
    <3>3. after[x] = "answer" <=> x \in Range(d.answers[Route[x]])
      <4>1. CASE Route[x] = q
        <5>1. d.answers[Route[x]] = Append(t, r) /\ b.answers[Route[x]] = t
          BY <1>6, <1>8, <4>1, ZenonT(30)
        <5> QED BY <1>5, <1>7, <1>15, <3>2, <5>1
      <4>2. CASE Route[x] # q
        <5>1. d.answers[Route[x]] = b.answers[Route[x]]
          BY <1>8, <3>1, <4>2
        <5>2. x # r
          BY <1>9, <4>2
        <5> QED BY <1>15, <3>2, <5>1, <5>2
      <4> QED BY <4>1, <4>2
    <3>4. after[x] = "task" <=> x \in Range(d.tasks[To(Route[x])])
      <4>1. CASE To(Route[x]) = c
        <5>1. d.tasks[To(Route[x])] = Tail(s) /\ b.tasks[To(Route[x])] = s
          BY <1>1, <1>8, <4>1, ZenonT(30)
        <5> QED BY <1>3, <1>15, <3>2, <5>1
      <4>2. CASE To(Route[x]) # c
        <5>1. d.tasks[To(Route[x])] = b.tasks[To(Route[x])]
          BY <1>8, <3>1, <4>2
        <5>2. x # r
          BY <1>4, <1>9, <4>2
        <5> QED BY <1>15, <3>2, <5>1, <5>2
      <4> QED BY <4>1, <4>2
    <3> QED BY <3>3, <3>4
  <2>2. \A x \in Request : /\ after[x] \notin {"answer", "task"} => after[x] = place[x]
                           /\ place[x] \notin {"answer", "task"} => after[x] = place[x]
    BY <1>5, <1>15
  <2>3. ASSUME NEW x \in Request
        PROVE  /\ after[x] = "todo" <=> x \in Range(d.todo[From(Route[x])])
               /\ after[x] = "fifo" <=> x \in Range(d.fifo[Route[x]])
               /\ after[x] = "ring" <=> x \in Range(d.ring[Route[x]])
               /\ after[x] = "deferred" <=> x \in d.deferred
               /\ after[x] = "back" <=> x \in Range(d.back[Route[x]])
               /\ after[x] = "done" <=> x \in d.done
    BY <1>2, <1>9, <2>2 DEF Placed
  <2> QED BY <1>16, <2>1, <2>3, Zenon DEF Placed
<1> QED BY <1>4, <1>5, <1>11, <1>12, <1>13, <1>14, <1>17, <1>18, SMTT(40) DEF Account, after

\* flush_response_batch: the first n responses of the batch go to the ring.
Answered(b, d, q, n) ==
    /\ d.answers = [b.answers EXCEPT ![q] = SubSeq(@, n + 1, Len(@))]
    /\ d.back = [b.back EXCEPT ![q] = @ \o SubSeq(b.answers[q], 1, n)]
    /\ d.todo = b.todo /\ d.fifo = b.fifo /\ d.ring = b.ring /\ d.length = b.length
    /\ d.deferred = b.deferred /\ d.tasks = b.tasks /\ d.done = b.done

\* A flush of responses keeps the account: those sent are now on their way
\* back.
LEMMA SendAnswers ==
    ASSUME NEW b, NEW place, Account(b, place),
           NEW q \in Queue, NEW n \in 0 .. Len(b.answers[q]), NEW d, Answered(b, d, q, n)
    PROVE  /\ \A r \in Range(SubSeq(b.answers[q], 1, n)) : r \in Request /\ place[r] = "answer"
           /\ Account(d, Shift(place, Range(SubSeq(b.answers[q], 1, n)), "back"))
<1> USE DEF Answered
<1>1. PICK w \in Seq(Request), t \in Seq(Request) : w = b.answers[q] /\ t = b.back[q]
  BY DEF Account, Typed
<1> DEFINE s == SubSeq(w, 1, n)
           rest == SubSeq(w, n + 1, Len(w))
           after == Shift(place, Range(s), "back")
<1>2. Routed(b) /\ NoneTwice(b) /\ Placed(b, place)
  BY DEF Account
<1>3. /\ s \in Seq(Request) /\ Distinct(s) /\ rest \in Seq(Request) /\ Distinct(rest)
      /\ Range(w) = Range(s) \cup Range(rest) /\ Range(s) \cap Range(rest) = {}
  <2>1. n \in 0 .. Len(w) /\ Distinct(w)
    BY <1>1, <1>2 DEF NoneTwice
  <2>2. s \in Seq(Request) /\ rest \in Seq(Request)
    BY <2>1, SplitSeq
  <2>3. /\ Range(w) = Range(s) \cup Range(rest)
        /\ Distinct(s) /\ Distinct(rest) /\ Range(s) \cap Range(rest) = {}
    BY <2>1, SplitRange
  <2> QED BY <2>2, <2>3
<1>4. /\ d.answers[q] = rest /\ \A p \in Queue \ {q} : d.answers[p] = b.answers[p]
      /\ d.back[q] = t \o s /\ \A p \in Queue \ {q} : d.back[p] = b.back[p]
  BY <1>1 DEF Account, Typed
<1>5. d.answers = [b.answers EXCEPT ![q] = rest] /\ d.back = [b.back EXCEPT ![q] = t \o s]
  BY <1>1
<1> HIDE DEF s, rest
<1>6. \A r \in Range(s) : r \in Request /\ Route[r] = q /\ place[r] = "answer"
  <2>1. \A r \in Range(w) : r \in Request
    BY DEF Range
  <2>2. \A r \in Range(w) : Route[r] = q
    BY <1>1, <1>2 DEF Routed
  <2>3. \A r \in Range(w) : place[r] = "answer"
    BY <1>1, <1>2, <2>1, <2>2 DEF Placed
  <2> QED BY <1>3, <2>1, <2>2, <2>3
<1>7. /\ t \o s \in Seq(Request) /\ Range(t \o s) = Range(t) \cup Range(s)
      /\ Distinct(t \o s)
  <2>1. Distinct(t)
    BY <1>1, <1>2 DEF NoneTwice
  <2>2. Range(t) \cap Range(s) = {}
    <3>1. \A r \in Range(s) : r \notin Range(t)
      BY <1>1, <1>2, <1>6 DEF Placed
    <3> QED BY <3>1
  <2>3. t \o s \in Seq(Request)
    BY <1>3
  <2> QED BY <1>3, <2>1, <2>2, <2>3, JoinRange
<1>8. Typed(d)
  <2>1. d.answers \in [Queue -> Seq(Request)]
    BY <1>3, <1>5 DEF Account, Typed
  <2>2. d.back \in [Queue -> Seq(Request)]
    BY <1>5, <1>7, SMTT(40) DEF Account, Typed
  <2> QED BY <2>1, <2>2 DEF Account, Typed
<1>9. RestOfProgram(d) /\ Orderly(d)
  BY DEF Account, RestOfProgram, Orderly
<1>10. Routed(d)
  <2>1. ASSUME NEW p \in Queue
        PROVE  /\ \A x \in Range(d.answers[p]) : Route[x] = p
               /\ \A x \in Range(d.back[p]) : Route[x] = p
    <3>1. /\ \A x \in Range(b.answers[p]) : Route[x] = p
          /\ \A x \in Range(b.back[p]) : Route[x] = p
      BY <1>2 DEF Routed
    <3>2. CASE p = q
      BY <1>1, <1>3, <1>4, <1>6, <1>7, <3>1, <3>2
    <3>3. CASE p # q
      BY <1>4, <3>1, <3>3
    <3> QED BY <3>2, <3>3
  <2>2. ASSUME NEW p \in Queue
        PROVE  /\ \A x \in Range(d.fifo[p]) : Route[x] = p
               /\ \A x \in Range(d.ring[p]) : Route[x] = p
    BY <1>2 DEF Routed
  <2>3. \A e \in Core : \A x \in Range(d.tasks[e]) : To(Route[x]) = e
    BY <1>2 DEF Routed
  <2> QED BY <2>1, <2>2, <2>3, Zenon DEF Routed
<1>11. NoneTwice(d)
  <2>1. ASSUME NEW p \in Queue PROVE Distinct(d.answers[p]) /\ Distinct(d.back[p])
    <3>1. Distinct(b.answers[p]) /\ Distinct(b.back[p])
      BY <1>2 DEF NoneTwice
    <3> QED BY <1>3, <1>4, <1>7, <3>1
  <2>2. \A e \in Core : Distinct(d.tasks[e])
    BY <1>2 DEF NoneTwice
  <2> QED BY <2>1, <2>2, Zenon DEF NoneTwice
<1>12. \A x \in Request : after[x] = IF x \in Range(s) THEN "back" ELSE place[x]
  BY DEF Shift
<1>13. after \in [Request -> Stage]
  BY DEF Account, Placed, Shift, Stage
<1>14. Counted(d, after)
  <2>1. place \in [Request -> Stage] /\ Counted(b, place) /\ Range(s) \in SUBSET Request /\ "back" \in Stage
    BY <1>6 DEF Account, Placed, Stage
  <2>2. \A x \in Range(s) : place[x] \in Flying <=> "back" \in Flying
    BY <1>6 DEF Flying
  <2>3. Counted(b, after)
    BY <2>1, <2>2, StayCounted
  <2> HIDE DEF after
  <2> QED BY <2>3 DEF Counted
<1> HIDE DEF after
<1>15. Placed(d, after)
  <2>1. ASSUME NEW x \in Request
        PROVE  /\ after[x] = "answer" <=> x \in Range(d.answers[Route[x]])
               /\ after[x] = "back" <=> x \in Range(d.back[Route[x]])
    <3>1. Route[x] \in Queue
      BY RequestFacts
    <3>2. /\ place[x] = "answer" <=> x \in Range(b.answers[Route[x]])
          /\ place[x] = "back" <=> x \in Range(b.back[Route[x]])
      BY <1>2 DEF Placed
    <3>3. CASE Route[x] = q
      <4>1. /\ d.answers[Route[x]] = rest /\ b.answers[Route[x]] = w
            /\ d.back[Route[x]] = t \o s /\ b.back[Route[x]] = t
        BY <1>1, <1>4, <3>3
      <4> QED BY <1>3, <1>7, <1>12, <3>2, <4>1
    <3>4. CASE Route[x] # q
      BY <1>4, <1>6, <1>12, <3>1, <3>2, <3>4
    <3> QED BY <3>3, <3>4
  <2>2. \A x \in Request : /\ after[x] \notin {"answer", "back"} => after[x] = place[x]
                           /\ place[x] \notin {"answer", "back"} => after[x] = place[x]
    BY <1>6, <1>12
  <2>3. ASSUME NEW x \in Request
        PROVE  /\ after[x] = "todo" <=> x \in Range(d.todo[From(Route[x])])
               /\ after[x] = "fifo" <=> x \in Range(d.fifo[Route[x]])
               /\ after[x] = "ring" <=> x \in Range(d.ring[Route[x]])
               /\ after[x] = "deferred" <=> x \in d.deferred
               /\ after[x] = "task" <=> x \in Range(d.tasks[To(Route[x])])
               /\ after[x] = "done" <=> x \in d.done
    BY <1>2, <2>2 DEF Placed
  <2> QED BY <1>13, <2>1, <2>3, Zenon DEF Placed
<1>16. Account(d, after)
  BY <1>8, <1>9, <1>10, <1>11, <1>14, <1>15 DEF Account
<1> QED BY <1>1, <1>6, <1>16 DEF after, s

\* process_completions: the promises of the first n responses are resolved.
Resolved(b, d, q, n) ==
    /\ d.back = [b.back EXCEPT ![q] = SubSeq(@, n + 1, Len(@))]
    /\ d.done = b.done \cup Range(SubSeq(b.back[q], 1, n))
    /\ d.length = [b.length EXCEPT ![q] = @ - n]
    /\ d.todo = b.todo /\ d.fifo = b.fifo /\ d.ring = b.ring /\ d.deferred = b.deferred
    /\ d.tasks = b.tasks /\ d.answers = b.answers

\* Resolving promises keeps the account and gives the ring its room back.
LEMMA Resolve ==
    ASSUME NEW b, NEW place, Account(b, place),
           NEW q \in Queue, NEW n \in 0 .. Len(b.back[q]), NEW d, Resolved(b, d, q, n)
    PROVE  /\ \A r \in Range(SubSeq(b.back[q], 1, n)) : r \in Request /\ place[r] = "back"
           /\ Account(d, Shift(place, Range(SubSeq(b.back[q], 1, n)), "done"))
<1> USE DEF Resolved
<1>1. PICK w \in Seq(Request) : w = b.back[q]
  BY DEF Account, Typed
<1> DEFINE s == SubSeq(w, 1, n)
           rest == SubSeq(w, n + 1, Len(w))
           after == Shift(place, Range(s), "done")
<1>2. Routed(b) /\ NoneTwice(b) /\ Placed(b, place)
  BY DEF Account
<1>3. /\ s \in Seq(Request) /\ Len(s) = n /\ Distinct(s) /\ rest \in Seq(Request) /\ Distinct(rest)
      /\ Range(w) = Range(s) \cup Range(rest) /\ Range(s) \cap Range(rest) = {}
  <2>1. n \in 0 .. Len(w) /\ Distinct(w)
    BY <1>1, <1>2 DEF NoneTwice
  <2>2. s \in Seq(Request) /\ rest \in Seq(Request) /\ Len(s) = n
    BY <2>1, SplitSeq
  <2>3. /\ Range(w) = Range(s) \cup Range(rest)
        /\ Distinct(s) /\ Distinct(rest) /\ Range(s) \cap Range(rest) = {}
    BY <2>1, SplitRange
  <2> QED BY <2>2, <2>3
<1>4. /\ d.back[q] = rest /\ \A p \in Queue \ {q} : d.back[p] = b.back[p]
      /\ d.back = [b.back EXCEPT ![q] = rest] /\ d.done = b.done \cup Range(s)
  BY <1>1 DEF Account, Typed
<1> HIDE DEF s, rest
<1>5. \A r \in Range(s) : r \in Request /\ Route[r] = q /\ place[r] = "back"
  <2>1. \A r \in Range(w) : r \in Request
    BY DEF Range
  <2>2. \A r \in Range(w) : Route[r] = q
    BY <1>1, <1>2 DEF Routed
  <2>3. \A r \in Range(w) : place[r] = "back"
    BY <1>1, <1>2, <2>1, <2>2 DEF Placed
  <2> QED BY <1>3, <2>1, <2>2, <2>3
<1>6. Typed(d)
  <2>1. d.back \in [Queue -> Seq(Request)]
    BY <1>3, <1>4 DEF Account, Typed
  <2>2. d.done \subseteq Request
    BY <1>4, <1>5 DEF Account, Typed
  <2>3. d.length \in [Queue -> Int]
    BY DEF Account, Typed
  <2> QED BY <2>1, <2>2, <2>3 DEF Account, Typed
<1>7. RestOfProgram(d) /\ Orderly(d)
  BY DEF Account, RestOfProgram, Orderly
<1>8. Routed(d)
  <2>1. ASSUME NEW p \in Queue PROVE \A x \in Range(d.back[p]) : Route[x] = p
    <3>1. \A x \in Range(b.back[p]) : Route[x] = p
      BY <1>2 DEF Routed
    <3>2. CASE p = q
      BY <1>1, <1>3, <1>4, <3>1, <3>2
    <3>3. CASE p # q
      BY <1>4, <3>1, <3>3
    <3> QED BY <3>2, <3>3
  <2>2. ASSUME NEW p \in Queue
        PROVE  /\ \A x \in Range(d.fifo[p]) : Route[x] = p
               /\ \A x \in Range(d.ring[p]) : Route[x] = p
               /\ \A x \in Range(d.answers[p]) : Route[x] = p
    BY <1>2 DEF Routed
  <2>3. \A e \in Core : \A x \in Range(d.tasks[e]) : To(Route[x]) = e
    BY <1>2 DEF Routed
  <2> QED BY <2>1, <2>2, <2>3, Zenon DEF Routed
<1>9. NoneTwice(d)
  <2>1. ASSUME NEW p \in Queue PROVE Distinct(d.answers[p]) /\ Distinct(d.back[p])
    <3>1. Distinct(d.answers[p]) /\ Distinct(b.back[p])
      BY <1>2 DEF NoneTwice
    <3> QED BY <1>3, <1>4, <3>1
  <2>2. \A e \in Core : Distinct(d.tasks[e])
    BY <1>2 DEF NoneTwice
  <2> QED BY <2>1, <2>2, Zenon DEF NoneTwice
<1>10. \A x \in Request : after[x] = IF x \in Range(s) THEN "done" ELSE place[x]
  BY DEF Shift
<1>11. after \in [Request -> Stage]
  BY DEF Account, Placed, Shift, Stage
<1>12. Counted(d, after)
  <2>1. /\ place \in [Request -> Stage] /\ b.length \in [Queue -> Int]
        /\ \A p \in Queue : /\ IsFiniteSet(InTheAir(place, p))
                            /\ b.length[p] = Cardinality(InTheAir(place, p))
    BY DEF Account, Placed, Typed, Counted
  <2>2. "done" \in Stage \ Flying /\ \A r \in Range(s) : Route[r] = q /\ place[r] \in Flying
    BY <1>5 DEF Flying, Stage
  <2>3. /\ IsFiniteSet(InTheAir(after, q))
        /\ Cardinality(InTheAir(after, q)) = Cardinality(InTheAir(place, q)) - Len(s)
        /\ \A p \in Queue \ {q} : InTheAir(after, p) = InTheAir(place, p)
    <3>1. place \in [Request -> Stage] /\ IsFiniteSet(InTheAir(place, q))
      BY <2>1
    <3>2. s \in Seq(Request) /\ Distinct(s)
      BY <1>3
    <3>3. PICK to \in Stage \ Flying : to = "done"
      BY <2>2
    <3> HIDE DEF after
    <3>4. \A r \in Range(s) : Route[r] = q /\ place[r] \in Flying
      BY <2>2
    <3>5. after = Shift(place, Range(s), to)
      BY <3>3 DEF after
    <3> QED BY <3>1, <3>2, <3>4, <3>5, Land
  <2> HIDE DEF after
  <2> QED BY <1>3, <2>1, <2>3 DEF Counted
<1> HIDE DEF after
<1>13. Placed(d, after)
  <2>1. ASSUME NEW x \in Request
        PROVE  after[x] = "back" <=> x \in Range(d.back[Route[x]])
    <3>1. Route[x] \in Queue
      BY RequestFacts
    <3>2. place[x] = "back" <=> x \in Range(b.back[Route[x]])
      BY <1>2 DEF Placed
    <3>3. CASE Route[x] = q
      <4>1. d.back[Route[x]] = rest /\ b.back[Route[x]] = w
        BY <1>1, <1>4, <3>3
      <4> QED BY <1>3, <1>10, <3>2, <4>1
    <3>4. CASE Route[x] # q
      BY <1>4, <1>5, <1>10, <3>1, <3>2, <3>4
    <3> QED BY <3>3, <3>4
  <2>2. \A x \in Request : /\ after[x] \notin {"done", "back"} => after[x] = place[x]
                           /\ place[x] \notin {"done", "back"} => after[x] = place[x]
    BY <1>5, <1>10
  <2>3. \A x \in Request : after[x] = "done" <=> x \in d.done
    BY <1>2, <1>4, <1>10 DEF Placed
  <2>4. ASSUME NEW x \in Request
        PROVE  /\ after[x] = "todo" <=> x \in Range(d.todo[From(Route[x])])
               /\ after[x] = "fifo" <=> x \in Range(d.fifo[Route[x]])
               /\ after[x] = "ring" <=> x \in Range(d.ring[Route[x]])
               /\ after[x] = "deferred" <=> x \in d.deferred
               /\ after[x] = "task" <=> x \in Range(d.tasks[To(Route[x])])
               /\ after[x] = "answer" <=> x \in Range(d.answers[Route[x]])
    BY <1>2, <2>2 DEF Placed
  <2> QED BY <1>11, <2>1, <2>3, <2>4, Zenon DEF Placed
<1>14. Account(d, after)
  BY <1>6, <1>7, <1>8, <1>9, <1>12, <1>13 DEF Account
<1> QED BY <1>1, <1>5, <1>14 DEF after, s

\* The event a function has been waiting for: its request becomes a task.
Awaited(b, d, c, r) ==
    /\ d.deferred = b.deferred \ {r}
    /\ d.tasks = [b.tasks EXCEPT ![c] = Append(@, r)]
    /\ d.todo = b.todo /\ d.fifo = b.fifo /\ d.ring = b.ring /\ d.length = b.length
    /\ d.answers = b.answers /\ d.back = b.back /\ d.done = b.done

\* An event keeps the account: the function it waited for is now a task.
LEMMA Wait ==
    ASSUME NEW b, NEW place, Account(b, place),
           NEW c \in Core, NEW r \in b.deferred, Target[r] = c, NEW d, Awaited(b, d, c, r)
    PROVE  /\ r \in Request /\ place[r] = "deferred"
           /\ Account(d, Shift(place, {r}, "task"))
<1> USE DEF Awaited
<1> DEFINE after == Shift(place, {r}, "task")
<1>1. PICK s \in Seq(Request) : s = b.tasks[c]
  BY DEF Account, Typed
<1>2. Routed(b) /\ NoneTwice(b) /\ Placed(b, place)
  BY DEF Account
<1>3. r \in Request /\ To(Route[r]) = c /\ Route[r] \in Queue
  <2>1. r \in Request
    BY DEF Account, Typed
  <2> QED BY <2>1, RequestFacts
<1>4. place[r] = "deferred"
  BY <1>2, <1>3 DEF Placed
<1>5. /\ Append(s, r) \in Seq(Request) /\ Range(Append(s, r)) = Range(s) \cup {r}
      /\ Distinct(Append(s, r))
  <2>1. r \notin Range(s)
    BY <1>1, <1>2, <1>3, <1>4 DEF Placed
  <2>2. Distinct(s)
    BY <1>1, <1>2 DEF NoneTwice
  <2> QED BY <1>3, <2>1, <2>2, AppendRange
<1>6. /\ d.tasks[c] = Append(s, r) /\ \A e \in Core \ {c} : d.tasks[e] = b.tasks[e]
      /\ d.tasks = [b.tasks EXCEPT ![c] = Append(s, r)]
  BY <1>1 DEF Account, Typed
<1>7. Typed(d)
  <2>1. d.tasks \in [Core -> Seq(Request)]
    BY <1>5, <1>6 DEF Account, Typed
  <2>2. d.deferred \subseteq Request
    BY DEF Account, Typed
  <2> QED BY <2>1, <2>2 DEF Account, Typed
<1>8. RestOfProgram(d) /\ Orderly(d)
  BY DEF Account, RestOfProgram, Orderly
<1>9. Routed(d)
  <2>1. ASSUME NEW p \in Queue
        PROVE  /\ \A x \in Range(d.fifo[p]) : Route[x] = p
               /\ \A x \in Range(d.ring[p]) : Route[x] = p
               /\ \A x \in Range(d.answers[p]) : Route[x] = p
               /\ \A x \in Range(d.back[p]) : Route[x] = p
    BY <1>2 DEF Routed
  <2>2. ASSUME NEW e \in Core PROVE \A x \in Range(d.tasks[e]) : To(Route[x]) = e
    <3>1. \A x \in Range(b.tasks[e]) : To(Route[x]) = e
      BY <1>2 DEF Routed
    <3>2. CASE e = c
      BY <1>1, <1>3, <1>5, <1>6, <3>1, <3>2
    <3>3. CASE e # c
      BY <1>6, <3>1, <3>3
    <3> QED BY <3>2, <3>3
  <2> QED BY <2>1, <2>2, Zenon DEF Routed
<1>10. NoneTwice(d)
  <2>1. ASSUME NEW p \in Queue PROVE Distinct(d.answers[p]) /\ Distinct(d.back[p])
    BY <1>2 DEF NoneTwice
  <2>2. ASSUME NEW e \in Core PROVE Distinct(d.tasks[e])
    <3>1. Distinct(b.tasks[e])
      BY <1>2 DEF NoneTwice
    <3> QED BY <1>5, <1>6, <3>1
  <2> QED BY <2>1, <2>2, Zenon DEF NoneTwice
<1>11. \A x \in Request : after[x] = IF x = r THEN "task" ELSE place[x]
  BY DEF Shift
<1>12. after \in [Request -> Stage]
  BY DEF Account, Placed, Shift, Stage
<1>13. Counted(d, after)
  <2>1. place \in [Request -> Stage] /\ Counted(b, place) /\ {r} \in SUBSET Request /\ "task" \in Stage
    BY <1>3 DEF Account, Placed, Stage
  <2>2. \A x \in {r} : place[x] \in Flying <=> "task" \in Flying
    BY <1>4 DEF Flying
  <2>3. Counted(b, after)
    BY <2>1, <2>2, StayCounted
  <2> HIDE DEF after
  <2> QED BY <2>3 DEF Counted
<1> HIDE DEF after
<1>14. Placed(d, after)
  <2>1. ASSUME NEW x \in Request
        PROVE  /\ after[x] = "deferred" <=> x \in d.deferred
               /\ after[x] = "task" <=> x \in Range(d.tasks[To(Route[x])])
    <3>1. To(Route[x]) \in Core
      BY RequestFacts
    <3>2. /\ place[x] = "deferred" <=> x \in b.deferred
          /\ place[x] = "task" <=> x \in Range(b.tasks[To(Route[x])])
      BY <1>2 DEF Placed
    <3>3. after[x] = "deferred" <=> x \in d.deferred
      BY <1>11, <3>2
    <3>4. CASE To(Route[x]) = c
      <4>1. d.tasks[To(Route[x])] = Append(s, r) /\ b.tasks[To(Route[x])] = s
        BY <1>1, <1>6, <3>4
      <4> QED BY <1>4, <1>5, <1>11, <3>2, <3>3, <4>1
    <3>5. CASE To(Route[x]) # c
      BY <1>3, <1>6, <1>11, <3>1, <3>2, <3>3, <3>5
    <3> QED BY <3>4, <3>5
  <2>2. \A x \in Request : /\ after[x] \notin {"deferred", "task"} => after[x] = place[x]
                           /\ place[x] \notin {"deferred", "task"} => after[x] = place[x]
    BY <1>4, <1>11
  <2>3. ASSUME NEW x \in Request
        PROVE  /\ after[x] = "todo" <=> x \in Range(d.todo[From(Route[x])])
               /\ after[x] = "fifo" <=> x \in Range(d.fifo[Route[x]])
               /\ after[x] = "ring" <=> x \in Range(d.ring[Route[x]])
               /\ after[x] = "answer" <=> x \in Range(d.answers[Route[x]])
               /\ after[x] = "back" <=> x \in Range(d.back[Route[x]])
               /\ after[x] = "done" <=> x \in d.done
    BY <1>2, <2>2 DEF Placed
  <2> QED BY <1>12, <2>1, <2>3, Zenon DEF Placed
<1> QED BY <1>3, <1>4, <1>7, <1>8, <1>9, <1>10, <1>13, <1>14 DEF Account, after

\* Joining sequences is associative.
LEMMA Regroup == \A x, y, z \in Seq(Request) : (x \o y) \o z = x \o (y \o z)
BY ConcatAssociative

\* The requests popped from a ring are those whose functions finish at once
\* and those whose functions wait.
Parts(s, n, k, early, first, late) ==
    /\ Distinct(s)
    /\ \A i, j \in 1 .. k : i < j => early[i] < early[j]
    /\ first = [i \in 1 .. k |-> s[early[i]]]
    /\ late = {s[i] : i \in (1 .. n) \ Range(early)}

\* The requests taken from the ring are those that finish at once and those
\* that wait, and none is in both.
LEMMA EarlyAndLate ==
    ASSUME NEW s \in Seq(Request), NEW n \in 0 .. Len(s), NEW k \in 0 .. n,
           NEW early \in [1 .. k -> 1 .. n], NEW first, NEW late,
           Parts(s, n, k, early, first, late)
    PROVE  /\ first \in Seq(Request) /\ Distinct(first)
           /\ late \subseteq Request
           /\ Range(SubSeq(s, 1, n)) = Range(first) \cup late
           /\ Range(first) \cap late = {}
<1> USE DEF Parts
<1>1. \A i \in 1 .. k : early[i] \in 1 .. n /\ early[i] \in DOMAIN s
  OBVIOUS
<1>2. \A i, j \in 1 .. k : early[i] = early[j] => i = j
  <2>1. \A i \in 1 .. k : early[i] \in Int /\ i \in Int
    OBVIOUS
  <2> QED BY <2>1
<1>3. first \in Seq(Request) /\ DOMAIN first = 1 .. k /\ \A i \in 1 .. k : first[i] = s[early[i]]
  BY <1>1
<1>4. \A i \in 1 .. n : i \in DOMAIN s
  OBVIOUS
<1>5. Distinct(first)
  <2>1. \A i, j \in DOMAIN first : first[i] = first[j] => early[i] = early[j]
    BY <1>1, <1>3 DEF Distinct
  <2> QED BY <1>2, <1>3, <2>1 DEF Distinct
<1>6. late \subseteq Request
  BY <1>4
<1>7. Range(early) = {early[i] : i \in 1 .. k}
  BY DEF Range
<1>8. /\ DOMAIN SubSeq(s, 1, n) = 1 .. n /\ \A i \in 1 .. n : SubSeq(s, 1, n)[i] = s[i]
  BY SplitSeq
<1>9. Range(SubSeq(s, 1, n)) = {s[i] : i \in 1 .. n}
  BY <1>8 DEF Range
<1>10. Range(first) = {s[early[i]] : i \in 1 .. k}
  BY <1>3 DEF Range
<1>11. Range(first) = {s[i] : i \in Range(early)}
  BY <1>7, <1>10
<1>12. Range(early) \subseteq 1 .. n
  BY <1>1, <1>7
<1>13. Range(SubSeq(s, 1, n)) = Range(first) \cup late
  BY <1>9, <1>11, <1>12
<1>14. Range(first) \cap late = {}
  <2> SUFFICES ASSUME NEW i \in Range(early), NEW j \in (1 .. n) \ Range(early), s[i] = s[j]
               PROVE  FALSE
    BY <1>11
  <2>1. i \in DOMAIN s /\ j \in DOMAIN s
    BY <1>4, <1>12
  <2> QED BY <2>1 DEF Distinct
<1> QED BY <1>3, <1>5, <1>6, <1>13, <1>14

\* process_incoming: the first n requests of the ring are popped; some become
\* tasks, the others wait.
Started(b, d, q, n, c, first, late) ==
    /\ d.ring = [b.ring EXCEPT ![q] = SubSeq(@, n + 1, Len(@))]
    /\ d.tasks = [b.tasks EXCEPT ![c] = @ \o first]
    /\ d.deferred = b.deferred \cup late
    /\ d.todo = b.todo /\ d.fifo = b.fifo /\ d.length = b.length /\ d.answers = b.answers
    /\ d.back = b.back /\ d.done = b.done

\* Starting functions keeps the account: each request taken is a task or
\* waits for an event.
LEMMA StartFunctions ==
    ASSUME NEW b, NEW place, Account(b, place),
           NEW q \in Queue, NEW n \in 0 .. Len(b.ring[q]), NEW c, c = To(q),
           NEW first \in Seq(Request), NEW late \in SUBSET Request, Distinct(first),
           Range(SubSeq(b.ring[q], 1, n)) = Range(first) \cup late,
           Range(first) \cap late = {}, NEW d, Started(b, d, q, n, c, first, late)
    PROVE  Account(d, Shift(Shift(place, Range(first), "task"), late, "deferred"))
<1> USE DEF Started
<1>1. PICK w \in Seq(Request), u \in Seq(Request), t \in Seq(Request) :
          w = b.ring[q] /\ u = b.fifo[q] /\ t = b.tasks[c]
  BY DEF Account, Typed, To, Queue
<1> DEFINE s == SubSeq(w, 1, n)
           rest == SubSeq(w, n + 1, Len(w))
           after == Shift(Shift(place, Range(first), "task"), late, "deferred")
<1>2. Routed(b) /\ NoneTwice(b) /\ Placed(b, place) /\ Orderly(b) /\ Typed(b) /\ c \in Core
  BY DEF Account, To, Queue
<1>3. /\ s \in Seq(Request) /\ rest \in Seq(Request)
      /\ Range(w) = Range(s) \cup Range(rest) /\ Range(s) \cap Range(rest) = {}
      /\ s \o rest = w
  <2>1. n \in 0 .. Len(w)
    BY <1>1
  <2>2. Distinct(w)
    BY <1>1, <1>2, BatchAndRing
  <2>3. s \in Seq(Request) /\ rest \in Seq(Request)
    BY <2>1, SplitSeq
  <2>4. /\ Range(w) = Range(s) \cup Range(rest)
        /\ Range(s) \cap Range(rest) = {}
    BY <2>1, <2>2, SplitRange
  <2>5. s \o rest = w
    BY <2>1, SplitJoin, Zenon
  <2> QED BY <2>3, <2>4, <2>5
<1>4. /\ d.ring = [b.ring EXCEPT ![q] = rest] /\ d.tasks = [b.tasks EXCEPT ![c] = t \o first]
      /\ Range(s) = Range(first) \cup late
  BY <1>1
<1> HIDE DEF s, rest
<1>5. /\ d.ring[q] = rest /\ \A p \in Queue \ {q} : d.ring[p] = b.ring[p]
      /\ d.tasks[c] = t \o first /\ \A e \in Core \ {c} : d.tasks[e] = b.tasks[e]
  BY <1>2, <1>4 DEF Typed
<1>6. \A r \in Range(s) : r \in Request /\ Route[r] = q /\ place[r] = "ring"
  <2>1. \A r \in Range(w) : r \in Request
    BY DEF Range
  <2>2. \A r \in Range(w) : Route[r] = q
    BY <1>1, <1>2 DEF Routed
  <2>3. \A r \in Range(w) : place[r] = "ring"
    BY <1>1, <1>2, <2>1, <2>2 DEF Placed
  <2> QED BY <1>3, <2>1, <2>2, <2>3
<1>7. /\ t \o first \in Seq(Request) /\ Range(t \o first) = Range(t) \cup Range(first)
      /\ Distinct(t \o first)
  <2>1. Distinct(t)
    BY <1>1, <1>2 DEF NoneTwice
  <2>2. Range(t) \cap Range(first) = {}
    <3>1. \A r \in Range(first) : r \in Request /\ Route[r] = q /\ place[r] = "ring"
      BY <1>4, <1>6
    <3>2. \A r \in Range(first) : r \notin Range(t)
      BY <1>1, <1>2, <3>1 DEF Placed
    <3> QED BY <3>2
  <2>3. t \o first \in Seq(Request)
    OBVIOUS
  <2> QED BY <2>1, <2>2, <2>3, JoinRange
<1>8. Typed(d)
  <2>1. d.ring \in [Queue -> Seq(Request)]
    BY <1>2, <1>3, <1>4, ZenonT(30) DEF Typed
  <2>2. d.tasks \in [Core -> Seq(Request)]
    BY <1>2, <1>4, <1>7 DEF Typed
  <2>3. d.deferred \subseteq Request
    BY <1>2 DEF Typed
  <2> QED BY <1>2, <2>1, <2>2, <2>3 DEF Typed
<1>9. RestOfProgram(d)
  BY DEF Account, RestOfProgram
<1>10. Orderly(d)
  <2>1. \A p \in Queue \ {q} : Ascending(d.ring[p] \o d.fifo[p])
    BY <1>2, <1>5 DEF Orderly
  <2>2. Ascending(w \o u)
    BY <1>1, <1>2 DEF Orderly
  <2>3. (s \o rest) \o u = s \o (rest \o u)
    <3>1. s \in Seq(Request) /\ rest \in Seq(Request) /\ u \in Seq(Request)
      BY <1>3
    <3>2. \A x \in Seq(Request) : (s \o rest) \o x = s \o (rest \o x)
      BY <3>1, Regroup, ZenonT(60)
    <3> QED BY <3>1, <3>2, Zenon
  <2>4. Ascending(s \o (rest \o u)) /\ rest \o u \in Seq(Request) /\ s \in Seq(Request)
    BY <1>3, <2>2, <2>3
  <2>5. Ascending(rest \o u)
    BY <2>4, AscendingParts
  <2> QED BY <1>1, <1>5, <2>1, <2>5 DEF Orderly
<1>11. Routed(d)
  <2>1. ASSUME NEW p \in Queue PROVE \A x \in Range(d.ring[p]) : Route[x] = p
    <3>1. \A x \in Range(b.ring[p]) : Route[x] = p
      BY <1>2 DEF Routed
    <3>2. CASE p = q
      BY <1>1, <1>3, <1>5, <3>1, <3>2
    <3>3. CASE p # q
      BY <1>5, <3>1, <3>3
    <3> QED BY <3>2, <3>3
  <2>2. ASSUME NEW p \in Queue
        PROVE  /\ \A x \in Range(d.fifo[p]) : Route[x] = p
               /\ \A x \in Range(d.answers[p]) : Route[x] = p
               /\ \A x \in Range(d.back[p]) : Route[x] = p
    BY <1>2 DEF Routed
  <2>3. ASSUME NEW e \in Core PROVE \A x \in Range(d.tasks[e]) : To(Route[x]) = e
    <3>1. \A x \in Range(b.tasks[e]) : To(Route[x]) = e
      BY <1>2 DEF Routed
    <3>2. CASE e = c
      BY <1>1, <1>4, <1>5, <1>6, <1>7, <3>1, <3>2
    <3>3. CASE e # c
      BY <1>5, <3>1, <3>3
    <3> QED BY <3>2, <3>3
  <2> QED BY <2>1, <2>2, <2>3, Zenon DEF Routed
<1>12. NoneTwice(d)
  <2>1. ASSUME NEW p \in Queue PROVE Distinct(d.answers[p]) /\ Distinct(d.back[p])
    BY <1>2 DEF NoneTwice
  <2>2. ASSUME NEW e \in Core PROVE Distinct(d.tasks[e])
    <3>1. Distinct(b.tasks[e])
      BY <1>2 DEF NoneTwice
    <3> QED BY <1>5, <1>7, <3>1
  <2> QED BY <2>1, <2>2, Zenon DEF NoneTwice
<1>13. \A x \in Request : after[x] = IF x \in late THEN "deferred"
                                     ELSE IF x \in Range(first) THEN "task" ELSE place[x]
  BY DEF Shift
<1>14. after \in [Request -> Stage]
  BY <1>2 DEF Placed, Shift, Stage
<1>15. Counted(d, after)
  <2> DEFINE middle == Shift(place, Range(first), "task")
  <2>1. /\ place \in [Request -> Stage] /\ middle \in [Request -> Stage] /\ Counted(b, place)
        /\ Range(first) \in SUBSET Request /\ late \in SUBSET Request
        /\ "task" \in Stage /\ "deferred" \in Stage
    BY <1>4, <1>6 DEF Account, Placed, Stage, Shift
  <2>2. \A x \in Range(first) : place[x] \in Flying <=> "task" \in Flying
    BY <1>4, <1>6 DEF Flying
  <2>3. \A x \in late : middle[x] \in Flying <=> "deferred" \in Flying
    BY <1>4, <1>6 DEF Flying, Shift
  <2>4. Counted(b, middle)
    BY <2>1, <2>2, StayCounted
  <2> HIDE DEF middle
  <2>5. Counted(b, Shift(middle, late, "deferred"))
    BY <2>1, <2>3, <2>4, StayCounted
  <2>6. Counted(b, after)
    BY <2>5 DEF middle
  <2> HIDE DEF after
  <2> QED BY <2>6 DEF Counted
<1> HIDE DEF after
<1>16. Placed(d, after)
  <2>1. ASSUME NEW x \in Request
        PROVE  /\ after[x] = "ring" <=> x \in Range(d.ring[Route[x]])
               /\ after[x] = "deferred" <=> x \in d.deferred
               /\ after[x] = "task" <=> x \in Range(d.tasks[To(Route[x])])
    <3>1. Route[x] \in Queue /\ To(Route[x]) \in Core
      BY RequestFacts
    <3>2. /\ place[x] = "ring" <=> x \in Range(b.ring[Route[x]])
          /\ place[x] = "deferred" <=> x \in b.deferred
          /\ place[x] = "task" <=> x \in Range(b.tasks[To(Route[x])])
      BY <1>2 DEF Placed
    <3>3. x \in Range(first) \/ x \in late => Route[x] = q /\ place[x] = "ring"
      BY <1>4, <1>6
    <3>4. after[x] = "deferred" <=> x \in d.deferred
      BY <1>13, <3>2, <3>3
    <3>5. after[x] = "ring" <=> x \in Range(d.ring[Route[x]])
      <4>1. CASE Route[x] = q
        <5>1. d.ring[Route[x]] = rest /\ b.ring[Route[x]] = w
          BY <1>1, <1>5, <4>1
        <5>2. x \in Range(s) <=> x \in Range(first) \/ x \in late
          BY <1>4
        <5> QED BY <1>3, <1>13, <3>2, <5>1, <5>2
      <4>2. CASE Route[x] # q
        BY <1>5, <1>13, <3>1, <3>2, <3>3, <4>2
      <4> QED BY <4>1, <4>2
    <3>6. after[x] = "task" <=> x \in Range(d.tasks[To(Route[x])])
      <4>1. CASE To(Route[x]) = c
        <5>1. d.tasks[To(Route[x])] = t \o first /\ b.tasks[To(Route[x])] = t
          BY <1>1, <1>5, <4>1
        <5> QED BY <1>7, <1>13, <3>2, <3>3, <5>1
      <4>2. CASE To(Route[x]) # c
        BY <1>5, <1>13, <3>1, <3>2, <3>3, <4>2
      <4> QED BY <4>1, <4>2
    <3> QED BY <3>4, <3>5, <3>6
  <2>2. \A x \in Request : /\ after[x] \notin {"ring", "deferred", "task"} => after[x] = place[x]
                           /\ place[x] \notin {"ring", "deferred", "task"} => after[x] = place[x]
    BY <1>4, <1>6, <1>13
  <2>3. ASSUME NEW x \in Request
        PROVE  /\ after[x] = "todo" <=> x \in Range(d.todo[From(Route[x])])
               /\ after[x] = "fifo" <=> x \in Range(d.fifo[Route[x]])
               /\ after[x] = "answer" <=> x \in Range(d.answers[Route[x]])
               /\ after[x] = "back" <=> x \in Range(d.back[Route[x]])
               /\ after[x] = "done" <=> x \in d.done
    <3>1. /\ after[x] = "todo" <=> place[x] = "todo"
          /\ after[x] = "fifo" <=> place[x] = "fifo"
          /\ after[x] = "answer" <=> place[x] = "answer"
          /\ after[x] = "back" <=> place[x] = "back"
          /\ after[x] = "done" <=> place[x] = "done"
      BY <2>2
    <3> QED BY <1>2, <3>1 DEF Placed
  <2> QED BY <1>14, <2>1, <2>3, Zenon DEF Placed
<1> QED BY <1>8, <1>9, <1>10, <1>11, <1>12, <1>15, <1>16 DEF Account, after

-----------------------------------------------------------------------------
(* The steps of the cores.                                                 *)

\* What a flush moves leaves the ring within its size, and is all of the batch
\* unless the ring is full.
LEMMA FitsFacts ==
    ASSUME NEW fifo \in Seq(Request), NEW ring \in Seq(Request), Len(ring) <= RingSize
    PROVE  /\ Fits(fifo, ring) \in 0 .. Len(fifo)
           /\ Len(ring) + Fits(fifo, ring) <= RingSize
           /\ Fits(fifo, ring) < Len(fifo) => Len(ring) + Fits(fifo, ring) = RingSize
BY SizeAssumption DEF Fits

\* How far a request in this place is for its caller.
Shown(place) == [r \in Request |->
    IF place[r] = "todo" THEN "new"
    ELSE IF place[r] \in {"fifo", "ring"} THEN "sent"
    ELSE IF place[r] \in {"deferred", "task"} THEN "running"
    ELSE IF place[r] \in {"answer", "back"} THEN "finished"
    ELSE "done"]

\* The requests of S come as far as to.
Raise(place, S, to) == [r \in Request |-> IF r \in S THEN to ELSE Shown(place)[r]]

\* x is submitted before r on the same queue.
Before(x, r) == Route[x] = Route[r] /\ Rank[x] < Rank[r]

\* What a step of a core may mean for the callers.
Submits(place, after, r) ==
    /\ r \in Request /\ place[r] = "todo"
    /\ \A x \in Request : Before(x, r) => place[x] # "todo"
    /\ Shown(after) = Raise(place, {r}, "sent")

\* process_incoming starts requests of S, with none before them left.
Starts(place, after, S) ==
    /\ S \subseteq Request /\ \A r \in S : place[r] = "ring"
    /\ \A r \in S : \A x \in Request \ S : Before(x, r) => place[x] \notin {"todo", "fifo", "ring"}
    /\ Shown(after) = Raise(place, S, "running")

\* The function of r has ended.
Finishes(place, after, r) ==
    /\ r \in Request /\ place[r] = "task"
    /\ Shown(after) = Raise(place, {r}, "finished")

\* process_completions gives the answers of S to the caller.
Completes(place, after, S) ==
    /\ S \subseteq Request /\ \A r \in S : place[r] = "back"
    /\ Shown(after) = Raise(place, S, "done")

\* One of these, or nothing that callers could tell.
Advance(place, after) ==
    \/ Shown(after) = Shown(place)
    \/ \E r : Submits(place, after, r)
    \/ \E S : Starts(place, after, S)
    \/ \E r : Finishes(place, after, r)
    \/ \E S : Completes(place, after, S)

\* A step that ends with the books balanced and means something to the callers.
Good(place) == \E after : Account(Books', after) /\ Advance(place, after)

\* Requests that go from the batch to the ring have been sent before and after.
LEMMA ShownShift ==
    ASSUME NEW place, NEW S \in SUBSET Request, NEW to \in Stage
    PROVE  /\ to = "ring" /\ (\A r \in S : place[r] = "fifo") => Shown(Shift(place, S, to)) = Shown(place)
           /\ to = "back" /\ (\A r \in S : place[r] = "answer") => Shown(Shift(place, S, to)) = Shown(place)
           /\ to = "task" /\ (\A r \in S : place[r] = "deferred") => Shown(Shift(place, S, to)) = Shown(place)
           /\ to = "fifo" => Shown(Shift(place, S, to)) = Raise(place, S, "sent")
           /\ to = "answer" => Shown(Shift(place, S, to)) = Raise(place, S, "finished")
           /\ to = "done" => Shown(Shift(place, S, to)) = Raise(place, S, "done")
<1> DEFINE after == Shift(place, S, to)
<1>1. \A r \in Request : after[r] = IF r \in S THEN to ELSE place[r]
  BY DEF Shift
<1> HIDE DEF after
<1>2. to = "ring" /\ (\A r \in S : place[r] = "fifo") => Shown(after) = Shown(place)
  BY <1>1 DEF Shown
<1>3. to = "back" /\ (\A r \in S : place[r] = "answer") => Shown(after) = Shown(place)
  BY <1>1 DEF Shown
<1>4. to = "task" /\ (\A r \in S : place[r] = "deferred") => Shown(after) = Shown(place)
  BY <1>1 DEF Shown
<1>5. to = "fifo" => Shown(after) = Raise(place, S, "sent")
  BY <1>1 DEF Shown, Raise
<1>6. to = "answer" => Shown(after) = Raise(place, S, "finished")
  BY <1>1 DEF Shown, Raise
<1>7. to = "done" => Shown(after) = Raise(place, S, "done")
  BY <1>1 DEF Shown, Raise
<1> QED BY <1>2, <1>3, <1>4, <1>5, <1>6, <1>7 DEF after

\* smp::submit_to with move_pending.
LEMMA SubmitStep ==
    ASSUME TypeOK, NEW place, Account(Books, place), NEW c \in Core, Submit(c)
    PROVE  Good(place)
<1>1. PICK b, d : b = Books /\ d = Books'
  OBVIOUS
<1>2. /\ b.todo = todo /\ b.fifo = pending_fifo /\ b.ring = pending
      /\ b.deferred = deferred /\ b.tasks = tasks /\ b.answers = completed_fifo
      /\ b.back = completed /\ b.done = done /\ b.length = queue_length
  BY <1>1 DEF Books
<1>3. /\ d.todo = todo' /\ d.fifo = pending_fifo' /\ d.ring = pending'
      /\ d.deferred = deferred' /\ d.tasks = tasks' /\ d.answers = completed_fifo'
      /\ d.back = completed' /\ d.done = done' /\ d.length = queue_length'
  BY <1>1 DEF Books
<1>4. PICK r, q, fifo : r = Head(todo[c]) /\ q = <<Target[r], c>> /\ fifo = Append(pending_fifo[q], r)
  OBVIOUS
<1>5. /\ todo[c] # << >> /\ todo' = [todo EXCEPT ![c] = Tail(@)]
      /\ \/ MovePending(c, q, fifo)
         \/ pending_fifo' = [pending_fifo EXCEPT ![q] = fifo] /\ UNCHANGED <<pending, queue_length>>
      /\ UNCHANGED <<completed_fifo, completed, deferred, tasks, done>>
  BY <1>4 DEF Submit
<1>6. PICK mid : mid = [todo |-> todo', fifo |-> [pending_fifo EXCEPT ![q] = fifo], ring |-> pending,
                        deferred |-> deferred, tasks |-> tasks, answers |-> completed_fifo,
                        back |-> completed, done |-> done, length |-> queue_length]
  OBVIOUS
<1>7. Enqueued(b, mid, c, r, q)
  BY <1>2, <1>4, <1>5, <1>6, Zenon DEF Enqueued
<1> DEFINE between == Shift(place, {r}, "fifo")
<1>8. /\ q \in Queue /\ r \in Request /\ Route[r] = q /\ place[r] = "todo"
      /\ \A x \in Request : Route[x] = q =>
            IF place[x] = "todo" THEN Rank[r] <= Rank[x] ELSE Rank[x] < Rank[r]
      /\ Account(mid, between)
  <2>1. Account(b, place)
    BY <1>1
  <2> QED BY <1>7, <2>1, Enqueue
<1>9. \A x \in Request : Before(x, r) => place[x] # "todo"
  <2>1. \A x \in Request : Rank[x] \in Nat
    BY RequestFacts
  <2> QED BY <1>8, <2>1 DEF Before
<1>10. Shown(between) = Raise(place, {r}, "sent")
  <2>1. {r} \in SUBSET Request /\ "fifo" \in Stage
    BY <1>8 DEF Stage
  <2> QED BY <2>1, ShownShift
<1> HIDE DEF between
<1>11. CASE pending_fifo' = [pending_fifo EXCEPT ![q] = fifo] /\ UNCHANGED <<pending, queue_length>>
  <2>1. mid = Books'
    BY <1>5, <1>6, <1>11 DEF Books
  <2>2. Advance(place, between)
    BY <1>8, <1>9, <1>10 DEF Advance, Submits
  <2> QED BY <1>8, <2>1, <2>2 DEF Good
<1>12. CASE MovePending(c, q, fifo)
  <2>1. PICK n : n = Fits(fifo, pending[q])
    OBVIOUS
  <2>2. pending[q] \in Seq(Request) /\ Len(pending[q]) <= RingSize /\ pending_fifo[q] \in Seq(Request)
    BY <1>8 DEF TypeOK
  <2>3. fifo \in Seq(Request) /\ n \in 0 .. Len(fifo)
    <3>1. fifo \in Seq(Request)
      BY <1>4, <1>8, <2>2
    <3> QED BY <2>1, <2>2, <3>1, FitsFacts
  <2>4. mid.fifo[q] = fifo
    BY <1>6, <1>8 DEF TypeOK
  <2>5. /\ d.fifo = [mid.fifo EXCEPT ![q] = SubSeq(@, n + 1, Len(@))]
        /\ d.ring = [mid.ring EXCEPT ![q] = @ \o SubSeq(mid.fifo[q], 1, n)]
        /\ d.length = [mid.length EXCEPT ![q] = @ + n]
    <3>1. /\ pending' = [pending EXCEPT ![q] = @ \o SubSeq(fifo, 1, n)]
          /\ pending_fifo' = [pending_fifo EXCEPT ![q] = SubSeq(fifo, n + 1, Len(fifo))]
          /\ queue_length' = [queue_length EXCEPT ![q] = @ + n]
      BY <1>12, <2>1 DEF MovePending
    <3>2. pending_fifo \in [Queue -> Seq(Request)]
      BY DEF TypeOK
    <3>3. d.fifo = [mid.fifo EXCEPT ![q] = SubSeq(@, n + 1, Len(@))]
      <4>1. d.fifo = [pending_fifo EXCEPT ![q] = SubSeq(fifo, n + 1, Len(fifo))]
        BY <1>3, <3>1
      <4>2. mid.fifo = [pending_fifo EXCEPT ![q] = fifo]
        BY <1>6
      <4> QED BY <1>8, <2>4, <3>2, <4>1, <4>2
    <3>4. d.ring = [mid.ring EXCEPT ![q] = @ \o SubSeq(mid.fifo[q], 1, n)]
      BY <1>3, <1>6, <2>4, <3>1
    <3>5. d.length = [mid.length EXCEPT ![q] = @ + n]
      BY <1>3, <1>6, <3>1
    <3> QED BY <3>3, <3>4, <3>5
  <2>6. /\ d.todo = mid.todo /\ d.deferred = mid.deferred /\ d.tasks = mid.tasks
        /\ d.answers = mid.answers /\ d.back = mid.back /\ d.done = mid.done
    BY <1>3, <1>5, <1>6
  <2> DEFINE s == SubSeq(mid.fifo[q], 1, n)
  <2>7. /\ \A x \in Range(s) : x \in Request /\ between[x] = "fifo"
        /\ Account(d, Shift(between, Range(s), "ring"))
    <3>1. n \in 0 .. Len(mid.fifo[q])
      BY <2>3, <2>4
    <3>2. Sent(mid, d, q, n)
      BY <2>5, <2>6 DEF Sent
    <3> QED BY <1>8, <3>1, <3>2, SendRequests
  <2> HIDE DEF s
  <2>8. Shown(Shift(between, Range(s), "ring")) = Shown(between)
    <3>1. Range(s) \in SUBSET Request /\ "ring" \in Stage
      BY <2>7 DEF Stage
    <3> QED BY <2>7, <3>1, ShownShift
  <2>9. Advance(place, Shift(between, Range(s), "ring"))
    BY <1>8, <1>9, <1>10, <2>8 DEF Advance, Submits
  <2> QED BY <1>1, <2>7, <2>9 DEF Good
<1> QED BY <1>5, <1>11, <1>12

\* run_tasks with respond() and flush_response_batch.
LEMMA RespondStep ==
    ASSUME TypeOK, NEW place, Account(Books, place), NEW c \in Core, Respond(c)
    PROVE  Good(place)
<1>1. PICK b, d : b = Books /\ d = Books'
  OBVIOUS
<1>2. /\ b.todo = todo /\ b.fifo = pending_fifo /\ b.ring = pending
      /\ b.deferred = deferred /\ b.tasks = tasks /\ b.answers = completed_fifo
      /\ b.back = completed /\ b.done = done /\ b.length = queue_length
  BY <1>1 DEF Books
<1>3. /\ d.todo = todo' /\ d.fifo = pending_fifo' /\ d.ring = pending'
      /\ d.deferred = deferred' /\ d.tasks = tasks' /\ d.answers = completed_fifo'
      /\ d.back = completed' /\ d.done = done' /\ d.length = queue_length'
  BY <1>1 DEF Books
<1>4. PICK r, q, fifo : r = Head(tasks[c]) /\ q = Route[r] /\ fifo = Append(completed_fifo[q], r)
  OBVIOUS
<1>5. /\ tasks[c] # << >> /\ tasks' = [tasks EXCEPT ![c] = Tail(@)]
      /\ \/ FlushResponses(c, q, fifo)
         \/ completed_fifo' = [completed_fifo EXCEPT ![q] = fifo] /\ UNCHANGED completed
      /\ UNCHANGED <<pending_fifo, pending, queue_length, todo, deferred, done>>
  BY <1>4 DEF Respond
<1>6. PICK mid : mid = [todo |-> todo, fifo |-> pending_fifo, ring |-> pending,
                        deferred |-> deferred, tasks |-> tasks',
                        answers |-> [completed_fifo EXCEPT ![q] = fifo],
                        back |-> completed, done |-> done, length |-> queue_length]
  OBVIOUS
<1>7. Responded(b, mid, c, r, q)
  BY <1>2, <1>4, <1>5, <1>6, Zenon DEF Responded
<1> DEFINE between == Shift(place, {r}, "answer")
<1>8. /\ q \in Queue /\ r \in Request /\ place[r] = "task" /\ Account(mid, between)
  <2>1. Account(b, place)
    BY <1>1
  <2> QED BY <1>7, <2>1, FinishTask
<1>9. Shown(between) = Raise(place, {r}, "finished")
  <2>1. {r} \in SUBSET Request /\ "answer" \in Stage
    BY <1>8 DEF Stage
  <2> QED BY <2>1, ShownShift
<1> HIDE DEF between
<1>10. CASE completed_fifo' = [completed_fifo EXCEPT ![q] = fifo] /\ UNCHANGED completed
  <2>1. mid = Books'
    BY <1>5, <1>6, <1>10 DEF Books
  <2>2. Advance(place, between)
    BY <1>8, <1>9 DEF Advance, Finishes
  <2> QED BY <1>8, <2>1, <2>2 DEF Good
<1>11. CASE FlushResponses(c, q, fifo)
  <2>1. PICK n : n = Fits(fifo, completed[q])
    OBVIOUS
  <2>2. completed[q] \in Seq(Request) /\ Len(completed[q]) <= RingSize /\ completed_fifo[q] \in Seq(Request)
    BY <1>8 DEF TypeOK
  <2>3. fifo \in Seq(Request) /\ n \in 0 .. Len(fifo)
    <3>1. fifo \in Seq(Request)
      BY <1>4, <1>8, <2>2
    <3> QED BY <2>1, <2>2, <3>1, FitsFacts
  <2>4. mid.answers[q] = fifo
    BY <1>6, <1>8 DEF TypeOK
  <2>5. Answered(mid, d, q, n)
    <3>1. /\ completed' = [completed EXCEPT ![q] = @ \o SubSeq(fifo, 1, n)]
          /\ completed_fifo' = [completed_fifo EXCEPT ![q] = SubSeq(fifo, n + 1, Len(fifo))]
      BY <1>11, <2>1 DEF FlushResponses
    <3>2. completed_fifo \in [Queue -> Seq(Request)]
      BY DEF TypeOK
    <3>3. d.answers = [mid.answers EXCEPT ![q] = SubSeq(@, n + 1, Len(@))]
      <4>1. d.answers = [completed_fifo EXCEPT ![q] = SubSeq(fifo, n + 1, Len(fifo))]
        BY <1>3, <3>1
      <4>2. mid.answers = [completed_fifo EXCEPT ![q] = fifo]
        BY <1>6
      <4> QED BY <1>8, <2>4, <3>2, <4>1, <4>2
    <3>4. d.back = [mid.back EXCEPT ![q] = @ \o SubSeq(mid.answers[q], 1, n)]
      BY <1>3, <1>6, <2>4, <3>1
    <3>5. /\ d.todo = mid.todo /\ d.fifo = mid.fifo /\ d.ring = mid.ring /\ d.length = mid.length
          /\ d.deferred = mid.deferred /\ d.tasks = mid.tasks /\ d.done = mid.done
      BY <1>3, <1>5, <1>6
    <3> QED BY <3>3, <3>4, <3>5 DEF Answered
  <2> DEFINE s == SubSeq(mid.answers[q], 1, n)
  <2>6. /\ \A x \in Range(s) : x \in Request /\ between[x] = "answer"
        /\ Account(d, Shift(between, Range(s), "back"))
    <3>1. n \in 0 .. Len(mid.answers[q])
      BY <2>3, <2>4
    <3> QED BY <1>8, <2>5, <3>1, SendAnswers
  <2> HIDE DEF s
  <2>7. Shown(Shift(between, Range(s), "back")) = Shown(between)
    <3>1. Range(s) \in SUBSET Request /\ "back" \in Stage
      BY <2>6 DEF Stage
    <3> QED BY <2>6, <3>1, ShownShift
  <2>8. Advance(place, Shift(between, Range(s), "back"))
    BY <1>8, <1>9, <2>7 DEF Advance, Finishes
  <2> QED BY <1>1, <2>6, <2>8 DEF Good
<1> QED BY <1>5, <1>10, <1>11

\* The flush of responses by poll_queues.
LEMMA PollFlushResponsesStep ==
    ASSUME TypeOK, NEW place, Account(Books, place), NEW c \in Core, Rx(c) \in Queue,
           PollFlushResponses(c)
    PROVE  Good(place)
<1>1. PICK b, d, q : b = Books /\ d = Books' /\ q = Rx(c)
  OBVIOUS
<1>2. PICK n : n = Fits(completed_fifo[q], completed[q])
  OBVIOUS
<1>3. /\ completed' = [completed EXCEPT ![q] = @ \o SubSeq(completed_fifo[q], 1, n)]
      /\ completed_fifo' = [completed_fifo EXCEPT ![q] =
                              SubSeq(completed_fifo[q], n + 1, Len(completed_fifo[q]))]
      /\ UNCHANGED <<pending_fifo, pending, queue_length, todo, deferred, tasks, done>>
  BY <1>1, <1>2 DEF PollFlushResponses, FlushResponses, requestVars
<1>4. q \in Queue /\ n \in 0 .. Len(completed_fifo[q])
  <2>1. /\ q \in Queue /\ completed[q] \in Seq(Request) /\ Len(completed[q]) <= RingSize
        /\ completed_fifo[q] \in Seq(Request)
    BY <1>1 DEF TypeOK
  <2> QED BY <1>2, <2>1, FitsFacts
<1>5. Answered(b, d, q, n)
  BY <1>1, <1>3, <1>4 DEF Answered, Books, TypeOK
<1> DEFINE s == SubSeq(b.answers[q], 1, n)
<1>6. /\ \A x \in Range(s) : x \in Request /\ place[x] = "answer"
      /\ Account(d, Shift(place, Range(s), "back"))
  <2>1. n \in 0 .. Len(b.answers[q]) /\ Account(b, place)
    BY <1>1, <1>4 DEF Books
  <2> QED BY <1>4, <1>5, <2>1, SendAnswers
<1> HIDE DEF s
<1>7. Shown(Shift(place, Range(s), "back")) = Shown(place)
  <2>1. Range(s) \in SUBSET Request /\ "back" \in Stage
    BY <1>6 DEF Stage
  <2> QED BY <1>6, <2>1, ShownShift
<1> QED BY <1>1, <1>6, <1>7 DEF Good, Advance

\* The flush of requests by poll_queues.
LEMMA PollFlushRequestsStep ==
    ASSUME TypeOK, NEW place, Account(Books, place), NEW c \in Core, Tx(c) \in Queue,
           PollFlushRequests(c)
    PROVE  Good(place)
<1>1. PICK b, d, q : b = Books /\ d = Books' /\ q = Tx(c)
  OBVIOUS
<1>2. PICK n : n = Fits(pending_fifo[q], pending[q])
  OBVIOUS
<1>3. /\ pending' = [pending EXCEPT ![q] = @ \o SubSeq(pending_fifo[q], 1, n)]
      /\ pending_fifo' = [pending_fifo EXCEPT ![q] =
                              SubSeq(pending_fifo[q], n + 1, Len(pending_fifo[q]))]
      /\ queue_length' = [queue_length EXCEPT ![q] = @ + n]
      /\ UNCHANGED <<completed_fifo, completed, todo, deferred, tasks, done>>
  BY <1>1, <1>2 DEF PollFlushRequests, MovePending, requestVars
<1>4. q \in Queue /\ n \in 0 .. Len(pending_fifo[q])
  <2>1. /\ q \in Queue /\ pending[q] \in Seq(Request) /\ Len(pending[q]) <= RingSize
        /\ pending_fifo[q] \in Seq(Request)
    BY <1>1 DEF TypeOK
  <2> QED BY <1>2, <2>1, FitsFacts
<1>5. Sent(b, d, q, n)
  BY <1>1, <1>3, <1>4 DEF Sent, Books, TypeOK
<1> DEFINE s == SubSeq(b.fifo[q], 1, n)
<1>6. /\ \A x \in Range(s) : x \in Request /\ place[x] = "fifo"
      /\ Account(d, Shift(place, Range(s), "ring"))
  <2>1. n \in 0 .. Len(b.fifo[q]) /\ Account(b, place)
    BY <1>1, <1>4 DEF Books
  <2> QED BY <1>4, <1>5, <2>1, SendRequests
<1> HIDE DEF s
<1>7. Shown(Shift(place, Range(s), "ring")) = Shown(place)
  <2>1. Range(s) \in SUBSET Request /\ "ring" \in Stage
    BY <1>6 DEF Stage
  <2> QED BY <1>6, <2>1, ShownShift
<1> QED BY <1>1, <1>6, <1>7 DEF Good, Advance

\* process_completions.
LEMMA ProcessCompletionsStep ==
    ASSUME TypeOK, NEW place, Account(Books, place), NEW c \in Core, Tx(c) \in Queue,
           ProcessCompletions(c)
    PROVE  Good(place)
<1>1. PICK b, d, q : b = Books /\ d = Books' /\ q = Tx(c)
  OBVIOUS
<1>2. PICK n : n = completedSeen[q]
  OBVIOUS
<1>3. /\ completed' = [completed EXCEPT ![q] = SubSeq(@, n + 1, Len(@))]
      /\ done' = done \cup Range(SubSeq(completed[q], 1, n))
      /\ queue_length' = [queue_length EXCEPT ![q] = @ - n]
      /\ UNCHANGED <<pending_fifo, pending, completed_fifo, todo, deferred, tasks>>
  BY <1>1, <1>2 DEF ProcessCompletions
<1>4. q \in Queue /\ n \in 0 .. Len(completed[q])
  BY <1>1, <1>2 DEF TypeOK
<1>5. Resolved(b, d, q, n)
  BY <1>1, <1>3, <1>4 DEF Resolved, Books
<1> DEFINE s == SubSeq(b.back[q], 1, n)
<1>6. /\ \A x \in Range(s) : x \in Request /\ place[x] = "back"
      /\ Account(d, Shift(place, Range(s), "done"))
  <2>1. n \in 0 .. Len(b.back[q]) /\ Account(b, place)
    BY <1>1, <1>4 DEF Books
  <2> QED BY <1>4, <1>5, <2>1, Resolve
<1> HIDE DEF s
<1>7. Shown(Shift(place, Range(s), "done")) = Raise(place, Range(s), "done")
  <2>1. Range(s) \in SUBSET Request /\ "done" \in Stage
    BY <1>6 DEF Stage
  <2> QED BY <1>6, <2>1, ShownShift
<1>8. Completes(place, Shift(place, Range(s), "done"), Range(s))
  BY <1>6, <1>7 DEF Completes
<1> QED BY <1>1, <1>6, <1>8 DEF Good, Advance

\* The event of a function.
LEMMA EventStep ==
    ASSUME TypeOK, NEW place, Account(Books, place), NEW c \in Core, Event(c)
    PROVE  Good(place)
<1>1. PICK b, d : b = Books /\ d = Books'
  OBVIOUS
<1>2. PICK r \in deferred : /\ Target[r] = c /\ deferred' = deferred \ {r}
                            /\ tasks' = [tasks EXCEPT ![c] = Append(@, r)]
  BY DEF Event
<1>3. UNCHANGED <<pending_fifo, pending, completed_fifo, completed, queue_length, todo, done>>
  BY DEF Event, queueVars
<1>4. Awaited(b, d, c, r)
  BY <1>1, <1>2, <1>3 DEF Awaited, Books
<1>5. r \in Request /\ place[r] = "deferred" /\ Account(d, Shift(place, {r}, "task"))
  <2>1. Account(b, place) /\ r \in b.deferred /\ Target[r] = c
    BY <1>1, <1>2 DEF Books
  <2> QED BY <1>4, <2>1, Wait
<1>6. Shown(Shift(place, {r}, "task")) = Shown(place)
  <2>1. {r} \in SUBSET Request /\ "task" \in Stage
    BY <1>5 DEF Stage
  <2> QED BY <1>5, <2>1, ShownShift
<1> QED BY <1>1, <1>5, <1>6 DEF Good, Advance

\* What has been submitted comes, on its queue, before what has not, and what
\* is in the ring before what is in the batch.
LEMMA InOrder ==
    ASSUME NEW b, NEW place, Account(b, place), NEW x \in Request, NEW r \in Request, Before(x, r)
    PROVE  /\ place[x] = "todo" => place[r] = "todo"
           /\ place[x] = "fifo" => place[r] # "ring"
<1>1. Rank[x] \in Nat /\ Rank[r] \in Nat /\ Rank[x] < Rank[r] /\ Route[x] = Route[r]
      /\ Route[r] \in Queue /\ From(Route[r]) \in Core
  BY RequestFacts DEF Before
<1>2. ASSUME place[x] = "todo", place[r] # "todo" PROVE FALSE
  <2>1. PICK c \in Core : c = From(Route[r])
    BY <1>1
  <2>2. PICK s \in Seq(Request) : s = b.todo[c]
    BY DEF Account, Typed
  <2>3. PICK gone \in Nat : Rest(c, s, gone)
    BY <2>2 DEF Account, RestOfProgram
  <2>4. r \notin Range(s) /\ x \in Range(s)
    BY <1>1, <1>2, <2>1, <2>2 DEF Account, Placed
  <2>5. /\ \A i \in DOMAIN s : Rank[s[i]] = gone + i
        /\ Rank[r] <= gone
    <3>1. From(Route[r]) = c
      BY <2>1
    <3> QED BY <2>3, <2>4, <3>1, RestFacts
  <2>6. PICK i \in DOMAIN s : s[i] = x
    BY <2>4 DEF Range
  <2>7. Rank[x] = gone + i /\ i >= 1
    BY <2>5, <2>6
  <2> QED BY <1>1, <2>5, <2>7
<1>3. ASSUME place[x] = "fifo", place[r] = "ring" PROVE FALSE
  <2>1. PICK q \in Queue : q = Route[r]
    BY <1>1
  <2>2. x \in Range(b.fifo[q]) /\ r \in Range(b.ring[q])
    BY <1>1, <1>3, <2>1 DEF Account, Placed
  <2>3. \A y \in Range(b.ring[q]), z \in Range(b.fifo[q]) : Rank[y] < Rank[z]
    BY BatchAndRing DEF Account
  <2>4. Rank[r] < Rank[x]
    BY <2>2, <2>3
  <2> QED BY <1>1, <2>4
<1> QED BY <1>2, <1>3

\* process_incoming: the functions of a batch are started, and none overtakes
\* another of the same core.
LEMMA ProcessIncomingStep ==
    ASSUME TypeOK, NEW place, Account(Books, place), NEW c \in Core, Rx(c) \in Queue,
           ProcessIncoming(c)
    PROVE  Good(place)
<1>1. PICK b, d : b = Books /\ d = Books'
  OBVIOUS
<1> DEFINE q == Rx(c)
           n == pendingSeen[q]
<1>2. PICK k \in 0 .. n : \E early \in [1 .. k -> 1 .. n] :
          /\ \A i, j \in 1 .. k : i < j => early[i] < early[j]
          /\ tasks' = [tasks EXCEPT ![c] = @ \o [i \in 1 .. k |-> pending[q][early[i]]]]
          /\ deferred' = deferred \cup {pending[q][i] : i \in (1 .. n) \ Range(early)}
  BY DEF ProcessIncoming
<1>3. PICK early \in [1 .. k -> 1 .. n] :
          /\ \A i, j \in 1 .. k : i < j => early[i] < early[j]
          /\ tasks' = [tasks EXCEPT ![c] = @ \o [i \in 1 .. k |-> pending[q][early[i]]]]
          /\ deferred' = deferred \cup {pending[q][i] : i \in (1 .. n) \ Range(early)}
  BY <1>2
<1>4. /\ pending' = [pending EXCEPT ![q] = SubSeq(@, n + 1, Len(@))]
      /\ UNCHANGED <<pending_fifo, completed_fifo, completed, queue_length, todo, done>>
  BY DEF ProcessIncoming
<1>5. q \in Queue /\ c = To(q)
  BY DEF Rx, To
<1> HIDE DEF q
<1>6. PICK w \in Seq(Request) : w = pending[q]
  BY <1>5 DEF TypeOK
<1>7. n \in 0 .. Len(w)
  BY <1>5, <1>6 DEF TypeOK
<1> HIDE DEF n
<1>8. Distinct(w)
  <2>1. Typed(b) /\ Orderly(b) /\ w = b.ring[q]
    BY <1>1, <1>6 DEF Account, Books
  <2> QED BY <1>5, <2>1, BatchAndRing
<1>9. PICK first, late : /\ first = [i \in 1 .. k |-> w[early[i]]]
                         /\ late = {w[i] : i \in (1 .. n) \ Range(early)}
  OBVIOUS
<1>10. /\ first \in Seq(Request) /\ Distinct(first) /\ late \in SUBSET Request
      /\ Range(SubSeq(w, 1, n)) = Range(first) \cup late
      /\ Range(first) \cap late = {}
  <2>1. Parts(w, n, k, early, first, late)
    BY <1>3, <1>8, <1>9 DEF Parts
  <2> QED BY <1>7, <2>1, EarlyAndLate
<1>11. Started(b, d, q, n, c, first, late)
  BY <1>1, <1>3, <1>4, <1>6, <1>9 DEF Started, Books
<1>12. b.ring[q] = w /\ Account(b, place)
  BY <1>1, <1>6 DEF Books
<1> DEFINE after == Shift(Shift(place, Range(first), "task"), late, "deferred")
<1>13. Account(d, after)
  <2>1. n \in 0 .. Len(b.ring[q]) /\ Range(SubSeq(b.ring[q], 1, n)) = Range(first) \cup late
    BY <1>7, <1>10, <1>12
  <2> QED BY <1>5, <1>10, <1>11, <1>12, <2>1, StartFunctions
<1>14. PICK S : S = Range(SubSeq(w, 1, n))
  OBVIOUS
<1>15. \A x \in Request : after[x] = IF x \in late THEN "deferred"
                                     ELSE IF x \in Range(first) THEN "task" ELSE place[x]
  BY DEF Shift
<1> HIDE DEF after
<1>16. Shown(after) = Raise(place, S, "running")
  BY <1>10, <1>14, <1>15 DEF Shown, Raise
<1>17. \A x \in Range(w) : x \in Request /\ Route[x] = q /\ place[x] = "ring"
  <2>1. \A x \in Range(w) : x \in Request
    BY DEF Range
  <2>2. \A x \in Range(w) : Route[x] = q
    BY <1>5, <1>12 DEF Account, Routed
  <2> QED BY <1>12, <2>1, <2>2 DEF Account, Placed
<1> DEFINE s == SubSeq(w, 1, n)
           rest == SubSeq(w, n + 1, Len(w))
<1>18. /\ s \in Seq(Request) /\ rest \in Seq(Request) /\ s \o rest = w
       /\ Range(w) = Range(s) \cup Range(rest)
  <2>1. s \in Seq(Request) /\ rest \in Seq(Request)
    BY <1>7, SplitSeq
  <2>2. s \o rest = w
    BY <1>7, SplitJoin
  <2>3. Range(w) = Range(s) \cup Range(rest)
    BY <1>7, SplitRange
  <2> QED BY <2>1, <2>2, <2>3
<1>19. Ascending(w)
  <2>1. PICK u \in Seq(Request) : u = b.fifo[q] /\ Ascending(w \o u)
    BY <1>5, <1>12 DEF Account, Typed, Orderly
  <2> QED BY <2>1, AscendingParts
<1> HIDE DEF s, rest
<1>20. \A x \in Range(s), y \in Range(rest) : Rank[x] < Rank[y]
  <2>1. s \in Seq(Request) /\ rest \in Seq(Request) /\ Ascending(s \o rest)
    BY <1>18, <1>19
  <2> QED BY <2>1, AscendingParts
<1>21. ASSUME NEW r \in S, NEW x \in Request \ S, Before(x, r)
       PROVE  place[x] \notin {"todo", "fifo", "ring"}
  <2>1. r \in Request /\ Route[r] = q /\ place[r] = "ring" /\ r \in Range(s)
    BY <1>14, <1>17, <1>18 DEF s
  <2>2. place[x] # "todo" /\ place[x] # "fifo"
    BY <1>12, <1>21, <2>1, InOrder
  <2>3. ASSUME place[x] = "ring" PROVE FALSE
    <3>1. x \in Range(w)
      <4>1. Route[x] = q
        BY <1>21, <2>1 DEF Before
      <4> QED BY <1>12, <2>3, <4>1 DEF Account, Placed
    <3>2. x \in Range(rest)
      BY <1>14, <1>18, <3>1 DEF s
    <3>3. Rank[r] < Rank[x] /\ Rank[x] < Rank[r]
      BY <1>20, <1>21, <2>1, <3>2 DEF Before
    <3>4. Rank[r] \in Nat /\ Rank[x] \in Nat
      BY <2>1, RequestFacts
    <3> QED BY <3>3, <3>4
  <2> QED BY <2>2, <2>3
<1>22. Starts(place, after, S)
  <2>1. S \subseteq Request /\ \A r \in S : place[r] = "ring"
    BY <1>14, <1>17, <1>18 DEF s
  <2> QED BY <1>16, <1>21, <2>1 DEF Starts
<1> QED BY <1>1, <1>13, <1>22 DEF Good, Advance

-----------------------------------------------------------------------------
(* The inductive invariant.                                                *)

\* The places of a core inside poll_queues.
Polling == {"respond", "incoming", "request", "completions"}

\* The types of what the loops of the cores keep; a core that polls a queue
\* polls that of another core.
LoopsOK ==
    /\ sleeping \in [Core -> BOOLEAN] /\ signal \in [Core -> BOOLEAN]
    /\ membarrier \in Core \cup {NoCore}
    /\ mode \in [Core -> {"loop", "sleep"}]
    /\ pc \in [Core -> Places]
    /\ peer \in [Core -> Core \cup {NoCore}]
    /\ got \in [Core -> BOOLEAN]
    /\ waking \in [Core -> Waking]
    /\ \A c \in Core : pc[c] \in Polling => peer[c] \in Core \ {c}

\* A ring has no more than it has room for, and no more is seen of it than it
\* holds.
RingsOK ==
    /\ pendingSeen \in [Queue -> Nat] /\ completedSeen \in [Queue -> Nat]
    /\ \A q \in Queue : pendingSeen[q] <= Len(pending[q]) /\ Len(pending[q]) <= RingSize
    /\ \A q \in Queue : completedSeen[q] <= Len(completed[q]) /\ Len(completed[q]) <= RingSize

\* The inductive invariant.
IInv == LoopsOK /\ RingsOK /\ Balanced(Books)

\* The invariant contains the type invariant.
LEMMA TypesFromBooks ==
    ASSUME IInv
    PROVE  TypeOK
<1>1. PICK place : Account(Books, place)
  BY DEF IInv, Balanced
<1>2. PICK b : b = Books
  OBVIOUS
<1>3. Typed(b) /\ Counted(b, place)
  BY <1>1, <1>2 DEF Account
<1>4. /\ b.todo = todo /\ b.fifo = pending_fifo /\ b.ring = pending
      /\ b.deferred = deferred /\ b.tasks = tasks /\ b.answers = completed_fifo
      /\ b.back = completed /\ b.done = done /\ b.length = queue_length
  BY <1>2 DEF Books
<1>5. \A q \in Queue : queue_length[q] \in Nat
  <2>1. ASSUME NEW q \in Queue PROVE queue_length[q] \in Nat
    <3>1. /\ IsFiniteSet(InTheAir(place, q))
          /\ queue_length[q] = Cardinality(InTheAir(place, q))
      BY <1>3, <1>4 DEF Counted
    <3> QED BY <3>1, FS_CardinalityType
  <2> QED BY <2>1
<1>6. queue_length \in [Queue -> Nat]
  BY <1>3, <1>4, <1>5 DEF Typed
<1> QED BY <1>3, <1>4, <1>6 DEF TypeOK, Typed, IInv, LoopsOK, RingsOK

\* The initial state satisfies the invariant.
LEMMA InitInv ==
    ASSUME Init
    PROVE  IInv
<1>1. LoopsOK
  BY DEF Init, LoopsOK, Places, Waking, Polling
<1>2. RingsOK
  BY SizeAssumption DEF Init, RingsOK
<1>3. Balanced(Books)
  <2> DEFINE place == [r \in Request |-> "todo"]
  <2>1. PICK b : b = Books
    OBVIOUS
  <2>2. /\ b.todo = Program /\ b.fifo = [q \in Queue |-> << >>]
        /\ b.ring = [q \in Queue |-> << >>] /\ b.deferred = {}
        /\ b.tasks = [c \in Core |-> << >>] /\ b.answers = [q \in Queue |-> << >>]
        /\ b.back = [q \in Queue |-> << >>] /\ b.done = {} /\ b.length = [q \in Queue |-> 0]
    BY <2>1 DEF Books, Init
  <2>3. Range(<< >>) = {}
    BY DEF Range
  <2>4. Typed(b)
    BY <2>2, ProgramAssumption DEF Typed
  <2>5. RestOfProgram(b)
    <3>1. ASSUME NEW c \in Core PROVE Rest(c, Program[c], 0)
      <4>1. Program[c] \in Seq(Request)
        BY ProgramAssumption
      <4> QED BY <4>1 DEF Rest
    <3> QED BY <2>2, <3>1 DEF RestOfProgram
  <2>6. Routed(b)
    BY <2>2, <2>3 DEF Routed
  <2>7. Orderly(b)
    <3>1. << >> \o << >> = << >>
      OBVIOUS
    <3>2. Ascending(<< >>)
      BY DEF Ascending
    <3> QED BY <2>2, <3>1, <3>2 DEF Orderly
  <2>8. NoneTwice(b)
    <3>1. Distinct(<< >>)
      BY DEF Distinct
    <3> QED BY <2>2, <3>1 DEF NoneTwice
  <2>9. place \in [Request -> Stage]
    BY DEF Stage
  <2>10. \A r \in Request : r \in Range(Program[From(Route[r])])
    BY RequestFacts DEF Range
  <2>11. Placed(b, place)
    <3>1. ASSUME NEW r \in Request
          PROVE  /\ r \notin Range(b.fifo[Route[r]]) /\ r \notin Range(b.ring[Route[r]])
                 /\ r \notin b.deferred /\ r \notin Range(b.tasks[To(Route[r])])
                 /\ r \notin Range(b.answers[Route[r]]) /\ r \notin Range(b.back[Route[r]])
                 /\ r \notin b.done /\ r \in Range(b.todo[From(Route[r])])
      BY <2>2, <2>3, <2>10, RequestFacts
    <3> QED BY <2>9, <3>1 DEF Placed
  <2>12. Counted(b, place)
    <3>1. \A q \in Queue : InTheAir(place, q) = {}
      BY DEF InTheAir, Flying
    <3>2. IsFiniteSet({}) /\ Cardinality({}) = 0
      BY FS_EmptySet
    <3> QED BY <2>2, <3>1, <3>2 DEF Counted
  <2> QED BY <2>1, <2>4, <2>5, <2>6, <2>7, <2>8, <2>9, <2>11, <2>12 DEF Balanced, Account
<1> QED BY <1>1, <1>2, <1>3 DEF IInv

\* A core that is not polling moves no request.
LEMMA SameBooks ==
    ASSUME NEW place, Account(Books, place),
           UNCHANGED <<todo, pending_fifo, pending, deferred, tasks, completed_fifo, completed,
                       done, queue_length>>
    PROVE  Good(place)
<1>1. Books' = Books
  BY DEF Books
<1> QED BY <1>1 DEF Good, Advance

\* The books are balanced after every step.
LEMMA BooksStep ==
    ASSUME IInv, NEW place, Account(Books, place), [Next]_vars
    PROVE  Good(place)
<1>1. TypeOK
  BY TypesFromBooks
<1>2. ASSUME NEW c \in Core, pc[c] \in Polling
      PROVE  Rx(c) \in Queue /\ Tx(c) \in Queue
  BY <1>2 DEF IInv, LoopsOK, Rx, Tx, Queue
<1>3. ASSUME NEW c \in Core, Loop(c) PROVE Good(place)
  <2>1. CASE Respond(c)
    BY <1>1, <2>1, RespondStep
  <2>2. CASE PollFlushResponses(c)
    <3>1. Rx(c) \in Queue
      BY <1>2, <2>2 DEF PollFlushResponses, At, Polling
    <3> QED BY <1>1, <2>2, <3>1, PollFlushResponsesStep
  <2>3. CASE ProcessIncoming(c)
    <3>1. Rx(c) \in Queue
      BY <1>2, <2>3 DEF ProcessIncoming, At, Polling
    <3> QED BY <1>1, <2>3, <3>1, ProcessIncomingStep
  <2>4. CASE PollFlushRequests(c)
    <3>1. Tx(c) \in Queue
      BY <1>2, <2>4 DEF PollFlushRequests, At, Polling
    <3> QED BY <1>1, <2>4, <3>1, PollFlushRequestsStep
  <2>5. CASE ProcessCompletions(c)
    <3>1. Tx(c) \in Queue
      BY <1>2, <2>5 DEF ProcessCompletions, At, Polling
    <3> QED BY <1>1, <2>5, <3>1, ProcessCompletionsStep
  <2>6. CASE \/ LoadSleeping(c) \/ ClearSleeping(c) \/ Wakeup(c) \/ PollSignals(c) \/ NextPeer(c)
             \/ EndPoll(c) \/ BlockSignals(c) \/ TryLock(c) \/ SetSleeping(c) \/ Barrier(c)
             \/ EndLastPoll(c) \/ Interrupted(c) \/ ExitInterruptMode(c)
    <3>1. UNCHANGED <<todo, pending_fifo, pending, deferred, tasks, completed_fifo, completed,
                      done, queue_length>>
      BY <2>6, Zenon
         DEF LoadSleeping, ClearSleeping, Wakeup, PollSignals, NextPeer, EndPoll, BlockSignals,
             TryLock, SetSleeping, Barrier, EndLastPoll, Interrupted, ExitInterruptMode,
             queueVars, requestVars
    <3> QED BY <3>1, SameBooks
  <2> QED BY <1>3, <2>1, <2>2, <2>3, <2>4, <2>5, <2>6 DEF Loop
<1>4. ASSUME NEW c \in Core, Submit(c) PROVE Good(place)
  BY <1>1, <1>4, SubmitStep
<1>5. ASSUME NEW c \in Core, Event(c) PROVE Good(place)
  BY <1>1, <1>5, EventStep
<1>6. ASSUME NEW c \in Core, OtherEvent(c) PROVE Good(place)
  BY <1>6, SameBooks DEF OtherEvent, queueVars, requestVars
<1>7. ASSUME NEW q \in Queue, PublishRequest(q) \/ PublishResponse(q) PROVE Good(place)
  BY <1>7, SameBooks DEF PublishRequest, PublishResponse, requestVars
<1>8. CASE UNCHANGED vars
  BY <1>8, SameBooks DEF vars, queueVars, requestVars
<1> QED BY <1>3, <1>4, <1>5, <1>6, <1>7, <1>8 DEF Next

\* The loops of the cores keep their types.
LEMMA LoopsStep ==
    ASSUME LoopsOK, TypeOK, [Next]_vars
    PROVE  LoopsOK'
<1> USE DEF LoopsOK
<1>1. ASSUME NEW c \in Core, Loop(c) PROVE LoopsOK'
  <2>1. /\ waking[c].step # "none" => waking[c] \in [target : Core, step : {"load", "store", "kill"}]
        /\ Idle \in Waking
    BY DEF Waking, Idle
  <2>2. CASE LoadSleeping(c)
    BY <2>1, <2>2 DEF LoadSleeping, Waking, sleepVars, loopVars
  <2>3. CASE ClearSleeping(c)
    BY <2>1, <2>3 DEF ClearSleeping, Waking, loopVars
  <2>4. CASE Wakeup(c)
    BY <2>1, <2>4 DEF Wakeup, Waking, loopVars
  <2>5. CASE Respond(c)
    <3>1. PICK r : r = Head(tasks[c]) /\ tasks[c] # << >> /\ tasks[c] \in Seq(Request)
      BY <2>5 DEF Respond, TypeOK
    <3>2. From(Route[r]) \in Core
      <4>1. r \in Request
        BY <3>1
      <4> QED BY <4>1, RequestFacts
    <3>3. \/ UNCHANGED waking
          \/ waking' = [waking EXCEPT ![c] = [target |-> From(Route[r]), step |-> "load"]]
      BY <2>5, <3>1, Zenon DEF Respond, FlushResponses
    <3>4. waking' \in [Core -> Waking]
      BY <3>2, <3>3 DEF Waking
    <3> QED BY <2>5, <3>4 DEF Respond, sleepVars, loopVars
  <2>6. CASE PollSignals(c)
    BY <2>6 DEF PollSignals, Goto, Places, Polling, At
  <2>7. CASE NextPeer(c)
    BY <2>7 DEF NextPeer, NextPeers, Goto, Places, Polling, At, sleepVars
  <2>8. CASE PollFlushResponses(c)
    <3>1. waking' \in [Core -> Waking]
      BY <2>8 DEF PollFlushResponses, FlushResponses, At, Polling, From, Rx, Waking
    <3>2. /\ got' \in [Core -> BOOLEAN] /\ pc' \in [Core -> Places]
          /\ \A d \in Core : pc'[d] \in Polling => peer[d] \in Core \ {d}
      BY <2>8 DEF PollFlushResponses, Found, Goto, At, Places, Polling
    <3> QED BY <2>8, <3>1, <3>2 DEF PollFlushResponses, sleepVars
  <2>9. CASE ProcessIncoming(c)
    BY <2>9 DEF ProcessIncoming, Found, Goto, At, Places, Polling, sleepVars
  <2>10. CASE PollFlushRequests(c)
    <3>1. waking' \in [Core -> Waking]
      BY <2>10 DEF PollFlushRequests, MovePending, At, Polling, To, Tx, Waking
    <3>2. /\ pc' \in [Core -> Places]
          /\ \A d \in Core : pc'[d] \in Polling => peer[d] \in Core \ {d}
      BY <2>10 DEF PollFlushRequests, Goto, At, Places, Polling
    <3> QED BY <2>10, <3>1, <3>2 DEF PollFlushRequests, sleepVars
  <2>11. CASE ProcessCompletions(c)
    BY <2>11 DEF ProcessCompletions, Found, Goto, At, Places, Polling, sleepVars
  <2>12. CASE EndPoll(c)
    BY <2>12 DEF EndPoll, Goto, Places, Polling, sleepVars
  <2>13. CASE BlockSignals(c)
    BY <2>13 DEF BlockSignals, Goto, Places, Polling
  <2>14. CASE TryLock(c)
    BY <2>14 DEF TryLock, Goto, Places, Polling
  <2>15. CASE SetSleeping(c)
    BY <2>15 DEF SetSleeping, Goto, Places, Polling
  <2>16. CASE Barrier(c)
    BY <2>16 DEF Barrier, Goto, Places, Polling
  <2>17. CASE EndLastPoll(c)
    <3>1. /\ sleeping' = sleeping \/ sleeping' = [sleeping EXCEPT ![c] = FALSE]
          /\ pc' = [pc EXCEPT ![c] = "run"] \/ pc' = [pc EXCEPT ![c] = "asleep"]
          /\ UNCHANGED <<signal, membarrier, mode, peer, got, waking>>
      BY <2>17 DEF EndLastPoll, Goto
    <3>2. /\ pc' \in [Core -> Places]
          /\ \A d \in Core : pc'[d] \in Polling => pc'[d] = pc[d]
      BY <3>1 DEF Places, Polling
    <3>3. sleeping' \in [Core -> BOOLEAN]
      BY <3>1
    <3> QED BY <3>1, <3>2, <3>3
  <2>18. CASE Interrupted(c)
    BY <2>18 DEF Interrupted, Goto, Places, Polling, sleepVars
  <2>19. CASE ExitInterruptMode(c)
    BY <2>19 DEF ExitInterruptMode, Goto, Places, Polling
  <2> QED BY <1>1, <2>2, <2>3, <2>4, <2>5, <2>6, <2>7, <2>8, <2>9, <2>10, <2>11, <2>12, <2>13,
             <2>14, <2>15, <2>16, <2>17, <2>18, <2>19 DEF Loop
<1>2. ASSUME NEW c \in Core, Submit(c) PROVE LoopsOK'
  <2>1. PICK r : r = Head(todo[c]) /\ todo[c] # << >> /\ todo[c] \in Seq(Request)
    BY <1>2, SMTT(40) DEF Submit, TypeOK
  <2>2. Target[r] \in Core
    <3>1. r \in Request
      BY <2>1
    <3> QED BY <3>1, RequestFacts
  <2>3. \/ UNCHANGED waking
        \/ waking' = [waking EXCEPT ![c] = [target |-> Target[r], step |-> "load"]]
    BY <1>2, <2>1 DEF Submit, MovePending, To
  <2>4. waking' \in [Core -> Waking]
    BY <2>2, <2>3 DEF Waking
  <2> QED BY <1>2, <2>4 DEF Submit, sleepVars, loopVars
<1>3. ASSUME NEW c \in Core, Event(c) PROVE LoopsOK'
  BY <1>3 DEF Event, Goto, Places, Polling, sleepVars
<1>4. ASSUME NEW c \in Core, OtherEvent(c) PROVE LoopsOK'
  BY <1>4 DEF OtherEvent, Goto, Places, Polling, sleepVars
<1>5. ASSUME NEW q \in Queue, PublishRequest(q) \/ PublishResponse(q) PROVE LoopsOK'
  BY <1>5 DEF PublishRequest, PublishResponse, sleepVars, loopVars
<1>6. CASE UNCHANGED vars
  BY <1>6 DEF vars, sleepVars, loopVars
<1> QED BY <1>1, <1>2, <1>3, <1>4, <1>5, <1>6 DEF Next

\* No step makes a ring hold more than its size or show what is not in it.
LEMMA RingsStep ==
    ASSUME IInv, TypeOK, [Next]_vars
    PROVE  RingsOK'
<1>1. /\ pending \in [Queue -> Seq(Request)] /\ completed \in [Queue -> Seq(Request)]
      /\ pendingSeen \in [Queue -> Nat] /\ completedSeen \in [Queue -> Nat]
      /\ pending_fifo \in [Queue -> Seq(Request)] /\ completed_fifo \in [Queue -> Seq(Request)]
      /\ \A q \in Queue : pendingSeen[q] <= Len(pending[q]) /\ Len(pending[q]) <= RingSize
      /\ \A q \in Queue : completedSeen[q] <= Len(completed[q]) /\ Len(completed[q]) <= RingSize
  BY DEF TypeOK
<1>2. ASSUME NEW s \in Seq(Request), NEW f \in Seq(Request), Len(s) <= RingSize,
             NEW n, n = Fits(f, s)
      PROVE  /\ s \o SubSeq(f, 1, n) \in Seq(Request)
             /\ Len(s \o SubSeq(f, 1, n)) <= RingSize
             /\ Len(s) <= Len(s \o SubSeq(f, 1, n))
  <2>1. n \in 0 .. Len(f) /\ Len(s) + n <= RingSize
    BY <1>2, FitsFacts
  <2>2. SubSeq(f, 1, n) \in Seq(Request) /\ Len(SubSeq(f, 1, n)) = n
    BY <2>1, SplitSeq
  <2>3. Len(s \o SubSeq(f, 1, n)) = Len(s) + n /\ s \o SubSeq(f, 1, n) \in Seq(Request)
    BY <2>2
  <2> QED BY <2>1, <2>3
<1>3. ASSUME NEW s \in Seq(Request), NEW n \in 0 .. Len(s), Len(s) <= RingSize
      PROVE  Len(SubSeq(s, n + 1, Len(s))) \in Nat /\ Len(SubSeq(s, n + 1, Len(s))) <= RingSize
  <2>1. Len(SubSeq(s, n + 1, Len(s))) = Len(s) - n
    BY SplitSeq
  <2>2. RingSize \in Nat
    BY SizeAssumption
  <2> QED BY <1>3, <2>1, <2>2
\* A push to the ring of requests, with the rest unchanged.
<1>4. ASSUME NEW p \in Queue, NEW f \in Seq(Request),
             pending' = [pending EXCEPT ![p] = @ \o SubSeq(f, 1, Fits(f, pending[p]))],
             UNCHANGED <<pendingSeen, completed, completedSeen>>
      PROVE  RingsOK'
  <2>1. \A q \in Queue : Len(pending[q]) <= Len(pending'[q]) /\ Len(pending'[q]) <= RingSize
                         /\ pending'[q] \in Seq(Request)
    <3>1. \A q \in Queue \ {p} : pending'[q] = pending[q]
      BY <1>1, <1>4
    <3>2. PICK s \in Seq(Request) : s = pending[p] /\ pending'[p] = s \o SubSeq(f, 1, Fits(f, s))
      BY <1>1, <1>4
    <3>3. /\ pending'[p] \in Seq(Request) /\ Len(pending'[p]) <= RingSize
          /\ Len(pending[p]) <= Len(pending'[p])
      <4>1. Len(s) <= RingSize
        BY <1>1, <3>2
      <4>2. PICK n : n = Fits(f, s)
        OBVIOUS
      <4> QED BY <1>2, <3>2, <4>1, <4>2
    <3>4. \A q \in Queue : Len(pending[q]) <= Len(pending[q])
      <4>1. \A q \in Queue : Len(pending[q]) \in Nat
        BY <1>1
      <4> QED BY <4>1
    <3>5. ASSUME NEW q \in Queue
          PROVE  /\ Len(pending[q]) <= Len(pending'[q]) /\ Len(pending'[q]) <= RingSize
                 /\ pending'[q] \in Seq(Request)
      <4>1. CASE q = p
        BY <3>3, <4>1
      <4>2. CASE q # p
        BY <1>1, <3>1, <3>4, <4>2
      <4> QED BY <4>1, <4>2
    <3> QED BY <3>5
  <2>2. \A q \in Queue : pendingSeen[q] <= Len(pending'[q])
    <3>1. \A q \in Queue : Len(pending[q]) \in Nat /\ Len(pending'[q]) \in Nat /\ pendingSeen[q] \in Nat
      BY <1>1, <2>1
    <3> QED BY <1>1, <2>1, <3>1, SMTT(40)
  <2> QED BY <1>1, <1>4, <2>1, <2>2 DEF RingsOK
\* And to the ring of responses.
<1>5. ASSUME NEW p \in Queue, NEW f \in Seq(Request),
             completed' = [completed EXCEPT ![p] = @ \o SubSeq(f, 1, Fits(f, completed[p]))],
             UNCHANGED <<pendingSeen, pending, completedSeen>>
      PROVE  RingsOK'
  <2>1. \A q \in Queue : Len(completed[q]) <= Len(completed'[q]) /\ Len(completed'[q]) <= RingSize
                         /\ completed'[q] \in Seq(Request)
    <3>1. \A q \in Queue \ {p} : completed'[q] = completed[q]
      BY <1>1, <1>5
    <3>2. PICK s \in Seq(Request) : s = completed[p] /\ completed'[p] = s \o SubSeq(f, 1, Fits(f, s))
      BY <1>1, <1>5
    <3>3. /\ completed'[p] \in Seq(Request) /\ Len(completed'[p]) <= RingSize
          /\ Len(completed[p]) <= Len(completed'[p])
      <4>1. Len(s) <= RingSize
        BY <1>1, <3>2
      <4>2. PICK n : n = Fits(f, s)
        OBVIOUS
      <4> QED BY <1>2, <3>2, <4>1, <4>2
    <3>4. \A q \in Queue : Len(completed[q]) <= Len(completed[q])
      <4>1. \A q \in Queue : Len(completed[q]) \in Nat
        BY <1>1
      <4> QED BY <4>1
    <3>5. ASSUME NEW q \in Queue
          PROVE  /\ Len(completed[q]) <= Len(completed'[q]) /\ Len(completed'[q]) <= RingSize
                 /\ completed'[q] \in Seq(Request)
      <4>1. CASE q = p
        BY <3>3, <4>1
      <4>2. CASE q # p
        BY <1>1, <3>1, <3>4, <4>2
      <4> QED BY <4>1, <4>2
    <3> QED BY <3>5
  <2>2. \A q \in Queue : completedSeen[q] <= Len(completed'[q])
    <3>1. \A q \in Queue : /\ Len(completed[q]) \in Nat /\ Len(completed'[q]) \in Nat
                           /\ completedSeen[q] \in Nat
      BY <1>1, <2>1
    <3> QED BY <1>1, <2>1, <3>1, SMTT(40)
  <2> QED BY <1>1, <1>5, <2>1, <2>2 DEF RingsOK
<1>6. ASSUME NEW c \in Core, pc[c] \in Polling
      PROVE  Rx(c) \in Queue /\ Tx(c) \in Queue
  BY <1>6 DEF IInv, LoopsOK, Rx, Tx, Queue
<1>7. ASSUME UNCHANGED <<pending, pendingSeen, completed, completedSeen>> PROVE RingsOK'
  BY <1>7 DEF RingsOK, IInv
<1>8. ASSUME NEW c \in Core, Loop(c) PROVE RingsOK'
  <2>1. CASE Respond(c)
    <3>1. PICK r : r = Head(tasks[c]) /\ tasks[c] # << >> /\ tasks[c] \in Seq(Request)
      BY <2>1 DEF Respond, TypeOK
    <3>2. r \in Request /\ Route[r] \in Queue
      <4>1. r \in Request
        BY <3>1
      <4> QED BY <4>1, RequestFacts
    <3>3. PICK f \in Seq(Request) : f = Append(completed_fifo[Route[r]], r)
      <4>1. PICK s \in Seq(Request) : s = completed_fifo[Route[r]]
        BY <1>1, <3>2
      <4>2. Append(s, r) \in Seq(Request)
        BY <3>2
      <4> QED BY <4>1, <4>2, Zenon
    <3>4. \/ completed' = [completed EXCEPT ![Route[r]] = @ \o SubSeq(f, 1, Fits(f, completed[Route[r]]))]
          \/ UNCHANGED completed
      BY <2>1, <3>1, <3>3, Zenon DEF Respond, FlushResponses
    <3>5. UNCHANGED <<pending, pendingSeen, completedSeen>>
      BY <2>1 DEF Respond
    <3> QED BY <1>5, <1>7, <3>2, <3>4, <3>5
  <2>2. CASE PollFlushResponses(c)
    <3>1. PICK q \in Queue : q = Rx(c)
      BY <1>6, <2>2 DEF PollFlushResponses, At, Polling
    <3>2. /\ completed' = [completed EXCEPT ![q] = @ \o SubSeq(completed_fifo[q], 1,
                                Fits(completed_fifo[q], completed[q]))]
          /\ UNCHANGED <<pendingSeen, pending, completedSeen>>
      BY <2>2, <3>1 DEF PollFlushResponses, FlushResponses
    <3> QED BY <1>1, <1>5, <3>1, <3>2
  <2>3. CASE ProcessIncoming(c)
    <3>1. PICK q \in Queue : q = Rx(c)
      BY <1>6, <2>3 DEF ProcessIncoming, At, Polling
    <3>2. /\ pending' = [pending EXCEPT ![q] = SubSeq(@, pendingSeen[q] + 1, Len(@))]
          /\ pendingSeen' = [pendingSeen EXCEPT ![q] = 0]
          /\ UNCHANGED <<completed, completedSeen>>
      BY <2>3, <3>1 DEF ProcessIncoming
    <3>3. Len(pending'[q]) \in Nat /\ Len(pending'[q]) <= RingSize
      <4>1. PICK s \in Seq(Request), n \in Nat : s = pending[q] /\ n = pendingSeen[q] /\ n <= Len(s)
                                               /\ Len(s) <= RingSize
        BY <1>1
      <4>2. pending'[q] = SubSeq(s, n + 1, Len(s))
        BY <1>1, <3>2, <4>1
      <4>3. n \in 0 .. Len(s)
        BY <4>1
      <4>4. Len(SubSeq(s, n + 1, Len(s))) \in Nat /\ Len(SubSeq(s, n + 1, Len(s))) <= RingSize
        BY <1>3, <4>1, <4>3
      <4> QED BY <4>2, <4>4
    <3>4. \A p \in Queue \ {q} : pending'[p] = pending[p] /\ pendingSeen'[p] = pendingSeen[p]
      BY <1>1, <3>2
    <3>5. pendingSeen' \in [Queue -> Nat] /\ pendingSeen'[q] = 0
      BY <1>1, <3>2
    <3> QED BY <1>1, <3>2, <3>3, <3>4, <3>5 DEF RingsOK
  <2>4. CASE PollFlushRequests(c)
    <3>1. PICK q \in Queue : q = Tx(c)
      BY <1>6, <2>4 DEF PollFlushRequests, At, Polling
    <3>2. /\ pending' = [pending EXCEPT ![q] = @ \o SubSeq(pending_fifo[q], 1,
                                Fits(pending_fifo[q], pending[q]))]
          /\ UNCHANGED <<pendingSeen, completed, completedSeen>>
      BY <2>4, <3>1 DEF PollFlushRequests, MovePending
    <3> QED BY <1>1, <1>4, <3>1, <3>2
  <2>5. CASE ProcessCompletions(c)
    <3>1. PICK q \in Queue : q = Tx(c)
      BY <1>6, <2>5 DEF ProcessCompletions, At, Polling
    <3>2. /\ completed' = [completed EXCEPT ![q] = SubSeq(@, completedSeen[q] + 1, Len(@))]
          /\ completedSeen' = [completedSeen EXCEPT ![q] = 0]
          /\ UNCHANGED <<pending, pendingSeen>>
      BY <2>5, <3>1 DEF ProcessCompletions
    <3>3. Len(completed'[q]) \in Nat /\ Len(completed'[q]) <= RingSize
      <4>1. PICK s \in Seq(Request), n \in Nat : s = completed[q] /\ n = completedSeen[q]
                                               /\ n <= Len(s) /\ Len(s) <= RingSize
        BY <1>1
      <4>2. completed'[q] = SubSeq(s, n + 1, Len(s))
        BY <1>1, <3>2, <4>1
      <4>3. n \in 0 .. Len(s)
        BY <4>1
      <4>4. Len(SubSeq(s, n + 1, Len(s))) \in Nat /\ Len(SubSeq(s, n + 1, Len(s))) <= RingSize
        BY <1>3, <4>1, <4>3
      <4> QED BY <4>2, <4>4
    <3>4. \A p \in Queue \ {q} : completed'[p] = completed[p] /\ completedSeen'[p] = completedSeen[p]
      BY <1>1, <3>2
    <3>5. completedSeen' \in [Queue -> Nat] /\ completedSeen'[q] = 0
      BY <1>1, <3>2
    <3> QED BY <1>1, <3>2, <3>3, <3>4, <3>5 DEF RingsOK
  <2>6. CASE Barrier(c)
    <3>1. /\ pendingSeen' = [q \in Queue |-> Len(pending[q])]
          /\ completedSeen' = [q \in Queue |-> Len(completed[q])]
          /\ UNCHANGED <<pending, completed>>
      BY <2>6 DEF Barrier
    <3>2. \A q \in Queue : Len(pending[q]) \in Nat /\ Len(completed[q]) \in Nat
      BY <1>1
    <3> QED BY <1>1, <3>1, <3>2 DEF RingsOK
  <2>7. CASE \/ LoadSleeping(c) \/ ClearSleeping(c) \/ Wakeup(c) \/ PollSignals(c) \/ NextPeer(c)
             \/ EndPoll(c) \/ BlockSignals(c) \/ TryLock(c) \/ SetSleeping(c)
             \/ EndLastPoll(c) \/ Interrupted(c) \/ ExitInterruptMode(c)
    <3>1. UNCHANGED <<pending, pendingSeen, completed, completedSeen>>
      BY <2>7, Zenon
         DEF LoadSleeping, ClearSleeping, Wakeup, PollSignals, NextPeer, EndPoll, BlockSignals,
             TryLock, SetSleeping, EndLastPoll, Interrupted, ExitInterruptMode, queueVars
    <3> QED BY <1>7, <3>1
  <2> QED BY <1>8, <2>1, <2>2, <2>3, <2>4, <2>5, <2>6, <2>7 DEF Loop
<1>9. ASSUME NEW c \in Core, Submit(c) PROVE RingsOK'
  <2>1. PICK r : r = Head(todo[c]) /\ todo[c] # << >> /\ todo[c] \in Seq(Request)
    BY <1>9 DEF Submit, TypeOK
  <2>2. PICK q \in Queue : q = <<Target[r], c>> /\ r \in Request
    <3>1. PICK place : Account(Books, place)
      BY DEF IInv, Balanced
    <3>2. PICK s \in Seq(Request) : s = todo[c] /\ s # << >>
      BY <2>1
    <3>3. PICK gone \in Nat : Rest(c, s, gone)
      BY <3>1, <3>2 DEF Account, RestOfProgram, Books
    <3>4. /\ Head(s) \in Request /\ Route[Head(s)] = <<Target[Head(s)], c>>
          /\ Route[Head(s)] \in Queue
      BY <3>2, <3>3, NextOfProgram
    <3> QED BY <2>1, <3>2, <3>4
  <2>3. PICK f \in Seq(Request) : f = Append(pending_fifo[q], r)
    <3>1. PICK s \in Seq(Request) : s = pending_fifo[q]
      BY <1>1
    <3>2. Append(s, r) \in Seq(Request)
      BY <2>2
    <3> QED BY <3>1, <3>2
  <2>4. \/ pending' = [pending EXCEPT ![q] = @ \o SubSeq(f, 1, Fits(f, pending[q]))]
        \/ UNCHANGED pending
    BY <1>9, <2>1, <2>2, <2>3, Zenon DEF Submit, MovePending
  <2>5. UNCHANGED <<pendingSeen, completed, completedSeen>>
    BY <1>9 DEF Submit
  <2> QED BY <1>4, <1>7, <2>4, <2>5
<1>10. ASSUME NEW c \in Core, Event(c) \/ OtherEvent(c) PROVE RingsOK'
  BY <1>7, <1>10 DEF Event, OtherEvent, queueVars
<1>11. ASSUME NEW q \in Queue, PublishRequest(q) PROVE RingsOK'
  <2>1. Len(pending[q]) \in Nat /\ pendingSeen[q] < Len(pending[q])
    BY <1>1, <1>11 DEF PublishRequest
  <2> QED BY <1>1, <1>11, <2>1 DEF PublishRequest, RingsOK
<1>12. ASSUME NEW q \in Queue, PublishResponse(q) PROVE RingsOK'
  <2>1. Len(completed[q]) \in Nat /\ completedSeen[q] < Len(completed[q])
    BY <1>1, <1>12 DEF PublishResponse
  <2> QED BY <1>1, <1>12, <2>1 DEF PublishResponse, RingsOK
<1>13. CASE UNCHANGED vars
  BY <1>7, <1>13 DEF vars, queueVars
<1> QED BY <1>8, <1>9, <1>10, <1>11, <1>12, <1>13 DEF Next

\* Every step keeps the invariant.
LEMMA NextInv ==
    ASSUME IInv, [Next]_vars
    PROVE  IInv'
<1>1. TypeOK
  BY TypesFromBooks
<1>2. LoopsOK'
  BY <1>1, LoopsStep DEF IInv
<1>3. RingsOK'
  BY <1>1, RingsStep
<1>4. PICK place : Account(Books, place)
  BY DEF IInv, Balanced
<1>5. PICK after : Account(Books', after)
  BY <1>4, BooksStep DEF Good
<1>6. after \in [Request -> Stage]
  BY <1>5 DEF Account, Placed
<1>7. Balanced(Books')
  BY <1>5, <1>6 DEF Balanced
<1> QED BY <1>2, <1>3, <1>7 DEF IInv, Balanced, Account, Typed, RestOfProgram, Routed, Orderly,
                                NoneTwice, Placed, Counted

\* In every run, the requests are in one place each, in order and counted.
THEOREM Invariance == Spec => []IInv
<1>1. Init => IInv
  BY InitInv
<1>2. IInv /\ [Next]_vars => IInv'
  BY NextInv
<1> QED BY <1>1, <1>2, PTL DEF Spec

\* The types of the state and the bounds of the rings, for all programs,
\* numbers of cores and sizes.
THEOREM TypeCorrect == Spec => []TypeOK
<1>1. IInv => TypeOK
  BY TypesFromBooks
<1> QED BY <1>1, Invariance, PTL

\* The parts of a queue are its requests in flight, and share none.
LEMMA FlightParts ==
    ASSUME TypeOK, NEW place, Account(Books, place), NEW q \in Queue
    PROVE  /\ InFlight(q) = InTheAir(place, q)
           /\ Range(pending[q]) = {r \in Request : Route[r] = q /\ place[r] = "ring"}
           /\ DeferredOf(q) = {r \in Request : Route[r] = q /\ place[r] = "deferred"}
           /\ {tasks[To(q)][i] : i \in TasksOf(q)} = {r \in Request : Route[r] = q /\ place[r] = "task"}
           /\ Range(completed_fifo[q]) = {r \in Request : Route[r] = q /\ place[r] = "answer"}
           /\ Range(completed[q]) = {r \in Request : Route[r] = q /\ place[r] = "back"}
<1>1. PICK b : b = Books
  OBVIOUS
<1>2. /\ b.ring = pending /\ b.deferred = deferred /\ b.tasks = tasks /\ b.answers = completed_fifo
      /\ b.back = completed
  BY <1>1 DEF Books
<1>3. Placed(b, place) /\ Routed(b) /\ To(q) \in Core
  BY <1>1 DEF Account, Queue, To
<1>4. /\ pending[q] \in Seq(Request) /\ completed_fifo[q] \in Seq(Request)
      /\ completed[q] \in Seq(Request) /\ tasks[To(q)] \in Seq(Request) /\ deferred \subseteq Request
  BY <1>3 DEF TypeOK
<1>5. Range(pending[q]) = {r \in Request : Route[r] = q /\ place[r] = "ring"}
  <2>1. \A r \in Range(pending[q]) : r \in Request /\ Route[r] = q
    BY <1>2, <1>3, <1>4 DEF Routed, Range
  <2> QED BY <1>2, <1>3, <2>1 DEF Placed
<1>6. DeferredOf(q) = {r \in Request : Route[r] = q /\ place[r] = "deferred"}
  BY <1>2, <1>3, <1>4 DEF Placed, DeferredOf
<1>7. {tasks[To(q)][i] : i \in TasksOf(q)} = {r \in Request : Route[r] = q /\ place[r] = "task"}
  <2>1. {tasks[To(q)][i] : i \in TasksOf(q)} = {r \in Range(tasks[To(q)]) : Route[r] = q}
    BY DEF TasksOf, Range
  <2>2. \A r \in Range(tasks[To(q)]) : r \in Request
    BY <1>4 DEF Range
  <2>3. \A r \in Request : Route[r] = q => (place[r] = "task" <=> r \in Range(tasks[To(q)]))
    BY <1>2, <1>3 DEF Placed
  <2> QED BY <2>1, <2>2, <2>3
<1>8. Range(completed_fifo[q]) = {r \in Request : Route[r] = q /\ place[r] = "answer"}
  <2>1. \A r \in Range(completed_fifo[q]) : r \in Request /\ Route[r] = q
    BY <1>2, <1>3, <1>4 DEF Routed, Range
  <2> QED BY <1>2, <1>3, <2>1 DEF Placed
<1>9. Range(completed[q]) = {r \in Request : Route[r] = q /\ place[r] = "back"}
  <2>1. \A r \in Range(completed[q]) : r \in Request /\ Route[r] = q
    BY <1>2, <1>3, <1>4 DEF Routed, Range
  <2> QED BY <1>2, <1>3, <2>1 DEF Placed
<1>10. InFlight(q) = InTheAir(place, q)
  BY <1>5, <1>6, <1>7, <1>8, <1>9 DEF InFlight, InTheAir, Flying
<1> QED BY <1>5, <1>6, <1>7, <1>8, <1>9, <1>10

\* _current_queue_length is the number of requests in flight, and as no
\* request is in two places, the sum of the lengths of where they are.
LEMMA CountOfInv ==
    ASSUME IInv
    PROVE  QueueLengthExact
<1>1. TypeOK
  BY TypesFromBooks
<1>2. PICK place : Account(Books, place)
  BY DEF IInv, Balanced
<1>3. PICK b : b = Books
  OBVIOUS
<1>4. /\ b.ring = pending /\ b.tasks = tasks /\ b.answers = completed_fifo
      /\ b.back = completed /\ b.length = queue_length
      /\ Typed(b) /\ Orderly(b) /\ NoneTwice(b) /\ Counted(b, place)
  BY <1>2, <1>3 DEF Books, Account
<1> SUFFICES ASSUME NEW q \in Queue
             PROVE  /\ queue_length[q] = Cardinality(InFlight(q))
                    /\ queue_length[q] = Len(pending[q]) + Cardinality(DeferredOf(q))
                                          + Cardinality(TasksOf(q)) + Len(completed_fifo[q])
                                          + Len(completed[q])
  BY DEF QueueLengthExact
<1> DEFINE R == Range(pending[q])
           D == DeferredOf(q)
           T == {tasks[To(q)][i] : i \in TasksOf(q)}
           A == Range(completed_fifo[q])
           B == Range(completed[q])
<1>5. /\ InFlight(q) = InTheAir(place, q)
      /\ R = {r \in Request : Route[r] = q /\ place[r] = "ring"}
      /\ D = {r \in Request : Route[r] = q /\ place[r] = "deferred"}
      /\ T = {r \in Request : Route[r] = q /\ place[r] = "task"}
      /\ A = {r \in Request : Route[r] = q /\ place[r] = "answer"}
      /\ B = {r \in Request : Route[r] = q /\ place[r] = "back"}
  BY <1>1, <1>2, FlightParts
<1>6. /\ IsFiniteSet(InFlight(q)) /\ queue_length[q] = Cardinality(InFlight(q))
  BY <1>4, <1>5 DEF Counted
<1>7. InFlight(q) = (((R \cup D) \cup T) \cup A) \cup B
  BY DEF InFlight
<1>8. IsFiniteSet(R) /\ Cardinality(R) = Len(pending[q])
  <2>1. PICK s \in Seq(Request) : s = pending[q] /\ Distinct(s)
    <3>1. pending[q] \in Seq(Request) /\ Distinct(b.ring[q])
      BY <1>1, <1>4, BatchAndRing DEF TypeOK
    <3> QED BY <1>4, <3>1
  <2> QED BY <2>1, DistinctCard
<1>9. IsFiniteSet(A) /\ Cardinality(A) = Len(completed_fifo[q])
  <2>1. PICK s \in Seq(Request) : s = completed_fifo[q] /\ Distinct(s)
    BY <1>1, <1>4 DEF TypeOK, NoneTwice
  <2> QED BY <2>1, DistinctCard
<1>10. IsFiniteSet(B) /\ Cardinality(B) = Len(completed[q])
  <2>1. PICK s \in Seq(Request) : s = completed[q] /\ Distinct(s)
    BY <1>1, <1>4 DEF TypeOK, NoneTwice
  <2> QED BY <2>1, DistinctCard
<1>11. IsFiniteSet(T) /\ Cardinality(T) = Cardinality(TasksOf(q))
  <2>1. To(q) \in Core
    BY DEF Queue, To
  <2>2. PICK s \in Seq(Request) : s = tasks[To(q)] /\ Distinct(s)
    BY <1>1, <1>4, <2>1 DEF TypeOK, NoneTwice
  <2>3. PICK I : I = TasksOf(q)
    OBVIOUS
  <2>4. I \subseteq DOMAIN s /\ T = {s[i] : i \in I}
    BY <2>2, <2>3 DEF TasksOf
  <2> HIDE DEF T
  <2>5. [i \in I |-> s[i]] \in Bijection(I, T)
    BY <2>2, <2>4 DEF Bijection, Injection, Surjection, IsInjective, Distinct
  <2>6. ExistsBijection(I, T)
    BY <2>5 DEF ExistsBijection
  <2>7. IsFiniteSet(T)
    <3>1. T \in SUBSET InFlight(q)
      BY <1>7
    <3> QED BY <1>6, <3>1, FS_Subset
  <2>8. ExistsBijection(T, I)
    BY <2>6, Fun_ExistsBijSymmetric
  <2>9. Cardinality(I) = Cardinality(T)
    BY <2>7, <2>8, FS_Bijection
  <2> QED BY <2>3, <2>7, <2>9
<1>12. IsFiniteSet(D) /\ Cardinality(D) \in Nat
  <2>1. D \in SUBSET InFlight(q)
    BY <1>7
  <2> QED BY <1>6, <2>1, FS_Subset, FS_CardinalityType
<1>13. R \cap D = {} /\ (R \cup D) \cap T = {} /\ ((R \cup D) \cup T) \cap A = {}
       /\ (((R \cup D) \cup T) \cup A) \cap B = {}
  BY <1>5
<1> HIDE DEF R, D, T, A, B
<1>14. ASSUME NEW X, NEW Y, IsFiniteSet(X), IsFiniteSet(Y), X \cap Y = {}
       PROVE  /\ IsFiniteSet(X \cup Y)
              /\ Cardinality(X \cup Y) = Cardinality(X) + Cardinality(Y)
              /\ Cardinality(X) \in Nat /\ Cardinality(Y) \in Nat
  <2>1. Cardinality(X \cap Y) = 0
    BY <1>14, FS_EmptySet
  <2>2. /\ IsFiniteSet(X \cup Y)
        /\ Cardinality(X \cup Y) = Cardinality(X) + Cardinality(Y) - Cardinality(X \cap Y)
    BY <1>14, FS_Union
  <2>3. Cardinality(X) \in Nat /\ Cardinality(Y) \in Nat
    BY <1>14, FS_CardinalityType
  <2> QED BY <2>1, <2>2, <2>3
<1>15. IsFiniteSet(R \cup D) /\ Cardinality(R \cup D) = Cardinality(R) + Cardinality(D)
  BY <1>8, <1>12, <1>13, <1>14
<1>16. /\ IsFiniteSet((R \cup D) \cup T)
       /\ Cardinality((R \cup D) \cup T) = Cardinality(R \cup D) + Cardinality(T)
  BY <1>11, <1>13, <1>14, <1>15
<1>17. /\ IsFiniteSet(((R \cup D) \cup T) \cup A)
       /\ Cardinality(((R \cup D) \cup T) \cup A) = Cardinality((R \cup D) \cup T) + Cardinality(A)
  BY <1>9, <1>13, <1>14, <1>16
<1>18. Cardinality((((R \cup D) \cup T) \cup A) \cup B)
         = Cardinality(((R \cup D) \cup T) \cup A) + Cardinality(B)
  BY <1>10, <1>13, <1>14, <1>17
<1>19. queue_length[q] = Cardinality(R) + Cardinality(D) + Cardinality(T) + Cardinality(A) + Cardinality(B)
  BY <1>6, <1>7, <1>15, <1>16, <1>17, <1>18
<1>20. queue_length[q] = Len(pending[q]) + Cardinality(D) + Cardinality(TasksOf(q))
                                + Len(completed_fifo[q]) + Len(completed[q])
  BY <1>8, <1>9, <1>10, <1>11, <1>19
<1> QED BY <1>6, <1>20 DEF D

\* The counter of every queue is exact in every run.
THEOREM CountExact == Spec => []QueueLengthExact
<1>1. IInv => QueueLengthExact
  BY CountOfInv
<1> QED BY <1>1, Invariance, PTL

-----------------------------------------------------------------------------
(* The calls implement RemoteCalls.                                        *)

\* The calls of RemoteCalls are the requests of the programs.
LEMMA SameRequests == Calls!Request = Request
BY DEF Calls!Request, Request

\* What the same core has submitted before to the same core.
LEMMA EarlierIsBefore ==
    ASSUME NEW r \in Request
    PROVE  /\ Calls!Earlier[r] \subseteq Request
           /\ \A x \in Calls!Earlier[r] : Before(x, r)
<1>1. Calls!Earlier[r] = UNION {{Program[c][i] : i \in {k \in DOMAIN Program[c] :
                            /\ Target[Program[c][k]] = Target[r]
                            /\ \E j \in DOMAIN Program[c] : k < j /\ Program[c][j] = r}} : c \in Core}
  BY SameRequests DEF Calls!Earlier
<1> SUFFICES ASSUME NEW x \in Calls!Earlier[r] PROVE x \in Request /\ Before(x, r)
  OBVIOUS
<1>2. PICK c \in Core : x \in {Program[c][i] : i \in {k \in DOMAIN Program[c] :
                            /\ Target[Program[c][k]] = Target[r]
                            /\ \E j \in DOMAIN Program[c] : k < j /\ Program[c][j] = r}}
  BY <1>1
<1>3. PICK k \in DOMAIN Program[c] : /\ x = Program[c][k] /\ Target[x] = Target[r]
                                     /\ \E j \in DOMAIN Program[c] : k < j /\ Program[c][j] = r
  BY <1>2
<1>4. PICK j \in DOMAIN Program[c] : k < j /\ Program[c][j] = r
  BY <1>3
<1>5. x \in Request /\ Route[x] = <<Target[x], c>> /\ Rank[x] = k
  BY <1>3, SubmittedOnce
<1>6. Route[r] = <<Target[r], c>> /\ Rank[r] = j
  BY <1>4, SubmittedOnce
<1> QED BY <1>3, <1>4, <1>5, <1>6 DEF Before


\* The phase of request r, computed from the books.
PhaseIn(t, f, g, d, k, a, h, o, r) ==
    CASE r \in Range(t[From(Route[r])]) -> "new"
      [] r \in Range(f[Route[r]]) \cup Range(g[Route[r]]) -> "sent"
      [] r \in d \/ r \in Range(k[Target[r]]) -> "running"
      [] r \in Range(a[Route[r]]) \cup Range(h[Route[r]]) -> "finished"
      [] r \in o -> "done"

\* The phases of all requests.
PhasesIn(b) == [r \in Request |-> PhaseIn(b.todo, b.fifo, b.ring, b.deferred, b.tasks,
                                         b.answers, b.back, b.done, r)]

\* The phase of a request is the one its place shows.
LEMMA PhaseOfPlace ==
    ASSUME NEW b, NEW place, Account(b, place)
    PROVE  PhasesIn(b) = Shown(place)
<1>1. Placed(b, place)
  BY DEF Account
<1> DEFINE In(r) == PhaseIn(b.todo, b.fifo, b.ring, b.deferred, b.tasks, b.answers, b.back,
                          b.done, r)
<1>2. PhasesIn(b) = [r \in Request |-> In(r)]
  BY Zenon DEF PhasesIn
<1> SUFFICES ASSUME NEW r \in Request PROVE In(r) = Shown(place)[r]
  BY <1>2 DEF Shown
<1>3. /\ place[r] = "todo" <=> r \in Range(b.todo[From(Route[r])])
      /\ place[r] \in {"fifo", "ring"} <=>
            r \in Range(b.fifo[Route[r]]) \cup Range(b.ring[Route[r]])
      /\ place[r] \in {"deferred", "task"} <=> r \in b.deferred \/ r \in Range(b.tasks[Target[r]])
      /\ place[r] \in {"answer", "back"} <=>
            r \in Range(b.answers[Route[r]]) \cup Range(b.back[Route[r]])
      /\ place[r] = "done" <=> r \in b.done
  <2>1. To(Route[r]) = Target[r]
    BY RequestFacts
  <2> QED BY <1>1, <2>1 DEF Placed
<1>4. place[r] \in {"todo", "fifo", "ring", "deferred", "task", "answer", "back", "done"}
  BY <1>1 DEF Placed, Stage
<1>5. Shown(place)[r] = IF place[r] = "todo" THEN "new"
                        ELSE IF place[r] \in {"fifo", "ring"} THEN "sent"
                        ELSE IF place[r] \in {"deferred", "task"} THEN "running"
                        ELSE IF place[r] \in {"answer", "back"} THEN "finished"
                        ELSE "done"
  BY DEF Shown
<1>6. CASE place[r] = "todo"
  BY <1>3, <1>5, <1>6, Zenon DEF PhaseIn
<1>7. CASE place[r] \in {"fifo", "ring"}
  BY <1>3, <1>5, <1>7, Zenon DEF PhaseIn
<1>8. CASE place[r] \in {"deferred", "task"}
  BY <1>3, <1>5, <1>8, Zenon DEF PhaseIn
<1>9. CASE place[r] \in {"answer", "back"}
  BY <1>3, <1>5, <1>9, Zenon DEF PhaseIn
<1>10. CASE place[r] = "done"
  BY <1>3, <1>5, <1>10, Zenon DEF PhaseIn
<1> QED BY <1>4, <1>6, <1>7, <1>8, <1>9, <1>10

\* A step of the calls, in terms of the phases before and after it.
CallStep(old, new) ==
    \/ new = old
    \/ \E r \in {x \in Request : old[x] = "new"} :
          /\ \A s \in Calls!Earlier[r] : old[s] # "new"
          /\ new = [x \in Request |-> IF x \in {r} THEN "sent" ELSE old[x]]
    \/ \E S \in SUBSET {x \in Request : old[x] = "sent"} :
          /\ \A r \in S : \A s \in Calls!Earlier[r] \ S : old[s] \notin {"new", "sent"}
          /\ new = [x \in Request |-> IF x \in S THEN "running" ELSE old[x]]
    \/ \E r \in {x \in Request : old[x] = "running"} :
          new = [x \in Request |-> IF x \in {r} THEN "finished" ELSE old[x]]
    \/ \E S \in SUBSET {x \in Request : old[x] = "finished"} :
          new = [x \in Request |-> IF x \in S THEN "done" ELSE old[x]]

\* What the books may do to the places of requests is a step of the calls.
LEMMA AdvanceIsNext ==
    ASSUME NEW place \in [Request -> Stage], NEW after, Advance(place, after)
    PROVE  CallStep(Shown(place), Shown(after))
<1>1. PICK old, new : old = Shown(place) /\ new = Shown(after)
  OBVIOUS
<1>2. \A x \in Request : old[x] = IF place[x] = "todo" THEN "new"
                                  ELSE IF place[x] \in {"fifo", "ring"} THEN "sent"
                                  ELSE IF place[x] \in {"deferred", "task"} THEN "running"
                                  ELSE IF place[x] \in {"answer", "back"} THEN "finished"
                                  ELSE "done"
  BY <1>1 DEF Shown
<1>3. \A S, to : Raise(place, S, to) = [x \in Request |-> IF x \in S THEN to ELSE old[x]]
  BY <1>1 DEF Raise
<1>4. ASSUME NEW r, Submits(place, after, r)
      PROVE  \E y \in {x \in Request : old[x] = "new"} :
                 /\ \A s \in Calls!Earlier[y] : old[s] # "new"
                 /\ new = [x \in Request |-> IF x \in {y} THEN "sent" ELSE old[x]]
  <2>1. r \in Request /\ old[r] = "new"
    BY <1>2, <1>4 DEF Submits
  <2>2. ASSUME NEW s \in Calls!Earlier[r] PROVE old[s] # "new"
    <3>1. s \in Request /\ Before(s, r)
      BY <2>1, EarlierIsBefore
    <3>2. place[s] # "todo"
      BY <1>4, <3>1 DEF Submits
    <3> QED BY <1>2, <3>1, <3>2
  <2>3. new = [x \in Request |-> IF x \in {r} THEN "sent" ELSE old[x]]
    BY <1>1, <1>3, <1>4 DEF Submits
  <2> QED BY <2>1, <2>2, <2>3
<1>5. ASSUME NEW S, Starts(place, after, S)
      PROVE  \E Y \in SUBSET {x \in Request : old[x] = "sent"} :
                 /\ \A r \in Y : \A s \in Calls!Earlier[r] \ Y : old[s] \notin {"new", "sent"}
                 /\ new = [x \in Request |-> IF x \in Y THEN "running" ELSE old[x]]
  <2>1. S \in SUBSET {x \in Request : old[x] = "sent"}
    BY <1>2, <1>5 DEF Starts
  <2>2. ASSUME NEW r \in S, NEW s \in Calls!Earlier[r] \ S PROVE old[s] \notin {"new", "sent"}
    <3>1. r \in Request
      BY <2>1
    <3>2. s \in Request \ S /\ Before(s, r)
      BY <3>1, EarlierIsBefore
    <3>3. place[s] \notin {"todo", "fifo", "ring"}
      BY <1>5, <3>2 DEF Starts
    <3> QED BY <1>2, <3>2, <3>3
  <2>3. new = [x \in Request |-> IF x \in S THEN "running" ELSE old[x]]
    BY <1>1, <1>3, <1>5 DEF Starts
  <2> QED BY <2>1, <2>2, <2>3
<1>6. ASSUME NEW r, Finishes(place, after, r)
      PROVE  \E y \in {x \in Request : old[x] = "running"} :
                 new = [x \in Request |-> IF x \in {y} THEN "finished" ELSE old[x]]
  <2>1. r \in Request /\ old[r] = "running"
    BY <1>2, <1>6 DEF Finishes
  <2>2. new = [x \in Request |-> IF x \in {r} THEN "finished" ELSE old[x]]
    BY <1>1, <1>3, <1>6 DEF Finishes
  <2> QED BY <2>1, <2>2
<1>7. ASSUME NEW S, Completes(place, after, S)
      PROVE  \E Y \in SUBSET {x \in Request : old[x] = "finished"} :
                 new = [x \in Request |-> IF x \in Y THEN "done" ELSE old[x]]
  <2>1. S \in SUBSET {x \in Request : old[x] = "finished"}
    BY <1>2, <1>7 DEF Completes
  <2>2. new = [x \in Request |-> IF x \in S THEN "done" ELSE old[x]]
    BY <1>1, <1>3, <1>7 DEF Completes
  <2> QED BY <2>1, <2>2
<1>8. CallStep(old, new)
  BY <1>1, <1>4, <1>5, <1>6, <1>7 DEF Advance, CallStep
<1> QED BY <1>1, <1>8

\* The phases by which the core calls implement the calls.
Phases == [r \in Request |-> PhaseOf(r)]

\* A step of the core calls is a step of the calls or leaves all phases as
\* they are.
LEMMA StepIsCall ==
    ASSUME IInv, [Next]_vars
    PROVE  [Calls!Next]_Phases
<1>1. PICK place : Account(Books, place)
  BY DEF IInv, Balanced
<1>2. PICK after : Account(Books', after) /\ Advance(place, after)
  BY <1>1, BooksStep DEF Good
<1>3. place \in [Request -> Stage]
  BY <1>1 DEF Account, Placed
<1>4. Phases = Shown(place)
  <2>1. PICK b : b = Books
    OBVIOUS
  <2>2. /\ b.todo = todo /\ b.fifo = pending_fifo /\ b.ring = pending
        /\ b.deferred = deferred /\ b.tasks = tasks /\ b.answers = completed_fifo
        /\ b.back = completed /\ b.done = done
    BY <2>1 DEF Books
  <2>3. Phases = [r \in Request |-> PhaseIn(todo, pending_fifo, pending, deferred,
                                              tasks, completed_fifo, completed, done, r)]
    BY Zenon DEF Phases, PhaseOf, PhaseIn
  <2>4. Phases = PhasesIn(b)
    BY <2>2, <2>3 DEF PhasesIn
  <2> QED BY <1>1, <2>1, <2>4, PhaseOfPlace
<1>5. Phases' = Shown(after)
  <2>1. PICK b : b = Books'
    OBVIOUS
  <2>2. /\ b.todo = todo' /\ b.fifo = pending_fifo' /\ b.ring = pending'
        /\ b.deferred = deferred' /\ b.tasks = tasks' /\ b.answers = completed_fifo'
        /\ b.back = completed' /\ b.done = done'
    BY <2>1 DEF Books
  <2>3. Phases' = [r \in Request |-> PhaseIn(todo', pending_fifo', pending', deferred',
                                              tasks', completed_fifo', completed', done', r)]
    BY Zenon DEF Phases, PhaseOf, PhaseIn
  <2>4. Phases' = PhasesIn(b)
    BY <2>2, <2>3 DEF PhasesIn
  <2> QED BY <1>2, <2>1, <2>4, PhaseOfPlace
<1>6. PICK old, new : old = Phases /\ new = Phases'
  OBVIOUS
<1>7. CallStep(old, new)
  <2>1. CallStep(Shown(place), Shown(after))
    BY <1>2, <1>3, AdvanceIsNext
  <2> QED BY <1>4, <1>5, <1>6, <2>1
<1>8. \/ new = old
      \/ \E r \in {x \in Request : old[x] = "new"} :
                /\ \A s \in Calls!Earlier[r] : old[s] # "new"
                /\ new = [x \in Request |-> IF x \in {r} THEN "sent" ELSE old[x]]
      \/ \E S \in SUBSET {x \in Request : old[x] = "sent"} :
                /\ \A r \in S : \A s \in Calls!Earlier[r] \ S : old[s] \notin {"new", "sent"}
                /\ new = [x \in Request |-> IF x \in S THEN "running" ELSE old[x]]
      \/ \E r \in {x \in Request : old[x] = "running"} :
                new = [x \in Request |-> IF x \in {r} THEN "finished" ELSE old[x]]
      \/ \E S \in SUBSET {x \in Request : old[x] = "finished"} :
                new = [x \in Request |-> IF x \in S THEN "done" ELSE old[x]]
  BY <1>7 DEF CallStep
<1>9. Calls!Request = Request
  BY SameRequests
<1>10. ASSUME NEW r \in {x \in Request : old[x] = "new"},
              \A s \in Calls!Earlier[r] : old[s] # "new",
              new = [x \in Request |-> IF x \in {r} THEN "sent" ELSE old[x]]
       PROVE  Calls!Next
  <2>1. Calls!Submit(r) /\ r \in Calls!InPhase("new")
    BY <1>6, <1>9, <1>10 DEF Calls!Submit, Calls!Move, Calls!InPhase, Phases
  <2> QED BY <2>1 DEF Calls!Next
<1>11. ASSUME NEW S \in SUBSET {x \in Request : old[x] = "sent"},
              \A r \in S : \A s \in Calls!Earlier[r] \ S : old[s] \notin {"new", "sent"},
              new = [x \in Request |-> IF x \in S THEN "running" ELSE old[x]]
       PROVE  Calls!Next
  <2>1. Calls!Run(S) /\ S \in SUBSET Calls!InPhase("sent")
    BY <1>6, <1>9, <1>11 DEF Calls!Run, Calls!Move, Calls!InPhase, Phases
  <2> QED BY <2>1 DEF Calls!Next
<1>12. ASSUME NEW r \in {x \in Request : old[x] = "running"},
              new = [x \in Request |-> IF x \in {r} THEN "finished" ELSE old[x]]
       PROVE  Calls!Next
  <2>1. Calls!Finish(r) /\ r \in Calls!InPhase("running")
    BY <1>6, <1>9, <1>12 DEF Calls!Finish, Calls!Move, Calls!InPhase, Phases
  <2> QED BY <2>1 DEF Calls!Next
<1>13. ASSUME NEW S \in SUBSET {x \in Request : old[x] = "finished"},
              new = [x \in Request |-> IF x \in S THEN "done" ELSE old[x]]
       PROVE  Calls!Next
  <2>1. Calls!Complete(S) /\ S \in SUBSET Calls!InPhase("finished")
    BY <1>6, <1>9, <1>13 DEF Calls!Complete, Calls!Move, Calls!InPhase, Phases
  <2> QED BY <2>1 DEF Calls!Next
<1> QED BY <1>6, <1>8, <1>10, <1>11, <1>12, <1>13

\* The functions of the calls run once each and in the order of submission, and
\* each promise is resolved once and after its function has finished.
THEOREM Implementation == Spec => ImplementsCalls
<1>1. Init => Calls!Init
  <2> SUFFICES ASSUME Init PROVE Calls!Init
    OBVIOUS
  <2>1. todo = Program
    BY DEF Init
  <2>2. \A r \in Request : r \in Range(todo[From(Route[r])])
    BY <2>1, RequestFacts DEF Range
  <2>3. \A r \in Request : PhaseOf(r) = "new"
    <3> SUFFICES ASSUME NEW r \in Request PROVE PhaseOf(r) = "new"
      OBVIOUS
    <3>1. Route[r] \in Queue /\ Target[r] \in Core
      BY RequestFacts
    <3>2. /\ r \notin Range(pending_fifo[Route[r]]) \cup Range(pending[Route[r]])
          /\ ~(r \in deferred \/ r \in Range(tasks[Target[r]]))
          /\ r \notin Range(completed_fifo[Route[r]]) \cup Range(completed[Route[r]])
          /\ r \notin done
      BY <3>1 DEF Init, Range
    <3> QED BY <2>2, <3>2, Zenon DEF PhaseOf
  <2> QED BY <2>3, SameRequests DEF Calls!Init
<1>2. IInv /\ [Next]_vars => [Calls!Next]_([r \in Request |-> PhaseOf(r)])
  BY StepIsCall DEF Phases
<1> QED BY <1>1, <1>2, Invariance, PTL DEF Spec, ImplementsCalls, Calls!Spec

-----------------------------------------------------------------------------
(* Sleep and wake-up: a core that waits in epoll_pwait has nothing in its  *)
(* rings, or is about to be woken, and has left nothing behind that only it *)
(* can send.                                                               *)

\* Core c has set its flag and polls once more, or waits in epoll_pwait.
LastPoll(c) == pc[c] = "asleep" \/ (mode[c] = "sleep" /\ pc[c] \in Polling \cup {"next"})
\* Core c is between setting its flag and taking it down.
InSleep(c) == pc[c] = "barrier" \/ LastPoll(c)

\* The flag of c is up, or the core that has taken it down has sent the signal
\* or is about to.
FlagUp(c) == \/ sleeping[c]
             \/ signal[c]
             \/ \E o \in Core : waking[o].target = c /\ waking[o].step = "kill"

\* A signal is pending, or some core has pushed and is in maybe_wakeup.
Coming(c) == signal[c] \/ \E o \in Core : waking[o].target = c

\* poll_queues of core c has gone through core i as far as the places named.
Past(c, i, places) == \/ pc[c] = "asleep" \/ i < peer[c]
                      \/ i = peer[c] /\ pc[c] \in places

\* Nothing is to come from core i unseen, and what was there has been taken.
NoInput(c, i) ==
    /\ pendingSeen[<<c, i>>] = Len(pending[<<c, i>>])
    /\ completedSeen[<<i, c>>] = Len(completed[<<i, c>>])
    /\ Past(c, i, {"request", "completions", "next"}) => pending[<<c, i>>] = << >>
    /\ Past(c, i, {"next"}) => completed[<<i, c>>] = << >>

\* Nothing is left for core i, except requests behind a full ring.
NoOutput(c, i) ==
    /\ Past(c, i, {"incoming", "request", "completions", "next"}) => completed_fifo[<<c, i>>] = << >>
    /\ Past(c, i, {"completions", "next"}) /\ pending_fifo[<<i, c>>] # << >> =>
          queue_length[<<i, c>>] > 0

\* The three facts about a core that is about to sleep: others see its flag,
\* it has seen all input, and it has sent all output.
FlagInv(c) == InSleep(c) => FlagUp(c)
\* A core that found nothing has no input, unless it will be woken.
InputInv(c) == LastPoll(c) => got[c] \/ Coming(c) \/ \A i \in Core \ {c} : NoInput(c, i)
\* A core that found nothing has sent what it could.
OutputInv(c) == LastPoll(c) => got[c] \/ \A i \in Core \ {c} : NoOutput(c, i)

\* The invariant of sleeping: for every core, and one that waits found nothing.
SleepInv == \A c \in Core : /\ FlagInv(c) /\ InputInv(c) /\ OutputInv(c)
                            /\ pc[c] = "asleep" => ~got[c]

\* What core d does.
StepOf(d) == Loop(d) \/ Submit(d) \/ Event(d) \/ OtherEvent(d)

-----------------------------------------------------------------------------
(* The flag and the wake-up.                                               *)

\* A core in maybe_wakeup does nothing else; all that goes on for c goes on.
Calm(c) ==
    /\ sleeping'[c] = sleeping[c] /\ signal'[c] = signal[c]
    /\ \A o \in Core : waking[o].target \in Core => waking'[o] = waking[o]
    /\ InSleep(c)' => InSleep(c)

\* The flag of c is up in the next state, and a wake-up under way stays so.
StillUp(c) ==
    InSleep(c)' => FlagUp(c)' /\ (InSleep(c) /\ Coming(c) => Coming(c)')

\* A step that is calm for c keeps its flag up.
LEMMA CalmIsUp ==
    ASSUME NEW c \in Core, Calm(c), FlagInv(c)
    PROVE  StillUp(c)
BY DEF Calm, StillUp, FlagInv, FlagUp, Coming

\* maybe_wakeup on any core keeps the flag of c up or sends the signal.
LEMMA WakeupIsUp ==
    ASSUME TypeOK, NEW c \in Core, NEW d \in Core, FlagInv(c),
           LoadSleeping(d) \/ ClearSleeping(d) \/ Wakeup(d)
    PROVE  StillUp(c)
<1>1. /\ sleeping \in [Core -> BOOLEAN] /\ signal \in [Core -> BOOLEAN]
      /\ waking \in [Core -> Waking]
  BY DEF TypeOK
<1>2. InSleep(c)' = InSleep(c)
  BY DEF LoadSleeping, ClearSleeping, Wakeup, InSleep, LastPoll, loopVars
<1>3. ASSUME LoadSleeping(d), InSleep(c), FlagUp(c)
      PROVE  FlagUp(c)' /\ (Coming(c) => Coming(c)')
  <2>1. /\ sleeping' = sleeping /\ signal' = signal /\ waking[d].step = "load"
        /\ \A o \in Core \ {d} : waking'[o] = waking[o]
        /\ waking'[d].target = waking[d].target \/ ~sleeping[waking[d].target]
    BY <1>1, <1>3 DEF LoadSleeping, sleepVars, Waking, Idle
  <2>2. FlagUp(c)'
    BY <1>3, <2>1 DEF FlagUp
  <2>3. ASSUME Coming(c) PROVE Coming(c)'
    <3>1. CASE signal[c] \/ \E o \in Core \ {d} : waking[o].target = c
      BY <2>1, <3>1 DEF Coming
    <3>2. CASE waking[d].target = c
      <4>1. CASE sleeping[c]
        BY <2>1, <3>2, <4>1 DEF Coming
      <4>2. CASE ~sleeping[c]
        BY <1>3, <2>1, <4>2 DEF FlagUp, Coming
      <4> QED BY <4>1, <4>2
    <3> QED BY <2>3, <3>1, <3>2 DEF Coming
  <2> QED BY <2>2, <2>3
<1>4. ASSUME ClearSleeping(d), InSleep(c), FlagUp(c)
      PROVE  FlagUp(c)' /\ (Coming(c) => Coming(c)')
  <2>1. /\ signal' = signal /\ waking[d].step = "store"
        /\ \A o \in Core \ {d} : waking'[o] = waking[o]
        /\ waking'[d].target = waking[d].target /\ waking'[d].step = "kill"
        /\ sleeping'[c] = sleeping[c] \/ waking[d].target = c
    <3>1. PICK w : w = waking[d]
      OBVIOUS
    <3>2. w \in [target : Core, step : {"load", "store", "kill"}] /\ w.step = "store"
      BY <1>1, <1>4, <3>1 DEF ClearSleeping, Waking, Idle
    <3>3. /\ waking'[d] = [w EXCEPT !.step = "kill"]
          /\ \A o \in Core \ {d} : waking'[o] = waking[o]
          /\ signal' = signal /\ sleeping' = [sleeping EXCEPT ![w.target] = FALSE]
      BY <1>1, <1>4, <3>1 DEF ClearSleeping
    <3>4. waking'[d].target = w.target /\ waking'[d].step = "kill"
      BY <3>2, <3>3
    <3> QED BY <1>1, <3>1, <3>2, <3>3, <3>4
  <2> QED BY <1>4, <2>1 DEF FlagUp, Coming
<1>5. ASSUME Wakeup(d), InSleep(c), FlagUp(c)
      PROVE  FlagUp(c)' /\ (Coming(c) => Coming(c)')
  <2>1. /\ sleeping' = sleeping
        /\ \A o \in Core \ {d} : waking'[o] = waking[o]
        /\ signal[c] => signal'[c]
        /\ waking[d].target = c => signal'[c]
    BY <1>1, <1>5 DEF Wakeup
  <2> QED BY <1>5, <2>1 DEF FlagUp, Coming
<1> QED BY <1>2, <1>3, <1>4, <1>5 DEF StillUp, FlagInv

\* No other step takes the flag of c down while c sleeps or is about to.
LEMMA FlagStep ==
    ASSUME TypeOK, NEW c \in Core, FlagInv(c), [Next]_vars
    PROVE  StillUp(c)
<1>1. /\ sleeping \in [Core -> BOOLEAN] /\ signal \in [Core -> BOOLEAN]
      /\ waking \in [Core -> Waking] /\ pc \in [Core -> Places]
      /\ mode \in [Core -> {"loop", "sleep"}]
  BY DEF TypeOK
<1>2. NoCore \notin Core
  BY CoreAssumption DEF NoCore
<1>3. ASSUME UNCHANGED <<sleeping, signal, waking>>, InSleep(c)' => InSleep(c) PROVE StillUp(c)
  BY <1>3, CalmIsUp DEF Calm
<1>4. ASSUME NEW d \in Core, waking[d] = Idle, UNCHANGED <<sleeping, signal>>,
             \/ waking' = waking
             \/ \E w : waking' = [waking EXCEPT ![d] = w],
             InSleep(c)' => InSleep(c)
      PROVE  StillUp(c)
  <2>1. waking[d].target \notin Core
    BY <1>2, <1>4 DEF Idle
  <2>2. \A o \in Core : waking[o].target \in Core => waking'[o] = waking[o]
    BY <1>1, <1>4, <2>1
  <2> QED BY <1>4, <2>2, CalmIsUp DEF Calm
<1>5. ASSUME NEW d \in Core, LoadSleeping(d) \/ ClearSleeping(d) \/ Wakeup(d) PROVE StillUp(c)
  BY <1>5, WakeupIsUp
<1>6. ASSUME NEW d \in Core, Submit(d) PROVE StillUp(c)
  <2>1. waking[d] = Idle /\ UNCHANGED <<sleeping, signal, pc, mode>>
    BY <1>6, SMTT(40) DEF Submit, At, sleepVars, loopVars
  <2>2. \/ waking' = waking
        \/ \E w : waking' = [waking EXCEPT ![d] = w]
    BY <1>6 DEF Submit, MovePending
  <2> QED BY <1>4, <2>1, <2>2 DEF InSleep, LastPoll
<1>7. ASSUME NEW d \in Core, Respond(d) PROVE StillUp(c)
  <2>1. waking[d] = Idle /\ UNCHANGED <<sleeping, signal, pc, mode>>
    BY <1>7 DEF Respond, At, sleepVars, loopVars
  <2>2. \/ waking' = waking
        \/ \E w : waking' = [waking EXCEPT ![d] = w]
    BY <1>7 DEF Respond, FlushResponses
  <2> QED BY <1>4, <2>1, <2>2 DEF InSleep, LastPoll
<1>8. ASSUME NEW d \in Core, PollFlushResponses(d) PROVE StillUp(c)
  <2>1. waking[d] = Idle /\ UNCHANGED <<sleeping, signal>> /\ (InSleep(c)' => InSleep(c))
    BY <1>1, <1>8 DEF PollFlushResponses, At, Goto, sleepVars, InSleep, LastPoll, Polling
  <2>2. \/ waking' = waking
        \/ \E w : waking' = [waking EXCEPT ![d] = w]
    BY <1>8 DEF PollFlushResponses, FlushResponses
  <2> QED BY <1>4, <2>1, <2>2
<1>9. ASSUME NEW d \in Core, PollFlushRequests(d) PROVE StillUp(c)
  <2>1. waking[d] = Idle /\ UNCHANGED <<sleeping, signal>> /\ (InSleep(c)' => InSleep(c))
    BY <1>1, <1>9 DEF PollFlushRequests, At, Goto, sleepVars, InSleep, LastPoll, Polling
  <2>2. \/ waking' = waking
        \/ \E w : waking' = [waking EXCEPT ![d] = w]
    BY <1>9 DEF PollFlushRequests, MovePending
  <2> QED BY <1>4, <2>1, <2>2
<1>10. ASSUME NEW d \in Core, PollSignals(d) \/ BlockSignals(d) PROVE StillUp(c)
  <2>1. CASE d = c
    BY <1>1, <1>10, <2>1 DEF PollSignals, BlockSignals, Goto, StillUp, InSleep, LastPoll, Polling
  <2>2. CASE d # c
    <3>1. sleeping' = sleeping /\ waking' = waking /\ signal'[c] = signal[c]
          /\ (InSleep(c)' => InSleep(c))
      BY <1>1, <1>10, <2>2 DEF PollSignals, BlockSignals, Goto, InSleep, LastPoll
    <3> QED BY <3>1, CalmIsUp DEF Calm
  <2> QED BY <2>1, <2>2
<1>11. ASSUME NEW d \in Core, SetSleeping(d) PROVE StillUp(c)
  <2>1. CASE d = c
    BY <1>1, <1>11, <2>1 DEF SetSleeping, At, StillUp, InSleep, LastPoll, FlagUp, Polling
  <2>2. CASE d # c
    <3>1. signal' = signal /\ waking' = waking /\ sleeping'[c] = sleeping[c]
          /\ (InSleep(c)' => InSleep(c))
      BY <1>1, <1>11, <2>2 DEF SetSleeping, Goto, InSleep, LastPoll
    <3> QED BY <3>1, CalmIsUp DEF Calm
  <2> QED BY <2>1, <2>2
<1>12. ASSUME NEW d \in Core, EndLastPoll(d) \/ ExitInterruptMode(d) PROVE StillUp(c)
  <2>1. signal' = signal /\ waking' = waking
        /\ (InSleep(c)' => InSleep(c) /\ sleeping'[c] = sleeping[c])
    BY <1>1, <1>12 DEF EndLastPoll, ExitInterruptMode, At, Goto, InSleep, LastPoll, Polling
  <2>2. CASE InSleep(c)'
    BY <2>1, <2>2, CalmIsUp DEF Calm
  <2> QED BY <2>2 DEF StillUp
<1>13. ASSUME NEW d \in Core,
              \/ NextPeer(d) \/ ProcessIncoming(d) \/ ProcessCompletions(d)
       PROVE  StillUp(c)
  <2>1. UNCHANGED <<sleeping, signal, waking>> /\ (InSleep(c)' => InSleep(c))
    BY <1>1, <1>13 DEF NextPeer, ProcessIncoming, ProcessCompletions, At, Goto, sleepVars,
                       InSleep, LastPoll, Polling
  <2> QED BY <1>3, <2>1
<1>14. ASSUME NEW d \in Core,
              EndPoll(d) \/ TryLock(d) \/ Barrier(d) \/ Interrupted(d) \/ OtherEvent(d)
       PROVE  StillUp(c)
  <2>1. UNCHANGED <<sleeping, signal, waking>> /\ (InSleep(c)' => InSleep(c))
    BY <1>1, <1>14 DEF EndPoll, TryLock, Barrier, Interrupted, OtherEvent, At, Goto, sleepVars,
                       InSleep, LastPoll, Polling
  <2> QED BY <1>3, <2>1
<1>15. ASSUME NEW d \in Core, Event(d) PROVE StillUp(c)
  <2>1. UNCHANGED <<sleeping, signal, waking>> /\ (InSleep(c)' => InSleep(c))
    BY <1>1, <1>15 DEF Event, At, Goto, sleepVars, InSleep, LastPoll, Polling
  <2> QED BY <1>3, <2>1
<1>16. ASSUME NEW q \in Queue, PublishRequest(q) \/ PublishResponse(q) PROVE StillUp(c)
  BY <1>3, <1>16 DEF PublishRequest, PublishResponse, sleepVars, loopVars, InSleep, LastPoll
<1>17. CASE UNCHANGED vars
  BY <1>3, <1>17 DEF vars, sleepVars, loopVars, InSleep, LastPoll
<1> QED BY <1>5, <1>6, <1>7, <1>8, <1>9, <1>10, <1>11, <1>12, <1>13, <1>14, <1>15, <1>16, <1>17
        DEF Next, Loop

-----------------------------------------------------------------------------
(* What another core does.                                                 *)

\* Nothing of the loop of c changes, and nothing of what c has to send.
OutputKept(c) ==
    /\ pc'[c] = pc[c] /\ mode'[c] = mode[c] /\ peer'[c] = peer[c] /\ got'[c] = got[c]
    /\ \A i \in Core \ {c} : /\ completed_fifo'[<<c, i>>] = completed_fifo[<<c, i>>]
                             /\ pending_fifo'[<<i, c>>] = pending_fifo[<<i, c>>]
                             /\ queue_length'[<<i, c>>] = queue_length[<<i, c>>]

\* The rings to c have not changed, and what c saw completely it still does.
InputKept(c) ==
    \A i \in Core \ {c} :
        /\ pending'[<<c, i>>] = pending[<<c, i>>]
        /\ completed'[<<i, c>>] = completed[<<i, c>>]
        /\ pendingSeen[<<c, i>>] = Len(pending[<<c, i>>]) =>
              pendingSeen'[<<c, i>>] = Len(pending[<<c, i>>])
        /\ completedSeen[<<i, c>>] = Len(completed[<<i, c>>]) =>
              completedSeen'[<<i, c>>] = Len(completed[<<i, c>>])

\* A flush moves a prefix; if it moves nothing the ring is as it was.
LEMMA FitsNothing ==
    ASSUME NEW fifo \in Seq(Request), NEW ring \in Seq(Request), Len(ring) <= RingSize,
           Fits(fifo, ring) = 0
    PROVE  ring \o SubSeq(fifo, 1, Fits(fifo, ring)) = ring
<1>1. SubSeq(fifo, 1, 0) = << >>
  OBVIOUS
<1> QED BY <1>1

\* A request pushed by core d wakes the core it is for.
LEMMA RequestsWake ==
    ASSUME TypeOK, NEW c \in Core, NEW d \in Core, NEW q \in Queue, From(q) = d,
           NEW fifo \in Seq(Request), MovePending(d, q, fifo), waking[d] = Idle
    PROVE  \/ Coming(c)'
           \/ \A i \in Core \ {c} : pending'[<<c, i>>] = pending[<<c, i>>]
<1>1. /\ pending \in [Queue -> Seq(Request)] /\ waking \in [Core -> Waking]
      /\ Len(pending[q]) <= RingSize
  BY DEF TypeOK
<1>2. CASE To(q) # c
  <2>1. \A i \in Core \ {c} : <<c, i>> # q
    BY <1>2 DEF To
  <2>2. \A p \in Queue \ {q} : pending'[p] = pending[p]
    BY <1>1 DEF MovePending
  <2>3. \A i \in Core \ {c} : <<c, i>> \in Queue
    BY DEF Queue
  <2> QED BY <2>1, <2>2, <2>3
<1>3. CASE To(q) = c
  <2>1. CASE Fits(fifo, pending[q]) = 0
    <3>1. pending' = [pending EXCEPT ![q] = pending[q]]
      BY <1>1, <2>1, FitsNothing DEF MovePending
    <3> QED BY <1>1, <3>1
  <2>2. CASE Fits(fifo, pending[q]) # 0
    <3>1. waking' = [waking EXCEPT ![d] = [target |-> c, step |-> "load"]]
      BY <1>3, <2>2 DEF MovePending
    <3>2. waking'[d].target = c
      BY <1>1, <3>1
    <3> QED BY <3>2 DEF Coming
  <2> QED BY <2>1, <2>2
<1> QED BY <1>2, <1>3

\* A response pushed by core d wakes the core it is for.
LEMMA ResponsesWake ==
    ASSUME TypeOK, NEW c \in Core, NEW d \in Core, NEW q \in Queue,
           NEW fifo \in Seq(Request), FlushResponses(d, q, fifo), waking[d] = Idle
    PROVE  \/ Coming(c)'
           \/ \A i \in Core \ {c} : completed'[<<i, c>>] = completed[<<i, c>>]
<1>1. /\ completed \in [Queue -> Seq(Request)] /\ waking \in [Core -> Waking]
      /\ Len(completed[q]) <= RingSize
  BY DEF TypeOK
<1>2. CASE From(q) # c
  <2>1. \A i \in Core \ {c} : <<i, c>> # q
    BY <1>2 DEF From
  <2>2. \A p \in Queue \ {q} : completed'[p] = completed[p]
    BY <1>1 DEF FlushResponses
  <2>3. \A i \in Core \ {c} : <<i, c>> \in Queue
    BY DEF Queue
  <2> QED BY <2>1, <2>2, <2>3
<1>3. CASE From(q) = c
  <2>1. CASE Fits(fifo, completed[q]) = 0
    <3>1. completed' = [completed EXCEPT ![q] = completed[q]]
      BY <1>1, <2>1, FitsNothing DEF FlushResponses
    <3> QED BY <1>1, <3>1
  <2>2. CASE Fits(fifo, completed[q]) # 0
    <3>1. waking' = [waking EXCEPT ![d] = [target |-> c, step |-> "load"]]
      BY <1>3, <2>2 DEF FlushResponses
    <3>2. waking'[d].target = c
      BY <1>1, <3>1
    <3> QED BY <3>2 DEF Coming
  <2> QED BY <2>1, <2>2
<1> QED BY <1>2, <1>3

\* The next submission of a core goes to a queue of its own, the next response
\* to a queue it serves.
LEMMA NextRoutes ==
    ASSUME IInv, NEW d \in Core
    PROVE  /\ todo[d] # << >> => /\ Head(todo[d]) \in Request
                                 /\ <<Target[Head(todo[d])], d>> \in Queue
           /\ tasks[d] # << >> => /\ Head(tasks[d]) \in Request
                                  /\ Route[Head(tasks[d])] \in Queue
                                  /\ To(Route[Head(tasks[d])]) = d
<1>1. PICK b, place : b = Books /\ Account(b, place)
  BY DEF IInv, Balanced
<1>2. b.todo = todo /\ b.tasks = tasks /\ RestOfProgram(b) /\ Routed(b)
  BY <1>1 DEF Books, Account
<1>3. todo[d] \in Seq(Request) /\ tasks[d] \in Seq(Request)
  BY TypesFromBooks DEF TypeOK
<1>4. ASSUME todo[d] # << >>
      PROVE  Head(todo[d]) \in Request /\ <<Target[Head(todo[d])], d>> \in Queue
  <2>1. PICK gone \in Nat : Rest(d, todo[d], gone)
    BY <1>2 DEF RestOfProgram
  <2>2. PICK s \in Seq(Request) : s = todo[d]
    BY <1>3
  <2>3. /\ Head(s) \in Request /\ Route[Head(s)] = <<Target[Head(s)], d>>
        /\ Route[Head(s)] \in Queue
    <3>1. Rest(d, s, gone) /\ s # << >>
      BY <1>4, <2>1, <2>2
    <3> QED BY <3>1, NextOfProgram
  <2> QED BY <2>2, <2>3
<1>5. ASSUME tasks[d] # << >>
      PROVE  /\ Head(tasks[d]) \in Request /\ Route[Head(tasks[d])] \in Queue
             /\ To(Route[Head(tasks[d])]) = d
  <2>1. Head(tasks[d]) \in Range(tasks[d]) /\ Head(tasks[d]) \in Request
    BY <1>3, <1>5, TailRange
  <2>2. To(Route[Head(tasks[d])]) = d
    BY <1>2, <2>1 DEF Routed
  <2> QED BY <2>1, <2>2, RequestFacts
<1> QED BY <1>4, <1>5

\* The requests in a ring are counted.
LEMMA RingCounted ==
    ASSUME IInv, NEW q \in Queue
    PROVE  Len(pending[q]) <= queue_length[q]
<1>1. PICK b, place : b = Books /\ Account(b, place)
  BY DEF IInv, Balanced
<1>2. /\ b.ring = pending /\ b.length = queue_length
      /\ Typed(b) /\ Orderly(b) /\ Routed(b) /\ Placed(b, place) /\ Counted(b, place)
  BY <1>1 DEF Books, Account
<1>3. PICK s \in Seq(Request) : s = pending[q] /\ Distinct(s)
  <2>1. pending[q] \in Seq(Request) /\ Distinct(b.ring[q])
    BY <1>2, BatchAndRing DEF Typed
  <2> QED BY <1>2, <2>1
<1>4. IsFiniteSet(Range(s)) /\ Cardinality(Range(s)) = Len(s)
  BY <1>3, DistinctCard
<1>5. Range(s) \in SUBSET InTheAir(place, q)
  <2>1. ASSUME NEW r \in Range(s) PROVE r \in Request /\ Route[r] = q /\ place[r] = "ring"
    <3>1. r \in Request
      BY <1>3 DEF Range
    <3>2. Route[r] = q
      BY <1>2, <1>3 DEF Routed
    <3> QED BY <1>2, <1>3, <3>1, <3>2 DEF Placed
  <2> QED BY <2>1 DEF InTheAir, Flying
<1>6. IsFiniteSet(InTheAir(place, q)) /\ queue_length[q] = Cardinality(InTheAir(place, q))
  BY <1>2 DEF Counted
<1> QED BY <1>3, <1>4, <1>5, <1>6, FS_Subset

\* A step of another core leaves c and what it has to send alone, and wakes c
\* when it pushes something for it.
LEMMA OthersStep ==
    ASSUME IInv, TypeOK, NEW c \in Core, NEW d \in Core \ {c}, StepOf(d)
    PROVE  OutputKept(c) /\ (InputKept(c) \/ Coming(c)')
<1>1. /\ pending \in [Queue -> Seq(Request)] /\ completed \in [Queue -> Seq(Request)]
      /\ pending_fifo \in [Queue -> Seq(Request)] /\ completed_fifo \in [Queue -> Seq(Request)]
      /\ pendingSeen \in [Queue -> Nat] /\ completedSeen \in [Queue -> Nat]
      /\ queue_length \in [Queue -> Nat]
      /\ pc \in [Core -> Places] /\ peer \in [Core -> Core \cup {NoCore}]
      /\ mode \in [Core -> {"loop", "sleep"}] /\ got \in [Core -> BOOLEAN]
  BY DEF TypeOK
<1>2. \A i \in Core \ {c} : <<c, i>> \in Queue /\ <<i, c>> \in Queue
  BY DEF Queue
<1>3. pc[d] \in Polling => Rx(d) \in Queue /\ Tx(d) \in Queue /\ From(Tx(d)) = d /\ To(Rx(d)) = d
  BY DEF IInv, LoopsOK, Queue, Rx, Tx, From, To
<1>4. ASSUME NEW q \in Queue, From(q) = d
      PROVE  \A i \in Core \ {c} : <<i, c>> # q
  BY <1>4 DEF From
<1>5. ASSUME NEW q \in Queue, To(q) = d
      PROVE  \A i \in Core \ {c} : <<c, i>> # q
  BY <1>5 DEF To
<1>6. ASSUME UNCHANGED queueVars PROVE InputKept(c)
  BY <1>6 DEF InputKept, queueVars
<1>7. ASSUME UNCHANGED queueVars,
             pc'[c] = pc[c], mode'[c] = mode[c], peer'[c] = peer[c], got'[c] = got[c]
      PROVE  OutputKept(c)
  BY <1>7 DEF OutputKept, queueVars
<1>8. CASE LoadSleeping(d) \/ ClearSleeping(d) \/ Wakeup(d)
  BY <1>6, <1>7, <1>8 DEF LoadSleeping, ClearSleeping, Wakeup, loopVars
<1>9. CASE Submit(d)
  <2>1. PICK q, fifo : /\ q = <<Target[Head(todo[d])], d>>
                       /\ fifo = Append(pending_fifo[q], Head(todo[d]))
    OBVIOUS
  <2>2. q \in Queue /\ From(q) = d /\ fifo \in Seq(Request)
    <3>1. todo[d] # << >>
      BY <1>9 DEF Submit
    <3>2. q \in Queue /\ Head(todo[d]) \in Request
      BY <2>1, <3>1, NextRoutes, SMTT(40)
    <3> QED BY <1>1, <2>1, <3>2 DEF From
  <2>3. /\ UNCHANGED <<pendingSeen, completed_fifo, completed, completedSeen, loopVars>>
        /\ waking[d] = Idle
        /\ \/ MovePending(d, q, fifo)
           \/ /\ pending_fifo' = [pending_fifo EXCEPT ![q] = fifo]
              /\ UNCHANGED <<pending, queue_length>>
    BY <1>9, <2>1 DEF Submit, At
  <2>4. \A p \in Queue \ {q} : pending_fifo'[p] = pending_fifo[p] /\ queue_length'[p] = queue_length[p]
    BY <1>1, <2>3 DEF MovePending
  <2>5. OutputKept(c)
    BY <1>2, <1>4, <2>2, <2>3, <2>4 DEF OutputKept, loopVars
  <2>6. \/ Coming(c)'
        \/ \A i \in Core \ {c} : pending'[<<c, i>>] = pending[<<c, i>>]
    BY <2>2, <2>3, RequestsWake
  <2> QED BY <2>3, <2>5, <2>6 DEF InputKept
<1>10. CASE Respond(d)
  <2>1. PICK q, fifo : q = Route[Head(tasks[d])] /\ fifo = Append(completed_fifo[q], Head(tasks[d]))
    OBVIOUS
  <2>2. q \in Queue /\ To(q) = d /\ fifo \in Seq(Request)
    <3>1. tasks[d] # << >>
      BY <1>10 DEF Respond
    <3>2. q \in Queue /\ To(q) = d /\ Head(tasks[d]) \in Request
      BY <2>1, <3>1, NextRoutes
    <3> QED BY <1>1, <2>1, <3>2
  <2>3. /\ UNCHANGED <<pending_fifo, pending, pendingSeen, completedSeen, queue_length, loopVars>>
        /\ waking[d] = Idle
        /\ \/ FlushResponses(d, q, fifo)
           \/ /\ completed_fifo' = [completed_fifo EXCEPT ![q] = fifo]
              /\ UNCHANGED completed
    BY <1>10, <2>1 DEF Respond, At
  <2>4. \A p \in Queue \ {q} : completed_fifo'[p] = completed_fifo[p]
    BY <1>1, <2>3 DEF FlushResponses
  <2>5. OutputKept(c)
    BY <1>2, <1>5, <2>2, <2>3, <2>4 DEF OutputKept, loopVars
  <2>6. \/ Coming(c)'
        \/ \A i \in Core \ {c} : completed'[<<i, c>>] = completed[<<i, c>>]
    BY <2>2, <2>3, ResponsesWake
  <2> QED BY <2>3, <2>5, <2>6 DEF InputKept
<1>11. CASE PollFlushResponses(d)
  <2>1. pc[d] = "respond" /\ waking[d] = Idle
    BY <1>11 DEF PollFlushResponses, At
  <2>2. Rx(d) \in Queue /\ To(Rx(d)) = d
    BY <1>3, <2>1 DEF Polling
  <2>3. /\ UNCHANGED <<pending_fifo, pending, pendingSeen, completedSeen, queue_length, mode, peer>>
        /\ FlushResponses(d, Rx(d), completed_fifo[Rx(d)])
        /\ pc'[c] = pc[c] /\ got'[c] = got[c]
    BY <1>1, <1>11 DEF PollFlushResponses, Goto, Found
  <2>4. \A p \in Queue \ {Rx(d)} : completed_fifo'[p] = completed_fifo[p]
    BY <1>1, <2>3 DEF FlushResponses
  <2>5. OutputKept(c)
    BY <1>2, <1>5, <2>2, <2>3, <2>4 DEF OutputKept
  <2>6. \/ Coming(c)'
        \/ \A i \in Core \ {c} : completed'[<<i, c>>] = completed[<<i, c>>]
    BY <1>1, <2>1, <2>2, <2>3, ResponsesWake
  <2> QED BY <2>3, <2>5, <2>6 DEF InputKept
<1>12. CASE PollFlushRequests(d)
  <2>1. pc[d] = "request" /\ waking[d] = Idle
    BY <1>12 DEF PollFlushRequests, At
  <2>2. Tx(d) \in Queue /\ From(Tx(d)) = d
    BY <1>3, <2>1 DEF Polling
  <2>3. /\ UNCHANGED <<pendingSeen, completed_fifo, completed, completedSeen, mode, peer, got>>
        /\ MovePending(d, Tx(d), pending_fifo[Tx(d)])
        /\ pc'[c] = pc[c]
    BY <1>1, <1>12 DEF PollFlushRequests, Goto
  <2>4. \A p \in Queue \ {Tx(d)} : pending_fifo'[p] = pending_fifo[p] /\ queue_length'[p] = queue_length[p]
    BY <1>1, <2>3 DEF MovePending
  <2>5. OutputKept(c)
    BY <1>2, <1>4, <2>2, <2>3, <2>4 DEF OutputKept
  <2>6. \/ Coming(c)'
        \/ \A i \in Core \ {c} : pending'[<<c, i>>] = pending[<<c, i>>]
    BY <1>1, <2>1, <2>2, <2>3, RequestsWake
  <2> QED BY <2>3, <2>5, <2>6 DEF InputKept
<1>13. CASE ProcessIncoming(d)
  <2>1. Rx(d) \in Queue /\ To(Rx(d)) = d
    BY <1>3, <1>13 DEF ProcessIncoming, At, Polling
  <2>2. /\ UNCHANGED <<pending_fifo, completed_fifo, completed, completedSeen, queue_length, mode, peer>>
        /\ pc'[c] = pc[c] /\ got'[c] = got[c]
        /\ \A p \in Queue \ {Rx(d)} : pending'[p] = pending[p] /\ pendingSeen'[p] = pendingSeen[p]
    BY <1>1, <1>13 DEF ProcessIncoming, Goto, Found
  <2>3. OutputKept(c)
    BY <2>2 DEF OutputKept
  <2>4. InputKept(c)
    BY <1>2, <1>5, <2>1, <2>2 DEF InputKept
  <2> QED BY <2>3, <2>4
<1>14. CASE ProcessCompletions(d)
  <2>1. Tx(d) \in Queue /\ From(Tx(d)) = d
    BY <1>3, <1>14 DEF ProcessCompletions, At, Polling
  <2>2. /\ UNCHANGED <<pending_fifo, pending, pendingSeen, completed_fifo, mode, peer>>
        /\ pc'[c] = pc[c] /\ got'[c] = got[c]
        /\ \A p \in Queue \ {Tx(d)} : /\ completed'[p] = completed[p]
                                      /\ completedSeen'[p] = completedSeen[p]
                                      /\ queue_length'[p] = queue_length[p]
    BY <1>1, <1>14 DEF ProcessCompletions, Goto, Found
  <2>3. OutputKept(c)
    BY <1>2, <1>4, <2>1, <2>2 DEF OutputKept
  <2>4. InputKept(c)
    BY <1>2, <1>4, <2>1, <2>2 DEF InputKept
  <2> QED BY <2>3, <2>4
<1>15. CASE Barrier(d)
  <2>1. /\ UNCHANGED <<pending_fifo, pending, completed_fifo, completed, queue_length>>
        /\ pc'[c] = pc[c] /\ got'[c] = got[c] /\ mode'[c] = mode[c] /\ peer'[c] = peer[c]
        /\ \A p \in Queue : /\ pendingSeen'[p] = Len(pending[p])
                             /\ completedSeen'[p] = Len(completed[p])
    BY <1>1, <1>15 DEF Barrier, Goto
  <2> QED BY <1>2, <2>1 DEF OutputKept, InputKept
<1>16. CASE PollSignals(d) \/ NextPeer(d) \/ EndPoll(d) \/ BlockSignals(d)
  BY <1>1, <1>6, <1>7, <1>16 DEF PollSignals, NextPeer, EndPoll, BlockSignals, Goto
<1>17. CASE TryLock(d) \/ SetSleeping(d) \/ EndLastPoll(d) \/ Interrupted(d)
  BY <1>1, <1>6, <1>7, <1>17 DEF TryLock, SetSleeping, EndLastPoll, Interrupted, Goto
<1>18. CASE ExitInterruptMode(d) \/ Event(d) \/ OtherEvent(d)
  BY <1>1, <1>6, <1>7, <1>18 DEF ExitInterruptMode, Event, OtherEvent, Goto
<1> QED BY <1>8, <1>9, <1>10, <1>11, <1>12, <1>13, <1>14, <1>15, <1>16, <1>17, <1>18
        DEF StepOf, Loop

\* The store buffers empty without anybody noticing.
LEMMA PublishStep ==
    ASSUME TypeOK, NEW c \in Core, NEW q \in Queue, PublishRequest(q) \/ PublishResponse(q)
    PROVE  OutputKept(c) /\ InputKept(c)
<1>1. /\ pendingSeen \in [Queue -> Nat] /\ completedSeen \in [Queue -> Nat]
  BY DEF TypeOK
<1>2. \A i \in Core \ {c} : <<c, i>> \in Queue /\ <<i, c>> \in Queue
  BY DEF Queue
<1>3. OutputKept(c)
  BY DEF PublishRequest, PublishResponse, OutputKept, loopVars
<1>4. CASE PublishRequest(q)
  <2>1. /\ UNCHANGED <<pending, completed, completedSeen>>
        /\ \A p \in Queue : pendingSeen[p] = Len(pending[p]) => pendingSeen'[p] = Len(pending[p])
    BY <1>1, <1>4 DEF PublishRequest
  <2> QED BY <1>2, <1>3, <2>1 DEF InputKept
<1>5. CASE PublishResponse(q)
  <2>1. /\ UNCHANGED <<pending, completed, pendingSeen>>
        /\ \A p \in Queue : completedSeen[p] = Len(completed[p]) => completedSeen'[p] = Len(completed[p])
    BY <1>1, <1>5 DEF PublishResponse
  <2> QED BY <1>2, <1>3, <2>1 DEF InputKept
<1> QED BY <1>4, <1>5

\* What is left alone stays in order.
LEMMA KeptIsQuiet ==
    ASSUME NEW c \in Core, OutputKept(c), InputKept(c) \/ Coming(c)',
           FlagInv(c), StillUp(c), InputInv(c), OutputInv(c), pc[c] = "asleep" => ~got[c]
    PROVE  InputInv(c)' /\ OutputInv(c)' /\ (pc[c] = "asleep" => ~got[c])'
<1>1. LastPoll(c)' <=> LastPoll(c)
  BY DEF OutputKept, LastPoll
<1>2. (pc[c] = "asleep" => ~got[c])'
  BY DEF OutputKept
<1>3. \A i, places : Past(c, i, places)' <=> Past(c, i, places)
  BY DEF OutputKept, Past
<1>4. OutputInv(c)'
  BY <1>1, <1>3 DEF OutputInv, OutputKept, NoOutput
<1>5. InputInv(c)'
  <2> SUFFICES ASSUME LastPoll(c)
               PROVE  got[c]' \/ Coming(c)' \/ \A i \in Core \ {c} : NoInput(c, i)'
    BY <1>1 DEF InputInv
  <2>1. CASE got[c]
    BY <2>1 DEF OutputKept
  <2>2. CASE Coming(c)
    BY <1>1, <2>2 DEF StillUp, InSleep
  <2>3. CASE InputKept(c) /\ \A i \in Core \ {c} : NoInput(c, i)
    BY <1>3, <2>3 DEF InputKept, NoInput
  <2> QED BY <2>1, <2>2, <2>3 DEF InputInv
<1> QED BY <1>2, <1>4, <1>5

-----------------------------------------------------------------------------
(* The last poll.                                                          *)

\* The next core in the loop is the next one after all that have been polled.
LEMMA PastNext ==
    ASSUME TypeOK, NEW c \in Core, NextPeer(c) \/ (EndLastPoll(c) /\ pc'[c] = "asleep"),
           NEW i \in Core \ {c}, NEW places, "next" \in places, "respond" \notin places,
           Past(c, i, places)'
    PROVE  Past(c, i, places)
<1>1. /\ pc \in [Core -> Places] /\ peer \in [Core -> Core \cup {NoCore}]
      /\ \A j \in Core \cup {NoCore} : j \in Int
  BY CoreAssumption DEF TypeOK, NoCore
<1>2. pc[c] = "next"
  BY DEF NextPeer, EndLastPoll, At
<1>3. i <= peer[c]
  <2>1. CASE NextPeer(c)
    <3>1. PICK k \in NextPeers(c) : (\A j \in NextPeers(c) : k <= j) /\ peer' = [peer EXCEPT ![c] = k]
      BY <2>1 DEF NextPeer
    <3>2. pc'[c] = "respond" /\ peer'[c] = k
      BY <1>1, <2>1, <3>1 DEF NextPeer, Goto
    <3>3. i < k
      BY <3>2 DEF Past
    <3>4. i \in Int /\ k \in Int /\ peer[c] \in Int
      BY <1>1, <3>1 DEF NextPeers
    <3>5. i \notin NextPeers(c)
      BY <3>1, <3>3, <3>4
    <3> QED BY <3>4, <3>5 DEF NextPeers
  <2>2. CASE EndLastPoll(c)
    <3>1. i \notin NextPeers(c)
      BY <2>2 DEF EndLastPoll
    <3> QED BY <1>1, <3>1 DEF NextPeers
  <2> QED BY <2>1, <2>2
<1>4. i < peer[c] \/ i = peer[c]
  BY <1>1, <1>3
<1> QED BY <1>2, <1>4 DEF Past

\* A step of c within the last poll keeps in order what has been found.
InOrderStill(c) ==
    /\ got[c] => got'[c]
    /\ (\A i \in Core \ {c} : NoInput(c, i)) /\ ~got'[c] =>
          \A i \in Core \ {c} : NoInput(c, i)'
    /\ (\A i \in Core \ {c} : NoOutput(c, i)) /\ ~got'[c] =>
          \A i \in Core \ {c} : NoOutput(c, i)'

\* Going to the next core, or to sleep after the last.
LEMMA TurnInOrder ==
    ASSUME TypeOK, NEW c \in Core, NextPeer(c) \/ (EndLastPoll(c) /\ pc'[c] = "asleep")
    PROVE  InOrderStill(c)
<1>1. UNCHANGED <<pending_fifo, pending, pendingSeen, completed_fifo, completed,
                  completedSeen, queue_length, got>>
  BY DEF NextPeer, EndLastPoll, queueVars
<1>2. ASSUME NEW i \in Core \ {c}, NoInput(c, i) PROVE NoInput(c, i)'
  <2>1. /\ Past(c, i, {"request", "completions", "next"})' => Past(c, i, {"request", "completions", "next"})
        /\ Past(c, i, {"next"})' => Past(c, i, {"next"})
    BY PastNext
  <2> QED BY <1>1, <1>2, <2>1 DEF NoInput
<1>3. ASSUME NEW i \in Core \ {c}, NoOutput(c, i) PROVE NoOutput(c, i)'
  <2>1. /\ Past(c, i, {"incoming", "request", "completions", "next"})' =>
              Past(c, i, {"incoming", "request", "completions", "next"})
        /\ Past(c, i, {"completions", "next"})' => Past(c, i, {"completions", "next"})
    BY PastNext
  <2> QED BY <1>1, <1>3, <2>1 DEF NoOutput
<1> QED BY <1>1, <1>2, <1>3 DEF InOrderStill

\* smp_message_queue::flush_response_batch in the last poll.
LEMMA FlushResponsesInOrder ==
    ASSUME TypeOK, LoopsOK, NEW c \in Core, PollFlushResponses(c)
    PROVE  InOrderStill(c)
<1>1. /\ completed_fifo \in [Queue -> Seq(Request)] /\ completed \in [Queue -> Seq(Request)]
      /\ pc \in [Core -> Places] /\ got \in [Core -> BOOLEAN]
  BY DEF TypeOK
<1>2. pc[c] = "respond" /\ peer[c] \in Core \ {c} /\ Rx(c) = <<c, peer[c]>> /\ Rx(c) \in Queue
  BY DEF PollFlushResponses, At, LoopsOK, Polling, Rx, Queue
<1>3. \A i \in Core \ {c} : <<c, i>> \in Queue /\ <<i, c>> \in Queue
  BY DEF Queue
<1>4. \A i \in Core \ {c} : <<i, c>> # Rx(c) /\ (i # peer[c] => <<c, i>> # Rx(c))
  BY <1>2
<1>5. /\ UNCHANGED <<pending_fifo, pending, pendingSeen, completedSeen, queue_length, peer>>
      /\ \A p \in Queue \ {Rx(c)} : completed_fifo'[p] = completed_fifo[p] /\ completed'[p] = completed[p]
      /\ pc'[c] = "incoming" /\ (got[c] => got'[c])
      /\ completed_fifo'[Rx(c)] # << >> => got'[c]
  BY <1>1 DEF PollFlushResponses, FlushResponses, Goto, Found
<1>6. peer'[c] = peer[c] /\ pc'[c] = "incoming"
  BY <1>5
<1>7. ASSUME NEW i \in Core \ {c}, NoInput(c, i) PROVE NoInput(c, i)'
  <2>1. completed'[<<i, c>>] = completed[<<i, c>>]
    BY <1>3, <1>4, <1>5
  <2>2. /\ Past(c, i, {"request", "completions", "next"})' => Past(c, i, {"request", "completions", "next"})
        /\ Past(c, i, {"next"})' => Past(c, i, {"next"})
    BY <1>2, <1>6 DEF Past
  <2> QED BY <1>5, <1>7, <2>1, <2>2 DEF NoInput
<1>8. ASSUME NEW i \in Core \ {c}, NoOutput(c, i), ~got'[c] PROVE NoOutput(c, i)'
  <2>1. CASE i = peer[c]
    <3>1. completed_fifo'[<<c, i>>] = << >>
      BY <1>2, <1>5, <1>8, <2>1
    <3>2. Past(c, i, {"completions", "next"})' => Past(c, i, {"completions", "next"})
      BY <1>2, <1>6 DEF Past
    <3> QED BY <1>5, <1>8, <3>1, <3>2 DEF NoOutput
  <2>2. CASE i # peer[c]
    <3>1. completed_fifo'[<<c, i>>] = completed_fifo[<<c, i>>]
      BY <1>3, <1>4, <1>5, <2>2
    <3>2. /\ Past(c, i, {"incoming", "request", "completions", "next"})' =>
                Past(c, i, {"incoming", "request", "completions", "next"})
          /\ Past(c, i, {"completions", "next"})' => Past(c, i, {"completions", "next"})
      BY <1>6, <2>2 DEF Past
    <3> QED BY <1>5, <1>8, <3>1, <3>2 DEF NoOutput
  <2> QED BY <2>1, <2>2
<1> QED BY <1>5, <1>7, <1>8 DEF InOrderStill

\* smp_message_queue::process_incoming in the last poll.
LEMMA IncomingInOrder ==
    ASSUME TypeOK, LoopsOK, NEW c \in Core, ProcessIncoming(c)
    PROVE  InOrderStill(c)
<1>1. /\ pending \in [Queue -> Seq(Request)] /\ pendingSeen \in [Queue -> Nat]
      /\ pc \in [Core -> Places] /\ got \in [Core -> BOOLEAN]
  BY DEF TypeOK
<1>2. pc[c] = "incoming" /\ peer[c] \in Core \ {c} /\ Rx(c) = <<c, peer[c]>> /\ Rx(c) \in Queue
  BY DEF ProcessIncoming, At, LoopsOK, Polling, Rx, Queue
<1>3. \A i \in Core \ {c} : <<c, i>> \in Queue /\ <<i, c>> \in Queue
  BY DEF Queue
<1>4. \A i \in Core \ {c} : <<i, c>> # Rx(c) /\ (i # peer[c] => <<c, i>> # Rx(c))
  BY <1>2
<1>5. /\ UNCHANGED <<pending_fifo, completed_fifo, completed, completedSeen, queue_length, peer>>
      /\ \A p \in Queue \ {Rx(c)} : pending'[p] = pending[p] /\ pendingSeen'[p] = pendingSeen[p]
      /\ pending'[Rx(c)] = SubSeq(pending[Rx(c)], pendingSeen[Rx(c)] + 1, Len(pending[Rx(c)]))
      /\ pendingSeen'[Rx(c)] = 0
      /\ pc'[c] = "request" /\ (got[c] => got'[c])
  BY <1>1, <1>2 DEF ProcessIncoming, Goto, Found
<1>6. peer'[c] = peer[c] /\ pc'[c] = "request"
  BY <1>5
<1>7. ASSUME NEW i \in Core \ {c}, NoInput(c, i) PROVE NoInput(c, i)'
  <2>1. CASE i = peer[c]
    <3>1. PICK s \in Seq(Request) : s = pending[<<c, i>>]
      BY <1>1, <1>3
    <3>2. pendingSeen[<<c, i>>] = Len(s)
      BY <1>7, <3>1 DEF NoInput
    <3>3. pending'[<<c, i>>] = << >> /\ pendingSeen'[<<c, i>>] = 0
      <4>1. SubSeq(s, Len(s) + 1, Len(s)) = << >>
        OBVIOUS
      <4> QED BY <1>2, <1>5, <2>1, <3>1, <3>2, <4>1
    <3>4. Past(c, i, {"next"})' => Past(c, i, {"next"})
      BY <1>2, <1>6 DEF Past
    <3>5. pendingSeen'[<<c, i>>] = Len(pending'[<<c, i>>])
      BY <3>3
    <3> QED BY <1>5, <1>7, <3>3, <3>4, <3>5 DEF NoInput
  <2>2. CASE i # peer[c]
    <3>1. pending'[<<c, i>>] = pending[<<c, i>>] /\ pendingSeen'[<<c, i>>] = pendingSeen[<<c, i>>]
      BY <1>3, <1>4, <1>5, <2>2
    <3>2. /\ Past(c, i, {"request", "completions", "next"})' => Past(c, i, {"request", "completions", "next"})
          /\ Past(c, i, {"next"})' => Past(c, i, {"next"})
      BY <1>6, <2>2 DEF Past
    <3> QED BY <1>5, <1>7, <3>1, <3>2 DEF NoInput
  <2> QED BY <2>1, <2>2
<1>8. ASSUME NEW i \in Core \ {c}, NoOutput(c, i) PROVE NoOutput(c, i)'
  <2>1. /\ Past(c, i, {"incoming", "request", "completions", "next"})' =>
              Past(c, i, {"incoming", "request", "completions", "next"})
        /\ Past(c, i, {"completions", "next"})' => Past(c, i, {"completions", "next"})
    BY <1>2, <1>6 DEF Past
  <2> QED BY <1>5, <1>8, <2>1 DEF NoOutput
<1> QED BY <1>5, <1>7, <1>8 DEF InOrderStill

\* smp_message_queue::flush_request_batch in the last poll: what stays behind
\* stays behind a ring that is full, and the requests in it are counted.
LEMMA FlushRequestsInOrder ==
    ASSUME IInv, TypeOK, NEW c \in Core, PollFlushRequests(c)
    PROVE  InOrderStill(c)
<1>1. /\ pending_fifo \in [Queue -> Seq(Request)] /\ pending \in [Queue -> Seq(Request)]
      /\ queue_length \in [Queue -> Nat] /\ pc \in [Core -> Places]
      /\ \A q \in Queue : Len(pending[q]) <= RingSize
  BY DEF TypeOK
<1>2. pc[c] = "request" /\ peer[c] \in Core \ {c} /\ Tx(c) = <<peer[c], c>> /\ Tx(c) \in Queue
  BY DEF PollFlushRequests, At, IInv, LoopsOK, Polling, Tx, Queue
<1>3. \A i \in Core \ {c} : <<c, i>> \in Queue /\ <<i, c>> \in Queue
  BY DEF Queue
<1>4. \A i \in Core \ {c} : <<c, i>> # Tx(c) /\ (i # peer[c] => <<i, c>> # Tx(c))
  BY <1>2
<1>5. /\ UNCHANGED <<pendingSeen, completed_fifo, completed, completedSeen, peer, got>>
      /\ \A p \in Queue \ {Tx(c)} : /\ pending'[p] = pending[p] /\ pending_fifo'[p] = pending_fifo[p]
                                    /\ queue_length'[p] = queue_length[p]
      /\ pc'[c] = "completions"
  BY <1>1 DEF PollFlushRequests, MovePending, Goto
<1>6. peer'[c] = peer[c] /\ pc'[c] = "completions"
  BY <1>5
<1>7. ASSUME NEW i \in Core \ {c}, NoInput(c, i) PROVE NoInput(c, i)'
  <2>1. pending'[<<c, i>>] = pending[<<c, i>>]
    BY <1>3, <1>4, <1>5
  <2>2. /\ Past(c, i, {"request", "completions", "next"})' => Past(c, i, {"request", "completions", "next"})
        /\ Past(c, i, {"next"})' => Past(c, i, {"next"})
    BY <1>2, <1>6 DEF Past
  <2> QED BY <1>5, <1>7, <2>1, <2>2 DEF NoInput
<1>8. pending_fifo'[Tx(c)] # << >> => queue_length'[Tx(c)] > 0
  <2>1. PICK q \in Queue, fifo \in Seq(Request), ring \in Seq(Request) :
                q = Tx(c) /\ fifo = pending_fifo[q] /\ ring = pending[q]
    BY <1>1, <1>2
  <2>2. PICK n \in Nat : /\ n = Fits(fifo, ring) /\ n <= Len(fifo)
                         /\ n < Len(fifo) => n + Len(ring) = RingSize
    <3>1. Len(ring) <= RingSize /\ Len(fifo) \in Nat
      BY <1>1, <2>1
    <3>2. /\ Fits(fifo, ring) \in 0 .. Len(fifo)
          /\ Fits(fifo, ring) < Len(fifo) => Len(ring) + Fits(fifo, ring) = RingSize
      BY <3>1, FitsFacts
    <3>3. PICK n : n = Fits(fifo, ring)
      OBVIOUS
    <3>4. n \in Nat /\ n <= Len(fifo) /\ (n < Len(fifo) => n + Len(ring) = RingSize)
      BY <3>1, <3>2, <3>3
    <3> QED BY <3>3, <3>4
  <2>3. pending_fifo'[q] = SubSeq(fifo, n + 1, Len(fifo)) /\ queue_length'[q] = queue_length[q] + n
    <3>1. MovePending(c, q, fifo)
      BY <2>1 DEF PollFlushRequests
    <3>2. /\ pending_fifo' = [pending_fifo EXCEPT ![q] = SubSeq(fifo, n + 1, Len(fifo))]
          /\ queue_length' = [queue_length EXCEPT ![q] = @ + n]
      BY <2>1, <2>2, <3>1 DEF MovePending
    <3> QED BY <1>1, <3>2
  <2>4. ASSUME pending_fifo'[q] # << >> PROVE queue_length'[q] > 0
    <3>1. n < Len(fifo)
      <4>1. SubSeq(fifo, Len(fifo) + 1, Len(fifo)) = << >>
        OBVIOUS
      <4>2. n # Len(fifo)
        BY <2>3, <2>4, <4>1
      <4>3. Len(fifo) \in Nat
        OBVIOUS
      <4> QED BY <2>2, <4>2, <4>3
    <3>2. Len(ring) <= queue_length[q]
      BY <2>1, RingCounted
    <3>3. queue_length[q] \in Nat /\ Len(ring) \in Nat /\ RingSize \in Nat \ {0}
      BY <1>1, SizeAssumption
    <3>4. n + Len(ring) = RingSize /\ n \in Nat
      BY <2>2, <3>1
    <3> QED BY <2>3, <3>2, <3>3, <3>4
  <2> QED BY <2>1, <2>4
<1>9. ASSUME NEW i \in Core \ {c}, NoOutput(c, i) PROVE NoOutput(c, i)'
  <2>1. Past(c, i, {"incoming", "request", "completions", "next"})' =>
              Past(c, i, {"incoming", "request", "completions", "next"})
    BY <1>2, <1>6 DEF Past
  <2>2. CASE i = peer[c]
    BY <1>2, <1>5, <1>8, <1>9, <2>1, <2>2 DEF NoOutput
  <2>3. CASE i # peer[c]
    <3>1. pending_fifo'[<<i, c>>] = pending_fifo[<<i, c>>] /\ queue_length'[<<i, c>>] = queue_length[<<i, c>>]
      BY <1>3, <1>4, <1>5, <2>3
    <3>2. Past(c, i, {"completions", "next"})' => Past(c, i, {"completions", "next"})
      BY <1>6, <2>3 DEF Past
    <3> QED BY <1>5, <1>9, <2>1, <3>1, <3>2 DEF NoOutput
  <2> QED BY <2>2, <2>3
<1> QED BY <1>5, <1>7, <1>9 DEF InOrderStill

\* smp_message_queue::process_completions in the last poll: the counter goes
\* down only when something has been found.
LEMMA CompletionsInOrder ==
    ASSUME TypeOK, LoopsOK, NEW c \in Core, ProcessCompletions(c)
    PROVE  InOrderStill(c)
<1>1. /\ completed \in [Queue -> Seq(Request)] /\ completedSeen \in [Queue -> Nat]
      /\ queue_length \in [Queue -> Nat] /\ pc \in [Core -> Places] /\ got \in [Core -> BOOLEAN]
  BY DEF TypeOK
<1>2. pc[c] = "completions" /\ peer[c] \in Core \ {c} /\ Tx(c) = <<peer[c], c>> /\ Tx(c) \in Queue
  BY DEF ProcessCompletions, At, LoopsOK, Polling, Tx, Queue
<1>3. \A i \in Core \ {c} : <<c, i>> \in Queue /\ <<i, c>> \in Queue
  BY DEF Queue
<1>4. \A i \in Core \ {c} : <<c, i>> # Tx(c) /\ (i # peer[c] => <<i, c>> # Tx(c))
  BY <1>2
<1>5. /\ UNCHANGED <<pending_fifo, pending, pendingSeen, completed_fifo, peer>>
      /\ \A p \in Queue \ {Tx(c)} : /\ completed'[p] = completed[p] /\ completedSeen'[p] = completedSeen[p]
                                    /\ queue_length'[p] = queue_length[p]
      /\ completed'[Tx(c)] = SubSeq(completed[Tx(c)], completedSeen[Tx(c)] + 1, Len(completed[Tx(c)]))
      /\ completedSeen'[Tx(c)] = 0
      /\ queue_length'[Tx(c)] = queue_length[Tx(c)] - completedSeen[Tx(c)]
      /\ pc'[c] = "next" /\ got'[c] = (got[c] \/ completedSeen[Tx(c)] > 0)
  BY <1>1, <1>2 DEF ProcessCompletions, Goto, Found
<1>6. peer'[c] = peer[c] /\ pc'[c] = "next"
  BY <1>5
<1>7. ASSUME NEW i \in Core \ {c}, NoInput(c, i) PROVE NoInput(c, i)'
  <2>1. Past(c, i, {"request", "completions", "next"})' => Past(c, i, {"request", "completions", "next"})
    BY <1>2, <1>6 DEF Past
  <2>2. CASE i = peer[c]
    <3>1. PICK s \in Seq(Request) : s = completed[<<i, c>>]
      BY <1>1, <1>3
    <3>2. completedSeen[<<i, c>>] = Len(s)
      BY <1>7, <3>1 DEF NoInput
    <3>3. completed'[<<i, c>>] = << >> /\ completedSeen'[<<i, c>>] = 0
      <4>1. SubSeq(s, Len(s) + 1, Len(s)) = << >>
        OBVIOUS
      <4> QED BY <1>2, <1>5, <2>2, <3>1, <3>2, <4>1
    <3>4. completedSeen'[<<i, c>>] = Len(completed'[<<i, c>>])
      BY <3>3
    <3> QED BY <1>5, <1>7, <2>1, <3>3, <3>4 DEF NoInput
  <2>3. CASE i # peer[c]
    <3>1. completed'[<<i, c>>] = completed[<<i, c>>] /\ completedSeen'[<<i, c>>] = completedSeen[<<i, c>>]
      BY <1>3, <1>4, <1>5, <2>3
    <3>2. Past(c, i, {"next"})' => Past(c, i, {"next"})
      BY <1>6, <2>3 DEF Past
    <3> QED BY <1>5, <1>7, <2>1, <3>1, <3>2 DEF NoInput
  <2> QED BY <2>2, <2>3
<1>8. ASSUME NEW i \in Core \ {c}, NoOutput(c, i), ~got'[c] PROVE NoOutput(c, i)'
  <2>1. queue_length'[<<i, c>>] = queue_length[<<i, c>>]
    <3>1. CASE i = peer[c]
      <4>1. queue_length'[Tx(c)] = queue_length[Tx(c)] - completedSeen[Tx(c)]
        BY <1>5
      <4>2. completedSeen[Tx(c)] = 0 /\ queue_length[Tx(c)] \in Nat
        <5>1. completedSeen[Tx(c)] \in Nat /\ queue_length[Tx(c)] \in Nat
          BY <1>1, <1>2
        <5>2. ~(completedSeen[Tx(c)] > 0)
          BY <1>5, <1>8
        <5> QED BY <5>1, <5>2
      <4>3. <<i, c>> = Tx(c)
        BY <1>2, <3>1
      <4> QED BY <4>1, <4>2, <4>3
    <3>2. CASE i # peer[c]
      BY <1>3, <1>4, <1>5, <3>2
    <3> QED BY <3>1, <3>2
  <2>2. /\ Past(c, i, {"incoming", "request", "completions", "next"})' =>
              Past(c, i, {"incoming", "request", "completions", "next"})
        /\ Past(c, i, {"completions", "next"})' => Past(c, i, {"completions", "next"})
    BY <1>2, <1>6 DEF Past
  <2> QED BY <1>5, <1>8, <2>1, <2>2 DEF NoOutput
<1> QED BY <1>5, <1>7, <1>8 DEF InOrderStill

\* What the core itself does, from the barrier to epoll_pwait.
LEMMA OwnStep ==
    ASSUME IInv, TypeOK, NEW c \in Core, StepOf(c), FlagInv(c), StillUp(c),
           InputInv(c), OutputInv(c), pc[c] = "asleep" => ~got[c]
    PROVE  InputInv(c)' /\ OutputInv(c)' /\ (pc[c] = "asleep" => ~got[c])'
<1>1. /\ pc \in [Core -> Places] /\ peer \in [Core -> Core \cup {NoCore}]
      /\ mode \in [Core -> {"loop", "sleep"}] /\ got \in [Core -> BOOLEAN]
  BY DEF TypeOK
<1>2. LoopsOK
  BY DEF IInv
<1>3. ASSUME InOrderStill(c), LastPoll(c), pc'[c] = "asleep" => ~got'[c]
      PROVE  InputInv(c)' /\ OutputInv(c)' /\ (pc[c] = "asleep" => ~got[c])'
  <2>1. OutputInv(c)'
    BY <1>3 DEF InOrderStill, OutputInv
  <2>2. Coming(c) /\ LastPoll(c)' => Coming(c)'
    BY <1>3 DEF StillUp, InSleep
  <2>3. InputInv(c)'
    BY <1>3, <2>2 DEF InOrderStill, InputInv
  <2> QED BY <1>3, <2>1, <2>3
<1>4. ASSUME ~LastPoll(c)'
      PROVE  InputInv(c)' /\ OutputInv(c)' /\ (pc[c] = "asleep" => ~got[c])'
  BY <1>4 DEF InputInv, OutputInv, LastPoll
<1>5. CASE LoadSleeping(c) \/ ClearSleeping(c) \/ Wakeup(c)
  <2>1. OutputKept(c) /\ InputKept(c)
    BY <1>5 DEF LoadSleeping, ClearSleeping, Wakeup, OutputKept, InputKept, queueVars, loopVars
  <2> QED BY <2>1, KeptIsQuiet
<1>6. CASE Barrier(c)
  <2>1. /\ UNCHANGED <<pending, completed, completed_fifo, pending_fifo, queue_length>>
        /\ \A p \in Queue : pendingSeen'[p] = Len(pending[p]) /\ completedSeen'[p] = Len(completed[p])
        /\ pc'[c] = "next" /\ peer'[c] = NoCore
    BY <1>1, <1>6 DEF Barrier, Goto
  <2>2. ASSUME NEW i \in Core \ {c}, NEW places PROVE ~Past(c, i, places)'
    <3>1. i \in Nat
      BY CoreAssumption
    <3> QED BY <2>1, <3>1 DEF Past, NoCore
  <2>3. \A i \in Core \ {c} : NoOutput(c, i)'
    BY <2>2 DEF NoOutput
  <2>4. \A i \in Core \ {c} : NoInput(c, i)'
    <3>1. \A i \in Core \ {c} : <<c, i>> \in Queue /\ <<i, c>> \in Queue
      BY DEF Queue
    <3> QED BY <2>1, <2>2, <3>1 DEF NoInput
  <2> QED BY <2>1, <2>3, <2>4 DEF InputInv, OutputInv
<1>7. CASE /\ \/ NextPeer(c) \/ PollFlushResponses(c) \/ ProcessIncoming(c)
              \/ PollFlushRequests(c) \/ ProcessCompletions(c)
           /\ LastPoll(c)'
  <2>1. LastPoll(c) /\ pc'[c] # "asleep"
    <3>1. mode'[c] = mode[c] /\ pc[c] \in Polling \cup {"next"} /\ pc'[c] \in Polling \cup {"next"}
      BY <1>1, <1>7 DEF NextPeer, PollFlushResponses, ProcessIncoming, PollFlushRequests,
                        ProcessCompletions, At, Goto, Polling
    <3> QED BY <1>7, <3>1 DEF LastPoll, Polling
  <2>2. InOrderStill(c)
    BY <1>2, <1>7, TurnInOrder, FlushResponsesInOrder, IncomingInOrder, FlushRequestsInOrder,
       CompletionsInOrder
  <2> QED BY <1>3, <2>1, <2>2
<1>8. CASE EndLastPoll(c)
  <2>1. CASE got[c]
    <3>1. pc'[c] = "run"
      BY <1>1, <1>8, <2>1 DEF EndLastPoll, Goto
    <3> QED BY <1>4, <3>1 DEF LastPoll, Polling
  <2>2. CASE ~got[c]
    <3>1. pc'[c] = "asleep" /\ got' = got /\ LastPoll(c)
      BY <1>1, <1>8, <2>2 DEF EndLastPoll, At, Goto, LastPoll
    <3>2. InOrderStill(c)
      BY <1>8, <3>1, TurnInOrder
    <3> QED BY <1>3, <2>2, <3>1, <3>2
  <2> QED BY <2>1, <2>2
<1>9. CASE \/ Submit(c) \/ Respond(c) \/ PollSignals(c) \/ EndPoll(c) \/ BlockSignals(c)
           \/ TryLock(c) \/ SetSleeping(c) \/ Interrupted(c) \/ ExitInterruptMode(c)
  <2>1. \/ pc'[c] \in {"run", "enter", "lock", "flag", "barrier", "exit"}
        \/ pc'[c] = "next" /\ mode'[c] = "loop"
    <3>1. CASE Submit(c) \/ Respond(c)
      BY <3>1, ZenonT(60) DEF Submit, Respond, At, loopVars
    <3>2. CASE PollSignals(c) \/ EndPoll(c) \/ BlockSignals(c)
      BY <1>1, <3>2 DEF PollSignals, EndPoll, BlockSignals, Goto
    <3>3. CASE TryLock(c) \/ SetSleeping(c) \/ Interrupted(c) \/ ExitInterruptMode(c)
      BY <1>1, <3>3 DEF TryLock, SetSleeping, Interrupted, ExitInterruptMode, Goto
    <3> QED BY <1>9, <3>1, <3>2, <3>3, SMTT(40)
  <2> QED BY <1>4, <2>1 DEF LastPoll, Polling
<1>10. CASE Event(c) \/ OtherEvent(c)
  <2>1. pc'[c] \in {"run", "exit"}
    BY <1>1, <1>10 DEF Event, OtherEvent, At, Goto
  <2> QED BY <1>4, <2>1 DEF LastPoll, Polling
<1> QED BY <1>4, <1>5, <1>6, <1>7, <1>8, <1>9, <1>10 DEF StepOf, Loop

-----------------------------------------------------------------------------
(* The invariant, and what follows from it.                                *)

\* No core sleeps at the start.
LEMMA SleepInit ==
    ASSUME Init
    PROVE  SleepInv
BY DEF Init, SleepInv, FlagInv, InputInv, OutputInv, InSleep, LastPoll, Polling

\* Every step of every core keeps the invariant.
LEMMA SleepStep ==
    ASSUME IInv, TypeOK, SleepInv, [Next]_vars
    PROVE  SleepInv'
<1> SUFFICES ASSUME NEW c \in Core
             PROVE  /\ FlagInv(c)' /\ InputInv(c)' /\ OutputInv(c)'
                    /\ (pc[c] = "asleep" => ~got[c])'
  BY DEF SleepInv
<1>1. FlagInv(c) /\ InputInv(c) /\ OutputInv(c) /\ (pc[c] = "asleep" => ~got[c])
  BY DEF SleepInv
<1>2. StillUp(c)
  BY <1>1, FlagStep
<1>3. FlagInv(c)'
  BY <1>2 DEF StillUp, FlagInv
<1>4. ASSUME OutputKept(c), InputKept(c) \/ Coming(c)'
      PROVE  InputInv(c)' /\ OutputInv(c)' /\ (pc[c] = "asleep" => ~got[c])'
  BY <1>1, <1>2, <1>4, KeptIsQuiet
<1>5. ASSUME NEW d \in Core, StepOf(d)
      PROVE  InputInv(c)' /\ OutputInv(c)' /\ (pc[c] = "asleep" => ~got[c])'
  <2>1. CASE d = c
    BY <1>1, <1>2, <1>5, <2>1, OwnStep
  <2>2. CASE d # c
    BY <1>4, <1>5, <2>2, OthersStep
  <2> QED BY <2>1, <2>2
<1>6. ASSUME NEW q \in Queue, PublishRequest(q) \/ PublishResponse(q)
      PROVE  InputInv(c)' /\ OutputInv(c)' /\ (pc[c] = "asleep" => ~got[c])'
  BY <1>4, <1>6, PublishStep
<1>7. CASE UNCHANGED vars
  <2>1. OutputKept(c) /\ InputKept(c)
    BY <1>7 DEF vars, queueVars, loopVars, OutputKept, InputKept
  <2> QED BY <1>3, <1>4, <2>1
<1> QED BY <1>3, <1>5, <1>6, <1>7 DEF Next, StepOf

\* In every run, a core in its last poll or asleep has its flag up or is being
\* woken, and has overlooked nothing.
THEOREM SleepInvariance == Spec => []SleepInv
<1>1. Init => SleepInv
  BY SleepInit
<1>2. IInv /\ TypeOK /\ SleepInv /\ [Next]_vars => SleepInv'
  BY SleepStep
<1> QED BY <1>1, <1>2, Invariance, TypeCorrect, PTL DEF Spec

\* No wake-up is lost: a core that waits in epoll_pwait with something in one of
\* its rings is about to be woken.  The load of the flag in maybe_wakeup may
\* come after the flag has been taken down only when the signal is on its way.
THEOREM WakeupNotLost == Spec => []NoLostWakeup
<1>1. TypeOK /\ SleepInv => NoLostWakeup
  <2> SUFFICES ASSUME TypeOK, SleepInv, NEW c \in Core, At(c, "asleep"), NEW i \in Core \ {c},
                      pending[<<c, i>>] # << >> \/ completed[<<i, c>>] # << >>
               PROVE  signal[c] \/ \E o \in Core : waking[o].target = c
                                                 /\ (waking[o].step = "load" => sleeping[c])
    BY DEF NoLostWakeup
  <2>1. LastPoll(c) /\ ~got[c]
    BY DEF At, LastPoll, SleepInv
  <2>2. FlagUp(c) /\ (Coming(c) \/ NoInput(c, i))
    BY <2>1 DEF SleepInv, FlagInv, InputInv, InSleep
  <2>3. ~NoInput(c, i)
    BY DEF NoInput, Past, At
  <2> QED BY <2>2, <2>3 DEF FlagUp, Coming
<1> QED BY <1>1, SleepInvariance, TypeCorrect, PTL

\* A core does not go to sleep over a response it has to send, and over a batch
\* of requests only when the answers to those in the ring will wake it.
THEOREM LeavesNothing == Spec => []NothingLeftBehind
<1>1. SleepInv => NothingLeftBehind
  <2> SUFFICES ASSUME SleepInv, NEW c \in Core, At(c, "asleep"), NEW i \in Core \ {c}
               PROVE  /\ completed_fifo[<<c, i>>] = << >>
                      /\ pending_fifo[<<i, c>>] # << >> => queue_length[<<i, c>>] > 0
    BY DEF NothingLeftBehind
  <2>1. NoOutput(c, i)
    BY DEF At, LastPoll, SleepInv, OutputInv
  <2> QED BY <2>1 DEF NoOutput, Past, At
<1> QED BY <1>1, SleepInvariance, PTL
=============================================================================
