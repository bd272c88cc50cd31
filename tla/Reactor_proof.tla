----------------------------- MODULE Reactor_proof ---------------------------
(***************************************************************************)
(* The loop of a reactor and its pollers, a descriptor of the epoll        *)
(* backend and stackful threads keep what the model promises, for any      *)
(* number of pollers, events and threads.                                  *)
(***************************************************************************)
EXTENDS MC_Reactor, Futures_proof, FunctionTheorems, WellFoundedInduction

-----------------------------------------------------------------------------
(* Each part takes the steps of its own operations and no others.          *)

\* The operations of the loop, of the descriptor and of the threads.
LoopNext == \/ R!RunUser \/ R!RunRegistration \/ R!RunDeregistration
            \/ R!StartPoll \/ R!Poll \/ R!EndPoll
            \/ R!EnterSignal \/ R!EnterOther \/ R!FallAsleep
            \/ R!Wake \/ R!Leave \/ R!EndLeave \/ R!Raise

DescriptorNext == \/ \E e \in Event : E!Request(e) \/ E!Transfer(e) \/ E!Abort(e) \/ E!Arrive(e)
                  \/ E!Process

ThreadsNext == \/ \E t \in Thread : T!Start(t) \/ T!Wait(t) \/ T!Resolve(t) \/ T!Yield(t)
               \/ \E t \in Thread : T!Reschedule(t) \/ T!SwitchIn(t) \/ T!Finish(t)
               \/ T!TryRunOneYieldedThread

\* A step is one of the part it is about and leaves the others alone.
LEMMA OwnSteps ==
    ASSUME [MCNext]_MCVars
    PROVE  /\ [LoopNext]_reactorVars
           /\ [DescriptorNext]_epollVars
           /\ [ThreadsNext]_threadVars
           /\ [Next]_vars
<1>1. CASE UNCHANGED MCVars
  BY <1>1 DEF MCVars
<1>2. CASE MCNext
  <2>1. /\ Loop => UNCHANGED <<epollVars, threadVars, vars>>
        /\ Descriptor => UNCHANGED <<reactorVars, threadVars, vars>>
        /\ Threads => UNCHANGED <<reactorVars, epollVars, vars>>
        /\ Futures => UNCHANGED <<reactorVars, epollVars, threadVars>>
    BY DEF Loop, Descriptor, Threads, Futures
  <2>2. \/ Loop /\ LoopNext
        \/ Descriptor /\ DescriptorNext
        \/ Threads /\ [ThreadsNext]_threadVars
        \/ Futures /\ Next
    <3>1. \/ \E p \in Promise : Futures /\ Construct(p)
          \/ \E p \in Promise : Futures /\ DestroyPromise(p)
          \/ \E f \in Future : Futures /\ DestroyFuture(f)
          \/ \E p \in Promise, f \in Future : Futures /\ get_future(p, f)
          \/ \E p \in Promise, f \in Future : Futures /\ ForwardTo(f, p)
          \/ \E p \in Promise, v \in {"result", "exception"} : Futures /\ Set(p, v)
          \/ \E p, q \in Promise : Futures /\ MovePromise(p, q)
          \/ \E f, g \in Future : Futures /\ MoveFuture(f, g)
          \/ \E f, g \in Future, t \in Task, p \in Promise, w \in BOOLEAN :
                Futures /\ then(f, t, p, g, w)
          \/ Futures /\ Run
          => Futures /\ Next
      BY DEF Next, User
    <3>2. \/ \E t \in Thread : Threads /\ T!Start(t)
          \/ \E t \in Thread : Threads /\ T!Wait(t)
          \/ \E t \in Thread : Threads /\ T!Resolve(t)
          \/ \E t \in Thread : Threads /\ T!Yield(t)
          \/ \E t \in Thread : Threads /\ T!Reschedule(t)
          \/ \E t \in Thread : Threads /\ T!SwitchIn(t)
          \/ \E t \in Thread : Threads /\ T!Finish(t)
          \/ Threads /\ T!TryRunOneYieldedThread
          \/ Threads /\ (aborted \/ \A t \in Thread : thread[t] = "done") /\ UNCHANGED threadVars
          => Threads /\ [ThreadsNext]_threadVars
      BY DEF ThreadsNext
    <3> QED BY <1>2, <3>1, <3>2, Zenon DEF MCNext, LoopNext, DescriptorNext
  <2> QED BY <2>1, <2>2
<1> QED BY <1>1, <1>2

-----------------------------------------------------------------------------
(* The descriptor.                                                         *)

\* The types, and what the run checks: nothing has to be added.
DescriptorInv == E!TypeOK /\ E!WaitersInstalled

\* epoll_ctl succeeds while events_epoll is what the kernel was told.
LEMMA KernelAgrees ==
    ASSUME interest = installed, NEW op \in {"add", "mod", "del"}, NEW events,
           E!epoll_ctl(op, events),
           (op = "add") <=> (installed = {}), (op = "del") => (events = {})
    PROVE  interest' = events
BY DEF E!epoll_ctl

\* No operation on the descriptor breaks it.
LEMMA DescriptorStep == DescriptorInv /\ [DescriptorNext]_epollVars => DescriptorInv'
<1> SUFFICES ASSUME DescriptorInv, [DescriptorNext]_epollVars PROVE DescriptorInv'
  OBVIOUS
<1>1. /\ known \subseteq Event /\ requested \subseteq Event /\ installed \subseteq Event
      /\ answer \in [Event -> {"none", "waiting", "ready", "failed"}]
      /\ interest \subseteq Event /\ ready \subseteq Event
      /\ requested = {e \in Event : answer[e] = "waiting"}
      /\ requested \subseteq installed
      /\ interest = installed
  BY DEF DescriptorInv, E!TypeOK, E!WaitersInstalled
<1>2. ASSUME NEW e \in Event, E!Request(e) PROVE DescriptorInv'
  <2>1. CASE e \in known
    BY <1>1, <1>2, <2>1 DEF E!Request, E!Answers, DescriptorInv, E!TypeOK, E!WaitersInstalled
  <2>2. CASE e \notin known
    <3>1. /\ requested' = requested \cup {e} /\ known' = known /\ ready' = ready
          /\ answer' = [x \in Event |-> IF x \in {e} THEN "waiting" ELSE answer[x]]
      BY <1>2, <2>2 DEF E!Request, E!Answers
    <3>2. installed' = installed \cup {e} /\ interest' = installed'
      <4>1. CASE e \in installed
        BY <1>1, <1>2, <2>2, <4>1 DEF E!Request
      <4>2. CASE e \notin installed
        BY <1>1, <1>2, <2>2, <4>2 DEF E!Request, E!epoll_ctl
      <4> QED BY <4>1, <4>2
    <3> QED BY <1>1, <3>1, <3>2 DEF DescriptorInv, E!TypeOK, E!WaitersInstalled
  <2> QED BY <2>1, <2>2
<1>3. ASSUME NEW e \in Event, E!Transfer(e) PROVE DescriptorInv'
  BY <1>1, <1>3 DEF E!Transfer, E!Answers, DescriptorInv, E!TypeOK, E!WaitersInstalled
<1>4. ASSUME NEW e \in Event, E!Abort(e) PROVE DescriptorInv'
  <2>1. installed' = installed \ {e} /\ interest' = installed'
    <3>1. CASE e \notin installed
      BY <1>1, <1>4, <3>1 DEF E!Abort
    <3>2. CASE e \in installed
      BY <1>1, <1>4, <3>2 DEF E!Abort, E!epoll_ctl
    <3> QED BY <3>1, <3>2
  <2> QED BY <1>1, <1>4, <2>1 DEF E!Abort, E!Answers, DescriptorInv, E!TypeOK, E!WaitersInstalled
<1>5. ASSUME NEW e \in Event, E!Arrive(e) PROVE DescriptorInv'
  BY <1>1, <1>5 DEF E!Arrive, DescriptorInv, E!TypeOK, E!WaitersInstalled
<1>6. CASE E!Process
  <2>1. PICK events : /\ events = ready \cap interest /\ events # {}
                      /\ requested' = requested \ events
                      /\ known' = known \ (events \cap requested)
                      /\ answer' = [x \in Event |-> IF x \in events \cap requested THEN "ready" ELSE answer[x]]
                      /\ installed' = installed \ (events \ requested)
                      /\ ready' = ready
    BY <1>6 DEF E!Process, E!Answers
  <2>2. interest' = installed'
    <3>1. CASE events \ requested = {}
      BY <1>1, <1>6, <2>1, <3>1 DEF E!Process
    <3>2. CASE events \ requested # {}
      BY <1>1, <1>6, <2>1, <3>2 DEF E!Process, E!epoll_ctl
    <3> QED BY <3>1, <3>2
  <2> QED BY <1>1, <2>1, <2>2 DEF DescriptorInv, E!TypeOK, E!WaitersInstalled
<1>7. CASE UNCHANGED epollVars
  BY <1>7 DEF epollVars, DescriptorInv, E!TypeOK, E!WaitersInstalled
<1> QED BY <1>2, <1>3, <1>4, <1>5, <1>6, <1>7 DEF DescriptorNext

LEMMA DescriptorInit == MCInit => DescriptorInv
BY DEF MCInit, E!Init, DescriptorInv, E!TypeOK, E!WaitersInstalled

\* A future that waits for an event is requested, its event is installed, and
\* the kernel was told exactly what events_epoll says.
THEOREM WaitersAlwaysInstalled == MCSpec => []WaitersInstalled
<1>1. DescriptorInv => WaitersInstalled
  BY DEF DescriptorInv, WaitersInstalled
<1>2. DescriptorInv /\ [MCNext]_MCVars => DescriptorInv'
  BY OwnSteps, DescriptorStep
<1> QED BY DescriptorInit, <1>1, <1>2, PTL DEF MCSpec

-----------------------------------------------------------------------------
(* Lists without repetitions: preempted threads, threads that switched to  *)
(* one another, pollers.                                                   *)

\* line holds the members of a set, each once.
Line(line, members) ==
    /\ \A i \in 1 .. Len(line) : line[i] \in members
    /\ \A x \in members : \E i \in 1 .. Len(line) : line[i] = x
    /\ \A i, j \in 1 .. Len(line) : line[i] = line[j] => i = j

\* So it does when one is appended,
LEMMA LineGrows ==
    ASSUME NEW S, NEW line \in Seq(S), NEW members, Line(line, members),
           NEW x \in S \ members
    PROVE  Append(line, x) \in Seq(S) /\ Line(Append(line, x), members \cup {x})
<1>1. PICK longer : longer = Append(line, x)
  OBVIOUS
<1>2. /\ longer \in Seq(S) /\ Len(longer) = Len(line) + 1 /\ Len(line) \in Nat
      /\ longer[Len(line) + 1] = x
      /\ \A i \in 1 .. Len(line) : longer[i] = line[i] /\ i \in 1 .. Len(longer)
      /\ \A i \in 1 .. Len(longer) : i # Len(line) + 1 => i \in 1 .. Len(line)
  BY <1>1
<1>3. \A i \in 1 .. Len(longer) : longer[i] \in members \cup {x}
  BY <1>2 DEF Line
<1>4. ASSUME NEW y \in members \cup {x} PROVE \E i \in 1 .. Len(longer) : longer[i] = y
  <2>1. CASE y = x
    BY <1>2, <2>1
  <2>2. CASE y # x
    BY <1>2, <2>2 DEF Line
  <2> QED BY <2>1, <2>2
<1>5. \A i, j \in 1 .. Len(longer) : longer[i] = longer[j] => i = j
  BY <1>2 DEF Line
<1> QED BY <1>1, <1>2, <1>3, <1>4, <1>5 DEF Line

\* and when one is taken out.
LEMMA LineShrinks ==
    ASSUME NEW S, NEW line \in Seq(S), NEW members, Line(line, members),
           NEW n \in 1 .. Len(line),
           NEW shorter \in Seq(S), Len(shorter) = Len(line) - 1,
           \A i \in 1 .. Len(shorter) : shorter[i] = IF i < n THEN line[i] ELSE line[i + 1]
    PROVE  Line(shorter, members \ {line[n]})
<1>1. \A i \in 1 .. Len(shorter) : \E k \in 1 .. Len(line) \ {n} :
         shorter[i] = line[k] /\ (i = k \/ i + 1 = k) /\ (i < n <=> k < n) /\ (i < n => i = k)
  <2>1. ASSUME NEW i \in 1 .. Len(shorter)
        PROVE  \E k \in 1 .. Len(line) \ {n} :
                  shorter[i] = line[k] /\ (i = k \/ i + 1 = k) /\ (i < n <=> k < n) /\ (i < n => i = k)
    <3>1. CASE i < n
      BY <3>1
    <3>2. CASE ~(i < n)
      <4>1. i + 1 \in 1 .. Len(line) \ {n} /\ shorter[i] = line[i + 1] /\ ~(i + 1 < n)
        BY <3>2
      <4> QED BY <3>2, <4>1
    <3> QED BY <3>1, <3>2
  <2> QED BY <2>1
<1>2. \A i \in 1 .. Len(shorter) : shorter[i] \in members \ {line[n]}
  <2>1. ASSUME NEW i \in 1 .. Len(shorter) PROVE shorter[i] \in members /\ shorter[i] # line[n]
    <3>1. PICK k \in 1 .. Len(line) \ {n} : shorter[i] = line[k]
      BY <1>1, ZenonT(60)
    <3> QED BY <3>1 DEF Line
  <2> QED BY <2>1
<1>3. ASSUME NEW x \in members \ {line[n]} PROVE \E i \in 1 .. Len(shorter) : shorter[i] = x
  <2>1. PICK k \in 1 .. Len(line) : line[k] = x
    BY DEF Line
  <2>2. CASE k < n
    BY <2>1, <2>2
  <2>3. CASE ~(k < n)
    <3>1. k - 1 \in 1 .. Len(shorter) /\ ~(k - 1 < n) /\ (k - 1) + 1 = k
      BY <2>1, <2>3
    <3> QED BY <2>1, <3>1
  <2> QED BY <2>2, <2>3
<1>4. ASSUME NEW i \in 1 .. Len(shorter), NEW j \in 1 .. Len(shorter), shorter[i] = shorter[j]
      PROVE  i = j
  <2>1. PICK k \in 1 .. Len(line) \ {n} :
           shorter[i] = line[k] /\ (i = k \/ i + 1 = k) /\ (i < n <=> k < n) /\ (i < n => i = k)
    BY <1>1
  <2>2. PICK l \in 1 .. Len(line) \ {n} :
           shorter[j] = line[l] /\ (j = l \/ j + 1 = l) /\ (j < n <=> l < n) /\ (j < n => j = l)
    BY <1>1
  <2>3. k = l
    BY <1>4, <2>1, <2>2 DEF Line
  <2>4. CASE i < n
    BY <2>1, <2>2, <2>3, <2>4
  <2>5. CASE ~(i < n)
    <3>1. shorter[i] = line[i + 1] /\ shorter[j] = line[j + 1] /\ i + 1 \in 1 .. Len(line) /\ j + 1 \in 1 .. Len(line)
      BY <2>1, <2>2, <2>3, <2>5
    <3>2. i + 1 = j + 1
      BY <1>4, <3>1 DEF Line
    <3> QED BY <3>2
  <2> QED BY <2>4, <2>5
<1> QED BY <1>2, <1>3, <1>4 DEF Line

\* Erasing an element, and dropping the front one, take one out.
LEMMA LineErased ==
    ASSUME NEW S, NEW line \in Seq(S), NEW members, Line(line, members), NEW n \in 1 .. Len(line)
    PROVE  /\ SubSeq(line, 1, n - 1) \o SubSeq(line, n + 1, Len(line)) \in Seq(S)
           /\ Line(SubSeq(line, 1, n - 1) \o SubSeq(line, n + 1, Len(line)), members \ {line[n]})
<1>1. PICK before : before = SubSeq(line, 1, n - 1)
  OBVIOUS
<1>2. PICK after : after = SubSeq(line, n + 1, Len(line))
  OBVIOUS
<1>3. PICK shorter : shorter = before \o after
  OBVIOUS
<1>4. before \in Seq(S) /\ Len(before) = n - 1 /\ \A i \in 1 .. n - 1 : before[i] = line[i]
  BY <1>1
<1>5. /\ after \in Seq(S) /\ Len(after) = Len(line) - n
      /\ \A i \in 1 .. Len(line) - n : after[i] = line[n + i]
  BY <1>2
<1>6. shorter \in Seq(S) /\ Len(shorter) = Len(line) - 1
  BY <1>3, <1>4, <1>5
<1>7. ASSUME NEW i \in 1 .. Len(shorter)
      PROVE  shorter[i] = IF i < n THEN line[i] ELSE line[i + 1]
  <2>1. CASE i < n
    BY <1>3, <1>4, <1>5, <1>6, <2>1
  <2>2. CASE ~(i < n)
    <3>1. i - (n - 1) \in 1 .. Len(line) - n /\ n + (i - (n - 1)) = i + 1
      BY <1>6, <2>2
    <3>2. shorter[i] = after[i - (n - 1)]
      BY <1>3, <1>4, <1>5, <1>6, <2>2
    <3> QED BY <1>5, <2>2, <3>1, <3>2
  <2> QED BY <2>1, <2>2
<1>8. Line(shorter, members \ {line[n]})
  BY <1>6, <1>7, LineShrinks
<1> QED BY <1>1, <1>2, <1>3, <1>6, <1>8

LEMMA LineTail ==
    ASSUME NEW S, NEW line \in Seq(S), line # << >>, NEW members, Line(line, members)
    PROVE  Tail(line) \in Seq(S) /\ Line(Tail(line), members \ {line[1]})
<1>1. PICK shorter : shorter = Tail(line)
  OBVIOUS
<1>2. /\ shorter \in Seq(S) /\ Len(shorter) = Len(line) - 1 /\ 1 \in 1 .. Len(line)
      /\ \A i \in 1 .. Len(shorter) : shorter[i] = line[i + 1]
  BY <1>1
<1>3. \A i \in 1 .. Len(shorter) : shorter[i] = IF i < 1 THEN line[i] ELSE line[i + 1]
  BY <1>2
<1>4. Line(shorter, members \ {line[1]})
  BY <1>2, <1>3, LineShrinks
<1> QED BY <1>1, <1>2, <1>4

-----------------------------------------------------------------------------
(* The threads.  Those that have started and neither wait nor ended form a *)
(* chain: the running one first, each linked to the one it will switch     *)
(* back to, the last one to the context of the reactor.                    *)

\* The n-th thread of a chain, or the context below the last one.
Nth(chain, n) == IF n <= Len(chain) THEN chain[n] ELSE Unthreaded

SwitchChain(chain, top, links, running) ==
    /\ chain \in Seq(Thread)
    /\ Line(chain, running)
    /\ top = Nth(chain, 1)
    /\ \A i \in 1 .. Len(chain) : links[chain[i]] = Nth(chain, i + 1)

\* The threads in a state.
ThreadsAt(s) == {t \in Thread : thread[t] = s}

\* The threads that gave up their turn are in the list, once each, with their
\* timers armed and their promises asked.
Preempted ==
    /\ Line(preempted, ThreadsAt("preempted"))
    /\ \A t \in Thread : t \in armed <=> thread[t] = "preempted"
    /\ \A t \in Thread : sched[t] = "asked" <=> thread[t] = "preempted"

Chained == \E chain \in Seq(Thread) : SwitchChain(chain, context, link, ThreadsAt("running"))

ThreadsInv == T!TypeOK /\ (~aborted => Preempted /\ Chained)

\* Switching to a thread that is in no chain puts it on top.
LEMMA ChainEnters ==
    ASSUME NEW chain, NEW top, NEW links \in [Thread -> Thread \cup {Unthreaded}], NEW running,
           SwitchChain(chain, top, links, running), NEW t \in Thread \ running
    PROVE  \E longer \in Seq(Thread) :
              SwitchChain(longer, t, [links EXCEPT ![t] = top], running \cup {t})
<1>1. PICK longer : longer = <<t>> \o chain
  OBVIOUS
<1>2. chain \in Seq(Thread) /\ Len(chain) \in Nat
  BY DEF SwitchChain, Line
<1>3. /\ longer \in Seq(Thread) /\ Len(longer) = Len(chain) + 1
      /\ longer[1] = t /\ \A i \in 1 .. Len(chain) : longer[i + 1] = chain[i]
  BY <1>1, <1>2
<1>4. \A i \in 1 .. Len(longer) : i = 1 \/ (i - 1 \in 1 .. Len(chain) /\ longer[i] = chain[i - 1])
  <2>1. ASSUME NEW i \in 1 .. Len(longer), i # 1
        PROVE  i - 1 \in 1 .. Len(chain) /\ longer[i] = chain[i - 1]
    <3>1. i - 1 \in 1 .. Len(chain) /\ (i - 1) + 1 = i
      BY <1>2, <1>3, <2>1
    <3> QED BY <1>3, <3>1
  <2> QED BY <2>1
<1>5. \A i \in 1 .. Len(chain) : chain[i] # t /\ chain[i] \in running /\ chain[i] \in Thread
  BY <1>2 DEF SwitchChain, Line
<1>6. \A i, j \in 1 .. Len(longer) : longer[i] = longer[j] => i = j
  <2>1. ASSUME NEW i \in 1 .. Len(longer), NEW j \in 1 .. Len(longer), longer[i] = longer[j]
        PROVE  i = j
    <3>1. CASE i = 1 \/ j = 1
      BY <1>3, <1>4, <1>5, <2>1, <3>1
    <3>2. CASE i # 1 /\ j # 1
      <4>1. i - 1 = j - 1
        BY <1>4, <2>1, <3>2 DEF SwitchChain, Line
      <4> QED BY <4>1
    <3> QED BY <3>1, <3>2
  <2> QED BY <2>1
<1>7. \A i \in 1 .. Len(longer) : longer[i] \in running \cup {t}
  BY <1>3, <1>4, <1>5
<1>8. ASSUME NEW u \in running \cup {t} PROVE \E i \in 1 .. Len(longer) : longer[i] = u
  <2>1. CASE u = t
    BY <1>2, <1>3, <2>1
  <2>2. CASE u # t
    <3>1. PICK i \in 1 .. Len(chain) : chain[i] = u
      BY <2>2 DEF SwitchChain, Line
    <3>2. i + 1 \in 1 .. Len(longer) /\ longer[i + 1] = u
      BY <1>2, <1>3, <3>1
    <3> QED BY <3>2
  <2> QED BY <2>1, <2>2
<1>9. t = Nth(longer, 1)
  BY <1>2, <1>3 DEF Nth
<1>10. \A n \in Nat \ {0} : Nth(longer, n + 1) = Nth(chain, n)
  BY <1>2, <1>3 DEF Nth
<1>11. ASSUME NEW i \in 1 .. Len(longer)
       PROVE  [links EXCEPT ![t] = top][longer[i]] = Nth(longer, i + 1)
  <2>1. CASE i = 1
    BY <1>3, <1>10, <2>1 DEF SwitchChain, Line
  <2>2. CASE i # 1
    <3>1. /\ i - 1 \in 1 .. Len(chain) /\ longer[i] = chain[i - 1]
          /\ longer[i] # t /\ longer[i] \in Thread
      BY <1>4, <1>5, <2>2
    <3>2. links[chain[i - 1]] = Nth(chain, (i - 1) + 1)
      BY <3>1 DEF SwitchChain, Line
    <3>3. (i - 1) + 1 = i /\ i \in Nat \ {0}
      BY <3>1
    <3> QED BY <1>10, <3>1, <3>2, <3>3
  <2> QED BY <2>1, <2>2
<1> QED BY <1>3, <1>6, <1>7, <1>8, <1>9, <1>11 DEF SwitchChain, Line

\* The thread on top switches to the one it is linked to.
LEMMA ChainLeaves ==
    ASSUME NEW chain, NEW t \in Thread, NEW links, NEW running,
           SwitchChain(chain, t, links, running)
    PROVE  /\ t \in running
           /\ \E rest \in Seq(Thread) : SwitchChain(rest, links[t], links, running \ {t})
<1>1. chain \in Seq(Thread) /\ Len(chain) \in Nat
  BY DEF SwitchChain, Line
<1>2. Len(chain) >= 1 /\ chain[1] = t
  BY <1>1, ReactorAssumption DEF SwitchChain, Line, Nth
<1>3. PICK rest : rest = Tail(chain)
  OBVIOUS
<1>4. /\ rest \in Seq(Thread) /\ Len(rest) = Len(chain) - 1
      /\ \A i \in 1 .. Len(rest) : rest[i] = chain[i + 1] /\ i + 1 \in 1 .. Len(chain)
  BY <1>1, <1>2, <1>3
<1>5. \A i, j \in 1 .. Len(rest) : rest[i] = rest[j] => i = j
  <2>1. ASSUME NEW i \in 1 .. Len(rest), NEW j \in 1 .. Len(rest), rest[i] = rest[j] PROVE i = j
    <3>1. /\ i + 1 \in 1 .. Len(chain) /\ j + 1 \in 1 .. Len(chain)
          /\ chain[i + 1] = chain[j + 1]
      BY <1>4, <2>1
    <3>2. i + 1 = j + 1
      BY <3>1 DEF SwitchChain, Line
    <3> QED BY <3>2
  <2> QED BY <2>1
<1>6. \A i \in 1 .. Len(rest) : rest[i] \in running \ {t}
  <2>1. ASSUME NEW i \in 1 .. Len(rest) PROVE rest[i] \in running /\ rest[i] # t
    <3>1. i + 1 # 1 /\ 1 \in 1 .. Len(chain)
      BY <1>1, <1>2
    <3> QED BY <1>2, <1>4, <3>1, SMTT(40) DEF SwitchChain, Line
  <2> QED BY <2>1
<1>7. ASSUME NEW u \in running \ {t} PROVE \E i \in 1 .. Len(rest) : rest[i] = u
  <2>1. PICK i \in 1 .. Len(chain) : chain[i] = u
    BY DEF SwitchChain, Line
  <2>2. i - 1 \in 1 .. Len(rest) /\ (i - 1) + 1 = i
    BY <1>1, <1>2, <1>4, <2>1
  <2> QED BY <1>4, <2>1, <2>2
<1>8. \A n \in Nat \ {0} : Nth(chain, n + 1) = Nth(rest, n)
  BY <1>1, <1>2, <1>4 DEF Nth
<1>9. links[t] = Nth(rest, 1)
  <2>1. 1 \in 1 .. Len(chain)
    BY <1>1, <1>2
  <2>2. links[chain[1]] = Nth(chain, 1 + 1)
    BY <2>1 DEF SwitchChain, Line
  <2> QED BY <1>2, <1>8, <2>2
<1>10. ASSUME NEW i \in 1 .. Len(rest) PROVE links[rest[i]] = Nth(rest, i + 1)
  <2>1. links[chain[i + 1]] = Nth(chain, (i + 1) + 1) /\ i + 1 \in Nat \ {0}
    BY <1>4 DEF SwitchChain, Line
  <2> QED BY <1>4, <1>8, <2>1
<1>11. t \in running
  <2>1. 1 \in 1 .. Len(chain)
    BY <1>1, <1>2
  <2> QED BY <1>2, <2>1 DEF SwitchChain, Line
<1> QED BY <1>4, <1>5, <1>6, <1>7, <1>9, <1>10, <1>11 DEF SwitchChain, Line

\* A thread that neither enters nor leaves the list of preempted threads.
LEMMA PreemptedKept ==
    ASSUME T!TypeOK, Preempted, NEW t \in Thread, NEW s, thread' = [thread EXCEPT ![t] = s],
           thread[t] # "preempted", s # "preempted", UNCHANGED <<preempted, armed, sched>>
    PROVE  Preempted'
<1>1. /\ thread'[t] = s /\ \A u \in Thread \ {t} : thread'[u] = thread[u]
      /\ preempted' = preempted /\ armed' = armed /\ sched' = sched
  BY DEF T!TypeOK
<1>2. \A u \in Thread : thread'[u] = "preempted" <=> thread[u] = "preempted"
  BY <1>1
<1>3. ThreadsAt("preempted")' = ThreadsAt("preempted")
  BY <1>2 DEF ThreadsAt
<1> QED BY <1>1, <1>2, <1>3 DEF Preempted

\* The head of the list, or the thread whose timer fires, is asked to go on.
LEMMA PreemptedWoken ==
    ASSUME T!TypeOK, Preempted, NEW n \in 1 .. Len(preempted), NEW t, t = preempted[n],
           preempted' \in Seq(Thread), Line(preempted', ThreadsAt("preempted") \ {t}),
           armed' = armed \ {t}, T!SetSchedPromise(t)
    PROVE  Preempted' /\ t \in Thread /\ thread[t] = "preempted"
<1>1. t \in Thread
  BY DEF T!TypeOK
<1>2. thread[t] = "preempted"
  BY DEF Preempted, Line, ThreadsAt
<1>3. /\ thread'[t] = "woken" /\ \A u \in Thread \ {t} : thread'[u] = thread[u]
      /\ sched'[t] = "set" /\ \A u \in Thread \ {t} : sched'[u] = sched[u]
  BY <1>1 DEF T!TypeOK, T!SetSchedPromise
<1>4. ThreadsAt("preempted")' = ThreadsAt("preempted") \ {t}
  BY <1>3 DEF ThreadsAt
<1>5. \A u \in Thread : (u \in armed' <=> thread'[u] = "preempted") /\ (sched'[u] = "asked" <=> thread'[u] = "preempted")
  BY <1>3 DEF Preempted
<1> QED BY <1>1, <1>2, <1>4, <1>5 DEF Preempted

\* A thread starts, or goes on where it left: it enters the chain.
LEMMA ThreadEnters ==
    ASSUME ThreadsInv, ~aborted, NEW t \in Thread, thread[t] \in {"none", "woken"}, T!Enter(t),
           thread' = [thread EXCEPT ![t] = "running"],
           UNCHANGED <<preempted, armed, sched, aborted>>
    PROVE  ThreadsInv'
<1>1. T!TypeOK /\ Preempted /\ Chained
  BY DEF ThreadsInv
<1>2. T!TypeOK'
  BY <1>1 DEF T!TypeOK, T!Enter
<1>3. Preempted'
  BY <1>1, PreemptedKept
<1>4. ThreadsAt("running")' = ThreadsAt("running") \cup {t} /\ t \notin ThreadsAt("running")
  BY <1>1 DEF ThreadsAt, T!TypeOK
<1>5. Chained'
  <2>1. PICK chain \in Seq(Thread) : SwitchChain(chain, context, link, ThreadsAt("running"))
    BY <1>1 DEF Chained
  <2>2. link \in [Thread -> Thread \cup {Unthreaded}] /\ t \in Thread \ ThreadsAt("running")
    BY <1>1, <1>4 DEF T!TypeOK
  <2>3. \E longer \in Seq(Thread) :
           SwitchChain(longer, t, [link EXCEPT ![t] = context], ThreadsAt("running") \cup {t})
    BY <2>1, <2>2, ChainEnters
  <2> QED BY <1>4, <2>3 DEF Chained, T!Enter
<1> QED BY <1>2, <1>3, <1>5 DEF ThreadsInv

\* The running thread switches to the one that it is linked to.
LEMMA ThreadLeaves ==
    ASSUME T!TypeOK, Chained, NEW t \in Thread, context = t, T!Leave(t),
           NEW s \in {"waiting", "preempted", "done"}, thread' = [thread EXCEPT ![t] = s]
    PROVE  thread[t] = "running" /\ Chained'
<1>1. PICK chain \in Seq(Thread) : SwitchChain(chain, t, link, ThreadsAt("running"))
  BY DEF Chained
<1>2. /\ t \in ThreadsAt("running")
      /\ \E rest \in Seq(Thread) : SwitchChain(rest, link[t], link, ThreadsAt("running") \ {t})
  BY <1>1, ChainLeaves
<1>3. ThreadsAt("running")' = ThreadsAt("running") \ {t}
  BY DEF ThreadsAt, T!TypeOK
<1> QED BY <1>2, <1>3 DEF Chained, ThreadsAt, T!Leave

\* Nobody enters or leaves the chain.
LEMMA ChainedKept ==
    ASSUME T!TypeOK, Chained, NEW t \in Thread, NEW s, thread' = [thread EXCEPT ![t] = s],
           thread[t] # "running", s # "running", UNCHANGED <<context, link>>
    PROVE  Chained'
<1>1. /\ thread'[t] = s /\ \A u \in Thread \ {t} : thread'[u] = thread[u]
      /\ context' = context /\ link' = link
  BY DEF T!TypeOK
<1>2. ThreadsAt("running")' = ThreadsAt("running")
  BY <1>1 DEF ThreadsAt
<1> QED BY <1>1, <1>2 DEF Chained

\* wait() and the end of a thread's function.
LEMMA ThreadWaitsOrEnds ==
    ASSUME ThreadsInv, NEW t \in Thread, T!InThread(t), T!Leave(t),
           NEW s \in {"waiting", "done"}, thread' = [thread EXCEPT ![t] = s],
           UNCHANGED <<preempted, armed, sched, aborted>>
    PROVE  ThreadsInv'
<1>1. T!TypeOK /\ Preempted /\ Chained /\ context = t
  BY DEF ThreadsInv, T!InThread
<1>2. thread[t] = "running" /\ Chained'
  BY <1>1, ThreadLeaves
<1>3. Preempted'
  BY <1>1, <1>2, PreemptedKept
<1>4. T!TypeOK'
  BY <1>1 DEF T!TypeOK, T!Leave
<1> QED BY <1>2, <1>3, <1>4 DEF ThreadsInv

\* yield().
LEMMA ThreadYields ==
    ASSUME ThreadsInv, NEW t \in Thread, T!Yield(t)
    PROVE  ThreadsInv'
<1>1. T!TypeOK /\ Preempted /\ Chained /\ context = t /\ t \in Group
  BY DEF ThreadsInv, T!InThread, T!Yield
<1>2. preempted' = Append(preempted, t) /\ preempted \in Seq(Thread)
  BY <1>1 DEF T!Yield, T!TypeOK
<1>3. CASE sched[t] = "fresh"
  <2>1. /\ sched' = [sched EXCEPT ![t] = "asked"] /\ armed' = armed \cup {t} /\ T!Leave(t)
        /\ thread' = [thread EXCEPT ![t] = "preempted"]
    BY <1>3 DEF T!Yield
  <2>2. thread[t] = "running" /\ Chained'
    BY <1>1, <2>1, ThreadLeaves
  <2>3. ThreadsAt("preempted")' = ThreadsAt("preempted") \cup {t} /\ t \in Thread \ ThreadsAt("preempted")
    BY <1>1, <2>1, <2>2 DEF ThreadsAt, T!TypeOK
  <2>4. Line(preempted, ThreadsAt("preempted"))
    BY <1>1 DEF Preempted
  <2>5. preempted' \in Seq(Thread) /\ Line(preempted', ThreadsAt("preempted")')
    BY <1>2, <2>3, <2>4, LineGrows
  <2>6. \A u \in Thread : (u \in armed' <=> thread'[u] = "preempted") /\ (sched'[u] = "asked" <=> thread'[u] = "preempted")
    BY <1>1, <2>1 DEF Preempted, T!TypeOK
  <2>7. Preempted'
    BY <2>5, <2>6 DEF Preempted
  <2>8. T!TypeOK'
    BY <1>1, <2>1, <2>5 DEF T!TypeOK, T!Leave
  <2> QED BY <2>2, <2>7, <2>8 DEF ThreadsInv
<1>4. CASE sched[t] # "fresh"
  <2>1. aborted' = TRUE /\ UNCHANGED <<context, link, thread, armed, sched>>
    BY <1>4 DEF T!Yield
  <2>2. T!TypeOK'
    BY <1>1, <1>2, <2>1 DEF T!TypeOK
  <2> QED BY <2>1, <2>2 DEF ThreadsInv
<1> QED BY <1>3, <1>4

\* The timer of a preempted thread fires, or the idle reactor takes the first.
LEMMA ThreadWoken ==
    ASSUME ThreadsInv, ~aborted, NEW n \in 1 .. Len(preempted), NEW t, t = preempted[n],
           preempted' \in Seq(Thread), Line(preempted', ThreadsAt("preempted") \ {t}),
           armed' = armed \ {t}, T!SetSchedPromise(t), UNCHANGED <<context, link, aborted>>
    PROVE  ThreadsInv'
<1>1. T!TypeOK /\ Preempted /\ Chained
  BY DEF ThreadsInv
<1>2. Preempted' /\ t \in Thread /\ thread[t] = "preempted"
  BY <1>1, PreemptedWoken
<1>3. Chained'
  BY <1>1, <1>2, ChainedKept DEF T!SetSchedPromise
<1>4. T!TypeOK'
  BY <1>1, <1>2 DEF T!TypeOK, T!SetSchedPromise
<1> QED BY <1>2, <1>3, <1>4 DEF ThreadsInv

\* No operation on threads breaks the invariant.
LEMMA ThreadsStep == ThreadsInv /\ [ThreadsNext]_threadVars => ThreadsInv'
<1> SUFFICES ASSUME ThreadsInv, [ThreadsNext]_threadVars PROVE ThreadsInv'
  OBVIOUS
<1>1. ASSUME NEW t \in Thread, T!Start(t) PROVE ThreadsInv'
  BY <1>1, ThreadEnters DEF T!Start
<1>2. ASSUME NEW t \in Thread, T!SwitchIn(t) PROVE ThreadsInv'
  BY <1>2, ThreadEnters DEF T!SwitchIn, T!InReactor
<1>3. ASSUME NEW t \in Thread, T!Wait(t) PROVE ThreadsInv'
  BY <1>3, ThreadWaitsOrEnds DEF T!Wait
<1>4. ASSUME NEW t \in Thread, T!Finish(t) PROVE ThreadsInv'
  BY <1>4, ThreadWaitsOrEnds DEF T!Finish
<1>5. ASSUME NEW t \in Thread, T!Yield(t) PROVE ThreadsInv'
  BY <1>5, ThreadYields
<1>6. ASSUME NEW t \in Thread, T!Resolve(t) PROVE ThreadsInv'
  <2>1. T!TypeOK /\ Preempted /\ Chained /\ ~aborted
    BY <1>6 DEF ThreadsInv, T!Resolve
  <2>2. /\ thread[t] = "waiting" /\ thread' = [thread EXCEPT ![t] = "woken"]
        /\ UNCHANGED <<context, link, preempted, armed, sched, aborted>>
    BY <1>6 DEF T!Resolve
  <2>3. Preempted'
    BY <2>1, <2>2, PreemptedKept
  <2>4. Chained'
    BY <2>1, <2>2, ChainedKept
  <2>5. T!TypeOK'
    BY <2>1, <2>2 DEF T!TypeOK
  <2> QED BY <2>3, <2>4, <2>5 DEF ThreadsInv
<1>7. ASSUME NEW t \in Thread, T!Reschedule(t) PROVE ThreadsInv'
  <2>1. PICK n \in DOMAIN preempted :
           /\ preempted[n] = t
           /\ preempted' = SubSeq(preempted, 1, n - 1) \o SubSeq(preempted, n + 1, Len(preempted))
    BY <1>7 DEF T!Reschedule
  <2>2. /\ ~aborted /\ armed' = armed \ {t} /\ T!SetSchedPromise(t)
        /\ UNCHANGED <<context, link, aborted>>
    BY <1>7 DEF T!Reschedule, T!InReactor
  <2>3. preempted \in Seq(Thread) /\ Line(preempted, ThreadsAt("preempted")) /\ n \in 1 .. Len(preempted)
    BY <2>1, <2>2 DEF ThreadsInv, T!TypeOK, Preempted
  <2>4. preempted' \in Seq(Thread) /\ Line(preempted', ThreadsAt("preempted") \ {t})
    BY <2>1, <2>3, LineErased
  <2> QED BY <2>1, <2>2, <2>3, <2>4, ThreadWoken
<1>8. CASE T!TryRunOneYieldedThread
  <2>1. /\ ~aborted /\ preempted # << >> /\ armed' = armed \ {preempted[1]}
        /\ preempted' = Tail(preempted) /\ T!SetSchedPromise(preempted[1])
        /\ UNCHANGED <<context, link, aborted>>
    BY <1>8 DEF T!TryRunOneYieldedThread, T!InReactor
  <2>2. preempted \in Seq(Thread) /\ Line(preempted, ThreadsAt("preempted"))
    BY <2>1 DEF ThreadsInv, T!TypeOK, Preempted
  <2>3. 1 \in 1 .. Len(preempted)
    BY <2>1, <2>2
  <2>4. preempted' \in Seq(Thread) /\ Line(preempted', ThreadsAt("preempted") \ {preempted[1]})
    BY <2>1, <2>2, LineTail
  <2> QED BY <2>1, <2>3, <2>4, ThreadWoken
<1>9. CASE UNCHANGED threadVars
  BY <1>9 DEF threadVars, ThreadsInv, T!TypeOK, Preempted, Chained, ThreadsAt
<1> QED BY <1>1, <1>2, <1>3, <1>4, <1>5, <1>6, <1>7, <1>8, <1>9 DEF ThreadsNext

LEMMA ThreadsInit == MCInit => ThreadsInv
<1> SUFFICES ASSUME T!Init PROVE ThreadsInv
  BY DEF MCInit
<1>1. T!TypeOK
  BY DEF T!Init, T!TypeOK
<1>2. ThreadsAt("preempted") = {} /\ ThreadsAt("running") = {}
  BY DEF T!Init, ThreadsAt
<1>3. Preempted
  BY <1>2 DEF T!Init, Preempted, Line
<1>4. << >> \in Seq(Thread) /\ SwitchChain(<< >>, context, link, ThreadsAt("running"))
  BY <1>2 DEF T!Init, SwitchChain, Line, Nth
<1> QED BY <1>1, <1>3, <1>4 DEF ThreadsInv, Chained

\* The sizes that the model speaks of are those of the library's theorems.
LEMMA SameCardinality == \A X : T!Cardinality(X) = Cardinality(X) /\ R!Cardinality(X) = Cardinality(X)
BY Zenon DEF T!Cardinality, R!Cardinality, Cardinality

\* A list without repetitions is as long as its set is large.
LEMMA LineLength ==
    ASSUME NEW S, IsFiniteSet(S), NEW line \in Seq(S), NEW members, Line(line, members)
    PROVE  Len(line) \in Nat /\ Len(line) <= Cardinality(S) /\ Cardinality(S) \in Nat
<1>1. Len(line) \in Nat /\ line \in [1 .. Len(line) -> S]
  OBVIOUS
<1>2. line \in Injection(1 .. Len(line), S)
  <2>1. \A i, j \in 1 .. Len(line) : line[i] = line[j] => i = j
    BY DEF Line
  <2> QED BY <1>1, <2>1 DEF Injection, IsInjective
<1>3. IsFiniteSet(1 .. Len(line)) /\ Cardinality(1 .. Len(line)) = Len(line)
  BY <1>1, FS_Interval, SMTT(40)
<1>4. Cardinality(1 .. Len(line)) <= Cardinality(S)
  BY <1>2, FS_Injection, Zenon
<1> QED BY <1>1, <1>3, <1>4, FS_CardinalityType

\* A set of natural numbers has a least element.
LEMMA LeastNatural ==
    ASSUME NEW S \in SUBSET Nat, S # {}
    PROVE  \E i \in S : \A j \in S : i <= j
<1>1. PICK i \in S : \A j \in S : ~ (<<j, i>> \in OpToRel(<, Nat))
  BY NatLessThanWellFounded, WFMin, Zenon
<1>2. \A j \in S : ~ (j < i)
  BY <1>1 DEF OpToRel
<1> QED BY <1>2

\* The links from the running context lead down the chain.
LEMMA BelowChain ==
    ASSUME ThreadsInv, NEW chain, SwitchChain(chain, context, link, ThreadsAt("running"))
    PROVE  /\ DOMAIN T!Below = 0 .. Cardinality(Thread)
           /\ \A n \in 0 .. Cardinality(Thread) : T!Below[n] = Nth(chain, n + 1)
<1> DEFINE LinkOf(c) == IF c = Unthreaded THEN Unthreaded ELSE link[c]
           Walk(f) == [n \in 0 .. T!Cardinality(Thread) |->
                          IF n = 0 THEN context ELSE LinkOf(f[n - 1])]
           down == [n \in 0 .. T!Cardinality(Thread) |-> Nth(chain, n + 1)]
<1>1. Cardinality(Thread) \in Nat /\ T!Cardinality(Thread) = Cardinality(Thread)
  BY SameCardinality, ReactorAssumption, FS_CardinalityType
<1>2. chain \in Seq(Thread) /\ context = Nth(chain, 1)
      /\ \A i \in 1 .. Len(chain) : link[chain[i]] = Nth(chain, i + 1)
  BY DEF SwitchChain
<1>3. ASSUME NEW n \in Nat \ {0} PROVE LinkOf(Nth(chain, n)) = Nth(chain, n + 1)
  <2>1. CASE n <= Len(chain)
    <3>1. n \in 1 .. Len(chain) /\ chain[n] \in Thread /\ chain[n] # Unthreaded
      BY <1>2, <2>1, ReactorAssumption
    <3> QED BY <1>2, <2>1, <3>1 DEF Nth
  <2>2. CASE ~(n <= Len(chain))
    BY <1>2, <2>2 DEF Nth
  <2> QED BY <2>1, <2>2
<1> HIDE DEF LinkOf
<1>4. down = Walk(down)
  <2>1. ASSUME NEW n \in 0 .. T!Cardinality(Thread), n # 0
        PROVE  Nth(chain, n + 1) = LinkOf(down[n - 1])
    <3>1. n - 1 \in 0 .. T!Cardinality(Thread) /\ (n - 1) + 1 = n /\ n \in Nat \ {0}
      BY <1>1, <2>1
    <3> QED BY <1>3, <3>1
  <2>2. Nth(chain, 0 + 1) = context
    BY <1>2
  <2> QED BY <2>1, <2>2
<1>5. T!Below = CHOOSE f : f = Walk(f)
  BY Zenon DEF T!Below, LinkOf
<1> HIDE DEF down
<1>6. T!Below = Walk(T!Below)
  <2> HIDE DEF Walk
  <2> QED BY <1>4, <1>5, Zenon
<1>7. ASSUME NEW n \in 0 .. Cardinality(Thread), T!Below[n] # Nth(chain, n + 1)
      PROVE  FALSE
  <2> DEFINE Wrong == {k \in Nat : k <= Cardinality(Thread) /\ T!Below[k] # Nth(chain, k + 1)}
  <2>1. Wrong \in SUBSET Nat /\ Wrong # {}
    BY <1>1, <1>7
  <2>2. PICK k \in Wrong : \A j \in Wrong : k <= j
    <3> HIDE DEF Wrong
    <3> QED BY <2>1, LeastNatural
  <2>3. k \in 0 .. T!Cardinality(Thread) /\ T!Below[k] # Nth(chain, k + 1)
    BY <1>1, <2>2
  <2>4. T!Below[k] = IF k = 0 THEN context ELSE LinkOf(T!Below[k - 1])
    BY <1>6, <2>3
  <2>5. k # 0
    BY <1>2, <2>3, <2>4
  <2>6. k - 1 \in Nat /\ k - 1 <= Cardinality(Thread) /\ k - 1 \notin Wrong /\ (k - 1) + 1 = k
    BY <1>1, <2>2, <2>3, <2>5
  <2>7. T!Below[k - 1] = Nth(chain, k)
    BY <2>6
  <2>8. k \in Nat \ {0}
    BY <2>3, <2>5
  <2> QED BY <1>3, <2>3, <2>4, <2>5, <2>7, <2>8
<1>8. DOMAIN T!Below = 0 .. Cardinality(Thread)
  BY <1>1, <1>6
<1> QED BY <1>7, <1>8

\* It leads through the running threads, all of them.
LEMMA BelowRunning ==
    ASSUME ThreadsInv, ~aborted
    PROVE  {T!Below[n] : n \in DOMAIN T!Below} \ {Unthreaded} = ThreadsAt("running")
<1>1. PICK chain \in Seq(Thread) : SwitchChain(chain, context, link, ThreadsAt("running"))
  BY DEF ThreadsInv, Chained
<1>2. Line(chain, ThreadsAt("running"))
  BY <1>1 DEF SwitchChain
<1>3. Len(chain) \in Nat /\ Len(chain) <= Cardinality(Thread) /\ Cardinality(Thread) \in Nat
  BY <1>2, LineLength, ReactorAssumption
<1>4. \A n \in 0 .. Cardinality(Thread) : T!Below[n] = Nth(chain, n + 1)
  BY <1>1, BelowChain
<1>5. DOMAIN T!Below = 0 .. Cardinality(Thread)
  BY <1>1, BelowChain
<1>6. ASSUME NEW n \in 0 .. Cardinality(Thread), T!Below[n] # Unthreaded
      PROVE  T!Below[n] \in ThreadsAt("running")
  <2>1. n + 1 \in 1 .. Len(chain) /\ T!Below[n] = chain[n + 1]
    BY <1>3, <1>4, <1>6 DEF Nth
  <2> QED BY <1>2, <2>1 DEF Line
<1>7. ASSUME NEW t \in ThreadsAt("running")
      PROVE  t # Unthreaded /\ \E n \in 0 .. Cardinality(Thread) : T!Below[n] = t
  <2>1. PICK i \in 1 .. Len(chain) : chain[i] = t
    BY <1>2 DEF Line
  <2>2. i - 1 \in 0 .. Cardinality(Thread) /\ (i - 1) + 1 = i
    BY <1>3, <2>1
  <2>3. T!Below[i - 1] = t
    BY <1>4, <2>1, <2>2 DEF Nth
  <2>4. t # Unthreaded
    BY ReactorAssumption DEF ThreadsAt
  <2> QED BY <2>2, <2>3, <2>4
<1> QED BY <1>5, <1>6, <1>7

\* A member of a list without repetitions is there once.
LEMMA LineOnce ==
    ASSUME NEW S, NEW line \in Seq(S), NEW members, Line(line, members), NEW x
    PROVE  Cardinality({i \in DOMAIN line : line[i] = x}) = IF x \in members THEN 1 ELSE 0
<1>1. CASE x \in members
  <2>1. PICK i \in 1 .. Len(line) : line[i] = x
    BY <1>1 DEF Line
  <2>2. {j \in DOMAIN line : line[j] = x} = {i}
    BY <2>1 DEF Line
  <2> QED BY <1>1, <2>2, FS_Singleton
<1>2. CASE x \notin members
  <2>1. {j \in DOMAIN line : line[j] = x} = {}
    BY <1>2 DEF Line
  <2> QED BY <1>2, <2>1, FS_EmptySet
<1> QED BY <1>1, <1>2

\* Whoever switches to a thread is switched back to, and a thread that gave up
\* its turn is woken once, by its timer or by the idle reactor.
THEOREM SwitchesAlwaysPair == MCSpec => []SwitchesPair
<1>1. ThreadsInv => SwitchesPair
  <2> SUFFICES ASSUME ThreadsInv, ~aborted
               PROVE  /\ {T!Below[n] : n \in DOMAIN T!Below} \ {Unthreaded} = {t \in Thread : thread[t] = "running"}
                      /\ \A t \in Thread :
                            /\ T!Cardinality({i \in DOMAIN preempted : preempted[i] = t})
                                 = IF thread[t] = "preempted" THEN 1 ELSE 0
                            /\ thread[t] = "preempted" <=> t \in armed
                            /\ thread[t] = "preempted" <=> sched[t] = "asked"
    BY Zenon DEF SwitchesPair, T!SwitchesPair
  <2>1. preempted \in Seq(Thread) /\ Line(preempted, ThreadsAt("preempted"))
    BY DEF ThreadsInv, T!TypeOK, Preempted
  <2>2. \A t \in Thread : Cardinality({i \in DOMAIN preempted : preempted[i] = t})
                            = IF t \in ThreadsAt("preempted") THEN 1 ELSE 0
    BY <2>1, LineOnce
  <2>3. \A t \in Thread : T!Cardinality({i \in DOMAIN preempted : preempted[i] = t})
                            = IF thread[t] = "preempted" THEN 1 ELSE 0
    BY <2>2, SameCardinality DEF ThreadsAt
  <2>4. \A t \in Thread : /\ thread[t] = "preempted" <=> t \in armed
                          /\ thread[t] = "preempted" <=> sched[t] = "asked"
    BY DEF ThreadsInv, Preempted
  <2> QED BY <2>3, <2>4, BelowRunning DEF ThreadsAt
<1>2. ThreadsInv /\ [MCNext]_MCVars => ThreadsInv'
  BY OwnSteps, ThreadsStep
<1> QED BY ThreadsInit, <1>1, <1>2, PTL DEF MCSpec

-----------------------------------------------------------------------------
(* The loop.  Every object in _pollers is owned by a registered poller, or *)
(* by the task that will take it out, but for the poller of signals.       *)

LoopTask == [kind : {"register", "deregister", "user"}, of : Handle \cup Pollfn \cup {Null}]
Pollers == Pollfn \cup {SignalFn}
Owner == [fn : Pollfn \cup {Null}, registering : BOOLEAN]

\* The tasks of a kind in a list of tasks are those for the members of a set,
\* one for each; a task that was told to do nothing does not count.
Holds(u, kind, members) ==
    /\ \A i \in 1 .. Len(u) : u[i].kind = kind /\ u[i].of # Null => u[i].of \in members
    /\ \A x \in members : \E i \in 1 .. Len(u) : u[i] = R!TaskFor(kind, x)
    /\ \A i, j \in 1 .. Len(u) : u[i].kind = kind /\ u[i].of # Null /\ u[j] = u[i] => i = j

\* The pollers with a registration task, and the objects of the others.
Registering(hd) == {h \in Handle : hd[h].registering}
Registered(hd) == {fn \in Pollfn : \E h \in Handle : hd[h].fn = fn /\ ~hd[h].registering}

\* retired are the objects that replaced those of destroyed pollers.
Owns(u, ps, hd, retired) ==
    /\ \A h, g \in Handle : hd[h].fn = hd[g].fn /\ hd[h].fn # Null => h = g
    /\ \A h \in Handle : hd[h].registering => hd[h].fn # Null
    /\ \A h \in Handle : hd[h].fn \notin retired
    /\ Holds(u, "register", Registering(hd))
    /\ Holds(u, "deregister", retired)
    /\ Line(ps, Registered(hd) \cup retired \cup {SignalFn})
    /\ Len(ps) >= 1 /\ ps[1] = SignalFn

\* A task is added,
LEMMA HoldsOther ==
    ASSUME NEW u \in Seq(LoopTask), NEW kind, NEW members, Holds(u, kind, members),
           NEW t \in LoopTask, t.kind # kind
    PROVE  Holds(Append(u, t), kind, members)
<1>1. PICK more : more = Append(u, t)
  OBVIOUS
<1>2. /\ Len(more) = Len(u) + 1 /\ Len(u) \in Nat /\ more[Len(u) + 1] = t
      /\ \A i \in 1 .. Len(u) : more[i] = u[i] /\ i \in 1 .. Len(more)
      /\ \A i \in 1 .. Len(more) : i # Len(u) + 1 => i \in 1 .. Len(u)
  BY <1>1
<1>3. \A i \in 1 .. Len(more) : more[i].kind = kind => i \in 1 .. Len(u) /\ more[i] = u[i]
  BY <1>2
<1>4. \A i \in 1 .. Len(more) : more[i].kind = kind /\ more[i].of # Null => more[i].of \in members
  BY <1>3 DEF Holds
<1>5. \A x \in members : \E i \in 1 .. Len(more) : more[i] = R!TaskFor(kind, x)
  BY <1>2 DEF Holds
<1>6. \A i, j \in 1 .. Len(more) : more[i].kind = kind /\ more[i].of # Null /\ more[j] = more[i] => i = j
  BY <1>3 DEF Holds
<1> QED BY <1>1, <1>4, <1>5, <1>6 DEF Holds

LEMMA HoldsMore ==
    ASSUME NEW u \in Seq(LoopTask), NEW kind, NEW members, Holds(u, kind, members),
           NEW x, x \notin members, x # Null, R!TaskFor(kind, x) \in LoopTask
    PROVE  Holds(Append(u, R!TaskFor(kind, x)), kind, members \cup {x})
<1>1. PICK t : t = R!TaskFor(kind, x)
  OBVIOUS
<1>2. t.kind = kind /\ t.of = x /\ t \in LoopTask
  BY <1>1 DEF R!TaskFor
<1>3. PICK more : more = Append(u, t)
  OBVIOUS
<1>4. /\ Len(more) = Len(u) + 1 /\ Len(u) \in Nat /\ more[Len(u) + 1] = t
      /\ \A i \in 1 .. Len(u) : more[i] = u[i] /\ i \in 1 .. Len(more)
      /\ \A i \in 1 .. Len(more) : i # Len(u) + 1 => i \in 1 .. Len(u)
  BY <1>2, <1>3
<1>5. \A i \in 1 .. Len(u) : ~(u[i].kind = kind /\ u[i].of = x)
  BY DEF Holds
<1>6. \A i \in 1 .. Len(more) :
         more[i].kind = kind /\ more[i].of # Null => more[i].of \in members \cup {x}
  BY <1>2, <1>4 DEF Holds
<1>7. ASSUME NEW y \in members \cup {x} PROVE \E i \in 1 .. Len(more) : more[i] = R!TaskFor(kind, y)
  <2>1. CASE y = x
    BY <1>1, <1>4, <2>1
  <2>2. CASE y # x
    BY <1>4, <2>2 DEF Holds
  <2> QED BY <2>1, <2>2
<1>8. ASSUME NEW i \in 1 .. Len(more), NEW j \in 1 .. Len(more),
             more[i].kind = kind, more[i].of # Null, more[j] = more[i]
      PROVE  i = j
  <2>1. CASE i \in 1 .. Len(u) /\ j \in 1 .. Len(u)
    BY <1>4, <1>8, <2>1 DEF Holds
  <2>2. CASE ~(i \in 1 .. Len(u) /\ j \in 1 .. Len(u))
    BY <1>2, <1>4, <1>5, <1>8, <2>2
  <2> QED BY <2>1, <2>2
<1> QED BY <1>1, <1>3, <1>6, <1>7, <1>8 DEF Holds

\* or the front one is run.
LEMMA HoldsRest ==
    ASSUME NEW u \in Seq(LoopTask), u # << >>, NEW kind, NEW members, Holds(u, kind, members)
    PROVE  /\ Tail(u) \in Seq(LoopTask)
           /\ Head(u) \in LoopTask
           /\ Head(u).kind # kind \/ Head(u).of = Null \/ Head(u).of \in members
           /\ Head(u).kind # kind \/ Head(u).of = Null
                => Null \in members \/ Holds(Tail(u), kind, members)
           /\ Head(u).kind = kind /\ Head(u).of # Null
                => Holds(Tail(u), kind, members \ {Head(u).of})
<1>1. PICK rest : rest = Tail(u)
  OBVIOUS
<1>2. /\ rest \in Seq(LoopTask) /\ Len(rest) = Len(u) - 1 /\ Len(u) \in Nat /\ 1 \in 1 .. Len(u)
      /\ \A i \in 1 .. Len(rest) : rest[i] = u[i + 1] /\ i + 1 \in 1 .. Len(u) /\ i + 1 # 1
      /\ Head(u) = u[1] /\ u[1] \in LoopTask
  BY <1>1
<1>3. \A i \in 1 .. Len(u) : i = 1 \/ (i - 1 \in 1 .. Len(rest) /\ rest[i - 1] = u[i])
  <2>1. ASSUME NEW i \in 1 .. Len(u), i # 1 PROVE i - 1 \in 1 .. Len(rest) /\ rest[i - 1] = u[i]
    <3>1. i - 1 \in 1 .. Len(rest) /\ (i - 1) + 1 = i
      BY <1>2, <2>1
    <3> QED BY <1>2, <3>1
  <2> QED BY <2>1
<1>4. u[1].kind # kind \/ u[1].of = Null \/ u[1].of \in members
  BY <1>2 DEF Holds
<1>5. ASSUME NEW i \in 1 .. Len(rest), NEW j \in 1 .. Len(rest),
             rest[i].kind = kind, rest[i].of # Null, rest[j] = rest[i]
      PROVE  i = j
  <2>1. i + 1 \in 1 .. Len(u) /\ j + 1 \in 1 .. Len(u) /\ u[i + 1] = rest[i] /\ u[j + 1] = rest[j]
    BY <1>2
  <2>2. i + 1 = j + 1
    BY <1>5, <2>1 DEF Holds
  <2> QED BY <2>2
<1>6. \A i \in 1 .. Len(rest) : rest[i].kind = kind /\ rest[i].of # Null => rest[i].of \in members
  BY <1>2 DEF Holds
<1>7. ASSUME u[1].kind # kind \/ u[1].of = Null, Null \notin members
      PROVE  Holds(rest, kind, members)
  <2>1. ASSUME NEW x \in members PROVE \E i \in 1 .. Len(rest) : rest[i] = R!TaskFor(kind, x)
    <3>1. PICK i \in 1 .. Len(u) : u[i] = R!TaskFor(kind, x)
      BY DEF Holds
    <3>2. u[i].kind = kind /\ u[i].of # Null
      BY <1>7, <3>1 DEF R!TaskFor
    <3>3. i # 1
      BY <1>7, <3>2
    <3> QED BY <1>3, <3>1, <3>3
  <2> QED BY <1>5, <1>6, <2>1 DEF Holds
<1>8. ASSUME u[1].kind = kind, u[1].of # Null
      PROVE  Holds(rest, kind, members \ {u[1].of})
  <2>1. u[1] = R!TaskFor(kind, u[1].of)
    BY <1>2, <1>8 DEF R!TaskFor, LoopTask
  <2>2. ASSUME NEW i \in 1 .. Len(rest), rest[i].kind = kind PROVE rest[i].of # u[1].of
    <3>1. rest[i] = u[i + 1] /\ i + 1 \in 1 .. Len(u) /\ i + 1 # 1 /\ rest[i] \in LoopTask
      BY <1>2
    <3>2. u[i + 1] # u[1]
      BY <1>2, <1>8, <3>1 DEF Holds
    <3> QED BY <1>2, <1>8, <2>2, <3>1, <3>2 DEF LoopTask
  <2>3. ASSUME NEW x \in members \ {u[1].of} PROVE \E i \in 1 .. Len(rest) : rest[i] = R!TaskFor(kind, x)
    <3>1. PICK i \in 1 .. Len(u) : u[i] = R!TaskFor(kind, x)
      BY DEF Holds
    <3>2. u[i].of # u[1].of
      BY <3>1 DEF R!TaskFor
    <3>3. i # 1
      BY <3>2
    <3> QED BY <1>3, <3>1, <3>3
  <2> QED BY <1>5, <1>6, <2>2, <2>3 DEF Holds
<1> QED BY <1>1, <1>2, <1>4, <1>7, <1>8

\* A registration task is told of another poller, or of none.
LEMMA HoldsRetarget ==
    ASSUME NEW u \in Seq(LoopTask), NEW from, from # Null, NEW to, to \in Handle \cup {Null}, from # to
    PROVE  /\ R!Retarget(u, from, to) \in Seq(LoopTask)
           /\ \A members : Holds(u, "deregister", members)
                 => Holds(R!Retarget(u, from, to), "deregister", members)
           /\ \A members : Holds(u, "register", members) /\ Null \notin members
                          /\ from \in members /\ to \notin members /\ to # Null
                 => Holds(R!Retarget(u, from, to), "register", (members \ {from}) \cup {to})
           /\ \A members : Holds(u, "register", members) /\ Null \notin members /\ to = Null
                 => Holds(R!Retarget(u, from, to), "register", members \ {from})
<1> DEFINE old == R!TaskFor("register", from)
           new == R!TaskFor("register", to)
<1>1. PICK more : more = R!Retarget(u, from, to)
  OBVIOUS
<1>2. old.kind = "register" /\ old.of = from /\ new.kind = "register" /\ new.of = to /\ new \in LoopTask
  BY DEF R!TaskFor, LoopTask
<1>3. \A x : R!TaskFor("register", x).of = x /\ R!TaskFor("register", x).kind = "register"
  BY DEF R!TaskFor
<1>4. \A x : R!TaskFor("deregister", x).of = x /\ R!TaskFor("deregister", x).kind = "deregister"
  BY DEF R!TaskFor
<1>5. more = [i \in 1 .. Len(u) |-> IF u[i] = old THEN new ELSE u[i]]
  BY <1>1 DEF R!Retarget
<1> HIDE DEF old, new
<1>6. \A i \in 1 .. Len(u) : u[i] \in LoopTask
  OBVIOUS
<1>7. more \in Seq(LoopTask) /\ Len(more) = Len(u)
  BY <1>2, <1>5, <1>6
<1>8. \A i \in 1 .. Len(u) : (u[i] = old /\ more[i] = new) \/ (u[i] # old /\ more[i] = u[i])
  BY <1>5
<1>9. ASSUME NEW members, Holds(u, "deregister", members) PROVE Holds(more, "deregister", members)
  <2>1. \A i \in 1 .. Len(u) : more[i].kind = "deregister" => more[i] = u[i]
    BY <1>2, <1>8
  <2>2. \A x \in members : \E i \in 1 .. Len(u) : more[i] = R!TaskFor("deregister", x)
    <3>1. ASSUME NEW x \in members PROVE \E i \in 1 .. Len(u) : more[i] = R!TaskFor("deregister", x)
      <4>1. PICK i \in 1 .. Len(u) : u[i] = R!TaskFor("deregister", x)
        BY <1>9 DEF Holds
      <4> QED BY <1>2, <1>4, <1>8, <4>1
    <3> QED BY <3>1
  <2> QED BY <1>7, <1>9, <2>1, <2>2 DEF Holds
<1>10. ASSUME NEW members, Holds(u, "register", members), Null \notin members,
              to = Null \/ (from \in members /\ to \notin members)
       PROVE  Holds(more, "register", (members \ {from}) \cup ({to} \ {Null}))
  <2>1. ASSUME NEW i \in 1 .. Len(u), more[i].kind = "register", more[i].of # Null
        PROVE  more[i].of \in (members \ {from}) \cup ({to} \ {Null})
    <3>1. CASE u[i] = old
      BY <1>2, <1>8, <2>1, <3>1
    <3>2. CASE u[i] # old
      <4>1. u[i].kind = "register" /\ u[i].of \in members
        BY <1>8, <1>10, <2>1, <3>2 DEF Holds
      <4>2. u[i].of # from
        BY <1>6, <3>2, <4>1 DEF old, R!TaskFor, LoopTask
      <4> QED BY <1>8, <3>2, <4>1, <4>2
    <3> QED BY <3>1, <3>2
  <2>2. ASSUME NEW x \in (members \ {from}) \cup ({to} \ {Null})
        PROVE  \E i \in 1 .. Len(u) : more[i] = R!TaskFor("register", x)
    <3>1. CASE x \in members \ {from}
      <4>1. PICK i \in 1 .. Len(u) : u[i] = R!TaskFor("register", x)
        BY <1>10, <3>1 DEF Holds
      <4>2. u[i] # old
        BY <1>2, <1>3, <3>1, <4>1
      <4> QED BY <1>8, <4>1, <4>2
    <3>2. CASE x = to /\ to # Null
      <4>1. PICK i \in 1 .. Len(u) : u[i] = old
        BY <1>10, <3>2 DEF Holds, old
      <4>2. more[i] = R!TaskFor("register", x)
        BY <1>8, <3>2, <4>1 DEF new
      <4> QED BY <4>2
    <3> QED BY <2>2, <3>1, <3>2
  <2>3. ASSUME NEW i \in 1 .. Len(u), NEW j \in 1 .. Len(u),
               more[i].kind = "register", more[i].of # Null, more[j] = more[i]
        PROVE  i = j
    <3>1. u[i].kind = "register" /\ u[i].of # Null
      BY <1>2, <1>8, <2>3
    <3>2. u[j] = u[i]
      <4>1. CASE u[i] = old /\ u[j] = old
        BY <4>1
      <4>2. CASE u[i] # old /\ u[j] # old
        BY <1>8, <2>3, <4>2
      <4>3. ASSUME NEW k \in 1 .. Len(u), u[k] = new, to # Null PROVE FALSE
        BY <1>2, <1>10, <4>3 DEF Holds
      <4>4. CASE (u[i] = old) # (u[j] = old)
        <5>1. to # Null
          BY <1>2, <1>8, <2>3, <4>4
        <5> QED BY <1>8, <2>3, <4>3, <4>4, <5>1
      <4> QED BY <4>1, <4>2, <4>4
    <3> QED BY <1>10, <3>1, <3>2 DEF Holds
  <2> QED BY <1>7, <2>1, <2>2, <2>3 DEF Holds
<1>11. ASSUME NEW members, Holds(u, "register", members), Null \notin members,
              from \in members, to \notin members, to # Null
       PROVE  Holds(more, "register", (members \ {from}) \cup {to})
  <2>1. {to} \ {Null} = {to}
    BY <1>11
  <2> QED BY <1>10, <1>11, <2>1
<1>12. ASSUME NEW members, Holds(u, "register", members), Null \notin members, to = Null
       PROVE  Holds(more, "register", members \ {from})
  <2>1. (members \ {from}) \cup ({to} \ {Null}) = members \ {from}
    BY <1>12
  <2> QED BY <1>10, <1>12, <2>1
<1> QED BY <1>1, <1>7, <1>9, <1>11, <1>12

\* An object of the list is replaced.
LEMMA LineReplaced ==
    ASSUME NEW S, NEW line \in Seq(S), NEW members, Line(line, members),
           NEW x \in members, NEW y \in S \ members,
           NEW other \in Seq(S), Len(other) = Len(line),
           \A i \in 1 .. Len(line) :
              (line[i] = x /\ other[i] = y) \/ (line[i] # x /\ other[i] = line[i])
    PROVE  Line(other, (members \ {x}) \cup {y})
<1>1. \A i \in 1 .. Len(line) : (line[i] = x /\ other[i] = y) \/ (line[i] # x /\ other[i] = line[i])
  OBVIOUS
<1>2. \A i \in 1 .. Len(line) : other[i] \in (members \ {x}) \cup {y}
  BY <1>1 DEF Line
<1>3. ASSUME NEW z \in (members \ {x}) \cup {y} PROVE \E i \in 1 .. Len(line) : other[i] = z
  <2>1. CASE z = y
    <3>1. PICK i \in 1 .. Len(line) : line[i] = x
      BY DEF Line
    <3> QED BY <1>1, <2>1, <3>1
  <2>2. CASE z # y
    <3>1. PICK i \in 1 .. Len(line) : line[i] = z
      BY <2>2 DEF Line
    <3> QED BY <1>1, <1>3, <2>2, <3>1
  <2> QED BY <2>1, <2>2
<1>4. ASSUME NEW i \in 1 .. Len(line), NEW j \in 1 .. Len(line), other[i] = other[j] PROVE i = j
  <2>1. line[i] # y /\ line[j] # y
    BY DEF Line
  <2>2. line[i] = line[j]
    BY <1>1, <1>4, <2>1
  <2> QED BY <2>2 DEF Line
<1> QED BY <1>2, <1>3, <1>4 DEF Line

\* The types of tasks, pollers and handles.
LoopTyped(u, ps, hd) == u \in Seq(LoopTask) /\ ps \in Seq(Pollers) /\ hd \in [Handle -> Owner]

\* A poller is created: its object is new.
LEMMA PollerCreated ==
    ASSUME NEW u, NEW ps, NEW hd, LoopTyped(u, ps, hd), NEW retired \in SUBSET Pollfn,
           Owns(u, ps, hd, retired), NEW h \in Handle, hd[h] = R!Empty,
           NEW fn \in Pollfn, \A g \in Handle : hd[g].fn # fn, fn \notin retired,
           NEW hd2, hd2 = [hd EXCEPT ![h] = [fn |-> fn, registering |-> TRUE]],
           NEW u2, u2 = Append(u, R!TaskFor("register", h))
    PROVE  LoopTyped(u2, ps, hd2) /\ Owns(u2, ps, hd2, retired)
<1>1. /\ hd2 \in [Handle -> Owner] /\ hd2[h].fn = fn /\ hd2[h].registering = TRUE
      /\ \A g \in Handle \ {h} : hd2[g] = hd[g]
      /\ hd[h].fn = Null /\ hd[h].registering = FALSE
  BY DEF LoopTyped, Owner, R!Empty
<1>2. /\ R!TaskFor("register", h) \in LoopTask /\ R!TaskFor("register", h).kind = "register"
      /\ h # Null /\ fn # Null /\ Null \notin Pollfn
  BY ReactorAssumption DEF R!TaskFor, LoopTask
<1>3. Registering(hd2) = Registering(hd) \cup {h} /\ h \notin Registering(hd)
  BY <1>1 DEF Registering
<1>4. Registered(hd2) = Registered(hd)
  BY <1>1, <1>2 DEF Registered
<1>5. u \in Seq(LoopTask) /\ u2 \in Seq(LoopTask)
  BY <1>2 DEF LoopTyped
<1>6. Holds(u2, "register", Registering(hd2))
  <2>1. Holds(u, "register", Registering(hd))
    BY DEF Owns
  <2>2. Holds(Append(u, R!TaskFor("register", h)), "register", Registering(hd) \cup {h})
    BY <1>2, <1>3, <1>5, <2>1, HoldsMore, Zenon
  <2> QED BY <1>3, <2>2
<1>7. Holds(u2, "deregister", retired)
  BY <1>2, <1>5, HoldsOther DEF Owns
<1>8. /\ \A g, k \in Handle : hd2[g].fn = hd2[k].fn /\ hd2[g].fn # Null => g = k
      /\ \A g \in Handle : hd2[g].registering => hd2[g].fn # Null
      /\ \A g \in Handle : hd2[g].fn \notin retired
  BY <1>1, <1>2 DEF Owns
<1> QED BY <1>1, <1>4, <1>5, <1>6, <1>7, <1>8 DEF Owns, LoopTyped

\* A poller moves to another object, and its task is told.
LEMMA PollerMoved ==
    ASSUME NEW u, LoopTyped(u, pollers, handle), NEW retired \in SUBSET Pollfn,
           Owns(u, pollers, handle, retired), NEW h \in Handle, NEW to \in Handle, R!Move(u, h, to)
    PROVE  /\ LoopTyped(tasks', pollers', handle') /\ pollers' = pollers
           /\ Owns(tasks', pollers', handle', retired)
<1>1. /\ handle[h].fn # Null /\ handle[to] = R!Empty /\ pollers' = pollers
      /\ handle' = [handle EXCEPT ![h] = R!Empty, ![to] = handle[h]]
      /\ handle[h].registering => tasks' = R!Retarget(u, h, to)
      /\ ~handle[h].registering => tasks' = u
  BY DEF R!Move
<1>2. handle[to].fn = Null /\ handle[to].registering = FALSE /\ h # to /\ handle[h] \in Owner
  BY <1>1 DEF LoopTyped, R!Empty
<1>3. /\ handle' \in [Handle -> Owner] /\ handle'[h] = R!Empty /\ handle'[to] = handle[h]
      /\ \A g \in Handle \ {h, to} : handle'[g] = handle[g]
  BY <1>1, <1>2 DEF LoopTyped, Owner, R!Empty
<1>4. handle'[h].fn = Null /\ handle'[h].registering = FALSE /\ Null \notin Pollfn /\ Null \notin Handle
  BY <1>3, ReactorAssumption DEF R!Empty
<1>5. Registered(handle') = Registered(handle)
  <2>1. ASSUME NEW fn \in Pollfn, NEW g \in Handle, handle[g].fn = fn, ~handle[g].registering
        PROVE  \E k \in Handle : handle'[k].fn = fn /\ ~handle'[k].registering
    BY <1>2, <1>3, <1>4, <2>1
  <2>2. ASSUME NEW fn \in Pollfn, NEW g \in Handle, handle'[g].fn = fn, ~handle'[g].registering
        PROVE  \E k \in Handle : handle[k].fn = fn /\ ~handle[k].registering
    BY <1>2, <1>3, <1>4, <2>2
  <2> QED BY <2>1, <2>2 DEF Registered
<1>6. u \in Seq(LoopTask) /\ Holds(u, "register", Registering(handle)) /\ Holds(u, "deregister", retired)
  BY DEF Owns, LoopTyped
<1>7. tasks' \in Seq(LoopTask) /\ Holds(tasks', "register", Registering(handle')) /\ Holds(tasks', "deregister", retired)
  <2>1. CASE handle[h].registering
    <3>1. /\ Registering(handle') = (Registering(handle) \ {h}) \cup {to}
          /\ h \in Registering(handle) /\ to \notin Registering(handle) /\ Null \notin Registering(handle)
      BY <1>1, <1>2, <1>3, <1>4, <2>1 DEF Registering, Owns
    <3>2. h # Null /\ to # Null /\ to \in Handle \cup {Null} /\ tasks' = R!Retarget(u, h, to)
      BY <1>1, <1>4, <2>1
    <3>3. R!Retarget(u, h, to) \in Seq(LoopTask) /\ Holds(R!Retarget(u, h, to), "deregister", retired)
      BY <1>2, <1>6, <3>2, HoldsRetarget, Zenon
    <3>4. Holds(R!Retarget(u, h, to), "register", (Registering(handle) \ {h}) \cup {to})
      BY <1>2, <1>6, <3>1, <3>2, HoldsRetarget, Zenon
    <3> QED BY <3>1, <3>2, <3>3, <3>4
  <2>2. CASE ~handle[h].registering
    <3>1. Registering(handle') = Registering(handle)
      BY <1>2, <1>3, <1>4, <2>2 DEF Registering
    <3> QED BY <1>1, <1>6, <2>2, <3>1
  <2> QED BY <2>1, <2>2
<1>8. /\ \A g, k \in Handle : handle'[g].fn = handle'[k].fn /\ handle'[g].fn # Null => g = k
      /\ \A g \in Handle : handle'[g].registering => handle'[g].fn # Null
      /\ \A g \in Handle : handle'[g].fn \notin retired
  BY <1>2, <1>3, <1>4 DEF Owns
<1> QED BY <1>1, <1>3, <1>5, <1>7, <1>8 DEF Owns, LoopTyped

\* A poller that is not registered yet is destroyed: its task will do nothing.
LEMMA PollerCancelled ==
    ASSUME NEW u, NEW ps, NEW hd, LoopTyped(u, ps, hd), NEW retired \in SUBSET Pollfn,
           Owns(u, ps, hd, retired), NEW h \in Handle, hd[h].registering,
           NEW hd2, hd2 = [hd EXCEPT ![h] = R!Empty],
           NEW u2, u2 = R!Retarget(u, h, Null)
    PROVE  LoopTyped(u2, ps, hd2) /\ Owns(u2, ps, hd2, retired)
<1>1. /\ hd2 \in [Handle -> Owner] /\ hd2[h] = R!Empty
      /\ \A g \in Handle \ {h} : hd2[g] = hd[g]
  BY DEF LoopTyped, Owner, R!Empty
<1>2. hd2[h].fn = Null /\ hd2[h].registering = FALSE /\ Null \notin Pollfn /\ Null \notin Handle
  BY <1>1, ReactorAssumption DEF R!Empty
<1>3. Registered(hd2) = Registered(hd)
  BY <1>1, <1>2 DEF Registered
<1>4. Registering(hd2) = Registering(hd) \ {h} /\ Null \notin Registering(hd)
  BY <1>1, <1>2 DEF Registering
<1>5. u \in Seq(LoopTask) /\ Holds(u, "register", Registering(hd)) /\ Holds(u, "deregister", retired)
  BY DEF Owns, LoopTyped
<1>6. u2 \in Seq(LoopTask) /\ Holds(u2, "register", Registering(hd2)) /\ Holds(u2, "deregister", retired)
  <2>1. h # Null /\ Null \in Handle \cup {Null}
    BY <1>2
  <2> QED BY <1>4, <1>5, <2>1, HoldsRetarget
<1>7. /\ \A g, k \in Handle : hd2[g].fn = hd2[k].fn /\ hd2[g].fn # Null => g = k
      /\ \A g \in Handle : hd2[g].registering => hd2[g].fn # Null
      /\ \A g \in Handle : hd2[g].fn \notin retired
  <2>1. Null \notin retired
    BY <1>2
  <2> QED BY <1>1, <1>2, <2>1 DEF Owns
<1> QED BY <1>1, <1>3, <1>6, <1>7 DEF Owns, LoopTyped

\* A registered one is destroyed: an object that a task owns takes its place.
LEMMA PollerReplaced ==
    ASSUME NEW u, LoopTyped(u, pollers, handle), NEW retired \in SUBSET Pollfn,
           Owns(u, pollers, handle, retired), NEW h \in Handle, handle[h].fn # Null, ~handle[h].registering,
           NEW dummy \in Pollfn, \A g \in Handle : handle[g].fn # dummy,
           \A i \in DOMAIN pollers : pollers[i] # dummy,
           handle' = [handle EXCEPT ![h] = R!Empty],
           tasks' = Append(u, R!TaskFor("deregister", dummy)),
           pollers' = [i \in DOMAIN pollers |-> IF pollers[i] = handle[h].fn THEN dummy ELSE pollers[i]]
    PROVE  /\ LoopTyped(tasks', pollers', handle') /\ Len(pollers') = Len(pollers)
           /\ Owns(tasks', pollers', handle', retired \cup {dummy})
<1> DEFINE members == Registered(handle) \cup retired \cup {SignalFn}
<1>1. /\ handle' \in [Handle -> Owner] /\ handle'[h] = R!Empty
      /\ \A g \in Handle \ {h} : handle'[g] = handle[g]
  BY DEF LoopTyped, Owner, R!Empty
<1>2. /\ handle'[h].fn = Null /\ handle'[h].registering = FALSE /\ Null \notin Pollfn /\ dummy # Null
      /\ SignalFn \notin Pollfn
  BY <1>1, ReactorAssumption DEF R!Empty
<1>3. handle[h].fn \in Registered(handle) /\ handle[h].fn \in Pollfn /\ handle[h].fn \notin retired /\ handle[h].fn # SignalFn
  <2>1. handle[h].fn \in Pollfn
    BY DEF LoopTyped, Owner
  <2> QED BY <1>2, <2>1 DEF Registered, Owns
<1>4. Registered(handle') = Registered(handle) \ {handle[h].fn}
  <2>1. ASSUME NEW fn \in Pollfn
        PROVE  (\E g \in Handle : handle'[g].fn = fn /\ ~handle'[g].registering)
                 <=> fn # handle[h].fn /\ \E g \in Handle : handle[g].fn = fn /\ ~handle[g].registering
    BY <1>1, <1>2, <1>3 DEF Owns
  <2> QED BY <2>1 DEF Registered
<1>5. Registering(handle') = Registering(handle)
  BY <1>1, <1>2 DEF Registering
<1>6. Line(pollers, members) /\ pollers \in Seq(Pollers) /\ Len(pollers) >= 1 /\ pollers[1] = SignalFn
  BY DEF Owns, LoopTyped
<1>7. dummy \notin members
  <2>1. \A i \in 1 .. Len(pollers) : pollers[i] # dummy
    BY <1>6
  <2> QED BY <1>6, <2>1 DEF Line
<1>8. handle[h].fn \in members /\ dummy \in Pollers
  BY <1>3 DEF Pollers
<1>9. (members \ {handle[h].fn}) \cup {dummy} = Registered(handle') \cup (retired \cup {dummy}) \cup {SignalFn}
  BY <1>3, <1>4
<1>10. dummy \notin retired
  BY <1>7
<1> HIDE DEF members
<1>11. /\ pollers' \in Seq(Pollers) /\ Len(pollers') = Len(pollers)
       /\ \A i \in 1 .. Len(pollers) :
             (pollers[i] = handle[h].fn /\ pollers'[i] = dummy) \/ (pollers[i] # handle[h].fn /\ pollers'[i] = pollers[i])
  <2>1. \A i \in 1 .. Len(pollers) : pollers[i] \in Pollers
    BY <1>6
  <2>2. DOMAIN pollers = 1 .. Len(pollers)
    BY <1>6
  <2> QED BY <1>8, <2>1, <2>2
<1>12. Line(pollers', (members \ {handle[h].fn}) \cup {dummy})
  <2>1. dummy \in Pollers \ members
    BY <1>7, <1>8
  <2> QED BY <1>6, <1>8, <1>11, <2>1, LineReplaced
<1>13. Len(pollers') >= 1 /\ pollers'[1] = SignalFn
  BY <1>3, <1>6, <1>11
<1>14. /\ R!TaskFor("deregister", dummy) \in LoopTask
       /\ R!TaskFor("deregister", dummy).kind = "deregister"
  BY DEF R!TaskFor, LoopTask
<1>15. u \in Seq(LoopTask) /\ tasks' \in Seq(LoopTask)
  BY <1>14 DEF LoopTyped
<1>16. Holds(tasks', "deregister", retired \cup {dummy})
  BY <1>2, <1>10, <1>14, <1>15, HoldsMore DEF Owns
<1>17. Holds(tasks', "register", Registering(handle'))
  BY <1>5, <1>14, <1>15, HoldsOther DEF Owns
<1>18. /\ \A g, k \in Handle : handle'[g].fn = handle'[k].fn /\ handle'[g].fn # Null => g = k
       /\ \A g \in Handle : handle'[g].registering => handle'[g].fn # Null
       /\ \A g \in Handle : handle'[g].fn \notin retired \cup {dummy}
  <2>1. Null \notin retired
    BY <1>2
  <2> QED BY <1>1, <1>2, <2>1 DEF Owns
<1> QED BY <1>1, <1>9, <1>12, <1>13, <1>11, <1>15, <1>16, <1>17, <1>18 DEF Owns, LoopTyped

\* What the user does.
LEMMA UserCodeOwns ==
    ASSUME NEW u, LoopTyped(u, pollers, handle), NEW retired \in SUBSET Pollfn,
           Owns(u, pollers, handle, retired), R!UserCode(u)
    PROVE  /\ LoopTyped(tasks', pollers', handle') /\ Len(pollers') = Len(pollers)
           /\ \E retired2 \in SUBSET Pollfn : Owns(tasks', pollers', handle', retired2)
<1>1. ASSUME NEW fn \in R!Fresh
      PROVE  /\ fn \in Pollfn /\ fn \notin retired
             /\ \A g \in Handle : handle[g].fn # fn
             /\ \A i \in DOMAIN pollers : pollers[i] # fn
  <2>1. /\ fn \in Pollfn /\ \A g \in Handle : handle[g].fn # fn
        /\ \A i \in DOMAIN pollers : pollers[i] # fn
    BY DEF R!Fresh, R!Used
  <2>2. DOMAIN pollers = 1 .. Len(pollers)
    BY DEF LoopTyped
  <2> QED BY <2>1, <2>2 DEF Owns, Line
<1>2. ASSUME NEW h \in Handle, R!Create(u, h)
      PROVE  /\ LoopTyped(tasks', pollers', handle') /\ pollers' = pollers
             /\ Owns(tasks', pollers', handle', retired)
  <2>1. PICK fn \in R!Fresh : handle' = [handle EXCEPT ![h] = [fn |-> fn, registering |-> TRUE]]
    BY <1>2 DEF R!Create
  <2>2. handle[h] = R!Empty /\ tasks' = Append(u, R!TaskFor("register", h)) /\ pollers' = pollers
    BY <1>2 DEF R!Create
  <2>3. LoopTyped(tasks', pollers, handle') /\ Owns(tasks', pollers, handle', retired)
    BY <1>1, <2>1, <2>2, PollerCreated
  <2> QED BY <2>2, <2>3
<1>3. ASSUME NEW h \in Handle, NEW to \in Handle, R!Move(u, h, to)
      PROVE  /\ LoopTyped(tasks', pollers', handle') /\ pollers' = pollers
             /\ Owns(tasks', pollers', handle', retired)
  BY <1>3, PollerMoved
<1>4. ASSUME NEW h \in Handle, R!Destroy(u, h)
      PROVE  /\ LoopTyped(tasks', pollers', handle') /\ Len(pollers') = Len(pollers)
             /\ \E retired2 \in SUBSET Pollfn : Owns(tasks', pollers', handle', retired2)
  <2>1. handle[h].fn # Null /\ handle' = [handle EXCEPT ![h] = R!Empty]
    BY <1>4 DEF R!Destroy
  <2>2. CASE handle[h].registering
    <3>1. tasks' = R!Retarget(u, h, Null) /\ pollers' = pollers
      BY <1>4, <2>2 DEF R!Destroy
    <3>2. LoopTyped(tasks', pollers, handle') /\ Owns(tasks', pollers, handle', retired)
      BY <2>1, <2>2, <3>1, PollerCancelled
    <3> QED BY <3>1, <3>2
  <2>3. CASE ~handle[h].registering
    <3>1. PICK dummy \in R!Fresh :
             /\ tasks' = Append(u, R!TaskFor("deregister", dummy))
             /\ pollers' = [i \in DOMAIN pollers |-> IF pollers[i] = handle[h].fn THEN dummy ELSE pollers[i]]
      BY <1>4, <2>3 DEF R!Destroy
    <3>2. /\ LoopTyped(tasks', pollers', handle') /\ Len(pollers') = Len(pollers)
          /\ Owns(tasks', pollers', handle', retired \cup {dummy})
      <4>1. /\ dummy \in Pollfn /\ \A g \in Handle : handle[g].fn # dummy
            /\ \A i \in DOMAIN pollers : pollers[i] # dummy
        BY <1>1
      <4> QED BY <2>1, <2>3, <3>1, <4>1, PollerReplaced
    <3> QED BY <1>1, <3>2
  <2> QED BY <2>2, <2>3
<1>5. ASSUME tasks' = Append(u, R!TaskFor("user", Null)), UNCHANGED <<pollers, handle>>
      PROVE  LoopTyped(tasks', pollers', handle') /\ Owns(tasks', pollers', handle', retired)
  <2>1. R!TaskFor("user", Null) \in LoopTask /\ R!TaskFor("user", Null).kind = "user"
    BY DEF R!TaskFor, LoopTask
  <2>2. u \in Seq(LoopTask) /\ tasks' \in Seq(LoopTask)
    BY <1>5, <2>1 DEF LoopTyped
  <2>3. Holds(tasks', "register", Registering(handle)) /\ Holds(tasks', "deregister", retired)
    BY <1>5, <2>1, <2>2, HoldsOther DEF Owns
  <2> QED BY <1>5, <2>2, <2>3 DEF LoopTyped, Owns
<1> QED BY <1>2, <1>3, <1>4, <1>5, Zenon DEF R!UserCode

\* Where the loop is, and what is in interrupt mode there.
LoopPlace ==
    /\ at \in {"tasks", "poll", "entering", "asleep", "leaving"}
    /\ at = "tasks" => index = 0
    /\ at \in {"poll", "entering"} => index \in 1 .. Len(pollers) + 1
    /\ at = "asleep" => index = Len(pollers) + 1
    /\ at = "leaving" => index \in 0 .. Len(pollers)
    /\ at \in {"tasks", "poll"} => interruptible = {}
    /\ at \in {"entering", "asleep"} => interruptible = {pollers[i] : i \in 1 .. index - 1}
    /\ at = "leaving" => interruptible = {pollers[i] : i \in 1 .. index}

\* The signal is blocked while its poller is in interrupt mode, and was looked
\* for since; the loop goes to sleep without tasks.
LoopSleep ==
    /\ blocked <=> SignalFn \in interruptible
    /\ at \in {"entering", "asleep"} => tasks = << >>
    /\ at \in {"entering", "asleep"} /\ blocked => ~signalled

LoopFlags == worked \in BOOLEAN /\ signalled \in BOOLEAN /\ blocked \in BOOLEAN /\ raised \in BOOLEAN

LoopInv ==
    /\ LoopTyped(tasks, pollers, handle)
    /\ \E retired \in SUBSET Pollfn : Owns(tasks, pollers, handle, retired)
    /\ LoopPlace /\ LoopSleep /\ LoopFlags

\* The poller of signals is the first, and no other is that one.
LEMMA FirstPoller ==
    ASSUME LoopInv
    PROVE  /\ pollers \in Seq(Pollers) /\ Len(pollers) \in Nat \ {0} /\ pollers[1] = SignalFn
           /\ \A i, j \in 1 .. Len(pollers) : pollers[i] = pollers[j] => i = j
BY DEF LoopInv, LoopTyped, Owns, Line

\* A task of the user runs.
LEMMA RunUserStep == ASSUME LoopInv, R!RunUser PROVE LoopInv'
<1>1. PICK retired \in SUBSET Pollfn : Owns(tasks, pollers, handle, retired)
  BY DEF LoopInv
<1>2. /\ at = "tasks" /\ tasks # << >> /\ Head(tasks).kind = "user" /\ R!UserCode(Tail(tasks))
      /\ UNCHANGED <<at, index, worked, interruptible, signalled, blocked, raised>>
  BY DEF R!RunUser, R!Loop, R!Signal
<1>3. tasks \in Seq(LoopTask) /\ Null \notin retired /\ Null \notin Registering(handle)
  BY ReactorAssumption DEF LoopInv, LoopTyped, Registering
<1>4. /\ Tail(tasks) \in Seq(LoopTask)
      /\ Holds(Tail(tasks), "register", Registering(handle))
      /\ Holds(Tail(tasks), "deregister", retired)
  BY <1>1, <1>2, <1>3, HoldsRest DEF Owns
<1>5. LoopTyped(Tail(tasks), pollers, handle) /\ Owns(Tail(tasks), pollers, handle, retired)
  BY <1>1, <1>4 DEF LoopInv, LoopTyped, Owns
<1>6. /\ LoopTyped(tasks', pollers', handle') /\ Len(pollers') = Len(pollers)
      /\ \E retired2 \in SUBSET Pollfn : Owns(tasks', pollers', handle', retired2)
  BY <1>2, <1>5, UserCodeOwns
<1>7. LoopPlace' /\ LoopSleep' /\ LoopFlags'
  BY <1>2, <1>6 DEF LoopInv, LoopPlace, LoopSleep, LoopFlags
<1> QED BY <1>6, <1>7 DEF LoopInv

\* registration_task::run.
LEMMA RunRegistrationStep == ASSUME LoopInv, R!RunRegistration PROVE LoopInv'
<1>1. PICK retired \in SUBSET Pollfn : Owns(tasks, pollers, handle, retired)
  BY DEF LoopInv
<1>2. PICK h : h = Head(tasks).of
  OBVIOUS
<1>3. /\ at = "tasks" /\ tasks # << >> /\ Head(tasks).kind = "register" /\ tasks' = Tail(tasks)
      /\ UNCHANGED <<at, index, worked, interruptible, signalled, blocked, raised>>
      /\ h = Null => pollers' = pollers /\ handle' = handle
      /\ h # Null => /\ pollers' = Append(pollers, handle[h].fn)
                     /\ handle' = [handle EXCEPT ![h].registering = FALSE]
  BY <1>2 DEF R!RunRegistration, R!Loop, R!Signal
<1>4. /\ tasks \in Seq(LoopTask) /\ Null \notin retired /\ Null \notin Registering(handle)
      /\ pollers \in Seq(Pollers) /\ handle \in [Handle -> Owner] /\ Null \notin Pollfn
  BY ReactorAssumption DEF LoopInv, LoopTyped, Registering
<1>5. /\ tasks' \in Seq(LoopTask)
      /\ h = Null \/ h \in Registering(handle)
      /\ h = Null => Holds(tasks', "register", Registering(handle))
      /\ h # Null => Holds(tasks', "register", Registering(handle) \ {h})
      /\ Holds(tasks', "deregister", retired)
  BY <1>1, <1>2, <1>3, <1>4, HoldsRest DEF Owns
<1>6. LoopPlace' /\ LoopSleep' /\ LoopFlags'
  BY <1>3 DEF LoopInv, LoopPlace, LoopSleep, LoopFlags
<1>7. CASE h = Null
  <2>1. LoopTyped(tasks', pollers', handle') /\ Owns(tasks', pollers', handle', retired)
    BY <1>1, <1>3, <1>4, <1>5, <1>7 DEF LoopTyped, Owns
  <2> QED BY <1>6, <2>1 DEF LoopInv
<1>8. CASE h # Null
  <2>1. h \in Handle /\ handle[h].registering /\ handle[h].fn # Null /\ handle[h].fn \in Pollfn
    BY <1>1, <1>4, <1>5, <1>8 DEF Registering, Owns, Owner
  <2>2. /\ handle' \in [Handle -> Owner] /\ handle'[h].fn = handle[h].fn /\ handle'[h].registering = FALSE
        /\ \A g \in Handle \ {h} : handle'[g] = handle[g]
    BY <1>3, <1>4, <1>8, <2>1 DEF Owner
  <2>3. Registering(handle') = Registering(handle) \ {h}
    BY <2>1, <2>2 DEF Registering
  <2>4. Registered(handle') = Registered(handle) \cup {handle[h].fn}
    BY <2>1, <2>2 DEF Registered
  <2>5. handle[h].fn \notin Registered(handle) \cup retired \cup {SignalFn}
    BY <1>1, <2>1, ReactorAssumption DEF Registered, Owns
  <2>6. pollers' \in Seq(Pollers) /\ Line(pollers', Registered(handle') \cup retired \cup {SignalFn})
    <3>1. handle[h].fn \in Pollers \ (Registered(handle) \cup retired \cup {SignalFn})
      BY <2>1, <2>5 DEF Pollers
    <3>2. Line(pollers, Registered(handle) \cup retired \cup {SignalFn})
      BY <1>1 DEF Owns
    <3>3. /\ pollers' \in Seq(Pollers)
          /\ Line(pollers', (Registered(handle) \cup retired \cup {SignalFn}) \cup {handle[h].fn})
      <4>1. PICK fn : fn = handle[h].fn
        OBVIOUS
      <4>2. PICK members : members = Registered(handle) \cup retired \cup {SignalFn}
        OBVIOUS
      <4>3. fn \in Pollers \ members /\ Line(pollers, members) /\ pollers' = Append(pollers, fn)
        BY <1>3, <1>8, <3>1, <3>2, <4>1, <4>2
      <4>4. pollers' \in Seq(Pollers) /\ Line(pollers', members \cup {fn})
        BY <1>4, <4>3, LineGrows
      <4> QED BY <4>1, <4>2, <4>4
    <3>4. (Registered(handle) \cup retired \cup {SignalFn}) \cup {handle[h].fn}
             = Registered(handle') \cup retired \cup {SignalFn}
      BY <2>4
    <3> QED BY <3>3, <3>4
  <2>7. Len(pollers') >= 1 /\ pollers'[1] = SignalFn
    BY <1>3, <1>4, <1>8, FirstPoller
  <2>8. /\ \A g, k \in Handle : handle'[g].fn = handle'[k].fn /\ handle'[g].fn # Null => g = k
        /\ \A g \in Handle : handle'[g].registering => handle'[g].fn # Null
        /\ \A g \in Handle : handle'[g].fn \notin retired
    BY <1>1, <2>1, <2>2 DEF Owns
  <2>9. LoopTyped(tasks', pollers', handle') /\ Owns(tasks', pollers', handle', retired)
    BY <1>5, <1>8, <2>2, <2>3, <2>6, <2>7, <2>8 DEF LoopTyped, Owns
  <2> QED BY <1>6, <2>9 DEF LoopInv
<1> QED BY <1>7, <1>8

\* deregistration_task::run.
LEMMA RunDeregistrationStep == ASSUME LoopInv, R!RunDeregistration PROVE LoopInv'
<1>1. PICK retired \in SUBSET Pollfn : Owns(tasks, pollers, handle, retired)
  BY DEF LoopInv
<1>2. PICK x : x = Head(tasks).of
  OBVIOUS
<1>3. /\ at = "tasks" /\ tasks # << >> /\ Head(tasks).kind = "deregister" /\ tasks' = Tail(tasks)
      /\ UNCHANGED <<at, index, worked, handle, interruptible, signalled, blocked, raised>>
  BY DEF R!RunDeregistration, R!Loop, R!Signal
<1>4. PICK n \in DOMAIN pollers :
         /\ pollers[n] = x
         /\ pollers' = SubSeq(pollers, 1, n - 1) \o SubSeq(pollers, n + 1, Len(pollers))
  BY <1>2 DEF R!RunDeregistration
<1>5. /\ tasks \in Seq(LoopTask) /\ Null \notin retired /\ Null \notin Registering(handle)
      /\ pollers \in Seq(Pollers) /\ handle \in [Handle -> Owner] /\ Null \notin Pollers
      /\ n \in 1 .. Len(pollers)
  BY <1>4, ReactorAssumption DEF LoopInv, LoopTyped, Registering, Pollers
<1>6. x # Null
  BY <1>4, <1>5
<1>7. /\ tasks' \in Seq(LoopTask) /\ x \in retired
      /\ Holds(tasks', "register", Registering(handle))
      /\ Holds(tasks', "deregister", retired \ {x})
  BY <1>1, <1>2, <1>3, <1>5, <1>6, HoldsRest DEF Owns
<1>8. LoopPlace' /\ LoopSleep' /\ LoopFlags'
  BY <1>3 DEF LoopInv, LoopPlace, LoopSleep, LoopFlags
<1>9. x \notin Registered(handle) /\ x # SignalFn
  BY <1>1, <1>7, ReactorAssumption DEF Registered, Owns
<1>10. pollers' \in Seq(Pollers) /\ Line(pollers', Registered(handle) \cup (retired \ {x}) \cup {SignalFn})
  <2>1. Line(pollers, Registered(handle) \cup retired \cup {SignalFn})
    BY <1>1 DEF Owns
  <2>2. /\ pollers' \in Seq(Pollers)
        /\ Line(pollers', (Registered(handle) \cup retired \cup {SignalFn}) \ {x})
    BY <1>4, <1>5, <2>1, LineErased
  <2>3. (Registered(handle) \cup retired \cup {SignalFn}) \ {x}
           = Registered(handle) \cup (retired \ {x}) \cup {SignalFn}
    BY <1>9
  <2> QED BY <2>2, <2>3
<1>11. Len(pollers') >= 1 /\ pollers'[1] = SignalFn
  <2>1. n # 1 /\ Len(pollers) \in Nat /\ pollers[1] = SignalFn
    BY <1>4, <1>5, <1>9, FirstPoller
  <2> QED BY <1>4, <1>5, <2>1, SMTT(40)
<1>12. LoopTyped(tasks', pollers', handle') /\ Owns(tasks', pollers', handle', retired \ {x})
  BY <1>1, <1>3, <1>5, <1>7, <1>10, <1>11 DEF LoopTyped, Owns
<1> QED BY <1>8, <1>12 DEF LoopInv

\* What a step leaves alone.
LEMMA ObjectsKept ==
    ASSUME LoopInv, UNCHANGED <<tasks, pollers, handle>>
    PROVE  /\ LoopTyped(tasks', pollers', handle')
           /\ \E retired \in SUBSET Pollfn : Owns(tasks', pollers', handle', retired)
BY DEF LoopInv

\* The handler of the signal may do what the user does.
LEMMA PollSignalOwns ==
    ASSUME LoopInv, R!PollSignal
    PROVE  /\ LoopTyped(tasks', pollers', handle') /\ Len(pollers') = Len(pollers)
           /\ \E retired \in SUBSET Pollfn : Owns(tasks', pollers', handle', retired)
           /\ signalled' = FALSE
           /\ ~signalled => UNCHANGED <<tasks, pollers, handle>>
<1>1. CASE signalled
  <2>1. signalled' = FALSE /\ R!UserCode(tasks)
    BY <1>1 DEF R!PollSignal
  <2>2. PICK retired \in SUBSET Pollfn : Owns(tasks, pollers, handle, retired)
    BY DEF LoopInv
  <2>3. /\ LoopTyped(tasks', pollers', handle') /\ Len(pollers') = Len(pollers)
        /\ \E retired2 \in SUBSET Pollfn : Owns(tasks', pollers', handle', retired2)
    BY <2>1, <2>2, UserCodeOwns DEF LoopInv
  <2> QED BY <1>1, <2>1, <2>3
<1>2. CASE ~signalled
  <2>1. UNCHANGED <<signalled, tasks, pollers, handle>>
    BY <1>2 DEF R!PollSignal
  <2>2. signalled = FALSE
    BY <1>2 DEF LoopInv, LoopFlags
  <2> QED BY <2>1, <2>2, ObjectsKept
<1> QED BY <1>1, <1>2

\* One poller of poll_once.
LEMMA PollStep == ASSUME LoopInv, R!Poll PROVE LoopInv'
<1>1. /\ at = "poll" /\ index <= Len(pollers) /\ index' = index + 1
      /\ UNCHANGED <<at, interruptible, blocked, raised>>
  BY DEF R!Poll
<1>2. index \in 1 .. Len(pollers) /\ interruptible = {}
  BY <1>1, FirstPoller DEF LoopInv, LoopPlace
<1>3. /\ LoopTyped(tasks', pollers', handle') /\ Len(pollers') = Len(pollers)
      /\ \E retired \in SUBSET Pollfn : Owns(tasks', pollers', handle', retired)
      /\ worked' \in BOOLEAN /\ signalled' \in BOOLEAN
  <2>1. CASE pollers[index] = SignalFn
    <3>1. R!PollSignal /\ worked' = (worked \/ signalled)
      BY <2>1 DEF R!Poll
    <3>2. worked' \in BOOLEAN
      BY <3>1 DEF LoopInv, LoopFlags
    <3> QED BY <3>1, <3>2, PollSignalOwns
  <2>2. CASE pollers[index] # SignalFn /\ \E h \in Handle : handle[h].fn = pollers[index]
    <3>1. signalled' = signalled /\ R!UserCode(tasks) /\ worked' \in {worked, TRUE}
      BY <2>2 DEF R!Poll
    <3>2. PICK retired \in SUBSET Pollfn : Owns(tasks, pollers, handle, retired)
      BY DEF LoopInv
    <3>3. /\ LoopTyped(tasks', pollers', handle') /\ Len(pollers') = Len(pollers)
          /\ \E retired2 \in SUBSET Pollfn : Owns(tasks', pollers', handle', retired2)
      BY <3>1, <3>2, UserCodeOwns DEF LoopInv
    <3>4. worked' \in BOOLEAN /\ signalled' \in BOOLEAN
      BY <3>1 DEF LoopInv, LoopFlags
    <3> QED BY <3>3, <3>4
  <2>3. CASE pollers[index] # SignalFn /\ ~(\E h \in Handle : handle[h].fn = pollers[index])
    <3>1. UNCHANGED <<signalled, tasks, pollers, handle, worked>>
      BY <2>3 DEF R!Poll
    <3>2. worked' \in BOOLEAN /\ signalled' \in BOOLEAN
      BY <3>1 DEF LoopInv, LoopFlags
    <3> QED BY <3>1, <3>2, ObjectsKept
  <2> QED BY <2>1, <2>2, <2>3
<1>4. LoopPlace'
  <2>1. index' \in 1 .. Len(pollers') + 1
    BY <1>1, <1>2, <1>3, FirstPoller
  <2> QED BY <1>1, <1>2, <2>1 DEF LoopPlace
<1>5. LoopSleep' /\ LoopFlags'
  BY <1>1, <1>3 DEF LoopInv, LoopSleep, LoopFlags
<1> QED BY <1>3, <1>4, <1>5 DEF LoopInv

\* The loop begins and ends a round of polling.
LEMMA StartPollStep == ASSUME LoopInv, R!StartPoll PROVE LoopInv'
<1>1. /\ at = "tasks" /\ at' = "poll" /\ index' = 1 /\ worked' = FALSE
      /\ UNCHANGED <<pollers, tasks, handle, interruptible, signalled, blocked, raised>>
  BY DEF R!StartPoll, R!Signal
<1>2. LoopPlace'
  BY <1>1, FirstPoller DEF LoopInv, LoopPlace
<1>3. LoopSleep' /\ LoopFlags'
  BY <1>1 DEF LoopInv, LoopSleep, LoopFlags
<1> QED BY <1>1, <1>2, <1>3, ObjectsKept DEF LoopInv

LEMMA EndPollStep == ASSUME LoopInv, R!EndPoll PROVE LoopInv'
<1>1. /\ at = "poll"
      /\ \/ at' = "tasks" /\ index' = 0
         \/ tasks = << >> /\ at' = "entering" /\ index' = 1
      /\ UNCHANGED <<worked, pollers, tasks, handle, interruptible, signalled, blocked, raised>>
  BY DEF R!EndPoll, R!Signal
<1>2. interruptible = {} /\ ~blocked
  BY <1>1 DEF LoopInv, LoopPlace, LoopSleep
<1>3. {pollers[i] : i \in 1 .. 1 - 1} = {}
  OBVIOUS
<1>4. LoopPlace'
  BY <1>1, <1>2, <1>3, FirstPoller DEF LoopPlace
<1>5. LoopSleep' /\ LoopFlags'
  BY <1>1, <1>2 DEF LoopInv, LoopSleep, LoopFlags
<1> QED BY <1>1, <1>4, <1>5, ObjectsKept DEF LoopInv

\* sleep(): one poller more enters interrupt mode.
LEMMA OneMore ==
    ASSUME NEW s, NEW n \in Nat \ {0}
    PROVE  /\ {s[i] : i \in 1 .. n - 1} \cup {s[n]} = {s[i] : i \in 1 .. n}
           /\ (n + 1) - 1 = n
OBVIOUS

\* signal_pollfn::try_enter_interrupt_mode.
LEMMA EnterSignalStep == ASSUME LoopInv, R!EnterSignal PROVE LoopInv'
<1>1. /\ at = "entering" /\ index <= Len(pollers) /\ pollers[index] = SignalFn /\ R!PollSignal
      /\ signalled => /\ at' = "leaving" /\ index' = index - 1
                      /\ interruptible' = interruptible /\ blocked' = blocked
      /\ ~signalled => /\ interruptible' = interruptible \cup {pollers[index]}
                       /\ index' = index + 1 /\ at' = at /\ blocked' = TRUE
      /\ worked' = worked /\ raised' = raised
  BY DEF R!EnterSignal, R!Refused, R!Entered
<1>2. index \in 1 .. Len(pollers) + 1 /\ interruptible = {pollers[i] : i \in 1 .. index - 1}
  BY <1>1 DEF LoopInv, LoopPlace
<1>3. index = 1
  BY <1>1, <1>2, FirstPoller
<1>4. interruptible = {} /\ ~blocked
  <2>1. {pollers[i] : i \in 1 .. 1 - 1} = {}
    OBVIOUS
  <2> QED BY <1>2, <1>3, <2>1 DEF LoopInv, LoopSleep
<1>5. /\ LoopTyped(tasks', pollers', handle') /\ Len(pollers') = Len(pollers)
      /\ \E retired \in SUBSET Pollfn : Owns(tasks', pollers', handle', retired)
      /\ signalled' = FALSE
      /\ ~signalled => UNCHANGED <<tasks, pollers, handle>>
  BY <1>1, PollSignalOwns
<1>6. CASE signalled
  <2>1. at' = "leaving" /\ index' = 0 /\ interruptible' = {} /\ blocked' = blocked
    BY <1>1, <1>3, <1>4, <1>6
  <2>2. {pollers'[i] : i \in 1 .. 0} = {}
    OBVIOUS
  <2>3. LoopPlace'
    BY <1>5, <2>1, <2>2, FirstPoller DEF LoopPlace
  <2>4. LoopSleep' /\ LoopFlags'
    BY <1>1, <1>4, <1>5, <2>1 DEF LoopInv, LoopSleep, LoopFlags
  <2> QED BY <1>5, <2>3, <2>4 DEF LoopInv
<1>7. CASE ~signalled
  <2>1. /\ at' = "entering" /\ index' = 2 /\ interruptible' = {SignalFn} /\ blocked' = TRUE
        /\ UNCHANGED <<tasks, pollers, handle>>
    BY <1>1, <1>3, <1>4, <1>5, <1>7
  <2>2. {pollers[i] : i \in 1 .. 2 - 1} = {SignalFn}
    <3>1. \A i \in 1 .. 2 - 1 : i = 1
      OBVIOUS
    <3>2. 1 \in 1 .. 2 - 1
      OBVIOUS
    <3> QED BY <3>1, <3>2, FirstPoller
  <2>3. LoopPlace'
    BY <2>1, <2>2, FirstPoller DEF LoopPlace
  <2>4. LoopSleep' /\ LoopFlags'
    BY <1>1, <1>5, <2>1 DEF LoopInv, LoopSleep, LoopFlags
  <2> QED BY <1>5, <2>3, <2>4 DEF LoopInv
<1> QED BY <1>6, <1>7

\* try_enter_interrupt_mode of any other poller.
LEMMA EnterOtherStep == ASSUME LoopInv, R!EnterOther PROVE LoopInv'
<1>1. /\ at = "entering" /\ index <= Len(pollers) /\ pollers[index] # SignalFn
      /\ \/ at' = "leaving" /\ index' = index - 1 /\ interruptible' = interruptible
         \/ interruptible' = interruptible \cup {pollers[index]} /\ index' = index + 1 /\ at' = at
      /\ UNCHANGED <<worked, pollers, tasks, handle, signalled, blocked, raised>>
  BY DEF R!EnterOther, R!Refused, R!Entered, R!Signal
<1>2. /\ index \in 1 .. Len(pollers) /\ index \in Nat \ {0}
      /\ interruptible = {pollers[i] : i \in 1 .. index - 1}
  BY <1>1, FirstPoller DEF LoopInv, LoopPlace
<1>3. LoopPlace'
  <2>1. CASE at' = "leaving" /\ index' = index - 1 /\ interruptible' = interruptible
    <3>1. index' \in 0 .. Len(pollers')
      BY <1>1, <1>2, <2>1, FirstPoller
    <3> QED BY <1>1, <1>2, <2>1, <3>1 DEF LoopPlace
  <2>2. CASE interruptible' = interruptible \cup {pollers[index]} /\ index' = index + 1 /\ at' = at
    <3>1. index' \in 1 .. Len(pollers') + 1 /\ index' - 1 = index
      BY <1>1, <1>2, <2>2, FirstPoller
    <3>2. interruptible' = {pollers[i] : i \in 1 .. index}
      BY <1>2, <2>2, OneMore
    <3> QED BY <1>1, <2>2, <3>1, <3>2 DEF LoopPlace
  <2> QED BY <1>1, <2>1, <2>2
<1>4. SignalFn \in interruptible' <=> SignalFn \in interruptible
  BY <1>1
<1>5. LoopSleep' /\ LoopFlags'
  BY <1>1, <1>4 DEF LoopInv, LoopSleep, LoopFlags
<1> QED BY <1>1, <1>3, <1>5, ObjectsKept DEF LoopInv

\* The reactor falls asleep and wakes up.
LEMMA SleepStep == ASSUME LoopInv, R!FallAsleep \/ R!Wake PROVE LoopInv'
<1>1. CASE R!FallAsleep
  <2>1. /\ at = "entering" /\ index > Len(pollers) /\ at' = "asleep"
        /\ UNCHANGED <<index, worked, pollers, tasks, handle, interruptible, signalled, blocked, raised>>
    BY <1>1 DEF R!FallAsleep, R!Signal
  <2>2. index = Len(pollers) + 1
    BY <2>1, FirstPoller DEF LoopInv, LoopPlace
  <2>3. LoopPlace'
    BY <2>1, <2>2 DEF LoopInv, LoopPlace
  <2>4. LoopSleep' /\ LoopFlags'
    BY <2>1 DEF LoopInv, LoopSleep, LoopFlags
  <2> QED BY <2>1, <2>3, <2>4, ObjectsKept DEF LoopInv
<1>2. CASE R!Wake
  <2>1. /\ at = "asleep" /\ signalled' = (signalled \/ raised) /\ raised' = FALSE
        /\ at' = "leaving" /\ index' = Len(pollers)
        /\ UNCHANGED <<worked, pollers, tasks, handle, interruptible, blocked>>
    BY <1>2 DEF R!Wake
  <2>2. index - 1 = Len(pollers) /\ interruptible = {pollers[i] : i \in 1 .. index - 1}
    BY <2>1, FirstPoller DEF LoopInv, LoopPlace
  <2>3. LoopPlace'
    BY <2>1, <2>2, FirstPoller DEF LoopPlace
  <2>4. signalled' \in BOOLEAN
    BY <2>1 DEF LoopInv, LoopFlags
  <2>5. LoopSleep' /\ LoopFlags'
    BY <2>1, <2>4 DEF LoopInv, LoopSleep, LoopFlags
  <2> QED BY <2>1, <2>3, <2>5, ObjectsKept DEF LoopInv
<1> QED BY <1>1, <1>2

\* exit_interrupt_mode of one poller, and the way back to the tasks.
LEMMA LeaveStep == ASSUME LoopInv, R!Leave PROVE LoopInv'
<1>1. /\ at = "leaving" /\ index > 0 /\ index' = index - 1 /\ at' = at
      /\ interruptible' = interruptible \ {pollers[index]}
      /\ pollers[index] = SignalFn => /\ blocked' = FALSE /\ signalled' = (signalled \/ raised)
                                      /\ raised' = FALSE
      /\ pollers[index] # SignalFn => UNCHANGED <<signalled, blocked, raised>>
      /\ UNCHANGED <<worked, pollers, tasks, handle>>
  BY DEF R!Leave, R!Signal
<1>2. index \in 1 .. Len(pollers) /\ interruptible = {pollers[i] : i \in 1 .. index}
  BY <1>1, FirstPoller DEF LoopInv, LoopPlace
<1>3. interruptible' = {pollers[i] : i \in 1 .. index'}
  <2>1. \A i \in 1 .. index : i \in 1 .. Len(pollers) /\ (i \in 1 .. index - 1 \/ i = index)
    BY <1>2, FirstPoller
  <2>2. \A i \in 1 .. index - 1 : i \in 1 .. index /\ i # index
    BY <1>2
  <2>3. \A i \in 1 .. index - 1 : pollers[i] # pollers[index]
    BY <1>2, <2>1, <2>2, FirstPoller
  <2> QED BY <1>1, <1>2, <2>1, <2>2, <2>3
<1>4. LoopPlace'
  <2>1. index' \in 0 .. Len(pollers')
    BY <1>1, <1>2, FirstPoller
  <2> QED BY <1>1, <1>3, <2>1 DEF LoopPlace
<1>5. /\ blocked' <=> SignalFn \in interruptible'
      /\ signalled' \in BOOLEAN /\ raised' \in BOOLEAN /\ blocked' \in BOOLEAN
  <2>1. /\ blocked <=> SignalFn \in interruptible
        /\ signalled \in BOOLEAN /\ raised \in BOOLEAN /\ blocked \in BOOLEAN
    BY DEF LoopInv, LoopSleep, LoopFlags
  <2>2. CASE pollers[index] = SignalFn
    <3>1. blocked' = FALSE /\ raised' = FALSE /\ SignalFn \notin interruptible'
      BY <1>1, <2>2
    <3>2. signalled' \in BOOLEAN
      BY <1>1, <2>2, Zenon
    <3> QED BY <3>1, <3>2
  <2>3. CASE pollers[index] # SignalFn
    <3>1. UNCHANGED <<signalled, blocked, raised>> /\ (SignalFn \in interruptible' <=> SignalFn \in interruptible)
      BY <1>1, <2>3
    <3> QED BY <2>1, <3>1
  <2> QED BY <2>2, <2>3
<1>6. LoopSleep' /\ LoopFlags'
  BY <1>1, <1>5 DEF LoopInv, LoopSleep, LoopFlags
<1> QED BY <1>1, <1>4, <1>6, ObjectsKept DEF LoopInv

LEMMA EndLeaveStep == ASSUME LoopInv, R!EndLeave PROVE LoopInv'
<1>1. /\ at = "leaving" /\ index = 0 /\ at' = "tasks"
      /\ UNCHANGED <<index, worked, pollers, tasks, handle, interruptible, signalled, blocked, raised>>
  BY DEF R!EndLeave, R!Signal
<1>2. interruptible = {}
  <2>1. {pollers[i] : i \in 1 .. 0} = {}
    OBVIOUS
  <2> QED BY <1>1, <2>1 DEF LoopInv, LoopPlace
<1>3. LoopPlace'
  BY <1>1, <1>2 DEF LoopPlace
<1>4. LoopSleep' /\ LoopFlags'
  BY <1>1 DEF LoopInv, LoopSleep, LoopFlags
<1> QED BY <1>1, <1>3, <1>4, ObjectsKept DEF LoopInv

\* The kernel raises the signal.
LEMMA RaiseStep == ASSUME LoopInv, R!Raise PROVE LoopInv'
<1>1. /\ blocked => raised' = TRUE /\ signalled' = signalled
      /\ ~blocked => signalled' = TRUE /\ raised' = raised
      /\ UNCHANGED <<at, index, worked, pollers, tasks, handle, interruptible, blocked>>
  BY DEF R!Raise, R!Loop
<1>2. LoopPlace'
  BY <1>1 DEF LoopInv, LoopPlace
<1>3. LoopSleep'
  BY <1>1 DEF LoopInv, LoopSleep
<1>4. LoopFlags'
  <2>1. CASE blocked
    BY <1>1, <2>1 DEF LoopInv, LoopFlags
  <2>2. CASE ~blocked
    BY <1>1, <2>2 DEF LoopInv, LoopFlags
  <2> QED BY <2>1, <2>2
<1> QED BY <1>1, <1>2, <1>3, <1>4, ObjectsKept DEF LoopInv

\* No step of the loop breaks the invariant.
LEMMA LoopStep == LoopInv /\ [LoopNext]_reactorVars => LoopInv'
<1> SUFFICES ASSUME LoopInv, [LoopNext]_reactorVars PROVE LoopInv'
  OBVIOUS
<1>1. CASE UNCHANGED reactorVars
  <2>1. LoopPlace' /\ LoopSleep' /\ LoopFlags'
    BY <1>1 DEF reactorVars, LoopInv, LoopPlace, LoopSleep, LoopFlags
  <2>2. UNCHANGED <<tasks, pollers, handle>>
    BY <1>1 DEF reactorVars
  <2> QED BY <2>1, <2>2, ObjectsKept DEF LoopInv
<1> QED BY <1>1, RunUserStep, RunRegistrationStep, RunDeregistrationStep, StartPollStep, PollStep,
           EndPollStep, EnterSignalStep, EnterOtherStep, SleepStep, LeaveStep, EndLeaveStep,
           RaiseStep DEF LoopNext

LEMMA LoopInit == MCInit => LoopInv
<1> SUFFICES ASSUME R!Init PROVE LoopInv
  BY DEF MCInit
<1>1. /\ at = "tasks" /\ index = 0 /\ worked = FALSE /\ pollers = <<SignalFn>> /\ tasks = << >>
      /\ handle = [h \in Handle |-> R!Empty] /\ interruptible = {}
      /\ signalled = TRUE /\ blocked = FALSE /\ raised = FALSE
  BY DEF R!Init
<1>2. /\ \A h \in Handle : handle[h].fn = Null /\ handle[h].registering = FALSE
      /\ Null \notin Pollfn
  BY <1>1, ReactorAssumption DEF R!Empty
<1>3. Registering(handle) = {} /\ Registered(handle) = {}
  BY <1>2 DEF Registering, Registered
<1>4. Len(pollers) = 1 /\ pollers[1] = SignalFn
  BY <1>1
<1>5. Line(pollers, {SignalFn})
  BY <1>4 DEF Line
<1>6. Holds(tasks, "register", {}) /\ Holds(tasks, "deregister", {})
  BY <1>1 DEF Holds
<1>7. Owns(tasks, pollers, handle, {})
  BY <1>2, <1>3, <1>4, <1>5, <1>6 DEF Owns
<1>8. LoopTyped(tasks, pollers, handle)
  BY <1>1 DEF LoopTyped, Pollers, Owner, R!Empty
<1>9. LoopPlace /\ LoopSleep /\ LoopFlags
  BY <1>1 DEF LoopPlace, LoopSleep, LoopFlags
<1> QED BY <1>7, <1>8, <1>9 DEF LoopInv

\* A task that a list holds is there once.
LEMMA HoldsOnce ==
    ASSUME NEW u \in Seq(LoopTask), NEW kind, NEW members, Holds(u, kind, members), NEW x, x # Null
    PROVE  Cardinality({i \in DOMAIN u : u[i] = R!TaskFor(kind, x)}) = IF x \in members THEN 1 ELSE 0
<1>1. R!TaskFor(kind, x).kind = kind /\ R!TaskFor(kind, x).of = x
  BY DEF R!TaskFor
<1>2. CASE x \in members
  <2>1. PICK i \in 1 .. Len(u) : u[i] = R!TaskFor(kind, x)
    BY <1>2 DEF Holds
  <2>2. \A j \in 1 .. Len(u) : u[j] = R!TaskFor(kind, x) => j = i
    BY <1>1, <2>1 DEF Holds
  <2>3. {j \in DOMAIN u : u[j] = R!TaskFor(kind, x)} = {i}
    BY <2>1, <2>2
  <2> QED BY <1>2, <2>3, FS_Singleton
<1>3. CASE x \notin members
  <2>1. \A j \in 1 .. Len(u) : u[j] # R!TaskFor(kind, x)
    BY <1>1, <1>3 DEF Holds
  <2>2. {j \in DOMAIN u : u[j] = R!TaskFor(kind, x)} = {}
    BY <2>1
  <2> QED BY <1>3, <2>2, FS_EmptySet
<1> QED BY <1>2, <1>3

\* The list of pollers is what their owners say.
LEMMA OwnedOnce ==
    ASSUME LoopInv
    PROVE  /\ \A fn \in Pollfn : R!Times(pollers, fn) =
                 (IF \E h \in Handle : handle[h] = [fn |-> fn, registering |-> FALSE] THEN 1 ELSE 0)
                 + R!Times(tasks, R!TaskFor("deregister", fn))
           /\ \A h \in Handle : R!Times(tasks, R!TaskFor("register", h)) = IF handle[h].registering THEN 1 ELSE 0
<1>1. PICK retired \in SUBSET Pollfn : Owns(tasks, pollers, handle, retired)
  BY DEF LoopInv
<1>2. /\ tasks \in Seq(LoopTask) /\ pollers \in Seq(Pollers) /\ handle \in [Handle -> Owner]
      /\ Null \notin Pollfn /\ Null \notin Handle /\ SignalFn \notin Pollfn
  BY ReactorAssumption DEF LoopInv, LoopTyped
<1>3. ASSUME NEW fn \in Pollfn
      PROVE  R!Times(pollers, fn) =
                 (IF \E h \in Handle : handle[h] = [fn |-> fn, registering |-> FALSE] THEN 1 ELSE 0)
                 + R!Times(tasks, R!TaskFor("deregister", fn))
  <2>1. fn \in Registered(handle) <=> \E h \in Handle : handle[h] = [fn |-> fn, registering |-> FALSE]
    <3>1. ASSUME NEW h \in Handle
          PROVE  handle[h].fn = fn /\ ~handle[h].registering <=> handle[h] = [fn |-> fn, registering |-> FALSE]
      <4>1. handle[h] \in Owner
        BY <1>2
      <4>2. handle[h] = [fn |-> handle[h].fn, registering |-> handle[h].registering]
        BY <4>1 DEF Owner
      <4>3. handle[h].registering \in BOOLEAN
        BY <4>1 DEF Owner
      <4>4. ASSUME handle[h] = [fn |-> fn, registering |-> FALSE]
            PROVE  handle[h].fn = fn /\ ~handle[h].registering
        BY <4>4
      <4>5. ASSUME handle[h].fn = fn, ~handle[h].registering
            PROVE  handle[h] = [fn |-> fn, registering |-> FALSE]
        <5>1. handle[h].registering = FALSE
          BY <4>3, <4>5
        <5> QED BY <4>2, <4>5, <5>1, Zenon
      <4> QED BY <4>4, <4>5
    <3> QED BY <3>1 DEF Registered
  <2>2. ~(fn \in Registered(handle) /\ fn \in retired)
    BY <1>1 DEF Registered, Owns
  <2>3. R!Times(tasks, R!TaskFor("deregister", fn)) = IF fn \in retired THEN 1 ELSE 0
    <3>1. Holds(tasks, "deregister", retired) /\ fn # Null
      BY <1>1, <1>2 DEF Owns
    <3>2. Cardinality({i \in DOMAIN tasks : tasks[i] = R!TaskFor("deregister", fn)})
             = IF fn \in retired THEN 1 ELSE 0
      BY <1>2, <3>1, HoldsOnce
    <3> QED BY <3>2, SameCardinality DEF R!Times
  <2>4. R!Times(pollers, fn) = IF fn \in Registered(handle) \cup retired \cup {SignalFn} THEN 1 ELSE 0
    <3>1. Line(pollers, Registered(handle) \cup retired \cup {SignalFn})
      BY <1>1 DEF Owns
    <3>2. Cardinality({i \in DOMAIN pollers : pollers[i] = fn})
             = IF fn \in Registered(handle) \cup retired \cup {SignalFn} THEN 1 ELSE 0
      BY <1>2, <3>1, LineOnce
    <3> QED BY <3>2, SameCardinality DEF R!Times
  <2>5. fn # SignalFn
    BY <1>2
  <2>6. R!Times(pollers, fn) = (IF fn \in Registered(handle) THEN 1 ELSE 0) + (IF fn \in retired THEN 1 ELSE 0)
    BY <2>2, <2>4, <2>5
  <2> QED BY <2>1, <2>3, <2>6
<1>4. ASSUME NEW h \in Handle
      PROVE  R!Times(tasks, R!TaskFor("register", h)) = IF handle[h].registering THEN 1 ELSE 0
  <2>1. Holds(tasks, "register", Registering(handle)) /\ h # Null
    BY <1>1, <1>2 DEF Owns
  <2>2. Cardinality({i \in DOMAIN tasks : tasks[i] = R!TaskFor("register", h)})
           = IF h \in Registering(handle) THEN 1 ELSE 0
    BY <1>2, <2>1, HoldsOnce
  <2>3. h \in Registering(handle) <=> handle[h].registering
    BY DEF Registering
  <2> QED BY <2>2, <2>3, SameCardinality DEF R!Times
<1> QED BY <1>3, <1>4

\* Where the loop is says what is in interrupt mode.
LEMMA PlaceShown ==
    ASSUME LoopInv
    PROVE  interruptible = CASE at \in {"tasks", "poll"} -> {}
                             [] at \in {"entering", "asleep"} -> {pollers[i] : i \in 1 .. index - 1}
                             [] at = "leaving" -> {pollers[i] : i \in 1 .. index}
<1>1. /\ at \in {"tasks", "poll", "entering", "asleep", "leaving"}
      /\ at \in {"tasks", "poll"} => interruptible = {}
      /\ at \in {"entering", "asleep"} => interruptible = {pollers[i] : i \in 1 .. index - 1}
      /\ at = "leaving" => interruptible = {pollers[i] : i \in 1 .. index}
  BY DEF LoopInv, LoopPlace
<1>2. CASE at \in {"tasks", "poll"}
  <2>1. at \notin {"entering", "asleep"} /\ at # "leaving"
    BY <1>2
  <2> QED BY <1>1, <1>2, <2>1
<1>3. CASE at \in {"entering", "asleep"}
  <2>1. at \notin {"tasks", "poll"} /\ at # "leaving"
    BY <1>3
  <2> QED BY <1>1, <1>3, <2>1
<1>4. CASE at = "leaving"
  <2>1. at \notin {"tasks", "poll"} /\ at \notin {"entering", "asleep"}
    BY <1>4
  <2> QED BY <1>1, <1>4, <2>1
<1> QED BY <1>1, <1>2, <1>3, <1>4

LEMMA LoopAlways == MCSpec => []LoopInv
<1>1. LoopInv /\ [MCNext]_MCVars => LoopInv'
  BY OwnSteps, LoopStep
<1> QED BY LoopInit, <1>1, PTL DEF MCSpec

\* However pollers are created, moved and destroyed, by tasks, by poll
\* functions and by handlers: each object in _pollers is owned, by its poller
\* or by the task that will take it out, and is there once; and sleep() undoes
\* what it did.
THEOREM PollersAlwaysIntact == MCSpec => []PollersIntact
<1>1. LoopInv => PollersIntact
  <2> SUFFICES ASSUME LoopInv PROVE PollersIntact
    OBVIOUS
  <2>1. blocked <=> SignalFn \in interruptible
    BY DEF LoopInv, LoopSleep
  <2> QED BY <2>1, OwnedOnce, PlaceShown, Zenon DEF PollersIntact, R!PollersIntact
<1> QED BY <1>1, LoopAlways, PTL

\* A reactor that sleeps has no task to run and has seen every signal.
THEOREM SleepsOnlyWithoutWork == MCSpec => []SleepsWithoutWork
<1>1. LoopInv => SleepsWithoutWork
  <2> SUFFICES ASSUME LoopInv, at = "asleep" PROVE tasks = << >> /\ ~signalled
    BY DEF SleepsWithoutWork, R!SleepsWithoutWork
  <2>1. interruptible = {pollers[i] : i \in 1 .. index - 1} /\ index - 1 = Len(pollers)
    BY FirstPoller DEF LoopInv, LoopPlace
  <2>2. SignalFn \in interruptible
    <3>1. 1 \in 1 .. Len(pollers) /\ pollers[1] = SignalFn
      BY FirstPoller
    <3> QED BY <2>1, <3>1
  <2> QED BY <2>2 DEF LoopInv, LoopSleep
<1> QED BY <1>1, LoopAlways, PTL

-----------------------------------------------------------------------------
\* The variables of the loop, the descriptor, the threads, and of promises and
\* futures have their types.
THEOREM ReactorTypes == MCSpec => []ReactorTypeOK
<1>1. LoopInv => R!TypeOK
  <2> SUFFICES ASSUME LoopInv PROVE R!TypeOK
    OBVIOUS
  <2>1. /\ tasks \in Seq(LoopTask) /\ pollers \in Seq(Pollers) /\ handle \in [Handle -> Owner]
        /\ at \in {"tasks", "poll", "entering", "asleep", "leaving"}
        /\ worked \in BOOLEAN /\ signalled \in BOOLEAN /\ blocked \in BOOLEAN /\ raised \in BOOLEAN
    BY DEF LoopInv, LoopTyped, LoopPlace, LoopFlags
  <2>2. index \in 0 .. Len(pollers) + 1
    BY FirstPoller DEF LoopInv, LoopPlace
  <2> QED BY <2>1, <2>2, Zenon DEF R!TypeOK, LoopTask, Pollers, Owner
<1>2. MCSpec => []DescriptorInv
  <2>1. DescriptorInv /\ [MCNext]_MCVars => DescriptorInv'
    BY OwnSteps, DescriptorStep
  <2> QED BY <2>1, DescriptorInit, PTL DEF MCSpec
<1>3. MCSpec => []ThreadsInv
  <2>1. ThreadsInv /\ [MCNext]_MCVars => ThreadsInv'
    BY OwnSteps, ThreadsStep
  <2> QED BY <2>1, ThreadsInit, PTL DEF MCSpec
<1>4. MCSpec => []IInv
  <2>1. MCInit => IInv
    BY InitLinks DEF MCInit
  <2>2. IInv /\ [MCNext]_MCVars => IInv'
    BY OwnSteps, NextLinks
  <2> QED BY <2>1, <2>2, PTL DEF MCSpec
<1>5. IInv => TypeOK
  BY DEF IInv, Linked, Now, Typed, Writes, TypeOK, PromiseRecord, FutureRecord, TaskRecord
<1>6. DescriptorInv => E!TypeOK
  BY DEF DescriptorInv
<1>7. ThreadsInv => T!TypeOK
  BY DEF ThreadsInv
<1>8. R!TypeOK /\ E!TypeOK /\ T!TypeOK /\ TypeOK => ReactorTypeOK
  BY DEF ReactorTypeOK
<1> QED BY LoopAlways, <1>1, <1>2, <1>3, <1>4, <1>5, <1>6, <1>7, <1>8, PTL

=============================================================================
