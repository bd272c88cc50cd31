---------------------------- MODULE Objects_proof ----------------------------
(***************************************************************************)
(* The gate, the stream, the shared future, the joins, the disk queue and  *)
(* the ring between two cores keep their promises, for any number of users, *)
(* readers, parts, requests and subscriptions and any size of the ring.    *)
(***************************************************************************)
EXTENDS MC_Objects, Semaphore_proof, FunctionTheorems

-----------------------------------------------------------------------------
(* The instances count as FiniteSets does.                                 *)

\* Cardinality, reached through the instances, is the one of FiniteSets.
LEMMA SameCardinality == \A X : S!Cardinality(X) = Cardinality(X) /\ Io!Cardinality(X) = Cardinality(X)
BY Zenon DEF S!Cardinality, Io!Cardinality, Cardinality

-----------------------------------------------------------------------------
(* Each object takes the steps of its own operations and no others.        *)

\* The operations of the gate, of the shared future, of the joins, of the disk
\* queue and of the stream.
GateNext == \/ \E u \in User : G!Enter(u) \/ G!WithGate(u) \/ G!Leave(u)
            \/ G!Close

SharedNext == \/ S!Set \/ S!Resolve \/ S!ResolvePeer \/ S!EndResolve
              \/ \E r \in Reader, timed \in BOOLEAN : S!GetFuture(r, timed)
              \/ \E r \in Reader : S!Read(r)
              \/ \E i \in DOMAIN peers : S!Expire(i)

JoinNext == \/ \E k \in J!Kind : J!Call(k)
            \/ \E outcome \in {"pending", "value", "failed"} : J!Launch(outcome)
            \/ J!LaunchThrows \/ J!Return \/ J!MapReduceAnswers
            \/ \E i \in 1 .. Parts : JoinStep(i)

IoNext == \/ \E r \in Request, c \in Class : Io!Queue(r, c)
          \/ Io!ExecuteOne \/ Io!PollFlush \/ Io!ProcessIo
          \/ \E r \in Request : Io!Submit(r) \/ Io!Prepare(r) \/ Io!Finish(r)

StreamNext == \/ \E s \in Subscription : St!Listen(s) \/ St!Start(s) \/ St!Destroy(s) \/ St!Done(s)
              \/ \E s, t \in Subscription : St!Move(s, t)
              \/ St!Started \/ St!Produce \/ St!Consumed \/ St!Continue
              \/ St!Close \/ St!DestroyStream

\* A step is one of the object it is about and leaves the others alone.
LEMMA OwnSteps ==
    ASSUME [MCNext]_MCVars
    PROVE  /\ [GateNext]_gateVars
           /\ [SharedNext]_sharedVars
           /\ [JoinNext]_joinVars
           /\ [IoNext]_ioVars
           /\ [StreamNext]_streamVars
           /\ [RingNext]_ringVars
           /\ [Next]_vars
<1>1. CASE UNCHANGED MCVars
  BY <1>1 DEF MCVars, objectVars
<1>2. CASE MCNext
  <2>1. /\ Semaphores => UNCHANGED <<gateVars, sharedVars, joinVars, ioVars, streamVars, ringVars>>
        /\ Gates => UNCHANGED <<vars, sharedVars, joinVars, ioVars, streamVars, ringVars>>
        /\ SharedFutures => UNCHANGED <<vars, gateVars, joinVars, ioVars, streamVars, ringVars>>
        /\ Joined => UNCHANGED <<vars, gateVars, sharedVars, ioVars, streamVars, ringVars>>
        /\ Requests => UNCHANGED <<vars, gateVars, sharedVars, joinVars, streamVars, ringVars>>
        /\ Streamed => UNCHANGED <<vars, gateVars, sharedVars, joinVars, ioVars, ringVars>>
        /\ Queues => UNCHANGED <<vars, gateVars, sharedVars, joinVars, ioVars, streamVars>>
    BY DEF Semaphores, Gates, SharedFutures, Joined, Requests, Streamed, Queues, Local, Of, objectVars
  <2>2. \/ Semaphores /\ Next
        \/ Gates /\ [GateNext]_gateVars
        \/ SharedFutures /\ SharedNext
        \/ Joined /\ [JoinNext]_joinVars
        \/ Requests /\ IoNext
        \/ Streamed /\ [StreamNext]_streamVars
        \/ Queues /\ RingNext
    BY <1>2 DEF MCNext, RingNext, Next, Orderly, GateNext, SharedNext, JoinNext, JoinStep, IoNext, StreamNext
  <2> QED BY <2>1, <2>2
<1> QED BY <1>1, <1>2

-----------------------------------------------------------------------------
(* The gate: _count is the number of users inside.                         *)

\* gate::_count is the number of users inside.
GateInv == G!TypeOK /\ entered = Cardinality(G!InGate) /\ G!OpensOnce

\* No operation of the gate breaks this.
LEMMA GateStep == GateInv /\ [GateNext]_gateVars => GateInv'
<1> SUFFICES ASSUME GateInv, [GateNext]_gateVars PROVE GateInv'
  OBVIOUS
<1>1. IsFiniteSet(G!InGate) /\ entered \in Nat /\ (entered = 0 <=> G!InGate = {})
  <2>1. IsFiniteSet(G!InGate)
    BY ObjectsAssumption, FS_Subset DEF G!InGate
  <2> QED BY <2>1, FS_EmptySet DEF GateInv, G!TypeOK
<1>2. ASSUME NEW u \in User, G!enter, user[u] = "outside", NEW called \in G!Inside,
             user' = [user EXCEPT ![u] = called], UNCHANGED <<stopped, opened>>
      PROVE  GateInv'
  <2>1. G!InGate' = G!InGate \cup {u} /\ u \notin G!InGate
    BY <1>2 DEF GateInv, G!TypeOK, G!InGate, G!Inside
  <2>2. Cardinality(G!InGate') = entered + 1
    BY <1>1, <2>1, FS_AddElement DEF GateInv
  <2>3. entered' = entered + 1 /\ ~stopped /\ ~stopped' /\ opened' = opened /\ stopped' = stopped
    BY <1>2 DEF G!enter
  <2>4. G!TypeOK'
    BY <1>1, <1>2, <2>3 DEF GateInv, G!TypeOK
  <2> QED BY <2>2, <2>3, <2>4 DEF GateInv, G!OpensOnce
<1>3. ASSUME NEW u \in User, G!Enter(u) PROVE GateInv'
  BY <1>2, <1>3 DEF G!Enter, G!Inside
<1>4. ASSUME NEW u \in User, G!WithGate(u) PROVE GateInv'
  BY <1>2, <1>4 DEF G!WithGate, G!Inside
<1>5. ASSUME NEW u \in User, G!Leave(u) PROVE GateInv'
  <2>1. G!InGate' = G!InGate \ {u} /\ u \in G!InGate
    BY <1>5 DEF GateInv, G!TypeOK, G!InGate, G!Inside, G!Leave
  <2>2. Cardinality(G!InGate') = entered - 1 /\ IsFiniteSet(G!InGate')
    BY <1>1, <2>1, FS_RemoveElement DEF GateInv
  <2>3. G!InGate' = {} <=> entered = 1
    BY <1>1, <2>2, FS_EmptySet
  <2>4. /\ entered' = entered - 1 /\ entered # 0 /\ stopped' = stopped
        /\ opened' = opened + (IF entered = 1 /\ stopped THEN 1 ELSE 0)
    BY <1>1, <1>5, <2>1 DEF G!Leave, G!leave
  <2>5. G!TypeOK'
    BY <1>1, <1>5, <2>4 DEF GateInv, G!TypeOK, G!Leave
  <2>6. opened' = IF stopped' /\ G!InGate' = {} THEN 1 ELSE 0
    BY <1>1, <2>3, <2>4 DEF GateInv, G!OpensOnce
  <2> QED BY <2>2, <2>4, <2>5, <2>6 DEF GateInv, G!OpensOnce
<1>6. CASE G!Close
  BY <1>1, <1>6 DEF GateInv, G!TypeOK, G!OpensOnce, G!Close, G!InGate
<1>7. CASE UNCHANGED gateVars
  BY <1>7 DEF gateVars, GateInv, G!TypeOK, G!OpensOnce, G!InGate
<1> QED BY <1>3, <1>4, <1>5, <1>6, <1>7 DEF GateNext

\* Nobody is inside at first.
LEMMA GateInit == MCInit => GateInv
<1> SUFFICES ASSUME MCInit PROVE GateInv
  OBVIOUS
<1>1. G!InGate = {} /\ entered = 0 /\ opened = 0 /\ stopped = FALSE
  BY DEF MCInit, G!Init, G!InGate, G!Inside
<1>2. G!TypeOK
  BY DEF MCInit, G!Init, G!TypeOK
<1> QED BY <1>1, <1>2, FS_EmptySet DEF GateInv, G!OpensOnce

\* gate: the future of close() resolves once, when the last user has left.
THEOREM GateOpensOnce == MCSpec => []OpensOnce
<1>1. GateInv /\ [MCNext]_MCVars => GateInv'
  BY GateStep, OwnSteps
<1>2. GateInv => OpensOnce
  BY DEF GateInv, OpensOnce
<1> QED BY GateInit, <1>1, <1>2, PTL DEF MCSpec

-----------------------------------------------------------------------------
(* The stream: the subscriber's function is at work only inside of         *)
(* produce(), and a stream that ended alive has resolved _done.            *)

\* Besides: a listener can be waited for only while somebody produces, and a
\* producer ends after its stream is done.
StreamInv == /\ St!TypeOK /\ St!EndsAgree
             /\ listener # "none" => producer = "producing"
             /\ stream.alive /\ producer = "ended" => stream.done # "unset"

\* No operation of a stream or of a subscription breaks this.
LEMMA StreamStep == StreamInv /\ [StreamNext]_streamVars => StreamInv'
<1> SUFFICES ASSUME StreamInv, [StreamNext]_streamVars PROVE StreamInv'
  OBVIOUS
<1> USE DEF StreamInv, St!TypeOK, St!EndsAgree, St!Gone
<1>1. Nobody \notin Subscription
  BY ObjectsAssumption
<1>2. ASSUME NEW s \in Subscription, St!Listen(s) PROVE StreamInv'
  BY <1>1, <1>2 DEF St!Listen
<1>3. ASSUME NEW s \in Subscription, St!Start(s) PROVE StreamInv'
  <2>1. /\ stream.sub = s /\ subscription[s].alive /\ subscription[s].linked /\ stream.alive
        /\ producer' = producer /\ listener' = listener /\ streamReader' = streamReader
    <3>1. /\ subscription[s].linked
          /\ producer' = producer /\ listener' = listener /\ streamReader' = streamReader
      BY <1>3 DEF St!Start
    <3>2. \A x \in Subscription : subscription[x].linked =>
             subscription[x].alive /\ stream.alive /\ stream.sub = x
      OBVIOUS
    <3> QED BY <3>1, <3>2
  <2>2. /\ stream'.alive = stream.alive /\ stream'.sub = stream.sub /\ stream'.ready
        /\ stream'.done = stream.done
        /\ stream' \in [alive : BOOLEAN, sub : Subscription \cup {Nobody}, ready : BOOLEAN,
                        done : {"unset", "value", "failed"}]
    BY <1>3 DEF St!Start
  <2>3. /\ \A t \in Subscription \ {s} : subscription'[t] = subscription[t]
        /\ subscription'[s] = [subscription[s] EXCEPT !.next = TRUE]
        /\ subscription' \in [Subscription -> [alive : BOOLEAN, linked : BOOLEAN, next : BOOLEAN]]
    BY <1>3, ZenonT(60) DEF St!Start
  <2>4. subscription'[s].linked /\ subscription'[s].alive /\ subscription'[s].next
    BY <2>1, <2>3
  <2>5. \A x \in Subscription : subscription'[x].linked =>
           subscription'[x].alive /\ stream'.alive /\ stream'.sub = x
    BY <2>1, <2>2, <2>3, <2>4
  <2> QED BY <2>1, <2>2, <2>3, <2>4, <2>5
<1>4. ASSUME NEW s \in Subscription, St!Destroy(s) PROVE StreamInv'
  BY <1>1, <1>4 DEF St!Destroy
<1>5. ASSUME NEW s \in Subscription, St!Done(s) PROVE StreamInv'
  BY <1>1, <1>5 DEF St!Done
<1>6. ASSUME NEW s \in Subscription, NEW t \in Subscription, St!Move(s, t) PROVE StreamInv'
  <2>1. /\ s # t /\ ~subscription[t].alive /\ ~subscription[t].linked
        /\ subscription[s].linked => stream.sub = s
        /\ producer' = producer /\ listener' = listener /\ streamReader' = streamReader
    <3>1. /\ subscription[s].alive /\ ~subscription[t].alive
          /\ producer' = producer /\ listener' = listener /\ streamReader' = streamReader
      BY <1>6 DEF St!Move
    <3>2. \A x \in Subscription : subscription[x].linked =>
             subscription[x].alive /\ stream.alive /\ stream.sub = x
      OBVIOUS
    <3> QED BY <3>1, <3>2
  <2>2. /\ stream'.alive = stream.alive /\ stream'.ready = stream.ready /\ stream'.done = stream.done
        /\ stream'.sub = IF subscription[s].linked THEN t ELSE stream.sub
        /\ stream' \in [alive : BOOLEAN, sub : Subscription \cup {Nobody}, ready : BOOLEAN,
                        done : {"unset", "value", "failed"}]
    BY <1>6 DEF St!Move
  <2>3. /\ \A x \in Subscription \ {s, t} : subscription'[x] = subscription[x]
        /\ subscription'[t] = subscription[s]
        /\ ~subscription'[s].linked
        /\ subscription' \in [Subscription -> [alive : BOOLEAN, linked : BOOLEAN, next : BOOLEAN]]
    <3>1. /\ subscription' = [subscription EXCEPT ![t] = subscription[s],
                                                 ![s].linked = FALSE, ![s].next = FALSE]
          /\ s # t
      BY <1>6, <2>1 DEF St!Move
    <3>2. subscription \in [Subscription -> [alive : BOOLEAN, linked : BOOLEAN, next : BOOLEAN]]
      BY DEF St!TypeOK
    <3>3. ASSUME NEW x \in Subscription \ {s, t} PROVE subscription'[x] = subscription[x]
      BY <3>1, <3>2, <3>3
    <3>4. subscription'[t] = subscription[s]
      BY <3>1, <3>2
    <3>5. subscription[s] \in [alive : BOOLEAN, linked : BOOLEAN, next : BOOLEAN]
      BY <3>2
    <3>6. subscription'[s] = [subscription[s] EXCEPT !.linked = FALSE, !.next = FALSE]
      BY <3>1, <3>2
    <3>7. /\ ~subscription'[s].linked
          /\ subscription'[s] \in [alive : BOOLEAN, linked : BOOLEAN, next : BOOLEAN]
      BY <3>5, <3>6
    <3>8. subscription' = [x \in Subscription |-> subscription'[x]]
      BY <3>1, <3>2
    <3>9. subscription' \in [Subscription -> [alive : BOOLEAN, linked : BOOLEAN, next : BOOLEAN]]
      <4>1. ASSUME NEW x \in Subscription
            PROVE  subscription'[x] \in [alive : BOOLEAN, linked : BOOLEAN, next : BOOLEAN]
        BY <3>2, <3>3, <3>4, <3>5, <3>7
      <4> QED BY <3>8, <4>1
    <3> QED BY <3>3, <3>4, <3>7, <3>9
  <2>4. \A x \in Subscription : subscription'[x].linked =>
           subscription'[x].alive /\ stream'.alive /\ stream'.sub = x
    BY <1>1, <2>1, <2>2, <2>3
  <2>5. stream'.sub # Nobody => subscription'[stream'.sub].linked
                                /\ (subscription'[stream'.sub].next = stream'.ready)
    BY <1>1, <2>1, <2>2, <2>3
  <2> QED BY <2>1, <2>2, <2>3, <2>4, <2>5
<1>7. CASE St!Started
  BY <1>7 DEF St!Started
<1>8. CASE St!Produce
  BY <1>8 DEF St!Produce
<1>9. CASE St!Consumed
  BY <1>9 DEF St!Consumed
<1>10. CASE St!Continue
  BY <1>10 DEF St!Continue, St!SetDone
<1>11. CASE St!Close
  BY <1>11 DEF St!Close, St!SetDone
<1>12. CASE St!DestroyStream
  BY <1>1, <1>12, ZenonT(60) DEF St!DestroyStream
<1>13. CASE UNCHANGED streamVars
  BY <1>13 DEF streamVars
<1> QED BY <1>2, <1>3, <1>4, <1>5, <1>6, <1>7, <1>8, <1>9, <1>10, <1>11, <1>12, <1>13 DEF StreamNext

\* Nothing points at anything at first.
LEMMA StreamInit == MCInit => StreamInv
BY ObjectsAssumption DEF MCInit, St!Init, StreamInv, St!TypeOK, St!EndsAgree, St!Gone

\* stream and subscription: whichever end is moved or destroyed first, the
\* two point at each other or at nothing, and done() is answered once.
THEOREM StreamEndsAgree == MCSpec => []EndsAgree
<1>1. StreamInv /\ [MCNext]_MCVars => StreamInv'
  BY StreamStep, OwnSteps
<1>2. StreamInv => EndsAgree
  BY DEF StreamInv, EndsAgree
<1> QED BY StreamInit, <1>1, <1>2, PTL DEF MCSpec

-----------------------------------------------------------------------------
(* The shared future: the live entries of _peers are the readers that are  *)
(* not answered, once each.                                                *)

\* The live entries are those of the readers in W, one each.
Peers(entries, W) ==
    /\ \A r \in W : \E i \in DOMAIN entries : entries[i].payload /\ entries[i].who = r
    /\ \A i \in DOMAIN entries : entries[i].payload =>
          /\ entries[i].who \in W
          /\ \A j \in DOMAIN entries :
                entries[j].payload /\ entries[j].who = entries[i].who => i = j

\* Dropping expired entries leaves the others.
LEMMA DropPeers ==
    ASSUME NEW entries \in Seq(S!Entry), NEW W, Peers(entries, W)
    PROVE  /\ S!DropExpired(entries) \in Seq(S!Entry)
           /\ Peers(S!DropExpired(entries), W)
           /\ S!DropExpired(entries) # << >> => Head(S!DropExpired(entries)).payload
<1> DEFINE d == S!DropExpired(entries)
<1>1. d = drop_expired_front(entries)
  BY DEF S!DropExpired, drop_expired_front
<1>2. PICK k \in 0 .. Len(entries) :
          /\ Len(d) = Len(entries) - k
          /\ \A i \in 1 .. Len(entries) - k : d[i] = entries[i + k]
          /\ \A i \in 1 .. k : ~entries[i].payload
          /\ k < Len(entries) => entries[k + 1].payload
  BY <1>1, DropFacts, SMTT(40)
<1>3. d \in Seq(S!Entry)
  BY <1>1, DropFacts
<1> HIDE DEF d
<1>4. ASSUME NEW r \in W PROVE \E i \in DOMAIN d : d[i].payload /\ d[i].who = r
  <2>1. PICK i \in 1 .. Len(entries) : entries[i].payload /\ entries[i].who = r
    BY DEF Peers
  <2>2. i > k /\ i - k \in 1 .. Len(d) /\ d[i - k] = entries[i]
    BY <1>2, <2>1
  <2> QED BY <1>3, <2>1, <2>2
<1>5. ASSUME NEW i \in DOMAIN d, d[i].payload
      PROVE  /\ d[i].who \in W
             /\ \A j \in DOMAIN d : d[j].payload /\ d[j].who = d[i].who => i = j
  <2>1. \A j \in DOMAIN d : j + k \in DOMAIN entries /\ d[j] = entries[j + k] /\ j \in Int
    BY <1>2, <1>3
  <2>2. \A j \in DOMAIN d : d[j].payload /\ d[j].who = d[i].who => i + k = j + k
    BY <1>5, <2>1 DEF Peers
  <2> QED BY <1>2, <1>5, <2>1, <2>2 DEF Peers
<1>6. d # << >> => Head(d).payload
  <2> SUFFICES ASSUME d # << >> PROVE Head(d).payload
    OBVIOUS
  <2>1. 1 \in 1 .. Len(entries) - k /\ Head(d) = d[1]
    BY <1>2, <1>3
  <2> QED BY <1>2, <2>1
<1> QED BY <1>3, <1>4, <1>5, <1>6 DEF d, Peers

\* The first of _peers is live (expiring_fifo drops the others), none is left
\* once the future was resolved, and _size counts them.
SharedInv ==
    /\ S!TypeOK
    /\ Peers(peers, S!Unanswered)
    /\ peers # << >> => Head(peers).payload
    /\ peerCount = Cardinality(S!Unanswered)
    /\ futureState # "future" /\ ~resolving => peers = << >>
    /\ resolving => futureState # "future"

\* There are finitely many readers.
LEMMA UnansweredFinite == IsFiniteSet(S!Unanswered) /\ Cardinality(S!Unanswered) \in Nat
<1>1. IsFiniteSet(S!Unanswered)
  BY ObjectsAssumption, FS_Subset DEF S!Unanswered
<1> QED BY <1>1, FS_CardinalityType

\* A step that answers no peer and adds none.
LEMMA SamePeers ==
    ASSUME SharedInv, S!TypeOK', S!Unanswered' = S!Unanswered, UNCHANGED <<peers, peerCount>>,
           futureState' # "future" /\ ~resolving' => peers = << >>,
           resolving' => futureState' # "future"
    PROVE  SharedInv'
BY DEF SharedInv

\* A peer that is answered leaves; entries is the list before expired entries
\* are dropped from its front.
LEMMA PeerLeaves ==
    ASSUME SharedInv, NEW r \in S!Unanswered, NEW outcome \in {"value", "failed", "timedout"},
           reader' = [reader EXCEPT ![r] = outcome], peerCount' = peerCount - 1,
           NEW entries \in Seq(S!Entry), Peers(entries, S!Unanswered \ {r}),
           peers' = S!DropExpired(entries),
           UNCHANGED <<source, futureState, resolving>>,
           resolving \/ futureState = "future"
    PROVE  SharedInv'
<1>1. S!Unanswered' = S!Unanswered \ {r}
  BY DEF SharedInv, S!TypeOK, S!Unanswered
<1>2. Cardinality(S!Unanswered') = peerCount - 1 /\ Cardinality(S!Unanswered') \in Nat
  BY <1>1, UnansweredFinite, FS_RemoveElement, FS_CardinalityType DEF SharedInv
<1>3. /\ peers' \in Seq(S!Entry) /\ Peers(peers', S!Unanswered')
      /\ peers' # << >> => Head(peers').payload
  BY <1>1, DropPeers
<1>4. S!TypeOK'
  BY <1>2, <1>3 DEF SharedInv, S!TypeOK, S!Unanswered, S!Outcome, S!Entry
<1> QED BY <1>2, <1>3, <1>4 DEF SharedInv

\* get_future() before the shared future has resolved.
LEMMA PeerJoins ==
    ASSUME SharedInv, NEW r \in Reader, NEW timed \in BOOLEAN, S!GetFuture(r, timed),
           futureState = "future"
    PROVE  SharedInv'
<1>1. PICK e : e = [who |-> r, payload |-> TRUE, timed |-> timed]
  OBVIOUS
<1>2. /\ peers' = Append(peers, e) /\ peerCount' = peerCount + 1
      /\ reader' = [reader EXCEPT ![r] = "future"] /\ reader[r] = "none" /\ ~resolving
      /\ UNCHANGED <<source, futureState, resolving>>
  BY <1>1 DEF S!GetFuture
<1>3. e \in S!Entry /\ e.who = r /\ e.payload
  BY <1>1 DEF S!Entry
<1>4. S!Unanswered' = S!Unanswered \cup {r} /\ r \notin S!Unanswered
  BY <1>2 DEF SharedInv, S!TypeOK, S!Unanswered
<1>5. Cardinality(S!Unanswered') = peerCount + 1 /\ peerCount \in Nat
  BY <1>4, UnansweredFinite, FS_AddElement DEF SharedInv
<1>6. peers \in Seq(S!Entry) /\ Len(peers) \in Nat
  BY DEF SharedInv, S!TypeOK
<1>7. /\ peers' \in Seq(S!Entry) /\ Len(peers') = Len(peers) + 1
      /\ \A i \in 1 .. Len(peers) : peers'[i] = peers[i]
      /\ peers'[Len(peers) + 1] = e
  BY <1>2, <1>3, <1>6
<1>8. Peers(peers', S!Unanswered')
  <2>1. ASSUME NEW x \in S!Unanswered'
        PROVE  \E i \in DOMAIN peers' : peers'[i].payload /\ peers'[i].who = x
    <3>1. CASE x = r
      BY <1>3, <1>6, <1>7, <3>1
    <3>2. CASE x \in S!Unanswered
      <4>1. PICK i \in 1 .. Len(peers) : peers[i].payload /\ peers[i].who = x
        BY <1>6, <3>2 DEF SharedInv, Peers
      <4> QED BY <1>6, <1>7, <4>1
    <3> QED BY <1>4, <3>1, <3>2
  <2>2. ASSUME NEW i \in DOMAIN peers', peers'[i].payload
        PROVE  /\ peers'[i].who \in S!Unanswered'
               /\ \A j \in DOMAIN peers' :
                     peers'[j].payload /\ peers'[j].who = peers'[i].who => i = j
    <3>1. DOMAIN peers' = 1 .. Len(peers) + 1 /\ DOMAIN peers = 1 .. Len(peers)
      BY <1>6, <1>7
    <3>2. \A j \in 1 .. Len(peers) : peers[j].payload =>
             /\ peers[j].who \in S!Unanswered
             /\ \A l \in 1 .. Len(peers) : peers[l].payload /\ peers[l].who = peers[j].who => j = l
      BY <3>1 DEF SharedInv, Peers
    <3>3. CASE i = Len(peers) + 1
      BY <1>3, <1>4, <1>6, <1>7, <3>1, <3>2, <3>3
    <3>4. CASE i \in 1 .. Len(peers)
      BY <1>3, <1>4, <1>6, <1>7, <2>2, <3>1, <3>2, <3>4
    <3> QED BY <1>6, <3>1, <3>3, <3>4
  <2> QED BY <2>1, <2>2 DEF Peers
<1>9. Head(peers').payload
  <2>1. Head(peers') = peers'[1]
    BY <1>6, <1>7
  <2>2. CASE peers = << >>
    BY <1>3, <1>7, <2>1, <2>2
  <2>3. CASE peers # << >>
    BY <1>6, <1>7, <2>1, <2>3 DEF SharedInv
  <2> QED BY <2>2, <2>3
<1>10. S!TypeOK'
  BY <1>2, <1>5, <1>7 DEF SharedInv, S!TypeOK
<1> QED BY <1>2, <1>5, <1>8, <1>9, <1>10 DEF SharedInv

\* No step of a shared future breaks this.
LEMMA SharedStep == SharedInv /\ [SharedNext]_sharedVars => SharedInv'
<1> SUFFICES ASSUME SharedInv, [SharedNext]_sharedVars PROVE SharedInv'
  OBVIOUS
<1>1. /\ peers \in Seq(S!Entry) /\ Len(peers) \in Nat /\ DOMAIN peers = 1 .. Len(peers)
      /\ \A i \in 1 .. Len(peers) : peers[i] \in S!Entry
      /\ Peers(peers, S!Unanswered)
  BY DEF SharedInv, S!TypeOK
<1>2. CASE S!Set
  <2>1. S!TypeOK' /\ S!Unanswered' = S!Unanswered
    BY <1>2 DEF SharedInv, S!TypeOK, S!Set, S!Unanswered, S!Outcome
  <2> QED BY <1>2, <2>1, SamePeers DEF SharedInv, S!Set
<1>3. ASSUME NEW r \in Reader, NEW timed \in BOOLEAN, S!GetFuture(r, timed) PROVE SharedInv'
  <2>1. CASE futureState = "future"
    BY <1>3, <2>1, PeerJoins
  <2>2. CASE futureState # "future"
    <3>1. PICK copy \in S!Outcome : reader' = [reader EXCEPT ![r] = copy]
      BY <1>3, <2>2 DEF S!GetFuture, S!Copies, SharedInv, S!TypeOK, S!Outcome
    <3>2. S!TypeOK' /\ S!Unanswered' = S!Unanswered
      BY <1>3, <2>2, <3>1 DEF SharedInv, S!TypeOK, S!GetFuture, S!Unanswered, S!Outcome
    <3> QED BY <1>3, <2>2, <3>2, SamePeers DEF SharedInv, S!GetFuture
  <2> QED BY <2>1, <2>2
<1>4. ASSUME NEW r \in Reader, S!Read(r) PROVE SharedInv'
  <2>1. S!TypeOK' /\ S!Unanswered' = S!Unanswered
    BY <1>4 DEF SharedInv, S!TypeOK, S!Read, S!Unanswered, S!Outcome
  <2> QED BY <1>4, <2>1, SamePeers DEF SharedInv, S!Read
<1>5. ASSUME NEW i \in DOMAIN peers, S!Expire(i) PROVE SharedInv'
  <2>1. PICK entries, r : entries = [peers EXCEPT ![i].payload = FALSE] /\ r = peers[i].who
    OBVIOUS
  <2>2. /\ ~resolving /\ peers[i].payload /\ reader' = [reader EXCEPT ![r] = "timedout"]
        /\ peers' = S!DropExpired(entries) /\ peerCount' = peerCount - 1
        /\ UNCHANGED <<source, futureState, resolving>>
    BY <1>5, <2>1 DEF S!Expire
  <2>3. r \in S!Unanswered /\ futureState = "future"
    BY <1>1, <2>1, <2>2 DEF SharedInv, Peers
  <2>4. /\ entries \in Seq(S!Entry) /\ DOMAIN entries = DOMAIN peers
        /\ \A j \in DOMAIN peers : entries[j].who = peers[j].who
        /\ \A j \in DOMAIN peers : entries[j].payload <=> peers[j].payload /\ j # i
    <3>1. PICK x : x = peers[i]
      OBVIOUS
    <3>2. /\ [x EXCEPT !.payload = FALSE] \in S!Entry
          /\ [x EXCEPT !.payload = FALSE].who = x.who /\ ~[x EXCEPT !.payload = FALSE].payload
      BY <1>1, <3>1 DEF S!Entry
    <3>3. entries = [peers EXCEPT ![i] = [x EXCEPT !.payload = FALSE]]
      BY <2>1, <3>1
    <3> QED BY <1>1, <3>1, <3>2, <3>3
  <2>5. Peers(entries, S!Unanswered \ {r})
    BY <1>1, <2>1, <2>2, <2>4 DEF Peers
  <2> QED BY <2>2, <2>3, <2>4, <2>5, PeerLeaves
<1>6. CASE S!Resolve
  <2>1. S!TypeOK' /\ S!Unanswered' = S!Unanswered
    BY <1>6 DEF SharedInv, S!TypeOK, S!Resolve, S!Unanswered, S!Outcome
  <2> QED BY <1>6, <2>1, SamePeers DEF SharedInv, S!Resolve
<1>7. CASE S!ResolvePeer
  <2>1. PICK copy \in S!Copies(futureState) : reader' = [reader EXCEPT ![Head(peers).who] = copy]
    BY <1>7 DEF S!ResolvePeer
  <2>2. PICK r : r = Head(peers).who
    OBVIOUS
  <2>3. copy \in {"value", "failed"}
    BY <1>7, <2>1 DEF SharedInv, S!TypeOK, S!ResolvePeer, S!Copies, S!Outcome
  <2>4. peers # << >>
    <3>1. S!Unanswered # {}
      BY <1>7, FS_EmptySet DEF SharedInv, S!ResolvePeer
    <3>2. DOMAIN peers # {}
      BY <1>1, <3>1 DEF Peers
    <3> QED BY <3>2
  <2>5. /\ r = peers[1].who /\ 1 \in DOMAIN peers /\ peers[1].payload
        /\ Tail(peers) \in Seq(S!Entry) /\ Len(Tail(peers)) = Len(peers) - 1
        /\ \A i \in 1 .. Len(peers) - 1 : Tail(peers)[i] = peers[i + 1]
    BY <1>1, <2>2, <2>4 DEF SharedInv
  <2>6. r \in S!Unanswered
    BY <1>1, <2>5 DEF Peers
  <2>7. Peers(Tail(peers), S!Unanswered \ {r})
    <3>1. PICK t : t = Tail(peers)
      OBVIOUS
    <3>2. /\ DOMAIN t = 1 .. Len(peers) - 1
          /\ \A i \in DOMAIN t : i + 1 \in DOMAIN peers /\ i + 1 # 1 /\ i \in Int /\ t[i] = peers[i + 1]
          /\ \A i \in DOMAIN peers : i # 1 => i - 1 \in DOMAIN t /\ peers[i] = t[i - 1]
      BY <1>1, <2>5, <3>1
    <3>3. ASSUME NEW x \in S!Unanswered \ {r}
          PROVE  \E i \in DOMAIN t : t[i].payload /\ t[i].who = x
      BY <1>1, <2>5, <3>2, <3>3 DEF Peers
    <3>4. ASSUME NEW i \in DOMAIN t, t[i].payload
          PROVE  /\ t[i].who \in S!Unanswered \ {r}
                 /\ \A j \in DOMAIN t : t[j].payload /\ t[j].who = t[i].who => i = j
      <4>1. t[i].who \in S!Unanswered \ {r}
        BY <1>1, <2>5, <3>2, <3>4 DEF Peers
      <4>2. \A j \in DOMAIN t : t[j].payload /\ t[j].who = t[i].who => i + 1 = j + 1
        BY <1>1, <3>2, <3>4 DEF Peers
      <4> QED BY <3>2, <4>1, <4>2
    <3> QED BY <3>1, <3>3, <3>4 DEF Peers
  <2> QED BY <1>7, <2>1, <2>2, <2>3, <2>5, <2>6, <2>7, PeerLeaves DEF S!ResolvePeer
<1>8. CASE S!EndResolve
  <2>1. S!TypeOK' /\ S!Unanswered' = S!Unanswered
    BY <1>8 DEF SharedInv, S!TypeOK, S!EndResolve, S!Unanswered, S!Outcome
  <2>2. S!Unanswered = {}
    BY <1>8, UnansweredFinite, FS_EmptySet DEF SharedInv, S!EndResolve
  <2>3. peers = << >>
    <3>1. \A i \in DOMAIN peers : ~peers[i].payload
      BY <1>1, <2>2 DEF Peers
    <3> QED BY <1>1, <3>1 DEF SharedInv
  <2> QED BY <1>8, <2>1, <2>3, SamePeers DEF SharedInv, S!EndResolve
<1>9. CASE UNCHANGED sharedVars
  BY <1>9 DEF sharedVars, SharedInv, S!TypeOK, S!Unanswered
<1> QED BY <1>2, <1>3, <1>4, <1>5, <1>6, <1>7, <1>8, <1>9 DEF SharedNext

\* It holds without readers.
LEMMA SharedInit == MCInit => SharedInv
<1> SUFFICES ASSUME MCInit PROVE SharedInv
  OBVIOUS
<1>1. S!Unanswered = {} /\ peers = << >> /\ peerCount = 0 /\ futureState = "future" /\ resolving = FALSE
  BY DEF MCInit, S!Init, S!Unanswered
<1>2. S!TypeOK
  <2>1. << >> \in Seq(S!Entry)
    OBVIOUS
  <2>2. /\ source = "future" /\ reader = [r \in Reader |-> "none"]
    BY DEF MCInit, S!Init
  <2> QED BY <1>1, <2>1, <2>2 DEF S!TypeOK
<1>3. Peers(peers, S!Unanswered)
  BY <1>1 DEF Peers
<1> QED BY <1>1, <1>2, <1>3, FS_EmptySet DEF SharedInv

\* shared_future: every reader has one live entry until it is answered, and
\* none is left behind by resolve() or by the timeouts of others.
THEOREM SharedPeersAnswered == MCSpec => []PeersAnswered
<1>1. SharedInv /\ [MCNext]_MCVars => SharedInv'
  BY SharedStep, OwnSteps
<1>2. SharedInv => PeersAnswered
  <2> SUFFICES ASSUME SharedInv PROVE PeersAnswered
    OBVIOUS
  <2> DEFINE live == {i \in DOMAIN peers : peers[i].payload}
             of == [i \in live |-> peers[i].who]
  <2>1. of \in [live -> S!Unanswered]
    BY DEF SharedInv, Peers
  <2>2. \A i, j \in live : of[i] = of[j] => i = j
    BY DEF SharedInv, Peers
  <2>3. \A r \in S!Unanswered : \E i \in live : of[i] = r
    BY DEF SharedInv, Peers
  <2>4. of \in Bijection(live, S!Unanswered)
    BY <2>1, <2>2, <2>3 DEF Bijection, Injection, Surjection, IsInjective
  <2>5. Cardinality(live) = Cardinality(S!Unanswered)
    <3>1. ExistsBijection(live, S!Unanswered)
      BY <2>4 DEF ExistsBijection
    <3>2. ExistsBijection(S!Unanswered, live)
      BY <3>1, Fun_ExistsBijSymmetric
    <3> QED BY <3>2, UnansweredFinite, FS_Bijection
  <2>6. /\ peerCount = Cardinality(S!Unanswered)
        /\ peers # << >> => Head(peers).payload
        /\ futureState # "future" /\ ~resolving => peers = << >>
    BY DEF SharedInv
  <2>7. \A r \in S!Unanswered : \E i \in DOMAIN peers : peers[i].payload /\ peers[i].who = r
    BY DEF SharedInv, Peers
  <2> HIDE DEF SharedInv
  <2>8. Cardinality({i \in DOMAIN peers : peers[i].payload}) = Cardinality(S!Unanswered)
    BY <2>5
  <2> HIDE DEF live, of
  <2>9. S!PeersAnswered
    BY <2>6, <2>7, <2>8, SameCardinality DEF S!PeersAnswered
  <2> QED BY <2>9 DEF PeersAnswered
<1> QED BY SharedInit, <1>1, <1>2, PTL DEF MCSpec

-----------------------------------------------------------------------------
(* The joins.  What holds of each kind while its parts end in any order.   *)

\* The joins that pass a future, ret, from part to part.
Chained == {"reducer", "reduce"}

\* Parts are started in order, and a continuation that ran found its future
\* available.
JoinParts ==
    /\ J!TypeOK
    /\ kind = "none" <=> next = 0
    /\ \A i \in 1 .. Parts : /\ part[i] = "none" <=> i >= next
                             /\ i >= next => stage[i] = "none"
                             /\ stage[i] \in {"mapped", "reducing", "done"} => J!Available(i)
                             /\ stage[i] = "mapped" => kind \in Chained
                             /\ stage[i] = "reducing" => kind = "reducer"
                             /\ part[i] = "threw" => kind \in Chained /\ stage[i] \in {"mapped", "done"}
    /\ kind = "none" => answers = << >>
    /\ kind # "for_each" => ex = 0
    /\ kind \notin Chained => reduced = << >>

\* The parts that have a continuation which did not run yet.
AttachedParts == {i \in 1 .. Parts : stage[i] = "attached"}

\* parallel_for_each and when_all of a tuple count the parts that are
\* attached, and the call itself until it is over.
JoinCount ==
    kind \in {"for_each", "tuple"} =>
        /\ waiting = Cardinality(AttachedParts) + (IF next = Parts + 2 THEN 0 ELSE 1)
        /\ waiting # 0 => answers = << >>
        /\ waiting = 0 => Len(answers) = 1 /\ answers[1] = IF kind = "tuple" THEN 0 ELSE ex
        /\ \A i \in 1 .. Parts : i < next /\ stage[i] = "none" => kind = "tuple" /\ J!Available(i)
        /\ kind = "for_each" =>
              /\ ex # 0 => part[ex] = "failed"
              /\ ex = 0 => \A i \in 1 .. Parts : stage[i] = "done" => part[i] = "value"

\* when_all of a vector waits for one part at a time.
JoinVector ==
    kind = "vector" =>
        /\ next # Parts + 2 => answers = << >> /\ \A i \in 1 .. Parts : stage[i] = "none"
        /\ next = Parts + 2 =>
              \/ /\ Len(answers) = 1 /\ answers[1] = 0
                 /\ \A i \in 1 .. Parts : J!Available(i) /\ stage[i] \in {"none", "done"}
              \/ /\ answers = << >>
                 /\ \E j \in 1 .. Parts :
                       /\ stage[j] = "attached"
                       /\ \A i \in (1 .. Parts) \ {j} : stage[i] \in {"none", "done"}
                       /\ \A i \in 1 .. j - 1 : J!Available(i)

\* map_reduce: the continuations that pass ret on end in the order of the
\* parts, and the last of them has the answer.
JoinChain ==
    kind \in Chained \cup {"none"} =>
        /\ ret[0] = 0
        /\ \A i \in 1 .. Parts : /\ ret[i] # -1 <=> stage[i] = "done"
                                 /\ ret[i] <= i
                                 /\ stage[i] = "done" => \A j \in 1 .. i : stage[j] = "done"
                                 /\ kind # "none" /\ i < next => stage[i] # "none"
        /\ \/ answers = << >>
           \/ /\ next = Parts + 2 /\ ret[Parts] # -1
              /\ Len(answers) = 1 /\ answers[1] = ret[Parts]

\* A part has a failure, or a value that is reduced.
Bad(i) == part[i] \in {"failed", "threw"}
Good(i) == part[i] \in {"value", "threw"}

\* With a Reducer: ret has failed with the first failure, and the parts before
\* it were reduced in order, the last of them perhaps not to its end.
JoinReducer ==
    kind = "reducer" =>
        /\ \A i \in 1 .. Parts : stage[i] = "done" =>
              /\ \A j \in 1 .. i : Bad(j) => ret[i] # 0 /\ ret[i] <= j
              /\ ret[i] # 0 => ret[i] \in 1 .. Parts /\ Bad(ret[i])
        /\ \A j \in 1 .. Len(reduced) : reduced[j] = j
        /\ Len(reduced) # 0 => Len(reduced) \in 1 .. Parts /\ stage[Len(reduced)] \in {"reducing", "done"}
        /\ \A j \in 1 .. Parts : /\ j < Len(reduced) => ret[j] = 0
                                 /\ ret[j] = 0 => j <= Len(reduced)
                                 /\ j <= Len(reduced) => Good(j)
                                 /\ part[j] = "threw" => j = Len(reduced)
                                 /\ stage[j] = "reducing" => j = Len(reduced)

\* With an initial value: ret has failed with the last failure, and the values
\* that were mapped are the values that were reduced.
JoinReduce ==
    kind = "reduce" =>
        /\ \A i \in 1 .. Parts : stage[i] = "done" =>
              /\ \A j \in 1 .. i : Bad(j) => j <= ret[i]
              /\ ret[i] # 0 => ret[i] \in 1 .. Parts /\ Bad(ret[i])
        /\ \A j \in 1 .. Len(reduced) :
              reduced[j] \in 1 .. Parts /\ stage[reduced[j]] \in {"mapped", "done"} /\ Good(reduced[j])
        /\ \A j, k \in 1 .. Len(reduced) : reduced[j] = reduced[k] => j = k
        /\ \A i \in 1 .. Parts : stage[i] \in {"mapped", "done"} /\ Good(i) =>
              \E j \in 1 .. Len(reduced) : reduced[j] = i

\* The invariant of the joins.
JoinInv == JoinParts /\ JoinCount /\ JoinVector /\ JoinChain /\ JoinReducer /\ JoinReduce

\* What was reduced with a Reducer is over, but for the last.
LEMMA ReducedInOrder ==
    ASSUME JoinInv, kind = "reducer"
    PROVE  /\ Len(reduced) \in Nat /\ Parts \in Nat
           /\ Len(reduced) = 0 \/ Len(reduced) \in 1 .. Parts
           /\ \A i \in 1 .. Parts : i <= Len(reduced) => stage[i] \in {"reducing", "done"}
           /\ \A i \in 1 .. Parts : i < Len(reduced) => stage[i] = "done" /\ part[i] = "value"
<1>1. Len(reduced) \in Nat /\ Parts \in Nat
  BY ObjectsAssumption DEF JoinInv, JoinParts, J!TypeOK, J!Part
<1>2. Len(reduced) # 0 => Len(reduced) \in 1 .. Parts /\ stage[Len(reduced)] \in {"reducing", "done"}
  BY DEF JoinInv, JoinReducer
<1>3. ASSUME NEW i \in 1 .. Parts, i < Len(reduced) PROVE stage[i] = "done" /\ part[i] = "value"
  <2>1. ret[i] = 0 /\ Good(i) /\ part[i] # "threw"
    BY <1>1, <1>3 DEF JoinInv, JoinReducer
  <2>2. ret[i] # -1 <=> stage[i] = "done"
    BY DEF JoinInv, JoinChain, Chained
  <2> QED BY <2>1, <2>2 DEF Good
<1> QED BY <1>1, <1>2, <1>3

\* The part that changes has not been mapped, and what changes is no outcome.
LEMMA ReducedKept ==
    ASSUME JoinInv, NEW n \in 1 .. Parts, UNCHANGED <<kind, ret, reduced>>,
           \A i \in (1 .. Parts) \ {n} : stage'[i] = stage[i] /\ part'[i] = part[i],
           stage[n] \notin {"mapped", "reducing", "done"},
           stage'[n] \in {stage[n], "attached"} \/ (kind = "reducer" /\ stage'[n] = "mapped"),
           part'[n] = part[n] \/ part'[n] \in {"pending", "value", "failed"}
    PROVE  JoinReducer' /\ JoinReduce'
<1>1. kind \in Chained =>
        \A i \in 1 .. Parts : /\ ret[i] <= i
                              /\ stage[i] = "done" => \A j \in 1 .. i : stage[j] = "done"
  BY DEF JoinInv, JoinChain
<1>2. Parts \in Nat /\ ret \in [0 .. Parts -> -1 .. Parts]
  BY ObjectsAssumption DEF JoinInv, JoinParts, J!TypeOK, J!Pending
<1>3. \A i \in 1 .. Parts : stage'[i] = "done" => i # n /\ stage[i] = "done"
  OBVIOUS
<1>4. kind \in Chained =>
        \A i \in 1 .. Parts : stage[i] = "done" => \A j \in 1 .. i : j \in (1 .. Parts) \ {n}
  BY <1>1, <1>2
<1>5. CASE kind = "reducer"
  <2>1. ~(n <= Len(reduced))
    BY <1>5, ReducedInOrder
  <2>2. /\ \A j \in 1 .. Len(reduced) : reduced[j] = j
        /\ Len(reduced) # 0 => Len(reduced) \in 1 .. Parts /\ stage[Len(reduced)] \in {"reducing", "done"}
        /\ \A j \in 1 .. Parts : /\ j < Len(reduced) => ret[j] = 0
                                 /\ ret[j] = 0 => j <= Len(reduced)
                                 /\ j <= Len(reduced) => Good(j)
                                 /\ part[j] = "threw" => j = Len(reduced)
                                 /\ stage[j] = "reducing" => j = Len(reduced)
    BY <1>5 DEF JoinInv, JoinReducer
  <2>3. /\ part'[n] # "threw" /\ stage'[n] # "reducing"
        /\ \A j \in 1 .. Parts : j <= Len(reduced) => j # n
    BY <1>2, <2>1, <2>2, <1>5, ReducedInOrder
  <2>4. ASSUME NEW i \in 1 .. Parts, stage'[i] = "done"
        PROVE  /\ \A j \in 1 .. i : Bad(j)' => ret'[i] # 0 /\ ret'[i] <= j
               /\ ret'[i] # 0 => ret'[i] \in 1 .. Parts /\ Bad(ret[i])'
    <3>1. /\ \A j \in 1 .. i : Bad(j) => ret[i] # 0 /\ ret[i] <= j
          /\ ret[i] # 0 => ret[i] \in 1 .. Parts /\ Bad(ret[i])
      BY <1>3, <1>5, <2>4 DEF JoinInv, JoinReducer
    <3>2. \A j \in 1 .. i : j \in (1 .. Parts) \ {n}
      BY <1>3, <1>4, <1>5, <2>4 DEF Chained
    <3>3. ret[i] # 0 => ret[i] \in 1 .. i
      BY <1>1, <1>2, <1>5, <3>1 DEF Chained
    <3> QED BY <3>1, <3>2, <3>3 DEF Bad
  <2>5. \A j \in 1 .. Parts : /\ j < Len(reduced) => ret'[j] = 0
                              /\ ret'[j] = 0 => j <= Len(reduced)
                              /\ j <= Len(reduced) => Good(j)'
                              /\ part'[j] = "threw" => j = Len(reduced)
                              /\ stage'[j] = "reducing" => j = Len(reduced)
    BY <2>2, <2>3 DEF Good
  <2>6. Len(reduced) # 0 => Len(reduced) \in 1 .. Parts /\ stage'[Len(reduced)] \in {"reducing", "done"}
    BY <2>2
  <2>7. JoinReducer'
    BY <2>2, <2>4, <2>5, <2>6 DEF JoinReducer
  <2> QED BY <1>5, <2>7 DEF JoinReduce
<1>6. CASE kind = "reduce"
  <2>1. /\ \A j \in 1 .. Len(reduced) :
              reduced[j] \in 1 .. Parts /\ stage[reduced[j]] \in {"mapped", "done"} /\ Good(reduced[j])
        /\ \A j, k \in 1 .. Len(reduced) : reduced[j] = reduced[k] => j = k
        /\ \A i \in 1 .. Parts : stage[i] \in {"mapped", "done"} /\ Good(i) =>
              \E j \in 1 .. Len(reduced) : reduced[j] = i
    BY <1>6 DEF JoinInv, JoinReduce
  <2>2. ASSUME NEW i \in 1 .. Parts, stage'[i] = "done"
        PROVE  /\ \A j \in 1 .. i : Bad(j)' => j <= ret'[i]
               /\ ret'[i] # 0 => ret'[i] \in 1 .. Parts /\ Bad(ret[i])'
    <3>1. /\ \A j \in 1 .. i : Bad(j) => j <= ret[i]
          /\ ret[i] # 0 => ret[i] \in 1 .. Parts /\ Bad(ret[i])
      BY <1>3, <1>6, <2>2 DEF JoinInv, JoinReduce
    <3>2. \A j \in 1 .. i : j \in (1 .. Parts) \ {n}
      BY <1>3, <1>4, <1>6, <2>2 DEF Chained
    <3>3. ret[i] # 0 => ret[i] \in 1 .. i
      BY <1>1, <1>2, <1>6, <3>1 DEF Chained
    <3> QED BY <3>1, <3>2, <3>3 DEF Bad
  <2>3. \A j \in 1 .. Len(reduced) :
            /\ reduced[j] \in (1 .. Parts) \ {n} /\ stage'[reduced[j]] \in {"mapped", "done"}
            /\ part'[reduced[j]] \in {"value", "threw"}
    BY <2>1 DEF Good
  <2>4. \A i \in 1 .. Parts : stage'[i] \in {"mapped", "done"} /\ part'[i] \in {"value", "threw"} =>
            \E j \in 1 .. Len(reduced) : reduced[j] = i
    <3>1. stage'[n] \notin {"mapped", "done"}
      BY <1>6
    <3> QED BY <2>1, <3>1 DEF Good
  <2>5. JoinReduce'
    BY <2>1, <2>2, <2>3, <2>4 DEF JoinReduce, Good
  <2> QED BY <1>6, <2>5 DEF JoinReducer
<1> QED BY <1>5, <1>6 DEF JoinReducer, JoinReduce

\* A join is called: nothing was started or answered.
LEMMA JoinCallStep == ASSUME JoinInv, NEW k \in J!Kind, J!Call(k) PROVE JoinInv'
<1>1. /\ kind = "none" /\ kind' = k /\ k \in {"for_each", "tuple", "vector", "reducer", "reduce"}
      /\ next = 0 /\ next' = 1 /\ Parts \in Nat
      /\ waiting' = IF k \in {"for_each", "tuple"} THEN 1 ELSE 0
      /\ UNCHANGED <<part, stage, ex, ret, reduced, answers>>
  BY ObjectsAssumption DEF J!Call, J!Kind, JoinInv, JoinParts
<1>2. /\ J!TypeOK
      /\ \A i \in 1 .. Parts : part[i] = "none" /\ stage[i] = "none"
      /\ answers = << >> /\ reduced = << >> /\ ex = 0
  BY <1>1 DEF JoinInv, JoinParts, Chained
<1>3. JoinParts'
  <2>1. J!TypeOK'
    BY <1>1, <1>2 DEF J!TypeOK, J!Kind
  <2> QED BY <1>1, <1>2, <2>1 DEF JoinParts, J!Available
<1>4. JoinCount'
  <2>1. AttachedParts' = {}
    BY <1>1, <1>2 DEF AttachedParts
  <2> QED BY <1>1, <1>2, <2>1, FS_EmptySet DEF JoinCount
<1>5. JoinVector'
  BY <1>1, <1>2 DEF JoinVector
<1>6. JoinChain'
  BY <1>1, <1>2 DEF JoinInv, JoinChain, Chained
<1>7. /\ ret[0] = 0 /\ \A i \in 1 .. Parts : ret[i] = -1
  BY <1>1, <1>2 DEF JoinInv, JoinChain, Chained
<1>8. JoinReducer' /\ JoinReduce'
  BY <1>1, <1>2, <1>7 DEF JoinReducer, JoinReduce
<1> QED BY <1>3, <1>4, <1>5, <1>6, <1>8 DEF JoinInv

\* The number of parts that are attached.
LEMMA AttachedFinite == IsFiniteSet(AttachedParts) /\ Cardinality(AttachedParts) \in Nat
<1>1. IsFiniteSet(AttachedParts)
  BY ObjectsAssumption, FS_Interval, FS_Subset DEF AttachedParts
<1> QED BY <1>1, FS_CardinalityType

\* The next function is started, and counted if it is waited for.
LEMMA JoinLaunchStep ==
    ASSUME JoinInv, NEW outcome \in {"pending", "value", "failed"}, J!Launch(outcome)
    PROVE  JoinInv'
<1>1. PICK n : n = next
  OBVIOUS
<1>2. /\ n \in 1 .. Parts /\ next' = n + 1 /\ part' = [part EXCEPT ![n] = outcome]
      /\ IF \/ kind \in {"for_each", "reducer", "reduce"}
            \/ kind = "tuple" /\ outcome = "pending"
         THEN stage' = [stage EXCEPT ![n] = "attached"] ELSE stage' = stage
      /\ waiting' = IF kind = "for_each" \/ (kind = "tuple" /\ outcome = "pending")
                    THEN waiting + 1 ELSE waiting
      /\ UNCHANGED <<kind, ex, ret, reduced, answers>>
      /\ Parts \in Nat
  BY <1>1, ObjectsAssumption DEF J!Launch, J!Becomes, J!Part
<1>3. /\ J!TypeOK /\ kind # "none" /\ kind \in {"for_each", "tuple", "vector", "reducer", "reduce"}
      /\ part[n] = "none" /\ stage[n] = "none"
  BY <1>1, <1>2, SMTT(40) DEF JoinInv, JoinParts, J!TypeOK, J!Kind
<1>4. /\ part \in [1 .. Parts -> {"none", "pending", "value", "failed", "threw"}]
      /\ stage \in [1 .. Parts -> {"none", "attached", "mapped", "reducing", "done"}]
      /\ waiting \in Nat /\ n \in Nat
  BY <1>2, <1>3 DEF J!TypeOK, J!Part
<1>5. /\ \A i \in (1 .. Parts) \ {n} : part'[i] = part[i] /\ stage'[i] = stage[i]
      /\ part'[n] = outcome /\ stage'[n] \in {"none", "attached"}
      /\ part' \in [1 .. Parts -> {"none", "pending", "value", "failed", "threw"}]
      /\ stage' \in [1 .. Parts -> {"none", "attached", "mapped", "reducing", "done"}]
  BY <1>2, <1>3, <1>4
<1>6. JoinParts'
  <2>1. J!TypeOK'
    BY <1>2, <1>3, <1>4, <1>5 DEF J!TypeOK, J!Part
  <2> QED BY <1>1, <1>2, <1>3, <1>4, <1>5, <2>1 DEF JoinInv, JoinParts, J!Available
<1>7. JoinCount'
  <2>1. SUFFICES ASSUME kind \in {"for_each", "tuple"} PROVE JoinCount'
    BY <1>2 DEF JoinCount
  <2>2. waiting = Cardinality(AttachedParts) + 1 /\ answers = << >>
    BY <1>1, <1>2, <1>4, <2>1, AttachedFinite DEF JoinInv, JoinCount
  <2>3. waiting' = Cardinality(AttachedParts') + 1
    <3>1. CASE stage' = stage
      BY <1>2, <1>3, <1>4, <2>1, <2>2, <3>1 DEF AttachedParts
    <3>2. CASE stage' = [stage EXCEPT ![n] = "attached"] /\ waiting' = waiting + 1
      <4>1. AttachedParts' = AttachedParts \cup {n} /\ n \notin AttachedParts
        BY <1>2, <1>3, <1>4, <3>2 DEF AttachedParts
      <4> QED BY <2>2, <3>2, <4>1, AttachedFinite, FS_AddElement
    <3> QED BY <1>2, <2>1, <3>1, <3>2
  <2>4. waiting' # 0 /\ next' # Parts + 2
    BY <1>2, <1>4, <2>2, AttachedFinite
  <2>5. \A i \in 1 .. Parts : i < next' /\ stage'[i] = "none" => kind' = "tuple" /\ J!Available(i)'
    BY <1>1, <1>2, <1>3, <1>4, <1>5, <2>1 DEF JoinInv, JoinCount, J!Available
  <2>6. kind = "for_each" => /\ ex' # 0 => part'[ex'] = "failed"
                             /\ ex' = 0 => \A i \in 1 .. Parts : stage'[i] = "done" => part'[i] = "value"
    <3>1. ex' = ex /\ ex \in 0 .. Parts
      BY <1>2, <1>3 DEF J!TypeOK
    <3>2. kind = "for_each" => /\ ex # 0 => part[ex] = "failed"
                               /\ ex = 0 => \A i \in 1 .. Parts : stage[i] = "done" => part[i] = "value"
      BY <2>1 DEF JoinInv, JoinCount
    <3>3. kind = "for_each" /\ ex # 0 => ex # n /\ ex \in 1 .. Parts
      BY <1>2, <1>3, <3>1, <3>2
    <3> QED BY <1>5, <3>1, <3>2, <3>3
  <2> QED BY <1>2, <2>1, <2>2, <2>3, <2>4, <2>5, <2>6 DEF JoinCount
<1>8. JoinVector'
  BY <1>1, <1>2, <1>3, <1>4 DEF JoinInv, JoinVector
<1>9. JoinChain'
  BY <1>1, <1>2, <1>3, <1>4, <1>5 DEF JoinInv, JoinChain, Chained
<1>10. JoinReducer' /\ JoinReduce'
  <2>1. stage'[n] \in {stage[n], "attached"}
    BY <1>2, <1>4
  <2> QED BY <1>2, <1>3, <1>5, <2>1, ReducedKept
<1> QED BY <1>6, <1>7, <1>8, <1>9, <1>10 DEF JoinInv

\* A function of parallel_for_each throws: its part is over at once.
LEMMA JoinLaunchThrowsStep == ASSUME JoinInv, J!LaunchThrows PROVE JoinInv'
<1>1. PICK n : n = next
  OBVIOUS
<1>2. /\ kind = "for_each" /\ n \in 1 .. Parts /\ next' = n + 1 /\ Parts \in Nat
      /\ part' = [part EXCEPT ![n] = "failed"] /\ stage' = [stage EXCEPT ![n] = "done"]
      /\ ex' = IF ex = 0 THEN n ELSE ex
      /\ waiting' = waiting + 1 - 1
      /\ waiting + 1 # 1 => answers' = answers
      /\ UNCHANGED <<kind, ret, reduced>>
  <2>1. J!LaunchThrows
    OBVIOUS
  <2>2. J!Complete(waiting + 1, ex')
    BY <2>1 DEF J!LaunchThrows
  <2>3. waiting' = waiting + 1 - 1 /\ (waiting + 1 # 1 => answers' = answers)
    <3>1. waiting \in Nat
      BY DEF JoinInv, JoinParts, J!TypeOK
    <3> QED BY <2>2, <3>1 DEF J!Complete, J!Answer
  <2>4. ex' = IF ex = 0 THEN n ELSE ex
    BY <1>1, <2>1 DEF J!LaunchThrows
  <2> QED BY <1>1, <2>1, <2>3, <2>4, ObjectsAssumption DEF J!LaunchThrows, J!Becomes, J!Part
<1>3. J!TypeOK /\ part[n] = "none" /\ stage[n] = "none"
  BY <1>1, <1>2 DEF JoinInv, JoinParts
<1>4. /\ part \in [1 .. Parts -> {"none", "pending", "value", "failed", "threw"}]
      /\ stage \in [1 .. Parts -> {"none", "attached", "mapped", "reducing", "done"}]
      /\ waiting \in Nat /\ n \in Nat /\ ex \in 0 .. Parts
  BY <1>2, <1>3 DEF J!TypeOK, J!Part
<1>5. /\ \A i \in (1 .. Parts) \ {n} : part'[i] = part[i] /\ stage'[i] = stage[i]
      /\ part'[n] = "failed" /\ stage'[n] = "done"
      /\ part' \in [1 .. Parts -> {"none", "pending", "value", "failed", "threw"}]
      /\ stage' \in [1 .. Parts -> {"none", "attached", "mapped", "reducing", "done"}]
  BY <1>2, <1>3, <1>4
<1>6. waiting = Cardinality(AttachedParts) + 1 /\ answers = << >>
  BY <1>1, <1>2, <1>4, AttachedFinite DEF JoinInv, JoinCount
<1>7. waiting' = waiting /\ answers' = answers
  BY <1>2, <1>4, <1>6, AttachedFinite
<1>8. JoinParts'
  <2>1. J!TypeOK'
    BY <1>2, <1>3, <1>4, <1>5, <1>7 DEF J!TypeOK, J!Part
  <2> QED BY <1>1, <1>2, <1>4, <1>5, <1>7, <2>1 DEF JoinInv, JoinParts, J!Available
<1>9. JoinCount'
  <2>1. AttachedParts' = AttachedParts
    BY <1>3, <1>5 DEF AttachedParts
  <2>2. \A i \in 1 .. Parts : i < next' /\ stage'[i] = "none" => kind' = "tuple" /\ J!Available(i)'
    BY <1>1, <1>2, <1>4, <1>5 DEF JoinInv, JoinCount, J!Available
  <2>3. /\ ex' # 0 => part'[ex'] = "failed"
        /\ ex' = 0 => \A i \in 1 .. Parts : stage'[i] = "done" => part'[i] = "value"
    <3>1. /\ ex # 0 => part[ex] = "failed" /\ ex \in 1 .. Parts /\ ex # n
          /\ ex = 0 => \A i \in 1 .. Parts : stage[i] = "done" => part[i] = "value"
      BY <1>2, <1>3, <1>4 DEF JoinInv, JoinCount
    <3>2. CASE ex = 0
      BY <1>2, <1>5, <3>2
    <3>3. CASE ex # 0
      BY <1>2, <1>5, <3>1, <3>3
    <3> QED BY <3>2, <3>3
  <2>4. next' # Parts + 2 /\ waiting' # 0
    BY <1>2, <1>4, <1>6, <1>7, AttachedFinite
  <2> QED BY <1>2, <1>6, <1>7, <2>1, <2>2, <2>3, <2>4 DEF JoinCount
<1>10. JoinVector' /\ JoinChain' /\ JoinReducer' /\ JoinReduce'
  BY <1>2 DEF JoinVector, JoinChain, Chained, JoinReducer, JoinReduce
<1> QED BY <1>8, <1>9, <1>10 DEF JoinInv

\* complete_when_all attaches to the first part from i on that is not
\* available, or answers.
LEMMA AwaitFacts ==
    ASSUME NEW i \in Nat, NEW stages, J!AwaitFrom(i, stages), Parts \in Nat
    PROVE  \/ /\ \A j \in i .. Parts : J!Available(j)
              /\ stage' = stages /\ answers' = Append(answers, 0)
           \/ \E j \in i .. Parts :
                 /\ ~J!Available(j) /\ \A k \in i .. j - 1 : J!Available(k)
                 /\ stage' = [stages EXCEPT ![j] = "attached"]
                 /\ answers' = answers
<1> DEFINE left == {j \in i .. Parts : ~J!Available(j)}
<1>1. CASE left = {}
  BY <1>1 DEF J!AwaitFrom, J!Answer, J!Value
<1>2. CASE left # {}
  <2>1. \E j \in left : \A k \in left : j <= k
    <3>1. left \in SUBSET Nat
      OBVIOUS
    <3> HIDE DEF left
    <3> QED BY <1>2, <3>1, LeastNatural
  <2>2. PICK j : j = CHOOSE l \in left : \A k \in left : l <= k
    OBVIOUS
  <2>3. j \in left /\ \A k \in left : j <= k
    BY <2>1, <2>2
  <2>4. stage' = [stages EXCEPT ![j] = "attached"] /\ answers' = answers
    BY <1>2, <2>2 DEF J!AwaitFrom
  <2>5. \A k \in i .. j - 1 : J!Available(k)
    BY <2>3
  <2> QED BY <2>3, <2>4, <2>5
<1> QED BY <1>1, <1>2

\* A vector whose parts before i have ended waits for the rest.
LEMMA VectorAwaits ==
    ASSUME JoinInv, kind = "vector", UNCHANGED <<kind, part, waiting, ex, ret, reduced>>,
           next' = Parts + 2, next \in {Parts + 1, Parts + 2}, answers = << >>,
           NEW i \in 1 .. Parts + 1, \A j \in 1 .. i - 1 : J!Available(j),
           NEW stages \in [1 .. Parts -> {"none", "done"}], J!AwaitFrom(i, stages),
           \A j \in 1 .. Parts : stages[j] = "done" => J!Available(j)
    PROVE  JoinInv'
<1>1. /\ J!TypeOK /\ Parts \in Nat
      /\ part \in [1 .. Parts -> {"none", "pending", "value", "failed", "threw"}]
  BY ObjectsAssumption DEF JoinInv, JoinParts, J!TypeOK, J!Part
<1>2. \A j \in 1 .. Parts : J!Available(j)' <=> J!Available(j)
  BY DEF J!Available
<1>3. CASE /\ \A j \in i .. Parts : J!Available(j)
           /\ stage' = stages /\ answers' = Append(answers, 0)
  <2>1. Len(answers') = 1 /\ answers'[1] = 0 /\ answers' \in Seq(0 .. Parts)
    BY <1>1, <1>3
  <2>2. \A j \in 1 .. Parts : J!Available(j)
    BY <1>1, <1>3
  <2>3. JoinParts'
    <3>1. J!TypeOK'
      BY <1>1, <1>3, <2>1 DEF J!TypeOK, J!Part
    <3> QED BY <1>1, <1>2, <1>3, <2>2, <3>1 DEF JoinInv, JoinParts, Chained
  <2>4. JoinVector'
    BY <1>2, <1>3, <2>1, <2>2 DEF JoinVector
  <2> QED BY <2>3, <2>4 DEF JoinInv, JoinCount, JoinChain, Chained, JoinReducer, JoinReduce
<1>4. ASSUME NEW j \in i .. Parts, ~J!Available(j), \A k \in i .. j - 1 : J!Available(k),
             stage' = [stages EXCEPT ![j] = "attached"], answers' = answers
      PROVE  JoinInv'
  <2>1. /\ j \in 1 .. Parts /\ stage'[j] = "attached"
        /\ \A k \in (1 .. Parts) \ {j} : stage'[k] = stages[k]
        /\ stage' \in [1 .. Parts -> {"none", "attached", "mapped", "reducing", "done"}]
    BY <1>1, <1>4
  <2>2. \A k \in 1 .. j - 1 : J!Available(k)
    BY <1>1, <1>4
  <2>3. JoinParts'
    <3>1. J!TypeOK'
      BY <1>1, <1>4, <2>1 DEF J!TypeOK, J!Part
    <3> QED BY <1>1, <1>2, <1>4, <2>1, <3>1 DEF JoinInv, JoinParts, Chained
  <2>4. JoinVector'
    <3>1. \A k \in 1 .. j - 1 : J!Available(k)'
      BY <1>1, <1>2, <2>1, <2>2
    <3> QED BY <1>4, <2>1, <3>1 DEF JoinVector
  <2> QED BY <2>3, <2>4 DEF JoinInv, JoinCount, JoinChain, Chained, JoinReducer, JoinReduce
<1>5. i \in Nat
  BY <1>1
<1> QED BY <1>1, <1>3, <1>4, <1>5, AwaitFacts

\* The call gives its own reference back.
LEMMA JoinReturnStep == ASSUME JoinInv, J!Return PROVE JoinInv'
<1>1. /\ next = Parts + 1 /\ next' = Parts + 2 /\ Parts \in Nat
      /\ UNCHANGED <<kind, part, ex, ret, reduced>>
      /\ kind \in {"for_each", "tuple", "vector", "reducer", "reduce"}
      /\ J!TypeOK
  BY ObjectsAssumption, SMTT(40) DEF J!Return, JoinInv, JoinParts, J!TypeOK, J!Kind
<1>2. CASE kind \in {"for_each", "tuple"}
  <2>1. J!Complete(waiting, ex) /\ stage' = stage
    BY <1>1, <1>2, Zenon DEF J!Return
  <2>2. /\ waiting' = waiting - 1
        /\ waiting = 1 => answers' = Append(answers, ex)
        /\ waiting # 1 => answers' = answers
    BY <2>1 DEF J!Complete, J!Answer
  <2>3. waiting = Cardinality(AttachedParts) + 1 /\ answers = << >> /\ waiting \in Nat
    BY <1>1, <1>2, AttachedFinite DEF JoinInv, JoinCount
  <2>4. /\ waiting' \in Nat /\ waiting' = Cardinality(AttachedParts')
        /\ waiting' # 0 => answers' = << >>
        /\ waiting' = 0 => Len(answers') = 1 /\ answers'[1] = ex
        /\ answers' \in Seq(0 .. Parts)
    <3>1. AttachedParts' = AttachedParts /\ ex \in 0 .. Parts
      BY <1>1, <2>1 DEF AttachedParts, J!TypeOK
    <3>2. waiting' \in Nat /\ waiting' = Cardinality(AttachedParts)
      BY <2>2, <2>3, AttachedFinite
    <3>3. CASE waiting = 1
      <4>1. answers' = Append(<< >>, ex) /\ waiting' = 0
        BY <2>2, <2>3, <3>3
      <4>2. Len(answers') = 1 /\ answers'[1] = ex /\ answers' \in Seq(0 .. Parts)
        BY <3>1, <4>1
      <4> QED BY <3>1, <3>2, <4>1, <4>2
    <3>4. CASE waiting # 1
      <4>1. answers' = << >> /\ waiting' # 0
        BY <2>2, <2>3, <3>4
      <4>2. << >> \in Seq(0 .. Parts)
        OBVIOUS
      <4> QED BY <3>1, <3>2, <4>1, <4>2
    <3> QED BY <3>3, <3>4
  <2>5. JoinParts'
    <3>1. J!TypeOK'
      BY <1>1, <2>1, <2>4, SMTT(40) DEF J!TypeOK
    <3> QED BY <1>1, <1>2, <2>1, <3>1, SMTT(40) DEF JoinInv, JoinParts, J!Available, J!TypeOK
  <2>6. JoinCount'
    <3>1. kind = "tuple" => ex = 0
      BY DEF JoinInv, JoinParts
    <3>2. \A i \in 1 .. Parts : stage'[i] = "none" => kind' = "tuple" /\ J!Available(i)'
      BY <1>1, <1>2, <2>1 DEF JoinInv, JoinCount, J!Available
    <3>3. kind = "for_each" => /\ ex' # 0 => part'[ex'] = "failed"
                               /\ ex' = 0 => \A i \in 1 .. Parts : stage'[i] = "done" => part'[i] = "value"
      BY <1>1, <1>2, <2>1 DEF JoinInv, JoinCount
    <3> QED BY <1>1, <1>2, <2>4, <3>1, <3>2, <3>3 DEF JoinCount
  <2>7. JoinVector' /\ JoinChain' /\ JoinReducer' /\ JoinReduce'
    BY <1>1, <1>2 DEF JoinVector, JoinChain, Chained, JoinReducer, JoinReduce
  <2> QED BY <2>5, <2>6, <2>7 DEF JoinInv
<1>3. CASE kind = "vector"
  <2>1. J!AwaitFrom(1, stage) /\ waiting' = waiting
    BY <1>1, <1>3, Zenon DEF J!Return
  <2>2. answers = << >> /\ \A i \in 1 .. Parts : stage[i] = "none"
    BY <1>1, <1>3 DEF JoinInv, JoinVector
  <2>3. stage \in [1 .. Parts -> {"none", "done"}]
    BY <1>1, <2>2 DEF J!TypeOK, J!Part
  <2>4. 1 \in 1 .. Parts + 1 /\ \A j \in 1 .. 1 - 1 : J!Available(j)
    BY <1>1
  <2> QED BY <1>1, <1>3, <2>1, <2>2, <2>3, <2>4, VectorAwaits
<1>4. CASE kind \in {"reducer", "reduce"}
  <2>1. UNCHANGED <<stage, waiting, answers>>
    BY <1>4, Zenon DEF J!Return
  <2>2. JoinParts'
    <3>1. J!TypeOK'
      BY <1>1, <2>1 DEF J!TypeOK
    <3> QED BY <1>1, <1>4, <2>1, <3>1 DEF JoinInv, JoinParts, J!Available, J!TypeOK
  <2>3. JoinChain'
    <3>1. \A i \in 1 .. Parts : i < next
      BY <1>1
    <3> QED BY <1>1, <1>4, <2>1, <3>1 DEF JoinInv, JoinChain, Chained
  <2>4. JoinReducer' /\ JoinReduce'
    BY <1>1, <2>1 DEF JoinInv, JoinReducer, JoinReduce, Good, Bad
  <2>5. JoinCount' /\ JoinVector'
    BY <1>1, <1>4 DEF JoinCount, JoinVector
  <2> QED BY <2>2, <2>3, <2>4, <2>5 DEF JoinInv
<1> QED BY <1>1, <1>2, <1>3, <1>4

\* The future of a part resolves; only its continuation changes the join.
LEMMA JoinResolveStep == ASSUME JoinInv, NEW n \in 1 .. Parts, J!Resolve(n) PROVE JoinInv'
<1>1. PICK outcome \in {"value", "failed"} : part' = [part EXCEPT ![n] = outcome]
  BY DEF J!Resolve
<1>2. /\ part[n] = "pending" /\ J!TypeOK /\ Parts \in Nat
      /\ UNCHANGED <<kind, next, stage, waiting, ex, ret, reduced, answers>>
      /\ part \in [1 .. Parts -> {"none", "pending", "value", "failed", "threw"}]
  BY ObjectsAssumption DEF J!Resolve, JoinInv, JoinParts, J!TypeOK, J!Part
<1>3. /\ \A i \in (1 .. Parts) \ {n} : part'[i] = part[i]
      /\ part'[n] = outcome
      /\ part' \in [1 .. Parts -> {"none", "pending", "value", "failed", "threw"}]
      /\ stage[n] \notin {"mapped", "reducing", "done"}
      /\ \A i \in 1 .. Parts : J!Available(i) => J!Available(i)'
  BY <1>1, <1>2 DEF JoinInv, JoinParts, J!Available
<1>4. JoinParts'
  <2>1. J!TypeOK'
    BY <1>2, <1>3 DEF J!TypeOK, J!Part
  <2> QED BY <1>2, <1>3, <2>1 DEF JoinInv, JoinParts
<1>5. JoinCount'
  <2>1. AttachedParts' = AttachedParts
    BY <1>2 DEF AttachedParts
  <2>2. kind = "for_each" /\ ex # 0 => ex \in 1 .. Parts /\ ex # n
    BY <1>2 DEF JoinInv, JoinCount, J!TypeOK
  <2> QED BY <1>2, <1>3, <2>1, <2>2 DEF JoinInv, JoinCount
<1>6. JoinVector'
  BY <1>2, <1>3 DEF JoinInv, JoinVector
<1>7. JoinChain'
  BY <1>2, <1>3 DEF JoinInv, JoinChain, Chained
<1>8. JoinReducer' /\ JoinReduce'
  BY <1>2, <1>3, ReducedKept
<1> QED BY <1>4, <1>5, <1>6, <1>7, <1>8 DEF JoinInv

\* A counted part whose continuation runs leaves; e is what the join answers
\* when it was the last one.
LEMMA CountedLeaves ==
    ASSUME JoinInv, NEW n \in 1 .. Parts, J!Runs(n, kind), kind \in {"for_each", "tuple"},
           J!Becomes(n, "done"), ex' \in 0 .. Parts, NEW e, J!Complete(waiting, e),
           e = IF kind = "tuple" THEN 0 ELSE ex',
           kind = "tuple" => ex' = ex,
           kind = "for_each" => ex' = IF part[n] = "failed" /\ ex = 0 THEN n ELSE ex,
           UNCHANGED <<kind, next, part, ret, reduced>>
    PROVE  JoinInv'
<1>1. /\ next = Parts + 2 /\ Parts \in Nat /\ J!TypeOK
      /\ stage[n] = "attached" /\ J!Available(n)
      /\ stage \in [1 .. Parts -> {"none", "attached", "mapped", "reducing", "done"}]
      /\ stage' = [stage EXCEPT ![n] = "done"]
  BY ObjectsAssumption DEF J!Runs, J!Becomes, JoinInv, JoinParts, J!TypeOK, J!Part
<1>2. /\ \A i \in (1 .. Parts) \ {n} : stage'[i] = stage[i]
      /\ stage'[n] = "done" /\ stage' \in [1 .. Parts -> {"none", "attached", "mapped", "reducing", "done"}]
  BY <1>1
<1>3. waiting = Cardinality(AttachedParts) /\ waiting \in Nat
  BY <1>1, AttachedFinite DEF JoinInv, JoinCount
<1>4. /\ AttachedParts' = AttachedParts \ {n} /\ n \in AttachedParts
      /\ waiting # 0 /\ waiting - 1 \in Nat
      /\ Cardinality(AttachedParts') = waiting - 1
  <2>1. AttachedParts' = AttachedParts \ {n} /\ n \in AttachedParts
    BY <1>1, <1>2 DEF AttachedParts
  <2>2. waiting # 0
    BY <1>3, <2>1, AttachedFinite, FS_EmptySet
  <2> QED BY <1>3, <2>1, <2>2, AttachedFinite, FS_RemoveElement
<1>5. answers = << >>
  BY <1>4 DEF JoinInv, JoinCount
<1>6. e \in 0 .. Parts
  BY <1>1
<1>7. /\ waiting' = waiting - 1
      /\ waiting' # 0 => answers' = << >>
      /\ waiting' = 0 => Len(answers') = 1 /\ answers'[1] = e
      /\ answers' \in Seq(0 .. Parts)
  <2>1. /\ waiting' = waiting - 1
        /\ waiting = 1 => answers' = Append(answers, e)
        /\ waiting # 1 => answers' = answers
    BY <1>3 DEF J!Complete, J!Answer
  <2>2. CASE waiting = 1
    <3>1. answers' = Append(<< >>, e) /\ waiting' = 0
      BY <1>5, <2>1, <2>2
    <3>2. Len(answers') = 1 /\ answers'[1] = e /\ answers' \in Seq(0 .. Parts)
      BY <1>6, <3>1
    <3> QED BY <2>1, <3>1, <3>2
  <2>3. CASE waiting # 1
    <3>1. answers' = << >> /\ waiting' # 0
      BY <1>3, <1>5, <2>1, <2>3
    <3>2. << >> \in Seq(0 .. Parts)
      OBVIOUS
    <3> QED BY <2>1, <3>1, <3>2
  <2> QED BY <2>2, <2>3
<1>8. JoinParts'
  <2>1. J!TypeOK'
    BY <1>1, <1>2, <1>4, <1>7 DEF J!TypeOK, J!Part
  <2>2. kind # "for_each" => ex' = 0
    BY DEF JoinInv, JoinParts
  <2> QED BY <1>1, <1>2, <2>1, <2>2 DEF JoinInv, JoinParts, J!Available
<1>9. JoinCount'
  <2>1. \A i \in 1 .. Parts : stage'[i] = "none" => kind' = "tuple" /\ J!Available(i)'
    BY <1>1, <1>2 DEF JoinInv, JoinCount, J!Available
  <2>2. kind = "for_each" => /\ ex' # 0 => part'[ex'] = "failed"
                             /\ ex' = 0 => \A i \in 1 .. Parts : stage'[i] = "done" => part'[i] = "value"
    <3>1. kind = "for_each" => /\ ex # 0 => part[ex] = "failed"
                               /\ ex = 0 => \A i \in 1 .. Parts : stage[i] = "done" => part[i] = "value"
      BY DEF JoinInv, JoinCount
    <3>2. kind = "for_each" => part[n] # "threw"
      BY DEF JoinInv, JoinParts, Chained
    <3> QED BY <1>1, <1>2, <3>1, <3>2 DEF J!Available
  <2> QED BY <1>1, <1>4, <1>7, <2>1, <2>2 DEF JoinCount
<1>10. JoinVector' /\ JoinChain' /\ JoinReducer' /\ JoinReduce'
  BY DEF JoinVector, JoinChain, Chained, JoinReducer, JoinReduce
<1> QED BY <1>8, <1>9, <1>10 DEF JoinInv

\* The continuations of parallel_for_each and when_all leave the count.
LEMMA JoinForEachStep == ASSUME JoinInv, NEW n \in 1 .. Parts, J!ForEachContinues(n) PROVE JoinInv'
<1>1. /\ kind = "for_each" /\ J!Runs(n, kind) /\ J!Becomes(n, "done") /\ J!Complete(waiting, ex')
      /\ ex' = IF part[n] = "failed" /\ ex = 0 THEN n ELSE ex
      /\ UNCHANGED <<kind, next, part, ret, reduced>>
  BY DEF J!ForEachContinues, J!Runs
<1>2. ex' \in 0 .. Parts
  BY <1>1, ObjectsAssumption DEF JoinInv, JoinParts, J!TypeOK
<1> QED BY <1>1, <1>2, CountedLeaves

\* The same for when_all of a tuple, which keeps no exception.
LEMMA JoinTupleStep == ASSUME JoinInv, NEW n \in 1 .. Parts, J!TupleContinues(n) PROVE JoinInv'
<1>1. /\ kind = "tuple" /\ J!Runs(n, kind) /\ J!Becomes(n, "done") /\ J!Complete(waiting, 0)
      /\ UNCHANGED <<kind, next, part, ex, ret, reduced>>
  BY DEF J!TupleContinues, J!Runs, J!Value
<1>2. ex' \in 0 .. Parts
  BY <1>1, ObjectsAssumption DEF JoinInv, JoinParts, J!TypeOK
<1> QED BY <1>1, <1>2, CountedLeaves

\* complete_when_all goes on from the part that was waited for.
LEMMA JoinVectorStep == ASSUME JoinInv, NEW n \in 1 .. Parts, J!VectorContinues(n) PROVE JoinInv'
<1>1. PICK stages : stages = [stage EXCEPT ![n] = "done"]
  OBVIOUS
<1>2. /\ kind = "vector" /\ next = Parts + 2 /\ stage[n] = "attached" /\ J!Available(n)
      /\ J!AwaitFrom(n + 1, stages) /\ Parts \in Nat
      /\ UNCHANGED <<kind, next, part, waiting, ex, ret, reduced>>
      /\ stage \in [1 .. Parts -> {"none", "attached", "mapped", "reducing", "done"}]
  BY <1>1, ObjectsAssumption DEF J!VectorContinues, J!Runs, JoinInv, JoinParts, J!TypeOK, J!Part
<1>3. /\ answers = << >>
      /\ \A i \in (1 .. Parts) \ {n} : stage[i] \in {"none", "done"}
      /\ \A i \in 1 .. n - 1 : J!Available(i)
  BY <1>2 DEF JoinInv, JoinVector
<1>4. /\ stages \in [1 .. Parts -> {"none", "done"}]
      /\ \A j \in 1 .. Parts : stages[j] = "done" => J!Available(j)
  BY <1>1, <1>2, <1>3 DEF JoinInv, JoinParts
<1>5. n + 1 \in 1 .. Parts + 1 /\ \A j \in 1 .. n + 1 - 1 : J!Available(j)
  BY <1>2, <1>3
<1>6. next' = Parts + 2 /\ next \in {Parts + 1, Parts + 2}
  BY <1>2
<1> QED BY <1>2, <1>3, <1>4, <1>5, <1>6, VectorAwaits

\* A part of map_reduce whose future is there is mapped.
LEMMA PartMapped ==
    ASSUME JoinInv, NEW n \in 1 .. Parts, kind \in Chained, J!Runs(n, kind), J!Becomes(n, "mapped"),
           NEW outcome \in {"value", "failed", "threw"}, part' = [part EXCEPT ![n] = outcome],
           UNCHANGED <<kind, next, waiting, ex, ret, answers>>,
           IF kind = "reduce" /\ outcome # "failed"
           THEN reduced' = Append(reduced, n) ELSE reduced' = reduced /\ outcome = part[n]
    PROVE  JoinInv'
<1>1. /\ next = Parts + 2 /\ Parts \in Nat /\ J!TypeOK
      /\ stage[n] = "attached" /\ J!Available(n) /\ part[n] # "threw"
      /\ stage \in [1 .. Parts -> {"none", "attached", "mapped", "reducing", "done"}]
      /\ part \in [1 .. Parts -> {"none", "pending", "value", "failed", "threw"}]
      /\ stage' = [stage EXCEPT ![n] = "mapped"]
  BY ObjectsAssumption DEF J!Runs, J!Becomes, JoinInv, JoinParts, J!TypeOK, J!Part
<1>2. /\ \A i \in (1 .. Parts) \ {n} : stage'[i] = stage[i] /\ part'[i] = part[i]
      /\ stage'[n] = "mapped" /\ stage' \in [1 .. Parts -> {"none", "attached", "mapped", "reducing", "done"}]
      /\ part'[n] = outcome /\ part' \in [1 .. Parts -> {"none", "pending", "value", "failed", "threw"}]
  BY <1>1
<1>3. reduced \in Seq(1 .. Parts) /\ Len(reduced) \in Nat /\ reduced' \in Seq(1 .. Parts)
  <2>1. reduced \in Seq(1 .. Parts)
    BY <1>1 DEF J!TypeOK, J!Part
  <2>2. CASE reduced' = reduced
    BY <2>1, <2>2
  <2>3. CASE reduced' = Append(reduced, n)
    BY <2>1, <2>3
  <2> QED BY <2>2, <2>3
<1>4. JoinParts'
  <2>1. J!TypeOK'
    BY <1>1, <1>2, <1>3 DEF J!TypeOK, J!Part
  <2> QED BY <1>1, <1>2, <2>1 DEF JoinInv, JoinParts, J!Available, Chained
<1>5. JoinChain'
  BY <1>1, <1>2 DEF JoinInv, JoinChain, Chained
<1>6. \A i \in 1 .. Parts : stage[i] = "done" => \A j \in 1 .. i : j \in (1 .. Parts) \ {n}
  BY <1>1 DEF JoinInv, JoinChain
<1>7. CASE kind = "reducer"
  <2>1. reduced' = reduced /\ outcome = part[n]
    BY <1>7
  <2> QED BY <1>1, <1>2, <1>4, <1>5, <1>7, <2>1, ReducedKept DEF JoinInv, JoinCount, JoinVector
<1>8. CASE kind = "reduce"
  <2>1. /\ \A j \in 1 .. Len(reduced) :
              reduced[j] \in 1 .. Parts /\ stage[reduced[j]] \in {"mapped", "done"} /\ Good(reduced[j])
        /\ \A j, k \in 1 .. Len(reduced) : reduced[j] = reduced[k] => j = k
        /\ \A i \in 1 .. Parts : stage[i] \in {"mapped", "done"} /\ Good(i) =>
              \E j \in 1 .. Len(reduced) : reduced[j] = i
    BY <1>8 DEF JoinInv, JoinReduce
  <2>2. ASSUME NEW i \in 1 .. Parts, stage'[i] = "done"
        PROVE  /\ \A j \in 1 .. i : Bad(j)' => j <= ret'[i]
               /\ ret'[i] # 0 => ret'[i] \in 1 .. Parts /\ Bad(ret[i])'
    <3>1. stage[i] = "done"
      BY <1>2, <2>2
    <3>2. /\ \A j \in 1 .. i : Bad(j) => j <= ret[i]
          /\ ret[i] # 0 => ret[i] \in 1 .. Parts /\ Bad(ret[i])
      BY <1>8, <3>1 DEF JoinInv, JoinReduce
    <3>3. ret[i] # 0 => ret[i] \in 1 .. i
      BY <1>1, <3>2 DEF JoinInv, JoinChain
    <3> QED BY <1>2, <1>6, <3>1, <3>2, <3>3 DEF Bad
  <2>3. CASE outcome = "failed"
    <3>1. reduced' = reduced
      BY <2>3
    <3>2. \A j \in 1 .. Len(reduced) : reduced[j] # n
      BY <1>1, <2>1
    <3> QED BY <1>2, <1>4, <1>5, <1>8, <2>1, <2>2, <2>3, <3>1, <3>2
            DEF JoinInv, JoinReduce, JoinReducer, JoinCount, JoinVector, Good
  <2>4. CASE outcome # "failed"
    <3>1. reduced' = Append(reduced, n)
      BY <1>8, <2>4
    <3>2. /\ Len(reduced') = Len(reduced) + 1 /\ reduced'[Len(reduced) + 1] = n
          /\ \A j \in 1 .. Len(reduced) : reduced'[j] = reduced[j] /\ j \in 1 .. Len(reduced')
      BY <1>3, <3>1
    <3>3. \A j \in 1 .. Len(reduced') : \/ (j \in 1 .. Len(reduced) /\ reduced'[j] = reduced[j])
                                         \/ (j = Len(reduced) + 1 /\ reduced'[j] = n)
      BY <1>3, <3>2
    <3>4. Good(n)'
      BY <1>2, <2>4 DEF Good
    <3>5. \A j \in 1 .. Len(reduced) : reduced[j] \in (1 .. Parts) \ {n} /\ Good(reduced[j])'
      BY <1>1, <1>2, <2>1, SMTT(40) DEF Good
    <3>6. \A j \in 1 .. Len(reduced') :
              reduced'[j] \in 1 .. Parts /\ stage'[reduced'[j]] \in {"mapped", "done"} /\ Good(reduced[j])'
      <4>1. ASSUME NEW j \in 1 .. Len(reduced')
            PROVE  reduced'[j] \in 1 .. Parts /\ stage'[reduced'[j]] \in {"mapped", "done"} /\ Good(reduced[j])'
        <5>1. CASE j \in 1 .. Len(reduced) /\ reduced'[j] = reduced[j]
          BY <1>2, <2>1, <3>5, <5>1 DEF Good
        <5>2. CASE reduced'[j] = n
          BY <1>2, <3>4, <5>2 DEF Good
        <5> QED BY <3>3, <5>1, <5>2
      <4> QED BY <4>1
    <3>7. ASSUME NEW j \in 1 .. Len(reduced'), NEW k \in 1 .. Len(reduced'), reduced'[j] = reduced'[k]
          PROVE  j = k
      BY <2>1, <3>3, <3>5, <3>7
    <3>8. ASSUME NEW i \in 1 .. Parts, stage'[i] \in {"mapped", "done"}, Good(i)'
          PROVE  \E j \in 1 .. Len(reduced') : reduced'[j] = i
      <4>1. CASE i = n
        BY <1>3, <3>2, <4>1
      <4>2. CASE i # n
        BY <1>2, <2>1, <3>2, <3>8, <4>2 DEF Good
      <4> QED BY <4>1, <4>2
    <3>9. JoinReduce'
      BY <1>8, <2>2, <3>6, <3>7, <3>8 DEF JoinReduce
    <3> QED BY <1>4, <1>5, <1>8, <3>9 DEF JoinInv, JoinReducer, JoinCount, JoinVector
  <2> QED BY <2>3, <2>4
<1> QED BY <1>7, <1>8 DEF Chained

\* map_reduce: the continuation on a mapper's future, which reduces if there is
\* an initial value.
LEMMA JoinMappedStep ==
    ASSUME JoinInv, NEW n \in 1 .. Parts, J!ReducerContinues(n) \/ J!ReduceContinues(n)
    PROVE  JoinInv'
<1>1. /\ part \in [1 .. Parts -> {"none", "pending", "value", "failed", "threw"}]
      /\ stage[n] = "attached" => part[n] # "threw"
  BY DEF JoinInv, JoinParts, J!TypeOK, J!Part
<1>2. CASE J!ReducerContinues(n)
  <2>1. /\ kind = "reducer" /\ J!Runs(n, kind) /\ J!Becomes(n, "mapped")
        /\ UNCHANGED <<kind, next, part, waiting, ex, ret, reduced, answers>>
    BY <1>2 DEF J!ReducerContinues, J!Runs
  <2>2. part[n] \in {"value", "failed", "threw"}
    BY <2>1 DEF J!Runs, J!Available
  <2>3. part' = [part EXCEPT ![n] = part[n]]
    BY <1>1, <2>1
  <2> QED BY <2>1, <2>2, <2>3, PartMapped DEF Chained
<1>3. CASE J!ReduceContinues(n)
  <2>1. /\ kind = "reduce" /\ J!Runs(n, kind) /\ J!Becomes(n, "mapped")
        /\ UNCHANGED <<kind, next, waiting, ex, ret, answers>>
    BY <1>3 DEF J!ReduceContinues, J!Runs
  <2>2. part[n] \in {"value", "failed"}
    BY <1>1, <2>1 DEF J!Runs, J!Available
  <2>3. CASE part[n] = "value"
    <3>1. /\ reduced' = Append(reduced, n)
          /\ \E outcome \in {"value", "threw"} : part' = [part EXCEPT ![n] = outcome]
      BY <1>3, <2>3 DEF J!ReduceContinues
    <3> QED BY <2>1, <3>1, PartMapped DEF Chained
  <2>4. CASE part[n] = "failed"
    <3>1. reduced' = reduced /\ part' = [part EXCEPT ![n] = part[n]]
      BY <1>1, <1>3, <2>4 DEF J!ReduceContinues
    <3> QED BY <2>1, <2>4, <3>1, PartMapped DEF Chained
  <2> QED BY <2>2, <2>3, <2>4
<1> QED BY <1>2, <1>3

\* A part that was mapped, or whose reduction ends, passes v on to the next.
LEMMA PassedOn ==
    ASSUME JoinInv, NEW n \in 1 .. Parts, kind \in Chained,
           stage[n] \in {"mapped", "reducing"}, ret[n - 1] # -1, J!Becomes(n, "done"),
           NEW v \in 0 .. n, ret' = [ret EXCEPT ![n] = v],
           NEW outcome \in {"value", "failed", "threw"}, part' = [part EXCEPT ![n] = outcome],
           UNCHANGED <<kind, next, waiting, ex, reduced, answers>>
    PROVE  /\ JoinParts' /\ JoinCount' /\ JoinVector' /\ JoinChain'
           /\ n \in Nat /\ Parts \in Nat
           /\ \A i \in (1 .. Parts) \ {n} : stage'[i] = stage[i] /\ ret'[i] = ret[i] /\ part'[i] = part[i]
           /\ stage'[n] = "done" /\ ret'[n] = v /\ ret'[0] = 0 /\ part'[n] = outcome
           /\ ret[n - 1] \in 0 .. n - 1
           /\ \A j \in 1 .. n - 1 : stage[j] = "done" /\ j \in 1 .. Parts
           /\ n > 1 => stage[n - 1] = "done"
           /\ \A i \in 1 .. Parts : stage[i] = "done" => i < n
<1>1. /\ Parts \in Nat /\ J!TypeOK /\ n \in Nat
      /\ stage \in [1 .. Parts -> {"none", "attached", "mapped", "reducing", "done"}]
      /\ part \in [1 .. Parts -> {"none", "pending", "value", "failed", "threw"}]
      /\ ret \in [0 .. Parts -> -1 .. Parts]
      /\ stage' = [stage EXCEPT ![n] = "done"]
  BY ObjectsAssumption, SMTT(40) DEF J!Becomes, JoinInv, JoinParts, J!TypeOK, J!Part, J!Pending
<1>2. /\ \A i \in (1 .. Parts) \ {n} : stage'[i] = stage[i] /\ ret'[i] = ret[i] /\ part'[i] = part[i]
      /\ stage'[n] = "done" /\ stage' \in [1 .. Parts -> {"none", "attached", "mapped", "reducing", "done"}]
      /\ part'[n] = outcome /\ part' \in [1 .. Parts -> {"none", "pending", "value", "failed", "threw"}]
      /\ ret'[n] = v /\ ret' \in [0 .. Parts -> -1 .. Parts] /\ ret'[0] = ret[0]
  BY <1>1
<1>3. /\ ret[0] = 0
      /\ \A i \in 1 .. Parts : /\ ret[i] # -1 <=> stage[i] = "done"
                               /\ ret[i] <= i
                               /\ stage[i] = "done" => \A j \in 1 .. i : stage[j] = "done"
      /\ answers # << >> => next = Parts + 2 /\ ret[Parts] # -1
  BY DEF JoinInv, JoinChain
<1>4. /\ n > 1 => stage[n - 1] = "done" /\ n - 1 \in 1 .. Parts
      /\ \A j \in 1 .. n - 1 : stage[j] = "done" /\ j \in 1 .. Parts
      /\ ret[n - 1] \in 0 .. n - 1
  <2>1. CASE n = 1
    BY <1>1, <1>3, <2>1
  <2>2. CASE n # 1
    <3>1. n - 1 \in 1 .. Parts /\ ret[n - 1] \in -1 .. Parts
      BY <1>1, <2>2
    <3>2. stage[n - 1] = "done" /\ ret[n - 1] <= n - 1
      BY <1>3, <3>1
    <3> QED BY <1>1, <1>3, <3>1, <3>2
  <2> QED BY <2>1, <2>2
<1>5. \A i \in 1 .. Parts : stage[i] = "done" => i < n
  <2>1. ASSUME NEW i \in 1 .. Parts, stage[i] = "done", i >= n PROVE FALSE
    <3>1. n \in 1 .. i
      BY <1>1, <2>1
    <3> QED BY <1>3, <2>1, <3>1
  <2> QED BY <1>1, <2>1
<1>6. JoinParts'
  <2>1. J!TypeOK'
    BY <1>1, <1>2 DEF J!TypeOK, J!Part, J!Pending
  <2> QED BY <1>1, <1>2, <2>1, SMTT(40) DEF JoinInv, JoinParts, J!Available
<1>7. JoinChain'
  <2>1. answers = << >>
    <3>1. ret[Parts] = -1
      <4>1. Parts \in 1 .. Parts /\ ret[Parts] \in -1 .. Parts
        BY <1>1
      <4>2. stage[Parts] # "done"
        BY <1>1, <1>5, <4>1
      <4> QED BY <1>3, <4>1, <4>2
    <3> QED BY <1>3, <3>1
  <2>2. ASSUME NEW i \in 1 .. Parts
        PROVE  /\ ret'[i] # -1 <=> stage'[i] = "done"
               /\ ret'[i] <= i
               /\ stage'[i] = "done" => \A j \in 1 .. i : stage'[j] = "done"
               /\ kind' # "none" /\ i < next' => stage'[i] # "none"
    <3>1. CASE i = n
      BY <1>1, <1>2, <1>4, <3>1
    <3>2. CASE i # n
      <4>1. stage[i] = "done" => \A j \in 1 .. i : j \in (1 .. Parts) \ {n} /\ stage[j] = "done"
        BY <1>1, <1>3, <1>5
      <4>2. kind # "none" /\ i < next => stage[i] # "none"
        BY DEF JoinInv, JoinChain
      <4> QED BY <1>1, <1>2, <1>3, <3>2, <4>1, <4>2
    <3> QED BY <3>1, <3>2
  <2> QED BY <1>2, <1>3, <2>1, <2>2 DEF JoinChain
<1>8. JoinCount' /\ JoinVector'
  BY DEF JoinCount, JoinVector, Chained
<1> QED BY <1>1, <1>2, <1>3, <1>4, <1>5, <1>6, <1>7, <1>8

\* The part that takes its turn with the Reducer was not reduced, and where
\* nothing failed before it, all before it were.
LEMMA ReducerTurn ==
    ASSUME JoinInv, kind = "reducer", NEW n \in 1 .. Parts,
           stage[n] = "mapped", ret[n - 1] # -1
    PROVE  /\ Len(reduced) < n
           /\ ret[n - 1] = 0 =>
                 /\ Len(reduced) = n - 1
                 /\ \A j \in 1 .. n - 1 : j \in 1 .. Parts /\ stage[j] = "done" /\ ret[j] = 0 /\ ~Bad(j)
<1>1. /\ Len(reduced) \in Nat /\ Parts \in Nat /\ n \in Nat
      /\ \A i \in 1 .. Parts : i <= Len(reduced) => stage[i] \in {"reducing", "done"}
  BY ReducedInOrder
<1>2. Len(reduced) < n
  BY <1>1
<1>3. ASSUME ret[n - 1] = 0, n > 1
      PROVE  /\ n - 1 \in 1 .. Parts /\ stage[n - 1] = "done" /\ n - 1 <= Len(reduced)
             /\ \A j \in 1 .. n - 1 : stage[j] = "done" /\ ~Bad(j)
  <2>1. n - 1 \in 1 .. Parts
    BY <1>1, <1>3
  <2>2. stage[n - 1] = "done"
    BY <1>3, <2>1 DEF JoinInv, JoinChain, Chained
  <2>3. \A j \in 1 .. n - 1 : stage[j] = "done"
    BY <2>1, <2>2 DEF JoinInv, JoinChain, Chained
  <2>4. n - 1 <= Len(reduced) /\ \A j \in 1 .. n - 1 : ~Bad(j)
    BY <1>3, <2>1, <2>2 DEF JoinInv, JoinReducer
  <2> QED BY <2>1, <2>2, <2>3, <2>4
<1>4. ASSUME ret[n - 1] = 0 PROVE Len(reduced) = n - 1
  <2>1. CASE n > 1
    BY <1>1, <1>2, <1>3, <1>4, <2>1
  <2>2. CASE n = 1
    BY <1>1, <1>2, <2>2
  <2> QED BY <1>1, <2>1, <2>2
<1>5. ASSUME ret[n - 1] = 0, NEW j \in 1 .. n - 1
      PROVE  j \in 1 .. Parts /\ stage[j] = "done" /\ ret[j] = 0 /\ ~Bad(j)
  <2>1. n > 1 /\ j \in 1 .. Parts
    BY <1>1
  <2>2. stage[j] = "done" /\ ~Bad(j)
    BY <1>3, <1>5, <2>1
  <2>3. CASE j = n - 1
    BY <1>5, <2>1, <2>2, <2>3
  <2>4. CASE j # n - 1
    <3>1. j < Len(reduced)
      BY <1>1, <1>4, <1>5, <2>4
    <3>2. ret[j] = 0
      BY <2>1, <3>1 DEF JoinInv, JoinReducer
    <3> QED BY <2>1, <2>2, <3>2
  <2> QED BY <2>3, <2>4
<1> QED BY <1>2, <1>4, <1>5

\* With a Reducer, the turn of a part: it is passed over if it or a part before
\* it failed, and its reduction starts otherwise.
LEMMA JoinReducesStep == ASSUME JoinInv, NEW n \in 1 .. Parts, J!ReducerReduces(n) PROVE JoinInv'
<1>1. /\ kind = "reducer" /\ kind \in Chained /\ stage[n] = "mapped" /\ ret[n - 1] # -1
      /\ UNCHANGED <<kind, next, part, waiting, ex, answers>>
  BY DEF J!ReducerReduces, J!Pending, Chained
<1>2. /\ n \in Nat /\ Parts \in Nat /\ J!TypeOK /\ reduced \in Seq(1 .. Parts) /\ Len(reduced) \in Nat
      /\ stage \in [1 .. Parts -> {"none", "attached", "mapped", "reducing", "done"}]
      /\ part \in [1 .. Parts -> {"none", "pending", "value", "failed", "threw"}]
      /\ ret \in [0 .. Parts -> -1 .. Parts]
      /\ part[n] \in {"value", "failed", "threw"}
  <2>1. J!TypeOK /\ Parts \in Nat /\ J!Available(n)
    BY <1>1, ObjectsAssumption DEF JoinInv, JoinParts
  <2> QED BY <2>1 DEF J!TypeOK, J!Part, J!Pending, J!Available
<1>3. n \in J!Failed <=> Bad(n)
  BY DEF J!Failed, J!Part, Bad
<1>4. /\ \A i \in 1 .. Parts : stage[i] = "done" =>
            /\ \A j \in 1 .. i : Bad(j) => ret[i] # 0 /\ ret[i] <= j
            /\ ret[i] # 0 => ret[i] \in 1 .. Parts /\ Bad(ret[i])
      /\ \A j \in 1 .. Len(reduced) : reduced[j] = j
      /\ Len(reduced) # 0 => Len(reduced) \in 1 .. Parts /\ stage[Len(reduced)] \in {"reducing", "done"}
      /\ \A j \in 1 .. Parts : /\ j < Len(reduced) => ret[j] = 0
                               /\ ret[j] = 0 => j <= Len(reduced)
                               /\ j <= Len(reduced) => Good(j)
                               /\ part[j] = "threw" => j = Len(reduced)
                               /\ stage[j] = "reducing" => j = Len(reduced)
  BY <1>1 DEF JoinInv, JoinReducer
<1>5. Len(reduced) < n
  BY <1>1, ReducerTurn
<1>6. JoinReduce'
  BY <1>1 DEF JoinReduce
<1>7. CASE ret[n - 1] # 0 \/ Bad(n)
  <2>1. PICK v : v = IF ret[n - 1] # 0 THEN ret[n - 1] ELSE n
    OBVIOUS
  <2>2. ret' = [ret EXCEPT ![n] = v] /\ reduced' = reduced /\ J!Becomes(n, "done")
    BY <1>1, <1>3, <1>7, <2>1 DEF J!ReducerReduces, J!Value
  <2>3. v \in 1 .. n
    <3>1. ret[n - 1] <= n /\ ret[n - 1] \in -1 .. Parts
      <4>1. n - 1 \in 0 .. Parts /\ ret[n - 1] \in -1 .. Parts
        BY <1>2
      <4>2. n # 1 => n - 1 \in 1 .. Parts
        BY <1>2
      <4>3. ret[0] = 0 /\ (n # 1 => ret[n - 1] <= n - 1)
        BY <1>1, <4>2 DEF JoinInv, JoinChain
      <4>4. CASE n = 1
        <5>1. n - 1 = 0
          BY <4>4
        <5> QED BY <1>2, <4>1, <4>3, <5>1
      <4>5. CASE n # 1
        BY <1>2, <4>1, <4>3, <4>5
      <4> QED BY <4>4, <4>5
    <3> QED BY <1>1, <1>2, <2>1, <3>1, SMTT(40)
  <2>4. PICK outcome \in {"value", "failed", "threw"} :
            part' = [part EXCEPT ![n] = outcome] /\ v \in 0 .. n
    <3>1. part' = [part EXCEPT ![n] = part[n]] /\ v \in 0 .. n
      BY <1>1, <1>2, <2>3
    <3> QED BY <1>2, <3>1
  <2>5. /\ JoinParts' /\ JoinCount' /\ JoinVector' /\ JoinChain'
        /\ \A i \in (1 .. Parts) \ {n} : stage'[i] = stage[i] /\ ret'[i] = ret[i] /\ part'[i] = part[i]
        /\ stage'[n] = "done" /\ ret'[n] = v /\ ret[n - 1] \in 0 .. n - 1
        /\ \A j \in 1 .. n - 1 : stage[j] = "done" /\ j \in 1 .. Parts
        /\ n > 1 => stage[n - 1] = "done"
        /\ \A i \in 1 .. Parts : stage[i] = "done" => i < n
    <3>1. /\ stage[n] \in {"mapped", "reducing"}
          /\ UNCHANGED <<kind, next, waiting, ex, reduced, answers>>
      BY <1>1, <2>2
    <3> QED BY <1>1, <2>2, <2>4, <3>1, PassedOn, ZenonT(60)
  <2>6. Bad(v) /\ \A j \in 1 .. n : Bad(j) => v <= j
    <3>1. CASE ret[n - 1] # 0
      <4>1. n - 1 \in 1 .. Parts /\ stage[n - 1] = "done" /\ v = ret[n - 1]
        BY <1>2, <2>1, <2>5, <3>1
      <4>2. Bad(v) /\ \A j \in 1 .. n - 1 : Bad(j) => v <= j
        BY <1>4, <3>1, <4>1
      <4> QED BY <1>2, <2>3, <4>2
    <3>2. CASE ret[n - 1] = 0
      <4>1. v = n /\ Bad(n) /\ \A j \in 1 .. n - 1 : ~Bad(j)
        BY <1>1, <1>7, <2>1, <3>2, ReducerTurn
      <4> QED BY <1>2, <4>1
    <3> QED BY <3>1, <3>2
  <2>7. ASSUME NEW i \in 1 .. Parts, stage'[i] = "done"
        PROVE  /\ \A j \in 1 .. i : Bad(j)' => ret'[i] # 0 /\ ret'[i] <= j
               /\ ret'[i] # 0 => ret'[i] \in 1 .. Parts /\ Bad(ret[i])'
    <3>1. CASE i = n
      BY <1>1, <1>2, <2>3, <2>5, <2>6, <3>1, SMTT(40) DEF Bad
    <3>2. CASE i # n
      <4>1. stage[i] = "done" /\ ret'[i] = ret[i]
        BY <2>5, <2>7, <3>2
      <4> QED BY <1>1, <1>4, <4>1 DEF Bad
    <3> QED BY <3>1, <3>2
  <2>8. ASSUME NEW j \in 1 .. Parts
        PROVE  /\ j < Len(reduced) => ret'[j] = 0
               /\ ret'[j] = 0 => j <= Len(reduced)
               /\ j <= Len(reduced) => Good(j)'
               /\ part'[j] = "threw" => j = Len(reduced)
               /\ stage'[j] = "reducing" => j = Len(reduced)
    <3>1. CASE j = n
      <4>1. part[n] # "threw"
        BY <1>2, <1>4, <1>5
      <4>2. ret'[n] # 0 /\ stage'[n] # "reducing" /\ part'[n] # "threw" /\ ~(n <= Len(reduced))
        BY <1>1, <1>2, <1>5, <2>3, <2>5, <4>1
      <4> QED BY <1>2, <3>1, <4>2
    <3>2. CASE j # n
      BY <1>1, <1>4, <2>5, <3>2 DEF Good
    <3> QED BY <3>1, <3>2
  <2>9. Len(reduced) # 0 => Len(reduced) \in 1 .. Parts /\ stage'[Len(reduced)] \in {"reducing", "done"}
    BY <1>2, <1>4, <1>5, <2>5
  <2>10. JoinReducer'
    BY <1>4, <2>2, <2>7, <2>8, <2>9 DEF JoinReducer
  <2> QED BY <1>6, <2>5, <2>10 DEF JoinInv
<1>8. CASE ret[n - 1] = 0 /\ ~Bad(n)
  <2>1. /\ J!Becomes(n, "reducing") /\ reduced' = Append(reduced, n) /\ ret' = ret
    BY <1>3, <1>8 DEF J!ReducerReduces, J!Value
  <2>2. /\ \A i \in (1 .. Parts) \ {n} : stage'[i] = stage[i]
        /\ stage'[n] = "reducing"
        /\ stage' \in [1 .. Parts -> {"none", "attached", "mapped", "reducing", "done"}]
    BY <1>2, <2>1 DEF J!Becomes
  <2>3. /\ Len(reduced) = n - 1 /\ part[n] = "value"
        /\ \A j \in 1 .. n - 1 : j \in 1 .. Parts /\ stage[j] = "done" /\ ret[j] = 0 /\ ~Bad(j)
    BY <1>1, <1>2, <1>8, ReducerTurn DEF Bad
  <2>4. /\ reduced' \in Seq(1 .. Parts) /\ Len(reduced') = n /\ reduced'[n] = n
        /\ \A j \in 1 .. n - 1 : reduced'[j] = j
    <3>1. reduced' \in Seq(1 .. Parts) /\ Len(reduced') = Len(reduced) + 1
      BY <1>2, <2>1
    <3>2. /\ reduced'[Len(reduced) + 1] = n
          /\ \A j \in 1 .. Len(reduced) : reduced'[j] = reduced[j]
      BY <1>2, <2>1
    <3>3. Len(reduced) + 1 = n
      BY <1>2, <2>3
    <3>4. \A j \in 1 .. Len(reduced) : reduced'[j] = j
      BY <1>4, <3>2, Zenon
    <3> QED BY <2>3, <3>1, <3>2, <3>3, <3>4, Zenon
  <2>5. JoinParts'
    <3>1. J!TypeOK'
      BY <1>1, <1>2, <2>1, <2>2, <2>4 DEF J!TypeOK, J!Part
    <3> QED BY <1>1, <1>2, <2>2, <2>3, <3>1 DEF JoinInv, JoinParts, J!Available
  <2>6. JoinChain'
    BY <1>1, <1>2, <2>1, <2>2 DEF JoinInv, JoinChain
  <2>7. JoinCount' /\ JoinVector'
    BY <1>1 DEF JoinCount, JoinVector
  <2>8. ASSUME NEW i \in 1 .. Parts, stage'[i] = "done"
        PROVE  /\ \A j \in 1 .. i : Bad(j)' => ret'[i] # 0 /\ ret'[i] <= j
               /\ ret'[i] # 0 => ret'[i] \in 1 .. Parts /\ Bad(ret[i])'
    <3>1. stage[i] = "done"
      BY <2>2, <2>8
    <3> QED BY <1>1, <1>4, <2>1, <3>1 DEF Bad
  <2>9. ASSUME NEW j \in 1 .. Parts
        PROVE  /\ j < n => ret'[j] = 0
               /\ ret'[j] = 0 => j <= n
               /\ j <= n => Good(j)'
               /\ part'[j] # "threw"
               /\ stage'[j] = "reducing" => j = n
    <3>1. j < n => ret[j] = 0
      BY <1>2, <2>3
    <3>2. ret[j] = 0 => j <= n
      BY <1>2, <1>4, <2>3
    <3>3. j <= n => Good(j)
      BY <1>2, <1>4, <2>3 DEF Good
    <3>4. part[j] # "threw"
      <4>1. part[j] = "threw" => j = n - 1
        BY <1>4, <2>3
      <4> QED BY <1>2, <2>3, <4>1 DEF Bad
    <3>5. j # n => stage[j] # "reducing"
      <4>1. stage[j] = "reducing" => j = n - 1
        BY <1>4, <2>3
      <4> QED BY <1>2, <2>3, <4>1
    <3> QED BY <1>1, <2>1, <2>2, <3>1, <3>2, <3>3, <3>4, <3>5 DEF Good
  <2>10. \A j \in 1 .. Len(reduced') : reduced'[j] = j
    BY <1>2, <2>4
  <2>11. JoinReducer'
    BY <1>2, <2>2, <2>4, <2>8, <2>9, <2>10 DEF JoinReducer
  <2> QED BY <1>6, <2>5, <2>6, <2>7, <2>11 DEF JoinInv
<1> QED BY <1>7, <1>8

\* With a Reducer, a reduction ends: it is the last that was started.
LEMMA JoinReductionEndsStep == ASSUME JoinInv, NEW n \in 1 .. Parts, J!ReductionEnds(n) PROVE JoinInv'
<1>1. /\ kind = "reducer" /\ kind \in Chained /\ stage[n] = "reducing" /\ J!Becomes(n, "done")
      /\ UNCHANGED <<kind, next, waiting, ex, reduced, answers>>
  BY DEF J!ReductionEnds, Chained
<1>2. PICK outcome \in {"value", "threw"} :
          /\ part' = [part EXCEPT ![n] = outcome]
          /\ ret' = [ret EXCEPT ![n] = IF outcome = "threw" THEN n ELSE 0]
  BY DEF J!ReductionEnds, J!Value
<1>3. PICK v : v = IF outcome = "threw" THEN n ELSE 0
  OBVIOUS
<1>4. /\ \A i \in 1 .. Parts : stage[i] = "done" =>
            /\ \A j \in 1 .. i : Bad(j) => ret[i] # 0 /\ ret[i] <= j
            /\ ret[i] # 0 => ret[i] \in 1 .. Parts /\ Bad(ret[i])
      /\ \A j \in 1 .. Len(reduced) : reduced[j] = j
      /\ \A j \in 1 .. Parts : /\ j < Len(reduced) => ret[j] = 0
                               /\ ret[j] = 0 => j <= Len(reduced)
                               /\ j <= Len(reduced) => Good(j)
                               /\ part[j] = "threw" => j = Len(reduced)
                               /\ stage[j] = "reducing" => j = Len(reduced)
  BY <1>1 DEF JoinInv, JoinReducer
<1>5. /\ n = Len(reduced) /\ n \in Nat /\ Parts \in Nat
      /\ ret[n] = -1 /\ ret[0] = 0
  BY <1>1, <1>4, ReducedInOrder DEF JoinInv, JoinChain
<1>6. ret[n - 1] = 0
  <2>1. CASE n = 1
    BY <1>5, <2>1
  <2>2. CASE n # 1
    <3>1. n - 1 \in 1 .. Parts /\ n - 1 < Len(reduced)
      BY <1>5, <2>2
    <3> QED BY <1>4, <3>1
  <2> QED BY <2>1, <2>2
<1>7. /\ v \in 0 .. n /\ outcome \in {"value", "failed", "threw"} /\ ret[n - 1] # -1
      /\ ret' = [ret EXCEPT ![n] = v]
  BY <1>2, <1>3, <1>5, <1>6
<1>8. /\ JoinParts' /\ JoinCount' /\ JoinVector' /\ JoinChain'
      /\ \A i \in (1 .. Parts) \ {n} : stage'[i] = stage[i] /\ ret'[i] = ret[i] /\ part'[i] = part[i]
      /\ stage'[n] = "done" /\ ret'[n] = v /\ part'[n] = outcome
      /\ \A j \in 1 .. n - 1 : stage[j] = "done" /\ j \in 1 .. Parts
      /\ \A i \in 1 .. Parts : stage[i] = "done" => i < n
  BY <1>1, <1>2, <1>7, PassedOn, ZenonT(60)
<1>9. \A j \in 1 .. n - 1 : j \in (1 .. Parts) \ {n} /\ ret[j] = 0 /\ ~Bad(j)
  <2>1. ASSUME NEW j \in 1 .. n - 1 PROVE j \in (1 .. Parts) \ {n} /\ ret[j] = 0 /\ ~Bad(j)
    <3>1. j \in (1 .. Parts) \ {n} /\ j < Len(reduced) /\ stage[j] = "done" /\ j \in 1 .. j
      BY <1>5, <1>8
    <3>2. ret[j] = 0
      BY <1>4, <3>1
    <3> QED BY <1>4, <3>1, <3>2
  <2> QED BY <2>1
<1>10. ASSUME NEW i \in 1 .. Parts, stage'[i] = "done"
       PROVE  /\ \A j \in 1 .. i : Bad(j)' => ret'[i] # 0 /\ ret'[i] <= j
              /\ ret'[i] # 0 => ret'[i] \in 1 .. Parts /\ Bad(ret[i])'
  <2>1. \A j \in 1 .. n - 1 : ~Bad(j)' /\ ret'[j] = 0
    BY <1>8, <1>9 DEF Bad
  <2>2. CASE i = n
    <3>1. Bad(n)' => v = n
      BY <1>3, <1>8 DEF Bad
    <3>2. v # 0 => v = n /\ Bad(n)'
      BY <1>3, <1>5, <1>8 DEF Bad
    <3>3. \A j \in 1 .. n : j \in 1 .. n - 1 \/ j = n
      BY <1>5
    <3>4. \A j \in 1 .. n : Bad(j)' => j = n
      BY <2>1, <3>3
    <3>5. v # 0 => ret'[n] = n
      BY <1>8, <3>2
    <3> QED BY <1>5, <1>8, <2>2, <3>1, <3>2, <3>4, <3>5 DEF Bad
  <2>3. CASE i # n
    <3>1. stage[i] = "done"
      BY <1>8, <1>10, <2>3
    <3>3. i \in 1 .. n - 1
      BY <1>5, <1>8, <3>1
    <3>2. \A j \in 1 .. i : j \in 1 .. n - 1
      BY <1>5, <3>3
    <3> QED BY <2>1, <3>2, <3>3
  <2> QED BY <2>2, <2>3
<1>11. ASSUME NEW j \in 1 .. Parts
       PROVE  /\ j < n => ret'[j] = 0
              /\ ret'[j] = 0 => j <= n
              /\ j <= n => Good(j)'
              /\ part'[j] = "threw" => j = n
              /\ stage'[j] = "reducing" => j = n
  <2>1. CASE j = n
    BY <1>5, <1>8, <2>1 DEF Good
  <2>2. CASE j # n
    BY <1>4, <1>5, <1>8, <2>2, ZenonT(60) DEF Good
  <2> QED BY <2>1, <2>2
<1>12. JoinReducer'
  BY <1>1, <1>4, <1>5, <1>8, <1>10, <1>11 DEF JoinReducer
<1>13. JoinReduce'
  BY <1>1 DEF JoinReduce
<1> QED BY <1>8, <1>12, <1>13 DEF JoinInv

\* Without a Reducer, a part passes on what came before it or its own failure.
LEMMA JoinForwardsStep == ASSUME JoinInv, NEW n \in 1 .. Parts, J!ReduceForwards(n) PROVE JoinInv'
<1>1. /\ kind = "reduce" /\ kind \in Chained /\ stage[n] = "mapped" /\ ret[n - 1] # -1
      /\ J!Becomes(n, "done")
      /\ UNCHANGED <<kind, next, part, waiting, ex, reduced, answers>>
  BY DEF J!ReduceForwards, J!Pending, Chained
<1>2. n \in J!Failed <=> Bad(n)
  BY DEF J!Failed, J!Part, Bad
<1>3. PICK v : v = IF Bad(n) THEN n ELSE ret[n - 1]
  OBVIOUS
<1>4. /\ n \in Nat /\ Parts \in Nat /\ ret[n - 1] \in -1 .. Parts
      /\ \E outcome \in {"value", "failed", "threw"} : part' = [part EXCEPT ![n] = outcome]
  <2>1. J!TypeOK /\ Parts \in Nat /\ J!Available(n)
    BY <1>1, ObjectsAssumption DEF JoinInv, JoinParts
  <2>2. part' = [part EXCEPT ![n] = part[n]] /\ part[n] \in {"value", "failed", "threw"}
    BY <1>1, <2>1 DEF J!TypeOK, J!Part, J!Available
  <2>3. n \in Nat /\ Parts \in Nat /\ ret[n - 1] \in -1 .. Parts
    BY <2>1 DEF J!TypeOK, J!Part, J!Pending
  <2> QED BY <2>2, <2>3
<1>5. v \in 0 .. n /\ ret' = [ret EXCEPT ![n] = v]
  <2>1. n # 1 => n - 1 \in 1 .. Parts
    BY <1>4
  <2>2. ret[0] = 0 /\ (n # 1 => ret[n - 1] <= n - 1)
    BY <1>1, <2>1 DEF JoinInv, JoinChain
  <2>3. v \in 0 .. n
    BY <1>1, <1>3, <1>4, <2>2
  <2>4. ret' = [ret EXCEPT ![n] = IF n \in J!Failed THEN n ELSE ret[n - 1]]
    BY DEF J!ReduceForwards
  <2> QED BY <1>2, <1>3, <2>3, <2>4
<1>6. /\ JoinParts' /\ JoinCount' /\ JoinVector' /\ JoinChain'
      /\ \A i \in (1 .. Parts) \ {n} : stage'[i] = stage[i] /\ ret'[i] = ret[i] /\ part'[i] = part[i]
      /\ stage'[n] = "done" /\ ret'[n] = v /\ ret[n - 1] \in 0 .. n - 1
      /\ \A j \in 1 .. n - 1 : stage[j] = "done" /\ j \in 1 .. Parts
      /\ n > 1 => stage[n - 1] = "done"
      /\ \A i \in 1 .. Parts : stage[i] = "done" => i < n
  <2>1. PICK outcome \in {"value", "failed", "threw"} : part' = [part EXCEPT ![n] = outcome]
    BY <1>4
  <2>2. /\ stage[n] \in {"mapped", "reducing"}
        /\ UNCHANGED <<kind, next, waiting, ex, reduced, answers>>
    BY <1>1
  <2>3. /\ kind \in Chained /\ ret[n - 1] # -1 /\ J!Becomes(n, "done")
        /\ v \in 0 .. n /\ ret' = [ret EXCEPT ![n] = v]
    BY <1>1, <1>5
  <2> QED BY <2>1, <2>2, <2>3, PassedOn
<1>7. /\ \A i \in 1 .. Parts : stage[i] = "done" =>
            /\ \A j \in 1 .. i : Bad(j) => j <= ret[i]
            /\ ret[i] # 0 => ret[i] \in 1 .. Parts /\ Bad(ret[i])
      /\ \A j \in 1 .. Len(reduced) :
            reduced[j] \in 1 .. Parts /\ stage[reduced[j]] \in {"mapped", "done"} /\ Good(reduced[j])
      /\ \A j, k \in 1 .. Len(reduced) : reduced[j] = reduced[k] => j = k
      /\ \A i \in 1 .. Parts : stage[i] \in {"mapped", "done"} /\ Good(i) =>
            \E j \in 1 .. Len(reduced) : reduced[j] = i
  BY <1>1 DEF JoinInv, JoinReduce
<1>8. /\ \A j \in 1 .. n : Bad(j) => j <= v
      /\ v # 0 => v \in 1 .. Parts /\ Bad(v)
  <2>1. CASE Bad(n)
    BY <1>3, <1>4, <2>1
  <2>2. CASE ~Bad(n) /\ n = 1
    <3>1. v = 0
      BY <1>3, <1>4, <1>6, <2>2
    <3> QED BY <2>2, <3>1
  <2>3. CASE ~Bad(n) /\ n # 1
    <3>1. n - 1 \in 1 .. Parts /\ stage[n - 1] = "done" /\ v = ret[n - 1]
      BY <1>3, <1>4, <1>6, <2>3
    <3>2. \A j \in 1 .. n : j = n \/ j \in 1 .. n - 1
      BY <1>4
    <3> QED BY <1>7, <2>3, <3>1, <3>2
  <2> QED BY <2>1, <2>2, <2>3
<1>9. ASSUME NEW i \in 1 .. Parts, stage'[i] = "done"
      PROVE  /\ \A j \in 1 .. i : Bad(j)' => j <= ret'[i]
             /\ ret'[i] # 0 => ret'[i] \in 1 .. Parts /\ Bad(ret[i])'
  <2>1. CASE i = n
    BY <1>1, <1>6, <1>8, <2>1 DEF Bad
  <2>2. CASE i # n
    <3>1. stage[i] = "done" /\ ret'[i] = ret[i]
      BY <1>6, <1>9, <2>2
    <3> QED BY <1>1, <1>7, <3>1 DEF Bad
  <2> QED BY <2>1, <2>2
<1>10. \A j \in 1 .. Len(reduced) :
          /\ reduced[j] \in 1 .. Parts /\ stage'[reduced[j]] \in {"mapped", "done"}
          /\ part'[reduced[j]] \in {"value", "threw"}
  BY <1>1, <1>6, <1>7 DEF Good
<1>11. \A i \in 1 .. Parts : stage'[i] \in {"mapped", "done"} /\ part'[i] \in {"value", "threw"} =>
          \E j \in 1 .. Len(reduced) : reduced[j] = i
  BY <1>1, <1>6, <1>7 DEF Good
<1>12. JoinReduce'
  BY <1>1, <1>7, <1>9, <1>10, <1>11 DEF JoinReduce, Good
<1>13. JoinReducer'
  BY <1>1 DEF JoinReducer
<1> QED BY <1>6, <1>12, <1>13 DEF JoinInv

\* The last continuation of map_reduce answers with the last ret.
LEMMA JoinAnswersStep == ASSUME JoinInv, J!MapReduceAnswers PROVE JoinInv'
<1>1. /\ kind \in Chained /\ next = Parts + 2 /\ ret[Parts] # -1 /\ answers = << >>
      /\ answers' = Append(answers, ret[Parts])
      /\ UNCHANGED <<kind, next, part, stage, waiting, ex, ret, reduced>>
  BY DEF J!MapReduceAnswers, J!Answer, J!Pending, Chained
<1>2. kind \notin {"none", "for_each", "tuple", "vector"}
  BY <1>1 DEF Chained
<1>3. Parts \in Nat /\ ret \in [0 .. Parts -> -1 .. Parts]
  BY ObjectsAssumption DEF JoinInv, JoinParts, J!TypeOK, J!Pending
<1>4. ret[Parts] \in 0 .. Parts
  <2>1. ret[Parts] \in -1 .. Parts
    BY <1>3
  <2> QED BY <1>1, <1>3, <2>1
<1>5. Len(answers') = 1 /\ answers'[1] = ret[Parts] /\ answers' \in Seq(0 .. Parts)
  BY <1>1, <1>4
<1>6. JoinParts'
  <2>1. J!TypeOK'
    BY <1>1, <1>5 DEF JoinInv, JoinParts, J!TypeOK, J!Part
  <2> QED BY <1>1, <1>2, <2>1 DEF JoinInv, JoinParts, J!Available
<1>7. JoinChain'
  <2>1. /\ ret'[0] = 0
        /\ \A i \in 1 .. Parts : /\ ret'[i] # -1 <=> stage'[i] = "done"
                                 /\ ret'[i] <= i
                                 /\ stage'[i] = "done" => \A j \in 1 .. i : stage'[j] = "done"
                                 /\ kind' # "none" /\ i < next' => stage'[i] # "none"
    BY <1>1 DEF JoinInv, JoinChain, Chained
  <2> QED BY <1>1, <1>5, <2>1 DEF JoinChain
<1>8. JoinCount' /\ JoinVector'
  BY <1>1, <1>2 DEF JoinCount, JoinVector
<1>9. JoinReducer' /\ JoinReduce'
  BY <1>1 DEF JoinInv, JoinReducer, JoinReduce, Good, Bad
<1> QED BY <1>6, <1>7, <1>8, <1>9 DEF JoinInv

\* No step of a join breaks its invariant.
LEMMA JoinStepInv == JoinInv /\ [JoinNext]_joinVars => JoinInv'
<1> SUFFICES ASSUME JoinInv, [JoinNext]_joinVars PROVE JoinInv'
  OBVIOUS
<1>1. ASSUME NEW k \in J!Kind, J!Call(k) PROVE JoinInv'
  BY <1>1, JoinCallStep
<1>2. ASSUME NEW outcome \in {"pending", "value", "failed"}, J!Launch(outcome) PROVE JoinInv'
  BY <1>2, JoinLaunchStep
<1>3. CASE J!LaunchThrows
  BY <1>3, JoinLaunchThrowsStep
<1>4. CASE J!Return
  BY <1>4, JoinReturnStep
<1>5. CASE J!MapReduceAnswers
  BY <1>5, JoinAnswersStep
<1>6. ASSUME NEW i \in 1 .. Parts, JoinStep(i) PROVE JoinInv'
  <2>1. CASE J!Resolve(i)
    BY <2>1, JoinResolveStep
  <2>2. CASE J!ForEachContinues(i)
    BY <2>2, JoinForEachStep
  <2>3. CASE J!TupleContinues(i)
    BY <2>3, JoinTupleStep
  <2>4. CASE J!VectorContinues(i)
    BY <2>4, JoinVectorStep
  <2>5. CASE J!ReducerContinues(i) \/ J!ReduceContinues(i)
    BY <2>5, JoinMappedStep
  <2>6. CASE J!ReducerReduces(i)
    BY <2>6, JoinReducesStep
  <2>7. CASE J!ReductionEnds(i)
    BY <2>7, JoinReductionEndsStep
  <2>8. CASE J!ReduceForwards(i)
    BY <2>8, JoinForwardsStep
  <2> QED BY <1>6, <2>1, <2>2, <2>3, <2>4, <2>5, <2>6, <2>7, <2>8 DEF JoinStep
<1>7. CASE UNCHANGED joinVars
  <2>1. UNCHANGED <<kind, next, part, stage, waiting, ex, ret, reduced, answers>>
    BY <1>7 DEF joinVars
  <2>2. J!TypeOK' = J!TypeOK /\ AttachedParts' = AttachedParts
    BY <2>1 DEF J!TypeOK, AttachedParts
  <2>3. JoinParts'
    BY <2>1, <2>2 DEF JoinInv, JoinParts, J!Available
  <2>4. JoinCount' /\ JoinVector'
    BY <2>1, <2>2 DEF JoinInv, JoinCount, JoinVector, J!Available
  <2>5. JoinChain' /\ JoinReducer' /\ JoinReduce'
    BY <2>1 DEF JoinInv, JoinChain, JoinReducer, JoinReduce, Good, Bad
  <2> QED BY <2>3, <2>4, <2>5 DEF JoinInv
<1> QED BY <1>1, <1>2, <1>3, <1>4, <1>5, <1>6, <1>7 DEF JoinNext

\* It holds before the call.
LEMMA JoinInit == MCInit => JoinInv
<1> SUFFICES ASSUME J!Init PROVE JoinInv
  BY DEF MCInit
<1>1. Parts \in Nat
  BY ObjectsAssumption
<1>2. J!TypeOK
  BY <1>1 DEF J!Init, J!TypeOK, J!Part, J!Kind, J!Pending, J!Value
<1>3. JoinParts
  BY <1>1, <1>2 DEF J!Init, JoinParts, J!Part, J!Available
<1>4. JoinCount /\ JoinVector /\ JoinReducer /\ JoinReduce
  BY DEF J!Init, JoinCount, JoinVector, JoinReducer, JoinReduce
<1>5. JoinChain
  BY <1>1 DEF J!Init, JoinChain, J!Part, J!Pending, J!Value
<1> QED BY <1>3, <1>4, <1>5 DEF JoinInv

\* parallel_for_each and when_all of a tuple: nothing is left to run when the
\* count is zero.
LEMMA CountedJoinsAnswerOnce ==
    ASSUME JoinInv, kind \in {"for_each", "tuple"}
    PROVE  J!JoinAnswersOnce
<1>1. /\ Parts \in Nat /\ kind \notin Chained \cup {"none"}
      /\ next \in 0 .. Parts + 2
      /\ \A i \in 1 .. Parts : stage[i] \in {"none", "attached", "mapped", "reducing", "done"}
  BY ObjectsAssumption DEF JoinInv, JoinParts, J!TypeOK, J!Part, Chained
<1>2. Cardinality(AttachedParts) = 0 <=> AttachedParts = {}
  BY AttachedFinite, FS_EmptySet
<1>3. /\ waiting = Cardinality(AttachedParts) + (IF next = Parts + 2 THEN 0 ELSE 1)
      /\ waiting # 0 => answers = << >>
      /\ waiting = 0 => Len(answers) = 1 /\ answers[1] = IF kind = "tuple" THEN 0 ELSE ex
      /\ \A i \in 1 .. Parts : i < next /\ stage[i] = "none" => kind = "tuple" /\ J!Available(i)
      /\ kind = "for_each" =>
            /\ ex # 0 => part[ex] = "failed"
            /\ ex = 0 => \A i \in 1 .. Parts : stage[i] = "done" => part[i] = "value"
  BY DEF JoinInv, JoinCount
<1>4. /\ \A i \in 1 .. Parts : stage[i] \notin {"mapped", "reducing"} /\ part[i] # "threw"
      /\ \A i \in 1 .. Parts : stage[i] = "done" => J!Available(i)
  BY <1>1 DEF JoinInv, JoinParts
<1>5. waiting = 0 <=> next = Parts + 2 /\ AttachedParts = {}
  BY <1>2, <1>3, AttachedFinite
<1>6. ASSUME waiting = 0 PROVE J!Over
  <2>1. ASSUME NEW i \in 1 .. Parts PROVE J!Available(i) /\ stage[i] \in {"none", "done"}
    <3>1. stage[i] # "attached" /\ i < next
      BY <1>1, <1>5, <1>6, <2>1 DEF AttachedParts
    <3> QED BY <1>1, <1>3, <1>4, <2>1, <3>1
  <2> QED BY <2>1 DEF J!Over, J!Part
<1>7. J!Over => AttachedParts = {}
  BY DEF J!Over, J!Part, AttachedParts
<1>8. Len(answers) <= 1 /\ (answers # << >> => waiting = 0) /\ (waiting = 0 => answers # << >>)
  BY <1>3
<1>9. ASSUME kind = "for_each", waiting = 0
      PROVE  IF J!Failed = {} THEN answers[1] = 0 ELSE answers[1] \in J!Failed
  <2>1. answers[1] = ex /\ ex \in 0 .. Parts
    BY <1>3, <1>9 DEF JoinInv, JoinParts, J!TypeOK
  <2>2. \A i \in 1 .. Parts : stage[i] = "done"
    <3>1. ASSUME NEW i \in 1 .. Parts PROVE stage[i] = "done"
      <4>1. i < next /\ stage[i] \in {"none", "done"}
        BY <1>1, <1>5, <1>6, <1>9, <3>1 DEF J!Over, J!Part
      <4> QED BY <1>3, <1>9, <4>1
    <3> QED BY <3>1
  <2>3. CASE ex = 0
    BY <1>3, <1>9, <2>1, <2>2, <2>3 DEF J!Failed, J!Part
  <2>4. CASE ex # 0
    <3>1. ex \in 1 .. Parts /\ part[ex] = "failed"
      BY <1>1, <1>3, <1>9, <2>1, <2>4
    <3> QED BY <2>1, <3>1 DEF J!Failed, J!Part
  <2> QED BY <2>3, <2>4
<1>10. kind = "tuple" /\ waiting = 0 => answers[1] = 0
  BY <1>3
<1>11. /\ answers # << >> => next = Parts + 2 /\ J!Over
       /\ next = Parts + 2 /\ J!Over => answers # << >>
  BY <1>5, <1>6, <1>7, <1>8
<1>12. answers # << >> =>
          IF kind \in {"tuple", "vector"} \/ J!Failed = {} THEN answers[1] = J!Value
          ELSE /\ answers[1] \in J!Failed
               /\ kind = "reducer" => \A i \in J!Failed : answers[1] <= i
               /\ kind = "reduce" => \A i \in J!Failed : i <= answers[1]
  <2>1. CASE kind = "for_each"
    BY <1>8, <1>9, <2>1 DEF J!Value
  <2>2. CASE kind = "tuple"
    <3> QED BY <1>8, <1>10, <2>2 DEF J!Value
  <2> QED BY <2>1, <2>2
<1> QED BY <1>8, <1>11, <1>12 DEF J!JoinAnswersOnce

\* when_all of a vector: the part it waits for is not over.
LEMMA VectorJoinsAnswerOnce == ASSUME JoinInv, kind = "vector" PROVE J!JoinAnswersOnce
<1>1. /\ next # Parts + 2 => answers = << >>
      /\ next = Parts + 2 =>
            \/ /\ Len(answers) = 1 /\ answers[1] = 0
               /\ \A i \in 1 .. Parts : J!Available(i) /\ stage[i] \in {"none", "done"}
            \/ /\ answers = << >>
               /\ \E j \in 1 .. Parts : stage[j] = "attached"
  BY DEF JoinInv, JoinVector
<1>2. answers = << >> \/ (Len(answers) = 1 /\ answers[1] = 0)
  BY <1>1
<1>3. answers # << >> => next = Parts + 2 /\ J!Over
  BY <1>1 DEF J!Over, J!Part
<1>4. next = Parts + 2 /\ J!Over => answers # << >>
  BY <1>1 DEF J!Over, J!Part
<1>6. answers # << >> =>
          IF kind \in {"tuple", "vector"} \/ J!Failed = {} THEN answers[1] = J!Value
          ELSE /\ answers[1] \in J!Failed
               /\ kind = "reducer" => \A i \in J!Failed : answers[1] <= i
               /\ kind = "reduce" => \A i \in J!Failed : i <= answers[1]
  BY <1>2 DEF J!Value
<1>7. Len(answers) <= 1
  BY <1>2
<1> QED BY <1>3, <1>4, <1>6, <1>7 DEF J!JoinAnswersOnce

\* map_reduce, and before the call: the last part is done after all others.
LEMMA ChainedJoinsAnswerOnce ==
    ASSUME JoinInv, kind \in Chained \cup {"none"} PROVE J!JoinAnswersOnce
<1>1. /\ ret[0] = 0
      /\ \A i \in 1 .. Parts : /\ ret[i] # -1 <=> stage[i] = "done"
                               /\ stage[i] = "done" => \A j \in 1 .. i : stage[j] = "done"
      /\ \/ answers = << >>
         \/ /\ next = Parts + 2 /\ ret[Parts] # -1
            /\ Len(answers) = 1 /\ answers[1] = ret[Parts]
  BY DEF JoinInv, JoinChain
<1>2. Parts \in Nat
  BY ObjectsAssumption
<1>3. /\ kind = "none" => answers = << >> /\ next = 0
      /\ \A i \in 1 .. Parts : stage[i] = "done" => J!Available(i)
  BY DEF JoinInv, JoinParts
<1>4. Len(answers) <= 1
  <2>1. answers = << >> \/ Len(answers) = 1
    BY <1>1
  <2> QED BY <2>1
<1>5. ASSUME answers # << >>
      PROVE  /\ next = Parts + 2 /\ answers[1] = ret[Parts]
             /\ \A i \in 1 .. Parts : stage[i] = "done"
             /\ Parts # 0 => Parts \in 1 .. Parts /\ stage[Parts] = "done"
  <2>1. Parts # 0 => Parts \in 1 .. Parts
    BY <1>2
  <2>2. Parts # 0 => stage[Parts] = "done"
    BY <1>1, <1>5, <2>1
  <2> QED BY <1>1, <1>2, <1>5, <2>1, <2>2
<1>6. ASSUME answers # << >> PROVE next = Parts + 2 /\ J!Over
  <2>1. \A i \in 1 .. Parts : stage[i] = "done"
    BY <1>5, <1>6
  <2>2. J!Over
    BY <1>3, <2>1 DEF J!Over, J!Part
  <2> QED BY <1>5, <1>6, <2>2
<1>7. next = Parts + 2 /\ J!Over => answers # << >> \/ kind \in {"reducer", "reduce"}
  BY <1>2, <1>3 DEF Chained
<1>8. ASSUME answers # << >>
      PROVE  /\ answers[1] # 0 => answers[1] \in J!Failed
             /\ \A i \in J!Failed : kind = "reducer" => answers[1] # 0 /\ answers[1] <= i
             /\ \A i \in J!Failed : kind = "reduce" => answers[1] # 0 /\ i <= answers[1]
  <2>1. CASE Parts = 0
    BY <1>1, <1>5, <1>8, <2>1 DEF J!Failed, J!Part
  <2>2. CASE Parts # 0
    <3>1. Parts \in 1 .. Parts /\ stage[Parts] = "done" /\ answers[1] = ret[Parts]
      BY <1>5, <1>8, <2>2
    <3>2. kind \in {"reducer", "reduce"}
      BY <1>3, <1>8 DEF Chained
    <3>3. ret[Parts] # 0 => ret[Parts] \in 1 .. Parts /\ Bad(ret[Parts])
      BY <3>1, <3>2 DEF JoinInv, JoinReducer, JoinReduce
    <3>4. \A i \in 1 .. Parts : Bad(i) =>
             /\ kind = "reducer" => ret[Parts] # 0 /\ ret[Parts] <= i
             /\ kind = "reduce" => i <= ret[Parts]
      BY <3>1 DEF JoinInv, JoinReducer, JoinReduce
    <3>5. \A i \in 1 .. Parts : i \in J!Failed <=> Bad(i)
      BY DEF J!Failed, J!Part, Bad
    <3>6. \A i \in J!Failed : i \in 1 .. Parts /\ Bad(i) /\ i # 0 /\ ~(i <= 0)
      BY <1>2, <3>5 DEF J!Failed, J!Part
    <3> QED BY <3>1, <3>3, <3>4, <3>5, <3>6
  <2> QED BY <2>1, <2>2
<1>10. answers # << >> =>
          IF kind \in {"tuple", "vector"} \/ J!Failed = {} THEN answers[1] = J!Value
          ELSE /\ answers[1] \in J!Failed
               /\ kind = "reducer" => \A i \in J!Failed : answers[1] <= i
               /\ kind = "reduce" => \A i \in J!Failed : i <= answers[1]
  <2>1. kind = "none" => answers = << >>
    BY <1>3
  <2>2. J!Failed # {} /\ answers # << >> => answers[1] # 0
    BY <1>8, <2>1 DEF Chained
  <2> QED BY <1>8, <2>1, <2>2 DEF Chained, J!Value
<1> QED BY <1>4, <1>6, <1>7, <1>10 DEF J!JoinAnswersOnce

\* A join answers once and last, with the outcome of its parts.
THEOREM JoinsAnswerOnce == MCSpec => []JoinAnswersOnce
<1>1. JoinInv => JoinAnswersOnce
  <2> SUFFICES ASSUME JoinInv PROVE J!JoinAnswersOnce
    BY DEF JoinAnswersOnce
  <2>1. kind \in {"for_each", "tuple", "vector", "none"} \cup Chained
    BY DEF JoinInv, JoinParts, J!TypeOK, J!Kind, Chained
  <2> QED BY <2>1, CountedJoinsAnswerOnce, VectorJoinsAnswerOnce, ChainedJoinsAnswerOnce
<1>2. JoinInv /\ [MCNext]_MCVars => JoinInv'
  BY OwnSteps, JoinStepInv
<1> QED BY JoinInit, <1>1, <1>2, PTL DEF MCSpec

\* With a Reducer: in order, one at a time, and all before the first failure.
LEMMA ReducerReducedOnce == ASSUME JoinInv, kind = "reducer" PROVE J!ReducedOnce
<1>1. /\ reduced \in Seq(1 .. Parts) /\ Parts \in Nat
      /\ \A i \in 1 .. Parts : part[i] \in {"none", "pending", "value", "failed", "threw"}
  BY ObjectsAssumption DEF JoinInv, JoinParts, J!TypeOK, J!Part
<1>2. /\ DOMAIN reduced = 1 .. Len(reduced) /\ Len(reduced) \in Nat
      /\ Len(reduced) = 0 \/ Len(reduced) \in 1 .. Parts
      /\ \A i \in 1 .. Parts : i < Len(reduced) => stage[i] = "done" /\ part[i] = "value"
  BY <1>1, ReducedInOrder
<1>3. /\ \A i \in 1 .. Parts : stage[i] = "done" /\ ret[i] # 0 => ret[i] \in 1 .. Parts /\ Bad(ret[i])
      /\ \A j \in 1 .. Len(reduced) : reduced[j] = j
      /\ \A j \in 1 .. Parts : /\ ret[j] = 0 => j <= Len(reduced)
                               /\ j <= Len(reduced) => Good(j)
                               /\ part[j] = "threw" => j = Len(reduced)
                               /\ stage[j] = "reducing" => j = Len(reduced)
  BY DEF JoinInv, JoinReducer
<1>4. /\ \A i \in J!Reduced : i \in 1 .. Len(reduced)
      /\ \A i \in 1 .. Len(reduced) : i \in J!Reduced
  <2>1. J!Reduced = {reduced[j] : j \in 1 .. Len(reduced)}
    BY <1>2 DEF J!Reduced
  <2> QED BY <1>3, <2>1
<1>5. \A i \in 1 .. Len(reduced) : i \in 1 .. Parts /\ Good(i)
  <2>1. ASSUME NEW i \in 1 .. Len(reduced) PROVE i \in 1 .. Parts /\ Good(i)
    <3>1. i \in 1 .. Parts /\ i <= Len(reduced)
      BY <1>1, <1>2
    <3> QED BY <1>3, <3>1
  <2> QED BY <2>1
<1>6. \A i \in J!Reduced : J!HasValue(i)
  BY <1>4, <1>5 DEF J!HasValue, Good
<1>7. ASSUME NEW i \in J!Reduced, NEW k \in J!Failed PROVE i <= k
  <2>1. k \in 1 .. Parts /\ Bad(k)
    BY <1>7 DEF J!Failed, J!Part, Bad
  <2>2. ~(k < Len(reduced))
    BY <1>2, <2>1 DEF Bad
  <2> QED BY <1>1, <1>2, <1>4, <2>1, <2>2
<1>8. ASSUME answers # << >>, NEW i \in J!Part, i \notin J!Reduced, J!HasValue(i)
      PROVE  \E k \in J!Failed : k < i
  <2>1. i \in 1 .. Parts /\ i > Len(reduced)
    BY <1>2, <1>4, <1>8 DEF J!Part
  <2>2. Parts \in 1 .. Parts /\ ret[Parts] # -1
    BY <1>1, <1>8, <2>1 DEF JoinInv, JoinChain, Chained
  <2>3. stage[Parts] = "done"
    BY <2>2 DEF JoinInv, JoinChain, Chained
  <2>7. i \in 1 .. Parts /\ ~(i <= Len(reduced)) /\ i # Len(reduced)
    <3>1. i \in Int /\ Len(reduced) \in Int
      BY <1>2, <2>1
    <3> QED BY <2>1, <3>1
  <2>8. stage[i] = "done" /\ ret[i] <= i
    BY <1>1, <2>1, <2>2, <2>3 DEF JoinInv, JoinChain, Chained
  <2>4. stage[i] = "done" /\ ret[i] <= i /\ ret[i] # 0
    BY <1>3, <2>7, <2>8
  <2>5. ret[i] \in 1 .. Parts /\ Bad(ret[i]) /\ ret[i] \in J!Failed
    BY <1>3, <2>1, <2>4 DEF Bad, J!Failed, J!Part
  <2>6. ret[i] # i
    <3>1. part[i] # "threw" /\ part[i] # "failed"
      <4>1. part[i] = "threw" => i = Len(reduced)
        BY <1>3, <2>7, Zenon
      <4>2. i # Len(reduced)
        BY <2>7
      <4> QED BY <1>8, <4>1, <4>2 DEF J!HasValue
    <3> QED BY <2>5, <3>1 DEF Bad
  <2> QED BY <1>1, <2>1, <2>4, <2>5, <2>6
<1>9. \A j, k \in DOMAIN reduced : reduced[j] = reduced[k] => j = k
  <2>1. \A j \in DOMAIN reduced : reduced[j] = j
    BY <1>2, <1>3, Zenon
  <2> QED BY <2>1, Zenon
<1>10. /\ \A j \in DOMAIN reduced : reduced[j] = j
       /\ \A i \in J!Part : stage[i] = "reducing" => i = Len(reduced)
  BY <1>2, <1>3, Zenon DEF J!Part
<1> QED BY <1>6, <1>7, <1>8, <1>9, <1>10 DEF J!ReducedOnce

\* With an initial value: what was mapped is what was reduced.
LEMMA ReduceReducedOnce == ASSUME JoinInv, kind = "reduce" PROVE J!ReducedOnce
<1>1. reduced \in Seq(1 .. Parts) /\ Parts \in Nat
  BY ObjectsAssumption DEF JoinInv, JoinParts, J!TypeOK, J!Part
<1>2. DOMAIN reduced = 1 .. Len(reduced) /\ Len(reduced) \in Nat
  BY <1>1
<1>3. /\ \A j \in 1 .. Len(reduced) : reduced[j] \in 1 .. Parts /\ Good(reduced[j])
      /\ \A j, k \in 1 .. Len(reduced) : reduced[j] = reduced[k] => j = k
      /\ \A i \in 1 .. Parts : stage[i] \in {"mapped", "done"} /\ Good(i) =>
            \E j \in 1 .. Len(reduced) : reduced[j] = i
  BY DEF JoinInv, JoinReduce
<1>4. ASSUME answers # << >>, NEW i \in J!Part, J!HasValue(i) PROVE i \in J!Reduced
  <2>1. i \in 1 .. Parts /\ Parts \in 1 .. Parts /\ ret[Parts] # -1
    BY <1>1, <1>4 DEF J!Part, JoinInv, JoinChain, Chained
  <2>2. stage[Parts] = "done"
    BY <2>1 DEF JoinInv, JoinChain, Chained
  <2>3. stage[i] = "done"
    BY <1>1, <2>1, <2>2 DEF JoinInv, JoinChain, Chained
  <2> QED BY <1>2, <1>3, <1>4, <2>1, <2>3 DEF J!Reduced, J!HasValue, Good
<1>5. \A i \in J!Reduced : J!HasValue(i)
  BY <1>2, <1>3 DEF J!Reduced, J!HasValue, Good
<1> QED BY <1>2, <1>3, <1>4, <1>5 DEF J!ReducedOnce

\* map_reduce reduces every value once: with a Reducer in order, one at a time
\* and up to the first failure.
THEOREM ValuesReducedOnce == MCSpec => []ReducedOnce
<1>1. JoinInv => ReducedOnce
  <2> SUFFICES ASSUME JoinInv PROVE J!ReducedOnce
    BY DEF ReducedOnce
  <2>1. CASE kind = "reducer"
    BY <2>1, ReducerReducedOnce
  <2>2. CASE kind = "reduce"
    BY <2>2, ReduceReducedOnce
  <2>3. CASE kind \notin Chained
    <3>1. reduced = << >> /\ kind \notin {"reducer", "reduce"}
      BY <2>3 DEF JoinInv, JoinParts, Chained
    <3> QED BY <3>1 DEF J!ReducedOnce, J!Reduced
  <2> QED BY <2>1, <2>2, <2>3 DEF Chained
<1>2. JoinInv /\ [MCNext]_MCVars => JoinInv'
  BY OwnSteps, JoinStepInv
<1> QED BY JoinInit, <1>1, <1>2, PTL DEF MCSpec

-----------------------------------------------------------------------------
(* Disk requests.  A queued request has one place in the queue of one      *)
(* class, a waiting one in contextWaiters and a pending one in pending; so *)
(* the numbers of requests in each state are known, and the units of both  *)
(* kinds are what is left.  (accumulated is not spoken of: the classes'    *)
(* order never changes what is counted.)                                   *)

\* The requests that hold a context, and those that hold a unit of capacity.
Held == Io!In({"prepared", "pending", "kernel"})
Busy == Io!In(Io!State \ {"none", "queued"})

\* The types, but for accumulated.
IoTypes == /\ request \in [Request -> Io!State]
           /\ queue \in [Class -> Seq(Request)]
           /\ ioUnits \in Nat /\ waiters \in Nat /\ granted \in Nat
           /\ context \in Nat /\ contextWaiters \in Seq(Request)
           /\ pending \in Seq(Request)

\* fair_queue: the classes' queues hold the queued requests, each once.
IoQueues ==
    /\ handles = {c \in Class : queue[c] # << >>}
    /\ \A c \in Class : \A i \in 1 .. Len(queue[c]) : request[queue[c][i]] = "queued"
    /\ \A x \in Io!In({"queued"}) : \E c \in Class : \E i \in 1 .. Len(queue[c]) : queue[c][i] = x
    /\ \A c, d \in Class : \A i \in 1 .. Len(queue[c]), j \in 1 .. Len(queue[d]) :
          queue[c][i] = queue[d][j] => c = d /\ i = j

\* fair_queue::_sem: a call of execute_one for each queued request, a unit
\* for each request that is served.
IoUnits ==
    /\ waiters + granted = Cardinality(Io!In({"queued"}))
    /\ ioUnits + granted + Cardinality(Busy) = Units
    /\ ioUnits > 0 => waiters = 0

\* line is made of the requests in a state, each once.
Lists(line, at, state) ==
    /\ \A i \in 1 .. Len(line) : at[line[i]] = state
    /\ \A x \in Request : at[x] = state => \E i \in 1 .. Len(line) : line[i] = x
    /\ \A i, j \in 1 .. Len(line) : line[i] = line[j] => i = j

\* _io_context_available: a context for each request between submit_io and
\* its answer.
IoContexts ==
    /\ context + Cardinality(Held) = MaxAio
    /\ context > 0 => contextWaiters = << >>
    /\ Lists(contextWaiters, request, "waiting")

\* _pending_aio holds the pending requests.
IoPending == Lists(pending, request, "pending")

\* The invariant of the disk queue.
IoInv == IoTypes /\ IoQueues /\ IoUnits /\ IoContexts /\ IoPending

\* Whoever lists the requests in a state still does so if they stay in it,
LEMMA ListKept ==
    ASSUME NEW line \in Seq(Request), NEW before, NEW after, NEW state,
           Lists(line, before, state),
           \A x \in Request : after[x] = state <=> before[x] = state
    PROVE  Lists(line, after, state)
<1>1. \A i \in 1 .. Len(line) : line[i] \in Request
  OBVIOUS
<1> QED BY <1>1 DEF Lists

\* if one that enters it is appended,
LEMMA ListGrows ==
    ASSUME NEW line \in Seq(Request), NEW before, NEW after, NEW state,
           Lists(line, before, state), NEW r \in Request, before[r] # state,
           \A x \in Request : after[x] = state <=> x = r \/ before[x] = state
    PROVE  Append(line, r) \in Seq(Request) /\ Lists(Append(line, r), after, state)
<1>1. PICK longer : longer = Append(line, r)
  OBVIOUS
<1>2. /\ longer \in Seq(Request) /\ Len(longer) = Len(line) + 1 /\ Len(line) \in Nat
      /\ longer[Len(line) + 1] = r
      /\ \A i \in 1 .. Len(line) : longer[i] = line[i] /\ i \in 1 .. Len(longer)
      /\ \A i \in 1 .. Len(longer) : i # Len(line) + 1 => i \in 1 .. Len(line)
      /\ \A i \in 1 .. Len(line) : line[i] \in Request
  BY <1>1
<1>3. \A i \in 1 .. Len(longer) : after[longer[i]] = state
  BY <1>2 DEF Lists
<1>4. ASSUME NEW x \in Request, after[x] = state
      PROVE  \E i \in 1 .. Len(longer) : longer[i] = x
  <2>1. CASE x = r
    BY <1>2, <2>1
  <2>2. CASE x # r
    BY <1>2, <1>4, <2>2 DEF Lists
  <2> QED BY <2>1, <2>2
<1>5. \A i, j \in 1 .. Len(longer) : longer[i] = longer[j] => i = j
  BY <1>2 DEF Lists
<1> QED BY <1>1, <1>2, <1>3, <1>4, <1>5 DEF Lists

\* and if those that leave it are dropped from the front.
LEMMA ListShrinks ==
    ASSUME NEW line \in Seq(Request), NEW before, NEW after, NEW state,
           Lists(line, before, state), NEW k \in 0 .. Len(line),
           \A x \in Request :
              after[x] = state <=> before[x] = state /\ x \notin {line[i] : i \in 1 .. k}
    PROVE  /\ SubSeq(line, k + 1, Len(line)) \in Seq(Request)
           /\ Lists(SubSeq(line, k + 1, Len(line)), after, state)
<1>1. PICK rest : rest = SubSeq(line, k + 1, Len(line))
  OBVIOUS
<1>2. /\ rest \in Seq(Request) /\ Len(rest) = Len(line) - k /\ Len(line) \in Nat
      /\ \A i \in 1 .. Len(rest) : rest[i] = line[i + k] /\ i + k \in 1 .. Len(line)
      /\ \A i \in 1 .. Len(line) : line[i] \in Request
  BY <1>1
<1>3. ASSUME NEW i \in 1 .. Len(rest) PROVE after[rest[i]] = state
  <2>1. before[line[i + k]] = state /\ line[i + k] \in Request
    BY <1>2, <1>3 DEF Lists
  <2>2. ASSUME NEW j \in 1 .. k PROVE line[j] # line[i + k]
    BY <1>2, <1>3, <2>2 DEF Lists
  <2> QED BY <1>2, <2>1, <2>2
<1>4. ASSUME NEW x \in Request, after[x] = state
      PROVE  \E i \in 1 .. Len(rest) : rest[i] = x
  <2>1. PICK i \in 1 .. Len(line) : line[i] = x
    BY <1>4 DEF Lists
  <2>2. i \notin 1 .. k
    BY <1>4, <2>1
  <2>3. i - k \in 1 .. Len(rest) /\ rest[i - k] = x
    BY <1>2, <2>1, <2>2
  <2> QED BY <2>3
<1>5. ASSUME NEW i \in 1 .. Len(rest), NEW j \in 1 .. Len(rest), rest[i] = rest[j] PROVE i = j
  <2>1. i + k = j + k
    BY <1>2, <1>5 DEF Lists
  <2> QED BY <1>2, <2>1
<1> QED BY <1>1, <1>2, <1>3, <1>4, <1>5 DEF Lists

\* The front of a list has as many requests as entries.
LEMMA FrontCounted ==
    ASSUME NEW line \in Seq(Request), NEW k \in 0 .. Len(line),
           \A i, j \in 1 .. Len(line) : line[i] = line[j] => i = j
    PROVE  /\ IsFiniteSet({line[i] : i \in 1 .. k})
           /\ Cardinality({line[i] : i \in 1 .. k}) = k
<1> DEFINE front == {line[i] : i \in 1 .. k}
           nth == [i \in 1 .. k |-> line[i]]
<1>1. nth \in Bijection(1 .. k, front)
  <2>1. nth \in [1 .. k -> front] /\ \A x \in front : \E i \in 1 .. k : nth[i] = x
    OBVIOUS
  <2>2. ASSUME NEW i \in 1 .. k, NEW j \in 1 .. k, nth[i] = nth[j] PROVE i = j
    BY <2>2
  <2> QED BY <2>1, <2>2 DEF Bijection, Injection, IsInjective, Surjection
<1>2. ExistsBijection(1 .. k, front)
  BY <1>1 DEF ExistsBijection
<1>3. IsFiniteSet(1 .. k) /\ Cardinality(1 .. k) = k
  BY FS_Interval
<1> QED BY <1>2, <1>3, FS_Bijection

\* The requests in the states X stay so, and no other enters them.
Keeps(X) == \A x \in Request : request'[x] \in X <=> request[x] \in X

\* There are finitely many requests in any states.
LEMMA InFinite ==
    ASSUME NEW X
    PROVE  IsFiniteSet(Io!In(X)) /\ Cardinality(Io!In(X)) \in Nat
<1>1. Io!In(X) \in SUBSET Request
  BY DEF Io!In
<1> QED BY <1>1, ObjectsAssumption, FS_Subset, FS_CardinalityType

\* Sets of states that are kept have the same requests.
LEMMA InKept == ASSUME NEW X, Keeps(X) PROVE Io!In(X)' = Io!In(X)
  BY DEF Keeps, Io!In

\* A request that changes its state.
LEMMA InMoves ==
    ASSUME request \in [Request -> Io!State], NEW r \in Request, NEW s \in Io!State,
           Io!Becomes({r}, s)
    PROVE  /\ request' \in [Request -> Io!State]
           /\ request'[r] = s
           /\ \A x \in Request \ {r} : request'[x] = request[x]
<1>1. request' = [x \in Request |-> IF x = r THEN s ELSE request[x]]
  BY DEF Io!Becomes
<1> QED BY <1>1

\* It enters or leaves the numbers of the states it comes to or from.
LEMMA InCounts ==
    ASSUME NEW r \in Request, \A x \in Request \ {r} : request'[x] = request[x], NEW X
    PROVE  /\ request[r] \notin X /\ request'[r] \in X
                => Cardinality(Io!In(X)') = Cardinality(Io!In(X)) + 1
           /\ request[r] \in X /\ request'[r] \notin X
                => Cardinality(Io!In(X)') = Cardinality(Io!In(X)) - 1
<1>1. ASSUME request[r] \notin X, request'[r] \in X
      PROVE  Cardinality(Io!In(X)') = Cardinality(Io!In(X)) + 1
  <2>1. Io!In(X)' = Io!In(X) \cup {r} /\ r \notin Io!In(X)
    BY <1>1 DEF Io!In
  <2> QED BY <2>1, InFinite, FS_AddElement
<1>2. ASSUME request[r] \in X, request'[r] \notin X
      PROVE  Cardinality(Io!In(X)') = Cardinality(Io!In(X)) - 1
  <2>1. Io!In(X)' = Io!In(X) \ {r} /\ r \in Io!In(X)
    BY <1>2 DEF Io!In
  <2> QED BY <2>1, InFinite, FS_RemoveElement
<1> QED BY <1>1, <1>2

\* The parts of the invariant that a step does not touch.
LEMMA QueuesKept ==
    ASSUME IoTypes, IoQueues, UNCHANGED <<queue, handles>>, Keeps({"queued"})
    PROVE  IoQueues'
<1>1. Io!In({"queued"})' = Io!In({"queued"})
  BY InKept
<1>2. \A n \in Class : \A i \in 1 .. Len(queue[n]) : request'[queue[n][i]] = "queued"
  <2>1. ASSUME NEW n \in Class, NEW i \in 1 .. Len(queue[n]) PROVE queue[n][i] \in Request
    <3>1. queue[n] \in Seq(Request)
      BY DEF IoTypes
    <3> QED BY <3>1
  <2> QED BY <2>1 DEF IoQueues, Keeps
<1> QED BY <1>1, <1>2 DEF IoQueues

\* The counts of _sem, if nobody is queued or served,
LEMMA UnitsKept ==
    ASSUME IoUnits, UNCHANGED <<ioUnits, waiters, granted>>, Keeps({"queued"}),
           Keeps(Io!State \ {"none", "queued"})
    PROVE  IoUnits'
<1>1. Io!In({"queued"})' = Io!In({"queued"}) /\ Busy' = Busy
  BY InKept DEF Busy
<1> QED BY <1>1 DEF IoUnits

\* those of the contexts, if nobody waits for one, gets it or gives it back,
LEMMA ContextsKept ==
    ASSUME IoTypes, IoContexts, UNCHANGED <<context, contextWaiters>>, Keeps({"waiting"}),
           Keeps({"prepared", "pending", "kernel"})
    PROVE  IoContexts'
<1>1. Held' = Held
  BY InKept DEF Held
<1>2. contextWaiters \in Seq(Request)
  BY DEF IoTypes
<1>3. \A x \in Request : request'[x] = "waiting" <=> request[x] = "waiting"
  BY DEF Keeps
<1>4. Lists(contextWaiters, request', "waiting")
  BY <1>2, <1>3, ListKept DEF IoContexts
<1> QED BY <1>1, <1>4 DEF IoContexts

\* and _pending_aio.
LEMMA PendingKept ==
    ASSUME IoTypes, IoPending, UNCHANGED pending, Keeps({"pending"})
    PROVE  IoPending'
<1>1. pending \in Seq(Request)
  BY DEF IoTypes
<1>2. \A x \in Request : request'[x] = "pending" <=> request[x] = "pending"
  BY DEF Keeps
<1>3. Lists(pending, request', "pending")
  BY <1>1, <1>2, ListKept DEF IoPending
<1> QED BY <1>3 DEF IoPending

\* fair_queue::queue
LEMMA IoQueueStep ==
    ASSUME IoInv, NEW r \in Request, NEW n \in Class, Io!Queue(r, n)
    PROVE  IoInv'
<1>1. /\ IoTypes /\ IoQueues /\ IoUnits /\ IoContexts /\ IoPending
      /\ request[r] = "none" /\ Io!Becomes({r}, "queued")
      /\ queue' = [queue EXCEPT ![n] = Append(queue[n], r)]
      /\ handles' = handles \cup {n}
      /\ UNCHANGED <<context, contextWaiters, pending>>
  BY DEF IoInv, Io!Queue
<1>2. IF ioUnits > 0 /\ waiters = 0
      THEN ioUnits' = ioUnits - 1 /\ granted' = granted + 1 /\ waiters' = waiters
      ELSE waiters' = waiters + 1 /\ ioUnits' = ioUnits /\ granted' = granted
  BY DEF Io!Queue
<1>3. /\ request' \in [Request -> Io!State]
      /\ request'[r] = "queued"
      /\ \A x \in Request \ {r} : request'[x] = request[x]
  BY <1>1, InMoves DEF IoTypes, Io!State
<1>4. ioUnits \in Nat /\ waiters \in Nat /\ granted \in Nat
  BY <1>1 DEF IoTypes
<1>5. IoTypes'
  <2>1. ioUnits' \in Nat /\ waiters' \in Nat /\ granted' \in Nat
    BY <1>2, <1>4
  <2>2. queue' \in [Class -> Seq(Request)]
    BY <1>1 DEF IoTypes
  <2> QED BY <1>1, <1>3, <2>1, <2>2 DEF IoTypes
<1>6. /\ Keeps(Io!State \ {"none", "queued"}) /\ Keeps({"waiting"}) /\ Keeps({"pending"})
      /\ Keeps({"prepared", "pending", "kernel"})
  BY <1>1, <1>3 DEF Keeps
<1>7. Cardinality(Io!In({"queued"})') = Cardinality(Io!In({"queued"})) + 1
  BY <1>1, <1>3, InCounts
<1>8. IoUnits'
  <2>1. Cardinality(Io!In({"queued"})) \in Nat /\ Cardinality(Busy) \in Nat /\ Busy' = Busy
    BY <1>6, InFinite, InKept DEF Busy
  <2> QED BY <1>1, <1>2, <1>4, <1>7, <2>1, SMTT(40) DEF IoUnits
<1>9. IoContexts' /\ IoPending'
  BY <1>1, <1>6, ContextsKept, PendingKept
<1>10. IoQueues'
  <2>1. PICK old, len : old = queue[n] /\ len = Len(queue[n])
    OBVIOUS
  <2>2. old \in Seq(Request) /\ len \in Nat /\ len = Len(old)
    BY <1>1, <2>1 DEF IoTypes
  <2>3. /\ queue'[n] = Append(old, r) /\ Len(queue'[n]) = len + 1 /\ queue'[n] # << >>
        /\ queue'[n][len + 1] = r /\ \A i \in 1 .. len : queue'[n][i] = old[i]
        /\ \A x \in Class \ {n} : queue'[x] = queue[x]
    <3>1. queue'[n] = Append(old, r) /\ \A x \in Class \ {n} : queue'[x] = queue[x]
      BY <1>1, <2>1 DEF IoTypes
    <3>2. PICK more : more = Append(old, r)
      OBVIOUS
    <3>3. /\ more # << >> /\ Len(more) = len + 1 /\ more[len + 1] = r
          /\ \A i \in 1 .. len : more[i] = old[i]
      BY <2>2, <3>2
    <3> QED BY <3>1, <3>2, <3>3
  <2>4. \A x \in Class : \A i \in 1 .. Len(queue'[x]) :
           \/ x = n /\ i = len + 1 /\ queue'[x][i] = r
           \/ i \in 1 .. Len(queue[x]) /\ queue'[x][i] = queue[x][i]
    BY <2>1, <2>2, <2>3, SMTT(40)
  <2>5. \A x \in Class : \A i \in 1 .. Len(queue[x]) :
           i \in 1 .. Len(queue'[x]) /\ queue'[x][i] = queue[x][i]
    BY <2>1, <2>2, <2>3, SMTT(40)
  <2>6. \A x \in Class : \A i \in 1 .. Len(queue[x]) :
           queue[x][i] # r /\ queue[x][i] \in Request /\ request[queue[x][i]] = "queued"
    <3>1. ASSUME NEW x \in Class, NEW i \in 1 .. Len(queue[x]) PROVE queue[x][i] \in Request
      <4>1. queue[x] \in Seq(Request)
        BY <1>1 DEF IoTypes
      <4> QED BY <4>1
    <3> QED BY <1>1, <3>1 DEF IoQueues
  <2>7. handles' = {x \in Class : queue'[x] # << >>}
    BY <1>1, <2>3 DEF IoQueues
  <2>8. \A x \in Class : \A i \in 1 .. Len(queue'[x]) : request'[queue'[x][i]] = "queued"
    BY <1>3, <2>4, <2>6, SMTT(40)
  <2>9. ASSUME NEW y \in Request, request'[y] = "queued"
        PROVE  \E x \in Class : \E i \in 1 .. Len(queue'[x]) : queue'[x][i] = y
    <3>1. CASE y = r
      BY <2>2, <2>3, <3>1
    <3>2. CASE y # r
      <4>1. y \in Io!In({"queued"})
        BY <1>3, <2>9, <3>2 DEF Io!In
      <4> QED BY <1>1, <2>5, <4>1 DEF IoQueues
    <3> QED BY <3>1, <3>2
  <2>10. \A x, y \in Class : \A i \in 1 .. Len(queue'[x]), j \in 1 .. Len(queue'[y]) :
            queue'[x][i] = queue'[y][j] => x = y /\ i = j
    BY <1>1, <2>4, <2>6 DEF IoQueues
  <2> QED BY <2>7, <2>8, <2>9, <2>10 DEF IoQueues, Io!In
<1> QED BY <1>5, <1>8, <1>9, <1>10 DEF IoInv

\* The task of execute_one
LEMMA IoExecuteStep == ASSUME IoInv, Io!ExecuteOne PROVE IoInv'
<1>1. /\ IoTypes /\ IoQueues /\ IoUnits /\ IoContexts /\ IoPending
      /\ granted > 0 /\ granted' = granted - 1
      /\ UNCHANGED <<ioUnits, waiters, context, contextWaiters, pending>>
  BY DEF IoInv, Io!ExecuteOne
<1>2. PICK n \in handles :
          /\ Io!Becomes({Head(queue[n])}, "started")
          /\ queue' = [queue EXCEPT ![n] = Tail(queue[n])]
          /\ handles' = IF Len(queue[n]) > 1 THEN handles ELSE handles \ {n}
  BY DEF Io!ExecuteOne
<1>3. n \in Class /\ queue[n] # << >>
  BY <1>1 DEF IoQueues
<1>4. PICK old, len, r : old = queue[n] /\ len = Len(queue[n]) /\ r = Head(queue[n])
  OBVIOUS
<1>5. /\ old \in Seq(Request) /\ len \in Nat \ {0} /\ len = Len(old) /\ r = old[1] /\ r \in Request
  <2>1. old \in Seq(Request) /\ old # << >>
    BY <1>1, <1>3, <1>4 DEF IoTypes
  <2> QED BY <1>4, <2>1
<1>6. request[r] = "queued"
  <2>1. 1 \in 1 .. Len(queue[n]) /\ queue[n][1] = r
    BY <1>4, <1>5
  <2> QED BY <1>1, <1>3, <2>1 DEF IoQueues
<1>7. /\ request' \in [Request -> Io!State]
      /\ request'[r] = "started"
      /\ \A x \in Request \ {r} : request'[x] = request[x]
  BY <1>1, <1>2, <1>4, <1>5, InMoves DEF IoTypes, Io!State
<1>8. /\ Keeps({"waiting"}) /\ Keeps({"pending"}) /\ Keeps({"prepared", "pending", "kernel"})
  BY <1>6, <1>7 DEF Keeps
<1>9. IoTypes'
  <2>1. Tail(old) \in Seq(Request)
    BY <1>5
  <2>2. queue' \in [Class -> Seq(Request)]
    BY <1>1, <1>2, <1>4, <2>1 DEF IoTypes
  <2>3. granted' \in Nat
    BY <1>1 DEF IoTypes
  <2> QED BY <1>1, <1>7, <2>2, <2>3 DEF IoTypes
<1>10. IoUnits'
  <2>1. Cardinality(Io!In({"queued"})') = Cardinality(Io!In({"queued"})) - 1
    BY <1>5, <1>6, <1>7, InCounts
  <2>2. Cardinality(Busy') = Cardinality(Busy) + 1
    BY <1>5, <1>6, <1>7, InCounts DEF Busy, Io!State
  <2>3. Cardinality(Io!In({"queued"})) \in Nat /\ Cardinality(Busy) \in Nat
    BY InFinite DEF Busy
  <2>4. ioUnits \in Nat /\ waiters \in Nat /\ granted \in Nat
    BY <1>1 DEF IoTypes
  <2> QED BY <1>1, <2>1, <2>2, <2>3, <2>4 DEF IoUnits
<1>11. IoContexts' /\ IoPending'
  BY <1>1, <1>8, ContextsKept, PendingKept
<1>12. IoQueues'
  <2>1. /\ queue'[n] = Tail(old) /\ \A x \in Class \ {n} : queue'[x] = queue[x]
    BY <1>1, <1>2, <1>3, <1>4 DEF IoTypes
  <2>2. /\ Len(queue'[n]) = len - 1 /\ (queue'[n] = << >> <=> len = 1)
        /\ \A i \in 1 .. len - 1 : queue'[n][i] = old[i + 1]
    <3>1. PICK rest : rest = Tail(old)
      OBVIOUS
    <3>2. /\ Len(rest) = len - 1 /\ (rest = << >> <=> len = 1)
          /\ \A i \in 1 .. len - 1 : rest[i] = old[i + 1]
      <4>1. Len(rest) = len - 1 /\ \A i \in 1 .. Len(rest) : rest[i] = old[i + 1]
        BY <1>5, <3>1
      <4>2. rest \in Seq(Request)
        BY <1>5, <3>1
      <4>3. rest = << >> <=> Len(rest) = 0
        BY <4>2
      <4> QED BY <1>5, <4>1, <4>3
    <3> QED BY <2>1, <3>1, <3>2
  <2>3. \A x \in Class : \A i \in 1 .. Len(queue[x]) :
           queue[x][i] \in Request /\ (queue[x][i] = r => x = n /\ i = 1)
    <3>1. ASSUME NEW x \in Class, NEW i \in 1 .. Len(queue[x]) PROVE queue[x][i] \in Request
      <4>1. queue[x] \in Seq(Request)
        BY <1>1 DEF IoTypes
      <4> QED BY <4>1
    <3>2. 1 \in 1 .. Len(queue[n]) /\ queue[n][1] = r
      BY <1>4, <1>5
    <3> QED BY <1>1, <1>3, <3>1, <3>2 DEF IoQueues
  <2>4. handles' = {x \in Class : queue'[x] # << >>}
    <3>1. ASSUME NEW x \in Class PROVE x \in handles' <=> queue'[x] # << >>
      <4>1. CASE x = n
        BY <1>2, <1>4, <1>5, <2>2, <4>1
      <4>2. CASE x # n
        BY <1>1, <1>2, <2>1, <4>2 DEF IoQueues
      <4> QED BY <4>1, <4>2
    <3> QED BY <1>1, <1>2, <3>1 DEF IoQueues
  <2>5. \A x \in Class : \A i \in 1 .. Len(queue'[x]) :
           IF x = n THEN i + 1 \in 1 .. Len(queue[x]) /\ queue'[x][i] = queue[x][i + 1]
           ELSE i \in 1 .. Len(queue[x]) /\ queue'[x][i] = queue[x][i]
    <3>1. \A i \in 1 .. Len(queue'[n]) : i + 1 \in 1 .. Len(queue[n]) /\ queue'[n][i] = queue[n][i + 1]
      BY <1>4, <1>5, <2>2
    <3>2. \A x \in Class \ {n} : queue'[x] = queue[x]
      BY <2>1
    <3> QED BY <3>1, <3>2
  <2>6. ASSUME NEW x \in Class, NEW i \in 1 .. Len(queue'[x])
        PROVE  request'[queue'[x][i]] = "queued"
    <3>1. PICK j \in 1 .. Len(queue[x]) : queue'[x][i] = queue[x][j] /\ (x = n => j # 1)
      BY <2>5, <2>6
    <3>2. queue[x][j] \in Request \ {r} /\ request[queue[x][j]] = "queued"
      BY <1>1, <2>3, <3>1 DEF IoQueues
    <3> QED BY <1>7, <3>1, <3>2
  <2>7. ASSUME NEW y \in Request, request'[y] = "queued"
        PROVE  \E x \in Class : \E i \in 1 .. Len(queue'[x]) : queue'[x][i] = y
    <3>1. y \in Io!In({"queued"}) /\ y # r
      BY <1>7, <2>7 DEF Io!In
    <3>2. PICK x \in Class, i \in Nat : i \in 1 .. Len(queue[x]) /\ queue[x][i] = y
      BY <1>1, <3>1 DEF IoQueues
    <3>3. CASE x = n
      <4>1. i - 1 \in 1 .. Len(queue'[n]) /\ queue'[n][i - 1] = y
        BY <1>4, <1>5, <2>2, <3>1, <3>2, <3>3
      <4> QED BY <1>3, <4>1
    <3>4. CASE x # n
      BY <2>1, <3>2, <3>4
    <3> QED BY <3>3, <3>4
  <2>8. ASSUME NEW x \in Class, NEW y \in Class, NEW i \in 1 .. Len(queue'[x]),
               NEW j \in 1 .. Len(queue'[y]), queue'[x][i] = queue'[y][j]
        PROVE  x = y /\ i = j
    <3>1. /\ IF x = n THEN i + 1 \in 1 .. Len(queue[x]) /\ queue'[x][i] = queue[x][i + 1]
             ELSE i \in 1 .. Len(queue[x]) /\ queue'[x][i] = queue[x][i]
          /\ IF y = n THEN j + 1 \in 1 .. Len(queue[y]) /\ queue'[y][j] = queue[y][j + 1]
             ELSE j \in 1 .. Len(queue[y]) /\ queue'[y][j] = queue[y][j]
      BY <2>5, <2>8
    <3>2. i \in Int /\ j \in Int
      BY <2>8
    <3>3. \A k \in 1 .. Len(queue[x]), m \in 1 .. Len(queue[y]) :
             queue[x][k] = queue[y][m] => x = y /\ k = m
      BY <1>1, <2>8 DEF IoQueues
    <3>4. x = y
      BY <2>8, <3>1, <3>3
    <3>5. CASE x = n
      <4>1. i + 1 = j + 1
        BY <2>8, <3>1, <3>3, <3>4, <3>5
      <4> QED BY <3>2, <3>4, <4>1
    <3>6. CASE x # n
      BY <2>8, <3>1, <3>3, <3>4, <3>6
    <3> QED BY <3>5, <3>6
  <2> QED BY <2>4, <2>6, <2>7, <2>8 DEF IoQueues, Io!In
<1> QED BY <1>9, <1>10, <1>11, <1>12 DEF IoInv

\* submit_io takes a context or waits for one.
LEMMA IoSubmitStep == ASSUME IoInv, NEW r \in Request, Io!Submit(r) PROVE IoInv'
<1>1. /\ IoTypes /\ IoQueues /\ IoUnits /\ IoContexts /\ IoPending
      /\ request[r] = "started"
      /\ UNCHANGED <<queue, handles, ioUnits, waiters, granted, pending>>
  BY DEF IoInv, Io!Submit
<1>2. PICK s \in {"prepared", "waiting"} :
          /\ Io!Becomes({r}, s)
          /\ IF s = "prepared"
             THEN context > 0 /\ context' = context - 1 /\ contextWaiters' = contextWaiters
             ELSE /\ context > 0 => contextWaiters # << >>
                  /\ contextWaiters' = Append(contextWaiters, r) /\ context' = context
  <2>1. CASE context > 0 /\ contextWaiters = << >>
    BY <2>1 DEF Io!Submit
  <2>2. CASE ~(context > 0 /\ contextWaiters = << >>)
    BY <2>2 DEF Io!Submit
  <2> QED BY <2>1, <2>2
<1>3. /\ request' \in [Request -> Io!State]
      /\ request'[r] = s
      /\ \A x \in Request \ {r} : request'[x] = request[x]
  BY <1>1, <1>2, InMoves DEF IoTypes, Io!State
<1>4. /\ Keeps({"queued"}) /\ Keeps({"pending"}) /\ Keeps(Io!State \ {"none", "queued"})
      /\ s = "prepared" => Keeps({"waiting"})
      /\ s = "waiting" => Keeps({"prepared", "pending", "kernel"})
  BY <1>1, <1>2, <1>3 DEF Keeps, Io!State
<1>5. IoQueues' /\ IoUnits' /\ IoPending'
  BY <1>1, <1>4, QueuesKept, UnitsKept, PendingKept
<1>6. contextWaiters \in Seq(Request) /\ context \in Nat /\ Cardinality(Held) \in Nat
  BY <1>1, InFinite DEF IoTypes, Held
<1>7. CASE s = "prepared"
  <2>1. context > 0 /\ context' = context - 1 /\ contextWaiters' = contextWaiters
    BY <1>2, <1>7
  <2>2. Cardinality(Held') = Cardinality(Held) + 1
    BY <1>1, <1>3, <1>7, InCounts DEF Held
  <2>3. \A x \in Request : request'[x] = "waiting" <=> request[x] = "waiting"
    BY <1>4, <1>7 DEF Keeps
  <2>4. Lists(contextWaiters', request', "waiting")
    BY <1>1, <1>6, <2>1, <2>3, ListKept DEF IoContexts
  <2>5. IoContexts'
    BY <1>1, <1>6, <2>1, <2>2, <2>4 DEF IoContexts
  <2>6. context' \in Nat
    BY <1>6, <2>1
  <2>7. IoTypes'
    BY <1>1, <1>3, <2>1, <2>6 DEF IoTypes
  <2> QED BY <1>5, <2>5, <2>7 DEF IoInv
<1>8. CASE s = "waiting"
  <2>1. /\ context > 0 => contextWaiters # << >>
        /\ contextWaiters' = Append(contextWaiters, r) /\ context' = context
    BY <1>2, <1>8
  <2>2. Held' = Held
    BY <1>4, <1>8, InKept DEF Held
  <2>3. \A x \in Request : request'[x] = "waiting" <=> x = r \/ request[x] = "waiting"
    BY <1>3, <1>8
  <2>4. contextWaiters' \in Seq(Request) /\ Lists(contextWaiters', request', "waiting")
    BY <1>1, <1>6, <2>1, <2>3, ListGrows DEF IoContexts
  <2>5. IoContexts'
    BY <1>1, <1>6, <2>1, <2>2, <2>4 DEF IoContexts
  <2>6. IoTypes'
    BY <1>1, <1>3, <2>1, <2>4 DEF IoTypes
  <2> QED BY <1>5, <2>5, <2>6 DEF IoInv
<1> QED BY <1>2, <1>7, <1>8

\* finally(): the unit goes to a call that waits, or back.
LEMMA IoFinishStep == ASSUME IoInv, NEW r \in Request, Io!Finish(r) PROVE IoInv'
<1>1. /\ IoTypes /\ IoQueues /\ IoUnits /\ IoContexts /\ IoPending
      /\ request[r] = "answered" /\ Io!Becomes({r}, "none")
      /\ UNCHANGED <<queue, handles, context, contextWaiters, pending>>
  BY DEF IoInv, Io!Finish
<1>2. IF waiters > 0
      THEN waiters' = waiters - 1 /\ granted' = granted + 1 /\ ioUnits' = ioUnits
      ELSE ioUnits' = ioUnits + 1 /\ waiters' = waiters /\ granted' = granted
  BY DEF Io!Finish
<1>3. /\ request' \in [Request -> Io!State]
      /\ request'[r] = "none"
      /\ \A x \in Request \ {r} : request'[x] = request[x]
  BY <1>1, InMoves DEF IoTypes, Io!State
<1>4. /\ Keeps({"queued"}) /\ Keeps({"pending"}) /\ Keeps({"waiting"})
      /\ Keeps({"prepared", "pending", "kernel"})
  BY <1>1, <1>3 DEF Keeps
<1>5. IoQueues' /\ IoContexts' /\ IoPending'
  BY <1>1, <1>4, QueuesKept, ContextsKept, PendingKept
<1>6. ioUnits \in Nat /\ waiters \in Nat /\ granted \in Nat
  BY <1>1 DEF IoTypes
<1>7. IoTypes'
  <2>1. ioUnits' \in Nat /\ waiters' \in Nat /\ granted' \in Nat
    BY <1>2, <1>6
  <2> QED BY <1>1, <1>3, <2>1 DEF IoTypes
<1>8. IoUnits'
  <2>1. Io!In({"queued"})' = Io!In({"queued"})
    BY <1>4, InKept
  <2>2. Cardinality(Busy') = Cardinality(Busy) - 1
    BY <1>1, <1>3, InCounts DEF Busy, Io!State
  <2>3. Cardinality(Io!In({"queued"})) \in Nat /\ Cardinality(Busy) \in Nat
    BY InFinite DEF Busy
  <2> QED BY <1>1, <1>2, <1>6, <2>1, <2>2, <2>3 DEF IoUnits
<1> QED BY <1>5, <1>7, <1>8 DEF IoInv

\* Some that hold a context are answered, states is what becomes of the
\* requests by that, and the contexts go to the first that wait.
LEMMA IoSignalStep ==
    ASSUME IoInv, NEW gone \in SUBSET Held, NEW states \in [Request -> Io!State],
           Io!SignalContext(gone, states),
           \A x \in gone : states[x] = "answered",
           \A x \in Request \ gone : \/ states[x] = request[x]
                                     \/ /\ request[x] \in {"prepared", "pending", "kernel"}
                                        /\ states[x] \in {"prepared", "pending", "kernel"},
           pending' \in Seq(Request), Lists(pending', states, "pending"),
           UNCHANGED <<queue, handles, ioUnits, waiters, granted>>
    PROVE  IoInv'
<1>1. /\ IoTypes /\ IoQueues /\ IoUnits /\ IoContexts
      /\ context \in Nat /\ MaxAio \in Nat /\ contextWaiters \in Seq(Request)
  BY ObjectsAssumption DEF IoInv, IoTypes
<1>2. /\ gone \subseteq Request
      /\ \A x \in gone : request[x] \in {"prepared", "pending", "kernel"}
  BY DEF Held, Io!In
<1>3. IsFiniteSet(gone) /\ Cardinality(gone) \in Nat /\ Cardinality(Held) \in Nat /\ IsFiniteSet(Held)
  <2>1. IsFiniteSet(Held) /\ Cardinality(Held) \in Nat
    BY InFinite DEF Held
  <2> QED BY <2>1, FS_Subset, FS_CardinalityType
<1>4. PICK n, k : /\ n = context + Cardinality(gone)
                  /\ k = IF n < Len(contextWaiters) THEN n ELSE Len(contextWaiters)
  OBVIOUS
<1>5. n \in Nat /\ k \in 0 .. Len(contextWaiters) /\ k <= n /\ k \in Nat
  BY <1>1, <1>3, <1>4
<1>6. /\ context' = n - k
      /\ contextWaiters' = SubSeq(contextWaiters, k + 1, Len(contextWaiters))
      /\ request' = [x \in Request |->
            IF \E i \in 1 .. k : contextWaiters[i] = x THEN "prepared" ELSE states[x]]
  BY <1>4, SameCardinality DEF Io!SignalContext
<1>7. PICK woken : woken = {contextWaiters[i] : i \in 1 .. k}
  OBVIOUS
<1>8. \A x \in woken : x \in Request /\ request[x] = "waiting" /\ x \notin gone /\ states[x] = "waiting"
  <2>1. ASSUME NEW i \in 1 .. k
        PROVE  contextWaiters[i] \in Request /\ request[contextWaiters[i]] = "waiting"
    <3>1. i \in 1 .. Len(contextWaiters)
      BY <1>1, <1>5
    <3> QED BY <1>1, <3>1 DEF IoContexts, Lists
  <2>2. \A x \in woken : x \in Request /\ request[x] = "waiting"
    BY <1>7, <2>1
  <2> QED BY <1>2, <2>2
<1>9. \A x \in Request : request'[x] = IF x \in woken THEN "prepared" ELSE states[x]
  BY <1>6, <1>7
<1>10. request' \in [Request -> Io!State]
  <2>1. \A x \in Request : request'[x] \in Io!State
    BY <1>9 DEF Io!State
  <2>2. request' = [x \in Request |-> request'[x]]
    BY <1>6
  <2> QED BY <2>1, <2>2
<1>11. Keeps({"queued"}) /\ Keeps(Io!State \ {"none", "queued"})
  <2>1. ASSUME NEW x \in Request
        PROVE  /\ request'[x] = "queued" <=> request[x] = "queued"
               /\ request'[x] = "none" <=> request[x] = "none"
    <3>1. CASE x \in gone
      BY <1>2, <1>8, <1>9, <3>1
    <3>2. CASE x \in woken
      BY <1>8, <1>9, <3>2
    <3>3. CASE x \notin gone /\ x \notin woken
      BY <1>9, <3>3
    <3> QED BY <3>1, <3>2, <3>3
  <2>2. \A x \in Request : request[x] \in Io!State /\ request'[x] \in Io!State
    BY <1>1, <1>10 DEF IoTypes
  <2> QED BY <2>1, <2>2 DEF Keeps
<1>12. IoQueues' /\ IoUnits'
  BY <1>1, <1>11, QueuesKept, UnitsKept
<1>13. Cardinality(Held') = Cardinality(Held) - Cardinality(gone) + k
  <2>1. IsFiniteSet(woken) /\ Cardinality(woken) = k
    <3>1. \A i, j \in 1 .. Len(contextWaiters) : contextWaiters[i] = contextWaiters[j] => i = j
      BY <1>1 DEF IoContexts, Lists
    <3> QED BY <1>1, <1>5, <1>7, <3>1, FrontCounted
  <2>2. Held' = (Held \ gone) \cup woken
    <3>1. ASSUME NEW x \in Request
          PROVE  request'[x] \in {"prepared", "pending", "kernel"}
                    <=> \/ request[x] \in {"prepared", "pending", "kernel"} /\ x \notin gone
                        \/ x \in woken
      <4>1. CASE x \in gone
        BY <1>8, <1>9, <4>1
      <4>2. CASE x \in woken
        BY <1>9, <4>2
      <4>3. CASE x \notin gone /\ x \notin woken
        BY <1>9, <4>3
      <4> QED BY <4>1, <4>2, <4>3
    <3> QED BY <1>8, <3>1 DEF Held, Io!In
  <2>3. (Held \ gone) \cap woken = {} /\ Held \cap gone = gone
    BY <1>8 DEF Held, Io!In
  <2>4. IsFiniteSet(Held \ gone) /\ Cardinality(Held \ gone) = Cardinality(Held) - Cardinality(gone)
    BY <1>3, <2>3, FS_Difference
  <2>5. Cardinality((Held \ gone) \cup woken)
           = Cardinality(Held \ gone) + Cardinality(woken) - Cardinality((Held \ gone) \cap woken)
    BY <2>1, <2>4, FS_Union
  <2>6. Cardinality((Held \ gone) \cap woken) = 0
    BY <2>3, FS_EmptySet
  <2> QED BY <1>3, <1>5, <2>1, <2>2, <2>4, <2>5, <2>6
<1>14. contextWaiters' \in Seq(Request) /\ Lists(contextWaiters', request', "waiting")
  <2>1. Lists(contextWaiters, request, "waiting")
    BY <1>1 DEF IoContexts
  <2>2. ASSUME NEW x \in Request
        PROVE  request'[x] = "waiting" <=> request[x] = "waiting" /\ x \notin woken
    <3>1. CASE x \in gone
      BY <1>2, <1>8, <1>9, <3>1
    <3>2. CASE x \in woken
      BY <1>9, <3>2
    <3>3. CASE x \notin gone /\ x \notin woken
      BY <1>9, <3>3
    <3> QED BY <3>1, <3>2, <3>3
  <2>3. \A x \in Request : request'[x] = "waiting"
           <=> request[x] = "waiting" /\ x \notin {contextWaiters[i] : i \in 1 .. k}
    BY <1>7, <2>2
  <2>4. /\ SubSeq(contextWaiters, k + 1, Len(contextWaiters)) \in Seq(Request)
        /\ Lists(SubSeq(contextWaiters, k + 1, Len(contextWaiters)), request', "waiting")
    <3>1. contextWaiters \in Seq(Request) /\ k \in 0 .. Len(contextWaiters)
      BY <1>1, <1>5
    <3> QED BY <2>1, <2>3, <3>1, ListShrinks
  <2> QED BY <1>6, <2>4
<1>15. context' > 0 => contextWaiters' = << >>
  <2>1. ASSUME context' > 0 PROVE k = Len(contextWaiters)
    BY <1>4, <1>5, <1>6, <2>1
  <2>2. k = Len(contextWaiters) => contextWaiters' = << >>
    BY <1>1, <1>6
  <2> QED BY <2>1, <2>2
<1>16. context' \in Nat /\ context' + Cardinality(Held') = MaxAio
  <2>1. context + Cardinality(Held) = MaxAio
    BY <1>1 DEF IoContexts
  <2>2. n = context + Cardinality(gone) /\ context' = n - k
    BY <1>4, <1>6
  <2> QED BY <1>1, <1>3, <1>5, <1>13, <2>1, <2>2, SMTT(40)
<1>17. IoContexts'
  BY <1>14, <1>15, <1>16 DEF IoContexts
<1>18. IoPending'
  <2>1. \A x \in Request : request'[x] = "pending" <=> states[x] = "pending"
    BY <1>8, <1>9
  <2>2. Lists(pending', request', "pending")
    BY <2>1, ListKept
  <2> QED BY <2>2 DEF IoPending
<1>19. IoTypes'
  BY <1>1, <1>10, <1>14, <1>16 DEF IoTypes
<1> QED BY <1>12, <1>17, <1>18, <1>19 DEF IoInv

\* flush_pending_aio, for requests that are pending but for one that was
\* prepared and joins them: at tells them apart.
LEMMA IoFlushStep ==
    ASSUME IoInv, NEW batch \in Seq(Request), NEW at \in [Request -> Io!State],
           Lists(batch, at, "pending"),
           \A x \in Request : at[x] = request[x] \/ (at[x] = "pending" /\ request[x] = "prepared"),
           Io!flush_pending_aio(batch),
           UNCHANGED <<queue, handles, ioUnits, waiters, granted>>
    PROVE  IoInv'
<1>1. PICK m \in 0 .. Len(batch) :
          \E refused \in SUBSET {batch[i] : i \in 1 .. m} :
             /\ pending' = SubSeq(batch, m + 1, Len(batch))
             /\ Io!SignalContext(refused, Io!Submitted({batch[i] : i \in 1 .. m} \ refused, refused))
  BY DEF Io!flush_pending_aio
<1>2. PICK refused \in SUBSET {batch[i] : i \in 1 .. m} :
          /\ pending' = SubSeq(batch, m + 1, Len(batch))
          /\ Io!SignalContext(refused, Io!Submitted({batch[i] : i \in 1 .. m} \ refused, refused))
  BY <1>1
<1>3. PICK sent : sent = {batch[i] : i \in 1 .. m}
  OBVIOUS
<1>4. PICK states : states = Io!Submitted(sent \ refused, refused)
  OBVIOUS
<1>5. Io!SignalContext(refused, states)
  BY <1>2, <1>3, <1>4
<1>6. refused \subseteq sent /\ sent \subseteq Request
      /\ \A x \in sent : at[x] = "pending"
  <2>1. \A i \in 1 .. m : i \in 1 .. Len(batch) /\ batch[i] \in Request
    OBVIOUS
  <2>2. \A i \in 1 .. m : at[batch[i]] = "pending"
    BY <2>1 DEF Lists
  <2> QED BY <1>2, <1>3, <2>1, <2>2
<1>7. PICK after : after = [x \in Request |-> IF x \in sent THEN "kernel" ELSE at[x]]
  OBVIOUS
<1>8. pending' \in Seq(Request) /\ Lists(pending', after, "pending")
  <2>1. \A x \in Request : after[x] = "pending"
           <=> at[x] = "pending" /\ x \notin {batch[i] : i \in 1 .. m}
    BY <1>3, <1>7
  <2>2. /\ SubSeq(batch, m + 1, Len(batch)) \in Seq(Request)
        /\ Lists(SubSeq(batch, m + 1, Len(batch)), after, "pending")
    BY <2>1, ListShrinks
  <2> QED BY <1>2, <2>2
<1>9. \A x \in Request : x \in Io!Range(pending') <=> at[x] = "pending" /\ x \notin sent
  <2>1. \A x : x \in Io!Range(pending') <=> \E i \in 1 .. Len(pending') : pending'[i] = x
    BY <1>8 DEF Io!Range
  <2>2. \A x \in Request : x \in Io!Range(pending') <=> after[x] = "pending"
    BY <2>1, <1>8 DEF Lists
  <2>3. \A x \in Request : after[x] = IF x \in sent THEN "kernel" ELSE at[x]
    BY <1>7
  <2> QED BY <2>2, <2>3
<1>10. \A x \in Request : states[x] = IF x \in sent \ refused THEN "kernel"
                                    ELSE IF x \in refused THEN "answered"
                                    ELSE IF x \in Io!Range(pending') THEN "pending" ELSE request[x]
  BY <1>4 DEF Io!Submitted
<1>11. \A x \in Request : states[x] = IF x \in sent \ refused THEN "kernel"
                                     ELSE IF x \in refused THEN "answered" ELSE at[x]
  <2>1. ASSUME NEW x \in Request, x \notin sent
        PROVE  (IF x \in Io!Range(pending') THEN "pending" ELSE request[x]) = at[x]
    <3>1. CASE at[x] = "pending"
      BY <1>9, <2>1, <3>1
    <3>2. CASE at[x] # "pending"
      BY <1>9, <2>1, <3>2
    <3> QED BY <3>1, <3>2
  <2>2. ASSUME NEW x \in Request
        PROVE  states[x] = IF x \in sent \ refused THEN "kernel"
                           ELSE IF x \in refused THEN "answered" ELSE at[x]
    <3>1. CASE x \in sent
      BY <1>6, <1>10, <3>1
    <3>2. CASE x \notin sent
      <4>1. x \notin refused
        BY <1>6, <3>2
      <4>2. states[x] = IF x \in Io!Range(pending') THEN "pending" ELSE request[x]
        BY <1>10, <3>2, <4>1
      <4> QED BY <2>1, <3>2, <4>1, <4>2
    <3> QED BY <3>1, <3>2
  <2> QED BY <2>2
<1>12. states \in [Request -> Io!State]
  <2>1. \A x \in Request : states[x] \in Io!State
    BY <1>11 DEF Io!State
  <2>2. states = [x \in Request |-> states[x]]
    BY <1>4 DEF Io!Submitted
  <2> QED BY <2>1, <2>2
<1>13. \A x \in Request : after[x] = "pending" <=> states[x] = "pending"
  BY <1>6, <1>7, <1>11
<1>14. Lists(pending', states, "pending")
  BY <1>8, <1>13, ListKept
<1>15. refused \in SUBSET Held
  BY <1>6 DEF Held, Io!In
<1>16. \A x \in refused : states[x] = "answered"
  BY <1>6, <1>11
<1>17. \A x \in Request \ refused : \/ states[x] = request[x]
                                    \/ /\ request[x] \in {"prepared", "pending", "kernel"}
                                       /\ states[x] \in {"prepared", "pending", "kernel"}
  BY <1>6, <1>11
<1> QED BY <1>5, <1>8, <1>12, <1>14, <1>15, <1>16, <1>17, IoSignalStep

\* A request that has a context joins the batch, which may be flushed.
LEMMA IoPrepareStep == ASSUME IoInv, NEW r \in Request, Io!Prepare(r) PROVE IoInv'
<1>1. /\ IoTypes /\ IoQueues /\ IoUnits /\ IoContexts /\ IoPending
      /\ request[r] = "prepared"
      /\ UNCHANGED <<queue, handles, ioUnits, waiters, granted>>
  BY DEF IoInv, Io!Prepare
<1>2. pending \in Seq(Request) /\ request \in [Request -> Io!State]
  BY <1>1 DEF IoTypes
<1>3. PICK at : at = [request EXCEPT ![r] = "pending"]
  OBVIOUS
<1>4. /\ at \in [Request -> Io!State] /\ at[r] = "pending"
      /\ \A x \in Request \ {r} : at[x] = request[x]
  BY <1>2, <1>3 DEF Io!State
<1>5. Append(pending, r) \in Seq(Request) /\ Lists(Append(pending, r), at, "pending")
  <2>1. \A x \in Request : at[x] = "pending" <=> x = r \/ request[x] = "pending"
    BY <1>4
  <2> QED BY <1>1, <1>2, <2>1, ListGrows DEF IoPending
<1>6. CASE Io!flush_pending_aio(Append(pending, r))
  <2>1. \A x \in Request : at[x] = request[x] \/ (at[x] = "pending" /\ request[x] = "prepared")
    BY <1>1, <1>4
  <2>2. PICK batch : batch = Append(pending, r)
    OBVIOUS
  <2> QED BY <1>1, <1>4, <1>5, <1>6, <2>1, <2>2, IoFlushStep
<1>7. CASE /\ Io!Becomes({r}, "pending")
           /\ pending' = Append(pending, r)
           /\ UNCHANGED <<context, contextWaiters>>
  <2>1. /\ request' \in [Request -> Io!State]
        /\ request'[r] = "pending"
        /\ \A x \in Request \ {r} : request'[x] = request[x]
    BY <1>2, <1>7, InMoves DEF Io!State
  <2>2. /\ Keeps({"queued"}) /\ Keeps({"waiting"}) /\ Keeps(Io!State \ {"none", "queued"})
        /\ Keeps({"prepared", "pending", "kernel"})
    BY <1>1, <2>1 DEF Keeps, Io!State
  <2>3. IoQueues' /\ IoUnits' /\ IoContexts'
    BY <1>1, <1>7, <2>2, QueuesKept, UnitsKept, ContextsKept
  <2>4. Lists(pending', request', "pending") /\ pending' \in Seq(Request)
    <3>1. \A x \in Request : request'[x] = "pending" <=> at[x] = "pending"
      BY <1>4, <2>1
    <3> QED BY <1>5, <1>7, <3>1, ListKept
  <2>5. IoTypes'
    BY <1>1, <1>7, <2>1, <2>4 DEF IoTypes
  <2> QED BY <2>3, <2>4, <2>5 DEF IoInv, IoPending
<1> QED BY <1>6, <1>7 DEF Io!Prepare

\* aio_batch_submit_pollfn
LEMMA IoPollStep == ASSUME IoInv, Io!PollFlush PROVE IoInv'
<1>1. /\ pending \in Seq(Request) /\ request \in [Request -> Io!State]
      /\ Lists(pending, request, "pending")
  BY DEF IoInv, IoTypes, IoPending
<1>2. Io!flush_pending_aio(pending) /\ UNCHANGED <<queue, handles, ioUnits, waiters, granted>>
  BY DEF Io!PollFlush
<1> QED BY <1>1, <1>2, IoFlushStep

\* process_io
LEMMA IoProcessStep == ASSUME IoInv, Io!ProcessIo PROVE IoInv'
<1>1. PICK done \in SUBSET {x \in Request : request[x] = "kernel"} :
          Io!SignalContext(done, [x \in Request |-> IF x \in done THEN "answered" ELSE request[x]])
  BY DEF Io!ProcessIo
<1>2. PICK states : states = [x \in Request |-> IF x \in done THEN "answered" ELSE request[x]]
  OBVIOUS
<1>3. UNCHANGED <<queue, handles, ioUnits, waiters, granted, pending>>
  BY DEF Io!ProcessIo
<1>4. /\ pending \in Seq(Request) /\ request \in [Request -> Io!State]
      /\ Lists(pending, request, "pending")
  BY DEF IoInv, IoTypes, IoPending
<1>5. states \in [Request -> Io!State]
  BY <1>2, <1>4 DEF Io!State
<1>6. Lists(pending', states, "pending") /\ pending' \in Seq(Request)
  <2>1. \A x \in Request : states[x] = "pending" <=> request[x] = "pending"
    BY <1>1, <1>2
  <2> QED BY <1>3, <1>4, <2>1, ListKept
<1>7. done \in SUBSET Held
  BY <1>1 DEF Held, Io!In
<1>8. /\ \A x \in done : states[x] = "answered"
      /\ \A x \in Request \ done : states[x] = request[x]
  BY <1>1, <1>2
<1>9. Io!SignalContext(done, states)
  BY <1>1, <1>2
<1> QED BY <1>3, <1>5, <1>6, <1>7, <1>8, <1>9, IoSignalStep

\* It holds with no request.
LEMMA IoInit == MCInit => IoInv
<1> SUFFICES ASSUME Io!Init PROVE IoInv
  BY DEF MCInit
<1>1. Units \in Nat /\ MaxAio \in Nat
  BY ObjectsAssumption
<1>2. IoTypes
  BY <1>1 DEF Io!Init, IoTypes, Io!State
<1>3. \A x \in Request : request[x] = "none"
  BY DEF Io!Init
<1>4. Io!In({"queued"}) = {} /\ Busy = {} /\ Held = {}
  BY <1>3 DEF Io!In, Busy, Held
<1>5. IoQueues
  <2>1. \A n \in Class : queue[n] = << >>
    BY DEF Io!Init
  <2>2. handles = {}
    BY DEF Io!Init
  <2> QED BY <1>4, <2>1, <2>2 DEF IoQueues
<1>6. IoUnits /\ IoContexts
  <2>1. contextWaiters = << >> /\ Lists(contextWaiters, request, "waiting")
    BY <1>3 DEF Io!Init, Lists
  <2>2. /\ ioUnits = Units /\ waiters = 0 /\ granted = 0 /\ context = MaxAio
    BY DEF Io!Init
  <2>3. Cardinality({}) = 0
    BY FS_EmptySet
  <2>4. Cardinality(Io!In({"queued"})) = 0 /\ Cardinality(Busy) = 0 /\ Cardinality(Held) = 0
    BY <1>4, <2>3
  <2>5. IoUnits
    BY <1>1, <2>2, <2>4 DEF IoUnits
  <2>6. IoContexts
    BY <1>1, <2>1, <2>2, <2>4 DEF IoContexts
  <2> QED BY <2>5, <2>6
<1>7. IoPending
  BY <1>3 DEF Io!Init, IoPending, Lists
<1> QED BY <1>2, <1>5, <1>6, <1>7 DEF IoInv

\* No step of the disk queue breaks its invariant.
LEMMA IoStep == IoInv /\ [IoNext]_ioVars => IoInv'
<1> SUFFICES ASSUME IoInv, [IoNext]_ioVars PROVE IoInv'
  OBVIOUS
<1>1. ASSUME NEW r \in Request, NEW n \in Class, Io!Queue(r, n) PROVE IoInv'
  BY <1>1, IoQueueStep
<1>2. CASE Io!ExecuteOne
  BY <1>2, IoExecuteStep
<1>3. CASE Io!PollFlush
  BY <1>3, IoPollStep
<1>4. CASE Io!ProcessIo
  BY <1>4, IoProcessStep
<1>5. ASSUME NEW r \in Request, Io!Submit(r) PROVE IoInv'
  BY <1>5, IoSubmitStep
<1>6. ASSUME NEW r \in Request, Io!Prepare(r) PROVE IoInv'
  BY <1>6, IoPrepareStep
<1>7. ASSUME NEW r \in Request, Io!Finish(r) PROVE IoInv'
  BY <1>7, IoFinishStep
<1>8. CASE UNCHANGED ioVars
  <2>1. /\ UNCHANGED <<request, queue, handles, ioUnits, waiters, granted>>
        /\ UNCHANGED <<context, contextWaiters, pending>>
    BY <1>8 DEF ioVars
  <2>2. \A X : Keeps(X)
    BY <2>1 DEF Keeps
  <2>3. IoTypes'
    BY <2>1 DEF IoInv, IoTypes
  <2> QED BY <2>1, <2>2, <2>3, QueuesKept, UnitsKept, ContextsKept, PendingKept DEF IoInv
<1> QED BY <1>1, <1>2, <1>3, <1>4, <1>5, <1>6, <1>7, <1>8 DEF IoNext

\* Calls of execute_one and queued requests never get out of step, so that
\* pop_priority_class finds a class with a request.
THEOREM ClassesStayInStep == MCSpec => []ClassesAgree
<1>1. IoInv => ClassesAgree
  <2> SUFFICES ASSUME IoInv PROVE Io!ClassesAgree
    BY DEF ClassesAgree
  <2>1. waiters + granted = Io!Cardinality(Io!In({"queued"}))
    BY SameCardinality DEF IoInv, IoUnits
  <2>2. \A n \in Class : n \in handles <=> queue[n] # << >>
    BY DEF IoInv, IoQueues
  <2>3. ASSUME NEW x \in Io!In({"queued"})
        PROVE  \E n \in handles : \E i \in DOMAIN queue[n] : queue[n][i] = x
    <3>1. PICK n \in Class, i \in Nat : i \in 1 .. Len(queue[n]) /\ queue[n][i] = x
      BY <2>3 DEF IoInv, IoQueues
    <3>2. queue[n] \in Seq(Request)
      BY <3>1 DEF IoInv, IoTypes
    <3>3. i \in DOMAIN queue[n] /\ queue[n] # << >>
      BY <3>1, <3>2
    <3> QED BY <2>2, <3>1, <3>3
  <2> QED BY <2>1, <2>2, <2>3 DEF Io!ClassesAgree
<1>2. IoInv /\ [MCNext]_MCVars => IoInv'
  BY OwnSteps, IoStep
<1> QED BY IoInit, <1>1, <1>2, PTL DEF MCSpec

\* Units of capacity and contexts of aio are given back once, whatever the
\* kernel does with the requests, and nobody waits while there are some.
THEOREM UnitsStayBalanced == MCSpec => []UnitsBalance
<1>1. IoInv => UnitsBalance
  <2> SUFFICES ASSUME IoInv PROVE Io!UnitsBalance
    BY DEF UnitsBalance
  <2>1. /\ ioUnits + granted + Io!Cardinality(Io!In(Io!State \ {"none", "queued"})) = Units
        /\ context + Io!Cardinality(Io!In({"prepared", "pending", "kernel"})) = MaxAio
        /\ ioUnits > 0 => waiters = 0
        /\ context > 0 => contextWaiters = << >>
    BY SameCardinality DEF IoInv, IoUnits, IoContexts, Busy, Held
  <2>2. pending \in Seq(Request) /\ Lists(pending, request, "pending")
    BY DEF IoInv, IoTypes, IoPending
  <2>3. Io!Range(pending) = {pending[i] : i \in 1 .. Len(pending)}
    BY <2>2 DEF Io!Range
  <2>4. Io!In({"pending"}) = {pending[i] : i \in 1 .. Len(pending)}
    <3>1. \A i \in 1 .. Len(pending) : pending[i] \in Request
      BY <2>2, SMTT(40)
    <3> QED BY <2>2, <3>1 DEF Io!In, Lists
  <2>5. Io!Cardinality(Io!In({"pending"})) = Len(pending)
    <3>1. Len(pending) \in 0 .. Len(pending)
      BY <2>2
    <3>2. \A i, j \in 1 .. Len(pending) : pending[i] = pending[j] => i = j
      BY <2>2 DEF Lists
    <3>3. Cardinality({pending[i] : i \in 1 .. Len(pending)}) = Len(pending)
      BY <2>2, <3>1, <3>2, FrontCounted
    <3> QED BY <2>4, <3>3, SameCardinality, ZenonT(60)
  <2> QED BY <2>1, <2>3, <2>4, <2>5 DEF Io!UnitsBalance
<1>2. IoInv /\ [MCNext]_MCVars => IoInv'
  BY OwnSteps, IoStep
<1> QED BY IoInit, <1>1, <1>2, PTL DEF MCSpec

-----------------------------------------------------------------------------
(* The ring between two cores: the inductive invariant is IInv of SpscQueue. *)

\* next_index is one step around the ring: the modulus only ever wraps the
\* last slot to slot 0 (spsc_queue::next_index).
LEMMA NextIndex ==
    \A i \in Slot : next_index(i) = (IF i + 1 = Capacity THEN 0 ELSE i + 1)
<1> SUFFICES ASSUME NEW i \in Slot
             PROVE  next_index(i) = (IF i + 1 = Capacity THEN 0 ELSE i + 1)
    OBVIOUS
<1>1. CASE i + 1 = Capacity
  <2>1. Capacity % Capacity = 0
    BY CapacityAssumption
  <2> QED BY <1>1, <2>1 DEF next_index
<1>2. CASE i + 1 < Capacity
  <2>1. (i + 1) % Capacity = i + 1
    BY <1>2, CapacityAssumption DEF Slot
  <2> QED BY <1>2, <2>1, CapacityAssumption DEF next_index, Slot
<1> QED BY <1>1, <1>2, CapacityAssumption DEF Slot

\* Distances are between 0 and Capacity - 1 and only 0 for equal slots.
LEMMA DistanceRange ==
    \A i, j \in Slot : /\ Distance(i, j) \in 0 .. Capacity - 1
                       /\ Distance(i, j) = 0 <=> i = j
BY CapacityAssumption DEF Slot, Distance

\* Moving the far end one slot on lengthens a distance that is not maximal,
\* moving the near end one slot on shortens a distance that is not zero.
LEMMA DistanceNext ==
    \A i, j \in Slot :
        /\ next_index(i) \in Slot
        /\ Distance(i, j) < Capacity - 1 => Distance(i, next_index(j)) = Distance(i, j) + 1
        /\ i # j => Distance(next_index(i), j) = Distance(i, j) - 1
BY CapacityAssumption, NextIndex DEF Slot, Distance

\* push() finds the ring full exactly when Capacity - 1 slots are taken.
LEMMA FullRing ==
    \A i, j \in Slot : next_index(j) = i <=> Distance(i, j) = Capacity - 1
BY CapacityAssumption, NextIndex DEF Slot, Distance

\* The slots from i to j are met once each, j last.
LEMMA AheadFacts ==
    \A i, j \in Slot : \A k \in 0 .. Capacity - 1 :
        /\ Ahead(i, k) \in Slot
        /\ Ahead(i, 0) = i
        /\ Ahead(i, Distance(i, j)) = j
        /\ k < Distance(i, j) => Ahead(i, k) # j
        /\ k + 1 < Capacity => Ahead(next_index(i), k) = Ahead(i, k + 1)
BY CapacityAssumption, NextIndex DEF Slot, Distance, Ahead

\* The initial state satisfies the inductive invariant.
LEMMA RingInitIInv == RingInit => IInv
BY CapacityAssumption DEF RingInit, IInv, RingTypeOK, Ordered, PushInProgress, PopInProgress,
                          StoredItems, Slot, Distance

\* Every step of push(), pop() or the memory system preserves it.
LEMMA RingNextIInv == IInv /\ [RingNext]_ringVars => IInv'
<1> SUFFICES ASSUME IInv, [RingNext]_ringVars PROVE IInv'
    OBVIOUS
<1> USE DEF IInv
<1>1. ASSUME NEW x \in Item, PushStart(x) PROVE IInv'
  <2>1. Distance(headSeen, tail) < Capacity - 1
    BY <1>1, FullRing, DistanceRange, CapacityAssumption DEF PushStart, RingTypeOK
  <2> QED BY <1>1, <2>1 DEF PushStart, RingTypeOK, Ordered, PushInProgress, PopInProgress, StoredItems
<1>2. ASSUME PushWrite PROVE IInv'
  <2>1. \A k \in 0 .. Capacity - 1 : k < Distance(head, tail) => Ahead(head, k) # tail
    BY AheadFacts DEF RingTypeOK
  <2>2. StoredItems'
    BY <1>2, <2>1, AheadFacts DEF PushWrite, RingTypeOK, StoredItems
  <2>3. popPc = "store" => head # tail
    BY CapacityAssumption DEF RingTypeOK, Ordered, PopInProgress, PushInProgress, Distance, Slot
  <2>4. PopInProgress'
    BY <1>2, <2>3 DEF PushWrite, RingTypeOK, PopInProgress
  <2> QED BY <1>2, <2>2, <2>4 DEF PushWrite, RingTypeOK, Ordered, PushInProgress
<1>3. ASSUME PushStore PROVE IInv'
  <2>1. /\ Distance(headSeen, tail) < Capacity - 1
        /\ pushing \in Item
        /\ buffer[tail] = pushing
    BY <1>3 DEF PushStore, PushInProgress
  <2>2. /\ Distance(head, tail) < Capacity - 1
        /\ Distance(tailSeen, tail) < Capacity - 1
    BY <2>1, DistanceRange, CapacityAssumption DEF RingTypeOK, Ordered, Distance, Slot
  <2>3. /\ Distance(headSeen, tail') = Distance(headSeen, tail) + 1
        /\ Distance(tailSeen, tail') = Distance(tailSeen, tail) + 1
        /\ Distance(head, tail') = Distance(head, tail) + 1
        /\ tail' \in Slot
    BY <1>3, <2>1, <2>2, DistanceNext DEF PushStore, RingTypeOK
  <2>4. Ordered'
    BY <1>3, <2>3, DistanceRange, CapacityAssumption DEF PushStore, RingTypeOK, Ordered
  <2>5. StoredItems'
    <3> SUFFICES ASSUME NEW k \in 0 .. Capacity - 1, k < Distance(head, tail) + 1
                 PROVE  buffer[Ahead(head, k)] \in Item
        BY <1>3, <2>3 DEF PushStore, StoredItems
    <3>1. CASE k < Distance(head, tail)
      BY <3>1 DEF StoredItems
    <3>2. CASE k = Distance(head, tail)
      BY <2>1, <3>2, AheadFacts DEF RingTypeOK
    <3> QED BY <3>1, <3>2, DistanceRange, CapacityAssumption DEF RingTypeOK
  <2> QED BY <1>3, <2>3, <2>4, <2>5 DEF PushStore, RingTypeOK, PushInProgress, PopInProgress
<1>4. ASSUME PopStart PROVE IInv'
  BY <1>4 DEF PopStart, RingTypeOK, Ordered, PushInProgress, PopInProgress, StoredItems
<1>5. ASSUME PopRead PROVE IInv'
  <2>1. buffer[head] \in Item \cup {NoItem}
    BY DEF RingTypeOK
  <2> QED BY <1>5, <2>1 DEF PopRead, RingTypeOK, Ordered, PushInProgress, PopInProgress, StoredItems
<1>6. ASSUME PopStore PROVE IInv'
  <2>1. head # tailSeen /\ head # tail
    BY <1>6, DistanceRange, CapacityAssumption
       DEF PopStore, RingTypeOK, PopInProgress, Ordered, Distance, Slot
  <2>2. /\ head' \in Slot
        /\ Distance(head', tailSeen) = Distance(head, tailSeen) - 1
        /\ Distance(head', tail) = Distance(head, tail) - 1
    BY <1>6, <2>1, DistanceNext DEF PopStore, RingTypeOK
  <2>3. Distance(headSeen, head) < Capacity - 1
    <3>1. /\ Distance(headSeen, head) \in Nat
          /\ Distance(head, tailSeen) \in Nat \ {0}
          /\ Distance(tailSeen, tail) \in Nat
          /\ Distance(headSeen, tail) \in 0 .. Capacity - 1
      BY <2>1, DistanceRange, CapacityAssumption DEF RingTypeOK
    <3> QED BY <3>1, CapacityAssumption DEF Ordered
  <2>4. Distance(headSeen, head') = Distance(headSeen, head) + 1
    BY <1>6, <2>3, DistanceNext DEF PopStore, RingTypeOK
  <2>5. Ordered'
    BY <1>6, <2>2, <2>4, DistanceRange, CapacityAssumption DEF PopStore, RingTypeOK, Ordered
  <2>6. StoredItems'
    <3> SUFFICES ASSUME NEW k \in 0 .. Capacity - 1, k < Distance(head, tail) - 1
                 PROVE  buffer[Ahead(head', k)] \in Item
        BY <1>6, <2>2 DEF PopStore, StoredItems
    <3>1. k + 1 \in 0 .. Capacity - 1 /\ k + 1 < Distance(head, tail) /\ k + 1 < Capacity
      BY DistanceRange, CapacityAssumption DEF RingTypeOK
    <3>2. Ahead(head', k) = Ahead(head, k + 1)
      BY <1>6, <3>1, AheadFacts DEF PopStore, RingTypeOK
    <3> QED BY <3>1, <3>2 DEF StoredItems
  <2> QED BY <1>6, <2>2, <2>5, <2>6 DEF PopStore, RingTypeOK, PushInProgress, PopInProgress
<1>7. ASSUME PublishTail PROVE IInv'
  <2>1. /\ tailSeen' \in Slot
        /\ Distance(tailSeen', tail) = Distance(tailSeen, tail) - 1
    BY <1>7, DistanceNext DEF PublishTail, RingTypeOK
  <2>2. Distance(head, tailSeen) < Capacity - 1
    BY <1>7, DistanceRange, CapacityAssumption DEF PublishTail, RingTypeOK, Ordered
  <2>3. Distance(head, tailSeen') = Distance(head, tailSeen) + 1
    BY <1>7, <2>2, DistanceNext DEF PublishTail, RingTypeOK
  <2>4. popPc # "idle" => head # tailSeen'
    BY <2>1, <2>3, DistanceRange, CapacityAssumption DEF RingTypeOK
  <2>5. Ordered'
    BY <1>7, <2>1, <2>3, DistanceRange, CapacityAssumption DEF PublishTail, RingTypeOK, Ordered
  <2> QED BY <1>7, <2>1, <2>4, <2>5 DEF PublishTail, RingTypeOK, PushInProgress, PopInProgress, StoredItems
<1>8. ASSUME PublishHead PROVE IInv'
  <2>1. headSeen # tail
    BY <1>8, DistanceRange, CapacityAssumption DEF PublishHead, RingTypeOK, Ordered
  <2>2. /\ headSeen' \in Slot
        /\ Distance(headSeen', head) = Distance(headSeen, head) - 1
        /\ Distance(headSeen', tail) = Distance(headSeen, tail) - 1
    BY <1>8, <2>1, DistanceNext DEF PublishHead, RingTypeOK
  <2>3. PushInProgress'
    BY <1>8, <2>2, DistanceRange, CapacityAssumption DEF PublishHead, RingTypeOK, PushInProgress
  <2>4. Ordered'
    BY <1>8, <2>2, DistanceRange, CapacityAssumption DEF PublishHead, RingTypeOK, Ordered
  <2> QED BY <1>8, <2>2, <2>3, <2>4 DEF PublishHead, RingTypeOK, PopInProgress, StoredItems
<1>9. ASSUME UNCHANGED ringVars PROVE IInv'
  BY <1>9 DEF ringVars, RingTypeOK, Ordered, PushInProgress, PopInProgress, StoredItems
<1> QED BY <1>1, <1>2, <1>3, <1>4, <1>5, <1>6, <1>7, <1>8, <1>9 DEF RingNext

\* The indices stay inside _buffer, whatever the interleaving.
THEOREM RingTypeCorrect == RingSpec => []RingTypeOK
<1>1. IInv => RingTypeOK
  BY DEF IInv
<1> QED BY RingInitIInv, RingNextIInv, <1>1, PTL DEF RingSpec

\* push() and pop() never touch the same slot at the same time: the ring
\* needs no lock, for every capacity.
THEOREM NoRace == RingSpec => []NoDataRace
<1>1. IInv => NoDataRace
  <2> SUFFICES ASSUME IInv, pushPc \in {"write", "store"}, popPc \in {"read", "store"}
               PROVE  tail # head
      BY DEF NoDataRace
  <2>1. head # tailSeen
    BY DEF IInv, PopInProgress
  <2>2. /\ Distance(head, tailSeen) \in Nat \ {0}
        /\ Distance(headSeen, head) \in Nat
        /\ Distance(tailSeen, tail) \in Nat
        /\ Distance(headSeen, tail) = Distance(headSeen, head) + Distance(head, tailSeen)
                                        + Distance(tailSeen, tail)
    BY <2>1, DistanceRange, CapacityAssumption DEF IInv, RingTypeOK, Ordered
  <2>3. Distance(headSeen, tail) # Distance(headSeen, head)
    BY <2>2
  <2> QED BY <2>3
<1> QED BY RingInitIInv, RingNextIInv, <1>1, PTL DEF RingSpec

-----------------------------------------------------------------------------
\* A window into the buffer is a sequence.
LEMMA WindowType ==
    ASSUME NEW V, NEW buf \in [Slot -> V], NEW h \in Slot, NEW n \in 0 .. Capacity - 1
    PROVE  /\ Window(buf, h, n) \in Seq(V)
           /\ Len(Window(buf, h, n)) = n
           /\ \A k \in 1 .. n : Window(buf, h, n)[k] = buf[Ahead(h, k - 1)]
<1>1. \A k \in 1 .. n : k - 1 \in 0 .. Capacity - 1
  BY CapacityAssumption
<1>2. \A k \in 1 .. n : Ahead(h, k - 1) \in Slot
  BY <1>1, AheadFacts
<1>3. Window(buf, h, n) \in [1 .. n -> V]
  BY <1>2 DEF Window
<1> QED BY <1>3, CapacityAssumption DEF Window

\* A window one slot longer has the next slot appended.
LEMMA WindowAppend ==
    ASSUME NEW V, NEW buf \in [Slot -> V], NEW h \in Slot, NEW n \in 0 .. Capacity - 1,
           n + 1 \in 0 .. Capacity - 1
    PROVE  Window(buf, h, n + 1) = Append(Window(buf, h, n), buf[Ahead(h, n)])
<1> DEFINE w == Window(buf, h, n)
           v == Window(buf, h, n + 1)
<1>1. w \in Seq(V) /\ Len(w) = n /\ \A k \in 1 .. n : w[k] = buf[Ahead(h, k - 1)]
  BY WindowType, SMTT(40)
<1>2. v \in Seq(V) /\ Len(v) = n + 1 /\ \A k \in 1 .. n + 1 : v[k] = buf[Ahead(h, k - 1)]
  BY WindowType, ZenonT(60)
<1>3. Ahead(h, n) \in Slot
  BY AheadFacts
<1>4. Append(w, buf[Ahead(h, n)]) \in Seq(V)
  BY <1>1, <1>3
<1> HIDE DEF w, v
<1>5. Len(Append(w, buf[Ahead(h, n)])) = Len(v)
  BY <1>1, <1>2, <1>3
<1>6. \A k \in 1 .. n + 1 : Append(w, buf[Ahead(h, n)])[k] = v[k]
  BY <1>1, <1>2, <1>3
<1>7. v = Append(w, buf[Ahead(h, n)])
  BY <1>2, <1>4, <1>5, <1>6
<1> QED BY <1>7 DEF w, v

\* Dropping the first slot of a window gives the window from the next slot.
LEMMA WindowTail ==
    ASSUME NEW V, NEW buf \in [Slot -> V], NEW h \in Slot, NEW n \in 1 .. Capacity - 1
    PROVE  /\ Window(buf, h, n) # << >>
           /\ Head(Window(buf, h, n)) = buf[h]
           /\ Tail(Window(buf, h, n)) = Window(buf, next_index(h), n - 1)
<1> DEFINE w == Window(buf, h, n)
           v == Window(buf, next_index(h), n - 1)
<1>1. w \in Seq(V) /\ Len(w) = n /\ \A k \in 1 .. n : w[k] = buf[Ahead(h, k - 1)]
  BY WindowType, SMTT(40)
<1>2. next_index(h) \in Slot /\ n - 1 \in 0 .. Capacity - 1
  BY DistanceNext, CapacityAssumption
<1>3. v \in Seq(V) /\ Len(v) = n - 1
      /\ \A k \in 1 .. n - 1 : v[k] = buf[Ahead(next_index(h), k - 1)]
  BY <1>2, WindowType, ZenonT(60)
<1>4. \A k \in 1 .. n - 1 : Ahead(next_index(h), k - 1) = Ahead(h, k)
  <2> SUFFICES ASSUME NEW k \in 1 .. n - 1
               PROVE  Ahead(next_index(h), k - 1) = Ahead(h, k)
      OBVIOUS
  <2>1. k - 1 \in 0 .. Capacity - 1 /\ (k - 1) + 1 < Capacity /\ (k - 1) + 1 = k
    BY CapacityAssumption
  <2> QED BY <2>1, AheadFacts
<1>5. Ahead(h, 0) = h
  BY CapacityAssumption DEF Ahead, Slot
<1> HIDE DEF w, v
<1>6. w # << >> /\ Head(w) = buf[h]
  BY <1>1, <1>5
<1>7. \A k \in 1 .. n - 1 : Tail(w)[k] = v[k]
  BY <1>1, <1>3, <1>4, SMTT(40)
<1>8. Tail(w) \in Seq(V) /\ Len(Tail(w)) = n - 1
  BY <1>1
<1>9. Tail(w) = v
  BY <1>3, <1>7, <1>8
<1> QED BY <1>6, <1>9 DEF w, v

\* Buffers that agree on the slots of a window have the same window.
LEMMA WindowAgree ==
    ASSUME NEW buf, NEW other, NEW h, NEW n \in 0 .. Capacity - 1,
           \A k \in 0 .. Capacity - 1 : k < n => buf[Ahead(h, k)] = other[Ahead(h, k)]
    PROVE  Window(buf, h, n) = Window(other, h, n)
<1>1. \A k \in 1 .. n : k - 1 \in 0 .. Capacity - 1 /\ k - 1 < n
  BY CapacityAssumption
<1> QED BY <1>1 DEF Window

\* The initial ring is the empty queue.
LEMMA InitFifo == RingInit => Fifo!Init
<1> SUFFICES ASSUME RingInit PROVE Fifo!Init
    OBVIOUS
<1>1. Distance(head, tail) = 0 /\ head \in Slot /\ 0 \in 0 .. Capacity - 1
  BY CapacityAssumption DEF RingInit, Distance, Slot
<1>2. buffer \in [Slot -> Item \cup {NoItem}]
  BY DEF RingInit
<1>3. Contents \in Seq(Item \cup {NoItem}) /\ Len(Contents) = 0
  <2>1. /\ Window(buffer, head, 0) \in Seq(Item \cup {NoItem})
        /\ Len(Window(buffer, head, 0)) = 0
    BY <1>1, <1>2, WindowType, ZenonT(60)
  <2> QED BY <1>1, <2>1 DEF Contents
<1>4. Contents = << >>
  BY <1>3
<1> QED BY <1>4 DEF RingInit, Fifo!Init

\* The store that ends push() is the moment the item enters the queue.
LEMMA PushStorePuts == IInv /\ PushStore => Fifo!Put(pushing)
<1> SUFFICES ASSUME IInv, PushStore PROVE Fifo!Put(pushing)
    OBVIOUS
<1> DEFINE n == Distance(head, tail)
<1>1. /\ Distance(headSeen, tail) < Capacity - 1
      /\ buffer[tail] = pushing
  BY DEF PushStore, IInv, PushInProgress
<1>2. n < Capacity - 1 /\ n \in 0 .. Capacity - 1 /\ n + 1 \in 0 .. Capacity - 1
  BY <1>1, DistanceRange, CapacityAssumption DEF IInv, RingTypeOK, Ordered, Distance, Slot
<1>3. Distance(head, tail') = n + 1
  BY <1>2, DistanceNext DEF PushStore, IInv, RingTypeOK
<1>4. Ahead(head, n) = tail
  BY <1>2, AheadFacts DEF IInv, RingTypeOK
<1>5. buffer \in [Slot -> Item \cup {NoItem}] /\ head \in Slot
  BY DEF IInv, RingTypeOK
<1> HIDE DEF n
<1>6. Window(buffer, head, n + 1) = Append(Window(buffer, head, n), pushing)
  BY <1>1, <1>2, <1>4, <1>5, WindowAppend
<1>7. Contents = Window(buffer, head, n) /\ Contents' = Window(buffer, head, n + 1)
  BY <1>3 DEF Contents, n, PushStore, Window, Ahead
<1>8. Len(Contents) = n
  BY <1>2, <1>5, <1>7, WindowType
<1> QED BY <1>2, <1>6, <1>7, <1>8 DEF Fifo!Put, PushStore

\* The store that ends pop() is the moment the item leaves the queue.
LEMMA PopStoreGets == IInv /\ PopStore => Fifo!Get
<1> SUFFICES ASSUME IInv, PopStore PROVE Fifo!Get
    OBVIOUS
<1> DEFINE n == Distance(head, tail)
<1>1. /\ head # tailSeen
      /\ popping = buffer[head]
      /\ head \in Slot /\ tail \in Slot /\ tailSeen \in Slot /\ headSeen \in Slot
  BY DEF PopStore, IInv, RingTypeOK, PopInProgress
<1>2. head # tail
  BY <1>1, DistanceRange, CapacityAssumption DEF IInv, Ordered, Distance, Slot
<1>3. n \in 1 .. Capacity - 1 /\ Distance(head', tail) = n - 1
  BY <1>1, <1>2, DistanceRange, DistanceNext, CapacityAssumption DEF PopStore
<1>4. buffer \in [Slot -> Item \cup {NoItem}]
  BY DEF IInv, RingTypeOK
<1> HIDE DEF n
<1>5. Contents = Window(buffer, head, n) /\ Contents' = Window(buffer, next_index(head), n - 1)
  BY <1>3 DEF Contents, n, PopStore, Window, Ahead
<1>6. Contents # << >> /\ Head(Contents) = popping /\ Tail(Contents) = Contents'
  BY <1>1, <1>3, <1>4, <1>5, WindowTail
<1> QED BY <1>6 DEF Fifo!Get, PopStore

\* Every step of the ring is a step of the queue or leaves it unchanged.
LEMMA StepFifo == IInv /\ [RingNext]_ringVars => [Fifo!Next]_(Fifo!fifoVars)
<1> SUFFICES ASSUME IInv, [RingNext]_ringVars PROVE [Fifo!Next]_(Fifo!fifoVars)
    OBVIOUS
<1>1. CASE PushStore
  <2>1. pushing \in Item
    BY <1>1 DEF PushStore, IInv, PushInProgress
  <2> QED BY <1>1, <2>1, PushStorePuts DEF Fifo!Next
<1>2. CASE PopStore
  BY <1>2, PopStoreGets DEF Fifo!Next
<1>3. CASE PushWrite
  <2> DEFINE n == Distance(head, tail)
  <2>1. /\ n \in 0 .. Capacity - 1
        /\ \A k \in 0 .. Capacity - 1 : k < n => Ahead(head, k) # tail /\ Ahead(head, k) \in Slot
    BY DistanceRange, AheadFacts DEF IInv, RingTypeOK
  <2> HIDE DEF n
  <2>2. \A k \in 0 .. Capacity - 1 : k < n => buffer[Ahead(head, k)] = buffer'[Ahead(head, k)]
    BY <1>3, <2>1 DEF PushWrite, IInv, RingTypeOK
  <2>3. Window(buffer, head, n) = Window(buffer', head, n)
    BY <2>1, <2>2, WindowAgree
  <2>4. Contents' = Contents
    BY <1>3, <2>3 DEF PushWrite, Contents, Window, Ahead, Distance, n
  <2> QED BY <1>3, <2>4 DEF PushWrite, Fifo!fifoVars
<1>4. CASE UNCHANGED <<head, tail, buffer, taken>>
  BY <1>4 DEF Contents, Window, Ahead, Distance, Fifo!fifoVars
<1> QED BY <1>1, <1>2, <1>3, <1>4
        DEF RingNext, ringVars, PushStart, PopStart, PopRead, PublishTail, PublishHead

\* The ring buffer is a first-in first-out queue of Capacity - 1 items for
\* every capacity, with no lock and with stale views of the indices.
THEOREM RingIsFifo == RingSpec => ImplementsFifo
<1>1. RingSpec => []IInv
  BY RingInitIInv, RingNextIInv, PTL DEF RingSpec
<1> QED BY <1>1, InitFifo, StepFifo, PTL DEF RingSpec, ImplementsFifo, Fifo!Spec

-----------------------------------------------------------------------------
(* The costs of the disk queue: the loop that normalises them ends.        *)

CostVectors == [Class -> 0 .. Infinite - 1]
Halves(v) == [d \in Class |-> v[d] \div 2]

\* A turn of the loop, where f is what the turns after it make of the costs.
Turn(f, h, n, v) == IF v[h] + n < Infinite THEN [v EXCEPT ![h] = @ + n] ELSE f[n \div 2][Halves(v)]

\* What f has to be, and to be for the sums up to m.
Scaling(f, h, cost) == [n \in 0 .. cost |-> [v \in CostVectors |-> Turn(f, h, n, v)]]
Scales(f, h, cost, m) ==
    \A n \in 0 .. cost : \A v \in CostVectors : v[h] + n <= m => f[n][v] = Turn(f, h, n, v)
Loops(cost) == [0 .. cost -> [CostVectors -> CostVectors]]

\* A turn that halves lowers the sum.
LEMMA SumFalls ==
    ASSUME NEW h \in Class, NEW cost \in Nat, NEW n \in 0 .. cost, NEW v \in CostVectors,
           ~(v[h] + n < Infinite)
    PROVE  /\ Halves(v) \in CostVectors /\ n \div 2 \in 0 .. cost
           /\ Halves(v)[h] + n \div 2 < v[h] + n
           /\ v[h] + n \in Nat /\ Halves(v)[h] + n \div 2 \in Nat
<1>1. Infinite \in Nat /\ Infinite > 1
  BY ObjectsAssumption
<1>2. ASSUME NEW d \in Class
      PROVE  v[d] \in 0 .. Infinite - 1 /\ v[d] \div 2 \in 0 .. Infinite - 1 /\ 2 * (v[d] \div 2) <= v[d]
  <2>1. v[d] \in 0 .. Infinite - 1
    BY DEF CostVectors
  <2> QED BY <1>1, <2>1
<1>3. Halves(v) \in CostVectors /\ Halves(v)[h] = v[h] \div 2
  BY <1>2 DEF Halves, CostVectors
<1>4. PICK x, y : x = v[h] /\ y = v[h] \div 2
  OBVIOUS
<1>5. x \in Nat /\ y \in Nat /\ 2 * y <= x /\ x + n >= Infinite /\ x < Infinite
  BY <1>1, <1>2, <1>4
<1>6. n \div 2 \in Nat /\ 2 * (n \div 2) <= n /\ n # 0
  BY <1>1, <1>5
<1> QED BY <1>1, <1>3, <1>4, <1>5, <1>6

\* A turn that does not halve, and one that does, yields costs below Infinite.
LEMMA TurnTyped ==
    ASSUME NEW h \in Class, NEW cost \in Nat, NEW n \in 0 .. cost, NEW v \in CostVectors, NEW f \in Loops(cost)
    PROVE  Turn(f, h, n, v) \in CostVectors
<1>1. CASE v[h] + n < Infinite
  <2>1. v[h] \in 0 .. Infinite - 1 /\ Infinite \in Nat
    BY ObjectsAssumption DEF CostVectors
  <2>2. v[h] + n \in 0 .. Infinite - 1
    BY <1>1, <2>1
  <2>3. [v EXCEPT ![h] = v[h] + n] \in CostVectors
    BY <2>2 DEF CostVectors
  <2> QED BY <1>1, <2>3 DEF Turn
<1>2. CASE ~(v[h] + n < Infinite)
  <2>1. Halves(v) \in CostVectors /\ n \div 2 \in 0 .. cost
    BY <1>2, SumFalls
  <2>2. f[n \div 2][Halves(v)] \in CostVectors
    BY <2>1 DEF Loops
  <2> QED BY <1>2, <2>2 DEF Turn
<1> QED BY <1>1, <1>2

\* Going one turn back extends what the turns make of the costs.
LEMMA OneTurnMore ==
    ASSUME NEW h \in Class, NEW cost \in Nat, NEW m \in Nat, NEW f \in Loops(cost), Scales(f, h, cost, m)
    PROVE  Scaling(f, h, cost) \in Loops(cost) /\ Scales(Scaling(f, h, cost), h, cost, m + 1)
<1>1. PICK g : g = Scaling(f, h, cost)
  OBVIOUS
<1>2. \A n \in 0 .. cost : \A v \in CostVectors : g[n][v] = Turn(f, h, n, v)
  BY <1>1 DEF Scaling
<1>3. g \in Loops(cost)
  <2>1. \A n \in 0 .. cost : \A v \in CostVectors : Turn(f, h, n, v) \in CostVectors
    BY TurnTyped
  <2>2. \A n \in 0 .. cost : [v \in CostVectors |-> Turn(f, h, n, v)] \in [CostVectors -> CostVectors]
    BY <2>1
  <2> QED BY <1>1, <2>2 DEF Scaling, Loops
<1>4. ASSUME NEW n \in 0 .. cost, NEW v \in CostVectors, v[h] + n <= m + 1
      PROVE  Turn(f, h, n, v) = Turn(g, h, n, v)
  <2>1. CASE v[h] + n < Infinite
    BY <2>1 DEF Turn
  <2>2. CASE ~(v[h] + n < Infinite)
    <3>1. PICK p, w : p = n \div 2 /\ w = Halves(v)
      OBVIOUS
    <3>2. w \in CostVectors /\ p \in 0 .. cost /\ w[h] + p <= m
      BY <1>4, <2>2, <3>1, SumFalls
    <3>3. f[p][w] = Turn(f, h, p, w) /\ g[p][w] = Turn(f, h, p, w)
      BY <1>2, <3>2 DEF Scales
    <3>4. Turn(f, h, n, v) = f[p][w] /\ Turn(g, h, n, v) = g[p][w]
      BY <2>2, <3>1 DEF Turn
    <3> QED BY <3>3, <3>4
  <2> QED BY <2>1, <2>2
<1>5. Scales(g, h, cost, m + 1)
  BY <1>2, <1>4 DEF Scales
<1> QED BY <1>1, <1>3, <1>5

\* What the turns make of sums up to m, for every m,
LEMMA LoopUpTo ==
    ASSUME NEW h \in Class, NEW cost \in Nat, NEW m \in Nat
    PROVE  \E f \in Loops(cost) : Scales(f, h, cost, m)
<1> DEFINE Fits == {k \in Nat : \E f \in Loops(cost) : Scales(f, h, cost, k)}
<1>1. 0 \in Fits
  <2>1. PICK one : one = [n \in 0 .. cost |-> [v \in CostVectors |-> v]]
    OBVIOUS
  <2>2. one \in Loops(cost)
    BY <2>1 DEF Loops
  <2>3. PICK f : f = Scaling(one, h, cost)
    OBVIOUS
  <2>4. \A n \in 0 .. cost : \A v \in CostVectors : f[n][v] = Turn(one, h, n, v) /\ f[n][v] \in CostVectors
    BY <2>2, <2>3, TurnTyped DEF Scaling
  <2>5. f \in Loops(cost)
    <3>1. \A n \in 0 .. cost : [v \in CostVectors |-> Turn(one, h, n, v)] \in [CostVectors -> CostVectors]
      BY <2>2, TurnTyped
    <3> QED BY <2>3, <3>1 DEF Scaling, Loops
  <2>6. ASSUME NEW n \in 0 .. cost, NEW v \in CostVectors, v[h] + n <= 0
        PROVE  f[n][v] = Turn(f, h, n, v)
    <3>1. v[h] \in Nat /\ Infinite > 1 /\ Infinite \in Nat
      BY ObjectsAssumption DEF CostVectors
    <3>2. v[h] + n < Infinite
      BY <2>6, <3>1
    <3> QED BY <2>4, <3>2 DEF Turn
  <2>7. Scales(f, h, cost, 0)
    BY <2>6 DEF Scales
  <2> QED BY <2>5, <2>7
<1>2. ASSUME NEW k \in Fits PROVE k + 1 \in Fits
  <2>1. PICK f \in Loops(cost) : Scales(f, h, cost, k)
    BY <1>2
  <2>2. k \in Nat
    BY <1>2
  <2>3. Scaling(f, h, cost) \in Loops(cost) /\ Scales(Scaling(f, h, cost), h, cost, k + 1)
    BY <2>1, <2>2, OneTurnMore
  <2> QED BY <2>2, <2>3
<1>3. \A k \in Fits : \E f \in Loops(cost) : Scales(f, h, cost, k)
  OBVIOUS
<1>4. Fits \in SUBSET Nat
  OBVIOUS
<1> HIDE DEF Fits
<1>5. m \in Fits
  <2> SUFFICES ASSUME m \notin Fits PROVE FALSE
    OBVIOUS
  <2>1. PICK k \in Nat \ Fits : \A j \in Nat \ Fits : k <= j
    BY LeastNatural
  <2>2. k # 0
    BY <1>1
  <2>3. k - 1 \in Fits
    BY <2>1, <2>2
  <2>4. (k - 1) + 1 = k
    OBVIOUS
  <2>5. (k - 1) + 1 \in Fits
    BY <1>2, <2>3
  <2> QED BY <2>1, <2>4, <2>5
<1> QED BY <1>3, <1>5

\* and of every sum.
LEMMA LoopExists ==
    ASSUME NEW h \in Class, NEW cost \in Nat
    PROVE  \E f \in Loops(cost) : f = Scaling(f, h, cost)
<1>1. Infinite \in Nat
  BY ObjectsAssumption
<1>2. PICK f \in Loops(cost) : Scales(f, h, cost, Infinite + cost)
  BY <1>1, LoopUpTo
<1>3. PICK g : g = Scaling(f, h, cost)
  OBVIOUS
<1>4. ASSUME NEW n \in 0 .. cost, NEW v \in CostVectors PROVE f[n][v] = g[n][v]
  <2>1. v[h] + n <= Infinite + cost
    BY <1>1 DEF CostVectors
  <2>2. g[n][v] = Turn(f, h, n, v)
    BY <1>3 DEF Scaling
  <2> QED BY <1>2, <2>1, <2>2 DEF Scales
<1>5. g \in Loops(cost)
  <2>1. \A n \in 0 .. cost : [v \in CostVectors |-> Turn(f, h, n, v)] \in [CostVectors -> CostVectors]
    BY TurnTyped
  <2> QED BY <1>3, <2>1 DEF Scaling, Loops
<1>6. \A n \in 0 .. cost : f[n] = g[n]
  BY <1>4, <1>5 DEF Loops
<1>7. f = g
  BY <1>5, <1>6 DEF Loops
<1> QED BY <1>3, <1>7

\* The loop ends with costs below Infinite, so that every cost has a meaning.
LEMMA NormalizedTyped ==
    ASSUME NEW acc \in CostVectors, NEW h \in Class, NEW cost \in Cost
    PROVE  Io!Normalized(acc, h, cost) \in CostVectors
<1>1. cost \in Nat
  BY ObjectsAssumption
<1>2. PICK f : f = CHOOSE g : g = Scaling(g, h, cost)
  OBVIOUS
<1>3. f = Scaling(f, h, cost)
  <2>1. \E g : g = Scaling(g, h, cost)
    BY <1>1, LoopExists
  <2> QED BY <1>2, <2>1, Zenon
<1>4. Io!Normalized(acc, h, cost) = f[cost][acc]
  <2>1. Io!Normalized(acc, h, cost) = (CHOOSE g : g = Scaling(g, h, cost))[cost][acc]
    BY Zenon DEF Io!Normalized, Scaling, CostVectors, Turn, Halves
  <2> QED BY <1>2, <2>1, Zenon
<1>5. PICK w : w = Scaling(f, h, cost)
  OBVIOUS
<1>6. \A n \in 0 .. cost : \A v \in CostVectors : w[n][v] = Turn(f, h, n, v)
  BY <1>5 DEF Scaling
<1>7. w = f
  BY <1>3, <1>5, Zenon
<1>8. \A n \in 0 .. cost : \A v \in CostVectors : f[n][v] = Turn(f, h, n, v)
  BY <1>6, <1>7
<1> DEFINE Wrong == {k \in Nat : \E n \in 0 .. cost, v \in CostVectors :
                                    v[h] + n = k /\ f[n][v] \notin CostVectors}
<1>9. ASSUME NEW k \in Wrong PROVE \E j \in Wrong : j < k
  <2>1. PICK n \in 0 .. cost, v \in CostVectors : v[h] + n = k /\ f[n][v] \notin CostVectors
    BY <1>9
  <2>2. f[n][v] = Turn(f, h, n, v)
    BY <1>8
  <2>3. ~(v[h] + n < Infinite)
    <3>1. SUFFICES ASSUME v[h] + n < Infinite PROVE FALSE
      OBVIOUS
    <3>2. v[h] \in 0 .. Infinite - 1 /\ Infinite \in Nat
      BY ObjectsAssumption DEF CostVectors
    <3>3. v[h] + n \in 0 .. Infinite - 1
      BY <1>1, <3>1, <3>2
    <3>4. [v EXCEPT ![h] = v[h] + n] \in CostVectors
      BY <3>3 DEF CostVectors
    <3> QED BY <2>1, <2>2, <3>1, <3>4 DEF Turn
  <2>4. PICK p, u : p = n \div 2 /\ u = Halves(v)
    OBVIOUS
  <2>5. u \in CostVectors /\ p \in 0 .. cost /\ u[h] + p < v[h] + n /\ u[h] + p \in Nat
    BY <1>1, <2>3, <2>4, SumFalls
  <2>6. f[n][v] = f[p][u]
    BY <2>2, <2>3, <2>4 DEF Turn
  <2>7. u[h] + p \in Wrong
    BY <2>1, <2>5, <2>6
  <2> QED BY <2>1, <2>5, <2>7
<1>10. \A n \in 0 .. cost : \A v \in CostVectors : v[h] + n \in Nat /\ (f[n][v] \notin CostVectors => v[h] + n \in Wrong)
  <2>1. ASSUME NEW n \in 0 .. cost, NEW v \in CostVectors PROVE v[h] + n \in Nat
    <3>1. v[h] \in Nat
      BY ObjectsAssumption DEF CostVectors
    <3> QED BY <1>1, <3>1
  <2> QED BY <2>1
<1>11. Wrong \in SUBSET Nat
  OBVIOUS
<1> HIDE DEF Wrong
<1>12. Wrong = {}
  <2> SUFFICES ASSUME Wrong # {} PROVE FALSE
    OBVIOUS
  <2>1. PICK k \in Wrong : \A j \in Wrong : k <= j
    BY <1>11, LeastNatural
  <2>2. PICK j \in Wrong : j < k
    BY <1>9, <2>1
  <2> QED BY <1>11, <2>1, <2>2
<1>13. cost \in 0 .. cost
  BY <1>1
<1> QED BY <1>4, <1>10, <1>12, <1>13

\* No operation of the disk queue makes costs infinite.
LEMMA CostStep ==
    ASSUME IoInv, accumulated \in CostVectors, [IoNext]_ioVars
    PROVE  accumulated' \in CostVectors
<1>1. CASE Io!ExecuteOne
  <2>1. PICK h \in handles, cost \in Cost : accumulated' = Io!Normalized(accumulated, h, cost)
    BY <1>1 DEF Io!ExecuteOne
  <2>2. h \in Class
    BY DEF IoInv, IoQueues
  <2> QED BY <2>1, <2>2, NormalizedTyped
<1>2. CASE UNCHANGED accumulated
  BY <1>2
<1>3. Io!ExecuteOne \/ UNCHANGED accumulated
  BY DEF IoNext, Io!Queue, Io!PollFlush, Io!ProcessIo, Io!Submit, Io!Prepare, Io!Finish, ioVars
<1> QED BY <1>1, <1>2, <1>3

\* The ring goes its own way.
LEMMA RingStep ==
    /\ MCInit => IInv
    /\ IInv /\ [MCNext]_MCVars => IInv'
BY RingInitIInv, RingNextIInv, OwnSteps DEF MCInit

\* The objects' invariants together.
ObjectsInv == /\ ListInv /\ GateInv /\ SharedInv /\ JoinInv
              /\ IoInv /\ accumulated \in CostVectors
              /\ StreamInv /\ IInv

\* The variables of every object have their types, the costs of the disk queue
\* included: the loop that normalises them in fair_queue::execute_one ends, and with
\* finite costs.
THEOREM ObjectsTypeCorrect == MCSpec => []ObjectsTypeOK
<1>1. MCInit => ObjectsInv
  <2>1. MCInit => accumulated \in CostVectors
    BY ObjectsAssumption DEF MCInit, Io!Init, CostVectors
  <2>2. MCInit => Init
    BY DEF MCInit
  <2> QED BY <2>1, <2>2, InitListInv, GateInit, SharedInit, JoinInit, IoInit, StreamInit, RingStep DEF ObjectsInv
<1>2. ObjectsInv /\ [MCNext]_MCVars => ObjectsInv'
  <2> SUFFICES ASSUME ObjectsInv, [MCNext]_MCVars PROVE ObjectsInv'
    OBVIOUS
  <2>1. /\ [GateNext]_gateVars /\ [SharedNext]_sharedVars /\ [JoinNext]_joinVars
        /\ [IoNext]_ioVars /\ [StreamNext]_streamVars /\ [Next]_vars
    BY OwnSteps
  <2>2. ListInv' /\ GateInv' /\ SharedInv' /\ JoinInv'
    BY <2>1, NextListInv, GateStep, SharedStep, JoinStepInv DEF ObjectsInv
  <2>3. IoInv' /\ (accumulated \in CostVectors)'
    BY <2>1, IoStep, CostStep DEF ObjectsInv, CostVectors
  <2>4. StreamInv' /\ IInv'
    BY <2>1, StreamStep, RingStep DEF ObjectsInv
  <2> QED BY <2>2, <2>3, <2>4 DEF ObjectsInv
<1>3. ObjectsInv => ObjectsTypeOK
  <2> SUFFICES ASSUME ObjectsInv PROVE ObjectsTypeOK
    OBVIOUS
  <2>1. TypeOK /\ G!TypeOK /\ S!TypeOK /\ J!TypeOK /\ St!TypeOK /\ RingTypeOK
    BY DEF ObjectsInv, ListInv, GateInv, SharedInv, JoinInv, JoinParts, StreamInv, IInv
  <2>2. handles \subseteq Class
    BY DEF ObjectsInv, IoInv, IoQueues
  <2>3. Io!TypeOK
    BY <2>2 DEF ObjectsInv, IoInv, IoTypes, CostVectors, Io!TypeOK
  <2> QED BY <2>1, <2>3 DEF ObjectsTypeOK
<1> QED BY <1>1, <1>2, <1>3, PTL DEF MCSpec

=============================================================================
