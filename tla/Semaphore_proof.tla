-------------------------- MODULE Semaphore_proof ---------------------------
(***************************************************************************)
(* The list of waiters of the semaphore stays consistent, nobody overtakes *)
(* and, without timeouts, no units lie idle: for every number of fibers    *)
(* and of units.                                                           *)
(***************************************************************************)
EXTENDS Semaphore, FiniteSetTheorems, SequenceTheorems, WellFoundedInduction, TLAPS

\* A set of natural numbers has a least element.
LEMMA LeastNatural ==
    ASSUME NEW S \in SUBSET Nat, S # {}
    PROVE  \E i \in S : \A j \in S : i <= j
<1>1. PICK i \in S : \A j \in S : ~ (<<j, i>> \in OpToRel(<, Nat))
  BY NatLessThanWellFounded, WFMin, Zenon
<1>2. \A j \in S : ~ (j < i)
  BY <1>1 DEF OpToRel
<1> QED BY <1>2

\* drop_expired_front removes a prefix of expired entries, and leaves either
\* nothing or a list that starts with an entry that has its payload.
LEMMA DropFacts ==
    ASSUME NEW Entries, NEW entries \in Seq(Entries)
    PROVE  /\ drop_expired_front(entries) \in Seq(Entries)
           /\ \E k \in 0 .. Len(entries) :
                 /\ Len(drop_expired_front(entries)) = Len(entries) - k
                 /\ \A i \in 1 .. Len(entries) - k : drop_expired_front(entries)[i] = entries[i + k]
                 /\ \A i \in 1 .. k : ~entries[i].payload
                 /\ k < Len(entries) => entries[k + 1].payload
<1> DEFINE live == {i \in DOMAIN entries : entries[i].payload}
<1>1. CASE live = {}
  <2>1. drop_expired_front(entries) = << >>
    BY <1>1 DEF drop_expired_front
  <2>2. \A i \in 1 .. Len(entries) : ~entries[i].payload
    BY <1>1
  <2> QED BY <2>1, <2>2
<1>2. CASE live # {}
  <2> DEFINE first == CHOOSE i \in live : \A j \in live : i <= j
  <2>1. \E i \in live : \A j \in live : i <= j
    <3>1. live \in SUBSET Nat OBVIOUS
    <3> HIDE DEF live
    <3> QED BY <1>2, <3>1, LeastNatural
  <2>2. first \in live /\ \A j \in live : first <= j
    BY <2>1
  <2>3. drop_expired_front(entries) = SubSeq(entries, first, Len(entries))
    BY <1>2 DEF drop_expired_front
  <2>4. /\ first \in 1 .. Len(entries)
        /\ entries[first].payload
        /\ \A i \in 1 .. first - 1 : ~entries[i].payload
    BY <2>2
  <2> HIDE DEF first, live
  <2>5. PICK k \in 0 .. Len(entries) : k = first - 1
    BY <2>4
  <2>6. /\ Len(drop_expired_front(entries)) = Len(entries) - k
        /\ drop_expired_front(entries) \in Seq(Entries)
        /\ \A i \in 1 .. Len(entries) - k : drop_expired_front(entries)[i] = entries[i + k]
    BY <2>3, <2>4, <2>5
  <2>7. /\ \A i \in 1 .. k : ~entries[i].payload
        /\ entries[k + 1].payload
    BY <2>4, <2>5
  <2> QED BY <2>6, <2>7
<1> QED BY <1>1, <1>2

-----------------------------------------------------------------------------
\* The entries that have their payload stand for the fibers of W, once each,
\* with the numbers of units u.
Match(entries, W, u) ==
    /\ \A f \in W : \E i \in DOMAIN entries : entries[i].payload /\ entries[i].who = f
    /\ \A i \in DOMAIN entries : entries[i].payload =>
          /\ entries[i].who \in W
          /\ u[entries[i].who] = entries[i].nr
          /\ \A j \in DOMAIN entries :
                entries[j].payload /\ entries[j].who = entries[i].who => i = j

\* Dropping expired entries leaves the others matched.
LEMMA DropMatch ==
    ASSUME NEW entries \in Seq(Entry), NEW W, NEW u, Match(entries, W, u)
    PROVE  /\ drop_expired_front(entries) \in Seq(Entry)
           /\ Match(drop_expired_front(entries), W, u)
           /\ drop_expired_front(entries) # << >> => drop_expired_front(entries)[1].payload
<1> DEFINE d == drop_expired_front(entries)
<1>1. PICK k \in 0 .. Len(entries) :
          /\ Len(d) = Len(entries) - k
          /\ \A i \in 1 .. Len(entries) - k : d[i] = entries[i + k]
          /\ \A i \in 1 .. k : ~entries[i].payload
          /\ k < Len(entries) => entries[k + 1].payload
  BY DropFacts
<1>2. d \in Seq(Entry)
  BY DropFacts
<1> HIDE DEF d
<1>3. ASSUME NEW f \in W PROVE \E i \in DOMAIN d : d[i].payload /\ d[i].who = f
  <2>1. PICK i \in 1 .. Len(entries) : entries[i].payload /\ entries[i].who = f
    BY DEF Match
  <2>2. i > k /\ i - k \in 1 .. Len(d) /\ d[i - k] = entries[i]
    BY <1>1, <2>1
  <2> QED BY <1>2, <2>1, <2>2
<1>4. ASSUME NEW i \in DOMAIN d, d[i].payload
      PROVE  /\ d[i].who \in W
             /\ u[d[i].who] = d[i].nr
             /\ \A j \in DOMAIN d : d[j].payload /\ d[j].who = d[i].who => i = j
  <2>1. \A j \in DOMAIN d : j + k \in DOMAIN entries /\ d[j] = entries[j + k] /\ j \in Int
    BY <1>1, <1>2
  <2>2. \A j \in DOMAIN d : d[j].payload /\ d[j].who = d[i].who => i + k = j + k
    BY <1>4, <2>1 DEF Match
  <2> QED BY <1>1, <1>4, <2>1, <2>2 DEF Match
<1>5. d # << >> => d[1].payload
  <2> SUFFICES ASSUME d # << >> PROVE d[1].payload
    OBVIOUS
  <2>1. 1 \in 1 .. Len(entries) - k
    BY <1>1, <1>2
  <2> QED BY <1>1, <2>1
<1> QED BY <1>2, <1>3, <1>4, <1>5 DEF d, Match

\* The inductive invariant.
ListInv == TypeOK /\ ListConsistent

\* The number of waiters changes with the fiber that starts or stops waiting.
LEMMA WaitingFinite == IsFiniteSet(Waiting) /\ Cardinality(Waiting) \in Nat
<1>1. Waiting \in SUBSET Fiber
  BY DEF Waiting
<1>2. IsFiniteSet(Waiting)
  BY <1>1, FiberAssumption, FS_Subset
<1> QED BY <1>2, FS_CardinalityType

\* A fiber that neither waits nor starts to wait disturbs no entry.
LEMMA OtherFiber ==
    ASSUME ListInv, NEW f \in Fiber, fiber[f] # "waiting",
           NEW state \in FiberState, state # "waiting", NEW nr \in Nr \cup {0},
           Becomes(f, state, nr), UNCHANGED <<list, size>>
    PROVE  /\ fiber' \in [Fiber -> FiberState]
           /\ units' \in [Fiber -> Nr \cup {0}]
           /\ ListConsistent'
<1>1. Waiting' = Waiting /\ f \notin Waiting
  BY DEF Becomes, Waiting, ListInv, TypeOK
<1>2. \A g \in Waiting : units'[g] = units[g]
  BY <1>1 DEF Becomes, Waiting, ListInv, TypeOK
<1> QED BY <1>1, <1>2 DEF Becomes, ListInv, TypeOK, ListConsistent

\* A fiber that stops waiting leaves the list matched once its entry has gone.
LEMMA Leave ==
    ASSUME ListInv, NEW f \in Waiting, NEW state \in FiberState, state # "waiting",
           NEW nr \in Nr \cup {0}, Becomes(f, state, nr), size' = size - 1,
           NEW entries \in Seq(Entry), Match(entries, Waiting \ {f}, units'),
           list' = drop_expired_front(entries)
    PROVE  /\ list' \in Seq(Entry)
           /\ size' \in Nat
           /\ fiber' \in [Fiber -> FiberState]
           /\ units' \in [Fiber -> Nr \cup {0}]
           /\ ListConsistent'
<1>1. Waiting' = Waiting \ {f}
  BY DEF Becomes, Waiting, ListInv, TypeOK
<1>2. Cardinality(Waiting \ {f}) = Cardinality(Waiting) - 1 /\ Cardinality(Waiting \ {f}) \in Nat
  BY WaitingFinite, FS_RemoveElement, FS_CardinalityType
<1>3. list' \in Seq(Entry) /\ Match(list', Waiting', units') /\ (list' # << >> => list'[1].payload)
  BY <1>1, DropMatch
<1>4. size' = Cardinality(Waiting')
  BY <1>1, <1>2 DEF ListInv, ListConsistent
<1>5. ListConsistent'
  BY <1>3, <1>4 DEF ListConsistent, Match
<1>6. fiber' \in [Fiber -> FiberState] /\ units' \in [Fiber -> Nr \cup {0}]
  BY DEF Becomes, Waiting, ListInv, TypeOK
<1> QED BY <1>1, <1>2, <1>3, <1>4, <1>5, <1>6

\* When fibers wait, the front of the list is one of them.
LEMMA FrontWaits ==
    ASSUME ListInv, size # 0
    PROVE  /\ list # << >> /\ list[1] = Head(list)
           /\ list[1].payload
           /\ list[1].who \in Waiting
           /\ list[1].nr = units[list[1].who]
<1>1. Waiting # {}
  BY FS_EmptySet DEF ListInv, ListConsistent
<1>2. list # << >>
  BY <1>1 DEF ListInv, TypeOK, ListConsistent
<1>3. 1 \in DOMAIN list
  BY <1>2 DEF ListInv, TypeOK
<1> QED BY <1>2, <1>3 DEF ListInv, TypeOK, ListConsistent
-----------------------------------------------------------------------------
\* Initially nobody waits.
LEMMA InitListInv == Init => ListInv
<1> SUFFICES ASSUME Init PROVE ListInv
  OBVIOUS
<1>1. Waiting = {}
  BY DEF Init, Waiting
<1>2. Cardinality(Waiting) = 0
  BY <1>1, FS_EmptySet
<1>3. ListConsistent
  BY <1>1, <1>2 DEF Init, ListConsistent
<1>4. TypeOK
  <2>1. count \in Int /\ size \in Nat /\ total \in Int
    BY UnitsAssumption DEF Init
  <2>2. list \in Seq(Entry)
    BY EmptySeq DEF Init
  <2>3. signalling \in BOOLEAN
    BY DEF Init
  <2>4. fiber \in [Fiber -> FiberState] /\ units \in [Fiber -> Nr \cup {0}]
    BY DEF Init, FiberState
  <2> QED BY <2>1, <2>2, <2>3, <2>4 DEF TypeOK
<1> QED BY <1>3, <1>4 DEF ListInv

\* A new entry at the back, for a fiber that did not wait.
LEMMA WaitInListListInv ==
    ASSUME ListInv, NEW f \in Fiber, NEW nr \in Nr, NEW timed \in BOOLEAN, WaitInList(f, nr, timed)
    PROVE  ListInv'
<1> DEFINE e == [who |-> f, nr |-> nr, payload |-> TRUE, timed |-> timed]
<1>1. e \in Entry /\ list' = Append(list, e) /\ list \in Seq(Entry)
  BY DEF WaitInList, Entry, ListInv, TypeOK
<1>2. f \notin Waiting /\ Waiting' = Waiting \cup {f}
  BY DEF WaitInList, Becomes, Waiting, ListInv, TypeOK, FiberState
<1>3. size' = Cardinality(Waiting') /\ size' \in Nat
  <2>1. Cardinality(Waiting') = Cardinality(Waiting) + 1
    BY <1>2, WaitingFinite, FS_AddElement
  <2> QED BY <2>1, WaitingFinite DEF WaitInList, ListInv, ListConsistent
<1>4. /\ e.payload /\ e.who = f /\ e.nr = nr
      /\ list' \in Seq(Entry) /\ Len(list') = Len(list) + 1 /\ list'[Len(list) + 1] = e
      /\ \A i \in DOMAIN list : list'[i] = list[i] /\ i \in 1 .. Len(list)
  BY <1>1
<1>5. /\ units'[f] = nr
      /\ \A g \in Waiting : units'[g] = units[g]
      /\ units' \in [Fiber -> Nr \cup {0}]
      /\ fiber' \in [Fiber -> FiberState]
  BY <1>2 DEF WaitInList, Becomes, Waiting, ListInv, TypeOK, FiberState
<1> HIDE DEF e
<1>6. Match(list', Waiting', units')
  <2>1. ASSUME NEW g \in Waiting' PROVE \E i \in DOMAIN list' : list'[i].payload /\ list'[i].who = g
    <3>1. CASE g = f
      BY <1>4, <3>1
    <3>2. CASE g \in Waiting
      <4>1. PICK i \in DOMAIN list : list[i].payload /\ list[i].who = g
        BY <3>2 DEF ListInv, ListConsistent
      <4>2. i \in DOMAIN list'
        BY <1>1, <1>4
      <4> QED BY <1>4, <4>1, <4>2
    <3> QED BY <1>2, <3>1, <3>2
  <2>2. \A i \in DOMAIN list' : i \in DOMAIN list \/ i = Len(list) + 1
    BY <1>1, <1>4
  <2>3. ASSUME NEW i \in DOMAIN list', list'[i].payload
        PROVE  /\ list'[i].who \in Waiting'
               /\ units'[list'[i].who] = list'[i].nr
               /\ \A j \in DOMAIN list' : list'[j].payload /\ list'[j].who = list'[i].who => i = j
    <3>1. \A j \in DOMAIN list : list'[j].payload =>
              list'[j].who \in Waiting /\ units'[list'[j].who] = list'[j].nr
      BY <1>4, <1>5 DEF ListInv, ListConsistent
    <3>2. \A j, k \in DOMAIN list : list'[j].payload /\ list'[k].payload
                                       /\ list'[j].who = list'[k].who => j = k
      BY <1>4 DEF ListInv, ListConsistent
    <3> QED BY <1>2, <1>4, <1>5, <2>2, <2>3, <3>1, <3>2
  <2> QED BY <2>1, <2>3 DEF Match
<1>7. list'[1].payload
  <2>1. CASE list = << >>
    BY <1>4, <2>1
  <2>2. CASE list # << >>
    BY <1>1, <1>4, <2>2 DEF ListInv, ListConsistent
  <2> QED BY <2>1, <2>2
<1>8. count' \in Int /\ signalling' \in BOOLEAN /\ total' \in Int
  BY DEF WaitInList, ListInv, TypeOK
<1> QED BY <1>3, <1>4, <1>5, <1>6, <1>7, <1>8 DEF ListInv, TypeOK, ListConsistent, Match

\* The front of the list is granted its units.
LEMMA GrantListInv == ASSUME ListInv, Grant PROVE ListInv'
<1> DEFINE f == list[1].who
<1>1. /\ size # 0
      /\ list # << >> /\ list[1] = Head(list) /\ f \in Waiting
      /\ list[1].payload
      /\ list[1].nr = units[f]
  BY FrontWaits DEF Grant, CanGrant
<1>2. /\ Becomes(f, "granted", units[f]) /\ size' = size - 1
      /\ list' = drop_expired_front(Tail(list))
      /\ count' = count - units[f]
  BY <1>1 DEF Grant
<1>3. units[f] \in Nr \cup {0} /\ units' = units
  BY <1>1, <1>2 DEF Becomes, Waiting, ListInv, TypeOK
<1>4. /\ Tail(list) \in Seq(Entry)
      /\ Len(Tail(list)) = Len(list) - 1
      /\ \A i \in DOMAIN Tail(list) : Tail(list)[i] = list[i + 1] /\ i + 1 \in DOMAIN list /\ i \in Nat \ {0}
  BY <1>1 DEF ListInv, TypeOK
<1>5. Match(Tail(list), Waiting \ {f}, units')
  <2>1. ASSUME NEW g \in Waiting \ {f}
        PROVE  \E i \in DOMAIN Tail(list) : Tail(list)[i].payload /\ Tail(list)[i].who = g
    <3>1. PICK i \in DOMAIN list : list[i].payload /\ list[i].who = g
      BY DEF ListInv, ListConsistent
    <3>2. i - 1 \in DOMAIN Tail(list) /\ Tail(list)[i - 1] = list[i]
      BY <1>1, <1>4, <3>1 DEF ListInv, TypeOK
    <3> QED BY <3>1, <3>2
  <2>2. 1 \in DOMAIN list
    BY <1>1 DEF ListInv, TypeOK
  <2>3. ASSUME NEW i \in DOMAIN Tail(list), Tail(list)[i].payload
        PROVE  /\ Tail(list)[i].who \in Waiting \ {f}
               /\ units'[Tail(list)[i].who] = Tail(list)[i].nr
               /\ \A j \in DOMAIN Tail(list) :
                     Tail(list)[j].payload /\ Tail(list)[j].who = Tail(list)[i].who => i = j
    <3>1. i + 1 # 1
      BY <1>4
    <3>2. list[i + 1].payload /\ list[i + 1].who \in Waiting /\ list[i + 1].who # f
      BY <1>1, <1>4, <2>2, <2>3, <3>1 DEF ListInv, ListConsistent
    <3>3. \A j \in DOMAIN Tail(list) :
              Tail(list)[j].payload /\ Tail(list)[j].who = Tail(list)[i].who => i + 1 = j + 1
      BY <1>4, <3>2 DEF ListInv, ListConsistent
    <3>4. units[list[i + 1].who] = list[i + 1].nr
      BY <1>4, <3>2 DEF ListInv, ListConsistent
    <3> QED BY <1>3, <1>4, <3>2, <3>3, <3>4
  <2> QED BY <2>1, <2>3 DEF Match
<1>6. units[f] \in Int
  <2>1. \A nr \in Nr \cup {0} : nr \in Int
    BY UnitsAssumption
  <2> QED BY <1>3, <2>1
<1>7. count' \in Int /\ signalling' \in BOOLEAN /\ total' \in Int
  BY <1>2, <1>6 DEF Grant, ListInv, TypeOK
<1> HIDE DEF f
<1>8. list' \in Seq(Entry) /\ size' \in Nat /\ fiber' \in [Fiber -> FiberState]
      /\ units' \in [Fiber -> Nr \cup {0}] /\ ListConsistent'
  BY <1>1, <1>2, <1>3, <1>4, <1>5, Leave DEF FiberState
<1> QED BY <1>7, <1>8 DEF ListInv, TypeOK

\* An entry of the list expires, at the front or behind it.
LEMMA ExpireListInv == ASSUME ListInv, NEW i \in DOMAIN list, Expire(i) PROVE ListInv'
<1> DEFINE f == list[i].who
           entries == [list EXCEPT ![i].payload = FALSE]
<1>1. /\ f \in Waiting
      /\ \A j \in DOMAIN list : list[j].payload /\ list[j].who = f => j = i
  BY DEF Expire, ListInv, ListConsistent
<1>2. Becomes(f, "timedout", 0) /\ size' = size - 1 /\ list' = drop_expired_front(entries)
  BY DEF Expire
<1>3. list \in Seq(Entry) /\ list[i] \in Entry
  BY DEF ListInv, TypeOK
<1>4. /\ entries \in Seq(Entry) /\ Len(entries) = Len(list) /\ DOMAIN entries = DOMAIN list
      /\ ~entries[i].payload
      /\ \A j \in DOMAIN list : j # i => entries[j] = list[j]
  <2>1. /\ [list[i] EXCEPT !.payload = FALSE] \in Entry
        /\ ~[list[i] EXCEPT !.payload = FALSE].payload
    BY <1>3 DEF Entry
  <2>2. entries = [list EXCEPT ![i] = [list[i] EXCEPT !.payload = FALSE]]
    OBVIOUS
  <2>3. PICK e \in Entry : ~e.payload /\ entries = [list EXCEPT ![i] = e]
    BY <2>1, <2>2
  <2> HIDE DEF entries
  <2> QED BY <1>3, <2>3
<1> HIDE DEF entries
<1>5. \A g \in Waiting \ {f} : units'[g] = units[g]
  BY <1>1, <1>2 DEF Becomes, Waiting, ListInv, TypeOK
<1>6. Match(entries, Waiting \ {f}, units')
  <2>1. ASSUME NEW g \in Waiting \ {f}
        PROVE  \E j \in DOMAIN entries : entries[j].payload /\ entries[j].who = g
    <3>1. PICK j \in DOMAIN list : list[j].payload /\ list[j].who = g
      BY DEF ListInv, ListConsistent
    <3> QED BY <1>4, <3>1
  <2>2. ASSUME NEW j \in DOMAIN entries, entries[j].payload
        PROVE  /\ entries[j].who \in Waiting \ {f}
               /\ units'[entries[j].who] = entries[j].nr
               /\ \A k \in DOMAIN entries : entries[k].payload /\ entries[k].who = entries[j].who => j = k
    <3>1. j # i /\ entries[j] = list[j] /\ j \in DOMAIN list /\ list[j].who # f
      BY <1>1, <1>4, <2>2
    <3>2. list[j].who \in Waiting /\ units[list[j].who] = list[j].nr
      BY <2>2, <3>1 DEF ListInv, ListConsistent
    <3>3. \A k \in DOMAIN entries : entries[k].payload => k # i /\ entries[k] = list[k]
      BY <1>4
    <3> QED BY <1>4, <1>5, <2>2, <3>1, <3>2, <3>3 DEF ListInv, ListConsistent
  <2> QED BY <2>1, <2>2 DEF Match
<1> HIDE DEF f
<1>7. list' \in Seq(Entry) /\ size' \in Nat /\ fiber' \in [Fiber -> FiberState]
      /\ units' \in [Fiber -> Nr \cup {0}] /\ ListConsistent'
  BY <1>1, <1>2, <1>4, <1>6, Leave DEF FiberState
<1> QED BY <1>7 DEF Expire, ListInv, TypeOK
\* Every step preserves the invariant.
LEMMA NextListInv == ListInv /\ [Next]_vars => ListInv'
<1> SUFFICES ASSUME ListInv, [Next]_vars PROVE ListInv'
  OBVIOUS
<1> USE UnitsAssumption
<1>1. ASSUME NEW f \in Fiber, NEW nr \in Nr, WaitReady(f, nr) PROVE ListInv'
  <2>1. fiber[f] # "waiting" /\ nr \in Nr \cup {0} /\ "granted" \in FiberState
    BY <1>1 DEF WaitReady, FiberState
  <2>2. /\ fiber' \in [Fiber -> FiberState] /\ units' \in [Fiber -> Nr \cup {0}]
        /\ ListConsistent'
    BY <1>1, <2>1, OtherFiber DEF WaitReady
  <2> QED BY <1>1, <2>2 DEF WaitReady, ListInv, TypeOK
<1>2. ASSUME NEW f \in Fiber, NEW nr \in Nr, TryWait(f, nr) \/ Consume(f, nr) PROVE ListInv'
  <2>1. fiber[f] # "waiting" /\ nr \in Nr \cup {0} /\ "holding" \in FiberState
    BY <1>2 DEF TryWait, Consume, FiberState
  <2>2. /\ fiber' \in [Fiber -> FiberState] /\ units' \in [Fiber -> Nr \cup {0}]
        /\ ListConsistent'
    BY <1>2, <2>1, OtherFiber DEF TryWait, Consume
  <2> QED BY <1>2, <2>2 DEF TryWait, Consume, ListInv, TypeOK
<1>3. ASSUME NEW f \in Fiber, Resume(f) PROVE ListInv'
  <2>1. units[f] \in Nr \cup {0}
    BY DEF ListInv, TypeOK
  <2>2. PICK state \in {"idle", "holding"}, nr \in Nr \cup {0} : Becomes(f, state, nr)
    BY <1>3, <2>1 DEF Resume
  <2>3. fiber[f] # "waiting" /\ state \in FiberState /\ state # "waiting"
    BY <1>3 DEF Resume, FiberState
  <2>4. /\ fiber' \in [Fiber -> FiberState] /\ units' \in [Fiber -> Nr \cup {0}]
        /\ ListConsistent'
    BY <1>3, <2>2, <2>3, OtherFiber DEF Resume
  <2> QED BY <1>3, <2>4 DEF Resume, ListInv, TypeOK
<1>4. ASSUME NEW f \in Fiber, Keep(f) \/ Release(f) PROVE ListInv'
  <2>1. fiber[f] # "waiting" /\ "idle" \in FiberState /\ Becomes(f, "idle", 0)
    BY <1>4 DEF Keep, Release, FiberState
  <2>2. /\ fiber' \in [Fiber -> FiberState] /\ units' \in [Fiber -> Nr \cup {0}]
        /\ ListConsistent'
    BY <1>4, <2>1, OtherFiber DEF Keep, Release
  <2>3. units[f] \in Int
    <3>1. \A nr \in Nr \cup {0} : nr \in Int OBVIOUS
    <3> QED BY <3>1 DEF ListInv, TypeOK
  <2>4. count' \in Int /\ total' \in Int
    BY <1>4, <2>3 DEF Keep, Release, ListInv, TypeOK
  <2>5. signalling' \in BOOLEAN
    BY <1>4 DEF Keep, Release, ListInv, TypeOK
  <2> QED BY <1>4, <2>2, <2>4, <2>5 DEF Keep, Release, ListInv, TypeOK
<1>5. ASSUME NEW nr \in Nr, Deposit(nr) PROVE ListInv'
  BY <1>5 DEF Deposit, ListInv, TypeOK, ListConsistent, Waiting
<1>6. ASSUME EndSignal \/ UNCHANGED vars PROVE ListInv'
  <2>1. UNCHANGED <<count, list, size, fiber, units, total>> /\ signalling' \in BOOLEAN
    BY <1>6 DEF EndSignal, vars, ListInv, TypeOK
  <2> QED BY <2>1 DEF ListInv, TypeOK, ListConsistent, Waiting
<1>7. ASSUME NEW f \in Fiber, Wait(f) PROVE ListInv'
  BY <1>1, <1>7, WaitInListListInv DEF Wait
<1> QED BY <1>1, <1>2, <1>3, <1>4, <1>5, <1>6, <1>7, GrantListInv, ExpireListInv
        DEF Next, Orderly, Signal

-----------------------------------------------------------------------------
\* The counters, the list and the fibers always have their types
\* (basic_semaphore and expiring_fifo).
THEOREM TypeCorrect == Spec => []TypeOK
<1>1. ListInv => TypeOK
  BY DEF ListInv
<1> QED BY <1>1, InitListInv, NextListInv, PTL DEF Spec

\* The list of waiters, with the entries that expired in its middle, always
\* agrees with its size and with the fibers, and its front can be
\* dereferenced (expiring_fifo).
THEOREM ListAlwaysConsistent == Spec => []ListConsistent
<1>1. ListInv => ListConsistent
  BY DEF ListInv
<1> QED BY <1>1, InitListInv, NextListInv, PTL DEF Spec

\* A step that serves a fiber grants the front of the list or finds the list
\* without waiters.
LEMMA ServedInOrder ==
    ASSUME ListInv, Next, NEW f \in Fiber, Served(f),
           NEW i \in DOMAIN list, list[i].payload
    PROVE  list[i].who = f \/ \E j \in 1 .. i : list[j].payload /\ list[j].who = f
<1> USE DEF Served
<1>1. CASE Grant
  <2>1. /\ list # << >> /\ list[1] = Head(list) /\ list[1].payload
        /\ list[1].who \in Fiber
    BY <1>1, FrontWaits DEF Grant, CanGrant, Waiting
  <2>2. f = list[1].who
    BY <1>1, <2>1 DEF Grant, Becomes, ListInv, TypeOK
  <2>3. 1 \in 1 .. i
    BY DEF ListInv, TypeOK
  <2> QED BY <2>1, <2>2, <2>3
<1>2. ASSUME NEW g \in Fiber, NEW nr \in Nr, WaitReady(g, nr) PROVE FALSE
  <2>1. size = 0
    BY <1>2 DEF WaitReady, may_proceed
  <2>2. Waiting = {}
    BY <2>1, WaitingFinite, FS_EmptySet DEF ListInv, ListConsistent
  <2> QED BY <2>2 DEF ListInv, ListConsistent
<1>3. ASSUME NEW g \in Fiber, NEW state, state # "granted", NEW nr, Becomes(g, state, nr)
      PROVE  FALSE
  BY <1>3 DEF Becomes, ListInv, TypeOK
<1>4. fiber' # fiber
  OBVIOUS
<1>5. ASSUME NEW g \in Fiber, Resume(g) PROVE FALSE
  BY <1>3, <1>5 DEF Resume
<1>6. ASSUME NEW g \in Fiber, Keep(g) \/ Release(g) PROVE FALSE
  BY <1>3, <1>6 DEF Keep, Release
<1>7. ASSUME NEW g \in Fiber, NEW nr \in Nr, TryWait(g, nr) \/ Consume(g, nr) PROVE FALSE
  BY <1>3, <1>7 DEF TryWait, Consume
<1>8. ASSUME NEW g \in Fiber, NEW nr \in Nr, NEW timed, WaitInList(g, nr, timed) PROVE FALSE
  BY <1>3, <1>8 DEF WaitInList
<1>9. ASSUME NEW k \in DOMAIN list, Expire(k) PROVE FALSE
  <2>1. list[k].who \in Fiber
    BY <1>9 DEF Expire, ListInv, ListConsistent, Waiting
  <2> QED BY <1>3, <1>9, <2>1 DEF Expire
<1>10. CASE EndSignal \/ \E nr \in Nr : Deposit(nr)
  BY <1>4, <1>10 DEF EndSignal, Deposit
<1> QED BY <1>1, <1>2, <1>5, <1>6, <1>7, <1>8, <1>9, <1>10 DEF Next, Orderly, Signal, Wait

\* First come, first served, with timeouts, consumed units and signals of any
\* number of units (basic_semaphore::wait and signal).
THEOREM FirstComeFirstServed == Spec => NoOvertaking
<1>1. ListInv /\ [Next]_vars =>
        [\A f \in Fiber : Served(f) =>
            \A i \in DOMAIN list : list[i].payload =>
                \/ list[i].who = f
                \/ \E j \in 1 .. i : list[j].payload /\ list[j].who = f]_vars
  BY ServedInOrder
<1> QED BY <1>1, InitListInv, NextListInv, PTL DEF Spec, NoOvertaking

-----------------------------------------------------------------------------
\* Without timeouts, an entry keeps its payload and no units lie idle.
NoneTimed == \A i \in DOMAIN list : ~list[i].timed

\* Dropping expired entries makes no entry a timed one.
LEMMA DropTimed ==
    ASSUME NEW entries \in Seq(Entry), \A i \in DOMAIN entries : ~entries[i].timed
    PROVE  \A i \in DOMAIN drop_expired_front(entries) : ~drop_expired_front(entries)[i].timed
<1> DEFINE d == drop_expired_front(entries)
<1>1. PICK k \in 0 .. Len(entries) :
          /\ Len(d) = Len(entries) - k
          /\ \A i \in 1 .. Len(entries) - k : d[i] = entries[i + k]
  BY DropFacts
<1>2. d \in Seq(Entry)
  BY DropFacts
<1> HIDE DEF d
<1>3. \A i \in DOMAIN d : i + k \in DOMAIN entries /\ d[i] = entries[i + k]
  BY <1>1, <1>2
<1> QED BY <1>3 DEF d

\* Without timeouts only grants remove entries, and only after a signal.
LEMMA PromptInv ==
    ASSUME Timeouts = FALSE
    PROVE  ListInv /\ NoneTimed /\ NoIdleUnits /\ [Next]_vars => NoneTimed' /\ NoIdleUnits'
<1> SUFFICES ASSUME ListInv, NoneTimed, NoIdleUnits, [Next]_vars PROVE NoneTimed' /\ NoIdleUnits'
  OBVIOUS
<1> USE UnitsAssumption
<1>1. ASSUME NEW f \in Fiber, NEW nr \in Nr, WaitReady(f, nr) \/ TryWait(f, nr) \/ Consume(f, nr)
      PROVE  NoneTimed' /\ NoIdleUnits'
  <2>1. /\ UNCHANGED <<list, size, signalling>> /\ count' = count - nr
        /\ nr \in Nat /\ count \in Int
    BY <1>1 DEF WaitReady, TryWait, Consume, ListInv, TypeOK
  <2>2. size # 0 => Head(list).nr \in Nat
    <3>1. \A n \in Nr \cup {0} : n \in Nat OBVIOUS
    <3> QED BY <3>1, FrontWaits DEF ListInv, TypeOK, Waiting
  <2> QED BY <2>1, <2>2 DEF NoneTimed, NoIdleUnits, Running, has_available_units
<1>2. ASSUME NEW f \in Fiber, NEW nr \in Nr, WaitInList(f, nr, FALSE) PROVE NoneTimed' /\ NoIdleUnits'
  <2> DEFINE e == [who |-> f, nr |-> nr, payload |-> TRUE, timed |-> FALSE]
  <2>1. /\ list' = Append(list, e) /\ list \in Seq(Entry) /\ e \in Entry
        /\ UNCHANGED <<count, signalling>> /\ ~may_proceed(nr) /\ Running
    BY <1>2 DEF WaitInList, Entry, ListInv, TypeOK
  <2>2. e.nr = nr /\ ~e.timed
    OBVIOUS
  <2> HIDE DEF e
  <2>3. NoneTimed'
    BY <2>1, <2>2 DEF NoneTimed
  <2>4. CASE size = 0
    <3>1. Waiting = {}
      BY <2>4, WaitingFinite, FS_EmptySet DEF ListInv, ListConsistent
    <3>2. list = << >>
      <4> SUFFICES ASSUME list # << >> PROVE FALSE
        OBVIOUS
      <4>1. 1 \in DOMAIN list
        BY <2>1
      <4> QED BY <3>1, <4>1 DEF ListInv, ListConsistent
    <3>3. Head(list') = e
      BY <2>1, <3>2
    <3> QED BY <2>1, <2>2, <2>3, <2>4, <3>3 DEF NoIdleUnits, may_proceed, has_available_units
  <2>5. CASE size # 0
    <3>1. Head(list') = Head(list)
      BY <2>1, <2>5, FrontWaits
    <3> QED BY <2>1, <2>3, <2>5, <3>1 DEF NoIdleUnits, Running, has_available_units
  <2> QED BY <2>4, <2>5
<1>3. ASSUME NEW f \in Fiber, Resume(f) \/ Keep(f) PROVE NoneTimed' /\ NoIdleUnits'
  BY <1>3 DEF Resume, Keep, NoneTimed, NoIdleUnits, Running, has_available_units
<1>4. ASSUME NEW f \in Fiber, Release(f) PROVE NoneTimed' /\ NoIdleUnits'
  BY <1>4 DEF Release, NoneTimed, NoIdleUnits, Running, has_available_units
<1>5. ASSUME NEW nr \in Nr, Deposit(nr) PROVE NoneTimed' /\ NoIdleUnits'
  BY <1>5 DEF Deposit, NoneTimed, NoIdleUnits, Running
<1>6. CASE EndSignal
  BY <1>6 DEF EndSignal, CanGrant, NoneTimed, NoIdleUnits, Running, has_available_units
<1>7. CASE Grant
  <2>1. Tail(list) \in Seq(Entry) /\ \A i \in DOMAIN Tail(list) : ~Tail(list)[i].timed
    <3>1. list # << >> /\ list \in Seq(Entry)
      BY <1>7, FrontWaits DEF Grant, CanGrant, ListInv, TypeOK
    <3> QED BY <3>1 DEF NoneTimed
  <2>2. \A i \in DOMAIN list' : ~list'[i].timed
    BY <1>7, <2>1, DropTimed DEF Grant
  <2> QED BY <1>7, <2>2 DEF Grant, NoneTimed, NoIdleUnits, Running
<1>8. ASSUME NEW i \in DOMAIN list, Expire(i) PROVE FALSE
  BY <1>8 DEF Expire, NoneTimed
<1>9. CASE UNCHANGED vars
  BY <1>9 DEF vars, NoneTimed, NoIdleUnits, Running, has_available_units
<1> QED BY <1>1, <1>2, <1>3, <1>4, <1>5, <1>6, <1>7, <1>8, <1>9 DEF Next, Orderly, Signal, Wait

\* When nobody waits with a timeout, a fiber whose turn it is never waits for
\* units that are there (basic_semaphore::signal).
THEOREM UnitsUsed == ASSUME Timeouts = FALSE PROVE Spec => []NoIdleUnits
<1>1. Init => NoneTimed /\ NoIdleUnits
  BY EmptySeq DEF Init, NoneTimed, NoIdleUnits
<1>2. ListInv /\ NoneTimed /\ NoIdleUnits /\ [Next]_vars => NoneTimed' /\ NoIdleUnits'
  BY PromptInv
<1> QED BY <1>1, <1>2, InitListInv, NextListInv, PTL DEF Spec

-----------------------------------------------------------------------------
(* Sums over the fibers.  What a fold computes cannot be shown by          *)
(* induction over sets; so a sum that is wrong is traced to a smallest set *)
(* for which it is.                                                        *)

\* The element that a fold over s takes first.
First(s) == CHOOSE x \in s : TRUE

\* g holds the sum of the numbers u over each set of D.
Sums(g, u, D) ==
    \A s \in D : g[s] = IF s = {} THEN 0 ELSE u[First(s)] + g[s \ {First(s)}]

\* The sum of u over all fibers, as the fold defines it.
Sum(u) == (CHOOSE g : g = [s \in SUBSET Fiber |->
                              IF s = {} THEN 0 ELSE u[First(s)] + g[s \ {First(s)}]])[Fiber]

\* What fibers have is counted by this sum.
LEMMA SumFolded == MapThenSumSet(LAMBDA f : Out[f], Fiber) = Sum(Out)
BY Zenon DEF MapThenSumSet, MapThenFoldSet, Sum, First

\* The fold takes an element of the set and leaves a set of one element less.
LEMMA FirstFacts ==
    ASSUME NEW s \in SUBSET Fiber
    PROVE  /\ IsFiniteSet(s) /\ Cardinality(s) \in Nat /\ Cardinality(s) <= Cardinality(Fiber)
           /\ s = {} <=> Cardinality(s) = 0
           /\ s # {} => /\ First(s) \in s /\ s \ {First(s)} \in SUBSET Fiber
                        /\ Cardinality(s \ {First(s)}) = Cardinality(s) - 1
<1>1. IsFiniteSet(s) /\ Cardinality(s) \in Nat /\ Cardinality(s) <= Cardinality(Fiber)
  BY FiberAssumption, FS_Subset, FS_CardinalityType
<1>2. s = {} <=> Cardinality(s) = 0
  BY <1>1, FS_EmptySet
<1>3. ASSUME s # {}
      PROVE  First(s) \in s /\ Cardinality(s \ {First(s)}) = Cardinality(s) - 1
  <2>1. First(s) \in s
    BY <1>3, Zenon DEF First
  <2> QED BY <1>1, <2>1, FS_RemoveElement
<1> QED BY <1>1, <1>2, <1>3

\* The sets of at most n fibers.
Small(n) == {s \in SUBSET Fiber : Cardinality(s) <= n}

\* Sums over small sets extend to sums over sets of one element more.
LEMMA SumsExtend ==
    ASSUME NEW u \in [Fiber -> Int], NEW n \in Nat,
           NEW g \in [Small(n) -> Int], Sums(g, u, Small(n))
    PROVE  \E h \in [Small(n + 1) -> Int] : Sums(h, u, Small(n + 1))
<1> DEFINE D == Small(n)
           E == Small(n + 1)
           next(s) == IF s = {} THEN 0 ELSE u[First(s)] + g[s \ {First(s)}]
<1>1. ASSUME NEW s \in E
      PROVE  s # {} => /\ First(s) \in s /\ First(s) \in Fiber /\ s \ {First(s)} \in D
                       /\ s \ {First(s)} \in E
  BY FirstFacts DEF Small
<1>2. \A s \in D : g[s] = next(s)
  BY DEF Sums
<1>3. D \subseteq E /\ {} \in D
  <2>1. \A s \in SUBSET Fiber : Cardinality(s) \in Nat
    BY FirstFacts
  <2>2. Cardinality({}) = 0
    BY FS_EmptySet
  <2> QED BY <2>1, <2>2 DEF Small
<1> HIDE DEF D, E
<1>4. \A s \in E : next(s) \in Int
  <2>1. g \in [D -> Int]
    BY DEF D
  <2> HIDE DEF next
  <2>2. ASSUME NEW s \in E, s # {} PROVE u[First(s)] \in Int /\ g[s \ {First(s)}] \in Int
    BY <1>1, <2>1, <2>2
  <2> QED BY <2>2 DEF next
<1>5. PICK h : h = [s \in E |-> next(s)]
  OBVIOUS
<1> HIDE DEF next
<1>6. h \in [E -> Int] /\ \A s \in E : h[s] = next(s)
  BY <1>4, <1>5
<1>7. ASSUME NEW s \in E PROVE h[s] = IF s = {} THEN 0 ELSE u[First(s)] + h[s \ {First(s)}]
  <2>1. CASE s = {}
    BY <1>6, <2>1 DEF next
  <2>2. CASE s # {}
    <3>1. h[s \ {First(s)}] = g[s \ {First(s)}]
      BY <1>1, <1>2, <1>6, <2>2
    <3> QED BY <1>6, <2>2, <3>1 DEF next
  <2> QED BY <2>1, <2>2
<1> QED BY <1>6, <1>7 DEF E, Sums

\* There are sums over all sets of fibers.
LEMMA SumsExist ==
    ASSUME NEW u \in [Fiber -> Int]
    PROVE  \E g \in [SUBSET Fiber -> Int] : Sums(g, u, SUBSET Fiber)
<1> DEFINE P(n) == \E g \in [Small(n) -> Int] : Sums(g, u, Small(n))
           Bad == {n \in Nat : ~P(n)}
<1>1. P(0)
  <2>1. ASSUME NEW s \in Small(0) PROVE s = {}
    <3>1. s \in SUBSET Fiber /\ Cardinality(s) <= 0
      BY DEF Small
    <3>2. Cardinality(s) \in Nat /\ (s = {} <=> Cardinality(s) = 0)
      BY <3>1, FirstFacts
    <3> QED BY <3>1, <3>2
  <2>2. PICK g : g = [s \in Small(0) |-> 0]
    OBVIOUS
  <2>3. g \in [Small(0) -> Int] /\ \A s \in Small(0) : g[s] = 0
    BY <2>2
  <2> QED BY <2>1, <2>3 DEF Sums
<1>2. \A n \in Nat : P(n) => P(n + 1)
  BY SumsExtend
<1> HIDE DEF P
<1>3. Bad = {}
  <2> SUFFICES ASSUME Bad # {} PROVE FALSE
    OBVIOUS
  <2>1. PICK i \in Bad : \A j \in Bad : i <= j
    BY LeastNatural
  <2>2. i \in Nat /\ ~P(i) /\ i # 0
    BY <1>1, <2>1
  <2>3. i - 1 \in Nat /\ i - 1 \notin Bad /\ i - 1 + 1 = i
    BY <2>1, <2>2
  <2> QED BY <1>2, <2>2, <2>3
<1>4. P(Cardinality(Fiber))
  BY <1>3, FiberAssumption, FS_CardinalityType
<1>5. Small(Cardinality(Fiber)) = SUBSET Fiber
  BY FirstFacts DEF Small
<1> QED BY <1>4, <1>5 DEF P

\* v differs from u by d for x, if that is a fiber.
Differ(u, v, x, d) == /\ x \in Fiber => v[x] = u[x] + d
                      /\ \A y \in Fiber \ {x} : v[y] = u[y]

\* h differs from g by d over the sets that x is in.
Raised(g, h, x, d) == \A s \in SUBSET Fiber : h[s] = IF x \in s THEN g[s] + d ELSE g[s]

\* When the number of one fiber changes, the sums over the sets it is in do.
LEMMA SumsChange ==
    ASSUME NEW u \in [Fiber -> Int], NEW v \in [Fiber -> Int], NEW x, NEW d \in Int,
           Differ(u, v, x, d), NEW g \in [SUBSET Fiber -> Int], Sums(g, u, SUBSET Fiber),
           NEW h, Sums(h, v, SUBSET Fiber)
    PROVE  Raised(g, h, x, d)
<1> DEFINE Right(s) == h[s] = IF x \in s THEN g[s] + d ELSE g[s]
           Bad == {n \in Nat : \E s \in SUBSET Fiber : Cardinality(s) = n /\ ~Right(s)}
<1>1. ASSUME NEW s \in SUBSET Fiber, s = {} \/ Right(s \ {First(s)}) PROVE Right(s)
  <2>1. CASE s = {}
    BY <2>1 DEF Sums
  <2>2. CASE s # {}
    <3> DEFINE f == First(s)
               rest == s \ {f}
    <3>1. f \in s /\ f \in Fiber /\ rest \in SUBSET Fiber
      BY <2>2, FirstFacts
    <3>2. h[s] = v[f] + h[rest] /\ g[s] = u[f] + g[rest]
      BY <2>2, Zenon DEF Sums
    <3>3. g[rest] \in Int /\ u[f] \in Int
      BY <3>1
    <3>4. h[rest] = IF x \in rest THEN g[rest] + d ELSE g[rest]
      BY <1>1, <2>2
    <3>5. CASE f = x
      <4>1. x \notin rest /\ x \in s /\ v[f] = u[f] + d
        BY <3>1, <3>5 DEF Differ
      <4>2. h[rest] = g[rest]
        BY <3>4, <4>1
      <4> HIDE DEF rest, f
      <4> QED BY <3>2, <3>3, <4>1, <4>2
    <3>6. CASE f # x
      <4>1. (x \in rest <=> x \in s) /\ v[f] = u[f]
        BY <3>1, <3>6 DEF Differ
      <4> HIDE DEF rest, f
      <4> QED BY <3>2, <3>3, <3>4, <4>1
    <3> QED BY <3>5, <3>6
  <2> QED BY <2>1, <2>2
<1> HIDE DEF Right
<1>2. Bad = {}
  <2> SUFFICES ASSUME Bad # {} PROVE FALSE
    OBVIOUS
  <2>1. PICK i \in Bad : \A j \in Bad : i <= j
    BY LeastNatural
  <2>2. PICK s \in SUBSET Fiber : Cardinality(s) = i /\ ~Right(s)
    BY <2>1
  <2>3. s # {} /\ ~Right(s \ {First(s)})
    BY <1>1, <2>2
  <2>4. /\ s \ {First(s)} \in SUBSET Fiber /\ Cardinality(s \ {First(s)}) \in Nat
        /\ Cardinality(s \ {First(s)}) < i
    <3>1. s \ {First(s)} \in SUBSET Fiber /\ Cardinality(s \ {First(s)}) = i - 1
      BY <2>2, <2>3, FirstFacts
    <3>2. Cardinality(s \ {First(s)}) \in Nat
      BY <3>1, FirstFacts, Zenon
    <3>3. i \in Nat
      OBVIOUS
    <3> QED BY <3>1, <3>2, <3>3
  <2>5. Cardinality(s \ {First(s)}) \in Bad
    BY <2>3, <2>4
  <2>6. i <= Cardinality(s \ {First(s)}) /\ i \in Nat
    BY <2>1, <2>5
  <2> QED BY <2>4, <2>6
<1>3. \A s \in SUBSET Fiber : Cardinality(s) \in Nat
  BY FirstFacts
<1> QED BY <1>2, <1>3 DEF Right, Raised

\* g and h are the same sums.
Same(g, h) == \A s \in SUBSET Fiber : h[s] = g[s]

\* There is one sum over each set.
LEMMA SameSums ==
    ASSUME NEW u \in [Fiber -> Int],
           NEW g \in [SUBSET Fiber -> Int], Sums(g, u, SUBSET Fiber),
           NEW h, Sums(h, u, SUBSET Fiber)
    PROVE  Same(g, h)
<1>1. PICK x : x \notin Fiber
  <2>1. {f \in Fiber : f \notin f} \notin Fiber
    OBVIOUS
  <2> QED BY <2>1
<1>2. Raised(g, h, x, 0)
  <2>1. Differ(u, u, x, 0)
    BY <1>1 DEF Differ
  <2>2. 0 \in Int
    OBVIOUS
  <2> QED BY <2>1, <2>2, SumsChange, Zenon
<1> QED BY <1>1, <1>2 DEF Raised, Same

\* The sum is one of these sums.
LEMMA SumFound ==
    ASSUME NEW u \in [Fiber -> Int]
    PROVE  \E g \in [SUBSET Fiber -> Int] : Sums(g, u, SUBSET Fiber) /\ Sum(u) = g[Fiber]
<1> DEFINE Adds(h) == h = [s \in SUBSET Fiber |->
                              IF s = {} THEN 0 ELSE u[First(s)] + h[s \ {First(s)}]]
           h == CHOOSE h : Adds(h)
<1>1. PICK g \in [SUBSET Fiber -> Int] : Sums(g, u, SUBSET Fiber)
  BY SumsExist
<1>2. Adds(g)
  BY <1>1 DEF Sums
<1>3. Adds(h)
  BY <1>2
<1>4. Sums(h, u, SUBSET Fiber)
  BY <1>3 DEF Sums
<1>5. Sum(u) = h[Fiber]
  BY Zenon DEF Sum
<1> HIDE DEF h
<1>6. Same(g, h)
  BY <1>1, <1>4, SameSums
<1> QED BY <1>1, <1>5, <1>6 DEF Same

\* The sum over all fibers changes with the number of one of them.
LEMMA SumChanges ==
    ASSUME NEW u \in [Fiber -> Int], NEW v \in [Fiber -> Int], NEW x \in Fiber, NEW d \in Int,
           Differ(u, v, x, d)
    PROVE  Sum(u) \in Int /\ Sum(v) = Sum(u) + d
<1>1. PICK g \in [SUBSET Fiber -> Int] : Sums(g, u, SUBSET Fiber) /\ Sum(u) = g[Fiber]
  BY SumFound
<1>2. PICK h \in [SUBSET Fiber -> Int] : Sums(h, v, SUBSET Fiber) /\ Sum(v) = h[Fiber]
  BY SumFound
<1>3. Raised(g, h, x, d)
  BY <1>1, <1>2, SumsChange, Zenon
<1>4. Fiber \in SUBSET Fiber /\ g[Fiber] \in Int
  OBVIOUS
<1> QED BY <1>1, <1>2, <1>3, <1>4 DEF Raised

\* Nothing adds up to nothing.
LEMMA SumOfNothing ==
    ASSUME NEW u \in [Fiber -> Int], \A f \in Fiber : u[f] = 0
    PROVE  Sum(u) = 0
<1>1. PICK g \in [SUBSET Fiber -> Int] : Sums(g, u, SUBSET Fiber) /\ Sum(u) = g[Fiber]
  BY SumFound
<1>2. PICK z : z = [s \in SUBSET Fiber |-> 0]
  OBVIOUS
<1>3. z \in [SUBSET Fiber -> Int] /\ \A s \in SUBSET Fiber : z[s] = 0
  BY <1>2
<1>4. Sums(z, u, SUBSET Fiber)
  <2>1. ASSUME NEW s \in SUBSET Fiber, s # {}
        PROVE  z[s] = u[First(s)] + z[s \ {First(s)}]
    <3>1. First(s) \in Fiber /\ s \ {First(s)} \in SUBSET Fiber
      BY <2>1, FirstFacts
    <3> QED BY <1>3, <3>1
  <2> QED BY <1>3, <2>1 DEF Sums
<1>5. Same(g, z)
  BY <1>1, <1>3, <1>4, SameSums, Zenon
<1> QED BY <1>1, <1>3, <1>5 DEF Same

-----------------------------------------------------------------------------
(* The units.                                                              *)

\* The units the semaphore has, and those that fibers have, are all there are.
AllCounted == count + Sum(Out) = total

\* What fibers have are numbers of units.
LEMMA OutType == ASSUME ListInv PROVE Out \in [Fiber -> Int]
<1>1. \A n \in Nr \cup {0} : n \in Int
  BY UnitsAssumption
<1>2. ASSUME NEW f \in Fiber
      PROVE  (IF fiber[f] \in {"granted", "holding"} THEN units[f] ELSE 0) \in Int
  BY <1>1 DEF ListInv, TypeOK
<1> QED BY <1>2 DEF Out

\* A fiber that goes to another state gives back what it had and has what it got.
LEMMA OutChanges ==
    ASSUME ListInv, NEW f \in Fiber, NEW state, NEW nr \in Nr \cup {0}, Becomes(f, state, nr)
    PROVE  /\ Out[f] \in Int /\ nr \in Int /\ Sum(Out) \in Int
           /\ Sum(Out') = Sum(Out) - Out[f] + IF state \in {"granted", "holding"} THEN nr ELSE 0
<1>1. \A n \in Nr \cup {0} : n \in Int
  BY UnitsAssumption
<1>2. /\ fiber \in [Fiber -> FiberState] /\ units \in [Fiber -> Nr \cup {0}]
      /\ fiber' = [fiber EXCEPT ![f] = state] /\ units' = [units EXCEPT ![f] = nr]
  BY DEF Becomes, ListInv, TypeOK
<1>3. PICK d : d = (IF state \in {"granted", "holding"} THEN nr ELSE 0) - Out[f]
  OBVIOUS
<1>4. Out \in [Fiber -> Int]
  BY OutType
<1>5. /\ Out'[f] = IF state \in {"granted", "holding"} THEN nr ELSE 0
      /\ \A g \in Fiber \ {f} : Out'[g] = Out[g]
  BY <1>2 DEF Out
<1>6. nr \in Int /\ Out[f] \in Int /\ Out'[f] \in Int
  BY <1>1, <1>4, <1>5
<1>7. Out' \in [Fiber -> Int]
  <2>1. Out' = [g \in Fiber |-> Out'[g]]
    BY DEF Out
  <2>2. \A g \in Fiber : Out'[g] \in Int
    BY <1>4, <1>5, <1>6
  <2> QED BY <2>1, <2>2
<1>8. d \in Int /\ d = Out'[f] - Out[f]
  BY <1>3, <1>5, <1>6
<1>9. Differ(Out, Out', f, d)
  BY <1>5, <1>6, <1>8 DEF Differ
<1>10. Sum(Out) \in Int /\ Sum(Out') = Sum(Out) + d
  BY <1>4, <1>7, <1>8, <1>9, SumChanges, Zenon
<1> QED BY <1>5, <1>6, <1>8, <1>10

\* Every step keeps the units counted.
LEMMA NextCounted == ListInv /\ AllCounted /\ [Next]_vars => AllCounted'
<1> SUFFICES ASSUME ListInv, AllCounted, [Next]_vars PROVE AllCounted'
  OBVIOUS
<1>1. count \in Int /\ total \in Int /\ units \in [Fiber -> Nr \cup {0}] /\ Nr \subseteq Nat
  BY UnitsAssumption DEF ListInv, TypeOK
<1>2. ASSUME NEW f \in Fiber, NEW nr \in Nr, WaitReady(f, nr) \/ TryWait(f, nr) \/ Consume(f, nr)
      PROVE  AllCounted'
  <2>1. PICK state \in {"granted", "holding"} : Becomes(f, state, nr)
    BY <1>2 DEF WaitReady, TryWait, Consume
  <2>2. Out[f] = 0 /\ count' = count - nr /\ total' = total
    BY <1>2 DEF WaitReady, TryWait, Consume, Out
  <2>3. Sum(Out) \in Int /\ nr \in Int /\ Sum(Out') = Sum(Out) + nr
    <3>1. /\ Sum(Out) \in Int /\ nr \in Int
          /\ Sum(Out') = Sum(Out) - Out[f] + IF state \in {"granted", "holding"} THEN nr ELSE 0
      BY <2>1, OutChanges
    <3> QED BY <2>2, <3>1
  <2> QED BY <1>1, <2>2, <2>3 DEF AllCounted
<1>3. ASSUME NEW f \in Fiber, NEW nr \in Nr \cup {0}, NEW state, state \notin {"granted", "holding"},
             Becomes(f, state, nr), UNCHANGED <<count, total>>,
             fiber[f] \notin {"granted", "holding"}
      PROVE  AllCounted'
  <2>1. Out[f] = 0
    BY <1>3 DEF Out
  <2>2. Sum(Out') = Sum(Out)
    <3>1. /\ Sum(Out) \in Int
          /\ Sum(Out') = Sum(Out) - Out[f] + IF state \in {"granted", "holding"} THEN nr ELSE 0
      BY <1>3, OutChanges
    <3> QED BY <1>3, <2>1, <3>1
  <2> QED BY <1>3, <2>2 DEF AllCounted
<1>4. ASSUME NEW f \in Fiber, NEW nr \in Nr, NEW timed, WaitInList(f, nr, timed) PROVE AllCounted'
  BY <1>3, <1>4 DEF WaitInList
<1>5. ASSUME NEW i \in DOMAIN list, Expire(i) PROVE AllCounted'
  <2>1. list[i].who \in Fiber /\ fiber[list[i].who] = "waiting"
    BY <1>5 DEF Expire, ListInv, ListConsistent, Waiting
  <2> QED BY <1>3, <1>5, <2>1 DEF Expire
<1>6. ASSUME NEW f \in Fiber, Resume(f) PROVE AllCounted'
  <2>1. CASE fiber[f] = "timedout"
    BY <1>3, <1>6, <2>1 DEF Resume
  <2>2. CASE fiber[f] = "granted" /\ Becomes(f, "holding", units[f])
    <3>1. Out[f] = units[f] /\ units[f] \in Nr \cup {0}
      BY <1>1, <2>2 DEF Out
    <3>2. /\ Sum(Out) \in Int /\ Out[f] \in Int
          /\ Sum(Out') = Sum(Out) - Out[f] + units[f]
      <4>1. /\ Sum(Out) \in Int /\ Out[f] \in Int
            /\ Sum(Out') = Sum(Out) - Out[f] + IF "holding" \in {"granted", "holding"} THEN units[f] ELSE 0
        BY <2>2, <3>1, OutChanges
      <4> QED BY <4>1
    <3> QED BY <1>6, <3>1, <3>2 DEF AllCounted, Resume
  <2> QED BY <1>6, <2>1, <2>2 DEF Resume
<1>7. ASSUME NEW f \in Fiber, Keep(f) \/ Release(f) PROVE AllCounted'
  <2>1. Out[f] = units[f] /\ Becomes(f, "idle", 0)
    BY <1>7 DEF Keep, Release, Out
  <2>2. /\ Sum(Out) \in Int /\ Out[f] \in Int /\ Sum(Out') = Sum(Out) - Out[f]
    <3>1. /\ Sum(Out) \in Int /\ Out[f] \in Int
          /\ Sum(Out') = Sum(Out) - Out[f] + IF "idle" \in {"granted", "holding"} THEN 0 ELSE 0
      BY <2>1, OutChanges
    <3> QED BY <3>1
  <2>3. \/ count' = count /\ total' = total - units[f]
        \/ count' = count + units[f] /\ total' = total
        \/ units[f] = 0 /\ count' = count /\ total' = total
    BY <1>7 DEF Keep, Release
  <2> QED BY <1>1, <2>1, <2>2, <2>3 DEF AllCounted
<1>8. CASE Grant
  <2> DEFINE f == list[1].who
  <2>1. /\ list[1] = Head(list) /\ f \in Waiting
        /\ list[1].nr = units[f]
    BY <1>8, FrontWaits DEF Grant, CanGrant
  <2>2. f \in Fiber /\ Out[f] = 0 /\ units[f] \in Nr \cup {0}
    BY <1>1, <2>1 DEF Waiting, Out
  <2>3. Becomes(f, "granted", units[f]) /\ count' = count - units[f] /\ total' = total
    BY <1>8, <2>1 DEF Grant
  <2>4. Sum(Out) \in Int /\ units[f] \in Int /\ Sum(Out') = Sum(Out) + units[f]
    <3>1. /\ Sum(Out) \in Int /\ units[f] \in Int
          /\ Sum(Out') = Sum(Out) - Out[f] + IF "granted" \in {"granted", "holding"} THEN units[f] ELSE 0
      BY <2>2, <2>3, OutChanges
    <3> QED BY <2>2, <3>1
  <2> QED BY <1>1, <2>3, <2>4 DEF AllCounted
<1>9. ASSUME UNCHANGED <<fiber, units>> PROVE Sum(Out') = Sum(Out)
  BY <1>9 DEF Out
<1>10. ASSUME NEW nr \in Nr, Deposit(nr) PROVE AllCounted'
  <2>1. Sum(Out) \in Int
    <3>1. PICK g \in [SUBSET Fiber -> Int] : Sums(g, Out, SUBSET Fiber) /\ Sum(Out) = g[Fiber]
      BY OutType, SumFound
    <3> QED BY <3>1
  <2>2. Sum(Out') = Sum(Out) /\ count' = count + nr /\ total' = total + nr /\ nr \in Int
    BY <1>1, <1>9, <1>10 DEF Deposit
  <2> QED BY <1>1, <2>1, <2>2 DEF AllCounted
<1>11. CASE EndSignal \/ UNCHANGED vars
  BY <1>9, <1>11 DEF EndSignal, vars, AllCounted
<1>12. ASSUME NEW f \in Fiber, Wait(f) PROVE AllCounted'
  BY <1>2, <1>4, <1>12 DEF Wait
<1> QED BY <1>2, <1>5, <1>6, <1>7, <1>8, <1>10, <1>11, <1>12 DEF Next, Orderly, Signal

\* No unit is lost or made up, whatever the order of waits, grants, timeouts,
\* consumed units and releases (basic_semaphore, semaphore_units).
THEOREM UnitsAlwaysConserved == Spec => []UnitsConserved
<1>1. Init => AllCounted
  <2> SUFFICES ASSUME Init PROVE AllCounted
    OBVIOUS
  <2>1. Out \in [Fiber -> Int] /\ \A f \in Fiber : Out[f] = 0
    BY DEF Init, Out
  <2>2. Sum(Out) = 0
    BY <2>1, SumOfNothing
  <2> QED BY <2>2, UnitsAssumption DEF Init, AllCounted
<1>2. AllCounted => UnitsConserved
  BY SumFolded DEF AllCounted, UnitsConserved
<1> QED BY <1>1, <1>2, InitListInv, NextListInv, NextCounted, PTL DEF Spec
=============================================================================
