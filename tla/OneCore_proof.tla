---------------------------- MODULE OneCore_proof ----------------------------
(***************************************************************************)
(* Condition variables, the objects that other cores free and deleters,    *)
(* for any number of fibers, cores, objects and owners.                    *)
(***************************************************************************)
EXTENDS MC_OneCore, Semaphore_proof

-----------------------------------------------------------------------------
(* Each part takes the steps of its own operations and no others.          *)

\* The operations of the condition variable, and those on the objects of the
\* core and on the list of those that others freed.
Signalled == subject = "condvar"

FreesNext == \/ \E o \in Memory : X!Allocate(o) \/ X!FreeLocal(o)
             \/ \E c \in Core, o \in Memory : X!FreeCross(c, o)
             \/ \E c \in Core : X!CompareExchange(c)
             \/ X!Drain \/ X!DrainNext \/ X!Exit

\* A step is one of the part it is about and leaves the others alone.
LEMMA OwnSteps ==
    ASSUME [MCNext]_MCVars
    PROVE  /\ [FreesNext]_crossVars
           /\ subject' = subject
           /\ Signalled => [CvNext]_vars
<1>1. CASE UNCHANGED MCVars
  BY <1>1 DEF MCVars
<1>2. CASE MCNext
  <2>1. /\ Waits("semaphore") => UNCHANGED <<subject, crossVars>> /\ ~Signalled
        /\ Waits("condvar") => UNCHANGED <<subject, crossVars>>
        /\ Memories => UNCHANGED <<subject, vars, crossVars>>
        /\ Frees => UNCHANGED <<subject, vars>>
        /\ Owners => UNCHANGED <<subject, vars, crossVars>>
    BY DEF Waits, Memories, Frees, Owners, Of, Signalled
  <2>2. \/ Waits("semaphore")
        \/ Waits("condvar") /\ CvNext
        \/ Memories
        \/ Frees /\ [FreesNext]_crossVars
        \/ Owners
    BY <1>2 DEF MCNext, CvNext, FreesNext
  <2> QED BY <2>1, <2>2
<1> QED BY <1>1, <1>2

-----------------------------------------------------------------------------
(* The condition variable.  Its fibers wait for one unit each, and each    *)
(* unit that signal() brings is taken before it ends.                      *)

\* Outside of signal() there are no units; within it, none beyond those for
\* the fibers that wait.
CvInv == /\ ListInv
         /\ \A i \in DOMAIN list : list[i].nr = 1
         /\ count \in Nat /\ count <= size
         /\ Running => count = 0

\* Dropping expired entries leaves entries for one unit.
LEMMA DropOnes ==
    ASSUME NEW entries \in Seq(Entry), \A i \in DOMAIN entries : entries[i].nr = 1
    PROVE  \A i \in DOMAIN drop_expired_front(entries) : drop_expired_front(entries)[i].nr = 1
<1> DEFINE d == drop_expired_front(entries)
<1>1. PICK k \in 0 .. Len(entries) :
          /\ Len(d) = Len(entries) - k
          /\ \A i \in 1 .. Len(entries) - k : d[i] = entries[i + k]
  BY DropFacts
<1>2. d \in Seq(Entry)
  BY DropFacts
<1> HIDE DEF d
<1>3. \A i \in DOMAIN d : i + k \in DOMAIN entries /\ d[i] = entries[i + k]
  BY <1>1, <1>2
<1> QED BY <1>3 DEF d

\* No operation of the condition variable breaks this.
LEMMA CvStep == CvInv /\ [CvNext]_vars => CvInv'
<1> SUFFICES ASSUME CvInv, [CvNext]_vars PROVE CvInv'
  OBVIOUS
<1>1. 1 \in Nr /\ Timeouts \in BOOLEAN /\ size \in Nat /\ list \in Seq(Entry)
  BY OneCoreAssumption, UnitsAssumption DEF CvInv, ListInv, TypeOK
<1>2. ASSUME NEW f \in Fiber, WaitReady(f, 1) PROVE FALSE
  BY <1>2 DEF WaitReady, may_proceed, has_available_units, CvInv
<1>3. ASSUME NEW f \in Fiber, NEW timed \in BOOLEAN, WaitInList(f, 1, timed) PROVE CvInv'
  <2>1. ListInv'
    BY <1>1, <1>3, WaitInListListInv DEF CvInv
  <2>2. UNCHANGED <<count, signalling>> /\ size' = size + 1
    BY <1>3 DEF WaitInList
  <2>3. PICK e : e.nr = 1 /\ list' = Append(list, e)
    BY <1>3 DEF WaitInList
  <2>4. \A i \in DOMAIN list' : list'[i].nr = 1
    BY <1>1, <2>3 DEF CvInv
  <2> QED BY <1>1, <2>1, <2>2, <2>4 DEF CvInv, Running
<1>4. ASSUME NEW f \in Fiber, CvResume(f) PROVE CvInv'
  <2>1. fiber[f] # "waiting" /\ "idle" \in FiberState /\ Becomes(f, "idle", 0)
        /\ UNCHANGED <<count, list, size, signalling>>
    BY <1>4 DEF CvResume, FiberState
  <2>2. /\ fiber' \in [Fiber -> FiberState] /\ units' \in [Fiber -> Nr \cup {0}]
        /\ ListConsistent'
    BY <2>1, OtherFiber DEF CvInv
  <2>3. total' \in Int
    <3>1. units[f] \in Int
      <4>1. \A n \in Nr \cup {0} : n \in Int
        BY UnitsAssumption
      <4> QED BY <4>1 DEF CvInv, ListInv, TypeOK
    <3> QED BY <1>4, <3>1 DEF CvResume, CvInv, ListInv, TypeOK
  <2>4. ListInv'
    BY <2>1, <2>2, <2>3 DEF CvInv, ListInv, TypeOK
  <2> QED BY <2>1, <2>4 DEF CvInv, Running
<1>5. ASSUME NEW nr \in Nat, nr <= size, Deposit(nr) PROVE CvInv'
  <2>1. ListInv'
    BY <1>5 DEF Deposit, CvInv, ListInv, TypeOK, ListConsistent, Waiting
  <2>2. count' = nr /\ signalling' /\ UNCHANGED <<list, size>>
    BY <1>5 DEF Deposit, CvInv
  <2> QED BY <1>5, <2>1, <2>2 DEF CvInv, Running
<1>6. ASSUME NEW i \in DOMAIN list, Expire(i) PROVE CvInv'
  <2>1. ListInv'
    BY <1>6, ExpireListInv DEF CvInv
  <2>2. UNCHANGED <<count, signalling>> /\ count = 0
    BY <1>6 DEF Expire, CvInv
  <2>3. list' = drop_expired_front([list EXCEPT ![i].payload = FALSE])
    BY <1>6 DEF Expire
  <2>4. PICK entries : entries = [list EXCEPT ![i].payload = FALSE]
    OBVIOUS
  <2>5. entries \in Seq(Entry) /\ \A j \in DOMAIN entries : entries[j].nr = 1
    <3>1. PICK e : e = [list[i] EXCEPT !.payload = FALSE]
      OBVIOUS
    <3>2. e \in Entry /\ e.nr = list[i].nr
      <4>1. list[i] \in Entry
        BY <1>1
      <4> QED BY <3>1, <4>1 DEF Entry
    <3>3. entries = [list EXCEPT ![i] = e]
      BY <2>4, <3>1
    <3> QED BY <1>1, <3>2, <3>3 DEF CvInv
  <2>6. \A j \in DOMAIN list' : list'[j].nr = 1
    BY <2>3, <2>4, <2>5, DropOnes
  <2>7. size' \in Nat
    BY <2>1 DEF ListInv, TypeOK
  <2> QED BY <2>1, <2>2, <2>6, <2>7 DEF CvInv, Running
<1>7. CASE Grant
  <2>1. ListInv'
    BY <1>7, GrantListInv DEF CvInv
  <2>2. list # << >> /\ Head(list) = list[1] /\ list[1].nr = 1
    <3>1. list # << >> /\ Head(list) = list[1]
      BY <1>7, FrontWaits DEF Grant, CanGrant, CvInv
    <3> QED BY <1>1, <3>1 DEF CvInv
  <2>3. count' = count - 1 /\ size' = size - 1 /\ signalling' /\ count >= 1
        /\ list' = drop_expired_front(Tail(list))
    BY <1>7, <2>2 DEF Grant, CanGrant, has_available_units
  <2>4. Tail(list) \in Seq(Entry) /\ \A i \in DOMAIN Tail(list) : Tail(list)[i].nr = 1
    BY <1>1, <2>2 DEF CvInv
  <2>5. \A i \in DOMAIN list' : list'[i].nr = 1
    BY <2>3, <2>4, DropOnes
  <2> QED BY <1>1, <2>1, <2>3, <2>5 DEF CvInv, Running
<1>8. CASE EndSignal
  <2>1. UNCHANGED <<count, list, size, fiber, units, total>> /\ signalling' = FALSE
    BY <1>8 DEF EndSignal
  <2>2. ListInv'
    BY <2>1 DEF CvInv, ListInv, TypeOK, ListConsistent, Waiting
  <2>3. count = 0
    <3>1. CASE size = 0
      BY <3>1 DEF CvInv
    <3>2. CASE size # 0
      <4>1. Head(list).nr = 1
        <5>1. list # << >> /\ Head(list) = list[1]
          BY <3>2, FrontWaits DEF CvInv
        <5> QED BY <1>1, <5>1 DEF CvInv
      <4> QED BY <1>8, <3>2, <4>1 DEF EndSignal, CanGrant, has_available_units, CvInv
    <3> QED BY <3>1, <3>2
  <2> QED BY <2>1, <2>2, <2>3 DEF CvInv, Running
<1>9. CASE UNCHANGED vars
  BY <1>9 DEF vars, CvInv, ListInv, TypeOK, ListConsistent, Waiting, Running
<1>10. CASE CvSignal \/ CvBroadcast
  <2>1. PICK nr \in Nat : nr <= size /\ Deposit(nr)
    <3>1. CASE CvSignal
      BY <1>1, <3>1 DEF CvSignal
    <3>2. CASE CvBroadcast
      BY <1>1, <3>2 DEF CvBroadcast
    <3> QED BY <1>10, <3>1, <3>2
  <2> QED BY <1>5, <2>1
<1>11. ASSUME NEW f \in Fiber, CvWait(f) PROVE CvInv'
  BY <1>1, <1>2, <1>3, <1>11 DEF CvWait
<1> QED BY <1>4, <1>6, <1>7, <1>8, <1>9, <1>10, <1>11 DEF CvNext, Signal

\* A condition variable starts without units.
LEMMA CvStarts == CvInit => CvInv
<1> SUFFICES ASSUME CvInit PROVE CvInv
  OBVIOUS
<1>1. Waiting = {} /\ Cardinality(Waiting) = 0
  <2>1. Waiting = {}
    BY DEF CvInit, Waiting
  <2> QED BY <2>1, FS_EmptySet
<1>2. ListConsistent
  BY <1>1 DEF CvInit, ListConsistent
<1>3. TypeOK
  <2>1. list \in Seq(Entry)
    BY EmptySeq DEF CvInit
  <2>2. fiber \in [Fiber -> FiberState] /\ units \in [Fiber -> Nr \cup {0}]
    BY DEF CvInit, FiberState
  <2>3. count \in Int /\ size \in Nat /\ total \in Int
    BY DEF CvInit
  <2>4. signalling \in BOOLEAN
    BY DEF CvInit
  <2> QED BY <2>1, <2>2, <2>3, <2>4 DEF TypeOK
<1> QED BY <1>2, <1>3 DEF CvInit, CvInv, ListInv

\* A signal wakes a fiber that waits already, or none: whatever timeouts race
\* with it, outside of signal() the semaphore of a condition variable has no
\* units.
THEOREM SignalsNeverRemembered == MCSpec => []CvSignalsNotRemembered
<1>1. MCInit => (Signalled => CvInv)
  <2> SUFFICES ASSUME MCInit, Signalled PROVE CvInv
    OBVIOUS
  <2>1. CvInit
    BY DEF MCInit, Signalled
  <2> QED BY <2>1, CvStarts
<1>2. (Signalled => CvInv) /\ [MCNext]_MCVars => (Signalled => CvInv)'
  <2> SUFFICES ASSUME Signalled => CvInv, [MCNext]_MCVars, Signalled' PROVE CvInv'
    OBVIOUS
  <2>1. Signalled /\ [CvNext]_vars
    BY OwnSteps DEF Signalled
  <2> QED BY <2>1, CvStep
<1>3. (Signalled => CvInv) => CvSignalsNotRemembered
  BY DEF Signalled, CvInv, CvSignalsNotRemembered, SignalsNotRemembered
<1> QED BY <1>1, <1>2, <1>3, PTL DEF MCSpec

-----------------------------------------------------------------------------
(* Objects freed by other cores.  The list, and the part of it that is     *)
(* being drained, are chains: sequences of objects, each linked to the     *)
(* next.                                                                   *)

\* The n-th object of a chain, or Null behind the last one.
Nth(chain, n) == IF n <= Len(chain) THEN chain[n] ELSE Null

\* Following the links from start leads through chain, in which no object is
\* twice.
LinkedChain(chain, start, links) ==
    /\ chain \in Seq(Memory)
    /\ start = Nth(chain, 1)
    /\ \A i \in 1 .. Len(chain) : links[chain[i]] = Nth(chain, i + 1)
    /\ \A i, j \in 1 .. Len(chain) : chain[i] = chain[j] => i = j

\* The objects of a chain.
Objects(chain) == {chain[i] : i \in 1 .. Len(chain)}

\* The objects that cores are pushing.
Pushed == {freeing[c].p : c \in {d \in Core : freeing[d] # X!Idle}}

Listed == {o \in Memory : object[o] = "listed"}

\* The two chains, and the objects that are being pushed, share nothing and
\* are all that is listed.
Placed(shared, private) ==
    /\ LinkedChain(shared, xcpu_freelist, link)
    /\ LinkedChain(private, drained, link)
    /\ Objects(shared) \cap Objects(private) = {}
    /\ Pushed \cap (Objects(shared) \cup Objects(private)) = {}
    /\ Objects(shared) \cup Objects(private) \cup Pushed = Listed

FreesInv ==
    /\ X!TypeOK
    /\ \A c \in Core : freeing[c] # X!Idle => freeing[c].p \in Memory
    /\ \A c, d \in Core : freeing[c] # X!Idle /\ freeing[c].p = freeing[d].p => c = d
    /\ \E shared, private \in Seq(Memory) : Placed(shared, private)

\* Other links do not matter to a chain.
LEMMA ChainKept ==
    ASSUME NEW chain, NEW start, NEW links, NEW after, LinkedChain(chain, start, links),
           \A o \in Objects(chain) : after[o] = links[o]
    PROVE  LinkedChain(chain, start, after)
BY DEF LinkedChain, Objects

\* An object in front makes a chain longer,
LEMMA ChainGrows ==
    ASSUME NEW chain, NEW start, NEW links, LinkedChain(chain, start, links),
           NEW o \in Memory \ Objects(chain), links[o] = start
    PROVE  /\ LinkedChain(<<o>> \o chain, o, links)
           /\ Objects(<<o>> \o chain) = Objects(chain) \cup {o}
<1>1. PICK longer : longer = <<o>> \o chain
  OBVIOUS
<1>2. chain \in Seq(Memory) /\ Len(chain) \in Nat
  BY DEF LinkedChain
<1>3. /\ longer \in Seq(Memory) /\ Len(longer) = Len(chain) + 1 /\ longer[1] = o
      /\ \A i \in 1 .. Len(chain) : longer[i + 1] = chain[i]
  BY <1>1, <1>2
<1>4. ASSUME NEW i \in 1 .. Len(longer), i # 1
      PROVE  i - 1 \in 1 .. Len(chain) /\ longer[i] = chain[i - 1] /\ (i - 1) + 1 = i
  BY <1>2, <1>3, <1>4
<1>5. \A i \in Nat \ {0} : Nth(longer, i + 1) = Nth(chain, i)
  BY <1>2, <1>3 DEF Nth
<1>6. ASSUME NEW i \in 1 .. Len(longer) PROVE links[longer[i]] = Nth(longer, i + 1)
  <2>1. CASE i = 1
    BY <1>3, <1>5, <2>1, SMTT(40) DEF LinkedChain
  <2>2. CASE i # 1
    <3>1. links[chain[i - 1]] = Nth(chain, (i - 1) + 1)
      BY <1>4, <2>2 DEF LinkedChain
    <3>2. longer[i] = chain[i - 1] /\ (i - 1) + 1 = i /\ i \in Nat \ {0}
      BY <1>3, <1>4, <2>2
    <3>3. Nth(longer, i + 1) = Nth(chain, i)
      BY <1>5, <3>2
    <3> QED BY <3>1, <3>2, <3>3
  <2> QED BY <2>1, <2>2
<1>7. ASSUME NEW i \in 1 .. Len(longer), NEW j \in 1 .. Len(longer), longer[i] = longer[j]
      PROVE  i = j
  <2>1. ASSUME NEW k \in 1 .. Len(longer), k # 1 PROVE longer[k] # o
    BY <1>4, <2>1, SMTT(40) DEF Objects
  <2>2. CASE i = 1 \/ j = 1
    BY <1>3, <1>7, <2>1, <2>2
  <2>3. CASE i # 1 /\ j # 1
    <3>1. i - 1 = j - 1
      BY <1>4, <1>7, <2>3 DEF LinkedChain
    <3> QED BY <3>1
  <2> QED BY <2>2, <2>3
<1>8. o = Nth(longer, 1)
  BY <1>2, <1>3 DEF Nth
<1>9. Objects(longer) = Objects(chain) \cup {o}
  <2>1. Objects(longer) \subseteq Objects(chain) \cup {o}
    BY <1>3, <1>4 DEF Objects
  <2>2. ASSUME NEW i \in 1 .. Len(chain) PROVE chain[i] \in Objects(longer)
    <3>1. i + 1 \in 1 .. Len(longer) /\ longer[i + 1] = chain[i]
      BY <1>2, <1>3
    <3> QED BY <3>1 DEF Objects
  <2>3. o \in Objects(longer)
    BY <1>2, <1>3 DEF Objects
  <2> QED BY <2>1, <2>2, <2>3 DEF Objects
<1> QED BY <1>1, <1>3, <1>6, <1>7, <1>8, <1>9 DEF LinkedChain

\* and without its first object it starts at the next.
LEMMA ChainShrinks ==
    ASSUME NEW chain, NEW start \in Memory, NEW links, LinkedChain(chain, start, links)
    PROVE  /\ LinkedChain(Tail(chain), links[start], links)
           /\ start \in Objects(chain)
           /\ Objects(Tail(chain)) = Objects(chain) \ {start}
<1>1. PICK shorter : shorter = Tail(chain)
  OBVIOUS
<1>2. chain \in Seq(Memory) /\ Len(chain) \in Nat /\ Len(chain) # 0 /\ chain[1] = start
  BY OneCoreAssumption DEF LinkedChain, Nth
<1>3. /\ shorter \in Seq(Memory) /\ Len(shorter) = Len(chain) - 1
      /\ \A i \in 1 .. Len(shorter) : shorter[i] = chain[i + 1]
  BY <1>1, <1>2
<1>4. \A i \in Nat \ {0} : Nth(shorter, i) = Nth(chain, i + 1)
  BY <1>2, <1>3 DEF Nth
<1>5. \A i \in 1 .. Len(shorter) : i + 1 \in 1 .. Len(chain) /\ i + 1 # 1 /\ i \in Nat \ {0}
  BY <1>2, <1>3
<1>6. ASSUME NEW i \in 1 .. Len(shorter) PROVE links[shorter[i]] = Nth(shorter, i + 1)
  <2>1. links[chain[i + 1]] = Nth(chain, (i + 1) + 1)
    BY <1>5 DEF LinkedChain
  <2>2. i + 1 \in Nat \ {0} /\ shorter[i] = chain[i + 1]
    BY <1>3, <1>5
  <2>3. Nth(shorter, i + 1) = Nth(chain, (i + 1) + 1)
    BY <1>4, <2>2
  <2> QED BY <2>1, <2>2, <2>3
<1>7. links[start] = Nth(shorter, 1)
  <2>1. 1 \in 1 .. Len(chain)
    BY <1>2
  <2> QED BY <1>2, <1>4, <2>1, SMTT(40) DEF LinkedChain
<1>8. ASSUME NEW i \in 1 .. Len(shorter), NEW j \in 1 .. Len(shorter), shorter[i] = shorter[j]
      PROVE  i = j
  <2>1. i + 1 = j + 1
    BY <1>3, <1>5, <1>8 DEF LinkedChain
  <2> QED BY <2>1
<1>9. start \in Objects(chain)
  BY <1>2 DEF Objects
<1>10. Objects(shorter) = Objects(chain) \ {start}
  <2>1. ASSUME NEW i \in 1 .. Len(shorter) PROVE shorter[i] \in Objects(chain) /\ shorter[i] # start
    <3>1. shorter[i] = chain[i + 1] /\ i + 1 \in 1 .. Len(chain) /\ i + 1 # 1
      BY <1>3, <1>5
    <3>2. chain[i + 1] # chain[1]
      BY <1>2, <3>1 DEF LinkedChain
    <3> QED BY <1>2, <3>1, <3>2 DEF Objects
  <2>2. ASSUME NEW i \in 1 .. Len(chain), chain[i] # start PROVE chain[i] \in Objects(shorter)
    <3>1. i - 1 \in 1 .. Len(shorter) /\ shorter[i - 1] = chain[i]
      BY <1>2, <1>3, <2>2
    <3> QED BY <3>1 DEF Objects
  <2> QED BY <2>1, <2>2 DEF Objects
<1> QED BY <1>1, <1>3, <1>6, <1>7, <1>8, <1>9, <1>10 DEF LinkedChain

\* A chain that starts nowhere is empty.
LEMMA ChainEmpty ==
    ASSUME NEW chain, NEW links, LinkedChain(chain, Null, links)
    PROVE  chain = << >> /\ Objects(chain) = {}
<1>1. chain \in Seq(Memory)
  BY DEF LinkedChain
<1>2. Len(chain) = 0
  <2> SUFFICES ASSUME Len(chain) # 0 PROVE FALSE
    OBVIOUS
  <2>1. 1 <= Len(chain) /\ chain[1] \in Memory
    BY <1>1
  <2> QED BY <2>1, OneCoreAssumption DEF LinkedChain, Nth
<1> QED BY <1>1, <1>2 DEF Objects

\* A step that changes the links and the state of no object of a chain, and
\* leaves the two lists where they start, keeps the chains.
LEMMA PlacedKept ==
    ASSUME NEW shared, NEW private, Placed(shared, private),
           UNCHANGED <<xcpu_freelist, drained>>,
           \A o \in Objects(shared) \cup Objects(private) : link'[o] = link[o],
           Pushed' \cap (Objects(shared) \cup Objects(private)) = {},
           Objects(shared) \cup Objects(private) \cup Pushed' = Listed'
    PROVE  Placed(shared, private)'
<1>1. LinkedChain(shared, xcpu_freelist, link') /\ LinkedChain(private, drained, link')
  BY ChainKept DEF Placed
<1> QED BY <1>1 DEF Placed

\* No operation breaks this.
LEMMA FreesStep == FreesInv /\ [FreesNext]_crossVars => FreesInv'
<1> SUFFICES ASSUME FreesInv, [FreesNext]_crossVars PROVE FreesInv'
  OBVIOUS
<1>1. PICK shared \in Seq(Memory), private \in Seq(Memory) : Placed(shared, private)
  BY DEF FreesInv
<1>2. X!TypeOK /\ Null \notin Memory
  BY OneCoreAssumption DEF FreesInv
<1>3. /\ \A c \in Core : freeing[c] # X!Idle => freeing[c].p \in Memory
      /\ \A c, d \in Core : freeing[c] # X!Idle /\ freeing[c].p = freeing[d].p => c = d
  BY DEF FreesInv
<1>4. /\ Objects(shared) \in SUBSET Listed /\ Objects(private) \in SUBSET Listed
      /\ Pushed \in SUBSET Listed
  BY <1>1 DEF Placed
<1>5. ASSUME NEW o \in Memory, X!Allocate(o) \/ X!FreeLocal(o) PROVE FreesInv'
  <2>1. /\ object[o] # "listed" /\ UNCHANGED <<xcpu_freelist, freeing, drained>>
        /\ Listed' = Listed /\ \A x \in Listed : link'[x] = link[x]
    BY <1>2, <1>5 DEF X!Allocate, X!FreeLocal, X!TypeOK, Listed
  <2>2. X!TypeOK'
    BY <1>2, <1>5 DEF X!Allocate, X!FreeLocal, X!TypeOK
  <2>3. Pushed' = Pushed
    BY <2>1 DEF Pushed
  <2>4. Placed(shared, private)'
    <3>1. \A x \in Objects(shared) \cup Objects(private) : link'[x] = link[x]
      BY <1>4, <2>1
    <3>2. /\ Pushed' \cap (Objects(shared) \cup Objects(private)) = {}
          /\ Objects(shared) \cup Objects(private) \cup Pushed' = Listed'
      BY <1>1, <2>1, <2>3 DEF Placed
    <3> QED BY <1>1, <2>1, <3>1, <3>2, PlacedKept
  <2> QED BY <1>3, <2>1, <2>2, <2>4 DEF FreesInv
<1>6. ASSUME NEW c \in Core, NEW o \in Memory, X!FreeCross(c, o) PROVE FreesInv'
  <2>1. X!TypeOK'
    BY <1>2, <1>6, SMTT(40) DEF X!FreeCross, X!TypeOK
  <2>2. UNCHANGED <<xcpu_freelist, drained, link>> /\ object[o] = "allocated" /\ freeing[c] = X!Idle
    BY <1>6 DEF X!FreeCross
  <2>3. CASE ~live
    <3>1. UNCHANGED freeing /\ Listed' = Listed
      BY <1>2, <1>6, <2>3 DEF X!FreeCross, X!TypeOK, Listed
    <3>2. Pushed' = Pushed
      BY <3>1 DEF Pushed
    <3>3. Placed(shared, private)'
      BY <1>1, <2>2, <3>1, <3>2 DEF Placed
    <3> QED BY <1>3, <2>1, <3>1, <3>3 DEF FreesInv
  <2>4. CASE live
    <3>1. /\ freeing' = [freeing EXCEPT ![c] = [p |-> o, old |-> xcpu_freelist]]
          /\ object' = [object EXCEPT ![o] = "listed"]
      BY <1>6, <2>4 DEF X!FreeCross
    <3>2. /\ freeing'[c].p = o /\ freeing'[c] # X!Idle
          /\ \A d \in Core \ {c} : freeing'[d] = freeing[d]
      BY <1>2, <3>1 DEF X!TypeOK, X!Idle
    <3>3. Pushed' = Pushed \cup {o}
      BY <2>2, <3>2 DEF Pushed
    <3>4. Listed' = Listed \cup {o} /\ o \notin Listed
      BY <1>2, <2>2, <3>1 DEF X!TypeOK, Listed
    <3>5. Placed(shared, private)'
      BY <1>1, <1>4, <2>2, <3>3, <3>4 DEF Placed
    <3>6. ASSUME NEW d \in Core, freeing[d] # X!Idle PROVE freeing[d].p # o
      BY <1>4, <3>4, <3>6 DEF Pushed
    <3>7. \A d \in Core : freeing'[d] # X!Idle => freeing'[d].p \in Memory
      BY <1>3, <3>2
    <3>8. ASSUME NEW d \in Core, NEW e \in Core, freeing'[d] # X!Idle,
                 freeing'[d].p = freeing'[e].p
          PROVE  d = e
      <4>1. freeing'[e] # X!Idle
        <5>1. CASE freeing'[e] = X!Idle
          BY <1>2, <3>7, <3>8, <5>1 DEF X!Idle
        <5> QED BY <5>1
      <4> QED BY <1>3, <3>2, <3>6, <3>8, <4>1
    <3> QED BY <2>1, <3>5, <3>7, <3>8 DEF FreesInv
  <2> QED BY <2>3, <2>4
<1>7. ASSUME NEW c \in Core, X!CompareExchange(c) PROVE FreesInv'
  <2> DEFINE o == freeing[c].p
  <2>1. freeing[c] # X!Idle /\ o \in Memory /\ o \in Pushed
    BY <1>3, <1>7 DEF X!CompareExchange, Pushed
  <2>2. UNCHANGED <<drained, object>> /\ Listed' = Listed
    BY <1>7 DEF X!CompareExchange, Listed
  <2>3. link' = [link EXCEPT ![o] = freeing[c].old]
    BY <1>7 DEF X!CompareExchange
  <2>4. /\ link'[o] = freeing[c].old
        /\ \A x \in Objects(shared) \cup Objects(private) : link'[x] = link[x]
        /\ o \notin Objects(shared) \cup Objects(private)
    <3>1. o \notin Objects(shared) \cup Objects(private)
      BY <1>1, <2>1 DEF Placed
    <3> QED BY <1>2, <2>1, <2>3, <3>1 DEF X!TypeOK
  <2>5. freeing[c].old \in Memory \cup {Null} /\ xcpu_freelist \in Memory \cup {Null}
    BY <1>2 DEF X!TypeOK
  <2>6. CASE xcpu_freelist = freeing[c].old
    <3>1. xcpu_freelist' = o /\ freeing' = [freeing EXCEPT ![c] = X!Idle]
      BY <1>7, <2>6 DEF X!CompareExchange
    <3>2. freeing'[c] = X!Idle /\ \A d \in Core \ {c} : freeing'[d] = freeing[d]
      BY <1>2, <3>1 DEF X!TypeOK
    <3>3. Pushed' = Pushed \ {o}
      BY <1>3, <2>1, <3>2 DEF Pushed
    <3>4. X!TypeOK'
      BY <1>2, <1>7, <2>1, <2>3, <2>5, <3>1 DEF X!TypeOK, X!Idle, X!CompareExchange
    <3>5. LinkedChain(shared, xcpu_freelist, link') /\ LinkedChain(private, drained, link')
      BY <1>1, <2>4, ChainKept DEF Placed
    <3>6. /\ LinkedChain(<<o>> \o shared, o, link')
          /\ Objects(<<o>> \o shared) = Objects(shared) \cup {o}
      BY <2>1, <2>4, <2>6, <3>5, ChainGrows
    <3>7. PICK longer : longer = <<o>> \o shared
      OBVIOUS
    <3>8. longer \in Seq(Memory) /\ Objects(longer) = Objects(shared) \cup {o}
          /\ LinkedChain(longer, xcpu_freelist', link')
      BY <3>1, <3>6, <3>7 DEF LinkedChain
    <3>9. Placed(longer, private)'
      <4>1. /\ Objects(shared) \cap Objects(private) = {}
            /\ Pushed \cap (Objects(shared) \cup Objects(private)) = {}
            /\ Objects(shared) \cup Objects(private) \cup Pushed = Listed
        BY <1>1 DEF Placed
      <4>2. Objects(longer) \cap Objects(private) = {}
        BY <2>4, <3>8, <4>1
      <4>3. Pushed' \cap (Objects(longer) \cup Objects(private)) = {}
        BY <3>3, <3>8, <4>1
      <4>4. Objects(longer) \cup Objects(private) \cup Pushed' = Listed'
        BY <2>1, <2>2, <3>3, <3>8, <4>1
      <4> QED BY <2>2, <3>5, <3>8, <4>2, <4>3, <4>4 DEF Placed
    <3>10. \A d, e \in Core : freeing'[d] # X!Idle /\ freeing'[d].p = freeing'[e].p => d = e
      <4>1. ASSUME NEW d \in Core, NEW e \in Core, freeing'[d] # X!Idle, freeing'[d].p = freeing'[e].p
            PROVE  d = e
        <5>1. d # c /\ freeing'[d] = freeing[d] /\ freeing[d].p \in Memory
          BY <1>3, <3>2, <4>1
        <5>2. e # c
          BY <1>2, <3>2, <4>1, <5>1 DEF X!Idle
        <5> QED BY <1>3, <3>2, <4>1, <5>1, <5>2
      <4> QED BY <4>1
    <3>11. \A d \in Core : freeing'[d] # X!Idle => freeing'[d].p \in Memory
      BY <1>3, <3>2
    <3> QED BY <3>4, <3>8, <3>9, <3>10, <3>11 DEF FreesInv
  <2>7. CASE xcpu_freelist # freeing[c].old
    <3>1. UNCHANGED xcpu_freelist /\ freeing' = [freeing EXCEPT ![c].old = xcpu_freelist]
      BY <1>7, <2>7 DEF X!CompareExchange
    <3>2. /\ freeing'[c].p = o /\ freeing'[c] # X!Idle
          /\ \A d \in Core \ {c} : freeing'[d] = freeing[d]
          /\ \A d \in Core : freeing'[d].p = freeing[d].p
      BY <1>2, <2>1, <3>1 DEF X!TypeOK, X!Idle
    <3>3. Pushed' = Pushed
      BY <2>1, <3>2 DEF Pushed
    <3>4. X!TypeOK'
      BY <1>2, <1>7, <2>1, <2>3, <2>5, <3>1 DEF X!TypeOK, X!CompareExchange
    <3>5. Placed(shared, private)'
      BY <1>1, <2>2, <2>4, <3>1, <3>3, PlacedKept DEF Placed
    <3>6. /\ \A d \in Core : freeing'[d] # X!Idle => freeing'[d].p \in Memory
          /\ \A d, e \in Core : freeing'[d] # X!Idle /\ freeing'[d].p = freeing'[e].p => d = e
      BY <1>3, <2>1, <3>2
    <3> QED BY <3>4, <3>5, <3>6 DEF FreesInv
  <2> QED BY <2>6, <2>7
<1>8. CASE X!Drain
  <2>1. /\ drained = Null /\ drained' = xcpu_freelist /\ xcpu_freelist' = Null
        /\ UNCHANGED <<object, link, freeing>> /\ live' = live
    BY <1>8 DEF X!Drain
  <2>2. X!TypeOK'
    BY <1>2, <2>1 DEF X!TypeOK
  <2>3. private = << >> /\ Objects(private) = {}
    BY <1>1, <2>1, ChainEmpty DEF Placed
  <2>4. LinkedChain(private, Null, link') /\ LinkedChain(shared, drained', link')
    BY <1>1, <2>1 DEF Placed
  <2>5. Pushed' = Pushed /\ Listed' = Listed
    BY <2>1 DEF Pushed, Listed
  <2>6. Placed(private, shared)'
    BY <1>1, <2>1, <2>3, <2>4, <2>5 DEF Placed
  <2> QED BY <1>3, <2>1, <2>2, <2>6 DEF FreesInv
<1>9. CASE X!DrainNext
  <2>1. /\ drained \in Memory /\ drained' = link[drained]
        /\ object' = [object EXCEPT ![drained] = "free"]
        /\ link' = [link EXCEPT ![drained] = Null]
        /\ UNCHANGED <<xcpu_freelist, freeing, live>>
    BY <1>2, <1>9 DEF X!DrainNext, X!TypeOK
  <2>2. X!TypeOK'
    BY <1>2, <2>1 DEF X!TypeOK
  <2>3. /\ LinkedChain(Tail(private), link[drained], link) /\ drained \in Objects(private)
        /\ Objects(Tail(private)) = Objects(private) \ {drained}
    BY <1>1, <2>1, ChainShrinks DEF Placed
  <2>4. PICK rest : rest = Tail(private)
    OBVIOUS
  <2>5. rest \in Seq(Memory) /\ Objects(rest) = Objects(private) \ {drained}
        /\ LinkedChain(rest, drained', link)
    BY <2>1, <2>3, <2>4 DEF LinkedChain
  <2>6. /\ Objects(shared) \cap Objects(private) = {}
        /\ Pushed \cap (Objects(shared) \cup Objects(private)) = {}
        /\ Objects(shared) \cup Objects(private) \cup Pushed = Listed
    BY <1>1 DEF Placed
  <2>7. \A x \in Objects(shared) \cup Objects(rest) : link'[x] = link[x]
    <3>1. \A x \in Objects(shared) \cup Objects(rest) : x \in Memory /\ x # drained
      BY <2>3, <2>5, <2>6 DEF Listed
    <3> QED BY <1>2, <2>1, <3>1 DEF X!TypeOK
  <2>8. LinkedChain(shared, xcpu_freelist', link') /\ LinkedChain(rest, drained', link')
    BY <1>1, <2>1, <2>5, <2>7, ChainKept DEF Placed
  <2>9. Pushed' = Pushed /\ Listed' = Listed \ {drained}
    BY <1>2, <2>1 DEF Pushed, Listed, X!TypeOK
  <2>10. Placed(shared, rest)'
    BY <2>3, <2>5, <2>6, <2>8, <2>9 DEF Placed
  <2> QED BY <1>3, <2>1, <2>2, <2>5, <2>10 DEF FreesInv
<1>10. CASE X!Exit \/ UNCHANGED crossVars
  <2>1. UNCHANGED <<object, link, xcpu_freelist, freeing, drained>> /\ live' \in BOOLEAN
    BY <1>2, <1>10 DEF X!Exit, crossVars, X!TypeOK
  <2>2. X!TypeOK'
    BY <1>2, <2>1 DEF X!TypeOK
  <2>3. Placed(shared, private)'
    BY <1>1, <2>1 DEF Placed, Pushed, Listed
  <2> QED BY <1>3, <2>1, <2>2, <2>3 DEF FreesInv
<1> QED BY <1>5, <1>6, <1>7, <1>8, <1>9, <1>10 DEF FreesNext

\* A set of natural numbers has a least element.
LEMMA LeastOne ==
    ASSUME NEW S \in SUBSET Nat, S # {}
    PROVE  \E i \in S : \A j \in S : i <= j
<1>1. PICK i \in S : \A j \in S : ~ (<<j, i>> \in OpToRel(<, Nat))
  BY NatLessThanWellFounded, WFMin, Zenon
<1>2. \A j \in S : ~ (j < i)
  BY <1>1 DEF OpToRel
<1> QED BY <1>2

\* The sizes that the model speaks of are those of the library's theorems.
LEMMA SameSizes == \A S : X!Cardinality(S) = Cardinality(S)
BY Zenon DEF X!Cardinality, Cardinality

\* A chain is no longer than there are objects.
LEMMA ChainLength ==
    ASSUME NEW chain, NEW start, NEW links, LinkedChain(chain, start, links)
    PROVE  Len(chain) \in Nat /\ Len(chain) <= Cardinality(Memory) /\ Cardinality(Memory) \in Nat
<1>1. Len(chain) \in Nat /\ chain \in [1 .. Len(chain) -> Memory]
  BY DEF LinkedChain
<1>2. chain \in Injection(1 .. Len(chain), Memory)
  <2>1. \A i, j \in 1 .. Len(chain) : chain[i] = chain[j] => i = j
    BY DEF LinkedChain
  <2> QED BY <1>1, <2>1 DEF Injection, IsInjective
<1>3. IsFiniteSet(1 .. Len(chain)) /\ Cardinality(1 .. Len(chain)) = Len(chain)
  BY <1>1, FS_Interval, SMTT(40)
<1>4. IsFiniteSet(Memory)
  BY OneCoreAssumption
<1>5. Cardinality(1 .. Len(chain)) <= Cardinality(Memory)
  BY <1>2, <1>4, FS_Injection, Zenon
<1> QED BY <1>1, <1>3, <1>4, <1>5, FS_CardinalityType

\* The links from the start of a chain lead to its objects, all of them, and
\* then to Null.
LEMMA LinkedIsChain ==
    ASSUME NEW chain, NEW start, LinkedChain(chain, start, link)
    PROVE  X!Linked(start) = Objects(chain) \cup {Null}
<1> DEFINE Step(o) == IF o = Null THEN Null ELSE link[o]
           Walk(f) == [n \in 0 .. X!Cardinality(Memory) |->
                          IF n = 0 THEN start ELSE Step(f[n - 1])]
           along == [n \in 0 .. X!Cardinality(Memory) |-> Nth(chain, n + 1)]
           walk == CHOOSE f : f = Walk(f)
<1>1. /\ Cardinality(Memory) \in Nat /\ X!Cardinality(Memory) = Cardinality(Memory)
      /\ Len(chain) \in Nat /\ Len(chain) <= Cardinality(Memory)
  BY SameSizes, ChainLength
<1>2. /\ chain \in Seq(Memory) /\ start = Nth(chain, 1)
      /\ \A i \in 1 .. Len(chain) : link[chain[i]] = Nth(chain, i + 1)
  BY DEF LinkedChain
<1>3. ASSUME NEW n \in Nat \ {0} PROVE Step(Nth(chain, n)) = Nth(chain, n + 1)
  <2>1. CASE n <= Len(chain)
    <3>1. n \in 1 .. Len(chain) /\ chain[n] \in Memory /\ chain[n] # Null
      BY <1>2, <2>1, OneCoreAssumption
    <3> QED BY <1>2, <2>1, <3>1 DEF Nth
  <2>2. CASE ~(n <= Len(chain))
    BY <1>2, <2>2 DEF Nth
  <2> QED BY <2>1, <2>2
<1>4. X!Linked(start) = {walk[n] : n \in DOMAIN walk}
  BY Zenon DEF X!Linked
<1> HIDE DEF Step
<1>5. along = Walk(along)
  <2>1. ASSUME NEW n \in 0 .. X!Cardinality(Memory), n # 0
        PROVE  Nth(chain, n + 1) = Step(along[n - 1])
    <3>1. n - 1 \in 0 .. X!Cardinality(Memory) /\ (n - 1) + 1 = n /\ n \in Nat \ {0}
      BY <1>1, <2>1
    <3> QED BY <1>3, <3>1
  <2>2. Nth(chain, 0 + 1) = start
    BY <1>2
  <2> QED BY <2>1, <2>2
<1> HIDE DEF along
<1>6. walk = Walk(walk)
  <2> HIDE DEF Walk
  <2> QED BY <1>5, Zenon
<1> HIDE DEF walk
<1>7. ASSUME NEW n \in 0 .. Cardinality(Memory), walk[n] # Nth(chain, n + 1)
      PROVE  FALSE
  <2> DEFINE Wrong == {k \in Nat : k <= Cardinality(Memory) /\ walk[k] # Nth(chain, k + 1)}
  <2>1. Wrong \in SUBSET Nat /\ Wrong # {}
    BY <1>1, <1>7
  <2>2. PICK k \in Wrong : \A j \in Wrong : k <= j
    <3> HIDE DEF Wrong
    <3> QED BY <2>1, LeastOne
  <2>3. k \in 0 .. X!Cardinality(Memory) /\ walk[k] # Nth(chain, k + 1)
    BY <1>1, <2>2
  <2>4. walk[k] = IF k = 0 THEN start ELSE Step(walk[k - 1])
    BY <1>6, <2>3
  <2>5. k # 0
    BY <1>2, <2>3, <2>4
  <2>6. k - 1 \in Nat /\ k - 1 <= Cardinality(Memory) /\ k - 1 \notin Wrong /\ (k - 1) + 1 = k
    BY <1>1, <2>2, <2>3, <2>5
  <2>7. walk[k - 1] = Nth(chain, k)
    BY <2>6
  <2>8. k \in Nat \ {0}
    BY <2>3, <2>5
  <2> QED BY <1>3, <2>3, <2>4, <2>5, <2>7, <2>8
<1>8. DOMAIN walk = 0 .. Cardinality(Memory)
  BY <1>1, <1>6
<1>9. ASSUME NEW n \in 0 .. Cardinality(Memory) PROVE Nth(chain, n + 1) \in Objects(chain) \cup {Null}
  BY <1>1, <1>9 DEF Nth, Objects
<1>10. ASSUME NEW i \in 1 .. Len(chain)
       PROVE  \E n \in 0 .. Cardinality(Memory) : Nth(chain, n + 1) = chain[i]
  <2>1. i - 1 \in 0 .. Cardinality(Memory) /\ (i - 1) + 1 = i /\ i <= Len(chain)
    BY <1>1
  <2> QED BY <2>1 DEF Nth
<1>11. \E n \in 0 .. Cardinality(Memory) : Nth(chain, n + 1) = Null
  <2>1. Len(chain) \in 0 .. Cardinality(Memory) /\ ~(Len(chain) + 1 <= Len(chain))
    BY <1>1
  <2> QED BY <2>1 DEF Nth
<1>12. X!Linked(start) = {Nth(chain, n + 1) : n \in 0 .. Cardinality(Memory)}
  BY <1>4, <1>7, <1>8
<1> QED BY <1>9, <1>10, <1>11, <1>12 DEF Objects

\* At first nothing is freed.
LEMMA FreesInit == MCInit => FreesInv
<1> SUFFICES ASSUME X!Init PROVE FreesInv
  BY DEF MCInit
<1>1. X!TypeOK /\ \A c \in Core : freeing[c] = X!Idle
  BY DEF X!Init, X!TypeOK, X!Idle
<1>2. Pushed = {} /\ Listed = {}
  BY <1>1 DEF X!Init, Pushed, Listed
<1>3. << >> \in Seq(Memory) /\ Objects(<< >>) = {}
  BY DEF Objects
<1>4. LinkedChain(<< >>, Null, link)
  BY DEF LinkedChain, Nth
<1>5. Placed(<< >>, << >>)
  BY <1>2, <1>3, <1>4 DEF Placed, X!Init
<1> QED BY <1>1, <1>3, <1>5 DEF FreesInv

\* It is what the run checks.
LEMMA FreesOnce == FreesInv => FreedOnce
<1> SUFFICES ASSUME FreesInv PROVE FreedOnce
  OBVIOUS
<1>1. PICK shared \in Seq(Memory), private \in Seq(Memory) : Placed(shared, private)
  BY DEF FreesInv
<1>2. /\ X!Linked(xcpu_freelist) = Objects(shared) \cup {Null}
      /\ X!Linked(drained) = Objects(private) \cup {Null}
  BY <1>1, LinkedIsChain DEF Placed
<1>3. /\ Objects(shared) \cap Objects(private) = {}
      /\ Pushed \cap (Objects(shared) \cup Objects(private)) = {}
      /\ Objects(shared) \cup Objects(private) \cup Pushed = Listed
  BY <1>1 DEF Placed
<1>4. Null \notin Listed
  BY OneCoreAssumption DEF Listed
<1>5. /\ X!Linked(xcpu_freelist) \cup X!Linked(drained) \cup Pushed = Listed \cup {Null}
      /\ X!Linked(xcpu_freelist) \cap X!Linked(drained) = {Null}
      /\ Pushed \cap (X!Linked(xcpu_freelist) \cup X!Linked(drained)) = {}
  BY <1>2, <1>3, <1>4
<1>6. /\ X!TypeOK
      /\ \A c, d \in Core : freeing[c] # X!Idle /\ freeing[c].p = freeing[d].p => c = d
  BY DEF FreesInv
<1>7. X!FreedOnce
  BY <1>5, <1>6 DEF X!FreedOnce, Pushed, Listed
<1> QED BY <1>6, <1>7 DEF FreedOnce

\* Whatever cores free objects at the same time as their core drains, frees
\* and allocates them again, each is in one place until it is free, and both
\* lists end.
THEOREM FreedJustOnce == MCSpec => []FreedOnce
<1>1. FreesInv /\ [MCNext]_MCVars => FreesInv'
  BY OwnSteps, FreesStep
<1> QED BY FreesInit, FreesOnce, <1>1, PTL DEF MCSpec

-----------------------------------------------------------------------------
(* The owners of actions.  Every reference to an impl is a pointer to it:  *)
(* the proof counts pointers, and follows where they lead.                 *)

\* How often a pointer occurs: in a deleter, as what an impl owns, as its
\* next, and in line for destruction.
HeldBy(hd, p) == {h \in Holder : hd[h] = p}
OwnedBy(im, p) == {n \in Impl : im[n].own = p}
Before(im, p) == {n \in Impl : im[n].next = p}
InLine(dr, p) == {i \in DOMAIN dr : dr[i] = p}
Points(hd, im, dr, p) == Cardinality(HeldBy(hd, p)) + Cardinality(OwnedBy(im, p))
                         + Cardinality(Before(im, p)) + Cardinality(InLine(dr, p))
One(b) == IF b THEN 1 ELSE 0

\* The count of the model is this one.
LEMMA DeleterSizes == \A S : D!Cardinality(S) = Cardinality(S)
  BY DEF D!Cardinality, Cardinality

LEMMA Pointed == \A p : D!PointersTo(p) = Points(holder, impl, dropping, p)
  BY DeleterSizes DEF D!PointersTo, Points, HeldBy, OwnedBy, Before, InLine

\* A set that differs from another in one element.
LEMMA OneElement ==
    ASSUME NEW K, NEW Q, NEW x, IsFiniteSet(K), \A y : y # x => (y \in K <=> y \in Q)
    PROVE  /\ IsFiniteSet(Q) /\ Cardinality(K) \in Nat /\ Cardinality(Q) \in Nat
           /\ Cardinality(Q) = Cardinality(K) - One(x \in K) + One(x \in Q)
<1>1. PICK R : R = K \ {x}
  OBVIOUS
<1>2. IsFiniteSet(R) /\ Cardinality(R) = Cardinality(K) - One(x \in K)
  <2>1. /\ IsFiniteSet(R)
        /\ Cardinality(R) = IF x \in K THEN Cardinality(K) - 1 ELSE Cardinality(K)
    BY <1>1, FS_RemoveElement
  <2>2. Cardinality(K) \in Nat
    BY FS_CardinalityType
  <2> QED BY <2>1, <2>2 DEF One
<1>3. Q = R \/ Q = R \cup {x}
  BY <1>1
<1>4. x \notin R /\ (x \in Q <=> Q = R \cup {x})
  BY <1>1, <1>3
<1>5. IsFiniteSet(Q) /\ Cardinality(Q) = Cardinality(R) + One(x \in Q)
  <2>1. IsFiniteSet(R \cup {x}) /\ Cardinality(R \cup {x}) = Cardinality(R) + 1
    BY <1>2, <1>4, FS_AddElement
  <2>2. Cardinality(R) \in Nat
    BY <1>2, FS_CardinalityType
  <2>3. CASE x \in Q
    BY <1>4, <2>1, <2>3 DEF One
  <2>4. CASE x \notin Q
    BY <1>2, <1>3, <1>4, <2>2, <2>4 DEF One
  <2> QED BY <2>3, <2>4
<1>6. Cardinality(K) \in Nat /\ Cardinality(Q) \in Nat
  BY <1>5, FS_CardinalityType
<1> QED BY <1>2, <1>5, <1>6

\* Each part of the count is a natural number.
LEMMA Parts ==
    ASSUME NEW hd, NEW im, NEW dr, dr \in Seq(D!Pointer), NEW p
    PROVE  /\ IsFiniteSet(HeldBy(hd, p)) /\ IsFiniteSet(OwnedBy(im, p))
           /\ IsFiniteSet(Before(im, p)) /\ IsFiniteSet(InLine(dr, p))
           /\ Cardinality(HeldBy(hd, p)) \in Nat /\ Cardinality(OwnedBy(im, p)) \in Nat
           /\ Cardinality(Before(im, p)) \in Nat /\ Cardinality(InLine(dr, p)) \in Nat
           /\ Points(hd, im, dr, p) \in Nat
<1>1. IsFiniteSet(Holder) /\ IsFiniteSet(Impl)
  BY DeleterAssumption
<1>2. IsFiniteSet(DOMAIN dr)
  <2>1. DOMAIN dr = 1 .. Len(dr) /\ Len(dr) \in Nat
    OBVIOUS
  <2> QED BY <2>1, FS_Interval
<1>3. /\ HeldBy(hd, p) \in SUBSET Holder /\ OwnedBy(im, p) \in SUBSET Impl
      /\ Before(im, p) \in SUBSET Impl /\ InLine(dr, p) \in SUBSET (DOMAIN dr)
  BY DEF HeldBy, OwnedBy, Before, InLine
<1>4. /\ IsFiniteSet(HeldBy(hd, p)) /\ IsFiniteSet(OwnedBy(im, p))
      /\ IsFiniteSet(Before(im, p)) /\ IsFiniteSet(InLine(dr, p))
  BY <1>1, <1>2, <1>3, FS_Subset
<1>5. /\ Cardinality(HeldBy(hd, p)) \in Nat /\ Cardinality(OwnedBy(im, p)) \in Nat
      /\ Cardinality(Before(im, p)) \in Nat /\ Cardinality(InLine(dr, p)) \in Nat
  BY <1>4, FS_CardinalityType
<1> QED BY <1>4, <1>5 DEF Points

\* A deleter is given another pointer.
Changes(f, g, S, x, v) == x \in S /\ DOMAIN f = S /\ g = [f EXCEPT ![x] = v]
LEMMA HolderSet ==
    ASSUME NEW hd, NEW im, NEW dr, dr \in Seq(D!Pointer), NEW p,
           NEW hd2, NEW h, NEW v, Changes(hd, hd2, Holder, h, v)
    PROVE  Points(hd2, im, dr, p)
              = Points(hd, im, dr, p) - One(hd[h] = p) + One(v = p)
<1>1. PICK K, Q : K = HeldBy(hd, p) /\ Q = HeldBy(hd2, p)
  OBVIOUS
<1>2. (h \in K <=> hd[h] = p) /\ (h \in Q <=> v = p) /\ \A g : g # h => (g \in K <=> g \in Q)
  BY <1>1 DEF HeldBy, Changes
<1>3. /\ IsFiniteSet(K) /\ Cardinality(K) \in Nat /\ Cardinality(Q) \in Nat
      /\ Cardinality(Q) = Cardinality(K) - One(h \in K) + One(h \in Q)
  <2>1. IsFiniteSet(K)
    BY <1>1, Parts
  <2>2. \A y : y # h => (y \in K <=> y \in Q)
    BY <1>2
  <2> QED BY <2>1, <2>2, OneElement
<1>4. /\ Cardinality(Q) = Cardinality(K) - One(hd[h] = p) + One(v = p)
      /\ One(hd[h] = p) \in Nat /\ One(v = p) \in Nat
  BY <1>2, <1>3 DEF One
<1>5. PICK a, b, c : a = Cardinality(OwnedBy(im, p)) /\ b = Cardinality(Before(im, p)) /\ c = Cardinality(InLine(dr, p))
  OBVIOUS
<1>6. a \in Nat /\ b \in Nat /\ c \in Nat
  BY <1>5, Parts
<1>7. /\ Points(hd, im, dr, p) = Cardinality(K) + a + b + c
      /\ Points(hd2, im, dr, p) = Cardinality(Q) + a + b + c
  BY <1>1, <1>5 DEF Points
<1> QED BY <1>3, <1>4, <1>6, <1>7, SMTT(40)

\* An impl is replaced by another.
LEMMA ImplSet ==
    ASSUME NEW hd, NEW im, NEW dr, dr \in Seq(D!Pointer), NEW p,
           NEW im2, NEW n, NEW r, Changes(im, im2, Impl, n, r)
    PROVE  Points(hd, im2, dr, p)
              = Points(hd, im, dr, p) - One(im[n].own = p) - One(im[n].next = p)
                                      + One(r.own = p) + One(r.next = p)
<1>1. PICK K, Q : K = OwnedBy(im, p) /\ Q = OwnedBy(im2, p)
  OBVIOUS
<1>2. PICK S, T : S = Before(im, p) /\ T = Before(im2, p)
  OBVIOUS
<1>3. /\ (n \in K <=> im[n].own = p) /\ (n \in Q <=> r.own = p)
      /\ \A m : m # n => (m \in K <=> m \in Q)
  BY <1>1 DEF OwnedBy, Changes
<1>4. /\ (n \in S <=> im[n].next = p) /\ (n \in T <=> r.next = p)
      /\ \A m : m # n => (m \in S <=> m \in T)
  BY <1>2 DEF Before, Changes
<1>5. /\ Cardinality(K) \in Nat /\ Cardinality(Q) \in Nat
      /\ Cardinality(Q) = Cardinality(K) - One(n \in K) + One(n \in Q)
  <2>1. IsFiniteSet(K)
    BY <1>1, Parts
  <2>2. \A y : y # n => (y \in K <=> y \in Q)
    BY <1>3
  <2> QED BY <2>1, <2>2, OneElement
<1>6. /\ Cardinality(S) \in Nat /\ Cardinality(T) \in Nat
      /\ Cardinality(T) = Cardinality(S) - One(n \in S) + One(n \in T)
  <2>1. IsFiniteSet(S)
    BY <1>2, Parts
  <2>2. \A y : y # n => (y \in S <=> y \in T)
    BY <1>4
  <2> QED BY <2>1, <2>2, OneElement
<1>7. PICK a, b : a = Cardinality(HeldBy(hd, p)) /\ b = Cardinality(InLine(dr, p))
  OBVIOUS
<1>8. a \in Nat /\ b \in Nat
  BY <1>7, Parts
<1>9. /\ Points(hd, im, dr, p) = a + Cardinality(K) + Cardinality(S) + b
      /\ Points(hd, im2, dr, p) = a + Cardinality(Q) + Cardinality(T) + b
  BY <1>1, <1>2, <1>7 DEF Points
<1>10. /\ Cardinality(Q) = Cardinality(K) - One(im[n].own = p) + One(r.own = p)
       /\ One(im[n].own = p) \in Nat /\ One(r.own = p) \in Nat
  BY <1>3, <1>5 DEF One
<1>11. /\ Cardinality(T) = Cardinality(S) - One(im[n].next = p) + One(r.next = p)
       /\ One(im[n].next = p) \in Nat /\ One(r.next = p) \in Nat
  BY <1>4, <1>6 DEF One
<1>12. PICK i, j, k, l : /\ i = One(im[n].own = p) /\ j = One(im[n].next = p)
                         /\ k = One(r.own = p) /\ l = One(r.next = p)
  OBVIOUS
<1>13. PICK A, B, C, E : /\ A = Cardinality(K) /\ B = Cardinality(Q)
                         /\ C = Cardinality(S) /\ E = Cardinality(T)
  OBVIOUS
<1>14. /\ A \in Nat /\ B \in Nat /\ C \in Nat /\ E \in Nat
       /\ i \in Nat /\ j \in Nat /\ k \in Nat /\ l \in Nat
       /\ B = A - i + k /\ E = C - j + l
  BY <1>5, <1>6, <1>10, <1>11, <1>12, <1>13
<1>15. a + B + E + b = (a + A + C + b) - i - j + k + l
  BY <1>8, <1>14
<1>16. PICK x, y : x = Points(hd, im, dr, p) /\ y = Points(hd, im2, dr, p)
  OBVIOUS
<1>17. x = a + A + C + b /\ y = a + B + E + b
  BY <1>9, <1>13, <1>16, Zenon
<1>18. y = x - i - j + k + l
  BY <1>15, <1>17
<1> QED BY <1>12, <1>16, <1>18, Zenon

\* A pointer is put in line, or the first one taken.
LEMMA LineGrows ==
    ASSUME NEW hd, NEW im, NEW dr, dr \in Seq(D!Pointer), NEW p, NEW a \in D!Pointer
    PROVE  Points(hd, im, <<a>> \o dr, p) = Points(hd, im, dr, p) + One(a = p)
<1>1. PICK s : s = <<a>> \o dr
  OBVIOUS
<1>2. /\ s \in Seq(D!Pointer) /\ Len(s) = Len(dr) + 1 /\ Len(dr) \in Nat
      /\ s[1] = a /\ \A i \in 1 .. Len(dr) : s[i + 1] = dr[i]
  BY <1>1
<1>3. PICK K, Q : K = InLine(dr, p) /\ Q = InLine(s, p) \ {1}
  OBVIOUS
<1>4. IsFiniteSet(K) /\ IsFiniteSet(InLine(s, p))
  BY <1>2, <1>3, Parts
<1>5. K = {i \in 1 .. Len(dr) : dr[i] = p} /\ InLine(s, p) = {i \in 1 .. Len(dr) + 1 : s[i] = p}
  BY <1>2, <1>3 DEF InLine
<1>6. Cardinality(Q) = Cardinality(K)
  <2>1. PICK f : f = [i \in K |-> i + 1]
    OBVIOUS
  <2>2. f \in [K -> Q] /\ \A i, j \in K : f[i] = f[j] => i = j
    BY <1>2, <1>3, <1>5, <2>1
  <2>3. \A j \in Q : \E i \in K : f[i] = j
    <3>1. TAKE j \in Q
    <3>2. j \in 1 .. Len(dr) + 1 /\ s[j] = p /\ j # 1
      BY <1>3, <1>5
    <3>3. j - 1 \in 1 .. Len(dr) /\ (j - 1) + 1 = j
      BY <1>2, <3>2
    <3>4. j - 1 \in K
      BY <1>2, <1>5, <3>2, <3>3
    <3> QED BY <2>1, <3>3, <3>4
  <2>4. f \in Bijection(K, Q)
    BY <2>2, <2>3 DEF Bijection, Injection, Surjection, IsInjective
  <2> QED BY <1>4, <2>4, FS_Bijection DEF ExistsBijection
<1>7. /\ Cardinality(InLine(s, p)) \in Nat
      /\ Cardinality(InLine(s, p)) = Cardinality(K) + One(a = p)
  <2>1. 1 \in InLine(s, p) <=> a = p
    BY <1>2, <1>5
  <2>2. /\ Cardinality(Q) = IF 1 \in InLine(s, p) THEN Cardinality(InLine(s, p)) - 1
                            ELSE Cardinality(InLine(s, p))
        /\ Cardinality(InLine(s, p)) \in Nat
    BY <1>3, <1>4, FS_RemoveElement, FS_CardinalityType
  <2> QED BY <1>6, <2>1, <2>2 DEF One
<1>8. PICK x, y, z : x = Cardinality(HeldBy(hd, p)) /\ y = Cardinality(OwnedBy(im, p)) /\ z = Cardinality(Before(im, p))
  OBVIOUS
<1>9. x \in Nat /\ y \in Nat /\ z \in Nat /\ Cardinality(K) \in Nat
  BY <1>3, <1>8, Parts
<1>10. /\ Points(hd, im, dr, p) = x + y + z + Cardinality(K)
       /\ Points(hd, im, s, p) = x + y + z + Cardinality(InLine(s, p))
  BY <1>3, <1>8 DEF Points
<1> QED BY <1>1, <1>7, <1>9, <1>10 DEF One

\* What an impl points to.
Targets(im, n) == {im[n].own, im[n].next}

\* No impl leads back to itself: in every set of impls there is one that none
\* of them points to and one that points to none of them.
NoCycle(im) ==
    \A A \in SUBSET Impl : A # {} =>
        /\ \E n \in A : \A m \in A : n \notin Targets(im, m)
        /\ \E n \in A : \A m \in A : m \notin Targets(im, n)

\* C holds all that can be reached from p.
Leads(im, S) == \A n \in S \cap Impl : Targets(im, n) \subseteq S \cup {Null}
Within(im, p, S, C) == p \in S /\ S \cap Resource \subseteq C /\ Leads(im, S)
Reaches(im, p, C) == \E S \in SUBSET D!Pointer : Within(im, p, S, C)

\* The inductive invariant of the deleters.
Counted(hd, im, dr) == \A n \in Impl : im[n].refs = Points(hd, im, dr, n)
AtMostOnce(hd, im, dr, rel) == \A r \in Resource : rel[r] + Points(hd, im, dr, r) <= 1
Unreferenced(im) == \A n \in Impl : im[n].refs = 0 => im[n] = D!Free
Complete(hd, im, cov) == \A h \in Holder : Reaches(im, hd[h], cov[h])

DelInv == /\ D!TypeOK
          /\ Counted(holder, impl, dropping)
          /\ AtMostOnce(holder, impl, dropping, released)
          /\ Unreferenced(impl) /\ NoCycle(impl)
          /\ Complete(holder, impl, covers)

\* A pointer that is counted is somewhere.
Occurs(hd, im, dr, p) == \/ \E h \in Holder : hd[h] = p
                         \/ \E n \in Impl : p \in Targets(im, n)
                         \/ \E i \in DOMAIN dr : dr[i] = p
LEMMA Somewhere ==
    ASSUME NEW hd, NEW im, NEW dr, dr \in Seq(D!Pointer), NEW p
    PROVE  Points(hd, im, dr, p) # 0 <=> Occurs(hd, im, dr, p)
<1>1. PICK a, b, c, d : /\ a = HeldBy(hd, p) /\ b = OwnedBy(im, p)
                        /\ c = Before(im, p) /\ d = InLine(dr, p)
  OBVIOUS
<1>2. /\ IsFiniteSet(a) /\ IsFiniteSet(b) /\ IsFiniteSet(c) /\ IsFiniteSet(d)
      /\ Cardinality(a) \in Nat /\ Cardinality(b) \in Nat
      /\ Cardinality(c) \in Nat /\ Cardinality(d) \in Nat
  BY <1>1, Parts
<1>3. /\ Cardinality(a) = 0 <=> a = {}
      /\ Cardinality(b) = 0 <=> b = {}
      /\ Cardinality(c) = 0 <=> c = {}
      /\ Cardinality(d) = 0 <=> d = {}
  BY <1>2, FS_EmptySet
<1>4. Points(hd, im, dr, p) = Cardinality(a) + Cardinality(b) + Cardinality(c) + Cardinality(d)
  BY <1>1, Zenon DEF Points
<1>5. Points(hd, im, dr, p) # 0 <=> a # {} \/ b # {} \/ c # {} \/ d # {}
  <2>1. PICK w, x, y, z : /\ w = Cardinality(a) /\ x = Cardinality(b)
                          /\ y = Cardinality(c) /\ z = Cardinality(d)
    OBVIOUS
  <2>2. w \in Nat /\ x \in Nat /\ y \in Nat /\ z \in Nat
    BY <1>2, <2>1
  <2>3. w + x + y + z # 0 <=> w # 0 \/ x # 0 \/ y # 0 \/ z # 0
    BY <2>2
  <2> QED BY <1>3, <1>4, <2>1, <2>3, Zenon
<1>6. /\ a # {} <=> \E h \in Holder : hd[h] = p
      /\ b # {} \/ c # {} <=> \E n \in Impl : p \in Targets(im, n)
      /\ d # {} <=> \E i \in DOMAIN dr : dr[i] = p
  <2>1. a = {h \in Holder : hd[h] = p} /\ d = {i \in DOMAIN dr : dr[i] = p}
    BY <1>1, Zenon DEF HeldBy, InLine
  <2>2. b = {n \in Impl : im[n].own = p} /\ c = {n \in Impl : im[n].next = p}
    BY <1>1, Zenon DEF OwnedBy, Before
  <2>3. b # {} \/ c # {} <=> \E n \in Impl : p \in Targets(im, n)
    BY <2>2, Zenon DEF Targets
  <2> QED BY <2>1, <2>3, Zenon
<1> QED BY <1>5, <1>6, Zenon DEF Occurs

\* Between destructions, an action that can still be carried out is one that
\* some deleter stands for: what is counted but not reached from any deleter
\* would be a cycle.
LEMMA StoodFor ==
    ASSUME DelInv, D!UserCode, NEW r \in Resource, Points(holder, impl, dropping, r) # 0
    PROVE  \E h \in Holder : r \in covers[h]
<1>1. PICK W : W = [h \in Holder |-> CHOOSE S \in SUBSET D!Pointer : Within(impl, holder[h], S, covers[h])]
  OBVIOUS
<1>2. \A h \in Holder : Within(impl, holder[h], W[h], covers[h])
  BY <1>1, Zenon DEF DelInv, Complete, Reaches
<1>3. PICK U : U = UNION {W[h] : h \in Holder}
  OBVIOUS
<1>4. \A h \in Holder : holder[h] \in U
  BY <1>2, <1>3, Zenon DEF Within
<1>5. \A n \in U \cap Impl : Targets(impl, n) \subseteq U \cup {Null}
  BY <1>2, <1>3, Zenon DEF Within, Leads
<1>6. PICK A : A = {n \in Impl \ U : impl[n].refs # 0}
  OBVIOUS
<1>7. \A n \in Impl : \A p : p # Null /\ p \in Targets(impl, n) => n \in U \/ n \in A
  <2>1. \A n \in Impl : impl[n].refs = 0 => Targets(impl, n) = {Null}
    BY DEF DelInv, Unreferenced, Targets, D!Free
  <2> QED BY <1>6, <2>1
<1>8. Null \notin Impl /\ Null \notin Resource /\ dropping \in Seq(D!Pointer)
  BY DeleterAssumption DEF DelInv, D!TypeOK
<1>9. A = {}
  <2>1. SUFFICES ASSUME A # {} PROVE FALSE
    OBVIOUS
  <2>2. A \in SUBSET Impl
    BY <1>6
  <2>3. PICK n \in A : \A m \in A : n \notin Targets(impl, m)
    BY <2>1, <2>2, Zenon DEF DelInv, NoCycle
  <2>4. n \in Impl /\ n \notin U /\ Points(holder, impl, dropping, n) # 0
    BY <1>6, <2>3 DEF DelInv, Counted
  <2>5. \/ \E h \in Holder : holder[h] = n
        \/ \E m \in Impl : n \in Targets(impl, m)
        \/ \E i \in DOMAIN dropping : dropping[i] = n
    <3>1. Occurs(holder, impl, dropping, n)
      BY <1>8, <2>4, Somewhere
    <3> QED BY <3>1, Zenon DEF Occurs
  <2>6. DOMAIN dropping = {}
    BY DEF D!UserCode
  <2> QED BY <1>4, <1>5, <1>7, <1>8, <2>3, <2>4, <2>5, <2>6
<1>10. r \in U
  <2>1. \/ \E h \in Holder : holder[h] = r
        \/ \E m \in Impl : r \in Targets(impl, m)
        \/ \E i \in DOMAIN dropping : dropping[i] = r
    <3>1. Occurs(holder, impl, dropping, r)
      BY <1>8, Somewhere
    <3> QED BY <3>1, Zenon DEF Occurs
  <2>2. DOMAIN dropping = {}
    BY DEF D!UserCode
  <2> QED BY <1>4, <1>5, <1>7, <1>8, <1>9, <2>1, <2>2
<1> QED BY <1>2, <1>3, <1>10, Zenon DEF Within

\* A step that leads nowhere new; one that gives an address to a new impl.
Fewer(im, jm) == \A m \in Impl : Targets(jm, m) \subseteq Targets(im, m) \cup {Null}
OneNew(im, jm, n) == /\ \A m \in Impl : n \notin Targets(im, m)
                     /\ \A m \in Impl \ {n} : Targets(jm, m) \subseteq Targets(im, m) \cup {Null}
                     /\ n \notin Targets(jm, n)

\* A step that leads nowhere new closes no cycle.
LEMMA NoCycleFewer ==
    ASSUME NEW im, NEW jm, NoCycle(im), Fewer(im, jm)
    PROVE  NoCycle(jm)
<1> SUFFICES ASSUME NEW A \in SUBSET Impl, A # {}
             PROVE  /\ \E n \in A : \A m \in A : n \notin Targets(jm, m)
                    /\ \E n \in A : \A m \in A : m \notin Targets(jm, n)
  BY DEF NoCycle
<1>1. \A n, m \in A : n \in Targets(jm, m) => n \in Targets(im, m)
  BY DeleterAssumption DEF Fewer
<1> QED BY <1>1, ZenonT(60) DEF NoCycle

\* Nor does a new impl, to which nothing points yet.
LEMMA NoCycleNew ==
    ASSUME NEW im, NEW jm, NEW n \in Impl, NoCycle(im), OneNew(im, jm, n)
    PROVE  NoCycle(jm)
<1> SUFFICES ASSUME NEW A \in SUBSET Impl, A # {}
             PROVE  /\ \E k \in A : \A m \in A : k \notin Targets(jm, m)
                    /\ \E k \in A : \A m \in A : m \notin Targets(jm, k)
  BY DEF NoCycle
<1>1. \A k \in A : \A m \in A \ {n} : k \in Targets(jm, m) => k \in Targets(im, m)
  BY DeleterAssumption DEF OneNew
<1>2. \A m \in A : n \notin Targets(jm, m)
  BY DeleterAssumption DEF OneNew
<1>3. \E k \in A : \A m \in A : k \notin Targets(jm, m)
  <2>1. CASE n \in A
    BY <1>2, <2>1
  <2>2. CASE n \notin A
    <3>1. PICK k \in A : \A m \in A : k \notin Targets(im, m)
      BY Zenon DEF NoCycle
    <3> QED BY <1>1, <2>2, <3>1
  <2> QED BY <2>1, <2>2
<1>4. \E k \in A : \A m \in A : m \notin Targets(jm, k)
  <2>1. CASE A \ {n} = {}
    <3>1. A = {n}
      BY <2>1
    <3> QED BY <1>2, <3>1
  <2>2. CASE A \ {n} # {}
    <3>1. A \ {n} \in SUBSET Impl
      OBVIOUS
    <3>2. PICK k \in A \ {n} : \A m \in A \ {n} : m \notin Targets(im, k)
      BY <2>2, <3>1, Zenon DEF NoCycle
    <3> QED BY <1>1, <1>2, <3>2
  <2> QED BY <2>1, <2>2
<1> QED BY <1>3, <1>4

\* What is reached stays reached only through what was.
LEMMA ReachesFewer ==
    ASSUME NEW im, NEW jm, NEW p, NEW C, Reaches(im, p, C), Fewer(im, jm)
    PROVE  Reaches(jm, p, C)
BY DEF Reaches, Within, Leads, Fewer

\* What does not lead to a new impl reaches what it did.
LEMMA ReachesOther ==
    ASSUME NEW im, NEW jm, NEW n \in Impl, NEW p, NEW C,
           Reaches(im, p, C), OneNew(im, jm, n), p # n
    PROVE  Reaches(jm, p, C)
<1>1. PICK S \in SUBSET D!Pointer : Within(im, p, S, C)
  BY DEF Reaches
<1>2. \A m \in (S \ {n}) \cap Impl : Targets(jm, m) \subseteq (S \ {n}) \cup {Null}
  <2>1. \A m \in S \cap Impl : m # n => Targets(jm, m) \subseteq S \cup {Null} /\ n \notin Targets(jm, m)
    BY <1>1, DeleterAssumption DEF Within, Leads, OneNew
  <2> QED BY <2>1
<1>3. Within(jm, p, S \ {n}, C)
  BY <1>1, <1>2 DEF Within, Leads
<1> QED BY <1>3 DEF Reaches

\* From a new impl one reaches what it owns and what its next reaches.
LEMMA ReachesNew ==
    ASSUME NEW jm, NEW n \in Impl, NEW q, NEW C, NEW E, E \subseteq Resource,
           Reaches(jm, q, C), Targets(jm, n) \subseteq {q, Null} \cup E
    PROVE  Reaches(jm, n, C \cup E)
<1>1. PICK S \in SUBSET D!Pointer : Within(jm, q, S, C)
  BY DEF Reaches
<1>2. PICK T : T = S \cup {n} \cup E
  OBVIOUS
<1>3. T \in SUBSET D!Pointer
  BY <1>2 DEF D!Pointer
<1>4. Within(jm, n, T, C \cup E)
  <2>1. n \notin Resource /\ E \cap Impl = {}
    BY DeleterAssumption
  <2>2. n \in T /\ T \cap Resource \subseteq C \cup E
    BY <1>1, <1>2, <2>1 DEF Within
  <2>3. \A m \in T \cap Impl : Targets(jm, m) \subseteq T \cup {Null}
    BY <1>1, <1>2, <2>1 DEF Within, Leads
  <2> QED BY <2>2, <2>3 DEF Within, Leads
<1> QED BY <1>3, <1>4 DEF Reaches

\* Nothing but Null is reached from Null, and only itself from an object.
LEMMA ReachesLeaf ==
    ASSUME NEW im, NEW p \in Resource \cup {Null}, NEW C, p \in C \cup {Null}
    PROVE  Reaches(im, p, C)
<1>1. {p} \in SUBSET D!Pointer /\ {p} \cap Impl = {}
  BY DeleterAssumption DEF D!Pointer
<1>2. Within(im, p, {p}, C)
  BY <1>1, DeleterAssumption DEF Within, Leads
<1> QED BY <1>1, <1>2 DEF Reaches

\* An address that is free occurs nowhere, and neither does a resource that no
\* deleter stands for.
LEMMA Fresh ==
    ASSUME DelInv, D!UserCode
    PROVE  /\ \A n \in D!Allocatable : /\ n \in Impl /\ impl[n] = D!Free
                                        /\ Points(holder, impl, dropping, n) = 0
                                        /\ ~Occurs(holder, impl, dropping, n)
           /\ \A r \in D!Unused : /\ r \in Resource /\ released[r] = 0
                                   /\ Points(holder, impl, dropping, r) = 0
<1>1. dropping \in Seq(D!Pointer)
  BY DEF DelInv, D!TypeOK
<1>2. ASSUME NEW n \in D!Allocatable
      PROVE  /\ n \in Impl /\ impl[n] = D!Free
             /\ Points(holder, impl, dropping, n) = 0
             /\ ~Occurs(holder, impl, dropping, n)
  <2>1. n \in Impl /\ impl[n] = D!Free /\ Points(holder, impl, dropping, n) = 0
    BY DEF D!Allocatable, DelInv, Unreferenced, Counted
  <2> QED BY <1>1, <2>1, Somewhere
<1>3. ASSUME NEW r \in D!Unused
      PROVE  r \in Resource /\ released[r] = 0 /\ Points(holder, impl, dropping, r) = 0
  <2>1. r \in Resource /\ released[r] = 0 /\ \A h \in Holder : r \notin covers[h]
    BY DEF D!Unused
  <2> QED BY <2>1, StoodFor
<1> QED BY <1>2, <1>3, Zenon

\* What the variables are; deleters and impls are functions of their address.
LEMMA DelTypes ==
    ASSUME DelInv
    PROVE  /\ holder \in [Holder -> D!Pointer] /\ DOMAIN holder = Holder
           /\ impl \in [Impl -> [refs : Nat, own : D!Pointer, next : D!Pointer]] /\ DOMAIN impl = Impl
           /\ dropping \in Seq(D!Pointer)
           /\ released \in [Resource -> Nat] /\ covers \in [Holder -> SUBSET Resource]
           /\ Null \notin Impl /\ Null \notin Resource /\ Impl \cap Resource = {}
BY DeleterAssumption DEF DelInv, D!TypeOK

\* No action that was carried out comes back, if at most a fresh one is added.
LEMMA OnceAdded ==
    ASSUME DelInv, NEW r, released' = released,
           r \in Resource => released[r] = 0 /\ Points(holder, impl, dropping, r) = 0,
           \A x : x # Null /\ x \in Resource => Points(holder, impl, dropping, x)'
               = IF r = x THEN Points(holder, impl, dropping, x) + 1 ELSE Points(holder, impl, dropping, x)
    PROVE  AtMostOnce(holder, impl, dropping, released)'
<1> SUFFICES ASSUME NEW x \in Resource
             PROVE  released[x]' + Points(holder, impl, dropping, x)' <= 1
  BY DEF AtMostOnce
<1>1. x # Null /\ released[x]' = released[x] /\ released[x] \in Nat
  BY DelTypes
<1>2. CASE x = r
  BY <1>1, <1>2
<1>3. CASE x # r
  <2>1. released[x] + Points(holder, impl, dropping, x) <= 1
    BY DEF DelInv, AtMostOnce
  <2>2. Points(holder, impl, dropping, x)' = Points(holder, impl, dropping, x)
    BY <1>1, <1>3
  <2> QED BY <1>1, <2>1, <2>2
<1> QED BY <1>2, <1>3

\* make_free_deleter.
LEMMA MakeFreeStep ==
    ASSUME DelInv, NEW h \in Holder, NEW r \in Resource, D!MakeFree(h, r)
    PROVE  DelInv'
<1>1. /\ D!UserCode /\ holder[h] = Null /\ r \in D!Unused
      /\ holder' = [holder EXCEPT ![h] = r] /\ covers' = [covers EXCEPT ![h] = {r}]
      /\ UNCHANGED <<impl, dropping, released>>
  BY DEF D!MakeFree, D!Empty
<1>2. released[r] = 0 /\ Points(holder, impl, dropping, r) = 0
  BY <1>1, Fresh
<1>3. \A p : Points(holder, impl, dropping, p)'
                = Points(holder, impl, dropping, p) - One(Null = p) + One(r = p)
  <2> TAKE p
  <2>1. dropping \in Seq(D!Pointer) /\ Changes(holder, holder', Holder, h, r)
    BY <1>1, DelTypes DEF Changes
  <2>2. Points(holder', impl, dropping, p)
           = Points(holder, impl, dropping, p) - One(holder[h] = p) + One(r = p)
    BY <2>1, HolderSet
  <2> QED BY <1>1, <2>2
<1>4. \A p : p # Null => Points(holder, impl, dropping, p) \in Nat /\ Points(holder, impl, dropping, p)'
                = IF r = p THEN Points(holder, impl, dropping, p) + 1 ELSE Points(holder, impl, dropping, p)
  <2> TAKE p
  <2>1. Points(holder, impl, dropping, p) \in Nat
    BY DelTypes, Parts
  <2> QED BY <1>3, <2>1 DEF One
<1>5. D!TypeOK'
  BY <1>1, DelTypes DEF D!TypeOK, D!Pointer
<1>6. Counted(holder, impl, dropping)'
  BY <1>1, <1>4, DelTypes DEF Counted, DelInv
<1>7. AtMostOnce(holder, impl, dropping, released)'
  BY <1>1, <1>2, <1>4, DelTypes, OnceAdded
<1>8. Unreferenced(impl)' /\ NoCycle(impl)'
  BY <1>1 DEF DelInv
<1>9. Complete(holder, impl, covers)'
  <2> SUFFICES ASSUME NEW g \in Holder PROVE Reaches(impl, holder[g], covers[g])'
    BY DEF Complete
  <2>1. CASE g = h
    <3>1. holder'[g] = r /\ covers'[g] = {r}
      BY <1>1, <2>1, DelTypes
    <3> QED BY <1>1, <3>1, ReachesLeaf
  <2>2. CASE g # h
    <3>1. holder'[g] = holder[g] /\ covers'[g] = covers[g]
      BY <1>1, <2>2, DelTypes
    <3> QED BY <1>1, <3>1 DEF DelInv, Complete
  <2> QED BY <2>1, <2>2
<1> QED BY <1>5, <1>6, <1>7, <1>8, <1>9 DEF DelInv

\* make_deleter.
LEMMA MakeStep ==
    ASSUME DelInv, NEW h \in Holder, NEW d \in Holder, NEW r \in Resource, D!Make(h, d, r)
    PROVE  DelInv'
<1>1. PICK n, q, e : /\ n = (CHOOSE x \in D!Allocatable : TRUE) /\ q = holder[d]
                     /\ e = [refs |-> 1, own |-> r, next |-> q]
  OBVIOUS
<1>2. PICK hd : hd = [holder EXCEPT ![d] = Null]
  OBVIOUS
<1>3. /\ D!UserCode /\ r \in D!Unused /\ n \in D!Allocatable
      /\ hd[h] = Null /\ hd[d] = Null
      /\ holder' = [hd EXCEPT ![h] = n] /\ impl' = [impl EXCEPT ![n] = e]
      /\ covers' = [covers EXCEPT ![d] = {}, ![h] = covers[d] \cup {r}]
      /\ UNCHANGED <<dropping, released>>
  BY <1>1, <1>2, DelTypes DEF D!Make, D!Empty
<1>4. /\ n \in Impl /\ impl[n] = D!Free
      /\ Points(holder, impl, dropping, n) = 0 /\ ~Occurs(holder, impl, dropping, n)
      /\ r \in Resource /\ released[r] = 0 /\ Points(holder, impl, dropping, r) = 0
  BY <1>3, Fresh
<1>5. ASSUME NEW p, p # Null
      PROVE  /\ Points(holder, impl, dropping, p) \in Nat
             /\ Points(holder, impl, dropping, p)'
                    = Points(holder, impl, dropping, p) + One(n = p) + One(r = p)
  <2>1. /\ Changes(holder, hd, Holder, d, Null) /\ Changes(hd, holder', Holder, h, n)
        /\ Changes(impl, impl', Impl, n, e) /\ dropping \in Seq(D!Pointer)
    BY <1>2, <1>3, <1>4, DelTypes DEF Changes
  <2>2. PICK a, b, c, f : /\ a = Points(holder, impl, dropping, p) /\ b = Points(hd, impl, dropping, p)
                          /\ c = Points(holder', impl, dropping, p)
                          /\ f = Points(holder', impl', dropping, p)
    OBVIOUS
  <2>3. /\ b = a - One(q = p) + One(Null = p)
        /\ c = b - One(Null = p) + One(n = p)
    <3>1. b = a - One(holder[d] = p) + One(Null = p)
      BY <2>1, <2>2, HolderSet
    <3>2. c = b - One(hd[h] = p) + One(n = p)
      BY <2>1, <2>2, HolderSet
    <3> QED BY <1>1, <1>3, <3>1, <3>2
  <2>4. f = c - One(impl[n].own = p) - One(impl[n].next = p) + One(e.own = p) + One(e.next = p)
    BY <2>1, <2>2, ImplSet
  <2>5. /\ One(Null = p) = 0 /\ One(impl[n].own = p) = 0 /\ One(impl[n].next = p) = 0
        /\ One(e.own = p) = One(r = p) /\ One(e.next = p) = One(q = p)
        /\ One(q = p) \in Nat /\ One(n = p) \in Nat /\ One(r = p) \in Nat
    BY <1>1, <1>4, <1>5 DEF One, D!Free
  <2>6. a \in Nat
    BY <2>1, <2>2, Parts
  <2>7. f = a + One(n = p) + One(r = p)
    BY <2>3, <2>4, <2>5, <2>6
  <2> QED BY <1>3, <2>2, <2>6, <2>7
<1>6. D!TypeOK'
  <2>1. q \in D!Pointer /\ r \in D!Pointer /\ n \in D!Pointer /\ Null \in D!Pointer
    BY <1>1, <1>4, DelTypes DEF D!Pointer
  <2>2. e \in [refs : Nat, own : D!Pointer, next : D!Pointer]
    BY <1>1, <2>1
  <2>3. holder' \in [Holder -> D!Pointer]
    BY <1>2, <1>3, <2>1, DelTypes
  <2>4. impl' \in [Impl -> [refs : Nat, own : D!Pointer, next : D!Pointer]]
    BY <1>3, <2>2, DelTypes
  <2>5. covers' \in [Holder -> SUBSET Resource]
    BY <1>3, DelTypes
  <2> QED BY <1>3, <2>3, <2>4, <2>5, DelTypes DEF D!TypeOK
<1>7. Counted(holder, impl, dropping)'
  <2> SUFFICES ASSUME NEW m \in Impl PROVE impl'[m].refs = Points(holder, impl, dropping, m)'
    BY DEF Counted
  <2>1. m # Null /\ m # r
    BY DelTypes
  <2>2. CASE m = n
    <3>1. impl'[m] = e
      BY <1>3, <2>2, DelTypes
    <3> QED BY <1>1, <1>4, <1>5, <2>1, <2>2, <3>1 DEF One
  <2>3. CASE m # n
    <3>1. impl'[m] = impl[m]
      BY <1>3, <2>3, DelTypes
    <3> QED BY <1>5, <2>1, <2>3, <3>1 DEF One, DelInv, Counted
  <2> QED BY <2>2, <2>3
<1>8. AtMostOnce(holder, impl, dropping, released)'
  <2>1. \A x : x # Null /\ x \in Resource => Points(holder, impl, dropping, x)'
               = IF r = x THEN Points(holder, impl, dropping, x) + 1 ELSE Points(holder, impl, dropping, x)
    <3> TAKE x
    <3> HAVE x # Null /\ x \in Resource
    <3>1. One(n = x) = 0
      BY <1>4, DelTypes DEF One
    <3> QED BY <1>5, <3>1 DEF One
  <2> QED BY <1>3, <1>4, <2>1, OnceAdded
<1>9. Unreferenced(impl)'
  BY <1>1, <1>3, DelTypes DEF Unreferenced, DelInv
<1>10. OneNew(impl, impl', n) /\ q # n /\ \A g \in Holder : holder[g] # n
  <2>1. \A m \in Impl : n \notin Targets(impl, m)
    BY <1>4, Zenon DEF Occurs
  <2>2. \A g \in Holder : holder[g] # n
    BY <1>4, Zenon DEF Occurs
  <2>3. Targets(impl', n) = {r, q} /\ \A m \in Impl \ {n} : Targets(impl', m) = Targets(impl, m)
    BY <1>1, <1>3, <1>4, DelTypes DEF Targets
  <2>4. n \notin {r, q}
    BY <1>1, <1>4, <2>2, DelTypes
  <2> QED BY <1>1, <2>1, <2>2, <2>3, <2>4 DEF OneNew
<1>11. NoCycle(impl)'
  BY <1>4, <1>10, NoCycleNew DEF DelInv
<1>12. Complete(holder, impl, covers)'
  <2> SUFFICES ASSUME NEW g \in Holder PROVE Reaches(impl', holder'[g], covers'[g])
    BY DEF Complete
  <2>1. \A x \in Holder : Reaches(impl', holder[x], covers[x])
    BY <1>4, <1>10, ReachesOther DEF DelInv, Complete
  <2>2. CASE g = h
    <3>1. holder'[g] = n /\ covers'[g] = covers[d] \cup {r}
      BY <1>2, <1>3, <2>2, DelTypes
    <3>2. Targets(impl', n) \subseteq {q, Null} \cup {r}
      BY <1>1, <1>3, <1>4, DelTypes DEF Targets
    <3>3. Reaches(impl', q, covers[d])
      BY <1>1, <2>1
    <3>4. {r} \subseteq Resource
      OBVIOUS
    <3>5. Reaches(impl', n, covers[d] \cup {r})
      BY <1>4, <3>2, <3>3, <3>4, ReachesNew
    <3> QED BY <3>1, <3>5
  <2>3. CASE g # h /\ g = d
    <3>1. holder'[g] = Null /\ covers'[g] = {}
      BY <1>2, <1>3, <2>3, DelTypes
    <3> QED BY <3>1, ReachesLeaf
  <2>4. CASE g # h /\ g # d
    <3>1. holder'[g] = holder[g] /\ covers'[g] = covers[g]
      BY <1>2, <1>3, <2>4, DelTypes
    <3> QED BY <2>1, <3>1
  <2> QED BY <2>2, <2>3, <2>4
<1> QED BY <1>6, <1>7, <1>8, <1>9, <1>11, <1>12 DEF DelInv

\* share() of a raw object, which gets an impl.
LEMMA ShareRaw ==
    ASSUME DelInv, NEW h \in Holder, NEW g \in Holder, D!Share(h, g), holder[h] \in Resource
    PROVE  DelInv'
<1>1. PICK n, q, e : /\ n = (CHOOSE x \in D!Allocatable : TRUE) /\ q = holder[h]
                     /\ e = [refs |-> 2, own |-> q, next |-> Null]
  OBVIOUS
<1>2. PICK hd : hd = [holder EXCEPT ![h] = n]
  OBVIOUS
<1>3. /\ D!UserCode /\ q \in Resource /\ n \in D!Allocatable
      /\ hd[g] = Null /\ h # g
      /\ holder' = [hd EXCEPT ![g] = n] /\ impl' = [impl EXCEPT ![n] = e]
      /\ covers' = [covers EXCEPT ![g] = covers[h]]
      /\ UNCHANGED <<dropping, released>>
  BY <1>1, <1>2, DelTypes DEF D!Share, D!Empty
<1>4. /\ n \in Impl /\ impl[n] = D!Free
      /\ Points(holder, impl, dropping, n) = 0 /\ ~Occurs(holder, impl, dropping, n)
  BY <1>3, Fresh
<1>5. ASSUME NEW p, p # Null
      PROVE  /\ Points(holder, impl, dropping, p) \in Nat
             /\ Points(holder, impl, dropping, p)'
                    = Points(holder, impl, dropping, p) + One(n = p) + One(n = p)
  <2>1. /\ Changes(holder, hd, Holder, h, n) /\ Changes(hd, holder', Holder, g, n)
        /\ Changes(impl, impl', Impl, n, e) /\ dropping \in Seq(D!Pointer)
    BY <1>2, <1>3, <1>4, DelTypes DEF Changes
  <2>2. PICK a, b, c, f : /\ a = Points(holder, impl, dropping, p) /\ b = Points(hd, impl, dropping, p)
                          /\ c = Points(holder', impl, dropping, p)
                          /\ f = Points(holder', impl', dropping, p)
    OBVIOUS
  <2>3. /\ b = a - One(q = p) + One(n = p)
        /\ c = b - One(Null = p) + One(n = p)
    <3>1. b = a - One(holder[h] = p) + One(n = p)
      BY <2>1, <2>2, HolderSet
    <3>2. c = b - One(hd[g] = p) + One(n = p)
      BY <2>1, <2>2, HolderSet
    <3> QED BY <1>1, <1>3, <3>1, <3>2
  <2>4. f = c - One(impl[n].own = p) - One(impl[n].next = p) + One(e.own = p) + One(e.next = p)
    BY <2>1, <2>2, ImplSet
  <2>5. /\ One(Null = p) = 0 /\ One(impl[n].own = p) = 0 /\ One(impl[n].next = p) = 0
        /\ One(e.own = p) = One(q = p) /\ One(e.next = p) = 0
        /\ One(q = p) \in Nat /\ One(n = p) \in Nat
    BY <1>1, <1>4, <1>5 DEF One, D!Free
  <2>6. a \in Nat
    BY <2>1, <2>2, Parts
  <2>7. f = a + One(n = p) + One(n = p)
    BY <2>3, <2>4, <2>5, <2>6
  <2> QED BY <1>3, <2>2, <2>6, <2>7
<1>6. D!TypeOK'
  <2>1. q \in D!Pointer /\ n \in D!Pointer /\ Null \in D!Pointer
    BY <1>1, <1>4, DelTypes DEF D!Pointer
  <2>2. e \in [refs : Nat, own : D!Pointer, next : D!Pointer]
    BY <1>1, <2>1
  <2>3. holder' \in [Holder -> D!Pointer]
    BY <1>2, <1>3, <2>1, DelTypes
  <2>4. impl' \in [Impl -> [refs : Nat, own : D!Pointer, next : D!Pointer]]
    BY <1>3, <2>2, DelTypes
  <2>5. covers' \in [Holder -> SUBSET Resource]
    BY <1>3, DelTypes
  <2> QED BY <1>3, <2>3, <2>4, <2>5, DelTypes DEF D!TypeOK
<1>7. Counted(holder, impl, dropping)'
  <2> SUFFICES ASSUME NEW m \in Impl PROVE impl'[m].refs = Points(holder, impl, dropping, m)'
    BY DEF Counted
  <2>1. m # Null
    BY DelTypes
  <2>2. CASE m = n
    <3>1. impl'[m] = e
      BY <1>3, <2>2, DelTypes
    <3> QED BY <1>1, <1>4, <1>5, <2>1, <2>2, <3>1 DEF One
  <2>3. CASE m # n
    <3>1. impl'[m] = impl[m]
      BY <1>3, <2>3, DelTypes
    <3> QED BY <1>5, <2>1, <2>3, <3>1 DEF One, DelInv, Counted
  <2> QED BY <2>2, <2>3
<1>8. AtMostOnce(holder, impl, dropping, released)'
  <2>1. \A x : x # Null /\ x \in Resource => Points(holder, impl, dropping, x)'
               = IF Null = x THEN Points(holder, impl, dropping, x) + 1 ELSE Points(holder, impl, dropping, x)
    <3> TAKE x
    <3> HAVE x # Null /\ x \in Resource
    <3>1. One(n = x) = 0
      BY <1>4, DelTypes DEF One
    <3> QED BY <1>5, <3>1
  <2> QED BY <1>3, <2>1, OnceAdded, DelTypes
<1>9. Unreferenced(impl)'
  BY <1>1, <1>3, DelTypes DEF Unreferenced, DelInv
<1>10. OneNew(impl, impl', n) /\ \A x \in Holder : holder[x] # n
  <2>1. \A m \in Impl : n \notin Targets(impl, m)
    BY <1>4, Zenon DEF Occurs
  <2>2. \A x \in Holder : holder[x] # n
    BY <1>4, Zenon DEF Occurs
  <2>3. Targets(impl', n) = {q, Null} /\ \A m \in Impl \ {n} : Targets(impl', m) = Targets(impl, m)
    BY <1>1, <1>3, <1>4, DelTypes DEF Targets
  <2>4. n \notin {q, Null}
    BY <1>3, <1>4, DelTypes
  <2> QED BY <1>1, <2>1, <2>2, <2>3, <2>4 DEF OneNew
<1>11. NoCycle(impl)'
  BY <1>4, <1>10, NoCycleNew DEF DelInv
<1>12. Complete(holder, impl, covers)'
  <2> SUFFICES ASSUME NEW x \in Holder PROVE Reaches(impl', holder'[x], covers'[x])
    BY DEF Complete
  <2>1. \A y \in Holder : Reaches(impl', holder[y], covers[y])
    BY <1>4, <1>10, ReachesOther DEF DelInv, Complete
  <2>2. CASE x \in {h, g}
    <3>1. holder'[x] = n /\ covers'[x] = covers[h]
      BY <1>2, <1>3, <2>2, DelTypes
    <3>2. Targets(impl', n) \subseteq {q, Null} \cup {}
      BY <1>1, <1>3, <1>4, DelTypes DEF Targets
    <3>3. Reaches(impl', q, covers[h])
      BY <1>1, <2>1
    <3>4. {} \subseteq Resource /\ covers[h] \cup {} = covers[h]
      OBVIOUS
    <3>5. Reaches(impl', n, covers[h] \cup {})
      BY <1>4, <3>2, <3>3, <3>4, ReachesNew
    <3> QED BY <3>1, <3>4, <3>5
  <2>3. CASE x \notin {h, g}
    <3>1. holder'[x] = holder[x] /\ covers'[x] = covers[x]
      BY <1>2, <1>3, <2>3, DelTypes
    <3> QED BY <2>1, <3>1
  <2> QED BY <2>2, <2>3
<1> QED BY <1>6, <1>7, <1>8, <1>9, <1>11, <1>12 DEF DelInv

\* share() of what has an impl: one more reference.
LEMMA ShareImpl ==
    ASSUME DelInv, NEW h \in Holder, NEW g \in Holder, D!Share(h, g), holder[h] \notin Resource
    PROVE  DelInv'
<1>1. PICK n : n = holder[h]
  OBVIOUS
<1>2. PICK e : e = [impl[n] EXCEPT !.refs = @ + 1]
  OBVIOUS
<1>3. /\ n \in Impl /\ holder[g] = Null /\ h # g
      /\ holder' = [holder EXCEPT ![g] = n] /\ impl' = [impl EXCEPT ![n] = e]
      /\ covers' = [covers EXCEPT ![g] = covers[h]]
      /\ UNCHANGED <<dropping, released>>
  <2>1. /\ n \in Impl /\ holder[g] = Null /\ h # g
        /\ holder' = [holder EXCEPT ![h] = n, ![g] = n]
        /\ impl' = [impl EXCEPT ![n] = [impl[n] EXCEPT !.refs = @ + 1]]
        /\ covers' = [covers EXCEPT ![g] = covers[h]]
        /\ UNCHANGED <<dropping, released>>
    BY <1>1, DelTypes DEF D!Share, D!Empty, D!Pointer
  <2>2. holder' = [holder EXCEPT ![g] = n]
    BY <1>1, <2>1, DelTypes
  <2> QED BY <1>2, <2>1, <2>2, DelTypes
<1>4. e.own = impl[n].own /\ e.next = impl[n].next /\ e.refs = impl[n].refs + 1 /\ impl[n].refs \in Nat
      /\ e \in [refs : Nat, own : D!Pointer, next : D!Pointer]
  <2>1. impl[n] \in [refs : Nat, own : D!Pointer, next : D!Pointer]
    BY <1>3, DelTypes
  <2> QED BY <1>2, <2>1
<1>5. ASSUME NEW p, p # Null
      PROVE  /\ Points(holder, impl, dropping, p) \in Nat
             /\ Points(holder, impl, dropping, p)'
                    = Points(holder, impl, dropping, p) + One(n = p)
  <2>1. /\ Changes(holder, holder', Holder, g, n)
        /\ Changes(impl, impl', Impl, n, e) /\ dropping \in Seq(D!Pointer)
    BY <1>3, DelTypes DEF Changes
  <2>2. PICK a, c, f : /\ a = Points(holder, impl, dropping, p)
                       /\ c = Points(holder', impl, dropping, p)
                       /\ f = Points(holder', impl', dropping, p)
    OBVIOUS
  <2>3. c = a - One(holder[g] = p) + One(n = p)
    BY <2>1, <2>2, HolderSet
  <2>4. f = c - One(impl[n].own = p) - One(impl[n].next = p) + One(e.own = p) + One(e.next = p)
    BY <2>1, <2>2, ImplSet
  <2>5. /\ One(holder[g] = p) = 0
        /\ One(e.own = p) = One(impl[n].own = p) /\ One(e.next = p) = One(impl[n].next = p)
        /\ One(e.own = p) \in Nat /\ One(e.next = p) \in Nat /\ One(n = p) \in Nat
    BY <1>3, <1>4, <1>5 DEF One
  <2>6. a \in Nat
    BY <2>1, <2>2, Parts
  <2>7. f = a + One(n = p)
    BY <2>3, <2>4, <2>5, <2>6
  <2> QED BY <1>3, <2>2, <2>6, <2>7
<1>6. D!TypeOK'
  <2>1. n \in D!Pointer
    BY <1>3 DEF D!Pointer
  <2>2. holder' \in [Holder -> D!Pointer]
    BY <1>3, <2>1, DelTypes
  <2>3. impl' \in [Impl -> [refs : Nat, own : D!Pointer, next : D!Pointer]]
    BY <1>3, <1>4, DelTypes
  <2>4. covers' \in [Holder -> SUBSET Resource]
    BY <1>3, DelTypes
  <2> QED BY <1>3, <2>2, <2>3, <2>4, DelTypes DEF D!TypeOK
<1>7. Counted(holder, impl, dropping)'
  <2> SUFFICES ASSUME NEW m \in Impl PROVE impl'[m].refs = Points(holder, impl, dropping, m)'
    BY DEF Counted
  <2>1. m # Null /\ impl[m].refs = Points(holder, impl, dropping, m)
    BY DelTypes DEF DelInv, Counted
  <2>2. CASE m = n
    <3>1. impl'[m] = e
      BY <1>3, <2>2, DelTypes
    <3> QED BY <1>4, <1>5, <2>1, <2>2, <3>1 DEF One
  <2>3. CASE m # n
    <3>1. impl'[m] = impl[m]
      BY <1>3, <2>3, DelTypes
    <3> QED BY <1>5, <2>1, <2>3, <3>1 DEF One
  <2> QED BY <2>2, <2>3
<1>8. AtMostOnce(holder, impl, dropping, released)'
  <2>1. \A x : x # Null /\ x \in Resource => Points(holder, impl, dropping, x)'
               = IF Null = x THEN Points(holder, impl, dropping, x) + 1 ELSE Points(holder, impl, dropping, x)
    <3> TAKE x
    <3> HAVE x # Null /\ x \in Resource
    <3>1. One(n = x) = 0
      BY <1>3, DelTypes DEF One
    <3> QED BY <1>5, <3>1
  <2> QED BY <1>3, <2>1, OnceAdded, DelTypes
<1>9. Unreferenced(impl)'
  <2> SUFFICES ASSUME NEW m \in Impl, impl'[m].refs = 0 PROVE impl'[m] = D!Free
    BY DEF Unreferenced
  <2>1. m # n
    <3>1. impl'[n].refs = impl[n].refs + 1
      BY <1>3, <1>4, DelTypes
    <3> QED BY <1>4, <3>1
  <2>2. impl'[m] = impl[m]
    BY <1>3, <2>1, DelTypes
  <2> QED BY <2>2 DEF DelInv, Unreferenced
<1>10. Fewer(impl, impl')
  <2>1. \A m \in Impl : impl'[m].own = impl[m].own /\ impl'[m].next = impl[m].next
    BY <1>3, <1>4, DelTypes
  <2> QED BY <2>1 DEF Fewer, Targets
<1>11. NoCycle(impl)'
  BY <1>10, NoCycleFewer DEF DelInv
<1>12. Complete(holder, impl, covers)'
  <2> SUFFICES ASSUME NEW x \in Holder PROVE Reaches(impl', holder'[x], covers'[x])
    BY DEF Complete
  <2>1. \A y \in Holder : Reaches(impl', holder[y], covers[y])
    BY <1>10, ReachesFewer DEF DelInv, Complete
  <2>2. CASE x = g
    <3>1. holder'[x] = holder[h] /\ covers'[x] = covers[h]
      BY <1>1, <1>3, <2>2, DelTypes
    <3> QED BY <2>1, <3>1
  <2>3. CASE x # g
    <3>1. holder'[x] = holder[x] /\ covers'[x] = covers[x]
      BY <1>3, <2>3, DelTypes
    <3> QED BY <2>1, <3>1
  <2> QED BY <2>2, <2>3
<1> QED BY <1>6, <1>7, <1>8, <1>9, <1>11, <1>12 DEF DelInv

\* ~deleter puts its pointer in line.
LEMMA DestroyStep ==
    ASSUME DelInv, NEW h \in Holder, D!Destroy(h)
    PROVE  DelInv'
<1>1. PICK q : q = holder[h]
  OBVIOUS
<1>2. /\ D!UserCode /\ dropping' = <<q>> /\ holder' = [holder EXCEPT ![h] = Null]
      /\ covers' = [covers EXCEPT ![h] = {}] /\ UNCHANGED <<impl, released>>
  BY <1>1 DEF D!Destroy
<1>3. q \in D!Pointer /\ dropping' = <<q>> \o dropping /\ dropping' \in Seq(D!Pointer)
  BY <1>1, <1>2, DelTypes DEF D!UserCode
<1>4. ASSUME NEW p, p # Null
      PROVE  Points(holder, impl, dropping, p)' = Points(holder, impl, dropping, p)
  <2>1. Changes(holder, holder', Holder, h, Null) /\ dropping \in Seq(D!Pointer)
    BY <1>2, DelTypes DEF Changes
  <2>2. PICK a, b, c : /\ a = Points(holder, impl, dropping, p)
                       /\ b = Points(holder', impl, dropping, p)
                       /\ c = Points(holder', impl, dropping', p)
    OBVIOUS
  <2>3. b = a - One(holder[h] = p) + One(Null = p)
    BY <2>1, <2>2, HolderSet
  <2>4. c = b + One(q = p)
    BY <1>3, <2>1, <2>2, LineGrows
  <2>5. One(Null = p) = 0 /\ One(holder[h] = p) = One(q = p) /\ One(q = p) \in Nat
    BY <1>1, <1>4 DEF One
  <2>6. a \in Nat
    BY <2>1, <2>2, Parts
  <2>7. c = a
    BY <2>3, <2>4, <2>5, <2>6
  <2> QED BY <1>2, <2>2, <2>7
<1>5. D!TypeOK'
  <2>1. Null \in D!Pointer
    BY DEF D!Pointer
  <2>2. holder' \in [Holder -> D!Pointer] /\ covers' \in [Holder -> SUBSET Resource]
    BY <1>2, <2>1, DelTypes
  <2> QED BY <1>2, <1>3, <2>2, DelTypes DEF D!TypeOK
<1>6. Counted(holder, impl, dropping)' /\ Unreferenced(impl)' /\ NoCycle(impl)'
  <2>1. Unreferenced(impl)' /\ NoCycle(impl)'
    BY <1>2 DEF DelInv
  <2> QED BY <1>2, <1>4, <2>1, DelTypes DEF Counted, DelInv
<1>7. AtMostOnce(holder, impl, dropping, released)'
  <2>1. \A x : x # Null /\ x \in Resource => Points(holder, impl, dropping, x)'
               = IF Null = x THEN Points(holder, impl, dropping, x) + 1 ELSE Points(holder, impl, dropping, x)
    BY <1>4
  <2> QED BY <1>2, <2>1, OnceAdded, DelTypes
<1>8. Complete(holder, impl, covers)'
  <2> SUFFICES ASSUME NEW x \in Holder PROVE Reaches(impl', holder'[x], covers'[x])
    BY DEF Complete
  <2>1. CASE x = h
    <3>1. holder'[x] = Null /\ covers'[x] = {}
      BY <1>2, <2>1, DelTypes
    <3> QED BY <3>1, ReachesLeaf
  <2>2. CASE x # h
    <3>1. holder'[x] = holder[x] /\ covers'[x] = covers[x] /\ impl' = impl
      BY <1>2, <2>2, DelTypes
    <3> QED BY <3>1 DEF DelInv, Complete
  <2> QED BY <2>1, <2>2
<1> QED BY <1>5, <1>6, <1>7, <1>8 DEF DelInv

\* operator= puts in line what was there.
LEMMA AssignStep ==
    ASSUME DelInv, NEW g \in Holder, NEW h \in Holder, D!Assign(g, h)
    PROVE  DelInv'
<1>1. PICK q, k : q = holder[g] /\ k = holder[h]
  OBVIOUS
<1>2. PICK hd : hd = [holder EXCEPT ![g] = k]
  OBVIOUS
<1>3. /\ D!UserCode /\ dropping' = <<q>> /\ g # h /\ hd[h] = k
      /\ holder' = [hd EXCEPT ![h] = Null]
      /\ covers' = [covers EXCEPT ![g] = covers[h], ![h] = {}] /\ UNCHANGED <<impl, released>>
  BY <1>1, <1>2, DelTypes DEF D!Assign
<1>4. /\ q \in D!Pointer /\ k \in D!Pointer
      /\ dropping' = <<q>> \o dropping /\ dropping' \in Seq(D!Pointer)
  BY <1>1, <1>3, DelTypes DEF D!UserCode
<1>5. ASSUME NEW p, p # Null
      PROVE  Points(holder, impl, dropping, p)' = Points(holder, impl, dropping, p)
  <2>1. /\ Changes(holder, hd, Holder, g, k) /\ Changes(hd, holder', Holder, h, Null)
        /\ dropping \in Seq(D!Pointer)
    BY <1>2, <1>3, DelTypes DEF Changes
  <2>2. PICK a, b, c, e : /\ a = Points(holder, impl, dropping, p)
                          /\ b = Points(hd, impl, dropping, p)
                          /\ c = Points(holder', impl, dropping, p)
                          /\ e = Points(holder', impl, dropping', p)
    OBVIOUS
  <2>3. b = a - One(holder[g] = p) + One(k = p)
    BY <2>1, <2>2, HolderSet
  <2>4. c = b - One(hd[h] = p) + One(Null = p)
    BY <2>1, <2>2, HolderSet
  <2>5. e = c + One(q = p)
    BY <1>4, <2>1, <2>2, LineGrows
  <2>6. /\ One(Null = p) = 0 /\ One(holder[g] = p) = One(q = p) /\ One(hd[h] = p) = One(k = p)
        /\ One(q = p) \in Nat /\ One(k = p) \in Nat
    BY <1>1, <1>3, <1>5 DEF One
  <2>7. a \in Nat
    BY <2>1, <2>2, Parts
  <2>8. e = a
    BY <2>3, <2>4, <2>5, <2>6, <2>7
  <2> QED BY <1>3, <2>2, <2>8
<1>6. D!TypeOK'
  <2>1. Null \in D!Pointer
    BY DEF D!Pointer
  <2>2. holder' \in [Holder -> D!Pointer] /\ covers' \in [Holder -> SUBSET Resource]
    BY <1>2, <1>3, <1>4, <2>1, DelTypes
  <2> QED BY <1>3, <1>4, <2>2, DelTypes DEF D!TypeOK
<1>7. Counted(holder, impl, dropping)' /\ Unreferenced(impl)' /\ NoCycle(impl)'
  <2>1. Unreferenced(impl)' /\ NoCycle(impl)'
    BY <1>3 DEF DelInv
  <2> QED BY <1>3, <1>5, <2>1, DelTypes DEF Counted, DelInv
<1>8. AtMostOnce(holder, impl, dropping, released)'
  <2>1. \A x : x # Null /\ x \in Resource => Points(holder, impl, dropping, x)'
               = IF Null = x THEN Points(holder, impl, dropping, x) + 1 ELSE Points(holder, impl, dropping, x)
    BY <1>5
  <2> QED BY <1>3, <2>1, OnceAdded, DelTypes
<1>9. Complete(holder, impl, covers)'
  <2> SUFFICES ASSUME NEW x \in Holder PROVE Reaches(impl', holder'[x], covers'[x])
    BY DEF Complete
  <2>1. \A y \in Holder : Reaches(impl', holder[y], covers[y])
    BY <1>3 DEF DelInv, Complete
  <2>2. CASE x = h
    <3>1. holder'[x] = Null /\ covers'[x] = {}
      BY <1>2, <1>3, <2>2, DelTypes
    <3> QED BY <3>1, ReachesLeaf
  <2>3. CASE x = g
    <3>1. holder'[x] = holder[h] /\ covers'[x] = covers[h]
      BY <1>1, <1>2, <1>3, <2>3, DelTypes
    <3> QED BY <2>1, <3>1
  <2>4. CASE x # g /\ x # h
    <3>1. holder'[x] = holder[x] /\ covers'[x] = covers[x]
      BY <1>2, <1>3, <2>4, DelTypes
    <3> QED BY <2>1, <3>1
  <2> QED BY <2>2, <2>3, <2>4
<1> QED BY <1>6, <1>7, <1>8, <1>9 DEF DelInv

\* The first pointer in line.
LEMMA FirstInLine ==
    ASSUME NEW dr, dr \in Seq(D!Pointer), dr # << >>, NEW p, p = Head(dr), NEW t, t = Tail(dr)
    PROVE  /\ p \in D!Pointer /\ t \in Seq(D!Pointer) /\ dr = <<p>> \o t
           /\ 1 \in DOMAIN dr /\ dr[1] = p
OBVIOUS

\* The first pointer in line is taken and does not lead to the end of an impl:
\* it is Null, an object, or one of several references.
LEMMA DropPlain ==
    ASSUME DelInv, D!Drop, ~ (Head(dropping) \in Impl /\ impl[Head(dropping)].refs = 1)
    PROVE  DelInv'
<1>1. PICK p, t : p = Head(dropping) /\ t = Tail(dropping)
  OBVIOUS
<1>2. /\ dropping # << >> /\ dropping' = t
      /\ released' = IF p \in Resource THEN [released EXCEPT ![p] = @ + 1] ELSE released
      /\ impl' = IF p \in Impl THEN [impl EXCEPT ![p].refs = @ - 1] ELSE impl
      /\ UNCHANGED <<holder, covers>>
  BY <1>1 DEF D!Drop
<1>3. /\ p \in D!Pointer /\ t \in Seq(D!Pointer) /\ dropping = <<p>> \o t
      /\ Occurs(holder, impl, dropping, p)
  <2>1. /\ p \in D!Pointer /\ t \in Seq(D!Pointer) /\ dropping = <<p>> \o t
        /\ 1 \in DOMAIN dropping /\ dropping[1] = p
    BY <1>1, <1>2, DelTypes, FirstInLine
  <2> QED BY <2>1 DEF Occurs
<1>4. ASSUME NEW m \in Impl
      PROVE  /\ impl'[m].own = impl[m].own /\ impl'[m].next = impl[m].next
             /\ impl'[m].refs = IF m = p THEN impl[m].refs - 1 ELSE impl[m].refs
             /\ m # p => impl'[m] = impl[m]
             /\ impl[m].refs \in Nat
             /\ m = p => impl[m].refs > 1
  <2>1. impl[m] \in [refs : Nat, own : D!Pointer, next : D!Pointer]
    BY DelTypes
  <2>2. CASE m = p
    <3>1. impl'[m] = [impl[m] EXCEPT !.refs = @ - 1]
      BY <1>2, <2>2, DelTypes
    <3>2. impl[m].refs # 0
      <4>1. Points(holder, impl, dropping, m) # 0
        BY <1>3, <2>2, DelTypes, Somewhere
      <4> QED BY <4>1 DEF DelInv, Counted
    <3>3. impl[m].refs # 1
      BY <1>1, <2>2
    <3> QED BY <2>1, <2>2, <3>1, <3>2, <3>3
  <2>3. CASE m # p
    <3>1. impl'[m] = impl[m]
      BY <1>2, <2>3, DelTypes
    <3> QED BY <2>1, <2>3, <3>1
  <2> QED BY <2>2, <2>3
<1>5. ASSUME NEW x, x # Null
      PROVE  /\ Points(holder, impl, dropping, x) \in Nat
             /\ Points(holder, impl, dropping, x)' \in Nat
             /\ Points(holder, impl, dropping, x) = Points(holder, impl, dropping, x)' + One(p = x)
  <2>1. /\ OwnedBy(impl', x) = OwnedBy(impl, x) /\ Before(impl', x) = Before(impl, x)
    BY <1>4 DEF OwnedBy, Before
  <2>2. Points(holder', impl', dropping', x) = Points(holder, impl, t, x)
    BY <1>2, <2>1 DEF Points
  <2>3. Points(holder, impl, dropping, x) = Points(holder, impl, t, x) + One(p = x)
    BY <1>3, LineGrows
  <2>4. Points(holder, impl, t, x) \in Nat /\ Points(holder, impl, dropping, x) \in Nat
    BY <1>3, DelTypes, Parts
  <2> QED BY <2>2, <2>3, <2>4
<1>6. D!TypeOK'
  <2>1. impl' \in [Impl -> [refs : Nat, own : D!Pointer, next : D!Pointer]]
    <3>1. CASE p \notin Impl
      BY <1>2, <3>1, DelTypes
    <3>2. CASE p \in Impl
      <4>1. impl[p] \in [refs : Nat, own : D!Pointer, next : D!Pointer]
        BY <3>2, DelTypes
      <4>2. impl[p].refs - 1 \in Nat
        <5>1. impl[p].refs \in Nat /\ impl[p].refs > 1
          BY <1>4, <3>2
        <5> QED BY <5>1
      <4>3. [impl[p] EXCEPT !.refs = @ - 1] \in [refs : Nat, own : D!Pointer, next : D!Pointer]
        BY <4>1, <4>2
      <4>4. impl' = [impl EXCEPT ![p] = [impl[p] EXCEPT !.refs = @ - 1]]
        BY <1>2, <3>2
      <4> QED BY <4>3, <4>4, DelTypes
    <3> QED BY <3>1, <3>2
  <2>2. released' \in [Resource -> Nat]
    BY <1>2, DelTypes
  <2> QED BY <1>2, <1>3, <2>1, <2>2, DelTypes DEF D!TypeOK
<1>7. Counted(holder, impl, dropping)'
  <2> SUFFICES ASSUME NEW m \in Impl PROVE impl'[m].refs = Points(holder, impl, dropping, m)'
    BY DEF Counted
  <2>1. m # Null /\ impl[m].refs = Points(holder, impl, dropping, m)
    BY DelTypes DEF DelInv, Counted
  <2> QED BY <1>4, <1>5, <2>1 DEF One
<1>8. AtMostOnce(holder, impl, dropping, released)'
  <2> SUFFICES ASSUME NEW x \in Resource
               PROVE  released'[x] + Points(holder, impl, dropping, x)' <= 1
    BY DEF AtMostOnce
  <2>1. x # Null /\ released[x] \in Nat /\ released[x] + Points(holder, impl, dropping, x) <= 1
    BY DelTypes DEF DelInv, AtMostOnce
  <2>2. released'[x] = IF x = p THEN released[x] + 1 ELSE released[x]
    BY <1>2, DelTypes
  <2> QED BY <1>5, <2>1, <2>2 DEF One
<1>9. Unreferenced(impl)'
  <2> SUFFICES ASSUME NEW m \in Impl, impl'[m].refs = 0 PROVE impl'[m] = D!Free
    BY DEF Unreferenced
  <2>1. m # p
    <3> SUFFICES ASSUME m = p PROVE FALSE
      OBVIOUS
    <3>1. impl[m].refs \in Nat /\ impl[m].refs > 1 /\ impl'[m].refs = impl[m].refs - 1
      BY <1>4
    <3> QED BY <3>1
  <2>2. impl'[m] = impl[m]
    BY <1>4, <2>1
  <2> QED BY <2>2 DEF DelInv, Unreferenced
<1>10. Fewer(impl, impl')
  BY <1>4 DEF Fewer, Targets
<1>11. NoCycle(impl)'
  BY <1>10, NoCycleFewer DEF DelInv
<1>12. Complete(holder, impl, covers)'
  <2>1. \A y \in Holder : Reaches(impl', holder[y], covers[y])
    BY <1>10, ReachesFewer DEF DelInv, Complete
  <2> QED BY <1>2, <2>1 DEF Complete
<1> QED BY <1>6, <1>7, <1>8, <1>9, <1>11, <1>12 DEF DelInv

\* Two pointers are put in line one after the other.
LEMMA TwoInLine ==
    ASSUME NEW t \in Seq(D!Pointer), NEW a \in D!Pointer, NEW b \in D!Pointer
    PROVE  /\ <<b>> \o t \in Seq(D!Pointer)
           /\ <<a, b>> \o t = <<a>> \o (<<b>> \o t)
           /\ <<a>> \o (<<b>> \o t) \in Seq(D!Pointer)
<1>1. PICK s : s = <<b>> \o t
  OBVIOUS
<1>2. /\ s \in Seq(D!Pointer) /\ Len(s) = Len(t) + 1 /\ Len(t) \in Nat
      /\ \A i \in 1 .. Len(t) + 1 : s[i] = IF i = 1 THEN b ELSE t[i - 1]
  BY <1>1
<1>3. PICK u : u = <<a>> \o s
  OBVIOUS
<1>4. /\ u \in Seq(D!Pointer) /\ Len(u) = Len(t) + 2
      /\ \A i \in 1 .. Len(t) + 2 : u[i] = IF i = 1 THEN a ELSE s[i - 1]
  BY <1>2, <1>3
<1>5. PICK v : v = <<a, b>> \o t
  OBVIOUS
<1>6. /\ v \in Seq(D!Pointer) /\ Len(v) = Len(t) + 2
      /\ \A i \in 1 .. Len(t) + 2 : v[i] = IF i = 1 THEN a ELSE IF i = 2 THEN b ELSE t[i - 2]
  BY <1>2, <1>5
<1>7. \A i \in 1 .. Len(t) + 2 : u[i] = v[i]
  <2> TAKE i \in 1 .. Len(t) + 2
  <2>1. CASE i = 1
    BY <1>2, <1>4, <1>6, <2>1
  <2>2. CASE i # 1
    <3>1. i - 1 \in 1 .. Len(t) + 1
      BY <1>2, <2>2
    <3>2. (i - 1) - 1 = i - 2 /\ (i - 1 = 1 <=> i = 2)
      BY <1>2
    <3>3. s[i - 1] = IF i = 2 THEN b ELSE t[i - 2]
      BY <1>2, <3>1, <3>2
    <3>4. u[i] = s[i - 1] /\ v[i] = IF i = 2 THEN b ELSE t[i - 2]
      BY <1>4, <1>6, <2>2
    <3> QED BY <3>3, <3>4
  <2> QED BY <2>1, <2>2
<1>8. u = v
  BY <1>2, <1>4, <1>6, <1>7
<1> QED BY <1>1, <1>2, <1>3, <1>4, <1>5, <1>8

\* The last reference to an impl: what it holds comes next.
LEMMA DropLast ==
    ASSUME DelInv, D!Drop, Head(dropping) \in Impl, impl[Head(dropping)].refs = 1
    PROVE  DelInv'
<1>1. PICK p, t, own, next, s, free :
          /\ p = Head(dropping) /\ t = Tail(dropping)
          /\ own = impl[p].own /\ next = impl[p].next
          /\ s = <<next>> \o t /\ free = D!Free
  OBVIOUS
<1>2. /\ dropping # << >> /\ dropping' = <<own, next>> \o t
      /\ p \in Impl /\ p \notin Resource /\ impl[p].refs = 1
      /\ impl' = [impl EXCEPT ![p] = free]
      /\ UNCHANGED <<holder, covers, released>>
  BY <1>1, DelTypes DEF D!Drop
<1>3. /\ own \in D!Pointer /\ next \in D!Pointer
      /\ t \in Seq(D!Pointer) /\ dropping = <<p>> \o t
      /\ s \in Seq(D!Pointer) /\ dropping' = <<own>> \o s
      /\ dropping' \in Seq(D!Pointer)
  <2>1. impl[p] \in [refs : Nat, own : D!Pointer, next : D!Pointer]
    BY <1>2, DelTypes
  <2>2. own \in D!Pointer /\ next \in D!Pointer
    BY <1>1, <2>1
  <2>3. t \in Seq(D!Pointer) /\ dropping = <<p>> \o t
    BY <1>1, <1>2, DelTypes, FirstInLine
  <2>4. /\ s \in Seq(D!Pointer) /\ <<own, next>> \o t = <<own>> \o s
        /\ <<own>> \o s \in Seq(D!Pointer)
    <3>1. /\ <<next>> \o t \in Seq(D!Pointer)
          /\ <<own, next>> \o t = <<own>> \o (<<next>> \o t)
          /\ <<own>> \o (<<next>> \o t) \in Seq(D!Pointer)
      BY <2>2, <2>3, TwoInLine
    <3> QED BY <1>1, <3>1
  <2> QED BY <1>2, <2>2, <2>3, <2>4
<1>4. ASSUME NEW x, x # Null
      PROVE  /\ Points(holder, impl, dropping, x) \in Nat
             /\ Points(holder, impl, dropping, x)' \in Nat
             /\ Points(holder, impl, dropping, x) = Points(holder, impl, dropping, x)' + One(p = x)
  <2>1. Changes(impl, impl', Impl, p, free)
    BY <1>2, DelTypes DEF Changes
  <2>2. PICK a, b, c, d, e : /\ a = Points(holder, impl, dropping, x)
                             /\ b = Points(holder, impl, t, x)
                             /\ c = Points(holder, impl, s, x)
                             /\ d = Points(holder, impl, dropping', x)
                             /\ e = Points(holder, impl', dropping', x)
    OBVIOUS
  <2>3. a = b + One(p = x)
    <3>1. p \in D!Pointer
      BY <1>2 DEF D!Pointer
    <3> QED BY <1>3, <2>2, <3>1, LineGrows
  <2>4. c = b + One(next = x)
    <3>1. Points(holder, impl, <<next>> \o t, x) = Points(holder, impl, t, x) + One(next = x)
      BY <1>3, LineGrows
    <3> QED BY <1>1, <2>2, <3>1
  <2>5. d = c + One(own = x)
    BY <1>3, <2>2, LineGrows
  <2>6. e = d - One(impl[p].own = x) - One(impl[p].next = x) + One(free.own = x) + One(free.next = x)
    <3>1. PICK dr : dr = dropping'
      OBVIOUS
    <3>2. dr \in Seq(D!Pointer)
      BY <1>3, <3>1
    <3>3. Points(holder, impl', dr, x)
             = Points(holder, impl, dr, x) - One(impl[p].own = x) - One(impl[p].next = x)
                                           + One(free.own = x) + One(free.next = x)
      BY <2>1, <3>2, ImplSet
    <3> QED BY <2>2, <3>1, <3>3
  <2>7. /\ One(impl[p].own = x) = One(own = x) /\ One(impl[p].next = x) = One(next = x)
        /\ One(free.own = x) = 0 /\ One(free.next = x) = 0
        /\ One(own = x) \in Nat /\ One(next = x) \in Nat /\ One(p = x) \in Nat
    BY <1>1, <1>4 DEF One, D!Free
  <2>8. b \in Nat
    BY <1>3, <2>2, Parts
  <2>9. e = b
    BY <2>4, <2>5, <2>6, <2>7, <2>8
  <2> QED BY <1>2, <2>2, <2>3, <2>7, <2>8, <2>9
<1>5. D!TypeOK'
  <2>1. D!Free \in [refs : Nat, own : D!Pointer, next : D!Pointer]
    BY DEF D!Free, D!Pointer
  <2>2. impl' \in [Impl -> [refs : Nat, own : D!Pointer, next : D!Pointer]]
    BY <1>1, <1>2, <2>1, DelTypes
  <2> QED BY <1>2, <1>3, <2>2, DelTypes DEF D!TypeOK
<1>6. Counted(holder, impl, dropping)'
  <2> SUFFICES ASSUME NEW m \in Impl PROVE impl'[m].refs = Points(holder, impl, dropping, m)'
    BY DEF Counted
  <2>1. m # Null /\ impl[m].refs = Points(holder, impl, dropping, m)
    BY DelTypes DEF DelInv, Counted
  <2>2. CASE m = p
    <3>1. impl'[m].refs = 0
      BY <1>1, <1>2, <2>2, DelTypes DEF D!Free
    <3>2. impl[m].refs = 1 /\ One(p = m) = 1
      BY <1>2, <2>2 DEF One
    <3>3. /\ Points(holder, impl, dropping, m)' \in Nat
          /\ Points(holder, impl, dropping, m) = Points(holder, impl, dropping, m)' + One(p = m)
      BY <1>4, <2>1
    <3>4. PICK k : k = Points(holder, impl, dropping, m)'
      OBVIOUS
    <3>5. k \in Nat /\ 1 = k + 1
      BY <2>1, <3>2, <3>3, <3>4, Zenon
    <3>6. k = 0
      BY <3>5
    <3> QED BY <3>1, <3>4, <3>6, Zenon
  <2>3. CASE m # p
    <3>1. impl'[m] = impl[m]
      BY <1>2, <2>3, DelTypes
    <3> QED BY <1>4, <2>1, <2>3, <3>1 DEF One
  <2> QED BY <2>2, <2>3
<1>7. AtMostOnce(holder, impl, dropping, released)'
  <2>1. \A x : x # Null /\ x \in Resource => Points(holder, impl, dropping, x)'
               = IF Null = x THEN Points(holder, impl, dropping, x) + 1 ELSE Points(holder, impl, dropping, x)
    <3> TAKE x
    <3> HAVE x # Null /\ x \in Resource
    <3>1. One(p = x) = 0
      BY <1>2 DEF One
    <3>2. /\ Points(holder, impl, dropping, x)' \in Nat
          /\ Points(holder, impl, dropping, x) = Points(holder, impl, dropping, x)' + One(p = x)
      BY <1>4
    <3> QED BY <3>1, <3>2
  <2> QED BY <1>2, <2>1, OnceAdded, DelTypes
<1>8. Unreferenced(impl)'
  BY <1>1, <1>2, DelTypes DEF Unreferenced, DelInv
<1>9. Fewer(impl, impl')
  BY <1>1, <1>2, DelTypes DEF Fewer, Targets, D!Free
<1>10. NoCycle(impl)'
  BY <1>9, NoCycleFewer DEF DelInv
<1>11. Complete(holder, impl, covers)'
  <2>1. \A y \in Holder : Reaches(impl', holder[y], covers[y])
    BY <1>9, ReachesFewer DEF DelInv, Complete
  <2> QED BY <1>2, <2>1 DEF Complete
<1> QED BY <1>5, <1>6, <1>7, <1>8, <1>10, <1>11 DEF DelInv

-----------------------------------------------------------------------------
(* append(): the chain that next makes, and what takes the place of each   *)
(* of its members.                                                         *)

\* What follows a pointer along next, and what comes next.
After(im, p) == IF p \in Impl THEN im[p].next ELSE Null
Goes(im, S) == \A m \in S \cap Impl : im[m].next \in S
Follow(im, p) == {q \in D!Pointer \ {Null} : \A S \in SUBSET D!Pointer : p \in S /\ Goes(im, S) => q \in S}
Nexts(im) == \A m \in Impl : im[m].next \in D!Pointer

\* Nothing follows Null; p follows p, and so does what follows its next.
LEMMA FollowNull == ASSUME NEW im PROVE Follow(im, Null) = {}
<1>1. {Null} \in SUBSET D!Pointer /\ Null \in {Null} /\ Goes(im, {Null})
  BY DeleterAssumption DEF Goes, D!Pointer
<1> QED BY <1>1 DEF Follow

\* See FollowNull.
LEMMA FollowStep ==
    ASSUME NEW im, Nexts(im), NEW p \in D!Pointer, p # Null
    PROVE  Follow(im, p) = {p} \cup Follow(im, After(im, p))
<1>1. p \in Follow(im, p)
  BY DEF Follow
<1>2. PICK a : a = After(im, p)
  OBVIOUS
<1>3. a \in D!Pointer /\ (p \in Impl => a = im[p].next) /\ (p \notin Impl => a = Null)
  BY <1>2, DeleterAssumption DEF After, Nexts, D!Pointer
<1>4. Follow(im, a) \subseteq Follow(im, p)
  <2>1. CASE p \in Impl
    <3>1. \A S : p \in S /\ Goes(im, S) => a \in S
      BY <1>3, <2>1 DEF Goes
    <3> QED BY <3>1 DEF Follow
  <2>2. CASE p \notin Impl
    BY <1>3, <2>2, FollowNull
  <2> QED BY <2>1, <2>2
<1>5. ASSUME NEW r \in Follow(im, p), r # p
      PROVE  r \in Follow(im, a)
  <2> SUFFICES ASSUME NEW S \in SUBSET D!Pointer, a \in S, Goes(im, S)
               PROVE  r \in S
    BY DEF Follow
  <2>1. S \cup {p} \in SUBSET D!Pointer /\ p \in S \cup {p}
    OBVIOUS
  <2>2. Goes(im, S \cup {p})
    BY <1>3 DEF Goes
  <2>3. r \in S \cup {p}
    BY <2>1, <2>2, Zenon DEF Follow
  <2> QED BY <1>5, <2>3
<1> QED BY <1>1, <1>2, <1>4, <1>5

\* Along next: what follows what follows; everything is p or the next of
\* something; of two that follow p one follows the other.
LEMMA FollowAlong ==
    ASSUME NEW im, Nexts(im), NEW p \in D!Pointer
    PROVE  /\ \A q \in Follow(im, p) : Follow(im, q) \subseteq Follow(im, p)
           /\ \A q \in Follow(im, p) : q # p => \E m \in Follow(im, p) : After(im, m) = q
           /\ \A q \in Follow(im, p) : After(im, q) \in Follow(im, p) \cup {Null}
           /\ \A q, r \in Follow(im, p) : r \in Follow(im, q) \/ q \in Follow(im, r)
<1>1. Null \notin Impl /\ Null \in D!Pointer
  BY DeleterAssumption DEF D!Pointer
<1>2. \A q \in Follow(im, p) : Follow(im, q) \subseteq Follow(im, p)
  BY DEF Follow
<1>3. \A q \in Follow(im, p) : After(im, q) \in Follow(im, p) \cup {Null}
  <2> TAKE q \in Follow(im, p)
  <2>1. q \in D!Pointer /\ q # Null /\ After(im, q) \in D!Pointer
    BY <1>1 DEF Follow, After, Nexts
  <2>2. Follow(im, After(im, q)) \subseteq Follow(im, p)
    BY <1>2, <2>1, FollowStep
  <2>3. After(im, q) # Null => After(im, q) \in Follow(im, After(im, q))
    BY <2>1, FollowStep
  <2> QED BY <2>2, <2>3
<1>4. ASSUME NEW q \in Follow(im, p), q # p
      PROVE  \E m \in Follow(im, p) : After(im, m) = q
  <2> SUFFICES ASSUME \A m \in Follow(im, p) : After(im, m) # q
               PROVE  FALSE
    OBVIOUS
  <2>1. PICK S : S = (Follow(im, p) \cup {Null}) \ {q}
    OBVIOUS
  <2>2. S \in SUBSET D!Pointer
    BY <1>1, <2>1 DEF Follow
  <2>3. p \in S
    <3>1. p # Null => p \in Follow(im, p)
      BY FollowStep
    <3> QED BY <1>4, <2>1, <3>1
  <2>4. Goes(im, S)
    <3> SUFFICES ASSUME NEW m \in S, m \in Impl
                 PROVE  im[m].next \in S
      BY DEF Goes
    <3>1. m \in Follow(im, p) /\ After(im, m) = im[m].next
      BY <1>1, <2>1 DEF After
    <3>2. After(im, m) # q
      BY <3>1
    <3> QED BY <1>3, <2>1, <3>1, <3>2
  <2>5. q \in S
    BY <2>2, <2>3, <2>4 DEF Follow
  <2> QED BY <2>1, <2>5
<1>5. ASSUME NEW q \in Follow(im, p), NEW r \in Follow(im, p)
      PROVE  r \in Follow(im, q) \/ q \in Follow(im, r)
  <2>1. PICK S : S = {x \in D!Pointer : x \in Follow(im, q) \cup {Null} \/ q \in Follow(im, x)}
    OBVIOUS
  <2>2. S \in SUBSET D!Pointer /\ p \in S
    BY <2>1
  <2>3. q \in D!Pointer /\ r \in D!Pointer /\ q # Null /\ r # Null
    BY DEF Follow
  <2>4. Goes(im, S)
    <3> SUFFICES ASSUME NEW x \in S, x \in Impl
                 PROVE  im[x].next \in S
      BY DEF Goes
    <3>1. PICK y : y = im[x].next
      OBVIOUS
    <3>2. y = After(im, x) /\ y \in D!Pointer /\ x \in D!Pointer /\ x # Null
      BY <1>1, <2>1, <3>1 DEF After, Nexts
    <3>3. CASE x \in Follow(im, q)
      <4>1. y \in Follow(im, q) \cup {Null}
        <5>1. Follow(im, x) \subseteq Follow(im, q)
          BY <3>3 DEF Follow
        <5>2. Follow(im, y) \subseteq Follow(im, x)
          BY <3>2, FollowStep
        <5>3. y # Null => y \in Follow(im, y)
          BY <3>2, FollowStep
        <5> QED BY <5>1, <5>2, <5>3
      <4> QED BY <2>1, <3>1, <3>2, <4>1
    <3>4. CASE q \in Follow(im, x)
      <4>1. q = x \/ q \in Follow(im, y)
        BY <3>2, <3>4, FollowStep
      <4>2. q \in Follow(im, q)
        BY <2>3, FollowStep
      <4> QED BY <2>1, <3>1, <3>2, <3>3, <4>1, <4>2
    <3> QED BY <2>1, <3>2, <3>3, <3>4
  <2>5. r \in S
    BY <2>2, <2>4 DEF Follow
  <2> QED BY <2>1, <2>3, <2>5
<1> QED BY <1>2, <1>3, <1>4, <1>5

\* A chain: from p on, each pointer and the end come after exactly one, and p
\* after none.
Chained(im, p, C) ==
    /\ C \subseteq D!Pointer \ {Null}
    /\ p \in C \cup {Null} /\ \A q \in C : After(im, q) \in C \cup {Null}
    /\ \A q \in C \cup {Null} : q = p \/ \E m \in C : After(im, m) = q
    /\ \A m \in C : After(im, m) # p
    /\ \A m, n \in C : After(im, m) = After(im, n) => m = n

\* From any pointer on there is a chain: impls that do not lead back to
\* themselves come to an end, and never at the same place from two sides.
LEMMA IsChained ==
    ASSUME NEW im, Nexts(im), NoCycle(im), NEW p \in D!Pointer
    PROVE  Chained(im, p, Follow(im, p))
<1>1. PICK C : C = Follow(im, p)
  OBVIOUS
<1>2. Null \notin Impl /\ Null \in D!Pointer
  BY DeleterAssumption DEF D!Pointer
<1>3. C \subseteq D!Pointer \ {Null} /\ p \in C \cup {Null}
  <2>1. p # Null => p \in Follow(im, p)
    BY FollowStep
  <2> QED BY <1>1, <2>1 DEF Follow
<1>4. /\ \A q \in C : Follow(im, q) \subseteq C
      /\ \A q \in C : q # p => \E m \in C : After(im, m) = q
      /\ \A q \in C : After(im, q) \in C \cup {Null}
      /\ \A q, r \in C : r \in Follow(im, q) \/ q \in Follow(im, r)
  <2>1. /\ \A q \in Follow(im, p) : Follow(im, q) \subseteq Follow(im, p)
        /\ \A q \in Follow(im, p) : q # p => \E m \in Follow(im, p) : After(im, m) = q
        /\ \A q \in Follow(im, p) : After(im, q) \in Follow(im, p) \cup {Null}
        /\ \A q, r \in Follow(im, p) : r \in Follow(im, q) \/ q \in Follow(im, r)
    BY FollowAlong
  <2> QED BY <1>1, <2>1, Zenon
<1>5. ASSUME NEW q \in D!Pointer, NEW m \in Follow(im, q), After(im, m) = q, q # Null
      PROVE  FALSE
  <2>1. PICK A : A = Follow(im, q) \cap Impl
    OBVIOUS
  <2>2. m \in A
    BY <1>5, <2>1 DEF After
  <2>3. PICK n \in A : \A x \in A : n \notin Targets(im, x)
    BY <2>1, <2>2 DEF NoCycle
  <2>4. \E x \in Follow(im, q) : After(im, x) = n
    <3>1. CASE n = q
      BY <1>5, <3>1
    <3>2. CASE n # q
      BY <2>1, <3>2, FollowAlong
    <3> QED BY <3>1, <3>2
  <2>5. PICK x \in Follow(im, q) : After(im, x) = n
    BY <2>4
  <2>6. x \in A /\ n \in Targets(im, x)
    BY <1>2, <2>1, <2>3, <2>5 DEF After, Targets
  <2> QED BY <2>3, <2>6
<1>6. ASSUME NEW m \in C, NEW n \in C, After(im, m) = After(im, n), m # n, n \in Follow(im, m)
      PROVE  FALSE
  <2>1. m \in D!Pointer /\ n \in D!Pointer /\ m # Null /\ n # Null
    BY <1>3
  <2>2. n \in Follow(im, After(im, m))
    BY <1>6, <2>1, FollowStep
  <2>3. PICK q : q = After(im, m)
    OBVIOUS
  <2>4. q \in D!Pointer /\ q # Null
    <3>1. q \in C \cup {Null}
      BY <1>4, <2>3
    <3> QED BY <1>2, <1>3, <2>2, <2>3, <3>1, FollowNull
  <2> QED BY <1>5, <1>6, <2>2, <2>3, <2>4
<1>7. \A m, n \in C : After(im, m) = After(im, n) => m = n
  BY <1>4, <1>6
<1>8. \A m \in C : After(im, m) # p
  <2>1. CASE p = Null
    BY <1>1, <2>1, FollowNull
  <2>2. CASE p # Null
    BY <1>1, <1>5, <2>2
  <2> QED BY <2>1, <2>2
<1>9. p = Null \/ \E m \in C : After(im, m) = Null
  <2> SUFFICES ASSUME p # Null, \A m \in C : After(im, m) # Null
               PROVE  FALSE
    OBVIOUS
  <2>1. C \subseteq Impl
    BY DEF After
  <2>2. C # {} /\ C \in SUBSET Impl
    BY <1>3, <2>1
  <2>3. PICK n \in C : \A m \in C : m \notin Targets(im, n)
    BY <2>2, Zenon DEF NoCycle
  <2>4. After(im, n) \in Targets(im, n)
    BY <2>1 DEF After, Targets
  <2>5. After(im, n) \in C
    BY <1>4
  <2> QED BY <2>3, <2>4, <2>5
<1> QED BY <1>1, <1>3, <1>4, <1>7, <1>8, <1>9 DEF Chained

\* The recursive function of the model is this chain: a set of impls on which
\* it is not would have one whose next is outside of it.
LEMMA ChainIs ==
    ASSUME DelInv, NEW p \in D!Pointer
    PROVE  D!Chain(p) = Follow(impl, p)
<1>1. Nexts(impl) /\ NoCycle(impl)
  <2>1. Nexts(impl)
    BY DelTypes DEF Nexts
  <2> QED BY <2>1 DEF DelInv
<1>2. PICK f : f = [q \in D!Pointer |-> Follow(impl, q)]
  OBVIOUS
<1>3. \A q \in D!Pointer : D!After(q) = After(impl, q) /\ After(impl, q) \in D!Pointer
  BY <1>1 DEF D!After, After, Nexts, D!Pointer
<1>4. f = [q \in D!Pointer |-> IF q = Null THEN {} ELSE {q} \cup f[D!After(q)]]
  <2>1. \A q \in D!Pointer : Follow(impl, q) = IF q = Null THEN {} ELSE {q} \cup Follow(impl, After(impl, q))
    BY <1>1, FollowNull, FollowStep
  <2> QED BY <1>2, <1>3, <2>1
<1>5. PICK g : /\ g = CHOOSE c : c = [q \in D!Pointer |-> IF q = Null THEN {} ELSE {q} \cup c[D!After(q)]]
               /\ D!Chain(p) = g[p]
  BY Zenon DEF D!Chain
<1>6. g = [q \in D!Pointer |-> IF q = Null THEN {} ELSE {q} \cup g[D!After(q)]]
  BY <1>4, <1>5, Zenon
<1>7. \A q \in D!Pointer : g[q] = IF q = Null THEN {} ELSE {q} \cup g[After(impl, q)]
  BY <1>3, <1>6
<1>8. PICK A : A = {n \in Impl : g[n] # Follow(impl, n)}
  OBVIOUS
<1>9. \A q \in D!Pointer : q \notin A => g[q] = Follow(impl, q)
  <2> SUFFICES ASSUME NEW q \in D!Pointer, q \notin Impl
               PROVE  g[q] = Follow(impl, q)
    BY <1>8
  <2>1. CASE q = Null
    BY <1>7, <2>1, FollowNull
  <2>2. CASE q # Null
    <3>1. After(impl, q) = Null /\ Null \in D!Pointer
      BY DEF After, D!Pointer
    <3>2. g[q] = {q} \cup g[Null] /\ g[Null] = {}
      BY <1>7, <2>2, <3>1
    <3>3. Follow(impl, q) = {q} \cup Follow(impl, Null)
      BY <1>1, <2>2, <3>1, FollowStep
    <3> QED BY <3>2, <3>3, FollowNull
  <2> QED BY <2>1, <2>2
<1>10. A = {}
  <2> SUFFICES ASSUME A # {} PROVE FALSE
    OBVIOUS
  <2>1. PICK n \in A : \A m \in A : m \notin Targets(impl, n)
    BY <1>1, <1>8 DEF NoCycle
  <2>2. n \in D!Pointer /\ n # Null /\ n \in Impl
    BY <1>8, <2>1, DeleterAssumption DEF D!Pointer
  <2>3. After(impl, n) \notin A
    BY <2>1, <2>2 DEF After, Targets
  <2>4. g[After(impl, n)] = Follow(impl, After(impl, n))
    BY <1>3, <1>9, <2>2, <2>3
  <2>5. g[n] = Follow(impl, n)
    BY <1>1, <1>7, <2>2, <2>4, FollowStep
  <2> QED BY <1>8, <2>1, <2>5
<1> QED BY <1>5, <1>9, <1>10

\* What append() does to a chain: lk is the impl that takes the place of each
\* of its pointers (itself, or one of the free addresses N), and e takes that
\* of the end.
Sole(im, p) == p \in Impl /\ im[p].refs = 1
Linked(im, C, lk, N, e) ==
    /\ N \subseteq Impl /\ \A n \in N : im[n] = D!Free
    /\ N \cap C = {} /\ e \notin C \cup N \cup {Null} /\ lk[Null] = e
    /\ \A q \in C : IF Sole(im, q) THEN lk[q] = q ELSE lk[q] \in N
    /\ \A q, r \in C : lk[q] = lk[r] => q = r
Relinked(im, jm, C, lk) ==
    /\ \A q \in C : /\ jm[lk[q]].refs = 1 /\ jm[lk[q]].next = lk[After(im, q)]
                    /\ jm[lk[q]].own = IF Sole(im, q) THEN im[q].own ELSE q
    /\ \A n \in Impl : (\A q \in C : lk[q] # n) =>
                         /\ jm[n].own = im[n].own /\ jm[n].refs = im[n].refs
                         /\ jm[n].next = IF n \in C THEN Null ELSE im[n].next

\* A pointer takes the place of at most one.
LEMMA LinkInjective ==
    ASSUME NEW im, NEW C, NEW lk, NEW N, NEW e, Linked(im, C, lk, N, e), Null \notin C
    PROVE  /\ \A q \in C : lk[q] \in Impl /\ lk[q] \in C \cup N /\ lk[q] # e
           /\ \A q, r \in C \cup {Null} : lk[q] = lk[r] => q = r
<1>1. \A q \in C : lk[q] \in Impl /\ lk[q] \in C \cup N /\ lk[q] # e
  BY DEF Linked, Sole
<1> QED BY <1>1 DEF Linked

\* append() adds what it wraps to the pointers that impls own,
LEMMA OwnedAppended ==
    ASSUME NEW im, NEW jm, NEW C, NEW lk, NEW N, NEW e, NEW dr, dr \in Seq(D!Pointer),
           Linked(im, C, lk, N, e), Relinked(im, jm, C, lk), Null \notin C,
           NEW x, x # Null
    PROVE  /\ Cardinality(OwnedBy(im, x)) \in Nat
           /\ Cardinality(OwnedBy(jm, x)) = Cardinality(OwnedBy(im, x)) + One(x \in C /\ ~Sole(im, x))
<1>1. \A q \in C : lk[q] \in Impl /\ lk[q] \in C \cup N /\ lk[q] # e
  BY LinkInjective
<1>2. ASSUME NEW n \in Impl, ~ (x \in C /\ ~Sole(im, x) /\ n = lk[x])
      PROVE  im[n].own = x <=> jm[n].own = x
  <2>1. CASE \A q \in C : lk[q] # n
    BY <2>1 DEF Relinked
  <2>2. CASE \E q \in C : lk[q] = n
    <3>1. PICK q \in C : lk[q] = n
      BY <2>2
    <3>2. CASE Sole(im, q)
      <4>1. n = q /\ jm[n].own = im[q].own
        BY <3>1, <3>2 DEF Linked, Relinked
      <4> QED BY <4>1
    <3>3. CASE ~Sole(im, q)
      <4>1. im[n].own = Null
        BY <3>1, <3>3 DEF Linked, D!Free
      <4>2. jm[n].own = q
        BY <3>1, <3>3 DEF Relinked
      <4> QED BY <1>2, <3>1, <3>3, <4>1, <4>2
    <3> QED BY <3>2, <3>3
  <2> QED BY <2>1, <2>2
<1>3. PICK K, Q : K = OwnedBy(im, x) /\ Q = OwnedBy(jm, x)
  OBVIOUS
<1>4. IsFiniteSet(K) /\ IsFiniteSet(Q) /\ Cardinality(K) \in Nat
  BY <1>3, Parts
<1>5. CASE ~ (x \in C /\ ~Sole(im, x))
  <2>1. K = Q
    BY <1>2, <1>3, <1>5 DEF OwnedBy
  <2> QED BY <1>3, <1>4, <1>5, <2>1 DEF One
<1>6. CASE x \in C /\ ~Sole(im, x)
  <2>1. PICK n : n = lk[x]
    OBVIOUS
  <2>2. n \in Impl /\ im[n].own = Null /\ jm[n].own = x
    BY <1>1, <1>6, <2>1 DEF Linked, Relinked, D!Free
  <2>3. n \notin K /\ n \in Q /\ \A y : y # n => (y \in K <=> y \in Q)
    BY <1>2, <1>3, <2>1, <2>2 DEF OwnedBy
  <2>4. Cardinality(Q) = Cardinality(K) - One(n \in K) + One(n \in Q)
    BY <1>4, <2>3, OneElement
  <2> QED BY <1>3, <1>4, <1>6, <2>3, <2>4 DEF One
<1> QED BY <1>5, <1>6

\* and what each impl of the chain has as its next, is what took the place of
\* its next.
Later(C, p, lk, x) == \E y \in C \cup {Null} : y # p /\ lk[y] = x
LEMMA BeforeAppended ==
    ASSUME NEW im, NEW jm, NEW C, NEW lk, NEW N, NEW e, NEW dr, dr \in Seq(D!Pointer), NEW p,
           Linked(im, C, lk, N, e), Relinked(im, jm, C, lk), Chained(im, p, C), Null \notin C,
           NEW x, x # Null
    PROVE  /\ Cardinality(Before(im, x)) \in Nat /\ Cardinality(Before(jm, x)) \in Nat
           /\ Cardinality(Before(jm, x)) + One(x \in C /\ x # p)
                 = Cardinality(Before(im, x)) + One(Later(C, p, lk, x))
<1>1. /\ \A q \in C : lk[q] \in Impl /\ lk[q] \in C \cup N /\ lk[q] # e
      /\ \A q, r \in C \cup {Null} : lk[q] = lk[r] => q = r
  BY LinkInjective
<1>2. PICK K, R, Q : K = Before(im, x) /\ R = K \ C /\ Q = Before(jm, x)
  OBVIOUS
<1>3. IsFiniteSet(K) /\ IsFiniteSet(R) /\ IsFiniteSet(Q)
  <2>1. IsFiniteSet(K) /\ IsFiniteSet(Q)
    BY <1>2, Parts
  <2> QED BY <1>2, <2>1, FS_Subset
<1>4. Cardinality(K) \in Nat /\ Cardinality(R) \in Nat /\ Cardinality(Q) \in Nat
  BY <1>3, FS_CardinalityType
<1>5. Cardinality(K) = Cardinality(R) + One(x \in C /\ x # p)
  <2>1. \A m \in C : m \in K <=> After(im, m) = x
    BY <1>2 DEF After, Before
  <2>2. CASE x \in C /\ x # p
    <3>1. PICK m \in C : After(im, m) = x
      BY <2>2 DEF Chained
    <3>2. \A y \in C : After(im, y) = x => y = m
      BY <3>1 DEF Chained
    <3>3. m \in K /\ m \notin R /\ \A y : y # m => (y \in R <=> y \in K)
      BY <1>2, <2>1, <3>1, <3>2
    <3>4. Cardinality(K) = Cardinality(R) - One(m \in R) + One(m \in K)
      BY <1>3, <3>3, OneElement
    <3> QED BY <1>4, <2>2, <3>3, <3>4 DEF One
  <2>3. CASE ~ (x \in C /\ x # p)
    <3>1. \A m \in C : After(im, m) # x
      BY <2>3 DEF Chained
    <3>2. R = K
      BY <1>2, <2>1, <3>1
    <3> QED BY <1>4, <2>3, <3>2 DEF One
  <2> QED BY <2>2, <2>3
<1>6. \A n : (\A q \in C : lk[q] # n) => (n \in Q <=> n \in R)
  <2> SUFFICES ASSUME NEW n, \A q \in C : lk[q] # n
               PROVE  n \in Q <=> n \in R
    OBVIOUS
  <2>1. n \in Impl => jm[n].next = IF n \in C THEN Null ELSE im[n].next
    BY DEF Relinked
  <2> QED BY <1>2, <2>1 DEF Before
<1>7. \A q \in C : lk[q] \notin R /\ (lk[q] \in Q <=> lk[After(im, q)] = x)
  <2> TAKE q \in C
  <2>1. lk[q] \in Impl /\ jm[lk[q]].next = lk[After(im, q)]
    BY <1>1 DEF Relinked
  <2>2. lk[q] \in C \/ im[lk[q]].next = Null
    BY <1>1 DEF Linked, D!Free
  <2> QED BY <1>2, <2>1, <2>2 DEF Before
<1>8. Cardinality(Q) = Cardinality(R) + One(Later(C, p, lk, x))
  <2>1. CASE Later(C, p, lk, x)
    <3>1. PICK y \in C \cup {Null} : y # p /\ lk[y] = x
      BY <2>1 DEF Later
    <3>2. PICK m \in C : After(im, m) = y
      BY <3>1 DEF Chained
    <3>3. \A q \in C : After(im, q) = y => q = m
      BY <3>2 DEF Chained
    <3>4. \A q \in C : lk[After(im, q)] = x => q = m
      BY <1>1, <3>1, <3>3 DEF Chained
    <3>5. PICK n : n = lk[m]
      OBVIOUS
    <3>6. n \in Q /\ n \notin R
      BY <1>7, <3>1, <3>2, <3>5
    <3>7. \A z : z # n => (z \in R <=> z \in Q)
      BY <1>6, <1>7, <3>4, <3>5
    <3>8. Cardinality(Q) = Cardinality(R) - One(n \in R) + One(n \in Q)
      BY <1>3, <3>7, OneElement
    <3> QED BY <1>4, <2>1, <3>6, <3>8 DEF One
  <2>2. CASE ~Later(C, p, lk, x)
    <3>1. \A q \in C : lk[After(im, q)] # x
      BY <2>2 DEF Chained, Later
    <3>2. \A q \in C : lk[q] \notin R /\ lk[q] \notin Q
      BY <1>7, <3>1
    <3>3. \A z : z \in Q <=> z \in R
      BY <1>6, <3>2
    <3>4. Q = R
      BY <3>3
    <3> QED BY <1>4, <2>2, <3>4 DEF One
  <2> QED BY <2>1, <2>2
<1> QED BY <1>2, <1>4, <1>5, <1>8 DEF One

\* So append() leaves all counts as they are, but that each new impl is
\* pointed to once.
NewOnes(C, lk, N) == {x \in N : \E q \in C : lk[q] = x}
Spliced(hd, hd2, h, p, d, e, v) ==
    /\ h \in Holder /\ d \in Holder /\ h # d /\ DOMAIN hd = Holder
    /\ p = hd[h] /\ e = hd[d] /\ hd2 = [hd EXCEPT ![d] = Null, ![h] = v]
Appends(hd, im, hd2, jm, h, p, d, e, C, lk, N) ==
    /\ Spliced(hd, hd2, h, p, d, e, lk[p]) /\ Chained(im, p, C)
    /\ Linked(im, C, lk, N, e) /\ Relinked(im, jm, C, lk)
LEMMA PointsAppended ==
    ASSUME NEW hd, NEW im, NEW jm, NEW dr, dr \in Seq(D!Pointer), NEW C, NEW lk, NEW N,
           NEW h, NEW d, NEW p, NEW e, NEW hd2,
           Appends(hd, im, hd2, jm, h, p, d, e, C, lk, N), NEW x, x # Null
    PROVE  /\ Points(hd, im, dr, x) \in Nat
           /\ Points(hd2, jm, dr, x) = Points(hd, im, dr, x) + One(x \in NewOnes(C, lk, N))
<1> USE DEF Appends
<1>1. /\ \A q \in C : lk[q] \in Impl /\ lk[q] \in C \cup N /\ lk[q] # e
      /\ \A q, r \in C \cup {Null} : lk[q] = lk[r] => q = r
      /\ Null \notin C
  <2>1. Null \notin C
    BY DEF Chained
  <2> QED BY <2>1, LinkInjective
<1>2. PICK hd1 : hd1 = [hd EXCEPT ![d] = Null]
  OBVIOUS
<1>3. Changes(hd, hd1, Holder, d, Null) /\ Changes(hd1, hd2, Holder, h, lk[p]) /\ hd1[h] = p
  BY <1>2 DEF Changes, Spliced
<1>4. PICK a, b, c, k : /\ a = Points(hd, im, dr, x) /\ b = Points(hd1, im, dr, x)
                        /\ c = Points(hd2, im, dr, x) /\ k = Points(hd2, jm, dr, x)
  OBVIOUS
<1>5. a \in Nat /\ b = a - One(e = x) + One(Null = x) /\ c = b - One(p = x) + One(lk[p] = x)
  <2>1. b = a - One(hd[d] = x) + One(Null = x)
    BY <1>3, <1>4, HolderSet
  <2>2. c = b - One(hd1[h] = x) + One(lk[p] = x)
    BY <1>3, <1>4, HolderSet
  <2>3. a \in Nat
    BY <1>4, Parts
  <2>4. hd[d] = e
    BY DEF Spliced
  <2> QED BY <1>3, <2>1, <2>2, <2>3, <2>4
<1>6. PICK H, O, O2, B, B2, L : /\ H = Cardinality(HeldBy(hd2, x)) /\ L = Cardinality(InLine(dr, x))
                                /\ O = Cardinality(OwnedBy(im, x)) /\ O2 = Cardinality(OwnedBy(jm, x))
                                /\ B = Cardinality(Before(im, x)) /\ B2 = Cardinality(Before(jm, x))
  OBVIOUS
<1>7. c = H + O + B + L /\ k = H + O2 + B2 + L /\ H \in Nat /\ L \in Nat
  <2>1. c = H + O + B + L /\ k = H + O2 + B2 + L
    BY <1>4, <1>6, Zenon DEF Points
  <2>2. H \in Nat /\ L \in Nat
    BY <1>6, Parts
  <2> QED BY <2>1, <2>2
<1>8. O \in Nat /\ O2 = O + One(x \in C /\ ~Sole(im, x))
  BY <1>1, <1>6, OwnedAppended
<1>9. B \in Nat /\ B2 \in Nat /\ B2 + One(x \in C /\ x # p) = B + One(Later(C, p, lk, x))
  BY <1>1, <1>6, BeforeAppended
<1>10. PICK i, j, u, v, w, y, z : /\ i = One(e = x) /\ j = One(p = x) /\ u = One(lk[p] = x)
                                  /\ v = One(x \in C /\ ~Sole(im, x)) /\ w = One(x \in C /\ x # p)
                                  /\ y = One(Later(C, p, lk, x))
                                  /\ z = One(x \in NewOnes(C, lk, N))
  OBVIOUS
<1>11. /\ i \in Nat /\ j \in Nat /\ u \in Nat /\ v \in Nat /\ w \in Nat /\ y \in Nat /\ z \in Nat
       /\ One(Null = x) = 0
  BY <1>10 DEF One
<1>12. j + w = One(x \in C)
  <2>1. p = x => x \in C
    BY DEF Chained
  <2> QED BY <1>10, <2>1 DEF One
<1>13. u + y = One(\E q \in C \cup {Null} : lk[q] = x)
  <2>1. p \in C \cup {Null}
    BY DEF Chained
  <2>2. ~ (lk[p] = x /\ Later(C, p, lk, x))
    BY <1>1, <2>1 DEF Later
  <2>3. (\E q \in C \cup {Null} : lk[q] = x) <=> lk[p] = x \/ Later(C, p, lk, x)
    BY <2>1 DEF Later
  <2> QED BY <1>10, <2>2, <2>3 DEF One
<1>14. One(\E q \in C \cup {Null} : lk[q] = x) + v = One(x \in C) + i + z
  <2>1. lk[Null] = e /\ N \cap C = {} /\ e \notin C /\ e \notin N
        /\ \A q \in C : IF Sole(im, q) THEN lk[q] = q ELSE lk[q] \in N
    BY DEF Linked
  <2>2. CASE x = e
    <3>1. \E q \in C \cup {Null} : lk[q] = x
      BY <2>1, <2>2
    <3>2. x \notin C /\ x \notin N
      BY <2>1, <2>2
    <3> QED BY <1>10, <2>2, <3>1, <3>2 DEF One, NewOnes
  <2>3. CASE x # e /\ x \in C
    <3>1. x \notin N
      BY <2>1, <2>3
    <3>2. Sole(im, x) <=> \E q \in C \cup {Null} : lk[q] = x
      BY <2>1, <2>3
    <3> QED BY <1>10, <2>3, <3>1, <3>2 DEF One, NewOnes
  <2>4. CASE x # e /\ x \notin C
    <3>1. (\E q \in C \cup {Null} : lk[q] = x) <=> x \in N /\ \E q \in C : lk[q] = x
      BY <2>1, <2>4
    <3> QED BY <1>10, <2>4, <3>1 DEF One, NewOnes
  <2> QED BY <2>2, <2>3, <2>4
<1>15. PICK s, t : s = One(x \in C) /\ t = One(\E q \in C \cup {Null} : lk[q] = x)
  OBVIOUS
<1>16. s \in Nat /\ t \in Nat /\ j + w = s /\ u + y = t /\ t + v = s + i + z
  BY <1>12, <1>13, <1>14, <1>15 DEF One
<1>17. k = a + z
  <2>1. b = a - i /\ c = b - j + u
    BY <1>5, <1>10, <1>11
  <2>2. O2 = O + v /\ B2 + w = B + y
    BY <1>8, <1>9, <1>10
  <2>3. /\ a \in Int /\ i \in Int /\ j \in Int /\ u \in Int /\ v \in Int /\ w \in Int
        /\ y \in Int /\ z \in Int /\ s \in Int /\ t \in Int /\ H \in Int /\ L \in Int
        /\ O \in Int /\ B \in Int /\ B2 \in Int
    BY <1>5, <1>7, <1>8, <1>9, <1>11, <1>16
  <2>4. c = ((a - i) - j) + u /\ c \in Int
    BY <2>1, <2>3
  <2>5. B2 = (B + y) - w
    BY <2>2, <2>3
  <2>6. k = ((c + v) + y) - w
    BY <1>7, <2>2, <2>3, <2>5
  <2>7. (t + v) - s = i + z
    BY <1>16, <2>3
  <2>8. w = s - j /\ y = t - u
    BY <1>16, <2>3
  <2> QED BY <2>3, <2>4, <2>6, <2>7, <2>8
<1> QED BY <1>4, <1>5, <1>10, <1>17

\* Nothing else points to an impl that is the chain's only, or to a new one.
OnlyHere(hd, im, h, C, q) == /\ \A n \in Impl : im[n].own # q
                             /\ \A n \in Impl \ C : im[n].next # q
                             /\ \A g \in Holder \ {h} : hd[g] # q
NoEntry(hd, im, h, C, N) ==
    /\ \A q \in C : Sole(im, q) => OnlyHere(hd, im, h, C, q)
    /\ \A x \in N : /\ \A n \in Impl : x \notin Targets(im, n)
                    /\ \A g \in Holder : hd[g] # x

\* Its one reference is the one of the chain.
LEMMA SoleOnly ==
    ASSUME NEW hd, NEW im, NEW dr, dr \in Seq(D!Pointer), NEW C, NEW h \in Holder,
           Chained(im, hd[h], C), NEW q \in C, Points(hd, im, dr, q) = 1
    PROVE  OnlyHere(hd, im, h, C, q)
<1>1. PICK H, O, B, L : /\ H = HeldBy(hd, q) /\ O = OwnedBy(im, q)
                        /\ B = Before(im, q) /\ L = InLine(dr, q)
  OBVIOUS
<1>2. PICK i, j, k, l : /\ i = Cardinality(H) /\ j = Cardinality(O)
                        /\ k = Cardinality(B) /\ l = Cardinality(L)
  OBVIOUS
<1>3. /\ IsFiniteSet(H) /\ IsFiniteSet(O) /\ IsFiniteSet(B) /\ IsFiniteSet(L)
      /\ i \in Nat /\ j \in Nat /\ k \in Nat /\ l \in Nat
  BY <1>1, <1>2, Parts
<1>4. i + j + k + l = 1
  BY <1>1, <1>2, Zenon DEF Points
<1>5. (i = 0 <=> H = {}) /\ (j = 0 <=> O = {}) /\ (k = 0 <=> B = {})
  BY <1>2, <1>3, FS_EmptySet
<1>6. (i = 1 => \E x : H = {x}) /\ (k = 1 => \E x : B = {x})
  BY <1>2, <1>3, FS_Singleton
<1>7. CASE q = hd[h]
  <2>1. h \in H
    BY <1>1, <1>7 DEF HeldBy
  <2>2. i # 0
    BY <1>5, <2>1
  <2>3. i = 1 /\ j = 0 /\ k = 0
    BY <1>3, <1>4, <2>2
  <2>4. H = {h} /\ O = {} /\ B = {}
    BY <1>5, <1>6, <2>1, <2>3
  <2> QED BY <1>1, <2>4 DEF OnlyHere, HeldBy, OwnedBy, Before
<1>8. CASE q # hd[h]
  <2>1. PICK m \in C : After(im, m) = q
    BY <1>8 DEF Chained
  <2>2. m \in B
    BY <1>1, <2>1 DEF Before, After, Chained
  <2>3. k # 0
    BY <1>5, <2>2
  <2>4. k = 1 /\ i = 0 /\ j = 0
    BY <1>3, <1>4, <2>3
  <2>5. B = {m} /\ H = {} /\ O = {}
    BY <1>5, <1>6, <2>2, <2>4
  <2> QED BY <1>1, <2>5 DEF OnlyHere, HeldBy, OwnedBy, Before
<1> QED BY <1>7, <1>8

\* So an impl that is not of the new chain points to what it did, and into
\* the chain it does not; one that is points into it with its next only.
LEMMA Outside ==
    ASSUME NEW hd, NEW im, NEW jm, NEW C, NEW lk, NEW N, NEW e, NEW h, Null \notin C,
           Linked(im, C, lk, N, e), Relinked(im, jm, C, lk), NoEntry(hd, im, h, C, N),
           NEW n \in Impl, \A q \in C : lk[q] # n
    PROVE  /\ Targets(jm, n) \subseteq Targets(im, n) \cup {Null}
           /\ \A q \in C : lk[q] \notin Targets(jm, n)
<1>1. jm[n].own = im[n].own /\ jm[n].next = IF n \in C THEN Null ELSE im[n].next
  BY DEF Relinked
<1>2. \A q \in C : lk[q] # Null
  BY DeleterAssumption DEF Linked
<1>3. ASSUME NEW q \in C
      PROVE  lk[q] # im[n].own /\ (n \notin C => lk[q] # im[n].next)
  <2>1. CASE Sole(im, q)
    <3>1. lk[q] = q
      BY <2>1 DEF Linked
    <3> QED BY <2>1, <3>1 DEF NoEntry, OnlyHere
  <2>2. CASE ~Sole(im, q)
    <3>1. lk[q] \in N
      BY <2>2 DEF Linked
    <3> QED BY <3>1 DEF NoEntry, Targets
  <2> QED BY <2>1, <2>2
<1> QED BY <1>1, <1>2, <1>3 DEF Targets

\* See Outside.
LEMMA Inside ==
    ASSUME NEW hd, NEW im, NEW jm, NEW C, NEW lk, NEW N, NEW e, NEW h, Null \notin C,
           Linked(im, C, lk, N, e), Relinked(im, jm, C, lk), NoEntry(hd, im, h, C, N),
           NEW q \in C, NEW r \in C, lk[r] \in Targets(jm, lk[q])
    PROVE  lk[r] = lk[After(im, q)]
<1>1. /\ jm[lk[q]].next = lk[After(im, q)]
      /\ jm[lk[q]].own = IF Sole(im, q) THEN im[q].own ELSE q
  BY DEF Relinked
<1>2. SUFFICES ASSUME lk[r] = jm[lk[q]].own PROVE FALSE
  BY <1>1 DEF Targets
<1>3. CASE Sole(im, r)
  <2>1. lk[r] = r
    BY <1>3 DEF Linked
  <2> QED BY <1>1, <1>2, <1>3, <2>1 DEF NoEntry, Sole, OnlyHere
<1>4. CASE ~Sole(im, r)
  <2>1. lk[r] \in N /\ lk[r] \notin C
    BY <1>4 DEF Linked
  <2>2. Sole(im, q)
    BY <1>1, <1>2, <2>1
  <2> QED BY <1>1, <1>2, <2>1, <2>2 DEF NoEntry, Sole, Targets, OnlyHere
<1> QED BY <1>3, <1>4

\* append() closes no cycle.
LEMMA NoCycleAppended ==
    ASSUME NEW hd, NEW im, NEW jm, NEW C, NEW lk, NEW N, NEW e, NEW h, NEW p,
           NoCycle(im), Chained(im, p, C),
           Linked(im, C, lk, N, e), Relinked(im, jm, C, lk), NoEntry(hd, im, h, C, N)
    PROVE  NoCycle(jm)
<1> SUFFICES ASSUME NEW A \in SUBSET Impl, A # {}
             PROVE  /\ \E n \in A : \A m \in A : n \notin Targets(jm, m)
                    /\ \E n \in A : \A m \in A : m \notin Targets(jm, n)
  BY DEF NoCycle
<1>1. Null \notin C /\ Null \notin Impl
  BY DeleterAssumption DEF Chained
<1>2. /\ \A q \in C : lk[q] \in Impl /\ lk[q] \in C \cup N /\ lk[q] # e
      /\ \A q, r \in C \cup {Null} : lk[q] = lk[r] => q = r
  BY <1>1, LinkInjective
<1>3. PICK V, B : V = {n \in A : \A q \in C : lk[q] # n} /\ B = {q \in C : lk[q] \in A}
  OBVIOUS
<1>4. ASSUME NEW n \in V
      PROVE  /\ Targets(jm, n) \subseteq Targets(im, n) \cup {Null}
             /\ \A q \in C : lk[q] \notin Targets(jm, n)
  <2>1. n \in Impl /\ \A q \in C : lk[q] # n
    BY <1>3
  <2> QED BY <1>1, <2>1, Outside
<1>5. \A q, r \in C : lk[r] \in Targets(jm, lk[q]) => r = After(im, q)
  <2> TAKE q, r \in C
  <2> HAVE lk[r] \in Targets(jm, lk[q])
  <2>1. lk[r] = lk[After(im, q)]
    BY <1>1, Inside
  <2>2. After(im, q) \in C \cup {Null}
    BY DEF Chained
  <2> QED BY <1>2, <2>1, <2>2
<1>6. \A n \in A : n \in V \/ \E q \in B : lk[q] = n
  BY <1>3
<1>7. V \in SUBSET Impl /\ B \cap Impl \in SUBSET Impl /\ B \subseteq C /\ \A q \in B : lk[q] \in A
  BY <1>3
<1>8. \A q \in C \ Impl : After(im, q) = Null
  BY DEF After
<1>9. \A q \in C \cap Impl : After(im, q) \in Targets(im, q)
  BY DEF After, Targets
<1>10. \E n \in A : \A m \in A : n \notin Targets(jm, m)
  <2>1. CASE B = {}
    <3>1. V = A
      BY <1>3, <1>6, <2>1
    <3>2. PICK n \in A : \A m \in A : n \notin Targets(im, m)
      BY Zenon DEF NoCycle
    <3>3. n # Null
      BY <1>1
    <3> QED BY <1>4, <3>1, <3>2, <3>3
  <2>2. CASE B # {}
    <3>1. PICK q \in B : \A m \in B \cap Impl : q \notin Targets(im, m)
      <4>1. CASE B \cap Impl = {}
        BY <2>2, <4>1
      <4>2. CASE B \cap Impl # {}
        <5>1. PICK q \in B \cap Impl : \A m \in B \cap Impl : q \notin Targets(im, m)
          BY <1>7, <4>2, Zenon DEF NoCycle
        <5> QED BY <5>1
      <4> QED BY <4>1, <4>2
    <3>2. \A r \in B : lk[q] \notin Targets(jm, lk[r])
      <4> SUFFICES ASSUME NEW r \in B, lk[q] \in Targets(jm, lk[r]) PROVE FALSE
        OBVIOUS
      <4>1. q = After(im, r)
        BY <1>5, <1>7
      <4>2. r \in Impl
        BY <1>1, <1>7, <1>8, <4>1
      <4> QED BY <1>7, <1>9, <3>1, <4>1, <4>2
    <3>3. \A m \in A : lk[q] \notin Targets(jm, m)
      BY <1>4, <1>6, <1>7, <3>2
    <3> QED BY <1>7, <3>3
  <2> QED BY <2>1, <2>2
<1>11. \E n \in A : \A m \in A : m \notin Targets(jm, n)
  <2>1. CASE V # {}
    <3>1. PICK n \in V : \A m \in V : m \notin Targets(im, n)
      BY <1>7, <2>1, Zenon DEF NoCycle
    <3>2. \A m \in V : m \notin Targets(jm, n)
      BY <1>1, <1>4, <1>7, <3>1
    <3>3. \A m \in A : m \notin Targets(jm, n)
      BY <1>4, <1>6, <1>7, <3>2
    <3> QED BY <1>3, <3>3
  <2>2. CASE V = {}
    <3>1. B # {}
      BY <1>6, <2>2
    <3>2. PICK q \in B : q \notin Impl \/ \A m \in B : m \notin Targets(im, q)
      <4>1. CASE B \subseteq Impl
        <5>1. B \in SUBSET Impl
          BY <4>1
        <5> QED BY <3>1, <5>1, Zenon DEF NoCycle
      <4>2. CASE ~ (B \subseteq Impl)
        BY <4>2
      <4> QED BY <4>1, <4>2
    <3>3. After(im, q) \notin B
      BY <1>1, <1>7, <1>8, <1>9, <3>2
    <3>4. \A r \in B : lk[r] \notin Targets(jm, lk[q])
      BY <1>5, <1>7, <3>3
    <3>5. \A m \in A : m \notin Targets(jm, lk[q])
      BY <1>6, <2>2, <3>4
    <3> QED BY <1>7, <3>5
  <2> QED BY <2>1, <2>2
<1> QED BY <1>10, <1>11

\* What a deleter with no part in append() reaches stays what it was, and the
\* appended one reaches what both did.
LEMMA ReachesApart ==
    ASSUME NEW hd, NEW im, NEW jm, NEW C, NEW lk, NEW N, NEW e, NEW h, Null \notin C,
           Linked(im, C, lk, N, e), Relinked(im, jm, C, lk), NoEntry(hd, im, h, C, N),
           NEW y, NEW c, Reaches(im, y, c), \A q \in C : lk[q] # y
    PROVE  Reaches(jm, y, c)
<1>1. PICK S \in SUBSET D!Pointer : Within(im, y, S, c)
  BY DEF Reaches
<1>2. PICK T : T = {x \in S : \A q \in C : lk[q] # x}
  OBVIOUS
<1>3. T \in SUBSET D!Pointer /\ y \in T /\ T \cap Resource \subseteq c
  BY <1>1, <1>2 DEF Within
<1>4. Leads(jm, T)
  <2> SUFFICES ASSUME NEW n \in T \cap Impl
               PROVE  Targets(jm, n) \subseteq T \cup {Null}
    BY DEF Leads
  <2>1. n \in S \cap Impl /\ \A q \in C : lk[q] # n
    BY <1>2
  <2>2. /\ Targets(jm, n) \subseteq Targets(im, n) \cup {Null}
        /\ \A q \in C : lk[q] \notin Targets(jm, n)
    BY <2>1, Outside
  <2>3. Targets(im, n) \subseteq S \cup {Null}
    BY <1>1, <2>1 DEF Within, Leads
  <2> QED BY <1>2, <2>2, <2>3
<1> QED BY <1>3, <1>4 DEF Reaches, Within

\* See ReachesApart.
LEMMA ReachesAppended ==
    ASSUME NEW hd, NEW im, NEW jm, NEW C, NEW lk, NEW N, NEW e, NEW h, NEW p,
           C = Follow(im, p), Chained(im, p, C), p \in D!Pointer,
           Linked(im, C, lk, N, e), Relinked(im, jm, C, lk), NoEntry(hd, im, h, C, N),
           NEW c, NEW k, Reaches(im, p, c), Reaches(im, e, k)
    PROVE  Reaches(jm, lk[p], c \cup k)
<1>1. Null \notin C /\ Null \notin Impl /\ Impl \cap Resource = {} /\ Null \in D!Pointer
  BY DeleterAssumption DEF Chained, D!Pointer
<1>2. /\ \A q \in C : lk[q] \in Impl /\ lk[q] \in C \cup N
      /\ N \subseteq Impl /\ lk[Null] = e
  <2>1. \A q \in C : lk[q] \in Impl /\ lk[q] \in C \cup N
    BY <1>1, LinkInjective
  <2>2. N \subseteq Impl /\ lk[Null] = e
    BY DEF Linked
  <2> QED BY <2>1, <2>2
<1>3. PICK S \in SUBSET D!Pointer : Within(im, p, S, c)
  BY DEF Reaches
<1>4. PICK U \in SUBSET D!Pointer : Within(im, e, U, k)
  BY DEF Reaches
<1>5. C \subseteq S
  <2>1. S \cup {Null} \in SUBSET D!Pointer /\ p \in S \cup {Null}
    BY <1>1, <1>3 DEF Within
  <2>2. Goes(im, S \cup {Null})
    BY <1>1, <1>3 DEF Within, Leads, Goes, Targets
  <2>3. C \subseteq S \cup {Null}
    BY <2>1, <2>2 DEF Follow
  <2> QED BY <1>1, <2>3
<1>6. PICK T : T = S \cup U \cup N
  OBVIOUS
<1>7. T \in SUBSET D!Pointer /\ T \cap Resource \subseteq c \cup k
  BY <1>1, <1>2, <1>3, <1>4, <1>6 DEF Within, D!Pointer
<1>8. \A q \in C \cup {Null} : lk[q] \in T
  BY <1>2, <1>4, <1>5, <1>6 DEF Within
<1>9. lk[p] \in T
  BY <1>8 DEF Chained
<1>10. \A n \in N : Targets(im, n) = {Null}
  BY DEF Linked, Targets, D!Free
<1>11. \A n \in T \cap Impl : Targets(im, n) \subseteq T \cup {Null}
  BY <1>3, <1>4, <1>6, <1>10 DEF Within, Leads
<1>12. Leads(jm, T)
  <2> SUFFICES ASSUME NEW n \in T \cap Impl
               PROVE  Targets(jm, n) \subseteq T \cup {Null}
    BY DEF Leads
  <2>1. CASE \A q \in C : lk[q] # n
    <3>1. Targets(jm, n) \subseteq Targets(im, n) \cup {Null}
      BY <1>1, <2>1, Outside
    <3> QED BY <1>11, <3>1
  <2>2. CASE \E q \in C : lk[q] = n
    <3>1. PICK q \in C : lk[q] = n
      BY <2>2
    <3>2. /\ jm[n].next = lk[After(im, q)]
          /\ jm[n].own = IF Sole(im, q) THEN im[q].own ELSE q
      BY <3>1 DEF Relinked
    <3>3. lk[After(im, q)] \in T
      BY <1>8 DEF Chained
    <3>4. jm[n].own \in T \cup {Null}
      <4>1. CASE Sole(im, q)
        <5>1. q \in T \cap Impl
          BY <1>5, <1>6, <4>1 DEF Sole
        <5> QED BY <1>11, <3>2, <4>1, <5>1 DEF Targets
      <4>2. CASE ~Sole(im, q)
        BY <1>5, <1>6, <3>2, <4>2
      <4> QED BY <4>1, <4>2
    <3> QED BY <3>2, <3>3, <3>4 DEF Targets
  <2> QED BY <2>1, <2>2
<1> QED BY <1>7, <1>9, <1>12 DEF Reaches, Within

\* A set goes into one that is not smaller.
Embeds(S, T) == \E f \in [S -> T] : \A x, y \in S : f[x] = f[y] => x = y
LEMMA Fits ==
    ASSUME NEW S, NEW T, IsFiniteSet(S), IsFiniteSet(T), Cardinality(S) <= Cardinality(T)
    PROVE  Embeds(S, T)
<1>1. PICK m, n : m = Cardinality(S) /\ n = Cardinality(T)
  OBVIOUS
<1>2. m \in Nat /\ n \in Nat /\ m <= n
  BY <1>1, FS_CardinalityType
<1>3. PICK f \in Bijection(1 .. m, S) : TRUE
  BY <1>1, FS_CardinalityType DEF ExistsBijection
<1>4. PICK g \in Bijection(1 .. n, T) : TRUE
  BY <1>1, FS_CardinalityType DEF ExistsBijection
<1>5. f \in [1 .. m -> S] /\ \A x \in S : \E i \in 1 .. m : f[i] = x
  BY <1>3 DEF Bijection, Surjection
<1>6. g \in [1 .. n -> T] /\ \A i, j \in 1 .. n : g[i] = g[j] => i = j
  BY <1>4 DEF Bijection, Injection, IsInjective
<1>7. PICK c : c = [x \in S |-> CHOOSE i \in 1 .. m : f[i] = x]
  OBVIOUS
<1>8. \A x \in S : c[x] \in 1 .. n /\ f[c[x]] = x
  <2> TAKE x \in S
  <2>1. c[x] \in 1 .. m /\ f[c[x]] = x
    BY <1>5, <1>7
  <2> QED BY <1>2, <2>1
<1>9. PICK k : k = [x \in S |-> g[c[x]]]
  OBVIOUS
<1>10. k \in [S -> T]
  BY <1>6, <1>8, <1>9
<1>11. \A x, y \in S : k[x] = k[y] => x = y
  BY <1>6, <1>8, <1>9
<1> QED BY <1>10, <1>11 DEF Embeds

\* append() in other words.
Lk(e, W, new, p) == IF p = Null THEN e ELSE IF p \in W THEN new[p] ELSE p
WasAt(e, C, W, new, n) == CHOOSE p \in C : Lk(e, W, new, p) = n
AppendBody(h, d, C, W, new) ==
    /\ D!UserCode /\ h # d /\ ~D!Empty(d)
    /\ holder[d] \notin C
    /\ D!Cardinality(W) <= D!Cardinality(D!Allocatable)
    /\ impl' = [n \in Impl |->
          IF \E p \in C : Lk(holder[d], W, new, p) = n
          THEN [refs |-> 1, next |-> Lk(holder[d], W, new, D!After(WasAt(holder[d], C, W, new, n))),
                own |-> IF WasAt(holder[d], C, W, new, n) \in W THEN WasAt(holder[d], C, W, new, n) ELSE impl[n].own]
          ELSE IF n \in C THEN [impl[n] EXCEPT !.next = Null]
          ELSE impl[n]]
    /\ holder' = [holder EXCEPT ![d] = Null, ![h] = Lk(holder[d], W, new, holder[h])]
    /\ covers' = [covers EXCEPT ![d] = {}, ![h] = @ \cup covers[d]]
    /\ UNCHANGED <<dropping, released>>

Choice(h, d, C, W, new, lk) ==
    /\ C = D!Chain(holder[h]) /\ W = {p \in C : ~D!Owned(p)}
    /\ new = CHOOSE f \in D!Injection(W, D!Allocatable) : TRUE
    /\ AppendBody(h, d, C, W, new)
    /\ lk = [p \in C \cup {Null} |-> Lk(holder[d], W, new, p)]
LEMMA AppendIs ==
    ASSUME NEW h \in Holder, NEW d \in Holder, D!append(h, d)
    PROVE  \E C, W, new, lk : Choice(h, d, C, W, new, lk)
<1>1. PICK C : C = D!Chain(holder[h])
  OBVIOUS
<1>2. PICK W : W = {p \in C : ~D!Owned(p)}
  OBVIOUS
<1>3. PICK new : new = CHOOSE f \in D!Injection(W, D!Allocatable) : TRUE
  OBVIOUS
<1>4. PICK lk : lk = [p \in C \cup {Null} |-> Lk(holder[d], W, new, p)]
  OBVIOUS
<1>5. AppendBody(h, d, C, W, new)
  BY <1>1, <1>2, <1>3 DEF D!append, AppendBody, Lk, WasAt
<1>6. Choice(h, d, C, W, new, lk)
  BY <1>1, <1>2, <1>3, <1>4, <1>5, Zenon DEF Choice
<1> QED BY <1>6

\* The state before append(): the chain, and what can take its place.
LEMMA AppendPlaces ==
    ASSUME DelInv, NEW h \in Holder, NEW d \in Holder, NEW C, NEW W, NEW new, NEW lk,
           Choice(h, d, C, W, new, lk)
    PROVE  /\ C = Follow(impl, holder[h]) /\ Chained(impl, holder[h], C)
           /\ Linked(impl, C, lk, D!Allocatable, holder[d])
<1>1. /\ D!UserCode /\ h # d /\ holder[d] # Null /\ holder[d] \notin C
      /\ D!Cardinality(W) <= D!Cardinality(D!Allocatable)
  BY DEF Choice, AppendBody, D!Empty
<1>2. holder[h] \in D!Pointer /\ holder[d] \in D!Pointer
  BY DelTypes
<1>3. C = Follow(impl, holder[h]) /\ Chained(impl, holder[h], C)
  <2>1. C = Follow(impl, holder[h])
    BY <1>2, ChainIs DEF Choice
  <2>2. Nexts(impl) /\ NoCycle(impl)
    <3>1. Nexts(impl)
      BY DelTypes DEF Nexts
    <3> QED BY <3>1 DEF DelInv
  <2> QED BY <1>2, <2>1, <2>2, IsChained
<1>4. PICK N : N = D!Allocatable
  OBVIOUS
<1>5. /\ N \subseteq Impl /\ \A n \in N : impl[n] = D!Free /\ ~Occurs(holder, impl, dropping, n)
  BY <1>1, <1>4, Fresh
<1>6. new \in [W -> N] /\ \A p, q \in W : new[p] = new[q] => p = q
  <2>1. IsFiniteSet(N)
    BY <1>5, DeleterAssumption, FS_Subset
  <2>2. IsFiniteSet(W)
    <3>1. IsFiniteSet(C \cap Impl)
      BY DeleterAssumption, FS_Subset
    <3>2. C \ Impl = {} \/ \E r : C \ Impl = {r}
      <4>1. \A q \in C \ Impl : After(impl, q) = Null
        BY DEF After
      <4>2. \A q, r \in C \ Impl : q = r
        BY <1>3, <4>1 DEF Chained
      <4> QED BY <4>2
    <3>3. IsFiniteSet(C \ Impl)
      <4>1. CASE C \ Impl = {}
        BY <4>1, FS_EmptySet
      <4>2. CASE \E r : C \ Impl = {r}
        <5>1. PICK r : C \ Impl = {r}
          BY <4>2
        <5>2. IsFiniteSet({r})
          BY FS_Singleton
        <5> QED BY <5>1, <5>2
      <4> QED BY <3>2, <4>1, <4>2
    <3>4. C = (C \cap Impl) \cup (C \ Impl)
      OBVIOUS
    <3>5. IsFiniteSet((C \cap Impl) \cup (C \ Impl))
      BY <3>1, <3>3, FS_Union
    <3>6. IsFiniteSet(C)
      BY <3>4, <3>5
    <3>7. W \in SUBSET C
      BY DEF Choice
    <3> QED BY <3>6, <3>7, FS_Subset
  <2>3. Cardinality(W) <= Cardinality(N)
    BY <1>1, <1>4, DeleterSizes
  <2>4. Embeds(W, N)
    BY <2>1, <2>2, <2>3, Fits
  <2>5. \E f : f \in D!Injection(W, N)
    BY <2>4 DEF Embeds, D!Injection, D!IsInjective
  <2>6. new \in D!Injection(W, N)
    BY <1>4, <2>5, Zenon DEF Choice
  <2> QED BY <2>6 DEF D!Injection, D!IsInjective
<1>7. \A q \in C : IF Sole(impl, q) THEN q \notin W ELSE q \in W
  BY DEF Choice, Sole, D!Owned
<1>8. /\ lk[Null] = holder[d] /\ Null \notin C
      /\ \A q \in C : lk[q] = IF q \in W THEN new[q] ELSE q
  <2>1. Null \notin C
    BY <1>3 DEF Chained
  <2> QED BY <2>1 DEF Choice, Lk
<1>9. \A q \in C : q \notin N
  <2> SUFFICES ASSUME NEW q \in C, q \in N PROVE FALSE
    OBVIOUS
  <2>1. CASE q = holder[h]
    BY <1>5, <2>1 DEF Occurs
  <2>2. CASE q # holder[h]
    <3>1. PICK m \in C : After(impl, m) = q
      BY <1>3, <2>2 DEF Chained
    <3>2. m \in Impl /\ q \in Targets(impl, m)
      BY <1>3, <3>1 DEF After, Targets, Chained
    <3> QED BY <1>5, <3>2 DEF Occurs
  <2> QED BY <2>1, <2>2
<1>10. holder[d] \notin N
  BY <1>5 DEF Occurs
<1>11. Linked(impl, C, lk, N, holder[d])
  <2>1. \A q \in C : IF Sole(impl, q) THEN lk[q] = q ELSE lk[q] \in N
    <3> TAKE q \in C
    <3>1. CASE Sole(impl, q)
      BY <1>7, <1>8, <3>1
    <3>2. CASE ~Sole(impl, q)
      <4>1. q \in W /\ lk[q] = new[q]
        BY <1>7, <1>8, <3>2
      <4> QED BY <1>6, <3>2, <4>1
    <3> QED BY <3>1, <3>2
  <2>2. \A q, r \in C : lk[q] = lk[r] => q = r
    BY <1>6, <1>8, <1>9
  <2>3. N \cap C = {}
    BY <1>9
  <2> QED BY <1>1, <1>5, <1>8, <1>10, <2>1, <2>2, <2>3 DEF Linked
<1> QED BY <1>3, <1>4, <1>11

\* The step: each impl that took a place has what belongs there.
LEMMA AppendRelinks ==
    ASSUME DelInv, NEW h \in Holder, NEW d \in Holder, NEW C, NEW W, NEW new, NEW lk,
           Choice(h, d, C, W, new, lk), NEW N, Chained(impl, holder[h], C), Linked(impl, C, lk, N, holder[d])
    PROVE  /\ Relinked(impl, impl', C, lk)
           /\ \A n \in Impl : n \notin C /\ (\A q \in C : lk[q] # n) => impl'[n] = impl[n]
           /\ impl' \in [Impl -> [refs : Nat, own : D!Pointer, next : D!Pointer]]
           /\ holder' = [holder EXCEPT ![d] = Null, ![h] = lk[holder[h]]]
<1>1. PICK e, p : e = holder[d] /\ p = holder[h]
  OBVIOUS
<1>2. /\ Null \notin C /\ p \in C \cup {Null}
      /\ \A q \in C : After(impl, q) \in C \cup {Null}
      /\ \A q \in C \cup {Null} : lk[q] = Lk(e, W, new, q)
      /\ C \subseteq D!Pointer /\ e \in D!Pointer
  BY <1>1, DelTypes DEF Chained, Choice
<1>3. /\ \A q \in C : lk[q] \in Impl
      /\ \A q, r \in C : lk[q] = lk[r] => q = r
      /\ \A q \in C \cup {Null} : lk[q] \in D!Pointer
  <2>1. /\ \A q \in C : lk[q] \in Impl
        /\ \A q, r \in C \cup {Null} : lk[q] = lk[r] => q = r
    BY <1>2, LinkInjective
  <2>2. lk[Null] = e
    BY <1>1 DEF Linked
  <2> QED BY <1>2, <2>1, <2>2 DEF D!Pointer
<1>4. impl' = [n \in Impl |->
          IF \E q \in C : Lk(e, W, new, q) = n
          THEN [refs |-> 1, next |-> Lk(e, W, new, D!After(WasAt(e, C, W, new, n))),
                own |-> IF WasAt(e, C, W, new, n) \in W THEN WasAt(e, C, W, new, n) ELSE impl[n].own]
          ELSE IF n \in C THEN [impl[n] EXCEPT !.next = Null]
          ELSE impl[n]]
  BY <1>1 DEF Choice, AppendBody
<1>5. ASSUME NEW q \in C
      PROVE  impl'[lk[q]] = [refs |-> 1, next |-> lk[After(impl, q)],
                             own |-> IF Sole(impl, q) THEN impl[q].own ELSE q]
  <2>1. PICK n : n = lk[q]
    OBVIOUS
  <2>2. n \in Impl /\ Lk(e, W, new, q) = n
    BY <1>2, <1>3, <2>1
  <2>3. WasAt(e, C, W, new, n) = q
    <3>1. \A r \in C : Lk(e, W, new, r) = n => r = q
      BY <1>2, <1>3, <2>1
    <3> QED BY <2>2, <3>1 DEF WasAt
  <2>4. impl'[n] = [refs |-> 1, next |-> Lk(e, W, new, D!After(q)),
                    own |-> IF q \in W THEN q ELSE impl[n].own]
    BY <1>4, <2>2, <2>3
  <2>5. Lk(e, W, new, D!After(q)) = lk[After(impl, q)]
    BY <1>2 DEF After, D!After
  <2>6. IF Sole(impl, q) THEN q \notin W /\ n = q ELSE q \in W
    BY <2>1 DEF Choice, Linked, Sole, D!Owned
  <2> QED BY <2>1, <2>4, <2>5, <2>6
<1>6. ASSUME NEW n \in Impl, \A q \in C : lk[q] # n
      PROVE  impl'[n] = IF n \in C THEN [impl[n] EXCEPT !.next = Null] ELSE impl[n]
  <2>1. ~ \E q \in C : Lk(e, W, new, q) = n
    BY <1>2, <1>6
  <2> QED BY <1>4, <2>1
<1>7. ASSUME NEW n \in Impl, \A q \in C : lk[q] # n
      PROVE  /\ impl'[n].own = impl[n].own /\ impl'[n].refs = impl[n].refs
             /\ impl'[n].next = IF n \in C THEN Null ELSE impl[n].next
             /\ impl'[n] \in [refs : Nat, own : D!Pointer, next : D!Pointer]
  <2>1. impl[n] \in [refs : Nat, own : D!Pointer, next : D!Pointer]
    BY DelTypes
  <2>2. PICK a : a = [impl[n] EXCEPT !.next = Null]
    OBVIOUS
  <2>3. /\ a.own = impl[n].own /\ a.refs = impl[n].refs /\ a.next = Null
        /\ a \in [refs : Nat, own : D!Pointer, next : D!Pointer]
    BY <2>1, <2>2 DEF D!Pointer
  <2>4. impl'[n] = IF n \in C THEN a ELSE impl[n]
    BY <1>6, <1>7, <2>2
  <2> QED BY <2>1, <2>3, <2>4
<1>8. Relinked(impl, impl', C, lk)
  <2>1. ASSUME NEW q \in C
        PROVE  /\ impl'[lk[q]].refs = 1 /\ impl'[lk[q]].next = lk[After(impl, q)]
               /\ impl'[lk[q]].own = IF Sole(impl, q) THEN impl[q].own ELSE q
    <3>1. impl'[lk[q]] = [refs |-> 1, next |-> lk[After(impl, q)],
                         own |-> IF Sole(impl, q) THEN impl[q].own ELSE q]
      BY <1>5
    <3> QED BY <3>1
  <2>2. \A n \in Impl : (\A q \in C : lk[q] # n) =>
            /\ impl'[n].own = impl[n].own /\ impl'[n].refs = impl[n].refs
            /\ impl'[n].next = IF n \in C THEN Null ELSE impl[n].next
    BY <1>7
  <2> QED BY <2>1, <2>2, Zenon DEF Relinked
<1>9. impl' \in [Impl -> [refs : Nat, own : D!Pointer, next : D!Pointer]]
  <2>1. ASSUME NEW n \in Impl
        PROVE  impl'[n] \in [refs : Nat, own : D!Pointer, next : D!Pointer]
    <3>1. CASE \E q \in C : lk[q] = n
      <4>1. PICK q \in C : lk[q] = n
        BY <3>1
      <4>2. impl'[n] = [refs |-> 1, next |-> lk[After(impl, q)],
                        own |-> IF Sole(impl, q) THEN impl[q].own ELSE q]
        BY <1>5, <4>1
      <4>3. lk[After(impl, q)] \in D!Pointer
        BY <1>2, <1>3
      <4>4. (IF Sole(impl, q) THEN impl[q].own ELSE q) \in D!Pointer
        BY <1>2, DelTypes DEF Sole
      <4> QED BY <4>2, <4>3, <4>4
    <3>2. CASE \A q \in C : lk[q] # n
      BY <1>7, <3>2
    <3> QED BY <3>1, <3>2
  <2>2. impl' = [n \in Impl |-> impl'[n]]
    BY <1>4
  <2> QED BY <2>1, <2>2
<1>10. holder' = [holder EXCEPT ![d] = Null, ![h] = lk[holder[h]]]
  BY <1>1, <1>2 DEF Choice, AppendBody
<1>11. \A n \in Impl : n \notin C /\ (\A q \in C : lk[q] # n) => impl'[n] = impl[n]
  BY <1>6
<1> QED BY <1>8, <1>9, <1>10, <1>11

\* append().
LEMMA AppendStep ==
    ASSUME DelInv, NEW h \in Holder, NEW d \in Holder, D!append(h, d)
    PROVE  DelInv'
<1>1. PICK C, W, new, lk : Choice(h, d, C, W, new, lk)
  BY AppendIs
<1>2. PICK p, e, N : p = holder[h] /\ e = holder[d] /\ N = D!Allocatable
  OBVIOUS
<1>3. /\ D!UserCode /\ h # d /\ e # Null
      /\ covers' = [covers EXCEPT ![d] = {}, ![h] = covers[h] \cup covers[d]]
      /\ UNCHANGED <<dropping, released>>
  BY <1>1, <1>2, DelTypes DEF Choice, AppendBody, D!Empty
<1>4. C = Follow(impl, p) /\ Chained(impl, p, C) /\ Linked(impl, C, lk, N, e)
  <2>1. /\ C = Follow(impl, holder[h]) /\ Chained(impl, holder[h], C)
        /\ Linked(impl, C, lk, D!Allocatable, holder[d])
    BY <1>1, AppendPlaces
  <2> QED BY <1>2, <2>1
<1>5. /\ Relinked(impl, impl', C, lk)
      /\ \A n \in Impl : n \notin C /\ (\A q \in C : lk[q] # n) => impl'[n] = impl[n]
      /\ impl' \in [Impl -> [refs : Nat, own : D!Pointer, next : D!Pointer]]
      /\ holder' = [holder EXCEPT ![d] = Null, ![h] = lk[p]]
  <2>1. Chained(impl, holder[h], C) /\ Linked(impl, C, lk, N, holder[d])
    BY <1>2, <1>4
  <2>2. /\ Relinked(impl, impl', C, lk)
        /\ \A n \in Impl : n \notin C /\ (\A q \in C : lk[q] # n) => impl'[n] = impl[n]
        /\ impl' \in [Impl -> [refs : Nat, own : D!Pointer, next : D!Pointer]]
        /\ holder' = [holder EXCEPT ![d] = Null, ![h] = lk[holder[h]]]
    BY <1>1, <2>1, AppendRelinks
  <2> QED BY <1>2, <2>2, Zenon
<1>6. /\ dropping \in Seq(D!Pointer) /\ DOMAIN holder = Holder
      /\ p \in D!Pointer /\ e \in D!Pointer
  BY <1>2, DelTypes
<1>7. \A n \in N : /\ n \in Impl /\ impl[n] = D!Free /\ Points(holder, impl, dropping, n) = 0
                   /\ ~Occurs(holder, impl, dropping, n)
  BY <1>2, <1>3, Fresh
<1>8. /\ Null \notin C /\ Null \notin Impl
      /\ \A q \in C : lk[q] \in Impl /\ lk[q] \in C \cup N
  <2>1. Null \notin C
    BY <1>4 DEF Chained
  <2>2. \A q \in C : lk[q] \in Impl /\ lk[q] \in C \cup N
    BY <1>4, <2>1, LinkInjective
  <2> QED BY <2>1, <2>2, DeleterAssumption
<1>9. NoEntry(holder, impl, h, C, N)
  <2>1. ASSUME NEW q \in C, Sole(impl, q)
        PROVE  OnlyHere(holder, impl, h, C, q)
    <3>1. Points(holder, impl, dropping, q) = 1
      BY <2>1 DEF Sole, DelInv, Counted
    <3>2. Chained(impl, holder[h], C)
      BY <1>2, <1>4
    <3> QED BY <1>6, <3>1, <3>2, SoleOnly
  <2>2. \A x \in N : /\ \A n \in Impl : x \notin Targets(impl, n)
                     /\ \A g \in Holder : holder[g] # x
    BY <1>7, Zenon DEF Occurs
  <2> QED BY <2>1, <2>2, Zenon DEF NoEntry
<1>10. ASSUME NEW x, x # Null
       PROVE  /\ Points(holder, impl, dropping, x) \in Nat
              /\ Points(holder, impl, dropping, x)'
                   = Points(holder, impl, dropping, x) + One(x \in NewOnes(C, lk, N))
  <2>1. /\ Points(holder, impl, dropping, x) \in Nat
        /\ Points(holder', impl', dropping, x)
              = Points(holder, impl, dropping, x) + One(x \in NewOnes(C, lk, N))
    <3>1. Spliced(holder, holder', h, p, d, e, lk[p])
      BY <1>2, <1>3, <1>5, <1>6 DEF Spliced
    <3>2. Appends(holder, impl, holder', impl', h, p, d, e, C, lk, N)
      BY <1>4, <1>5, <3>1, Zenon DEF Appends
    <3> QED BY <1>6, <1>10, <3>2, PointsAppended
  <2> QED BY <1>3, <2>1
<1>11. D!TypeOK'
  <2>1. lk[p] \in D!Pointer /\ Null \in D!Pointer
    <3>1. lk[Null] = e
      BY <1>4 DEF Linked
    <3>2. p \in C \cup {Null}
      BY <1>4 DEF Chained
    <3> QED BY <1>6, <1>8, <3>1, <3>2 DEF D!Pointer
  <2>2. holder' \in [Holder -> D!Pointer]
    BY <1>5, <2>1, DelTypes
  <2>3. covers' \in [Holder -> SUBSET Resource]
    BY <1>3, DelTypes
  <2> QED BY <1>3, <1>5, <2>2, <2>3, DelTypes DEF D!TypeOK
<1>12. Counted(holder, impl, dropping)'
  <2> SUFFICES ASSUME NEW m \in Impl PROVE impl'[m].refs = Points(holder, impl, dropping, m)'
    BY DEF Counted
  <2>1. m # Null /\ impl[m].refs = Points(holder, impl, dropping, m)
    BY <1>8 DEF DelInv, Counted
  <2>2. /\ Points(holder, impl, dropping, m) \in Nat
        /\ Points(holder, impl, dropping, m)'
             = Points(holder, impl, dropping, m) + One(m \in NewOnes(C, lk, N))
    BY <1>10, <2>1
  <2>3. CASE \A q \in C : lk[q] # m
    <3>1. impl'[m].refs = impl[m].refs
      BY <1>5, <2>3 DEF Relinked
    <3> QED BY <2>1, <2>2, <2>3, <3>1 DEF One, NewOnes
  <2>4. CASE \E q \in C : lk[q] = m
    <3>1. PICK q \in C : lk[q] = m
      BY <2>4
    <3>2. impl'[m].refs = 1
      BY <1>5, <3>1 DEF Relinked
    <3>3. CASE Sole(impl, q)
      <4>1. m = q /\ m \notin N
        BY <1>4, <3>1, <3>3 DEF Linked
      <4>2. impl[m].refs = 1
        BY <3>3, <4>1 DEF Sole
      <4> QED BY <2>1, <2>2, <3>2, <4>1, <4>2 DEF One, NewOnes
    <3>4. CASE ~Sole(impl, q)
      <4>1. m \in N
        BY <1>4, <3>1, <3>4 DEF Linked
      <4>2. Points(holder, impl, dropping, m) = 0
        BY <1>7, <4>1
      <4> QED BY <2>2, <3>1, <3>2, <4>1, <4>2 DEF One, NewOnes
    <3> QED BY <3>3, <3>4
  <2> QED BY <2>3, <2>4
<1>13. AtMostOnce(holder, impl, dropping, released)'
  <2>1. \A x : x # Null /\ x \in Resource => Points(holder, impl, dropping, x)'
               = IF Null = x THEN Points(holder, impl, dropping, x) + 1 ELSE Points(holder, impl, dropping, x)
    <3> TAKE x
    <3> HAVE x # Null /\ x \in Resource
    <3>1. x \notin N
      BY <1>7, DeleterAssumption
    <3>2. One(x \in NewOnes(C, lk, N)) = 0
      BY <3>1 DEF One, NewOnes
    <3>3. /\ Points(holder, impl, dropping, x) \in Nat
          /\ Points(holder, impl, dropping, x)'
               = Points(holder, impl, dropping, x) + One(x \in NewOnes(C, lk, N))
      BY <1>10
    <3> QED BY <3>2, <3>3
  <2> QED BY <1>3, <2>1, OnceAdded, DelTypes
<1>14. Unreferenced(impl)'
  <2> SUFFICES ASSUME NEW m \in Impl, impl'[m].refs = 0 PROVE impl'[m] = D!Free
    BY DEF Unreferenced
  <2>1. \A q \in C : lk[q] # m
    BY <1>5 DEF Relinked
  <2>2. impl[m].refs = 0
    BY <1>5, <2>1 DEF Relinked
  <2>3. m \notin C
    <3> SUFFICES ASSUME m \in C PROVE FALSE
      OBVIOUS
    <3>1. Occurs(holder, impl, dropping, m)
      <4>1. CASE m = p
        BY <1>2, <4>1 DEF Occurs
      <4>2. CASE m # p
        <5>1. PICK n \in C : After(impl, n) = m
          BY <1>4, <4>2 DEF Chained
        <5>2. n \in Impl /\ m \in Targets(impl, n)
          BY <1>8, <5>1 DEF After, Targets
        <5> QED BY <5>2 DEF Occurs
      <4> QED BY <4>1, <4>2
    <3>2. Points(holder, impl, dropping, m) # 0
      BY <1>6, <3>1, Somewhere
    <3> QED BY <2>2, <3>2 DEF DelInv, Counted
  <2>4. impl'[m] = impl[m]
    BY <1>5, <2>1, <2>3
  <2> QED BY <2>2, <2>4 DEF DelInv, Unreferenced
<1>15. NoCycle(impl)'
  <2>1. NoCycle(impl)
    BY DEF DelInv
  <2> QED BY <1>4, <1>5, <1>9, <2>1, NoCycleAppended
<1>16. Complete(holder, impl, covers)'
  <2> SUFFICES ASSUME NEW x \in Holder PROVE Reaches(impl', holder'[x], covers'[x])
    BY DEF Complete
  <2>1. \A y \in Holder : Reaches(impl, holder[y], covers[y])
    BY DEF DelInv, Complete
  <2>2. CASE x = h
    <3>1. holder'[x] = lk[p] /\ covers'[x] = covers[h] \cup covers[d]
      BY <1>3, <1>5, <2>2, DelTypes
    <3>2. Reaches(impl, p, covers[h]) /\ Reaches(impl, e, covers[d])
      BY <1>2, <2>1
    <3>3. Reaches(impl', lk[p], covers[h] \cup covers[d])
      BY <1>4, <1>5, <1>6, <1>9, <3>2, ReachesAppended
    <3> QED BY <3>1, <3>3
  <2>3. CASE x = d
    <3>1. holder'[x] = Null /\ covers'[x] = {}
      BY <1>3, <1>5, <2>3, DelTypes
    <3> QED BY <3>1, ReachesLeaf
  <2>4. CASE x # h /\ x # d
    <3>1. holder'[x] = holder[x] /\ covers'[x] = covers[x]
      BY <1>3, <1>5, <2>4, DelTypes
    <3>2. \A q \in C : lk[q] # holder[x]
      <4> TAKE q \in C
      <4>1. CASE Sole(impl, q)
        <5>1. lk[q] = q
          BY <1>4, <4>1 DEF Linked
        <5> QED BY <1>9, <2>4, <4>1, <5>1 DEF NoEntry, OnlyHere
      <4>2. CASE ~Sole(impl, q)
        <5>1. lk[q] \in N
          BY <1>4, <4>2 DEF Linked
        <5> QED BY <1>9, <5>1 DEF NoEntry
      <4> QED BY <4>1, <4>2
    <3>3. Reaches(impl', holder[x], covers[x])
      BY <1>4, <1>5, <1>8, <1>9, <2>1, <3>2, ReachesApart
    <3> QED BY <3>1, <3>3
  <2> QED BY <2>2, <2>3, <2>4
<1> QED BY <1>11, <1>12, <1>13, <1>14, <1>15, <1>16 DEF DelInv

-----------------------------------------------------------------------------
(* All steps.                                                              *)

\* The operations on deleters; a step is one of them or leaves deleters alone.
DelNext == \/ \E h \in Holder, r \in Resource : D!MakeFree(h, r)
           \/ \E h, d \in Holder, r \in Resource : D!Make(h, d, r)
           \/ \E h, g \in Holder : D!Share(h, g)
           \/ \E h, d \in Holder : D!append(h, d)
           \/ \E g, h \in Holder : D!Assign(g, h)
           \/ \E h \in Holder : D!Destroy(h)
           \/ D!Drop

\* See DelNext.
LEMMA OwnerSteps == [MCNext]_MCVars => [DelNext]_deleterVars
<1> SUFFICES ASSUME [MCNext]_MCVars PROVE [DelNext]_deleterVars
  OBVIOUS
<1>1. CASE UNCHANGED MCVars
  BY <1>1 DEF MCVars
<1>2. CASE MCNext
  <2>1. /\ Waits("semaphore") => UNCHANGED deleterVars
        /\ Waits("condvar") => UNCHANGED deleterVars
        /\ Memories => UNCHANGED deleterVars
        /\ Frees => UNCHANGED deleterVars
    BY DEF Waits, Memories, Frees
  <2>2. NewResource \subseteq Resource
    BY DEF NewResource, D!Unused
  <2>3. \/ Waits("semaphore") \/ Waits("condvar") \/ Memories \/ Frees
        \/ [DelNext]_deleterVars
    BY <1>2, <2>2 DEF MCNext, DelNext
  <2> QED BY <2>1, <2>3
<1> QED BY <1>1, <1>2

\* Every operation keeps the invariant.
LEMMA DelStep == DelInv /\ [DelNext]_deleterVars => DelInv'
<1> SUFFICES ASSUME DelInv, [DelNext]_deleterVars PROVE DelInv'
  OBVIOUS
<1>1. CASE UNCHANGED deleterVars
  <2>1. /\ holder' = holder /\ impl' = impl /\ dropping' = dropping
        /\ released' = released /\ covers' = covers
    BY <1>1 DEF deleterVars
  <2> QED BY <2>1 DEF DelInv, D!TypeOK
<1>2. ASSUME NEW h \in Holder, NEW r \in Resource, D!MakeFree(h, r) PROVE DelInv'
  BY <1>2, MakeFreeStep
<1>3. ASSUME NEW h \in Holder, NEW d \in Holder, NEW r \in Resource, D!Make(h, d, r) PROVE DelInv'
  BY <1>3, MakeStep
<1>4. ASSUME NEW h \in Holder, NEW g \in Holder, D!Share(h, g) PROVE DelInv'
  BY <1>4, ShareRaw, ShareImpl
<1>5. ASSUME NEW h \in Holder, NEW d \in Holder, D!append(h, d) PROVE DelInv'
  BY <1>5, AppendStep
<1>6. ASSUME NEW g \in Holder, NEW h \in Holder, D!Assign(g, h) PROVE DelInv'
  BY <1>6, AssignStep
<1>7. ASSUME NEW h \in Holder, D!Destroy(h) PROVE DelInv'
  BY <1>7, DestroyStep
<1>8. CASE D!Drop
  BY <1>8, DropPlain, DropLast
<1> QED BY <1>1, <1>2, <1>3, <1>4, <1>5, <1>6, <1>7, <1>8 DEF DelNext

\* At first there are no impls and nothing is owned.
LEMMA DelInit == MCInit => DelInv
<1> SUFFICES ASSUME MCInit PROVE DelInv
  OBVIOUS
<1>1. /\ holder = [h \in Holder |-> Null] /\ impl = [n \in Impl |-> D!Free]
      /\ dropping = << >> /\ released = [r \in Resource |-> 0]
      /\ covers = [h \in Holder |-> {}]
  BY DEF MCInit, D!Init
<1>2. /\ Null \notin Impl /\ Null \notin Resource
      /\ Null \in D!Pointer /\ D!Free \in [refs : Nat, own : D!Pointer, next : D!Pointer]
      /\ D!Free.refs = 0
  BY DeleterAssumption DEF D!Pointer, D!Free
<1>3. D!TypeOK
  BY <1>1, <1>2 DEF D!TypeOK
<1>4. \A n \in Impl : impl[n] = D!Free /\ Targets(impl, n) = {Null}
  BY <1>1 DEF Targets, D!Free
<1>5. \A x : x # Null => Points(holder, impl, dropping, x) = 0
  <2> TAKE x
  <2> HAVE x # Null
  <2>1. ~Occurs(holder, impl, dropping, x)
    <3>1. \A h \in Holder : holder[h] # x
      BY <1>1
    <3>2. \A n \in Impl : x \notin Targets(impl, n)
      BY <1>4
    <3>3. DOMAIN dropping = {}
      BY <1>1
    <3> QED BY <3>1, <3>2, <3>3 DEF Occurs
  <2>2. dropping \in Seq(D!Pointer)
    BY <1>3 DEF D!TypeOK
  <2> QED BY <2>1, <2>2, Somewhere
<1>6. Counted(holder, impl, dropping)
  BY <1>2, <1>4, <1>5 DEF Counted
<1>7. AtMostOnce(holder, impl, dropping, released)
  BY <1>1, <1>2, <1>5 DEF AtMostOnce
<1>8. Unreferenced(impl) /\ NoCycle(impl)
  BY <1>2, <1>4 DEF Unreferenced, NoCycle
<1>9. Complete(holder, impl, covers)
  BY <1>1, ReachesLeaf DEF Complete
<1> QED BY <1>3, <1>6, <1>7, <1>8, <1>9 DEF DelInv

\* The invariant says what DeletedOnce does.
LEMMA DelOnce == DelInv => DeletedOnce
<1> SUFFICES ASSUME DelInv PROVE DeletedOnce
  OBVIOUS
<1>1. \A n \in Impl : impl[n].refs = D!PointersTo(n)
  BY Pointed DEF DelInv, Counted
<1>2. \A r \in Resource : released[r] + D!PointersTo(r) <= 1
  BY Pointed DEF DelInv, AtMostOnce
<1>3. ASSUME D!UserCode, NEW r \in Resource, D!PointersTo(r) = 1
      PROVE  \E h \in Holder : r \in covers[h]
  BY <1>3, Pointed, StoodFor
<1> QED BY <1>1, <1>2, <1>3 DEF DeletedOnce, D!DeletedOnce, DelInv

\* For any number of deleters, impls and actions, whatever is shared, appended,
\* assigned and destroyed: the references of an impl are as many as the
\* pointers to it, so the last one deletes it and none dangles; an action is
\* carried out at most once, and never while it can still be reached; and
\* between destructions every action that is not yet carried out has a deleter
\* that stands for it, so none is lost.
THEOREM DeletedJustOnce == MCSpec => []DeletedOnce
<1>1. DelInv /\ [MCNext]_MCVars => DelInv'
  BY OwnerSteps, DelStep
<1> QED BY DelInit, DelOnce, <1>1, PTL DEF MCSpec
=============================================================================
