----------------------------- MODULE SpscQueue ------------------------------
(***************************************************************************)
(* spsc_queue<T, Capacity>, the ring buffer under smp_message_queue        *)
(* (src/include/future/future_all11.hh:6571-6640), at the granularity of   *)
(* its atomic accesses.                                                    *)
(*                                                                         *)
(* _head and _tail are atomics written by one side and read by the other.  *)
(* The reading side may see an old value: headSeen is the value of _head   *)
(* the producer's acquire load returns, tailSeen the value of _tail the    *)
(* consumer's acquire load returns, and each catches up one store at a     *)
(* time (PublishHead, PublishTail).  Release/acquire order makes the slot  *)
(* contents written before a store visible with it, so buffer has a single *)
(* copy; NoDataRace states that no slot is written while it can be read.   *)
(***************************************************************************)
EXTENDS Naturals, Sequences

CONSTANTS Capacity,  \* number of slots; one of them always stays empty
          Item,      \* what can be queued
          NoItem     \* content of a slot never written

ASSUME CapacityAssumption == Capacity \in Nat \ {0}
ASSUME NoItemAssumption == NoItem \notin Item

VARIABLES head, headSeen,  \* _head: the consumer's, and as the producer sees it
          tail, tailSeen,  \* _tail: the producer's, and as the consumer sees it
          buffer,          \* _buffer
          pushing, pushPc, \* the argument of push() and how far the call is
          popping, popPc,  \* the slot read by pop() and how far the call is
          taken            \* the item the last successful pop() returned

ringVars == <<head, headSeen, tail, tailSeen, buffer,
          pushing, pushPc, popping, popPc, taken>>

Slot == 0 .. Capacity - 1

next_index(i) == (i + 1) % Capacity

\* The number of steps of next_index from slot i to slot j.
Distance(i, j) == IF i <= j THEN j - i ELSE Capacity - i + j

\* The slot k steps of next_index after slot i, for k < Capacity.
Ahead(i, k) == IF i + k < Capacity THEN i + k ELSE i + k - Capacity

RingInit == /\ head = 0 /\ headSeen = 0 /\ tail = 0 /\ tailSeen = 0
        /\ buffer = [s \in Slot |-> NoItem]
        /\ pushing = NoItem /\ pushPc = "idle"
        /\ popping = NoItem /\ popPc = "idle"
        /\ taken = NoItem

-----------------------------------------------------------------------------
\* Fault: push() does not look for a full queue.
PushStart_NoFullCheck(x) ==
    /\ pushPc = "idle"
    /\ pushing' = x
    /\ pushPc' = "write"
    /\ UNCHANGED <<head, headSeen, tail, tailSeen, buffer, popping, popPc, taken>>

\* bool push(T item).  A call that finds the queue full returns false and
\* changes nothing, so it is a stuttering step.
PushStart(x) ==
    /\ pushPc = "idle"
    /\ next_index(tail) # headSeen
    /\ pushing' = x
    /\ pushPc' = "write"
    /\ UNCHANGED <<head, headSeen, tail, tailSeen, buffer, popping, popPc, taken>>

PushWrite ==
    /\ pushPc = "write"
    /\ buffer' = [buffer EXCEPT ![tail] = pushing]
    /\ pushPc' = "store"
    /\ UNCHANGED <<head, headSeen, tail, tailSeen, pushing, popping, popPc, taken>>

PushStore ==
    /\ pushPc = "store"
    /\ tail' = next_index(tail)
    /\ pushPc' = "idle"
    /\ pushing' = NoItem
    /\ UNCHANGED <<head, headSeen, tailSeen, buffer, popping, popPc, taken>>

\* bool pop(T& item).  A call that finds the queue empty returns false.
PopStart ==
    /\ popPc = "idle"
    /\ head # tailSeen
    /\ popPc' = "read"
    /\ UNCHANGED <<head, headSeen, tail, tailSeen, buffer, pushing, pushPc, popping, taken>>

\* Fault: pop() reads the slot after _head.
PopRead_OffByOne ==
    /\ popPc = "read"
    /\ popping' = buffer[next_index(head)]
    /\ popPc' = "store"
    /\ UNCHANGED <<head, headSeen, tail, tailSeen, buffer, pushing, pushPc, taken>>

PopRead ==
    /\ popPc = "read"
    /\ popping' = buffer[head]
    /\ popPc' = "store"
    /\ UNCHANGED <<head, headSeen, tail, tailSeen, buffer, pushing, pushPc, taken>>

PopStore ==
    /\ popPc = "store"
    /\ head' = next_index(head)
    /\ popPc' = "idle"
    /\ taken' = popping
    /\ popping' = NoItem
    /\ UNCHANGED <<headSeen, tail, tailSeen, buffer, pushing, pushPc>>

\* A release store becomes visible to the other thread.
PublishTail ==
    /\ tailSeen # tail
    /\ tailSeen' = next_index(tailSeen)
    /\ UNCHANGED <<head, headSeen, tail, buffer, pushing, pushPc, popping, popPc, taken>>

PublishHead ==
    /\ headSeen # head
    /\ headSeen' = next_index(headSeen)
    /\ UNCHANGED <<head, tail, tailSeen, buffer, pushing, pushPc, popping, popPc, taken>>

RingNext == \/ \E x \in Item : PushStart(x)
        \/ PushWrite \/ PushStore
        \/ PopStart \/ PopRead \/ PopStore
        \/ PublishTail \/ PublishHead

RingSpec == RingInit /\ [][RingNext]_ringVars

-----------------------------------------------------------------------------
\* The variables have their types: indices stay inside _buffer.
RingTypeOK ==
    /\ head \in Slot /\ headSeen \in Slot
    /\ tail \in Slot /\ tailSeen \in Slot
    /\ buffer \in [Slot -> Item \cup {NoItem}]
    /\ pushing \in Item \cup {NoItem}
    /\ pushPc \in {"idle", "write", "store"}
    /\ popping \in Item \cup {NoItem}
    /\ popPc \in {"idle", "read", "store"}
    /\ taken \in Item \cup {NoItem}

\* push() and pop() never touch one slot at the same time although neither
\* takes a lock: while push() is between its check and its store the slot
\* it writes is not one pop() may read, even when both have stale indices.
NoDataRace ==
    ~ ( /\ pushPc \in {"write", "store"}
        /\ popPc \in {"read", "store"}
        /\ tail = head )

\* The n slots of buf from slot h on, as a sequence.
Window(buf, h, n) == [k \in 1 .. n |-> buf[Ahead(h, k - 1)]]

\* The items between _head and _tail, oldest first.
Contents == Window(buffer, head, Distance(head, tail))

\* The ring buffer implements a first-in first-out queue of Capacity - 1
\* items: nothing is lost, duplicated, reordered or overwritten, and pop()
\* returns what push() stored.
Fifo == INSTANCE BoundedFifo WITH queue <- Contents, Bound <- Capacity - 1
ImplementsFifo == Fifo!Spec

-----------------------------------------------------------------------------
\* The strengthening that makes the two properties inductive.

\* Seen indices lag behind the real ones and all four keep their order
\* around the ring.
Ordered ==
    Distance(headSeen, head) + Distance(head, tailSeen) + Distance(tailSeen, tail)
        = Distance(headSeen, tail)

PushInProgress ==
    /\ pushPc # "idle" => /\ pushing \in Item
                          /\ Distance(headSeen, tail) < Capacity - 1
    /\ pushPc = "store" => buffer[tail] = pushing

PopInProgress ==
    /\ popPc # "idle" => head # tailSeen
    /\ popPc = "store" => popping = buffer[head]

StoredItems ==
    \A k \in 0 .. Capacity - 1 : k < Distance(head, tail) => buffer[Ahead(head, k)] \in Item

IInv == RingTypeOK /\ Ordered /\ PushInProgress /\ PopInProgress /\ StoredItems
=============================================================================
