---------------------------- MODULE BoundedFifo ----------------------------
(***************************************************************************)
(* What spsc_queue (src/include/future/future_all11.hh) promises to its    *)
(* producer and its consumer: a first-in first-out queue of at most Bound  *)
(* items.  taken is the item the last successful pop returned.             *)
(***************************************************************************)
EXTENDS Naturals, Sequences

CONSTANTS Item,     \* what can be queued
          NoItem,   \* the value of taken before the first pop
          Bound     \* the largest number of queued items

VARIABLES queue, taken

fifoVars == <<queue, taken>>

Init == queue = << >> /\ taken = NoItem

Put(x) == /\ Len(queue) < Bound
          /\ queue' = Append(queue, x)
          /\ UNCHANGED taken

Get == /\ queue # << >>
       /\ taken' = Head(queue)
       /\ queue' = Tail(queue)

Next == Get \/ \E x \in Item : Put(x)

Spec == Init /\ [][Next]_fifoVars
=============================================================================
