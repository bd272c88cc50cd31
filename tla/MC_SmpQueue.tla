---------------------------- MODULE MC_SmpQueue -----------------------------
(***************************************************************************)
(* Two cores and rings of one item with batches of two requests: a         *)
(* submission finds the ring full, flushes are partial, a batch is flushed *)
(* by the submission and responses pile up behind a full ring.             *)
(***************************************************************************)
EXTENDS SmpQueue, TLC

MCCore == {0, 1}
MCTarget == [r \in {"a", "b"} |-> 1] @@ ("x" :> 0)

\* Calls in both directions, so both cores are callers and called.
MCBothWays == (0 :> <<"a", "b">>) @@ (1 :> <<"x">>)

\* Two calls, for the liveness run.
MCTwo == (0 :> <<"a", "b">>) @@ (1 :> << >>)
=============================================================================
