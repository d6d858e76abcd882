----------------------------- MODULE MCSpscQueue -----------------------------
(* A ring of four slots, used long enough to wrap around and to overflow. *)
EXTENDS SpscQueue, TLC
=============================================================================
