----------------------------- MODULE BoundedFifo -----------------------------
(***************************************************************************)
(* What the shared-memory queue promises its two users, the Rust ingestor  *)
(* and the C++ engine: a channel that delivers every accepted tick once,   *)
(* in the order of acceptance, and never holds more than Limit of them.    *)
(* The reader may leave; what is then still waiting is lost.               *)
(* Nothing is said here of indices, slots, or the steps of a copy.         *)
(***************************************************************************)
EXTENDS Naturals, Sequences

CONSTANTS
  Ticks,   \* the messages
  Limit    \* how many accepted messages may be waiting

VARIABLES
  accepted,   \* every tick for which push returned true, in that order
  delivered,  \* every tick pop returned, in that order
  open        \* is the reader still there

vars == <<accepted, delivered, open>>

Init ==
  /\ accepted = << >>
  /\ delivered = << >>
  /\ open = TRUE

Accept(t) ==
  /\ Len(accepted) - Len(delivered) < Limit
  /\ accepted' = Append(accepted, t)
  /\ UNCHANGED <<delivered, open>>

Deliver ==
  /\ open
  /\ Len(delivered) < Len(accepted)
  /\ delivered' = Append(delivered, accepted[Len(delivered) + 1])
  /\ UNCHANGED <<accepted, open>>

Close ==
  /\ open
  /\ open' = FALSE
  /\ UNCHANGED <<accepted, delivered>>

Next == Deliver \/ Close \/ \E t \in Ticks : Accept(t)

SafetySpec == Init /\ [][Next]_vars

(* While the reader is there it polls: a waiting tick is not left there. *)
Spec == SafetySpec /\ WF_vars(Deliver)
=============================================================================
