--------------------------- MODULE MCLimitOrderBook ---------------------------
(* Four order ids for three pool slots: the pool runs out, and slots are   *)
(* handed out again with the links of their last user's list gone.         *)
EXTENDS LimitOrderBook, TLC

Symmetry == Permutations(OrderIds)
=============================================================================
