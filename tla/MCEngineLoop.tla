----------------------------- MODULE MCEngineLoop -----------------------------
(* Each price is a cluster, which a second order in it evicts, and a level *)
(* of two orders of two shares does not fit the width of a fill; order ids *)
(* come back after their order is gone; every window moves on.             *)
EXTENDS EngineLoop, TLC

Symmetry == Permutations(OrderIds)

(* Exact logarithms, and one that is rounded down. *)
Rounding(d) == [e \in (0 .. 2) \X (0 .. 2) |-> IF e = <<0, 1>> THEN d ELSE 0]
MCRoundings == {Rounding(0), Rounding(-1)}

(* What detect_arbitrage reports is worth trading, over every matrix of    *)
(* three assets with small weights.                                        *)
Matrices == [0 .. 2 -> [0 .. 2 -> {-1, 0, 1, Graph!NoEdge}]]
Loopless == {w \in Matrices : \A i \in 0 .. 2 : w[i][i] = Graph!NoEdge}
ASSUME ArbitrageIsReal ==
  \A w \in Loopless :
    LET found == Graph!detect_arbitrage[w]
    IN  found.opportunity_found => Graph!Profitable(w, found.cycle)

(* "Detects if a profitable cycle exists" does not hold: the walk back     *)
(* starts at the end of the first edge that still shortens, which has no   *)
(* predecessor where only that edge would have given it one.               *)
Cycles == {<<0, 1, 0>>, <<0, 2, 0>>, <<1, 2, 1>>, <<0, 1, 2, 0>>, <<0, 2, 1, 0>>}
ASSUME ArbitrageCanBeMissed ==
  \E w \in Loopless, c \in Cycles :
    Graph!Profitable(w, c) /\ ~Graph!detect_arbitrage[w].opportunity_found
=============================================================================
