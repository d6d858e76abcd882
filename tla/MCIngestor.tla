------------------------------ MODULE MCIngestor ------------------------------
(* Two symbols with the same order ids; one price the book accepts, one it *)
(* does not; a ring that two ticks in a row, as of a replaced order, fill. *)
EXTENDS Ingestor, TLC

Symmetry == Permutations(Locates) \union Permutations(OrderIds)
=============================================================================
