----------------------------- MODULE GraphEngine -----------------------------
(***************************************************************************)
(* GraphEngine of GraphAlgos.hpp: what a large order would pay, how thin   *)
(* the top of the book is, and the search for a profitable cycle among     *)
(* exchange rates.  Prices and volumes are integers, fractions are kept as *)
(* numerator and denominator, and the logarithms of the rates are integer  *)
(* weights, whose unit is small enough to carry the rounding.              *)
(***************************************************************************)
EXTENDS Integers, Sequences, SequencesExt, FiniteSetsExt

CONSTANTS
  Width,     \* 2^32: a level's volume has 64 bits, a fill 32
  n_assets   \* nodes of the rate graph

Smaller(a, b) == IF a <= b THEN a ELSE b

-----------------------------------------------------------------------------
PriceLevel == [price : Nat, volume : Nat]
Levels == Seq(PriceLevel)
Walks == [notional : Nat, filled : Nat, remaining : Int, levels_consumed : Nat]

(* Mutant: every level is filled up to the probe, not to what remains. *)
FillsPastEnd(walk, volume) == IF walk.remaining > 0 THEN volume % Width ELSE 0

(* The shares a level gives: a volume is cast to 32 bits. *)
FillQty(walk, volume) == Smaller(walk.remaining, volume % Width)

(* One level of the walk; an empty one is passed over. *)
Filled(walk, level) ==
  IF walk.remaining = 0 \/ level.volume = 0 THEN walk
  ELSE LET fill_qty == FillQty(walk, level.volume)
       IN  [notional |-> walk.notional + level.price * fill_qty,
            filled |-> walk.filled + fill_qty,
            remaining |-> walk.remaining - fill_qty,
            levels_consumed |-> walk.levels_consumed + 1]
Fill[x \in Walks \X PriceLevel] == Filled(x[1], x[2])

(* The average price is notional / filled. *)
simulate_market_impact(levels, qty) ==
  LET start == [notional |-> 0, filled |-> 0, remaining |-> qty, levels_consumed |-> 0]
  IN  FoldLeft(LAMBDA walk, level : Fill[<<walk, level>>], start, levels)

fully_filled(levels, walk) == levels # << >> /\ walk.remaining = 0

(* 1 - sqrt(top / total) is the score; nothing in the book is no risk. *)
compute_flash_crash_probability(levels, depth) ==
  LET volume(n) == FoldLeft(LAMBDA sum, level : sum + level.volume, 0,
                            SubSeq(levels, 1, Smaller(n, Len(levels))))
  IN  [top |-> volume(depth), total |-> volume(Len(levels))]

-----------------------------------------------------------------------------
(* detect_arbitrage: w[u][v] is the weight of the edge, NoEdge where there *)
(* is none or u = v.                                                       *)

Assets == 0 .. n_assets - 1
NoEdge == 1000000
NoPred == -1

(* The edges in the order of the two nested loops. *)
Edge(k) == <<((k - 1) \div n_assets) % n_assets, (k - 1) % n_assets>>

Weights == [Assets -> [Assets -> Int]]
Searches == [dist : [Assets -> Int], pred : [Assets -> Assets \union {NoPred}]]

Shortens(w, s, e) ==
  w[e[1]][e[2]] < NoEdge /\ s.dist[e[1]] + w[e[1]][e[2]] < s.dist[e[2]]

(* Relaxing one edge. *)
Relax(w, s, e) ==
  IF ~Shortens(w, s, e) THEN s
  ELSE [s EXCEPT !.dist[e[2]] = s.dist[e[1]] + w[e[1]][e[2]], !.pred[e[2]] = e[1]]

(* Bellman-Ford from every node at once, n_assets - 1 rounds. *)
Relaxed(w) ==
  LET relax[x \in Searches \X (Assets \X Assets)] == Relax(w, x[1], x[2])
  IN  FoldLeft(LAMBDA s, e : relax[<<s, e>>],
               [dist |-> [v \in Assets |-> 0], pred |-> [v \in Assets |-> NoPred]],
               [k \in 1 .. (n_assets - 1) * n_assets * n_assets |-> Edge(k)])

(* The first n_assets predecessors of v; past the end of a path, NoPred. *)
Walk(pred, v) ==
  LET at[i \in 0 .. n_assets] ==
        IF i = 0 THEN v ELSE IF at[i - 1] = NoPred THEN NoPred ELSE pred[at[i - 1]]
  IN  at

NoArbitrage == [opportunity_found |-> FALSE, cycle |-> << >>]

(* If an edge can still be relaxed, n_assets steps back from its end lie   *)
(* on a cycle, which is read backwards to give the order of trading, or    *)
(* fall off the path, and then nothing is reported.                        *)
Found(s, open) ==
  LET start == Walk(s.pred, Edge(Min(open))[2])[n_assets]
      back == Walk(s.pred, start)
      length == Min({m \in 1 .. n_assets : back[m] = start})
  IN  IF open = {} \/ start = NoPred THEN NoArbitrage
      ELSE [opportunity_found |-> TRUE,
            cycle |-> [i \in 1 .. length + 1 |-> back[(2 * length - i) % length]]]

detect_arbitrage[w \in Weights] ==
  LET s == Relaxed(w)
  IN  Found(s, {k \in 1 .. n_assets * n_assets : Shortens(w, s, Edge(k))})

(* profit_factor multiplies the rates along the cycle; its logarithm is    *)
(* minus the cycle's weight.                                               *)
CycleWeight(w, cycle) ==
  LET total[i \in 0 .. Len(cycle) - 1] ==
        IF i = 0 THEN 0 ELSE total[i - 1] + w[cycle[i]][cycle[i + 1]]
  IN  total[Len(cycle) - 1]

-----------------------------------------------------------------------------
(* Worth trading: a closed cycle of exchanges there are, which returns     *)
(* more than was put in.                                                   *)
Profitable(w, cycle) ==
  /\ Len(cycle) > 1 /\ cycle[1] = cycle[Len(cycle)]
  /\ \A i \in 1 .. Len(cycle) - 1 : w[cycle[i]][cycle[i + 1]] < NoEdge
  /\ CycleWeight(w, cycle) < 0
=============================================================================
