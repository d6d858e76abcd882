----------------------------- MODULE AbstractBook -----------------------------
(***************************************************************************)
(* What a limit order book promises its caller: on each side and at each   *)
(* price a queue of orders in order of arrival.  A partial cancel or       *)
(* execution shrinks an order where it stands, a full one takes it out,    *)
(* and nothing else moves.  No pool, no links, no cached totals.           *)
(***************************************************************************)
EXTENDS Integers, Sequences, SequencesExt, FiniteSets, FiniteSetsExt

CONSTANTS
  OrderIds,       \* order ids a tick may carry
  Prices,         \* prices a tick may carry
  Quantities,     \* quantities a tick may carry
  MinValidPrice,  \* MIN_VALID_PRICE
  MaxPriceTicks,  \* MAX_PRICE_TICKS
  MaxOrders       \* capacity of the order pool

VARIABLES
  queues,   \* for each side and price, the waiting orders, oldest first
  result,   \* the last call and what it returned
  running   \* FALSE once add_order has thrown

vars == <<queues, result, running>>

Sides == {"BUY", "SELL"}

ValidPrice(p) == MinValidPrice <= p /\ p < MaxPriceTicks

(* The boolean of add_order, and the MutationResult of the other two, each *)
(* with the call it answers.                                               *)
Added(yes) == [call |-> "add", added |-> yes]
Answer(call, found, removed, quantity) ==
  [call |-> call, found |-> found, order_removed |-> removed, affected_quantity |-> quantity]
NotFound == Answer("any", FALSE, FALSE, 0)

Lesser(a, b) == IF a <= b THEN a ELSE b

-----------------------------------------------------------------------------
Live == UNION {{order.id : order \in Range(queues[s][p])} : s \in Sides, p \in Prices}
IsLive(id) == id \in Live

(* Where order id stands: its side, its price, its place in that queue. *)
Place(id) ==
  LET w == CHOOSE w \in Sides \X Prices : \E order \in Range(queues[w[1]][w[2]]) : order.id = id
      i == CHOOSE i \in DOMAIN queues[w[1]][w[2]] : queues[w[1]][w[2]][i].id = id
  IN  [s |-> w[1], p |-> w[2], i |-> i]

OrderOf(id) == LET w == Place(id) IN queues[w.s][w.p][w.i]

(* The order loses q shares; it leaves the queue with the last of them. *)
Reduce(id, q) ==
  LET w == Place(id)
      rest == OrderOf(id).quantity - q
  IN  queues' = [queues EXCEPT ![w.s][w.p] =
                   IF rest = 0 THEN RemoveAt(@, w.i)
                               ELSE [@ EXCEPT ![w.i].quantity = rest]]

-----------------------------------------------------------------------------
(* What the engine reads from the book. *)

NonEmpty(s) == {p \in Prices : queues[s][p] # << >>}
BestBid == IF NonEmpty("BUY") = {} THEN 0 ELSE Max(NonEmpty("BUY"))
BestAsk == IF NonEmpty("SELL") = {} THEN MaxPriceTicks ELSE Min(NonEmpty("SELL"))

Volume(s, p) ==
  IF p \in NonEmpty(s)
  THEN FoldLeft(LAMBDA sum, order : sum + order.quantity, 0, queues[s][p]) ELSE 0

(* At most depth levels of the ask side, from the best on. *)
TopAsks(depth) ==
  LET asks == NonEmpty("SELL")
      nth(i) == CHOOSE p \in asks : Cardinality({x \in asks : x < p}) = i - 1
  IN  [i \in 1 .. Lesser(depth, Cardinality(asks)) |->
         [price |-> nth(i), volume |-> Volume("SELL", nth(i))]]

-----------------------------------------------------------------------------
Init ==
  /\ queues = [s \in Sides |-> [p \in Prices |-> << >>]]
  /\ result = NotFound
  /\ running = TRUE

Rejected(id, p, q) == ~ValidPrice(p) \/ q = 0 \/ IsLive(id)

AddOrder(id, s, p, q) ==
  \/ /\ result' = Added(FALSE)
     /\ running
     /\ Rejected(id, p, q)
     /\ UNCHANGED <<queues, running>>
  \/ /\ running' = FALSE    \* no node left: the engine ends here
     /\ running
     /\ ~Rejected(id, p, q)
     /\ Cardinality(Live) = MaxOrders
     /\ UNCHANGED <<queues, result>>
  \/ /\ result' = Added(TRUE)
     /\ running
     /\ ~Rejected(id, p, q)
     /\ Cardinality(Live) < MaxOrders
     /\ queues' = [queues EXCEPT ![s][p] = Append(@, [id |-> id, quantity |-> q])]
     /\ UNCHANGED running

(* Nothing is known of an order that is not waiting. *)
Unknown(id) ==
  /\ result' = NotFound
  /\ running
  /\ ~IsLive(id)
  /\ UNCHANGED <<queues, running>>

(* A cancelled quantity of zero asks for the whole order. *)
CancelOrder(id, q) ==
  /\ running
  /\ IsLive(id)
  /\ LET left == OrderOf(id).quantity
         taken == IF q = 0 THEN left ELSE Lesser(q, left)
     IN  result' = Answer("cancel", TRUE, taken = left, taken) /\ Reduce(id, taken)
  /\ UNCHANGED running

(* An executed quantity of zero changes nothing. *)
ExecuteOrder(id, q) ==
  /\ running
  /\ IsLive(id)
  /\ LET left == OrderOf(id).quantity
         taken == Lesser(q, left)
     IN  /\ result' = Answer("execute", TRUE, taken = left, taken)
         /\ IF taken = 0 THEN UNCHANGED queues ELSE Reduce(id, taken)
  /\ UNCHANGED running

Next ==
  \/ \E id \in OrderIds : Unknown(id)
  \/ \E id \in OrderIds, s \in Sides, p \in Prices, q \in Quantities : AddOrder(id, s, p, q)
  \/ \E id \in OrderIds, q \in Quantities : CancelOrder(id, q) \/ ExecuteOrder(id, q)

Spec == Init /\ [][Next]_vars
=============================================================================
