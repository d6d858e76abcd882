---------------------------- MODULE LimitOrderBook ----------------------------
(***************************************************************************)
(* LimitOrderBook.hpp with its MemoryPool: order nodes live in a fixed     *)
(* pool, are threaded into one doubly linked list per side and price, and  *)
(* are found through order_map_.  Totals per level, the sorted price sets  *)
(* and the two best prices are kept beside the lists and must agree with   *)
(* them after every operation.                                             *)
(*                                                                         *)
(* One engine thread calls the book, so each operation is one step.  An    *)
(* exception thrown by add_order is caught nowhere: it ends the engine.    *)
(***************************************************************************)
EXTENDS Integers, Sequences, FiniteSets, FiniteSetsExt, Functions

CONSTANTS
  OrderIds, Prices, Quantities,
  MinValidPrice, MaxPriceTicks, MaxOrders,
  Null      \* the null pointer

ASSUME BookAssumption ==
  /\ Prices \subseteq Nat /\ Quantities \subseteq Nat
  /\ MinValidPrice \in Nat \ {0} /\ MaxPriceTicks \in Nat
  /\ MaxOrders \in Nat \ {0}
  /\ Null \notin 0 .. MaxOrders - 1

VARIABLES
  pool,        \* the nodes, MemoryPool::pool_
  free_list,   \* MemoryPool::free_list_, a stack of slots
  order_map,   \* live order id -> slot of its node
  prices,      \* bid_prices_ and ask_prices_
  levels,      \* bids_ and asks_: price -> total_volume, head, tail
  best_bid, best_ask,
  result,      \* the last call and what it returned
  running      \* FALSE once allocate has thrown

vars == <<pool, free_list, order_map, prices, levels, best_bid, best_ask, result, running>>

Sides == {"BUY", "SELL"}
Slots == 0 .. MaxOrders - 1
Pointers == Slots \union {Null}

ValidPrice(p) == MinValidPrice <= p /\ p < MaxPriceTicks

(* The boolean of add_order, and the MutationResult of the other two, each *)
(* with the call it answers.                                               *)
Added(yes) == [call |-> "add", added |-> yes]
Answer(call, found, removed, quantity) ==
  [call |-> call, found |-> found, order_removed |-> removed, affected_quantity |-> quantity]
NotFound == Answer("any", FALSE, FALSE, 0)

Lesser(a, b) == IF a <= b THEN a ELSE b

-----------------------------------------------------------------------------
(* MemoryPool *)

(* What a free slot holds.  The code leaves the last order's fields there, *)
(* and allocate's caller overwrites all of them before any is read.        *)
BlankNode == [order_id |-> Null, price |-> 0, quantity |-> 0, side |-> "BUY",
              next |-> Null, prev |-> Null]

InitialFreeList == [i \in 1 .. MaxOrders |-> i - 1]

Exhausted == free_list = << >>

(* The slot allocate hands out: the one freed last. *)
Allocated == free_list[Len(free_list)]

(* Mutant: the slot of a removed order is never given back. *)
Leak(n) == UNCHANGED free_list

Allocate == free_list' = SubSeq(free_list, 1, Len(free_list) - 1)
Deallocate(n) == free_list' = Append(free_list, n)

-----------------------------------------------------------------------------
(* The list of one price level. *)

EmptyLevel == [total_volume |-> 0, head |-> Null, tail |-> Null]

(* insert_into_level: the pool with node, already in slot n, linked behind *)
(* the last node of the level.                                             *)
LinkLast(level, n, node) ==
  IF level.head = Null
  THEN [pool EXCEPT ![n] = node]
  ELSE [pool EXCEPT ![n] = [node EXCEPT !.prev = level.tail],
                    ![level.tail].next = n]

LevelWith(level, n, quantity) ==
  [total_volume |-> level.total_volume + quantity,
   head |-> IF level.head = Null THEN n ELSE level.head,
   tail |-> n]

(* Mutant: the order behind n still points back to it. *)
UnlinkForwards(n) ==
  [m \in Slots |->
     IF m = n THEN BlankNode
     ELSE [pool[m] EXCEPT !.next = IF m = pool[n].prev THEN pool[n].next ELSE @]]

(* Mutant: the total of the level is not reduced. *)
LevelWithoutTotal(level, n) ==
  [level EXCEPT !.head = IF pool[n].prev = Null THEN pool[n].next ELSE @,
                !.tail = IF pool[n].next = Null THEN pool[n].prev ELSE @]

(* remove_from_level: the neighbours of n are joined, or the ends of the   *)
(* level moved past it.                                                    *)
Unlink(n) ==
  [m \in Slots |->
     IF m = n THEN BlankNode
     ELSE [pool[m] EXCEPT !.next = IF m = pool[n].prev THEN pool[n].next ELSE @,
                          !.prev = IF m = pool[n].next THEN pool[n].prev ELSE @]]

LevelWithout(level, n) ==
  [total_volume |-> level.total_volume - pool[n].quantity,
   head |-> IF pool[n].prev = Null THEN pool[n].next ELSE level.head,
   tail |-> IF pool[n].next = Null THEN pool[n].prev ELSE level.tail]

(* Mutant: the best price of a side that has emptied is kept. *)
UpdateOccupiedSides ==
  /\ best_bid' = IF prices'["BUY"] = {} THEN best_bid ELSE Max(prices'["BUY"])
  /\ best_ask' = IF prices'["SELL"] = {} THEN best_ask ELSE Min(prices'["SELL"])

(* update_best_prices, from the price sets left by the operation. *)
UpdateBestPrices ==
  /\ best_bid' = IF prices'["BUY"] = {} THEN 0 ELSE Max(prices'["BUY"])
  /\ best_ask' = IF prices'["SELL"] = {} THEN MaxPriceTicks ELSE Min(prices'["SELL"])

-----------------------------------------------------------------------------
Init ==
  /\ pool = [n \in Slots |-> BlankNode]
  /\ free_list = InitialFreeList
  /\ order_map = << >>
  /\ prices = [s \in Sides |-> {}]
  /\ levels = [s \in Sides |-> << >>]
  /\ best_bid = 0
  /\ best_ask = MaxPriceTicks
  /\ result = NotFound
  /\ running = TRUE

AddRejected(id, p, q) ==
  /\ running
  /\ ~ValidPrice(p) \/ q = 0 \/ id \in DOMAIN order_map
  /\ result' = Added(FALSE)
  /\ UNCHANGED <<pool, free_list, order_map, prices, levels, best_bid, best_ask, running>>

(* allocate throws before anything was changed. *)
AddExhausted(id, p, q) ==
  /\ running
  /\ ValidPrice(p) /\ q # 0 /\ id \notin DOMAIN order_map
  /\ Exhausted
  /\ running' = FALSE
  /\ UNCHANGED <<pool, free_list, order_map, prices, levels, best_bid, best_ask, result>>

AddOrder(id, s, p, q) ==
  /\ running
  /\ ValidPrice(p) /\ q # 0 /\ id \notin DOMAIN order_map
  /\ ~Exhausted
  /\ LET n == Allocated
         node == [order_id |-> id, price |-> p, quantity |-> q, side |-> s,
                  next |-> Null, prev |-> Null]
         level == IF p \in DOMAIN levels[s] THEN levels[s][p] ELSE EmptyLevel
     IN  /\ pool' = LinkLast(level, n, node)
         /\ levels' = [levels EXCEPT ![s] =
              [x \in DOMAIN @ \union {p} |-> IF x = p THEN LevelWith(level, n, q) ELSE @[x]]]
         /\ order_map' = [x \in DOMAIN order_map \union {id} |->
                            IF x = id THEN n ELSE order_map[x]]
  /\ Allocate
  /\ prices' = [prices EXCEPT ![s] = @ \union {p}]
  /\ UpdateBestPrices
  /\ result' = Added(TRUE)
  /\ UNCHANGED running

(* Mutant: the level loses the whole order, as in a full removal. *)
ShrinkByOrder(n, q) ==
  /\ pool' = [pool EXCEPT ![n].quantity = @ - q]
  /\ levels' = [levels EXCEPT ![pool[n].side][pool[n].price].total_volume =
                  @ - pool[n].quantity]
  /\ UNCHANGED <<free_list, order_map, prices, best_bid, best_ask>>

(* The order stays where it is with q shares less. *)
Shrink(n, q) ==
  /\ pool' = [pool EXCEPT ![n].quantity = @ - q]
  /\ levels' = [levels EXCEPT ![pool[n].side][pool[n].price].total_volume = @ - q]
  /\ UNCHANGED <<free_list, order_map, prices, best_bid, best_ask>>

(* The order leaves its level, and the level leaves the book when it was   *)
(* the last one there.                                                     *)
Remove(id, n) ==
  LET s == pool[n].side
      p == pool[n].price
      level == LevelWithout(levels[s][p], n)
      emptied == level.head = Null
  IN  /\ pool' = Unlink(n)
      /\ levels' = [levels EXCEPT ![s] =
           IF emptied THEN Restrict(@, DOMAIN @ \ {p}) ELSE [@ EXCEPT ![p] = level]]
      /\ prices' = [prices EXCEPT ![s] = IF emptied THEN @ \ {p} ELSE @]
      /\ order_map' = Restrict(order_map, DOMAIN order_map \ {id})
      /\ Deallocate(n)
      /\ UpdateBestPrices

(* The rest of cancel_order and execute_order, once the quantity is known. *)
TakeShares(call, id, n, q) ==
  /\ IF q = 0 THEN UNCHANGED <<pool, free_list, order_map, prices, levels, best_bid, best_ask>>
     ELSE IF q < pool[n].quantity THEN Shrink(n, q)
     ELSE Remove(id, n)
  /\ result' = Answer(call, TRUE, q # 0 /\ q = pool[n].quantity, q)

Unknown(id) ==
  /\ running
  /\ id \notin DOMAIN order_map
  /\ result' = NotFound
  /\ UNCHANGED <<pool, free_list, order_map, prices, levels, best_bid, best_ask, running>>

(* Mutant: a cancel of quantity zero cancels nothing. *)
CancelJustSo(id, q) ==
  /\ running
  /\ id \in DOMAIN order_map
  /\ LET n == order_map[id] IN TakeShares("cancel", id, n, Lesser(q, pool[n].quantity))
  /\ UNCHANGED running

CancelOrder(id, q) ==
  /\ running
  /\ id \in DOMAIN order_map
  /\ LET n == order_map[id]
     IN  TakeShares("cancel", id, n, IF q = 0 THEN pool[n].quantity ELSE Lesser(q, pool[n].quantity))
  /\ UNCHANGED running

ExecuteOrder(id, q) ==
  /\ running
  /\ id \in DOMAIN order_map
  /\ LET n == order_map[id]
     IN  TakeShares("execute", id, n, Lesser(q, pool[n].quantity))
  /\ UNCHANGED running

Next ==
  \E id \in OrderIds, q \in Quantities :
    \/ \E p \in Prices :
         \/ AddRejected(id, p, q)
         \/ AddExhausted(id, p, q)
         \/ \E s \in Sides : AddOrder(id, s, p, q)
    \/ Unknown(id)
    \/ CancelOrder(id, q)
    \/ ExecuteOrder(id, q)

Spec == Init /\ [][Next]_vars

-----------------------------------------------------------------------------
(* Reading the book. *)

(* The nodes met from slot n when following next, or prev. *)
Walk(n, link) ==
  LET step[k \in 0 .. MaxOrders] ==
        IF k = 0 THEN n
        ELSE IF step[k - 1] = Null THEN Null ELSE pool[step[k - 1]][link]
      length == Cardinality({k \in 0 .. MaxOrders : step[k] # Null})
  IN  [k \in 1 .. length |-> step[k - 1]]

NodesAt(s, p) ==
  IF p \in DOMAIN levels[s] THEN Walk(levels[s][p].head, "next") ELSE << >>

LiveSlots == Range(order_map)

-----------------------------------------------------------------------------
(* Properties. *)

(* Type invariant: every pointer is null or inside the pool. *)
TypeOK ==
  /\ pool \in [Slots -> [order_id : OrderIds \union {Null}, price : Prices \union {0},
                         quantity : Nat, side : Sides, next : Pointers, prev : Pointers]]
  /\ free_list \in Seq(Slots)
  /\ DOMAIN order_map \subseteq OrderIds /\ LiveSlots \subseteq Slots
  /\ prices \in [Sides -> SUBSET Prices]
  /\ \A s \in Sides : \A p \in DOMAIN levels[s] :
        /\ p \in Prices
        /\ levels[s][p] \in [total_volume : Nat, head : Pointers, tail : Pointers]
  /\ best_bid \in Nat /\ best_ask \in Nat
  /\ running \in BOOLEAN

(* Every slot of the pool is either on the free list, once, or holds the   *)
(* node of exactly one live order: no operation leaks a slot or frees one  *)
(* twice (allocate, deallocate and their callers).                         *)
PoolConserved ==
  /\ \A i, j \in DOMAIN free_list : free_list[i] = free_list[j] => i = j
  /\ \A a, b \in DOMAIN order_map : order_map[a] = order_map[b] => a = b
  /\ Range(free_list) \intersect LiveSlots = {}
  /\ Range(free_list) \union LiveSlots = Slots

(* The lists and order_map hold the same orders: forwards and backwards a  *)
(* level's list is the same chain of live nodes of that side and price,    *)
(* and every live order is on the list of its level.                       *)
ListsMatchMap ==
  /\ \A id \in DOMAIN order_map : pool[order_map[id]].order_id = id
  /\ \A s \in Sides : \A p \in DOMAIN levels[s] :
       LET forwards == NodesAt(s, p)
           backwards == Walk(levels[s][p].tail, "prev")
       IN  /\ Len(forwards) = Len(backwards)
           /\ \A k \in DOMAIN forwards : backwards[Len(forwards) + 1 - k] = forwards[k]
           /\ Range(forwards) = {n \in LiveSlots : pool[n].side = s /\ pool[n].price = p}
  /\ \A n \in LiveSlots : pool[n].price \in DOMAIN levels[pool[n].side]

(* The cached total of a level is the sum of its orders, none of which is  *)
(* empty, and a level exists just as long as it has an order.              *)
VolumesAddUp ==
  \A s \in Sides :
    /\ DOMAIN levels[s] = prices[s]
    /\ \A p \in prices[s] :
         LET nodes == Range(NodesAt(s, p))
         IN  /\ nodes # {}
             /\ levels[s][p].total_volume = MapThenSumSet(LAMBDA n : pool[n].quantity, nodes)
    /\ \A n \in LiveSlots : pool[n].quantity > 0

(* The linked lists implement the abstract book: same queues, in order of  *)
(* arrival, and the same answer to every call.                             *)
Queue(s, p) ==
  LET nodes == NodesAt(s, p)
  IN  [k \in DOMAIN nodes |-> [id |-> pool[nodes[k]].order_id,
                               quantity |-> pool[nodes[k]].quantity]]
Abstract == INSTANCE AbstractBook
              WITH queues <- [s \in Sides |-> [p \in Prices |-> Queue(s, p)]]
AbstractBookSpec == Abstract!Spec

(* The cached best prices are those of the queues: never the price of a    *)
(* level already gone, or of an order refused.                             *)
BestPricesCurrent == best_bid = Abstract!BestBid /\ best_ask = Abstract!BestAsk
=============================================================================
