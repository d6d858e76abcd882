------------------------------- MODULE Ingestor -------------------------------
(***************************************************************************)
(* run_ingestor of main.rs: ITCH messages are read from the dataset, those *)
(* of the target symbols turned into one or two ticks each with the help   *)
(* of order_side_map, and pushed into the symbol's ring, where a tick is   *)
(* dropped when the ring stays full.  The engines apply what they pop to   *)
(* their books.                                                            *)
(*                                                                         *)
(* The file is a legal day of the exchange: order ids are unique per       *)
(* stock_locate and day, and an order is changed only while it is alive.   *)
(* A stock_locate is the code of one symbol, so it stands for the symbol.  *)
(***************************************************************************)
EXTENDS Integers, Sequences, SequencesExt, FiniteSets, Functions

CONSTANTS
  Locates,        \* stock_locate codes
  OrderIds,       \* order reference and match numbers
  Prices,         \* prices of the file, in units of 1/10000 dollar
  Quantities,
  MinValidPrice,  \* MIN_VALID_PRICE of the book
  MaxPriceTicks,  \* MAX_PRICE_TICKS of the book
  QueueCap,       \* ticks a ring holds
  MaxMessages     \* bound of the model: messages in the file

ASSUME IngestorAssumption ==
  /\ Prices \subseteq Nat /\ Quantities \subseteq Nat \ {0}
  /\ MinValidPrice \in Nat /\ MaxPriceTicks \in Nat
  /\ QueueCap \in Nat \ {0} /\ MaxMessages \in Nat

VARIABLES
  target_symbols,        \* chosen on the command line
  target_stock_locates,  \* targets whose directory message was read
  order_side_map,        \* (stock_locate, order id) -> side, price
  pending,               \* ticks of the current message not yet pushed
  ticks_dropped,
  msg_count,
  queue,                 \* the ring of each symbol
  book,                  \* each engine's live orders: id -> side, price, quantity
  exchange,              \* history: the live orders of the file, with the price of the file
  added,                 \* history: all its orders, as they were added
  seen                   \* history: those whose origin the ingestor could see

fileVars == <<exchange, added, seen, msg_count>>
vars == <<target_symbols, target_stock_locates, order_side_map, pending,
          ticks_dropped, queue, book, fileVars>>

Sides == {"BUY", "SELL"}

-----------------------------------------------------------------------------
With(f, x, v) == [y \in DOMAIN f \union {x} |-> IF y = x THEN v ELSE f[y]]
Without(f, x) == Restrict(f, DOMAIN f \ {x})

(* Prices become whole dollars. *)
TickPrice(p) == p \div 10000

(* Mutant: order ids are taken to be unique across symbols. *)
KeyById(l, id) == <<id>>

Key(l, id) == <<l, id>>

Tick(type, id, entry, quantity) ==
  [order_type |-> type, order_id |-> id, side |-> entry.side, price |-> entry.price,
   quantity |-> quantity, trade_side_is_aggressor |-> FALSE]

Lesser(a, b) == IF a <= b THEN a ELSE b

ValidPrice(p) == MinValidPrice <= p /\ p < MaxPriceTicks

(* Order id loses q shares, and leaves the book with its last. *)
Taken(orders, id, q) ==
  IF q >= orders[id].quantity THEN Without(orders, id)
  ELSE [orders EXCEPT ![id].quantity = @ - q]

(* What dispatch does to the live orders of the book. *)
Apply(orders, tick) ==
  LET id == tick.order_id
  IN  CASE tick.order_type = "ADD" ->
             IF ValidPrice(tick.price) /\ id \notin DOMAIN orders
             THEN With(orders, id, [side |-> tick.side, price |-> tick.price,
                                    quantity |-> tick.quantity])
             ELSE orders
        [] tick.order_type = "CANCEL" /\ id \in DOMAIN orders ->
             Taken(orders, id, IF tick.quantity = 0 THEN orders[id].quantity ELSE tick.quantity)
        [] tick.order_type = "EXECUTE" /\ id \in DOMAIN orders /\ ~tick.trade_side_is_aggressor ->
             Taken(orders, id, tick.quantity)
        [] OTHER -> orders

-----------------------------------------------------------------------------
Init ==
  /\ target_symbols \in SUBSET Locates
  /\ target_stock_locates = {}
  /\ order_side_map = << >>
  /\ pending = << >>
  /\ ticks_dropped = 0
  /\ msg_count = 0
  /\ queue = [l \in Locates |-> << >>]
  /\ book = [l \in Locates |-> << >>]
  /\ exchange = << >>
  /\ added = << >>
  /\ seen = {}

-----------------------------------------------------------------------------
(* One message is read and parsed; the ticks of the one before have been   *)
(* pushed or dropped.                                                      *)
ReadMessage ==
  /\ pending = << >>
  /\ msg_count < MaxMessages
  /\ msg_count' = msg_count + 1
  /\ UNCHANGED <<target_symbols, ticks_dropped, queue, book>>

(* The ticks of the message, to be routed to symbol l. *)
Route(l, ticks) == pending' = [i \in DOMAIN ticks |-> [symbol |-> l, tick |-> ticks[i]]]

(* R: the stock_locate of a symbol. *)
ReadDirectory(l) ==
  /\ ReadMessage
  /\ target_stock_locates' =
       IF l \in target_symbols THEN target_stock_locates \union {l} ELSE target_stock_locates
  /\ UNCHANGED <<order_side_map, pending, exchange, added, seen>>

(* A, F *)
ReadAdd(l, id, s, p, q) ==
  /\ ReadMessage
  /\ <<l, id>> \notin DOMAIN added
  /\ LET order == [side |-> s, price |-> p, quantity |-> q]
     IN  /\ exchange' = With(exchange, <<l, id>>, order)
         /\ added' = With(added, <<l, id>>, order)
  /\ IF l \in target_stock_locates
     THEN LET entry == [side |-> s, price |-> TickPrice(p)]
          IN  /\ order_side_map' = With(order_side_map, Key(l, id), entry)
              /\ Route(l, <<Tick("ADD", id, entry, q)>>)
              /\ seen' = seen \union {<<l, id>>}
     ELSE UNCHANGED <<order_side_map, pending, seen>>
  /\ UNCHANGED target_stock_locates

(* Is the message one of a known order of a target symbol? *)
Known(l, id) == l \in target_stock_locates /\ Key(l, id) \in DOMAIN order_side_map

(* E, C: q shares executed, at the order's price or at price p. *)
ReadExecuted(l, id, q, p) ==
  /\ ReadMessage
  /\ <<l, id>> \in DOMAIN exchange
  /\ q <= exchange[<<l, id>>].quantity
  /\ exchange' = Taken(exchange, <<l, id>>, q)
  /\ IF Known(l, id)
     THEN \E price \in {order_side_map[Key(l, id)].price, TickPrice(p)} :
            Route(l, <<Tick("EXECUTE", id,
                            [order_side_map[Key(l, id)] EXCEPT !.price = price], q)>>)
     ELSE UNCHANGED pending
  /\ UNCHANGED <<target_stock_locates, order_side_map, added, seen>>

(* X: q shares, but not all, cancelled. *)
ReadCancel(l, id, q) ==
  /\ ReadMessage
  /\ <<l, id>> \in DOMAIN exchange
  /\ q < exchange[<<l, id>>].quantity
  /\ exchange' = Taken(exchange, <<l, id>>, q)
  /\ IF Known(l, id)
     THEN Route(l, <<Tick("CANCEL", id, order_side_map[Key(l, id)], q)>>)
     ELSE UNCHANGED pending
  /\ UNCHANGED <<target_stock_locates, order_side_map, added, seen>>

(* D: the order is deleted; its tick asks for all of it. *)
ReadDelete(l, id) ==
  /\ ReadMessage
  /\ <<l, id>> \in DOMAIN exchange
  /\ exchange' = Without(exchange, <<l, id>>)
  /\ IF Known(l, id)
     THEN /\ order_side_map' = Without(order_side_map, Key(l, id))
          /\ Route(l, <<Tick("CANCEL", id, order_side_map[Key(l, id)], 0)>>)
     ELSE UNCHANGED <<order_side_map, pending>>
  /\ UNCHANGED <<target_stock_locates, added, seen>>

(* U in the file: order id makes way for order new, on the same side. *)
Replaced(l, id, new, p, q) ==
  /\ <<l, id>> \in DOMAIN exchange
  /\ <<l, new>> \notin DOMAIN added
  /\ LET order == [side |-> exchange[<<l, id>>].side, price |-> p, quantity |-> q]
     IN  /\ exchange' = With(Without(exchange, <<l, id>>), <<l, new>>, order)
         /\ added' = With(added, <<l, new>>, order)

(* Mutant: the new order is entered with the price of the old one. *)
ReplaceAtOldPrice(l, id, new, p, q) ==
  /\ ReadMessage
  /\ Replaced(l, id, new, p, q)
  /\ IF Known(l, id)
     THEN LET old == order_side_map[Key(l, id)]
          IN  /\ order_side_map' = With(Without(order_side_map, Key(l, id)), Key(l, new), old)
              /\ Route(l, <<Tick("CANCEL", id, old, 0),
                            Tick("ADD", new, [old EXCEPT !.price = TickPrice(p)], q)>>)
              /\ seen' = seen \union {<<l, new>>}
     ELSE UNCHANGED <<order_side_map, pending, seen>>
  /\ UNCHANGED target_stock_locates

(* U: two ticks, secondary_tick before parsed_tick. *)
ReadReplace(l, id, new, p, q) ==
  /\ ReadMessage
  /\ Replaced(l, id, new, p, q)
  /\ IF Known(l, id)
     THEN LET old == order_side_map[Key(l, id)]
              entry == [old EXCEPT !.price = TickPrice(p)]
          IN  /\ order_side_map' = With(Without(order_side_map, Key(l, id)), Key(l, new), entry)
              /\ Route(l, <<Tick("CANCEL", id, old, 0), Tick("ADD", new, entry, q)>>)
              /\ seen' = seen \union {<<l, new>>}
     ELSE UNCHANGED <<order_side_map, pending, seen>>
  /\ UNCHANGED target_stock_locates

(* Mutant: the tick of a trade is not marked as one. *)
TradeAsExecution(l, id, s, p, q) ==
  /\ ReadMessage
  /\ IF l \in target_stock_locates
     THEN Route(l, <<Tick("EXECUTE", id, [side |-> s, price |-> TickPrice(p)], q)>>)
     ELSE UNCHANGED pending
  /\ UNCHANGED <<target_stock_locates, order_side_map, exchange, added, seen>>

(* P: a trade against no displayed order, under its match number. *)
ReadTrade(l, id, s, p, q) ==
  /\ ReadMessage
  /\ IF l \in target_stock_locates
     THEN Route(l, <<[Tick("EXECUTE", id, [side |-> s, price |-> TickPrice(p)], q)
                        EXCEPT !.trade_side_is_aggressor = TRUE]>>)
     ELSE UNCHANGED pending
  /\ UNCHANGED <<target_stock_locates, order_side_map, exchange, added, seen>>

(* push_with_backpressure: the next tick is pushed, or dropped when the    *)
(* ring stays full.  pace_replay only delays it.                           *)
PushTick ==
  /\ pending # << >>
  /\ LET next == Head(pending)
     IN  IF Len(queue[next.symbol]) < QueueCap
         THEN /\ queue' = [queue EXCEPT ![next.symbol] = Append(@, next.tick)]
              /\ UNCHANGED ticks_dropped
         ELSE /\ ticks_dropped' = ticks_dropped + 1
              /\ UNCHANGED queue
  /\ pending' = Tail(pending)
  /\ UNCHANGED <<target_symbols, target_stock_locates, order_side_map, book, fileVars>>

(* The engine of symbol l takes a tick from its ring. *)
Dispatch(l) ==
  /\ queue[l] # << >>
  /\ book' = [book EXCEPT ![l] = Apply(@, Head(queue[l]))]
  /\ queue' = [queue EXCEPT ![l] = Tail(@)]
  /\ UNCHANGED <<target_symbols, target_stock_locates, order_side_map, pending,
                 ticks_dropped, fileVars>>

Next ==
  \/ PushTick
  \/ \E l \in Locates :
       \/ ReadDirectory(l)
       \/ Dispatch(l)
       \/ \E id \in OrderIds :
            \/ ReadDelete(l, id)
            \/ \E q \in Quantities :
                 \/ ReadCancel(l, id, q)
                 \/ \E p \in Prices :
                      \/ ReadExecuted(l, id, q, p)
                      \/ \E new \in OrderIds : ReadReplace(l, id, new, p, q)
                      \/ \E s \in Sides : ReadAdd(l, id, s, p, q) \/ ReadTrade(l, id, s, p, q)

Spec == Init /\ [][Next]_vars

-----------------------------------------------------------------------------
(* Properties. *)

(* The order of the file as the book should have it. *)
AsTick(order) == [order EXCEPT !.price = TickPrice(@)]

(* order_side_map follows the file, also where ticks are dropped: every    *)
(* live order the ingestor could see is in it with its side and its price, *)
(* and it holds nothing of other symbols.                                  *)
OrderMapCurrent ==
  /\ \A key \in seen \intersect DOMAIN exchange :
       LET k == Key(key[1], key[2])
       IN  /\ k \in DOMAIN order_side_map
           /\ order_side_map[k].side = exchange[key].side
           /\ order_side_map[k].price = TickPrice(exchange[key].price)
  /\ DOMAIN order_side_map \subseteq {Key(key[1], key[2]) : key \in seen}

(* The ticks under way to the engine of symbol l; those that are pending   *)
(* come from one message, and so go to one symbol.                         *)
UnderWay(l) ==
  queue[l] \o IF pending # << >> /\ Head(pending).symbol = l
              THEN [i \in DOMAIN pending |-> pending[i].tick] ELSE << >>

(* The book of symbol l once its engine has consumed them. *)
Settled(l) == FoldLeft(Apply, book[l], UnderWay(l))

Seen(l) == {id \in OrderIds : <<l, id>> \in seen \intersect DOMAIN exchange}

(* As long as no tick was dropped, each engine's book is, up to the ticks  *)
(* under way, the file's book of its symbol: the orders added since the    *)
(* symbol was resolved whose price the book accepts.  (All message cases   *)
(* of run_ingestor; FIX 1, the composite key.)                             *)
BookFollowsExchange ==
  ticks_dropped = 0 =>
    \A l \in Locates :
      Settled(l) = [id \in {i \in Seen(l) : ValidPrice(TickPrice(exchange[<<l, i>>].price))} |->
                      AsTick(exchange[<<l, id>>])]

(* Dropped ticks leave orders in the book that are gone, or too large, but *)
(* no order is ever too small, too large for what was added, or another    *)
(* symbol's.                                                               *)
DropsOnlyOverstate ==
  \A l \in Locates : \A id \in DOMAIN Settled(l) :
    LET order == Settled(l)[id]
    IN  /\ <<l, id>> \in seen
        /\ order.side = added[<<l, id>>].side
        /\ order.price = TickPrice(added[<<l, id>>].price)
        /\ order.quantity <= added[<<l, id>>].quantity
        /\ <<l, id>> \in DOMAIN exchange => exchange[<<l, id>>].quantity <= order.quantity
=============================================================================
