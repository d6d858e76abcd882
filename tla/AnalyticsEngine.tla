--------------------------- MODULE AnalyticsEngine ---------------------------
(***************************************************************************)
(* AnalyticsEngine.hpp: order-flow imbalance and volume-weighted average   *)
(* price, each over a rolling window whose sum is carried along instead of *)
(* being added up again.  An AnalyticsEngine is a record; top is what the  *)
(* book answers for the best prices and the volumes standing there.        *)
(***************************************************************************)
EXTENDS Integers, Sequences

CONSTANTS
  Window,         \* window_ and ofi_window_size_
  MaxPriceTicks   \* MAX_PRICE_TICKS

NewAnalytics ==
  [ofi_initialized |-> FALSE,
   prev |-> [bid |-> 0, bid_sz |-> 0, ask |-> MaxPriceTicks, ask_sz |-> 0],
   ofi_buffer |-> << >>, ofi_sum |-> 0,
   vwap_buffer |-> << >>, vwap_volume |-> 0, vwap_notional |-> 0, total_trade_count |-> 0]

Tops == [bid : Nat, bid_sz : Nat, ask : Nat, ask_sz : Nat]
Trades == [price : Nat, quantity : Nat]
Engines == [ofi_initialized : BOOLEAN, prev : Tops, ofi_buffer : Seq(Int), ofi_sum : Int,
            vwap_buffer : Seq(Trades), vwap_volume : Int,
            vwap_notional : Int, total_trade_count : Nat]

If(condition, n) == IF condition THEN n ELSE 0

(* The change of pressure from top a to top b: a better price brings its   *)
(* whole volume, a worse one takes the old volume away, an equal one       *)
(* counts the difference.                                                  *)
Delta(a, b) ==
  If(b.bid >= a.bid, b.bid_sz) - If(b.bid <= a.bid, a.bid_sz)
  - If(b.ask <= a.ask, b.ask_sz) + If(b.ask >= a.ask, a.ask_sz)

(* The oldest entry of a full window, which the next one pushes out. *)
Oldest(buffer, none) == IF Len(buffer) = Window THEN Head(buffer) ELSE none

(* Mutant: a window's first entry stays in it. *)
PushedUnevicted(buffer, entry) == Append(buffer, entry)

Pushed(buffer, entry) ==
  Append(IF Len(buffer) = Window THEN Tail(buffer) ELSE buffer, entry)

(* The first call has no change to report. *)
TopSeen(a, top) ==
  IF ~a.ofi_initialized THEN [a EXCEPT !.prev = top, !.ofi_initialized = TRUE]
  ELSE LET delta == Delta(a.prev, top)
       IN  [a EXCEPT !.prev = top,
                     !.ofi_sum = @ - Oldest(a.ofi_buffer, 0) + delta,
                     !.ofi_buffer = Pushed(@, delta)]
update_ofi[x \in Engines \X Tops] == TopSeen(x[1], x[2])

(* A trade without a price or a quantity does not count. *)
TradeSeen(a, trade) ==
  IF trade.price = 0 \/ trade.quantity = 0 THEN a
  ELSE LET old == Oldest(a.vwap_buffer, [price |-> 0, quantity |-> 0])
       IN  [a EXCEPT !.vwap_notional = @ - old.price * old.quantity + trade.price * trade.quantity,
                     !.vwap_volume = @ - old.quantity + trade.quantity,
                     !.vwap_buffer = Pushed(@, trade),
                     !.total_trade_count = @ + 1]
update_vwap[x \in Engines \X Trades] == TradeSeen(x[1], x[2])

(* -1 unless both sides are quoted and do not cross or lock. *)
get_spread(bid, ask) ==
  IF bid = 0 \/ ask >= MaxPriceTicks \/ ask <= bid THEN -1 ELSE ask - bid

(* process of an add or a cancel, and of an execution. *)
process(a, top) == update_ofi[<<a, top>>]
process_execute(a, top, trade) == update_vwap[<<update_ofi[<<a, top>>], trade>>]
=============================================================================
