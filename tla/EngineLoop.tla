------------------------------ MODULE EngineLoop ------------------------------
(***************************************************************************)
(* The engine's thread (EngineLoop.hpp): each turn of its loop dispatches  *)
(* one tick to the order book, the analytics, the flow estimators, the     *)
(* spoofing detector and the per-snapshot windows, and every               *)
(* snapshot_every_n-th turn publishes a snapshot and starts new windows.   *)
(* The book is used through its abstract specification, which              *)
(* LimitOrderBook implements.                                              *)
(*                                                                         *)
(* Of a timestamp only one thing is kept: is it past the market's opening. *)
(***************************************************************************)
EXTENDS Integers, Sequences, SequencesExt, FiniteSets, FiniteSetsExt, Functions

CONSTANTS
  OrderIds, Prices, Quantities,             \* what a tick may carry
  TradePrices,                              \* what a 'P' or 'C' message may carry
  MinValidPrice, MaxPriceTicks, MaxOrders,  \* of the book
  ClusterWidth, MaxTracked, MinVolume,      \* of the spoofing detector
  Window, MaxEvents, PinWindow,             \* of the analytics and the estimators
  Width, Probe, TopDepth, TotalDepth,       \* of the graph engine: 2^32, 10000, 20, 200
  Roundings,  \* errors of the six logarithms: functions on pairs of assets
  EveryN,     \* snapshot_every_n
  WindowCap,  \* entries a window keeps (256)
  MaxTicks    \* bound of the model: ticks dispatched

ASSUME EngineAssumption ==
  /\ Prices \subseteq Nat /\ TradePrices \subseteq Nat /\ Quantities \subseteq Nat
  /\ MinValidPrice \in Nat \ {0}
  /\ EveryN \in Nat \ {0} /\ WindowCap \in Nat \ {0} /\ MaxTicks \in Nat
  /\ ClusterWidth \in Nat \ {0} /\ MaxTracked \in Nat /\ MinVolume \in Nat
  /\ Window \in Nat \ {0} /\ MaxPriceTicks \in Nat /\ MaxEvents \in Nat /\ PinWindow \in Nat
  /\ Width \in Nat /\ Probe \in 1 .. Width - 1 /\ TopDepth \in Nat /\ TotalDepth \in Nat
  /\ \A r \in Roundings : r \in [(0 .. 2) \X (0 .. 2) -> {-1, 0, 1}]

VARIABLES
  queues, result, running,    \* the book
  clusters, order_clusters,   \* the spoofing detector
  analytics,        \* analytics_
  hawkes, pin,      \* hawkes_ (the events it keeps) and pin_
  add_timestamps,   \* ids in add_timestamps_
  total_ticks,      \* stats_.total_ticks
  total_executes,   \* stats_.total_executes
  session,          \* was the last tick's timestamp past the opening
  window,           \* what happened since the last snapshot
  published,        \* the snapshot this turn handed to the callbacks, if any
  happened,         \* history: executions since the last snapshot was due
  reported          \* history: those that were due in the snapshot published

bookVars == <<queues, result, running>>
spoofVars == <<clusters, order_clusters>>
flowVars == <<hawkes, pin, total_executes>>
turnVars == <<total_ticks, session, window, published, happened, reported>>
vars == <<bookVars, spoofVars, analytics, flowVars, add_timestamps, turnVars>>

Book == INSTANCE AbstractBook
Spoof == INSTANCE SpoofingDetector
Analytics == INSTANCE AnalyticsEngine
Flow == INSTANCE HawkesPIN
Graph == INSTANCE GraphEngine WITH n_assets <- 3

Sides == Book!Sides
Opposite(s) == IF s = "BUY" THEN "SELL" ELSE "BUY"

(* spoof_alerts_in_window_, cancels_in_window_, spoof_alerts_window_ and   *)
(* executions_window_.                                                     *)
EmptyWindow == [alerts |-> 0, cancels |-> 0, signals |-> << >>, executions |-> << >>]

(* What the analytics read from the book. *)
Top == [bid |-> Book!BestBid, bid_sz |-> Book!Volume("BUY", Book!BestBid),
        ask |-> Book!BestAsk, ask_sz |-> Book!Volume("SELL", Book!BestAsk)]

-----------------------------------------------------------------------------
(* The figures of a snapshot.                                              *)
(*                                                                         *)
(* The rates among three assets are derived from one price, so that a      *)
(* cycle gains nothing; in logarithms rates[i][j] is Log(j) - Log(i), with *)
(* 2 (best_bid + best_ask) / 2 and 15 for two of the logarithms.  The      *)
(* spread is charged on every edge, and is far above the rounding.         *)

Log(i, bid, ask) ==
  IF i = 0 THEN 0 ELSE (IF bid > 0 THEN bid + ask ELSE 2) + (IF i = 2 THEN 15 ELSE 0)

(* Mutant: the spread is not charged. *)
NoFriction(spread) == 0

Friction(spread) == IF spread > 0 THEN 2 * spread ELSE 0

Weights(bid, ask, rounding) ==
  LET friction == Friction(Analytics!get_spread(bid, ask))
  IN  [i \in 0 .. 2 |-> [j \in 0 .. 2 |->
        IF i = j THEN Graph!NoEdge
        ELSE Log(i, bid, ask) - Log(j, bid, ask) + friction + rounding[<<i, j>>]]]

(* Is an arbitrage reported; a function of the two best prices. *)
Arbitrage[x \in (0 .. MaxPriceTicks) \X (0 .. MaxPriceTicks) \X Roundings] ==
  Graph!detect_arbitrage[Weights(x[1], x[2], x[3])].opportunity_found

Figures(rounding) ==
  LET asks == Book!TopAsks(TotalDepth)
      impact == Graph!simulate_market_impact(asks, Probe)
  IN  [best_bid |-> Book!BestBid, best_ask |-> Book!BestAsk,
       spread |-> Analytics!get_spread(Book!BestBid, Book!BestAsk),
       ofi |-> analytics.ofi_sum,
       vwap |-> [notional |-> analytics.vwap_notional, volume |-> analytics.vwap_volume],
       hawkes_events |-> hawkes, pin_level |-> Flow!pin_level(pin),
       flash_crash |-> Graph!compute_flash_crash_probability(asks, TopDepth),
       impact |-> impact, fully_filled |-> Graph!fully_filled(asks, impact),
       arbitrage_opportunity |-> Arbitrage[<<Book!BestBid, Book!BestAsk, rounding>>]]

-----------------------------------------------------------------------------
(* Mutant: the last place of a window is never used. *)
AppendBelowCap(seq, entry) == IF Len(seq) + 1 < WindowCap THEN Append(seq, entry) ELSE seq

AppendCapped(seq, entry) == IF Len(seq) < WindowCap THEN Append(seq, entry) ELSE seq

-----------------------------------------------------------------------------
Init ==
  /\ Book!Init
  /\ Spoof!SpoofInit
  /\ analytics = Analytics!NewAnalytics
  /\ hawkes = 0 /\ pin = Flow!NewPin
  /\ add_timestamps = {}
  /\ total_ticks = 0 /\ total_executes = 0
  /\ session = FALSE
  /\ window = EmptyWindow
  /\ published = {}
  /\ happened = << >>
  /\ reported = << >>

(* A turn begins: the tick is popped, and time does not run backwards. *)
BeginTurn ==
  /\ running
  /\ total_ticks < MaxTicks
  /\ session' \in {session, TRUE}

(* Mutant: the count of alerts survives the snapshot. *)
ClearedButAlerts(w) == [EmptyWindow EXCEPT !.alerts = w.alerts]

Cleared(w) == EmptyWindow

(* The turn ends, dispatch having left window w and executions e: the tick *)
(* is counted, and when a snapshot is due it is published, or before the   *)
(* opening not, and the window is cleared.                                 *)
EndTurn(w, e) ==
  /\ total_ticks' = total_ticks + 1
  /\ IF total_ticks' % EveryN = 0
     THEN /\ IF session'
             THEN \E rounding \in Roundings :
                    published' = {[window |-> w, figures |-> Figures(rounding)']}
             ELSE published' = {}
          /\ reported' = e
          /\ window' = Cleared(w)
          /\ happened' = << >>
     ELSE window' = w /\ happened' = e /\ published' = {} /\ reported' = << >>

(* dispatch breaks off: the book refused the tick, or it changed nothing. *)
Ignore ==
  /\ UNCHANGED <<spoofVars, analytics, flowVars, add_timestamps>>
  /\ EndTurn(window, happened)

(* The pool is exhausted: add_order throws through dispatch and the loop. *)
Abort ==
  /\ published' = {}
  /\ UNCHANGED <<spoofVars, analytics, flowVars, add_timestamps, total_ticks, window,
                 happened, reported>>

DispatchAdd(id, s, p, q) ==
  /\ BeginTurn
  /\ Book!AddOrder(id, s, p, q)
  /\ IF ~running' THEN Abort
     ELSE IF ~result'.added THEN Ignore
     ELSE /\ analytics' = Analytics!process(analytics, Top')
          /\ Spoof!record_add(id, p, q)
          /\ add_timestamps' = add_timestamps \union {id}
          /\ UNCHANGED flowVars
          /\ EndTurn(window, happened)

(* Every scored cancel is a signal for the window, suspicious or not. *)
DispatchCancel(id, q) ==
  /\ BeginTurn
  /\ Book!Unknown(id) \/ Book!CancelOrder(id, q)
  /\ IF ~result'.found \/ result'.affected_quantity = 0 THEN Ignore
     ELSE LET alert == Spoof!Alert(id, result'.affected_quantity)
              signals == IF alert.quantity > 0
                         THEN AppendCapped(window.signals, alert.quantity)
                         ELSE window.signals
          IN  /\ analytics' = Analytics!process(analytics, Top')
              /\ Spoof!check_cancel(id, result'.affected_quantity)
              /\ add_timestamps' =
                   IF result'.order_removed THEN add_timestamps \ {id} ELSE add_timestamps
              /\ UNCHANGED flowVars
              /\ EndTurn([window EXCEPT
                            !.alerts = IF alert.is_suspected_spoof THEN @ + 1 ELSE @,
                            !.cancels = @ + 1,
                            !.signals = signals], happened)

(* Mutant: the book's change by an execution is kept from the order flow. *)
ObserveTradeOnly(price, q, aggressor) ==
  /\ analytics' = Analytics!update_vwap[<<analytics, [price |-> price, quantity |-> q]>>]
  /\ hawkes' = Flow!record_event(hawkes)
  /\ pin' = Flow!record_trade(pin, aggressor)
  /\ total_executes' = total_executes + 1

(* What an execution of either kind means to the analytics. *)
Observe(price, q, aggressor) ==
  /\ analytics' = Analytics!process_execute(analytics, Top', [price |-> price, quantity |-> q])
  /\ hawkes' = Flow!record_event(hawkes)
  /\ pin' = Flow!record_trade(pin, aggressor)
  /\ total_executes' = total_executes + 1

PrintExecution(q, aggressor) ==
  LET entry == [quantity |-> q, aggressor |-> aggressor]
  IN  EndTurn([window EXCEPT !.executions = AppendCapped(@, entry)], Append(happened, entry))

(* An execution against order id, which the ingestor sends with the        *)
(* order's side; and with its price, or, from a message 'C', with another  *)
(* one, which is 0 below one dollar.                                       *)
DispatchExecute(id, q) ==
  /\ BeginTurn
  /\ Book!Unknown(id) \/ Book!ExecuteOrder(id, q)
  /\ IF ~result'.found \/ result'.affected_quantity = 0 THEN Ignore
     ELSE LET order == Book!Place(id)
          IN  /\ \E p \in TradePrices \union {order.p} :
                   Observe(p, result'.affected_quantity, Opposite(order.s))
              /\ Spoof!record_execute(id, result'.affected_quantity)
              /\ add_timestamps' =
                   IF result'.order_removed THEN add_timestamps \ {id} ELSE add_timestamps
              /\ PrintExecution(result'.affected_quantity, Opposite(order.s))

(* A trade against no displayed order: the side is the aggressor's, the    *)
(* price is 0 below one dollar, and book and detector are left alone.      *)
DispatchTrade(s, p, q) ==
  /\ BeginTurn
  /\ UNCHANGED bookVars
  /\ IF q = 0 THEN Ignore
     ELSE /\ Observe(p, q, s)
          /\ UNCHANGED <<spoofVars, add_timestamps>>
          /\ PrintExecution(q, s)

Next ==
  \E q \in Quantities :
    \/ \E id \in OrderIds : DispatchCancel(id, q) \/ DispatchExecute(id, q)
    \/ \E s \in Sides, p \in Prices : \E id \in OrderIds : DispatchAdd(id, s, p, q)
    \/ \E s \in Sides, p \in TradePrices : DispatchTrade(s, p, q)

Spec == Init /\ [][Next]_vars

-----------------------------------------------------------------------------
(* Properties. *)

Live == Book!Live
Windows == {window} \union {snap.window : snap \in published}
Outstanding(key) == MapThenSumSet(LAMBDA id : clusters[key].orders[id],
                                  DOMAIN clusters[key].orders)

(* The three registers of orders agree: the lifetimes kept are those of    *)
(* the live orders, and an order the detector follows is live, stands in   *)
(* the cluster of its price and has the same quantity left in both.        *)
TrackersFollowBook ==
  /\ add_timestamps = Live
  /\ \A id \in DOMAIN order_clusters :
       /\ Spoof!Followed(id)
       /\ id \in Live
       /\ order_clusters[id] = Spoof!price_cluster(Book!Place(id).p)
       /\ clusters[order_clusters[id]].orders[id] = Book!OrderOf(id).quantity
  /\ \A key \in DOMAIN clusters : \A id \in DOMAIN clusters[key].orders :
       id \in DOMAIN order_clusters /\ order_clusters[id] = key

(* No cluster is charged with cancelling more than was added to it, and    *)
(* the shares still waiting are never counted as cancelled too: halving    *)
(* both volumes on eviction keeps the ratio below one.                     *)
CancelsCoveredByAdds ==
  \A key \in DOMAIN clusters :
    clusters[key].total_cancel_volume + Outstanding(key) <= clusters[key].total_add_volume

(* The snapshot's cancel ratio is a ratio: within a window no more cancels *)
(* are suspected than were seen, and none is listed that was not seen.     *)
WindowCountsAgree ==
  \A w \in Windows :
    /\ w.alerts <= w.cancels
    /\ Len(w.signals) <= w.cancels
    /\ w.alerts > 0 => w.signals # << >>

(* What a window of WindowCap entries keeps of a sequence. *)
FirstOf(seq) == IF Len(seq) <= WindowCap THEN seq ELSE SubSeq(seq, 1, WindowCap)

(* "Actual executions observed since the previous snapshot": the window    *)
(* and the snapshot published have all of them, or the first WindowCap if  *)
(* there were more, in their order, and none of an earlier interval.  (An  *)
(* interval has at most EveryN: with the daemons' 50 and 256, all.)        *)
ExecutionsComplete ==
  /\ window.executions = FirstOf(happened)
  /\ \A snap \in published : snap.window.executions = FirstOf(reported)
  /\ Len(happened) < EveryN

(* The order flow sees every change of the book: between two ticks the top *)
(* it remembers is the book's, so that no change is missed or counted      *)
(* twice, whichever kind of tick made it.                                  *)
FlowSeesEveryChange ==
  analytics.ofi_initialized /\ running => analytics.prev = Top

(* The sums and counts carried along are those of the entries still in     *)
(* their windows, and the windows are as full as the trades so far allow.  *)
RunningTotals ==
  LET total(seq, f(_)) == FoldLeft(LAMBDA sum, x : sum + f(x), 0, seq)
      vwap == analytics.vwap_buffer
      count(side) == Cardinality({i \in DOMAIN pin.trade_history : pin.trade_history[i] = side})
      atMost(n, cap) == IF n < cap THEN n ELSE cap
  IN  /\ analytics.ofi_sum = total(analytics.ofi_buffer, LAMBDA delta : delta)
      /\ analytics.vwap_volume = total(vwap, LAMBDA t : t.quantity)
      /\ analytics.vwap_notional = total(vwap, LAMBDA t : t.price * t.quantity)
      /\ Len(vwap) = atMost(analytics.total_trade_count, Window)
      /\ pin.buy_count = count("BUY") /\ pin.sell_count = count("SELL")
      /\ Len(pin.trade_history) = atMost(total_executes, PinWindow)
      /\ hawkes = atMost(total_executes, MaxEvents)

(* "Did we get the full order filled?": the probe is filled as far as the  *)
(* asks go, or less far where a level's volume does not fit 32 bits, but   *)
(* never further, and at a price between the best and the worst of them;   *)
(* and a book no deeper than the top scores no risk.                       *)
RiskMatchesDepth ==
  LET asks == Book!NonEmpty("SELL")
      depth == MapThenSumSet(LAMBDA p : Book!Volume("SELL", p), asks)
      fits == \A p \in asks : Book!Volume("SELL", p) < Width
  IN  Cardinality(asks) <= TotalDepth =>
        \A snap \in published :
          LET impact == snap.figures.impact
          IN  /\ impact.filled <= Book!Lesser(Probe, depth)
              /\ fits => impact.filled = Book!Lesser(Probe, depth)
              /\ snap.figures.fully_filled <=> impact.filled = Probe
              /\ \A p \in asks : impact.notional >= Book!BestAsk * impact.filled
              /\ asks # {} => impact.notional <= Max(asks) * impact.filled
              /\ snap.figures.flash_crash.total = depth
              /\ snap.figures.flash_crash.top = depth <=> Cardinality(asks) <= TopDepth

(* Rates made from one price hold no arbitrage; what the search reports is *)
(* rounding, and never while the spread is charged.                        *)
NoArbitrageWhenQuoted ==
  \A snap \in published :
    snap.figures.arbitrage_opportunity => snap.figures.spread = -1
=============================================================================
