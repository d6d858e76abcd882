------------------------------ MODULE HawkesPIN ------------------------------
(***************************************************************************)
(* HawkesPIN.hpp: the trades both estimators keep, and the level of the    *)
(* probability of informed trading.  A Hawkes process is here the number   *)
(* of events it keeps: the decay with time is left out.                    *)
(***************************************************************************)
EXTENDS Integers, Sequences

CONSTANTS
  MaxEvents,  \* events the Hawkes process keeps (200)
  PinWindow   \* window_ of the PINEstimator

record_event(events) == IF events + 1 > MaxEvents THEN events ELSE events + 1

NewPin == [trade_history |-> << >>, buy_count |-> 0, sell_count |-> 0]

Counted(pin, side, n) ==
  IF side = "BUY" THEN [pin EXCEPT !.buy_count = @ + n] ELSE [pin EXCEPT !.sell_count = @ + n]

(* The trade is counted first; one that then falls out of the common       *)
(* window is taken off the count of its own side.                          *)
record_trade(pin, side) ==
  LET grown == [Counted(pin, side, 1) EXCEPT !.trade_history = Append(@, side)]
  IN  IF Len(grown.trade_history) <= PinWindow THEN grown
      ELSE [Counted(grown, Head(grown.trade_history), -1) EXCEPT !.trade_history = Tail(@)]

(* estimate_pin as a fraction: with d the difference of the two counts, m  *)
(* the greater and t their sum, (d m / t^2) / (d m / t^2 + 1).             *)
Informed(pin) ==
  LET d == IF pin.buy_count > pin.sell_count THEN pin.buy_count - pin.sell_count
           ELSE pin.sell_count - pin.buy_count
      m == IF pin.buy_count > pin.sell_count THEN pin.buy_count ELSE pin.sell_count
  IN  d * m
Squared(pin) == (pin.buy_count + pin.sell_count) * (pin.buy_count + pin.sell_count)

pin_level(pin) ==
  LET above(a, b) == b * Informed(pin) > a * (Informed(pin) + Squared(pin))
  IN  IF above(2, 5) THEN "HIGH" ELSE IF above(1, 5) THEN "MEDIUM" ELSE "LOW"
=============================================================================
