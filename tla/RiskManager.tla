------------------------------ MODULE RiskManager ------------------------------
(***************************************************************************)
(* trading/risk_manager.hpp on its own: the checks before an order, the    *)
(* accounts kept from fills and quotes, and the switch that stops trading. *)
(* ShadowTrading has the part of it that the order path sets to work.      *)
(*                                                                         *)
(* Prices and quantities are int64 of eight decimals each, profits are     *)
(* doubles: here all are integers in the smallest unit, a profit being a   *)
(* price times a quantity.  MaxProduct stands for the largest int64, which *)
(* the cost of a position reaches at a value of 922 dollars.               *)
(***************************************************************************)
EXTENDS Integers, FiniteSetsExt

CONSTANTS
  Symbols,
  Prices,           \* of quotes, orders and fills
  Quantities,       \* of orders and fills
  MaxPosition, MaxOrderSize, MaxPerSecond, MaxPerMinute, MaxDailyLoss,
  MaxDrawdownPct, MaxDeviationPct, MaxGrossExposure,  \* RiskLimits
  SecondsPerMinute,
  MaxProduct,       \* the largest value of Price
  MaxFills,         \* bound on the number of fills
  MaxSeconds,       \* bound on the clock
  MaxResets         \* bound on the calls of reset_daily()

\* What the constants have to be; the runs that instantiate the module assume it.
LimitsAssumption ==
  /\ {MaxPosition, MaxOrderSize, MaxPerSecond, MaxPerMinute, MaxDailyLoss} \subseteq Nat
  /\ {MaxDrawdownPct, MaxDeviationPct, MaxGrossExposure} \subseteq Nat
  /\ SecondsPerMinute \in Nat \ {0} /\ MaxProduct \in Nat
MarketAssumption == Prices \subseteq Nat \ {0} /\ Quantities \subseteq Nat \ {0}

VARIABLES
  positions,   \* positions_, for the symbols in known
  known,       \* the keys of positions_
  reference,   \* reference_prices_: the middle, 0 if absent
  daily,       \* daily_pnl_
  peak,        \* peak_equity_
  count,       \* order_count_second_, order_count_minute_
  last,        \* last_second_, last_minute_
  enabled,     \* is_trading_enabled_
  now,         \* the clock, in seconds
  fills,       \* history: number of fills
  resets,      \* history: number of resets
  cash,        \* history: what the fills of each symbol paid
  exact,       \* history: no fill of the symbol crossed zero or overflowed
  rounding,    \* history: what the divisions in its average may have lost
  passed       \* history: orders that passed in this second and minute, or since a reset

accountVars == <<positions, known, reference, daily, peak>>
rateVars == <<count, last>>
historyVars == <<fills, resets, cash, exact, rounding, passed>>
vars == <<accountVars, rateVars, enabled, now, historyVars>>

Abs(x) == IF x < 0 THEN -x ELSE x
Signed(side, quantity) == IF side = "buy" THEN quantity ELSE -quantity
Sides == {"buy", "sell"}
Flat == [quantity |-> 0, average |-> 0, mark |-> 0, unrealized |-> 0, realized |-> 0]

Init ==
  /\ positions = [s \in Symbols |-> Flat] /\ known = {}
  /\ reference = [s \in Symbols |-> 0]
  /\ daily = 0 /\ peak = 0
  /\ count = [second |-> 0, minute |-> 0] /\ last = [second |-> 0, minute |-> 0]
  /\ enabled = TRUE
  /\ now = 0
  /\ fills = 0 /\ resets = 0
  /\ cash = [s \in Symbols |-> 0] /\ exact = [s \in Symbols |-> TRUE]
  /\ rounding = [s \in Symbols |-> 0]
  /\ passed = [second |-> 0, minute |-> 0]

-------------------------------------------------------------------------------
(* check_order(), in the order of the code.                                *)

Minute == now \div SecondsPerMinute

\* Mutant: the counter of the minute starts again with the second.
Rolled_Both ==
  LET same == last.second = now IN
  [second |-> IF same THEN count.second ELSE 0, minute |-> IF same THEN count.minute ELSE 0]
\* check_rate_limits(): a counter of another second or minute starts again.
Rolled ==
  [second |-> IF last.second = now THEN count.second ELSE 0,
   minute |-> IF last.minute = Minute THEN count.minute ELSE 0]

WithinRates == Rolled.second < MaxPerSecond /\ Rolled.minute < MaxPerMinute

WithinPosition(o) ==
  Abs(positions[o.symbol].quantity + Signed(o.side, o.quantity)) <= MaxPosition

\* Only a limit order, and only once there is a quote, has a price to check.
WithinDeviation(o) ==
  LET mid == reference[o.symbol] IN
  o.type = "Limit" /\ mid # 0 => Abs(o.price - mid) * 100 <= MaxDeviationPct * mid

Gross == MapThenSumSet(LAMBDA s : Abs(positions[s].quantity) * positions[s].mark, Symbols)

Acceptable(o) ==
  /\ o.quantity <= MaxOrderSize
  /\ WithinPosition(o)
  /\ WithinDeviation(o)
  /\ daily >= -MaxDailyLoss
  /\ Gross + o.quantity * o.price <= MaxGrossExposure

\* The counters are brought up to date whenever trading is enabled; a position is
\* created for the symbol when the order's size is in order; and an order that
\* passes is counted.
CheckOrder(o) ==
  /\ enabled
  /\ last' = [second |-> now, minute |-> Minute]
  /\ known' = IF WithinRates /\ o.quantity <= MaxOrderSize THEN known \cup {o.symbol} ELSE known
  /\ IF WithinRates /\ Acceptable(o)
       THEN /\ count' = [second |-> Rolled.second + 1, minute |-> Rolled.minute + 1]
            /\ passed' = [second |-> passed.second + 1, minute |-> passed.minute + 1]
       ELSE count' = Rolled /\ UNCHANGED passed
  /\ UNCHANGED <<positions, reference, daily, peak, enabled, now, fills, resets, cash, exact, rounding>>

-------------------------------------------------------------------------------
(* on_fill() and on_price_update().                                        *)

Equity(p) == MapThenSumSet(LAMBDA s : p[s].realized + p[s].unrealized, Symbols)

\* Division and the arithmetic of Price, which wraps around.
Quotient(a, b) == IF a < 0 THEN -((-a) \div b) ELSE a \div b
Wrap(x) == ((x + MaxProduct + 1) % (2 * (MaxProduct + 1))) - (MaxProduct + 1)

\* Mutant: a short position earns what a long one would.
Gain_Long(p, price) == price - p.average
\* What closing one unit at this price earns.
Gain(p, price) == IF p.quantity < 0 THEN p.average - price ELSE price - p.average

Reduces(p, signed) == p.quantity * signed < 0
Adds(p, signed) == p.quantity * signed > 0
Closed(p, signed) == IF Reduces(p, signed) THEN Min({Abs(signed), Abs(p.quantity)}) ELSE 0

TotalCost(p, signed, price) == p.average * Abs(p.quantity) + price * Abs(signed)

\* The average moves only with a fill that adds to the position.
Average(p, signed, price) ==
  CASE Reduces(p, signed) -> p.average
    [] p.quantity = 0     -> price
    [] OTHER              -> Quotient(Wrap(TotalCost(p, signed, price)), Abs(p.quantity + signed))

OnFill(s, side, quantity, price) ==
  LET signed == Signed(side, quantity)
      p      == positions[s]
      earned == Closed(p, signed) * Gain(p, price)
      equity == Equity(positions')
  IN  /\ fills < MaxFills
      /\ positions' = [positions EXCEPT
           ![s] = [p EXCEPT !.quantity = @ + signed,
                            !.average = Average(p, signed, price),
                            !.realized = @ + earned]]
      /\ known' = known \cup {s}
      /\ daily' = daily + earned
      /\ peak' = IF equity > peak THEN equity ELSE peak
      /\ enabled' = (/\ enabled
                     /\ peak' > 0 => (peak' - equity) * 100 <= MaxDrawdownPct * peak'
                     /\ daily' >= -MaxDailyLoss)
      /\ fills' = fills + 1
      /\ cash' = [cash EXCEPT ![s] = @ - signed * price]
      /\ exact' = [exact EXCEPT ![s] =
                     /\ @
                     /\ Abs(signed) > Abs(p.quantity) => ~Reduces(p, signed)
                     /\ Adds(p, signed) => TotalCost(p, signed, price) <= MaxProduct]
      /\ rounding' = [rounding EXCEPT ![s] = IF Adds(p, signed) THEN @ + Abs(p.quantity + signed) ELSE @]
      /\ UNCHANGED <<reference, rateVars, now, resets, passed>>

\* Nothing happens for a symbol nobody has traded or tried to trade.  A flat
\* position keeps the profit it was last valued at.
OnPriceUpdate(s, bid, ask) ==
  LET mark == (bid + ask) \div 2
      p == positions[s]
  IN  /\ s \in known
      /\ positions' = [positions EXCEPT ![s].mark = mark,
           ![s].unrealized = IF p.quantity = 0 THEN @ ELSE Abs(p.quantity) * Gain(p, mark)]
      /\ reference' = [reference EXCEPT ![s] = mark]
      /\ UNCHANGED <<known, daily, peak, rateVars, enabled, now, historyVars>>

-------------------------------------------------------------------------------
(* The operator's calls, and the clock.                                    *)

EmergencyStop ==
  /\ enabled
  /\ enabled' = FALSE
  /\ UNCHANGED <<accountVars, rateVars, now, historyVars>>

EnableTrading ==
  /\ ~enabled
  /\ enabled' = TRUE
  /\ UNCHANGED <<accountVars, rateVars, now, historyVars>>

ResetDaily ==
  /\ resets < MaxResets
  /\ daily' = 0
  /\ count' = [second |-> 0, minute |-> 0]
  /\ resets' = resets + 1
  /\ passed' = [second |-> 0, minute |-> 0]
  /\ UNCHANGED <<positions, known, reference, peak, last, enabled, now, fills, cash, exact, rounding>>

Tick ==
  /\ now < MaxSeconds
  /\ now' = now + 1
  /\ passed' = [second |-> 0, minute |-> IF Minute' = Minute THEN passed.minute ELSE 0]
  /\ UNCHANGED <<accountVars, rateVars, enabled, fills, resets, cash, exact, rounding>>

CheckedOrders == [symbol : Symbols, side : Sides, type : {"Limit", "Market"},
           price : Prices, quantity : Quantities]

Next ==
  \/ \E o \in CheckedOrders : CheckOrder(o)
  \/ \E s \in Symbols, side \in Sides, q \in Quantities, p \in Prices : OnFill(s, side, q, p)
  \/ \E s \in Symbols, bid, ask \in Prices : bid <= ask /\ OnPriceUpdate(s, bid, ask)
  \/ EmergencyStop \/ EnableTrading \/ ResetDaily \/ Tick

Spec == Init /\ [][Next]_vars

-------------------------------------------------------------------------------

\* The accounts of a symbol: what its fills have earned is the cash they moved and
\* the cost of what is held, up to the divisions in the average, each of which loses
\* less than the new position, whatever the order of buys and sells: until a fill
\* takes the position through zero (it keeps the old average) or the cost of the
\* position no longer fits an int64.
AccountsAddUp ==
  \A s \in Symbols : exact[s] =>
    LET p == positions[s] IN
    Abs(p.realized - (cash[s] + p.quantity * p.average)) <= rounding[s]

\* In no second and in no minute of the clock do more orders pass than the limits
\* say, whatever else was checked, unless the counters were reset meanwhile.
RateWithinLimits ==
  passed.second <= MaxPerSecond /\ passed.minute <= MaxPerMinute
===============================================================================
