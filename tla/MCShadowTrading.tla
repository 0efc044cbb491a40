---------------------------- MODULE MCShadowTrading ----------------------------
(***************************************************************************)
(* Two machines in one run: the order path of the shadow engine, and one   *)
(* risk manager with its prices, accounts and clock on its own.  "part"    *)
(* says which of the two moves.                                            *)
(***************************************************************************)
EXTENDS ShadowTrading

CONSTANTS s1, s2

MCStrategies == {s1, s2}

\* One price is enough for orders to meet; two sizes for partial fills.
MCOrders == [side : {"buy", "sell"}, type : {"Limit"}, price : {1}, quantity : {1, 2}]

CONSTANTS Symbols, Quantities, MaxPerMinute, MaxDailyLoss, MaxDrawdownPct, MaxDeviationPct,
  MaxGrossExposure, SecondsPerMinute, MaxProduct, MaxFills, MaxResets,
  QuotedPrices, PositionLimit, SizeLimit, ClockLimit
VARIABLES part, positions, known, reference, daily, peak, rateCount, last, allowed, now,
  fillCount, resets, cash, exact, rounding, passed

Risk == INSTANCE RiskManager WITH
  count <- rateCount, enabled <- allowed, fills <- fillCount,
  Prices <- QuotedPrices, MaxPosition <- PositionLimit, MaxOrderSize <- SizeLimit,
  MaxSeconds <- ClockLimit
riskMachine == <<positions, known, reference, daily, peak, rateCount, last, allowed, now,
                 fillCount, resets, cash, exact, rounding, passed>>

ASSUME RiskAssumption == Risk!LimitsAssumption /\ Risk!MarketAssumption

MCInit == Init /\ Risk!Init /\ part \in {"orders", "risk"}
MCNext ==
  /\ \/ part = "orders" /\ Next /\ UNCHANGED riskMachine
     \/ part = "risk" /\ Risk!Next /\ UNCHANGED vars
  /\ UNCHANGED part
MCSpec == MCInit /\ [][MCNext]_<<vars, riskMachine, part>>

\* The two properties of RiskManager.
AccountsAddUp == Risk!AccountsAddUp
RateWithinLimits == Risk!RateWithinLimits
===============================================================================
