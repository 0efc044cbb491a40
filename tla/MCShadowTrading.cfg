\* Two strategies, up to four submissions, one restart; and one risk manager
\* with three fills at two prices, two minutes of two seconds and one reset.
SPECIFICATION MCSpec
CONSTANTS
  s1 = s1  s2 = s2
  Strategies <- MCStrategies
  Orders <- MCOrders
  Prices = {1}
  Sizes = {}
  MaxOrders = 4
  MaxPosition = 2
  MaxOrderSize = 2
  MaxPerSecond = 1
  MaxSeconds = 1
  MaxStarts = 2
  Symbols = {"btc"}
  QuotedPrices = {70, 100}
  PositionLimit = 3
  SizeLimit = 1
  ClockLimit = 2
  Quantities = {1, 2}
  MaxPerMinute = 1
  MaxDailyLoss = 50
  MaxDrawdownPct = 20
  MaxDeviationPct = 10
  MaxGrossExposure = 200
  SecondsPerMinute = 2
  MaxProduct = 350
  MaxFills = 3
  MaxResets = 1
INVARIANTS OrdersAreTracked AccountsAddUp RateWithinLimits
\* Strategies may stop trading; the bounds stop them here.
CHECK_DEADLOCK FALSE
