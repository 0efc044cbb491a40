\* The lanes of the demo: two slots, five events two or none apart, a lifetime of
\* six, a gate at half of a horizon of four, or of what was calibrated over.  The pipeline
\* tool: tapes of four trades of three kinds, the measured run and one point of the sweep,
\* a window and a calibration of two, a lifetime of two; and schedules of five trades,
\* with three service times, a stall among them.
SPECIFICATION MCSpec
CONSTANTS
  Capacity = 2
  Window = 2
  CalibrationN = 2
  TTL = 6
  Horizon = 4
  MaxAgePercent = 50
  BudgetNs = 2
  ParameterMode = TRUE
  LapsToFail = 1
  Steps = {0, 2}
  MaxEvents = 5
  MaxGeneration = 1
  PipeTTL = 2
  Trades <- MCTrades
  Ticks = 4
  Passes = 2
  DepthLevels = 2
  QuantilePercent = 50
  SubBucketBits = 2
  N = 5
  MaxMs = 1
  UnitsPerMs = 6
  Speed = 2
  Costs = {1, 4, 7}
  Delays = {0, 1}
INVARIANTS ActsOnLiveAdvice MeasurementsExact DecidesOnTheTape BookViewsAgree ScheduleKeepsTheTape HistogramsHonest
PROPERTIES AdviceMovesOn LanesEnd
\* The tape ends, and with it the run.
CHECK_DEADLOCK FALSE
