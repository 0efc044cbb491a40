\* Studies of fourteen configurations over every stream of three events of two entities;
\* two arms over streams of three or four events; the bounds of the rest are in the module.
SPECIFICATION MCSpec
CONSTANTS
  Raw = Raw
  Unknown = Unknown
  Inferred = Inferred
  None = None
  Entities = {a, b}
  Values <- MCValues
  Fabricated = 9
  Gaps <- MCGaps
  Linger = 2
  Configs <- MCConfigs
  MaxEvents = 3
  WindowSize = 1
  Stride = 2
  TopK = 1
  SearchWindow = 2
  FilterAge = 1
  MaxAge = 2
  Streams <- MCEventStreams
  Compared = {"NoHistory", "FixedWindow", "VersionedContext"}
  Replies <- MCReplies
  Interval = 10
  StaleMin = 3
  ForeignMin = 2
  SummaryMin = 2
  ArmsWindow = 3
  ArmsFilterAge = 25
  ArmsMaxAge = 25
  Window = 2
  Horizon = 1
  Threshold = 1
  DriftWindow = 2
  Series <- MCSeries
  Embargoes <- MCEmbargoes
  Percent = 20
  Cap = 4
  Pool = {v, w}
  Asked <- MCRequests
  MaxProcesses = 2
INVARIANTS DetectionLimits StrongerNeverWorse ReportsAddUp AnswersAreWhole ArmsAreComparable NothingFromTheFuture
PROPERTIES ContextsAge
CHECK_DEADLOCK FALSE
