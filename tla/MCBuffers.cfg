\* The queue: two slots, two producers, two laps.  The ring: four
\* slots, five items.  The log: a buffer of two cells and
\* records of one and three, so that a record is cut by a flush once or twice, or not at
\* all; three records, two openings, three seconds.  The pools: two threads, three blocks
\* of two, counts of four bits.  The arena: blocks of four, a request that needs a larger
\* one, three requests between two resets.
SPECIFICATION MCSpec
CONSTANTS
  Parts = {"many", "ring", "log", "pool", "arena"}
  Capacity = 2
  Producers = {p1, p2}
  Items = {red, blue}
  MaxItems = 4
  MaxRefused = 1
  RingSlots = 4
  RingItems = 5
  BufferSize = 2
  MaxFileSize = 4
  RecordSizes = {1, 3}
  MaxRecords = 3
  MaxClock = 3
  MaxOpened = 2
  Threads = {p1, p2}
  PoolBlock = 2
  SizeValues = 16
  MaxBlocks = 3
  AreaBlock = 4
  Requests <- MCRequests
  Bases = {0, 1}
  MaxRequests = 3
  MaxResets = 2
  BusSlots = 1
  BusThreads = {p1}
  EventTypes = {None, Tick}
  MaxQueued = 2
  None = None
  Handlers = {h1, h2}
  Batches = {1, 3}
  MaxDirect = 2
INVARIANTS ReplayIsWhole ObjectsAccountedFor ArenaReusesSafely
PROPERTIES ImplementsClaimQueue ImplementsFifo
\* Programs may stop pushing, logging and allocating; the bounds stop them here.
CHECK_DEADLOCK FALSE
