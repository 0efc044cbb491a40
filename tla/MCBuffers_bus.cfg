\* The event bus: a queue of one slot, a thread that queues, two handlers,
\* batches of one and of any number: two events through the queue and two published besides,
\* so that a handler can publish from a dispatch within a dispatch.  The constants of the
\* other machines are those of MCBuffers.cfg; they stand still.
SPECIFICATION MCSpec
CONSTANTS
  Parts = {"bus"}
  Capacity = 2
  Producers = {p1, p2}
  Items = {red, blue}
  MaxItems = 4
  MaxRefused = 1
  RingSlots = 4
  RingItems = 5
  BufferSize = 2
  MaxFileSize = 4
  RecordSizes = {1, 3}
  MaxRecords = 3
  MaxClock = 3
  MaxOpened = 2
  Threads = {p1, p2}
  PoolBlock = 2
  SizeValues = 16
  MaxBlocks = 3
  AreaBlock = 4
  Requests <- MCRequests
  Bases = {0, 1}
  MaxRequests = 3
  MaxResets = 2
  BusSlots = 1
  BusThreads = {p1}
  EventTypes = {None, Tick}
  MaxQueued = 2
  None = None
  Handlers = {h1, h2}
  Batches = {1, 3}
  MaxDirect = 2
INVARIANTS DispatchExact
PROPERTIES QueuedIsPublished
\* Programs may stop publishing; the bounds stop them here.
CHECK_DEADLOCK FALSE
