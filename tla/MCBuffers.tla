------------------------------ MODULE MCBuffers ------------------------------
(***************************************************************************)
(* Six machines, all of them places where data waits: the queue of many    *)
(* producers, the event bus over the queue it implements, the ring buffer, *)
(* the binary log, the object pools and the arena.  "part" says which of   *)
(* them moves, and Parts which of them a run is about.                     *)
(***************************************************************************)
EXTENDS MPSCQueue

CONSTANTS Parts, RingSlots, RingItems,
  BufferSize, MaxFileSize, RecordSizes, MaxRecords, MaxClock, MaxOpened,
  Threads, PoolBlock, SizeValues, MaxBlocks,
  AreaBlock, Requests, Bases, MaxRequests, MaxResets,
  BusSlots, BusThreads, EventTypes, MaxQueued, None, Handlers, Batches, MaxDirect

MCRequests == {[size |-> 1, alignment |-> 1], [size |-> 2, alignment |-> 2], [size |-> 5, alignment |-> 1]}

VARIABLES part,
  rHead, rTail, rBuffer, rPpc, rItem, rCpc, rGot, rPushed, rPopped, pushResult, popResult,
  disk, heads, pc, rotating, path, buffer, rest, fileSize, numRecords, clock, stamps, logged, opened,
  free, capacity, allocated, blocks, live,
  aBlocks, index, current, total, aLive, asked, before, held, resets,
  bClaimed, bFilled, bPopped, bRefused, filling, handlers, seqNum, stack, batch, seen, published, since

Ring == INSTANCE RingBuffer WITH Capacity <- RingSlots, MaxItems <- RingItems,
  head <- rHead, tail <- rTail, buffer <- rBuffer, ppc <- rPpc, item <- rItem, cpc <- rCpc,
  got <- rGot, pushed <- rPushed, popped <- rPopped
Log == INSTANCE BinaryLog
Pool == INSTANCE ObjectPool WITH BlockSize <- PoolBlock
Area == INSTANCE Arena WITH BlockSize <- AreaBlock, blocks <- aBlocks, live <- aLive
Bus == INSTANCE EventBus WITH Capacity <- BusSlots, Producers <- BusThreads,
  claimed <- bClaimed, filled <- bFilled, popped <- bPopped, refused <- bRefused
ringMachine == <<rHead, rTail, rBuffer, rPpc, rItem, rCpc, rGot, rPushed, rPopped, pushResult, popResult>>
logMachine == <<disk, heads, pc, rotating, path, buffer, rest, fileSize, numRecords, clock, stamps, logged, opened>>
poolMachine == <<free, capacity, allocated, blocks, live>>
areaMachine == <<aBlocks, index, current, total, aLive, asked, before, held, resets>>
busMachine == <<bClaimed, bFilled, bPopped, bRefused, filling, handlers, seqNum, stack, batch, seen, published, since>>

ASSUME MachinesAssumption ==
  /\ Parts \subseteq {"many", "bus", "ring", "log", "pool", "arena"}
  /\ CapacityAssumption /\ BoundsAssumption /\ Ring!CapacityAssumption
  /\ Log!LogAssumption /\ Pool!PoolAssumption /\ Area!ArenaAssumption
  /\ Bus!BusAssumption

First == CHOOSE v \in Items : TRUE
MCInit ==
  /\ Init /\ Ring!Init /\ Log!Init /\ Pool!Init /\ Area!Init /\ Bus!Init
  /\ part \in Parts
  /\ part # "many" => got = First
  /\ part # "ring" => rGot = First
MCNext ==
  /\ \/ part = "many" /\ Next /\ UNCHANGED <<ringMachine, logMachine, poolMachine, areaMachine, busMachine>>
     \/ part = "bus" /\ Bus!Next /\ UNCHANGED <<vars, ringMachine, logMachine, poolMachine, areaMachine>>
     \/ part = "ring" /\ Ring!Next /\ UNCHANGED <<vars, logMachine, poolMachine, areaMachine, busMachine>>
     \/ part = "log" /\ Log!Next /\ UNCHANGED <<vars, ringMachine, poolMachine, areaMachine, busMachine>>
     \/ part = "pool" /\ Pool!Next /\ UNCHANGED <<vars, ringMachine, logMachine, areaMachine, busMachine>>
     \/ part = "arena" /\ Area!Next /\ UNCHANGED <<vars, ringMachine, logMachine, poolMachine, busMachine>>
  /\ UNCHANGED part
\* The fairness of MPSCQueue and of EventBus, for as long as it is the machine
\* that moves.
MCSpec ==
  /\ MCInit /\ [][MCNext]_<<vars, ringMachine, logMachine, poolMachine, areaMachine, busMachine, part>>
  /\ WF_vars(part = "many" /\ Consumer)
  /\ \A p \in Producers : WF_vars(part = "many" /\ PushStep(p))
  /\ WF_busMachine(part = "bus" /\ Bus!BusStep)
  /\ \A p \in BusThreads : WF_busMachine(part = "bus" /\ Bus!FillStep(p))

\* The properties of the instances.
DispatchExact == Bus!DispatchExact
QueuedIsPublished == Bus!QueuedIsPublished
ImplementsFifo == Ring!ImplementsFifo
ReplayIsWhole == Log!ReplayIsWhole
ObjectsAccountedFor == Pool!ObjectsAccountedFor
ArenaReusesSafely == Area!ArenaReusesSafely
===============================================================================
