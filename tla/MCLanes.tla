-------------------------------- MODULE MCLanes --------------------------------
(***************************************************************************)
(* Three machines about the lanes: the two lanes of the demo, the          *)
(* decisions of the pipeline tool, which runs a fast lane beside a slow    *)
(* one too, and the latencies that tool measures.  "part" says which of    *)
(* them moves.                                                             *)
(***************************************************************************)
EXTENDS Lanes

CONSTANTS
  PipeTTL, Trades, Ticks, Passes, DepthLevels, QuantilePercent,
  SubBucketBits, N, MaxMs, UnitsPerMs, Speed, Costs, Delays

MCTrades == {[sign |-> 1, quantity |-> 1, price |-> 3], [sign |-> 1, quantity |-> 2, price |-> 4],
             [sign |-> -1, quantity |-> 1, price |-> 5]}

VARIABLES part,
  pFpc, tape, pass, tick, bids, asks, flow, warnAbove, pCached, sizedDown, decided,
  pQueue, pSlot, pStop, pSpc, pGot, pNewest, slowFlow, samples, slowWarn,
  recorded, now, service, response, queueing, behind

Pipe == INSTANCE TickToTrade WITH TTL <- PipeTTL, fpc <- pFpc, cached <- pCached, queue <- pQueue, slot <- pSlot,
  stop <- pStop, spc <- pSpc, got <- pGot, newest <- pNewest, calib <- samples
Stages == INSTANCE StageTimes
pipeMachine == <<pFpc, tape, pass, tick, bids, asks, flow, warnAbove, pCached, sizedDown, decided,
                 pQueue, pSlot, pStop, pSpc, pGot, pNewest, slowFlow, samples, slowWarn>>
timesMachine == <<recorded, now, service, response, queueing, behind>>

ASSUME MachinesAssumption ==
  /\ Pipe!TapeAssumption /\ Pipe!OptionsAssumption /\ Stages!ScheduleAssumption

\* Only the machine that moves needs every tape.
MCInit ==
  /\ Init /\ Pipe!Init /\ Stages!Init /\ part \in {"lanes", "decisions", "times"}
  /\ part # "times" => recorded = [i \in 1..N |-> 0]
MCNext ==
  /\ \/ part = "lanes" /\ Next /\ UNCHANGED <<pipeMachine, timesMachine>>
     \/ part = "decisions" /\ Pipe!Next /\ UNCHANGED <<vars, timesMachine>>
     \/ part = "times" /\ Stages!Next /\ UNCHANGED <<vars, pipeMachine>>
  /\ UNCHANGED part
\* The fairness of Lanes, for as long as it is the machine that moves.
MCSpec ==
  /\ MCInit /\ [][MCNext]_<<vars, pipeMachine, timesMachine, part>>
  /\ WF_vars(part = "lanes" /\ Fast)

\* Where the lanes of the demo are the machine that moves, they end.
LanesEnd == part = "lanes" => BothLanesEnd

\* The properties of the instances.
DecidesOnTheTape == Pipe!DecidesOnTheTape
BookViewsAgree == Pipe!BookViewsAgree
ScheduleKeepsTheTape == Stages!ScheduleKeepsTheTape
HistogramsHonest == Stages!HistogramsHonest
===============================================================================
