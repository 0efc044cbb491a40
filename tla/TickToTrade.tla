------------------------------ MODULE TickToTrade ------------------------------
(***************************************************************************)
(* tools/pipeline_main.cpp: every trade of a tape goes through ingest,     *)
(* book, signal, risk and order on the fast lane, once for each pass,      *)
(* while one slow lane beside all the passes calibrates the threshold of   *)
(* the flow policy and publishes it.  What the stages cost is left to      *)
(* StageTimes.                                                             *)
(*                                                                         *)
(* Time is market time.  The bridge and the slot are used as in Lanes, in  *)
(* one step each.  permissive_limits() lets every order pass, and the wire *)
(* is emptied after every trade, so that each trade sends an order: what   *)
(* varies is its size.                                                     *)
(***************************************************************************)
EXTENDS Integers, Sequences, FlowPolicy, L2OrderBook

CONSTANTS
  Trades,          \* [sign, quantity, price] of the trades a tape may hold
  Ticks,           \* bound: the length of the tape
  Passes,          \* bound: the measured run and the points of the sweep
  DepthLevels,     \* opts.depth_levels
  Window,          \* FlowPolicyConfig::window
  CalibrationN,    \* opts.calibration_n
  QuantilePercent, \* opts.toxic_flow_quantile
  TTL,             \* opts.advisory_ttl_ms
  Capacity         \* slots of the bridge

\* What the constants have to be; the runs that instantiate the module assume it.
TapeAssumption ==
  /\ Trades \subseteq [sign : {-1, 1}, quantity : Nat \ {0}, price : Nat]
  /\ Ticks \in Nat \ {0} /\ Passes \in Nat \ {0}
OptionsAssumption ==
  /\ {DepthLevels, Window, CalibrationN, Capacity} \subseteq Nat \ {0}
  /\ QuantilePercent \in 0..100 /\ TTL \in Nat

VARIABLES
  \* the fast lane
  fpc,
  tape,            \* the trades of the file, as far as they have been read
  pass,
  tick,            \* i: ticks of this pass already begun
  bids, asks,      \* Pipeline::book
  flow, warnAbove, \* Pipeline::policy
  cached,          \* AdvisoryView::cached_
  sizedDown,       \* sized_down
  decided,         \* history: risk_off and sized down, of the last order
  \* shared
  queue, slot, stop,
  \* the slow lane
  spc, got, newest,
  slowFlow,        \* its policy's window
  calib,           \* the samples
  slowWarn         \* its policy's warn_above

pipelineVars == <<bids, asks, flow, warnAbove, cached, sizedDown, decided>>
fastVars == <<fpc, tape, pass, tick, pipelineVars>>
slowVars == <<spc, got, newest, slowFlow, calib, slowWarn>>
vars == <<fastVars, queue, slot, stop, slowVars>>

NoAdvice == [issued |-> 0, until |-> 0, parameter |-> 0]
Nothing == [riskOff |-> FALSE, sized |-> FALSE]

NewPipeline ==
  /\ bids' = NoLevels /\ asks' = NoLevels
  /\ flow' = <<>> /\ warnAbove' = 0
  /\ cached' = NoAdvice /\ sizedDown' = 0 /\ decided' = Nothing

Init ==
  /\ fpc = "tick" /\ tape = <<>> /\ pass = 1 /\ tick = 0
  /\ bids = NoLevels /\ asks = NoLevels
  /\ flow = <<>> /\ warnAbove = 0
  /\ cached = NoAdvice /\ sizedDown = 0 /\ decided = Nothing
  /\ queue = <<>> /\ slot = NoAdvice /\ stop = FALSE
  /\ spc = "outer" /\ got = FALSE /\ newest = [time |-> 0, flow |-> 0]
  /\ slowFlow = <<>> /\ calib = <<>> /\ slowWarn = 0

-------------------------------------------------------------------------------
(* The fast lane: replay().  The first pass reads the tape.                *)

Flow(t) == t.sign * t.quantity
\* Trades are one unit of time apart.
Time == tick

\* A buyer's trade makes a bid at its price and takes away the one DepthLevels
\* below; a seller's makes an ask, and takes away the one as far above.
UpdateBook(t) ==
  LET trim == t.price - t.sign * DepthLevels
      updated(levels) == UpdateLevel(UpdateLevel(levels, t.price, t.quantity), trim, 0)
  IN  IF t.sign > 0 THEN bids' = updated(bids) /\ UNCHANGED asks
                    ELSE asks' = updated(asks) /\ UNCHANGED bids

\* Ingest and book, and the observation offered to the slow lane.
Tick(t) ==
  /\ fpc = "tick" /\ tick < Ticks
  /\ IF pass = 1 THEN tape' = Append(tape, t) ELSE t = tape[tick + 1] /\ UNCHANGED tape
  /\ tick' = tick + 1
  /\ UpdateBook(t)
  /\ queue' = IF Len(queue) < Capacity
                THEN Append(queue, [time |-> tick + 1, flow |-> Flow(t)]) ELSE queue
  /\ fpc' = "advise"
  /\ UNCHANGED <<pass, flow, warnAbove, cached, sizedDown, decided, slot, stop, slowVars>>

ThresholdOf(a) == IF a.until > Time /\ a.parameter > 0 THEN a.parameter ELSE warnAbove

\* Mutant: the trade under review is in the window it is judged by.
Advise_Late ==
  /\ fpc = "advise"
  /\ cached' \in {cached, slot}
  /\ warnAbove' = ThresholdOf(cached')
  /\ flow' = Observe(flow, Flow(tape[tick]), Window)
  /\ LET d == Decide(flow', warnAbove')
         riskOff == Warm(flow', Window) /\ d.riskOff /\ d.direction = tape[tick].sign
     IN  /\ decided' = [riskOff |-> Warm(flow', Window) /\ d.riskOff, sized |-> riskOff]
         /\ sizedDown' = sizedDown + (IF riskOff THEN 1 ELSE 0)
  /\ fpc' = "tick"
  /\ UNCHANGED <<tape, pass, tick, bids, asks, queue, slot, stop, slowVars>>

\* Signal, risk and order.  current() samples the slot, or keeps what it has when
\* the read fails; a threshold that has been set stays when its advisory expires.
Advise ==
  /\ fpc = "advise"
  /\ cached' \in {cached, slot}
  /\ warnAbove' = ThresholdOf(cached')
  /\ LET d == Decide(flow, warnAbove')
         riskOff == Warm(flow, Window) /\ d.riskOff /\ d.direction = tape[tick].sign
     IN  /\ decided' = [riskOff |-> Warm(flow, Window) /\ d.riskOff, sized |-> riskOff]
         /\ sizedDown' = sizedDown + (IF riskOff THEN 1 ELSE 0)
  /\ flow' = Observe(flow, Flow(tape[tick]), Window)
  /\ fpc' = "tick"
  /\ UNCHANGED <<tape, pass, tick, bids, asks, queue, slot, stop, slowVars>>

\* The next point of the sweep: a new pipeline, the same tape, bridge and slot.
NextPass ==
  /\ fpc = "tick" /\ tick = Ticks /\ pass < Passes
  /\ pass' = pass + 1 /\ tick' = 0
  /\ NewPipeline
  /\ UNCHANGED <<fpc, tape, queue, slot, stop, slowVars>>

EndOfRun ==
  /\ fpc = "tick" /\ tick = Ticks /\ pass = Passes
  /\ stop' = TRUE
  /\ fpc' = "join"
  /\ UNCHANGED <<tape, pass, tick, pipelineVars, queue, slot, slowVars>>

Join ==
  /\ fpc = "join" /\ spc = "done"
  /\ fpc' = "joined"
  /\ UNCHANGED <<tape, pass, tick, pipelineVars, queue, slot, stop, slowVars>>

Fast == (\E t \in Trades : Tick(t)) \/ Advise \/ NextPass \/ EndOfRun \/ Join

-------------------------------------------------------------------------------
(* The slow lane.                                                          *)

TestStop ==
  /\ spc = "outer"
  /\ spc' = IF stop THEN "done" ELSE "poll"
  /\ got' = FALSE
  /\ UNCHANGED <<newest, slowFlow, calib, slowWarn, fastVars, queue, slot, stop>>

PollOne ==
  /\ spc = "poll" /\ queue # <<>>
  /\ newest' = Head(queue)
  /\ queue' = Tail(queue)
  /\ slowFlow' = Observe(slowFlow, Head(queue).flow, Window)
  /\ got' = TRUE
  /\ UNCHANGED <<spc, calib, slowWarn, fastVars, slot, stop>>

Drained ==
  /\ spc = "poll" /\ queue = <<>>
  /\ spc' = IF got /\ Warm(slowFlow, Window) THEN "decide" ELSE "outer"
  /\ UNCHANGED <<got, newest, slowFlow, calib, slowWarn, fastVars, queue, slot, stop>>

Sampled == Append(calib, Magnitude(NetFlow(slowFlow)))

Calibrate ==
  /\ spc = "decide" /\ Len(calib) + 1 < CalibrationN
  /\ calib' = Sampled
  /\ spc' = "outer"
  /\ UNCHANGED <<got, newest, slowFlow, slowWarn, fastVars, queue, slot, stop>>

Advisory(warn) == [issued |-> newest.time, until |-> newest.time + TTL, parameter |-> warn]

\* Mutant: the threshold follows the samples for ever.
Publish_Recalibrates ==
  /\ spc = "decide" /\ Len(calib) + 1 >= CalibrationN
  /\ calib' = Sampled
  /\ slowWarn' = Quantile(Sampled, QuantilePercent)
  /\ slot' = Advisory(slowWarn')
  /\ spc' = "outer"
  /\ UNCHANGED <<got, newest, slowFlow, fastVars, queue, stop>>

\* The last sample sets the threshold; from then on it is published again and again.
Publish ==
  /\ spc = "decide" /\ Len(calib) + 1 >= CalibrationN
  /\ IF Len(calib) < CalibrationN
       THEN calib' = Sampled /\ slowWarn' = Quantile(Sampled, QuantilePercent)
       ELSE UNCHANGED <<calib, slowWarn>>
  /\ slot' = Advisory(slowWarn')
  /\ spc' = "outer"
  /\ UNCHANGED <<got, newest, slowFlow, fastVars, queue, stop>>

Slow == TestStop \/ PollOne \/ Drained \/ Calibrate \/ Publish

Next == Fast \/ Slow

Spec == Init /\ [][Next]_vars

-------------------------------------------------------------------------------

\* An order is sized down by what an ideal lane without any delay would have seen:
\* the net flow of the trades just before this one on the tape, never of this one or
\* of another pass, and whatever the bridge dropped.  The threshold it is judged by is
\* none at all or the quantile of the samples calibrated on, the same in every pass to
\* the end; and in the first pass the advice it came with is about a past trade.
DecidesOnTheTape ==
  /\ fpc = "tick" /\ tick > 0 =>
       LET before == SubSeq(tape, 1, tick - 1)
           recent == SubSeq(before, tick - Window, tick - 1)
           net    == NetFlow([i \in DOMAIN recent |-> Flow(recent[i])])
           riskOff == tick > Window /\ Magnitude(net) > warnAbove
       IN  decided = [riskOff |-> riskOff, sized |-> riskOff /\ Sign(net) = tape[tick].sign]
  /\ warnAbove # 0 =>
       Len(calib) = CalibrationN /\ warnAbove = Quantile(calib, QuantilePercent)
  /\ pass = 1 => cached.issued <= tick

\* What is read off the book agrees: a quantity that the levels up to a limit can
\* cover is bought at an average no worse than the limit, all of it; the best level is
\* the limit that costs least; and the quantity of the top levels is what a walk takes
\* before it reaches the next one.
BookViewsAgree ==
  \A side \in {"buy", "sell"} :
    LET levels == IF side = "buy" THEN asks ELSE bids
        worse(limit, x) == IF side = "buy" THEN x <= limit ELSE x >= limit
    IN  /\ \A limit \in DOMAIN levels :
             LET depth == DepthToPrice(side, levels, limit)
                 value == WalkValue(side, levels, depth)
             IN  /\ WalkQuantity(side, levels, depth) = depth
                 /\ worse(limit * depth, value)
                 /\ limit \in (IF side = "buy" THEN BestAsk(levels) ELSE BestBid(levels)) =>
                      value = limit * depth
        /\ \A n \in 1..Cardinality(DOMAIN levels) :
             LET top == TopLevels(side, levels, n) IN
             /\ Cardinality(top) = n
             /\ \A p \in DOMAIN levels :
                  (Fill(side, levels, p, TopQuantity(side, levels, n)) > 0) <=> p \in top
===============================================================================
