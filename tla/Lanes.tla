--------------------------------- MODULE Lanes ---------------------------------
(***************************************************************************)
(* The fast lane and the slow lane of tools/lanes_demo_main.cpp, joined by *)
(* a LaneBridge (lanes/lane_bridge.hpp) one way and an AdvisorySlot with   *)
(* an AdvisoryView (lanes/advisory.hpp) the other way.                     *)
(*                                                                         *)
(* The queue inside the bridge is one step per operation, as SPSCQueue is  *)
(* shown to implement FifoQueue, and the slot is a register that is        *)
(* sampled in one step, as AdvisorySlot is shown to implement              *)
(* LatestAdvisory.  Time is market time, the timestamps of the tape.  What *)
(* an advisory says is abstracted to whether it says anything.             *)
(***************************************************************************)
EXTENDS Integers, Sequences, FiniteSets

CONSTANTS
  Capacity,        \* slots of the bridge
  Window,          \* FlowPolicyConfig::window, observations until warm
  CalibrationN,    \* opts.calibration_n, decisions until calibrated
  TTL,             \* opts.advisory_ttl_ms
  Horizon,         \* opts.horizon_ms
  MaxAgePercent,   \* FreshnessPolicy::max_age_fraction in percent, 0 when off
  BudgetNs,        \* CadenceBudget::budget_ns_
  ParameterMode,   \* opts: the horizon is the span calibrated over
  LapsToFail,      \* publications during one try_read that make it fail
  Steps,           \* time between two events of the tape
  MaxEvents,       \* bound: the length of the tape
  MaxGeneration    \* bound on the context generation

ASSUME SizeAssumption ==
  /\ Capacity \in Nat \ {0} /\ Window \in Nat \ {0} /\ CalibrationN \in Nat \ {0}
  /\ LapsToFail \in Nat \ {0}
ASSUME TimeAssumption ==
  /\ TTL \in Nat /\ Horizon \in Nat /\ BudgetNs \in Nat /\ MaxAgePercent \in Nat
  /\ ParameterMode \in BOOLEAN /\ Steps \subseteq Nat
ASSUME BoundAssumption == MaxEvents \in Nat /\ MaxGeneration \in Nat

VARIABLES
  \* the fast lane
  fpc,             \* where it is in handling an event
  obs,             \* the observation of the event: ingress_time, context_generation, sequence
  generationSince, \* history: market time at which the current generation began
  sampled,         \* the advisory try_read has sampled
  sampledAt,       \* history: publications when the call of try_read began
  cached,          \* AdvisoryView::cached_
  inForce,         \* what current() returned for this event
  staleReads, rejected, rejectedStale,  \* stale_reads_, rejected_, rejected_stale_
  offeredAges,     \* FreshnessMonitor::offered_.count()
  actedAges,       \* FreshnessMonitor::acted_.count()
  callsBlind,      \* history: calls of current() before the first advisory was read
  \* shared
  queue,           \* the bridge's queue_
  offered, dropped, consumed,  \* the bridge's counters
  slot,            \* the newest advisory
  stop,            \* the stop flag
  \* the slow lane
  spc,             \* where it is in its loop
  got,             \* got: the drain found something
  newest,          \* obs of the slow lane, the newest observation consumed
  folded,          \* observations in the flow window
  calib,           \* calib.size()
  calibFirst, calibLast,  \* calib_first_ns, calib_last_ns
  cadence,         \* CadenceBudget: last_publish_ns_, have_last_, violations_, publishes_
  published,       \* history: market times published for
  backlog          \* history: sequence number accepted when the last advisory was published

tapeVars == <<obs, generationSince>>
countVars == <<rejected, rejectedStale, offeredAges, actedAges>>
viewVars == <<sampled, sampledAt, cached, inForce, staleReads, countVars, callsBlind>>
fastVars == <<fpc, tapeVars, viewVars>>
calibVars == <<calib, calibFirst, calibLast>>
publishVars == <<cadence, published, backlog>>
slowVars == <<spc, got, newest, folded, calibVars, publishVars>>
bridgeVars == <<queue, offered, dropped, consumed>>
vars == <<fastVars, slowVars, bridgeVars, slot, stop>>

NoAdvice == [stance |-> "None", issued |-> 0, until |-> 0, generation |-> 0, horizon |-> 0]

Init ==
  /\ fpc = "event"
  /\ obs = [time |-> 0, generation |-> 0, sequence |-> 0]
  /\ generationSince = 0
  /\ sampled = NoAdvice /\ sampledAt = 0
  /\ cached = NoAdvice /\ inForce = NoAdvice
  /\ staleReads = 0 /\ rejected = 0 /\ rejectedStale = 0
  /\ offeredAges = 0 /\ actedAges = 0 /\ callsBlind = 0
  /\ queue = <<>> /\ offered = 0 /\ dropped = 0 /\ consumed = 0
  /\ slot = NoAdvice
  /\ stop = FALSE
  /\ spc = "outer" /\ got = FALSE
  /\ newest = obs
  /\ folded = 0 /\ calib = 0 /\ calibFirst = 0 /\ calibLast = 0
  /\ cadence = [last |-> 0, haveLast |-> FALSE, violations |-> 0, publishes |-> 0]
  /\ published = <<>>
  /\ backlog = 0

-------------------------------------------------------------------------------
(* The fast lane: for each event offer an observation, then size the order *)
(* by the advisory in force.  A new generation is the fast lane's own      *)
(* doing, when it sees an event that invalidates prior state.              *)

Arrive(d, g) ==
  /\ fpc = "event"
  /\ obs.sequence < MaxEvents
  /\ obs' = [time |-> obs.time + d, generation |-> g, sequence |-> obs.sequence + 1]
  /\ generationSince' = IF g > obs.generation THEN obs.time + d ELSE generationSince
  /\ inForce' = NoAdvice
  /\ offered' = offered + 1
  /\ fpc' = "push"
  /\ UNCHANGED <<sampled, sampledAt, cached, staleReads, countVars, callsBlind, queue, dropped, consumed, slot, stop, slowVars>>

\* Mutant: the fast lane waits for room in the bridge.
Push_Waits ==
  /\ fpc = "push"
  /\ Len(queue) < Capacity
  /\ queue' = Append(queue, obs)
  /\ fpc' = "advise"
  /\ UNCHANGED <<tapeVars, viewVars, offered, dropped, consumed, slot, stop, slowVars>>

Push ==
  /\ fpc = "push"
  /\ \/ /\ Len(queue) < Capacity
        /\ queue' = Append(queue, obs)
        /\ fpc' = "advise"
     \/ /\ Len(queue) = Capacity
        /\ fpc' = "drop"
        /\ UNCHANGED queue
  /\ UNCHANGED <<tapeVars, viewVars, offered, dropped, consumed, slot, stop, slowVars>>

CountDrop ==
  /\ fpc = "drop"
  /\ dropped' = dropped + 1
  /\ fpc' = "advise"
  /\ UNCHANGED <<tapeVars, viewVars, queue, offered, consumed, slot, stop, slowVars>>

-------------------------------------------------------------------------------
(* AdvisoryView::current(): refresh the cache from the slot, then judge it.*)

\* Mutant: the generation is not compared.
IsValidAt_AnyGeneration(a, now, g) == a.stance # "None" /\ a.until > now
IsValidAt(a, now, g) == a.stance # "None" /\ a.until > now /\ a.generation = g

AgeAt(a, now) == IF now > a.issued THEN now - a.issued ELSE 0

MaxAgeNs(h) == (h * MaxAgePercent) \div 100

IsFreshAt(a, now) ==
  MaxAgePercent = 0 \/ a.horizon <= 0 \/ AgeAt(a, now) <= MaxAgeNs(a.horizon)

Sample ==
  /\ fpc = "advise"
  /\ sampled' = slot
  /\ sampledAt' = cadence.publishes
  /\ fpc' = "read"
  /\ UNCHANGED <<tapeVars, cached, inForce, staleReads, countVars, callsBlind, bridgeVars, slot, stop, slowVars>>

\* What current() does once the cache holds a: record its age, then reject it or act on it.
\* Mutant: the age is recorded only of advice that passed the checks.
Judge_RecordLate(a) ==
  LET valid == IsValidAt(a, obs.time, obs.generation)
      act   == valid /\ IsFreshAt(a, obs.time)
  IN  /\ offeredAges' = offeredAges + (IF valid THEN 1 ELSE 0)
      /\ rejected' = rejected + (IF valid THEN 0 ELSE 1)
      /\ rejectedStale' = rejectedStale + (IF valid /\ ~act THEN 1 ELSE 0)
      /\ actedAges' = actedAges + (IF act THEN 1 ELSE 0)
      /\ inForce' = IF act THEN a ELSE NoAdvice

Judge(a) ==
  LET valid == IsValidAt(a, obs.time, obs.generation)
      act   == valid /\ IsFreshAt(a, obs.time)
  IN  /\ offeredAges' = offeredAges + (IF a.stance # "None" THEN 1 ELSE 0)
      /\ rejected' = rejected + (IF valid THEN 0 ELSE 1)
      /\ rejectedStale' = rejectedStale + (IF valid /\ ~act THEN 1 ELSE 0)
      /\ actedAges' = actedAges + (IF act THEN 1 ELSE 0)
      /\ inForce' = IF act THEN a ELSE NoAdvice

AdviseFresh ==
  /\ fpc = "read"
  /\ sampled # NoAdvice
  /\ cached' = sampled
  /\ callsBlind' = IF cached = NoAdvice THEN actedAges + rejected + rejectedStale
                                         ELSE callsBlind
  /\ Judge(sampled)
  /\ fpc' = "event"
  /\ UNCHANGED <<tapeVars, sampled, sampledAt, staleReads, bridgeVars, slot, stop, slowVars>>

\* Mutant: a failed read clears the cache.
AdviseCached_Clears ==
  /\ fpc = "read"
  /\ sampled = NoAdvice \/ cadence.publishes - sampledAt >= LapsToFail
  /\ cached' = NoAdvice
  /\ staleReads' = staleReads + 1
  /\ Judge(NoAdvice)
  /\ fpc' = "event"
  /\ UNCHANGED <<tapeVars, sampled, sampledAt, callsBlind, bridgeVars, slot, stop, slowVars>>

\* try_read() failed: nothing was ever published, or the writer lapped every attempt.
AdviseCached ==
  /\ fpc = "read"
  /\ sampled = NoAdvice \/ cadence.publishes - sampledAt >= LapsToFail
  /\ staleReads' = staleReads + 1
  /\ Judge(cached)
  /\ fpc' = "event"
  /\ UNCHANGED <<tapeVars, sampled, sampledAt, cached, callsBlind, bridgeVars, slot, stop, slowVars>>

EndOfTape ==
  /\ fpc = "event"
  /\ obs.sequence = MaxEvents
  /\ stop' = TRUE
  /\ fpc' = "join"
  /\ UNCHANGED <<tapeVars, viewVars, bridgeVars, slot, slowVars>>

Join ==
  /\ fpc = "join"
  /\ spc = "done"
  /\ fpc' = "joined"
  /\ UNCHANGED <<tapeVars, viewVars, bridgeVars, slot, stop, slowVars>>

FastStep ==
  \/ \E d \in Steps : Arrive(d, obs.generation)
  \/ \E d \in Steps : obs.generation < MaxGeneration /\ Arrive(d, obs.generation + 1)
  \/ Push \/ CountDrop
  \/ Sample \/ AdviseFresh \/ AdviseCached
  \/ EndOfTape

Fast == FastStep \/ Join

-------------------------------------------------------------------------------
(* The slow lane: drain the bridge to its newest observation, then publish *)
(* one advisory for it, once the flow window is full and calibrated.       *)

TestStop ==
  /\ spc = "outer"
  /\ spc' = IF stop THEN "done" ELSE "poll"
  /\ got' = FALSE
  /\ UNCHANGED <<newest, folded, calibVars, publishVars, fastVars, bridgeVars, slot, stop>>

PollOne ==
  /\ spc = "poll"
  /\ queue # <<>>
  /\ newest' = Head(queue)
  /\ queue' = Tail(queue)
  /\ spc' = "count"
  /\ UNCHANGED <<got, folded, calibVars, publishVars, offered, dropped, consumed, fastVars, slot, stop>>

\* Mutant: one observation per advisory, no draining.
FoldOne_NoDrain ==
  /\ spc = "count"
  /\ consumed' = consumed + 1
  /\ folded' = IF folded < Window THEN folded + 1 ELSE Window
  /\ got' = TRUE
  /\ spc' = IF folded' < Window THEN "outer" ELSE "decide"
  /\ UNCHANGED <<newest, calibVars, publishVars, queue, offered, dropped, fastVars, slot, stop>>

FoldOne ==
  /\ spc = "count"
  /\ consumed' = consumed + 1
  /\ folded' = IF folded < Window THEN folded + 1 ELSE Window
  /\ got' = TRUE
  /\ spc' = "poll"
  /\ UNCHANGED <<newest, calibVars, publishVars, queue, offered, dropped, fastVars, slot, stop>>

Drained ==
  /\ spc = "poll"
  /\ queue = <<>>
  /\ spc' = IF got /\ folded = Window THEN "decide" ELSE "outer"
  /\ UNCHANGED <<got, newest, folded, calibVars, publishVars, fastVars, bridgeVars, slot, stop>>

Calibrate ==
  /\ spc = "decide"
  /\ calib + 1 < CalibrationN
  /\ calibFirst' = IF calib = 0 THEN newest.time ELSE calibFirst
  /\ calibLast' = newest.time
  /\ calib' = calib + 1
  /\ spc' = "outer"
  /\ UNCHANGED <<got, newest, folded, publishVars, fastVars, bridgeVars, slot, stop>>

\* CadenceBudget::observe_publish()
ObservePublish(t) ==
  [last       |-> t,
   haveLast   |-> TRUE,
   violations |-> cadence.violations +
                    (IF cadence.haveLast /\ t > cadence.last /\ BudgetNs > 0
                        /\ t - cadence.last > BudgetNs THEN 1 ELSE 0),
   publishes  |-> cadence.publishes + 1]

Publish ==
  /\ spc = "decide"
  /\ calib + 1 >= CalibrationN
  /\ IF calib < CalibrationN
       THEN /\ calib' = calib + 1
            /\ calibFirst' = IF calib = 0 THEN newest.time ELSE calibFirst
            /\ calibLast' = newest.time
       ELSE UNCHANGED <<calibVars>>
  /\ slot' = [stance     |-> "Risk",
              issued     |-> newest.time,
              until      |-> newest.time + TTL,
              generation |-> newest.generation,
              horizon    |-> IF ParameterMode /\ calibLast' > calibFirst'
                               THEN calibLast' - calibFirst' ELSE Horizon]
  /\ cadence' = ObservePublish(newest.time)
  /\ published' = Append(published, newest.time)
  /\ backlog' = IF queue = <<>> THEN newest.sequence ELSE queue[Len(queue)].sequence
  /\ spc' = "outer"
  /\ UNCHANGED <<got, newest, folded, fastVars, bridgeVars, stop>>

Slow == TestStop \/ PollOne \/ FoldOne \/ Drained \/ Calibrate \/ Publish

Next == Fast \/ Slow

Spec == Init /\ [][Next]_vars

(* The fast lane runs on a core of its own.  The slow lane is a model that *)
(* may take as long as it likes, hang or die: nothing is assumed of it.    *)
FairSpec == Spec /\ WF_vars(Fast)

-------------------------------------------------------------------------------
Times == Nat
Observation == [time : Times, generation : 0..MaxGeneration, sequence : 0..MaxEvents]
Advice == [stance : {"None", "Risk"}, issued : Times, until : Times,
           generation : 0..MaxGeneration, horizon : Times]

TypeOK ==
  /\ fpc \in {"event", "push", "drop", "advise", "read", "join", "joined"}
  /\ spc \in {"outer", "poll", "count", "decide", "done"}
  /\ obs \in Observation /\ newest \in Observation
  /\ sampled \in Advice /\ cached \in Advice /\ inForce \in Advice /\ slot \in Advice
  /\ queue \in Seq(Observation) /\ Len(queue) <= Capacity
  /\ folded \in 0..Window /\ calib \in 0..CalibrationN
  /\ generationSince \in Times /\ sampledAt \in Nat /\ backlog \in 0..MaxEvents
  /\ calibFirst \in Times /\ calibLast \in Times
  /\ cadence \in [last : Times, haveLast : BOOLEAN, violations : Nat, publishes : Nat]
  /\ published \in Seq(Times)
  /\ stop \in BOOLEAN /\ got \in BOOLEAN
  /\ offered \in Nat /\ dropped \in Nat /\ consumed \in Nat
  /\ staleReads \in Nat /\ rejected \in Nat /\ rejectedStale \in Nat
  /\ offeredAges \in Nat /\ actedAges \in Nat /\ callsBlind \in Nat

(* ActsOnLiveAdvice: an advisory the fast lane sizes an order by was drawn *)
(* from an event it saw itself, since the latest invalidation of its       *)
(* context, within the lifetime, and within the tolerated part of the      *)
(* horizon, whatever the queue, the slow lane and failed reads did to it   *)
(* on the way.                                                             *)
ActsOnLiveAdvice ==
  /\ TypeOK
  /\ inForce # NoAdvice =>
       /\ generationSince <= inForce.issued /\ inForce.issued <= obs.time
       /\ obs.time < inForce.issued + TTL
       /\ MaxAgePercent > 0 /\ inForce.horizon > 0 =>
            100 * (obs.time - inForce.issued) <= MaxAgePercent * inForce.horizon

(* AdviceMovesOn: what the fast lane has cached is only ever replaced by   *)
(* advice about a later or the same event, a failed read keeping it; and   *)
(* each advisory accounts for at least everything that was waiting when    *)
(* the previous one was published, so the slow lane drains to the newest   *)
(* observation and never falls further behind.                             *)
AdviceMovesOn ==
  [][/\ cached.stance # "None" =>
          cached'.stance # "None" /\ cached'.issued >= cached.issued
     /\ Publish => newest.sequence >= backlog]_vars

(* What the two contracts are judged by.  ObservationsAccounted: at every  *)
(* moment each observation offered is dropped, consumed, queued, or in the *)
(* hands of the one thread about to count it.  EveryAgeOffered: the age of *)
(* the advice is recorded at every call since the first advisory arrived,  *)
(* acted upon or not.  CadenceExact: the violations counted are the gaps   *)
(* between consecutive advisories that exceed the budget, in market time.  *)
ObservationsAccounted ==
  offered = dropped + consumed + Len(queue)
              + (IF fpc \in {"push", "drop"} THEN 1 ELSE 0)
              + (IF spc = "count" THEN 1 ELSE 0)

Calls == actedAges + rejected + rejectedStale
EveryAgeOffered ==
  offeredAges = IF cached = NoAdvice THEN 0 ELSE Calls - callsBlind

LateGaps == {i \in 1..(Len(published) - 1) : published[i+1] - published[i] > BudgetNs}
CadenceExact == BudgetNs > 0 => cadence.violations = Cardinality(LateGaps)

(* MeasurementsExact: none of the three counts is truncated by a check, a  *)
(* full bridge, a failed read or a publication at time zero, at whatever   *)
(* moment it is read.                                                      *)
MeasurementsExact == ObservationsAccounted /\ EveryAgeOffered /\ CadenceExact

(* BothLanesEnd: the fast lane reaches the end of its tape whatever the    *)
(* slow lane does or does not do, and if the slow lane keeps running at    *)
(* all it notices the stop flag, so that join() returns.                   *)
BothLanesEnd == <>(fpc = "join") /\ (WF_vars(Slow) => <>(fpc = "joined"))
===============================================================================
