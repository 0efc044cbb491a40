------------------------------ MODULE StageTimes -------------------------------
(***************************************************************************)
(* What tools/pipeline_main.cpp measures: the schedule made from the       *)
(* recorded times of the trades, the paced replay of it, and the stamps of *)
(* bench/stage_trace.hpp folded into histograms.  The stages of a tick are *)
(* one number here, its service time: the stamps partition it.             *)
(*                                                                         *)
(* A millisecond is UnitsPerMs ticks of the clock.                         *)
(*                                                                         *)
(* The histogram is that of bench/histogram.hpp: powers of two, each split *)
(* into the same number of sub-buckets, and the correction for coordinated *)
(* omission.  It is the sequence of the values recorded in it; the         *)
(* counters of the code are the values of each index.                      *)
(***************************************************************************)
EXTENDS Integers, Sequences, FiniteSets, FiniteSetsExt

CONSTANTS
  SubBucketBits,
  N,            \* length of the tape
  MaxMs,        \* bound on the milliseconds between two trades
  UnitsPerMs,
  Speed,        \* opts.speed
  Costs,        \* what a tick may cost, a stall included
  Delays        \* between two ticks, and between a due time and its notice

\* What the constants have to be; the runs that instantiate the module assume it.
ScheduleAssumption ==
  /\ SubBucketBits \in Nat \ {0}
  /\ N \in Nat \ {0} /\ MaxMs \in Nat /\ UnitsPerMs \in Nat \ {0} /\ Speed \in Nat \ {0}
  /\ Costs \subseteq Nat \ {0} /\ Delays \subseteq Nat

-------------------------------------------------------------------------------
\* 1 << n
Pow2[n \in Nat] == IF n = 0 THEN 1 ELSE 2 * Pow2[n - 1]

SubBucketCount == Pow2[SubBucketBits]
SubBucketHalfCount == Pow2[SubBucketBits - 1]

\* The position of the highest bit of v, which is positive.
HighestBit(v) == CHOOSE b \in 0..v : Pow2[b] <= v /\ v < Pow2[b + 1]

IndexOf(v) ==
  IF v < SubBucketCount THEN v
  ELSE LET bucket == HighestBit(v) - (SubBucketBits - 1) IN
       bucket * SubBucketHalfCount + v \div Pow2[bucket]

Bucket(i) == (i - SubBucketHalfCount) \div SubBucketHalfCount
LowestEquivalent(i) ==
  IF i < SubBucketCount THEN i
  ELSE (i - Bucket(i) * SubBucketHalfCount) * Pow2[Bucket(i)]
\* Mutant: the bucket's lower end.
HighestEquivalent_Low(i) == LowestEquivalent(i)
HighestEquivalent(i) ==
  IF i < SubBucketCount THEN i ELSE LowestEquivalent(i) + Pow2[Bucket(i)] - 1

\* ceil(p / 100 * total)
Wanted(n, p) == (p * n + 99) \div 100

\* percentile(): the first index that brings the count to what is wanted.
Percentile(h, p) ==
  LET index   == [i \in DOMAIN h |-> IndexOf(h[i])]
      seen(k) == Cardinality({i \in DOMAIN h : index[i] <= k})
      enough  == {k \in Range(index) : seen(k) >= Wanted(Len(h), p)}
  IN  IF h = <<>> THEN 0
      ELSE Min({HighestEquivalent(Min(enough)), Max({h[i] : i \in DOMAIN h})})

\* Mutant: the samples made up are all as long as the stall.
Corrected_Flat(v, interval) ==
  IF interval = 0 \/ v <= interval THEN <<v>> ELSE [k \in 1..(v \div interval) |-> v]
\* record_corrected(): the value, and those a stall kept from being taken, each one
\* interval shorter, down to one interval.
Corrected(v, interval) ==
  IF interval = 0 \/ v <= interval THEN <<v>>
  ELSE [k \in 1..(v \div interval) |-> v - (k - 1) * interval]

-------------------------------------------------------------------------------
VARIABLES
  recorded,    \* transact_time_ms of each trade
  now,         \* the clock
  service, response, queueing,  \* PipelineHistograms, and in the order of the ticks
  behind       \* PassResult::behind

vars == <<recorded, now, service, response, queueing, behind>>

\* arrival_offsets(): the trades of one millisecond are spread evenly across it.
Cluster(times, i) == {j \in DOMAIN times : times[j] = times[i]}
\* Mutant: the spread is over all the trades.
Offset_Whole(times, i) ==
  (times[i] - times[1]) * UnitsPerMs + (UnitsPerMs * (i - 1)) \div Cardinality(Cluster(times, i))
Offset(times, i) ==
  (times[i] - times[1]) * UnitsPerMs
    + (UnitsPerMs * (i - Min(Cluster(times, i)))) \div Cardinality(Cluster(times, i))

\* build_schedule(), from a base of 0.
Due(times, i) == Offset(times, i) \div Speed
Gaps(times) ==
  [i \in {j \in 1..(Len(times) - 1) : Due(times, j) < Due(times, j + 1)} |-> Due(times, i + 1) - Due(times, i)]
\* nth_element(): the k-th of the values of h in their order.
Ranked(h, k) ==
  CHOOSE v \in Range(h) :
    Cardinality({i \in DOMAIN h : h[i] < v}) < k /\ k <= Cardinality({i \in DOMAIN h : h[i] <= v})
\* The median.
ExpectedInterval(times) ==
  LET gaps == Gaps(times)
      n    == Cardinality(DOMAIN gaps)
  IN  IF n = 0 THEN 0 ELSE Ranked(gaps, n \div 2 + 1)

Done == Len(service)

Tapes == {t \in [1..N -> 0..(MaxMs * N)] :
            t[1] = 0 /\ \A i \in 1..(N - 1) : t[i] <= t[i + 1] /\ t[i + 1] <= t[i] + MaxMs}

Init ==
  /\ recorded \in Tapes
  /\ now = 0
  /\ service = <<>> /\ response = <<>> /\ queueing = <<>>
  /\ behind = 0

\* One turn of the loop of replay(): the handler starts when the tick is due, or at
\* once when it is late, and takes its time.
Handle(cost, late, notice) ==
  LET due     == Due(recorded, Done + 1)
      reached == now + late
      start   == IF reached < due THEN due + notice ELSE reached
      out     == start + cost
  IN  /\ Done < N
      /\ behind' = behind + (IF reached < due THEN 0 ELSE 1)
      /\ service' = Append(service, cost)
      /\ response' = Append(response, out - due)
      /\ queueing' = Append(queueing, start - due)
      /\ now' = out
      /\ UNCHANGED recorded

Next == \E cost \in Costs, late, notice \in Delays : Handle(cost, late, notice)

Spec == Init /\ [][Next]_vars

-------------------------------------------------------------------------------
(* What the tool concludes.                                                *)

SynthesisedBy(h, interval) ==
  SumFunctionOnSet([i \in DOMAIN h |-> Len(Corrected(h[i], interval)) - 1], DOMAIN h)

\* print_end_to_end(), beside the 99th percentile of the control.
Conclusion(floor99) ==
  LET svc99 == Percentile(service, 99)
      rsp99 == Percentile(response, 99)
  IN  CASE rsp99 <= floor99 -> "belowFloor"
        [] rsp99 > floor99 /\ 100 * rsp99 <= 105 * svc99 -> "nothingDeferred"
        [] OTHER -> IF SynthesisedBy(service, ExpectedInterval(recorded)) = 0
                      THEN "nothingMadeUp" ELSE "deferralObserved"

\* The verdict on opts.budget_ns.
Breached(budget) == budget > 0 /\ Percentile(service, 99) > budget

-------------------------------------------------------------------------------

\* The schedule keeps the tape: trades are due in their order, each within its own
\* millisecond, and two are due at once only if the clock cannot tell them apart.
ScheduleKeepsTheTape ==
  \A i \in 1..N :
    LET ms == (recorded[i] - recorded[1]) * UnitsPerMs IN
    /\ ms <= Speed * Due(recorded, i) + Speed - 1 /\ Speed * Due(recorded, i) < ms + UnitsPerMs
    /\ i < N => Due(recorded, i) <= Due(recorded, i + 1)
    /\ i < N /\ UnitsPerMs >= Speed * Cardinality(Cluster(recorded, i)) =>
         Due(recorded, i) < Due(recorded, i + 1)

AtOrAbove(h, x) == Cardinality({i \in DOMAIN h : h[i] >= x})
CorrectedTail(x) ==
  LET interval == ExpectedInterval(recorded) IN
  SumFunctionOnSet([i \in 1..Done |-> AtOrAbove(Corrected(service[i], interval), x)], 1..Done)

\* stage_trace.hpp and histogram.hpp: a percentile is never reported low, nor higher
\* than the bound on the relative error allows; and on arrivals as uniform as the
\* correction for coordinated omission assumes, once the handler has caught up, the
\* corrected latencies are no worse anywhere in the tail than those the ticks saw.  Of
\* what is concluded from them: deferral is observed only where some tick waited, the
\* correction finds nothing only where no service took two intervals, and a budget that
\* is kept by the 99th percentile is kept by 99 ticks in 100.
HistogramsHonest ==
  LET interval == ExpectedInterval(recorded)
      uniform  == \A i \in 1..(N - 1) : Due(recorded, i + 1) - Due(recorded, i) = interval
  IN  Done > 0 =>
        /\ \A p \in {50, 90, 99, 100} :
             LET exact == Ranked(response, Wanted(Done, p))
                 shown == Percentile(response, p)
             IN  exact <= shown /\ (shown - exact) * SubBucketHalfCount <= exact
        /\ uniform /\ Done < N /\ now <= Due(recorded, Done + 1) =>
             \A x \in interval..(now + 1) : CorrectedTail(x) <= AtOrAbove(response, x)
        /\ \A floor99 \in 0..1 :
             LET said == Conclusion(floor99) IN
             /\ said \in {"nothingMadeUp", "deferralObserved"} => \E i \in 1..Done : queueing[i] > 0
             /\ said = "nothingMadeUp" /\ interval > 0 => \A i \in 1..Done : service[i] < 2 * interval
        /\ \A budget \in Costs : ~Breached(budget) => 100 * AtOrAbove(service, budget + 1) <= Done
===============================================================================
