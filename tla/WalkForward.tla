------------------------------- MODULE WalkForward -------------------------------
(***************************************************************************)
(* The walk-forward evaluation (tools/walkforward_main.cpp): days in the   *)
(* order of their first trades, each judged with a threshold drawn from    *)
(* the days before it, once per embargo of a sweep.                        *)
(*                                                                         *)
(* First what is computed from one day of trades: the toxic-flow labels    *)
(* (context/binance_dataset.hpp), the flow policy's run over the day       *)
(* (eval/walk_forward.hpp), the same run when every decision arrives late  *)
(* (eval/delivered.hpp), and the scores (eval/metrics.hpp).  The code      *)
(* makes one pass with pointers that only move forward; here the passes    *)
(* are folds, and beside them stands what they are to compute.  A trade    *)
(* has a time, a price in basis points, and its quantity signed by the     *)
(* aggressor; means are kept as a sum and a count.                         *)
(*                                                                         *)
(* Then the loop over the days.  A file is a sequence of trades, or cannot *)
(* be read.  Bootstrap intervals and the correction for several trials are *)
(* left out; which folds they are computed from is not.  A sample          *)
(* remembers the day it came from.                                         *)
(***************************************************************************)
EXTENDS Integers, Sequences, FiniteSets, SequencesExt, FiniteSetsExt, FlowPolicy

CONSTANTS Window,     \* trades in the flow window
          Horizon,    \* how far ahead a label looks
          Threshold,  \* the adverse move that counts
          DriftWindow \* width of the drift estimate, 0 for the whole day

TapeAssumption ==
  /\ {Window, Horizon, Threshold} \subseteq Nat \ {0} /\ DriftWindow \in Nat

InOrder(tape) == \A i \in 2..Len(tape) : tape[i].time >= tape[i - 1].time
SumOver(S, F(_)) == MapThenSumSet(F, S)

\* A while loop that moves a pointer on from "from" for as long as the next trade passes.
Advance(tape, from, Passes(_)) ==
  CHOOSE k \in from..Len(tape) :
    (\A j \in (from + 1)..k : Passes(j)) /\ (k < Len(tape) => ~Passes(k + 1))

-------------------------------------------------------------------------------
\* Labels: 1 toxic, 0 benign, -1 for a trade without a full horizon ahead.

\* Mutant: a trade at the end of the day is labelled by what there is.
HasHorizon_Always(tape, i) == TRUE
HasHorizon(tape, i) == tape[i].time <= Last(tape).time - Horizon

\* compute_forward_returns(): the price a horizon later.
ForwardReturns(tape) ==
  LET ahead[i \in 0..Len(tape)] ==
        IF i = 0 THEN 1
        ELSE IF ~HasHorizon(tape, i) THEN ahead[i - 1]
        ELSE Advance(tape, Max({ahead[i - 1], i}), LAMBDA j : tape[j].time <= tape[i].time + Horizon)
  IN  [i \in DOMAIN tape |-> [valid |-> HasHorizon(tape, i), move |-> tape[ahead[i]].price - tape[i].price]]

\* compute_rolling_drift() over prefix sums, or the mean of the day.
Mean(forward, S) ==
  LET valid == {i \in S : forward[i].valid}
  IN  [sum |-> SumOver(valid, LAMBDA i : forward[i].move), count |-> Cardinality(valid)]
Drift(tape, forward) ==
  LET session == Mean(forward, DOMAIN tape)
      half == DriftWindow \div 2
      lo[i \in 0..Len(tape)] ==
        IF i = 0 THEN 0 ELSE Advance(tape, lo[i - 1], LAMBDA j : tape[j].time < tape[i].time - half)
      hi[i \in 0..Len(tape)] ==
        IF i = 0 THEN 0 ELSE Advance(tape, Max({hi[i - 1], lo[i]}), LAMBDA j : tape[j].time <= tape[i].time + half)
  IN  [i \in DOMAIN tape |->
        LET rolling == Mean(forward, (lo[i] + 1)..hi[i])
        IN  IF DriftWindow = 0 \/ rolling.count = 0 THEN session ELSE rolling]

\* build_labels().
IsToxic(trade, move, drift) ==
  drift.count # 0 /\ Sign(trade.flow) * (move * drift.count - drift.sum) >= Threshold * drift.count
Labels(tape) ==
  LET forward == ForwardReturns(tape)
      drift == Drift(tape, forward)
  IN  [i \in DOMAIN tape |-> IF ~forward[i].valid THEN -1
                             ELSE IF IsToxic(tape[i], forward[i].move, drift[i]) THEN 1 ELSE 0]

-------------------------------------------------------------------------------
\* Outcomes: toxic or benign, sized down or not.

NoOutcome == [avoided_toxic |-> 0, missed_toxic |-> 0, forgone_benign |-> 0, kept_benign |-> 0]
Scored(outcome, decision, trade, label) ==
  LET down == decision.riskOff /\ decision.direction = Sign(trade.flow)
      cell == IF down THEN (IF label > 0 THEN "avoided_toxic" ELSE "forgone_benign")
                      ELSE (IF label > 0 THEN "missed_toxic" ELSE "kept_benign")
  IN  [outcome EXCEPT ![cell] = @ + 1]
Decisions(o) == o.avoided_toxic + o.missed_toxic + o.forgone_benign + o.kept_benign
SizedDown(o) == o.avoided_toxic + o.forgone_benign
\* PolicyOutcome::degenerate().
Degenerate(o) == SizedDown(o) \in {0, Decisions(o)}

Undecided == [riskOff |-> FALSE, direction |-> 0, net |-> 0]

\* run_policy_over_day(): the decision standing before a trade is scored with it; then
\* the trade enters the window, and the new decision is a sample.
Opening == [flow |-> <<>>, pending |-> Undecided, ready |-> FALSE, outcome |-> NoOutcome, samples |-> <<>>]
\* Mutant: the window already holds the trade that is scored.
AfterTrade_SeesItself(run, trade, label, warnAbove) ==
  LET flow == Observe(run.flow, trade.flow, Window)
      warm == Warm(flow, Window)
      d == IF warm THEN Decide(flow, warnAbove) ELSE run.pending
  IN  [flow |-> flow, pending |-> d, ready |-> run.ready \/ warm,
       outcome |-> IF run.ready /\ label >= 0 THEN Scored(run.outcome, d, trade, label) ELSE run.outcome,
       samples |-> IF warm THEN Append(run.samples, [net |-> Magnitude(d.net), time |-> trade.time]) ELSE run.samples]
AfterTrade(run, trade, label, warnAbove) ==
  LET flow == Observe(run.flow, trade.flow, Window)
      warm == Warm(flow, Window)
      d == IF warm THEN Decide(flow, warnAbove) ELSE run.pending
  IN  [flow |-> flow, pending |-> d, ready |-> run.ready \/ warm,
       outcome |-> IF run.ready /\ label >= 0 THEN Scored(run.outcome, run.pending, trade, label) ELSE run.outcome,
       samples |-> IF warm THEN Append(run.samples, [net |-> Magnitude(d.net), time |-> trade.time]) ELSE run.samples]
RunDay(tape, labels, warnAbove) ==
  LET after[i \in 0..Len(tape)] ==
        IF i = 0 THEN Opening ELSE AfterTrade(after[i - 1], tape[i], labels[i], warnAbove)
  IN  after[Len(tape)]

\* run_policy_delivered(): a decision is scored with the first later trade at least
\* "delay" after it; one that has no such trade, or whose trade has no label, is counted.
Delivered(tape, labels, warnAbove, delay) ==
  LET step(run, i) ==
        LET flow == Observe(run.flow, tape[i].flow, Window)
            due == tape[i].time + delay
            deliver == IF i < Len(tape) THEN Advance(tape, Max({run.deliver, i}), LAMBDA j : tape[j].time < due) ELSE Len(tape)
            next == deliver + 1
        IN  IF ~Warm(flow, Window) THEN [run EXCEPT !.flow = flow]
            ELSE IF next > Len(tape) \/ (next <= Len(tape) /\ labels[next] < 0)
              THEN [run EXCEPT !.flow = flow, !.deliver = deliver, !.unscorable = @ + 1]
            ELSE [run EXCEPT !.flow = flow, !.deliver = deliver, !.scored = @ + 1,
                             !.outcome = Scored(@, Decide(flow, warnAbove), tape[next], labels[next])]
  IN  FoldLeft(step, [flow |-> <<>>, deliver |-> 0, outcome |-> NoOutcome, scored |-> 0, unscorable |-> 0],
               [i \in DOMAIN tape |-> i])
\* index_after_delay().
IndexAfterDelay(tape, from, delay) ==
  IF from >= Len(tape) THEN Len(tape) + 1
  ELSE Advance(tape, from, LAMBDA j : tape[j].time < tape[from].time + delay) + 1

\* trailing_flow(): a running sum, added to and subtracted from.
TrailingFlow(tape) ==
  LET net[i \in 1..(Len(tape) + 1)] ==
        IF i = 1 THEN 0 ELSE net[i - 1] + tape[i - 1].flow - (IF i - 1 > Window THEN tape[i - 1 - Window].flow ELSE 0)
  IN  [i \in DOMAIN tape |-> [usable |-> i > Window, net |-> net[i]]]

\* auc(), doubled and over the number of pairs: the rank sum, ties sharing their rank.
AucPairs(scores, labels) ==
  LET below(i) == Cardinality({j \in DOMAIN scores : scores[j] < scores[i]})
      ties(i) == Cardinality({j \in DOMAIN scores : scores[j] = scores[i]})
      pos == {i \in DOMAIN scores : labels[i]}
      p == Cardinality(pos)
  IN  IF p \in {0, Len(scores)} THEN p * (Len(scores) - p)
      ELSE SumOver(pos, LAMBDA i : 2 * below(i) + ties(i) + 1) - p * (p + 1)

\* load_day(): what tells a toxic trade from another should not be its side alone.  The
\* flow is signed by the side, and only of trades with a whole window before them.
Audit(tape, labels) ==
  LET side(i) == IF tape[i].flow > 0 THEN 1 ELSE -1
      flow == TrailingFlow(tape)
      labelled == {i \in DOMAIN tape : labels[i] >= 0}
      warm == {i \in labelled : flow[i].usable}
      at(set) == SetToSortSeq(set, LAMBDA i, j : i < j)
      pairs(set, score(_)) ==
        AucPairs([k \in DOMAIN at(set) |-> score(at(set)[k])], [k \in DOMAIN at(set) |-> labels[at(set)[k]] > 0])
      all(set) == LET p == Cardinality({i \in set : labels[i] > 0}) IN p * (Cardinality(set) - p)
  IN  [aggressor |-> pairs(labelled, side), flow |-> pairs(warm, LAMBDA i : side(i) * flow[i].net),
       pairs |-> all(labelled), flowPairs |-> all(warm)]
\* The area is aggressor / (2 * pairs), or a half when there are no pairs; a day is leaky
\* when it is more than 0.10 from a half.
Leaky(audit) == audit.pairs # 0 /\ 10 * Magnitude(audit.aggressor - audit.pairs) > 2 * audit.pairs

-------------------------------------------------------------------------------
\* FlowCalibrator: a feed is strided down to a cap and joins the samples.
Strided(feed, cap) ==
  LET stride == IF cap # 0 /\ Len(feed) > cap THEN (Len(feed) + cap - 1) \div cap ELSE 1
      kept == (Len(feed) + stride - 1) \div stride
  IN  [k \in 1..kept |-> feed[(k - 1) * stride + 1]]
SampleQuantile(samples, percent) ==
  IF samples = <<>> THEN 0 ELSE Quantile([k \in DOMAIN samples |-> samples[k].net], percent)

\* The entries of s at the positions P, in order.
Rank(p, P) == Cardinality({q \in P : q <= p})
Kept(s, P) == [k \in 1..Cardinality(P) |-> s[CHOOSE p \in P : Rank(p, P) = k]]
\* Mutant: what is near the end of the day is used, the rest held back.
EmbargoSplit_Backwards(samples, end, embargo) ==
  LET late == {k \in DOMAIN samples : embargo # 0 /\ samples[k].time <= end - embargo}
  IN  [body |-> Kept(samples, DOMAIN samples \ late), tail |-> Kept(samples, late)]
\* split_by_embargo().
EmbargoSplit(samples, end, embargo) ==
  LET late == {k \in DOMAIN samples : embargo # 0 /\ samples[k].time > end - embargo}
  IN  [body |-> Kept(samples, DOMAIN samples \ late), tail |-> Kept(samples, late)]

\* check_context_growth(): the prompts of a sweep against the line through the two
\* smallest; 0 when every arm grew, the first arm that did not, -1 when unchecked.
GrowthBreaksAt(units, tokens) ==
  LET rise == units[2] - units[1]
      predicted(i) == tokens[1] * rise + (tokens[2] - tokens[1]) * (units[i] - units[1])
      short == {i \in 3..Len(units) : 100 * tokens[i] * rise < 85 * predicted(i)}
  IN  IF Len(units) < 3 \/ rise <= 0 THEN -1
      ELSE IF tokens[2] <= tokens[1] THEN 2
      ELSE IF short = {} THEN 0 ELSE Min(short)

-------------------------------------------------------------------------------

\* Each pass computes what it stands for, whatever trades share a millisecond: a label
\* looks at the last trade within the horizon and is there exactly for those with a full
\* one; a decision is scored by the trades strictly before the trade; a late decision is
\* scored where it arrives, one without delay exactly as in the plain run, and none is
\* left uncounted; the audit of a day is of the trades the policy is scored on; the running sum and the rank sum are the sum and the pairs.
Before(tape, i) == [k \in 1..Window |-> tape[i - Window - 1 + k].flow]
Expected(tape, labels, warnAbove) ==
  LET scored == {i \in DOMAIN tape : i > Window /\ labels[i] >= 0}
  IN  FoldSet(LAMBDA i, o : Scored(o, Decide(Before(tape, i), warnAbove), tape[i], labels[i]), NoOutcome, scored)
PassesAreExact(tape, warnAbove, delays) ==
  LET labels == Labels(tape)
      forward == ForwardReturns(tape)
      drift == Drift(tape, forward)
      run == RunDay(tape, labels, warnAbove)
      scores == [i \in DOMAIN tape |-> tape[i].flow]
      toxic == [i \in DOMAIN tape |-> labels[i] > 0]
      audit == Audit(tape, labels)
      near(i) == {j \in DOMAIN tape : 2 * Magnitude(tape[j].time - tape[i].time) <= DriftWindow \/ DriftWindow = 0}
      nearOrAll(i) == IF \E j \in near(i) : forward[j].valid THEN near(i) ELSE DOMAIN tape
  IN  /\ \A i \in DOMAIN tape :
           /\ (labels[i] < 0) = (tape[i].time + Horizon > Last(tape).time)
           /\ forward[i].valid =>
                /\ forward[i].move = tape[Max({j \in DOMAIN tape : tape[j].time <= tape[i].time + Horizon})].price
                                       - tape[i].price
                /\ drift[i] = Mean(forward, nearOrAll(i))
           /\ TrailingFlow(tape)[i].usable => TrailingFlow(tape)[i].net = NetFlow(Before(tape, i))
      /\ run.outcome = Expected(tape, labels, warnAbove)
      /\ audit.flowPairs = (run.outcome.avoided_toxic + run.outcome.missed_toxic)
                             * (run.outcome.forgone_benign + run.outcome.kept_benign)
      /\ \A delay \in delays :
           LET late == Delivered(tape, labels, warnAbove, delay)
               at(i) == IndexAfterDelay(tape, i, delay)
               lands == {i \in Window..Len(tape) : at(i) <= Len(tape) /\ labels[Min({at(i), Len(tape)})] >= 0}
           IN  /\ late.scored = Cardinality(lands)
               /\ late.scored + late.unscorable = Max({0, Len(tape) - Window + 1})
               /\ Decisions(late.outcome) = late.scored
               /\ delay = 0 => late.outcome = run.outcome
               /\ late.outcome = FoldSet(LAMBDA i, o : Scored(o, Decide([k \in 1..Window |-> tape[i - Window + k].flow], warnAbove),
                                                              tape[at(i)], labels[at(i)]), NoOutcome, lands)
      /\ AucPairs(scores, toxic) =
           SumOver({i \in DOMAIN tape : toxic[i]} \X {j \in DOMAIN tape : ~toxic[j]},
                   LAMBDA ij : IF scores[ij[1]] > scores[ij[2]] THEN 2 ELSE IF scores[ij[1]] = scores[ij[2]] THEN 1 ELSE 0)

\* A sweep whose prompts the server takes whole is passed, and so is one it cuts by a
\* little; one it cuts to a limit that the two smallest still fit in is refused at the
\* first arm that keeps less than 85 of 100 tokens.
GrowthIsSeen(units, overhead, perUnit, limit) ==
  LET asked(i) == overhead + perUnit * units[i]
      cut == {i \in 3..Len(units) : 100 * limit < 85 * asked(i)}
  IN  limit >= asked(2) =>
        GrowthBreaksAt(units, [i \in DOMAIN units |-> Min({limit, asked(i)})]) = IF cut = {} THEN 0 ELSE Min(cut)

-------------------------------------------------------------------------------
\* The run over the days.
CONSTANTS Series,     \* the files a run may be given
          Unreadable, \* a file that cannot be opened or parsed
          Embargoes,  \* the sweeps: a sequence of embargoes, the headline first
          Percent,    \* the quantile that warns
          Cap         \* the calibrator's cap per feed, 0 for none

\* A file that can be read is a sequence of trades; a sweep has its headline.
Trade == [time : Int, price : Int, flow : Int]
WalkAssumption ==
  /\ Series \subseteq Seq({Unreadable} \cup Seq(Trade)) /\ Embargoes \subseteq Seq(Nat) \ {<<>>}
  /\ Percent \in Nat /\ Cap \in Nat

VARIABLES
  files,      \* the files given, then their order
  embargoes,  \* the sweep
  t,          \* days done
  trainEnd,   \* the latest trade of them
  arms,       \* per embargo: the samples, those held back, the folds
  violations, \* the days at which the headline arm broke the protocol
  reported,   \* the days whose folds the headline and the sensitivity check average
  exit        \* the exit code, -1 while running

vars == <<files, embargoes, t, trainEnd, arms, violations, reported, exit>>

Init ==
  /\ files \in Series /\ embargoes \in Embargoes
  /\ t = -1 /\ trainEnd = 0 /\ violations = {} /\ exit = -1
  /\ reported = [headline |-> {}, clean |-> {}]
  /\ arms = [a \in DOMAIN embargoes |-> [samples |-> <<>>, deferred |-> <<>>, folds |-> <<>>]]

\* peek_first_timestamp() reads one line, load() all of them; only load() sees that the
\* trades are not in order.
Peeks(file) == file # Unreadable /\ file # <<>>
Loads(file) == Peeks(file) /\ InOrder(file)

\* The files by their first trade; no two have the same.
Place(fs, i) == Cardinality({j \in DOMAIN fs : fs[j][1].time <= fs[i][1].time})
InTimeOrder(fs) == [k \in DOMAIN fs |-> fs[CHOOSE i \in DOMAIN fs : Place(fs, i) = k]]

\* main() up to the first fold.
Start ==
  /\ t = -1 /\ exit = -1
  /\ IF Len(files) < 3 THEN exit' = 2 /\ UNCHANGED <<files, t>>
     ELSE IF \E f \in Range(files) : ~Peeks(f) THEN exit' = 1 /\ UNCHANGED <<files, t>>
     ELSE IF \E i, j \in DOMAIN files : i # j /\ files[i][1].time = files[j][1].time
       THEN exit' = 3 /\ UNCHANGED <<files, t>>
     ELSE files' = InTimeOrder(files) /\ t' = 0 /\ UNCHANGED exit
  /\ UNCHANGED <<embargoes, trainEnd, arms, violations, reported>>

\* Mutant: the order of the first trades is taken for proof enough.
Causal_ByOrder(fold) == TRUE
\* check_fold().
Causal(fold) == fold.trainEnd < fold.testStart
Sound(fold) == Causal(fold) /\ fold.samples # <<>>

\* The fold of one arm for the day under test.
FoldOf(arm, tape) ==
  LET labels == Labels(tape)
      warnAbove == SampleQuantile(arm.samples, Percent)
  IN  [day |-> t + 1, trainEnd |-> trainEnd, testStart |-> tape[1].time, samples |-> arm.samples,
       warnAbove |-> warnAbove, outcome |-> RunDay(tape, labels, warnAbove).outcome]

\* The samples of a day, each with its day and its place in it.
DaySamples(d) ==
  LET run == RunDay(files[d], Labels(files[d]), 0).samples
  IN  [k \in DOMAIN run |-> [net |-> run[k].net, time |-> run[k].time, day |-> d, nth |-> k]]

\* What the day adds to an arm's samples: what was held back, and the day's own outside
\* the embargo, strided together.
Calibrated(arm, samples, tape, embargo) ==
  LET split == EmbargoSplit(samples, Last(tape).time, embargo)
  IN  [arm EXCEPT !.samples = @ \o Strided(arm.deferred \o split.body, Cap), !.deferred = split.tail]

\* One turn of the loop over the days.
Day ==
  /\ t >= 0 /\ t < Len(files) /\ exit = -1
  /\ LET tape == files[t + 1]
         samples == DaySamples(t + 1)
         fold(a) == FoldOf(arms[a], tape)
         folds(a) == IF t > 0 /\ Sound(fold(a)) THEN Append(arms[a].folds, fold(a)) ELSE arms[a].folds
     IN  IF ~Loads(tape)
           THEN exit' = 1 /\ UNCHANGED <<t, trainEnd, arms, violations>>
           ELSE /\ arms' = [a \in DOMAIN arms |->
                     [Calibrated(arms[a], samples, tape, embargoes[a]) EXCEPT !.folds = folds(a)]]
                /\ violations' = violations \cup (IF t > 0 /\ ~Sound(fold(1)) THEN {t + 1} ELSE {})
                /\ trainEnd' = Max({trainEnd, Last(tape).time})
                /\ t' = t + 1 /\ UNCHANGED exit
  /\ UNCHANGED <<files, embargoes, reported>>

DayLeaks(d) == Leaky(Audit(files[d], Labels(files[d])))
\* Mutant: the folds of leaky days are dropped.
Aggregated_Clean(folds) ==
  LET clean == {f.day : f \in {g \in Range(folds) : ~DayLeaks(g.day)}} IN [headline |-> clean, clean |-> clean]
\* The mean of every fold, and below it that of the days that passed the audit.
Aggregated(folds) ==
  [headline |-> {f.day : f \in Range(folds)}, clean |-> {f.day : f \in {g \in Range(folds) : ~DayLeaks(g.day)}}]

AllDegenerate(folds) == \A f \in Range(folds) : Degenerate(f.outcome)

\* The verdict; an aggregate is made before it is found degenerate.
Judge ==
  /\ t = Len(files) /\ exit = -1
  /\ LET folds == arms[1].folds
     IN  /\ exit' = IF violations # {} THEN 3 ELSE IF Len(folds) < 2 THEN 1 ELSE IF AllDegenerate(folds) THEN 4 ELSE 0
         /\ reported' = IF exit' \in {0, 4} THEN Aggregated(folds) ELSE reported
  /\ UNCHANGED <<files, embargoes, t, trainEnd, arms, violations>>

Next == Start \/ Day \/ Judge

Spec == Init /\ [][Next]_vars

-------------------------------------------------------------------------------

SamplesOf(d) == Range(DaySamples(d))
OutOfReach(s, day, embargo) == s.day = day - 1 /\ embargo # 0 /\ s.time > Last(files[day - 1]).time - embargo
Allowed(a, day) == {s \in UNION {SamplesOf(d) : d \in 1..(day - 1)} : ~OutOfReach(s, day, embargoes[a])}

\* No number is drawn from the future: what a fold's threshold was computed from closed
\* before the first trade of its day, and of the day just before it, not within the
\* embargo of that day's end.  A run that reports was over days that do not overlap, has a
\* fold for every day but the first in its headline, and in every arm whose embargo leaves
\* samples of the first day, and averages all of the headline's, leaky days among them.
NothingFromTheFuture ==
  /\ \A a \in DOMAIN arms : \A k \in DOMAIN arms[a].folds :
       LET f == arms[a].folds[k]
       IN  Range(f.samples) \subseteq Allowed(a, f.day) /\ \A s \in Range(f.samples) : s.time < files[f.day][1].time
  /\ exit = 0 =>
       /\ reported.headline = 2..Len(files) /\ reported.clean = {d \in 2..Len(files) : ~DayLeaks(d)}
       /\ \A i, j \in DOMAIN files : i < j => Last(files[i]).time < files[j][1].time
       /\ \A a \in DOMAIN arms :
            a = 1 \/ (\E s \in SamplesOf(1) : ~OutOfReach(s, 2, embargoes[a])) =>
              [k \in DOMAIN arms[a].folds |-> arms[a].folds[k].day] = [k \in 1..(Len(files) - 1) |-> k + 1]

\* Nothing is left out either: every other sample of the earlier days is there, unless a
\* feed was over the cap, and every trade of the day that can be scored is.
NothingIsLeftOut ==
  \A a \in DOMAIN arms : \A k \in DOMAIN arms[a].folds :
    LET f == arms[a].folds[k]
    IN  /\ Cap = 0 \/ Cardinality(Allowed(a, f.day)) <= Cap => Range(f.samples) = Allowed(a, f.day)
        /\ f.outcome = Expected(files[f.day], Labels(files[f.day]), f.warnAbove)
===============================================================================
