------------------------------- MODULE RunMetrics -------------------------------
(***************************************************************************)
(* What one run of the comparison reports (context/evaluation_metrics.hpp) *)
(* from what its stand-in model answered                                   *)
(* (AssumedDegradationModel, context/experiment_harness.hpp) and from the  *)
(* contaminations its reliability layer found.  An event carries at most   *)
(* one contamination; whether an answer is right is a choice, whatever its *)
(* probability.  Rates are kept as counts; a rate over nothing is 0, as    *)
(* the code has it.                                                        *)
(***************************************************************************)
EXTENDS Integers, Sequences, FiniteSets, FiniteSetsExt, TLC

CONSTANTS Kinds,   \* the contaminations that occur
          Events,  \* the stream: the time and the label of every event
          Revived  \* bound on the old states one stale injection shows

MetricsAssumption ==
  /\ Revived \in Nat /\ Kinds \subseteq {"StaleState", "EntityBinding", "InferencePersistence", "CrossAgentContamination"}
  /\ \A i \in 2..Len(Events) : Events[i].time > Events[i - 1].time

VARIABLES outputs, findings  \* the answers, and the ContaminationEvents, in order
vars == <<outputs, findings>>

Init == outputs = <<>> /\ findings = <<>>

\* infer_from_assumed_degradation(): what the answer to an event may be.
Answers(event, present, residual) ==
  {[time |-> event.time, anomaly |-> event.anomaly, present |-> present,
    stale |-> residual \/ "StaleState" \in present, shouldAbstain |-> "InferencePersistence" \in present,
    correct |-> correct, says |-> (event.anomaly = correct), abstained |-> abstained] :
     correct \in BOOLEAN, abstained \in BOOLEAN}

\* What the layer records a contamination as: a revived state is reported for whatever
\* is wrong with it first.
FoundAs(kind) ==
  IF kind = "StaleState" THEN {"StaleState", "SourceAmbiguity", "InferencePersistence"} ELSE {kind}

\* The next event: its contamination, if any, is found, perhaps more than once, or it
\* reaches the model; contaminated events may still be in the context.
Answer ==
  /\ Len(outputs) < Len(Events)
  /\ LET event == Events[Len(outputs) + 1] IN
     \E residual \in {FALSE} \cup {o.present # {} : o \in Range(outputs)}, kind \in Kinds \cup {"none"} :
       LET most == IF kind = "none" THEN 0 ELSE IF kind = "StaleState" THEN Revived ELSE 1
       IN  \E n \in 0..most :
             /\ \E found \in [1..n -> [type : FoundAs(kind), at : {event.time}]] : findings' = findings \o found
             /\ \E answer \in Answers(event, IF kind = "none" \/ n > 0 THEN {} ELSE {kind}, residual) :
                  outputs' = Append(outputs, answer)

Next == Answer

Spec == Init /\ [][Next]_vars

-------------------------------------------------------------------------------

\* calculate_impact_metrics(): the counts every rate is made of.
CountOf(s, Is(_)) == Cardinality({i \in DOMAIN s : Is(s[i])})
Impact(outs) ==
  [total |-> Len(outs),
   correct |-> CountOf(outs, LAMBDA o : o.correct),
   clean |-> CountOf(outs, LAMBDA o : o.present = {}),
   cleanCorrect |-> CountOf(outs, LAMBDA o : o.present = {} /\ o.correct),
   contaminated |-> CountOf(outs, LAMBDA o : o.present # {}),
   contaminatedCorrect |-> CountOf(outs, LAMBDA o : o.present # {} /\ o.correct),
   stale |-> CountOf(outs, LAMBDA o : o.stale),
   staleWrong |-> CountOf(outs, LAMBDA o : o.stale /\ ~o.correct),
   confused |-> CountOf(outs, LAMBDA o : "EntityBinding" \in o.present),
   inferred |-> CountOf(outs, LAMBDA o : "InferencePersistence" \in o.present),
   shouldAbstain |-> CountOf(outs, LAMBDA o : o.shouldAbstain),
   rightlyAbstained |-> CountOf(outs, LAMBDA o : o.shouldAbstain /\ o.abstained),
   falsePositives |-> CountOf(outs, LAMBDA o : o.says # o.anomaly /\ o.says),
   falseNegatives |-> CountOf(outs, LAMBDA o : o.says # o.anomaly /\ ~o.says)]

\* The sign of accuracy_delta = accuracy_clean - accuracy_contaminated.
DeltaSign(m) ==
  LET delta == m.cleanCorrect * (IF m.contaminated = 0 THEN 1 ELSE m.contaminated)
                 - m.contaminatedCorrect * (IF m.clean = 0 THEN 1 ELSE m.clean)
  IN  IF delta > 0 THEN 1 ELSE IF delta < 0 THEN -1 ELSE 0

\* Mutant: only the answer to the event itself is looked at.
Affected_Own(finding, outs) == {i \in DOMAIN outs : outs[i].time = finding.at /\ finding.type \in outs[i].present}
\* The answers a finding's kind of contamination still reached, from the finding on.
Affected(finding, outs) == {i \in DOMAIN outs : outs[i].time >= finding.at /\ finding.type \in outs[i].present}
\* How long: to the last of them.
Persisted(finding, outs) ==
  IF Affected(finding, outs) = {} THEN 0 ELSE outs[Max(Affected(finding, outs))].time - finding.at

\* Mutant: the durations stay in the order of the findings.
Persistence_Unsorted(found, outs) ==
  LET durations == [k \in DOMAIN found |-> Persisted(found[k], outs)]
      n == Len(durations)
      rounds == [k \in DOMAIN found |-> Cardinality(Affected(found[k], outs))]
  IN  IF n = 0 THEN [mean |-> 0, max |-> 0, p50 |-> 0, p90 |-> 0, p99 |-> 0, meanRounds |-> 0, maxRounds |-> 0]
      ELSE [mean |-> FoldFunction(+, 0, durations) \div n, max |-> durations[n], p50 |-> durations[n \div 2 + 1],
            p90 |-> durations[(n * 90) \div 100 + 1], p99 |-> durations[(n * 99) \div 100 + 1],
            meanRounds |-> FoldFunction(+, 0, rounds) \div n, maxRounds |-> Max(Range(rounds))]
\* calculate_persistence_metrics().
Persistence(found, outs) ==
  LET durations == SortSeq([k \in DOMAIN found |-> Persisted(found[k], outs)], LAMBDA a, b : a < b)
      n == Len(durations)
      rounds == [k \in DOMAIN found |-> Cardinality(Affected(found[k], outs))]
  IN  IF n = 0 THEN [mean |-> 0, max |-> 0, p50 |-> 0, p90 |-> 0, p99 |-> 0, meanRounds |-> 0, maxRounds |-> 0]
      ELSE [mean |-> FoldFunction(+, 0, durations) \div n, max |-> durations[n], p50 |-> durations[n \div 2 + 1],
            p90 |-> durations[(n * 90) \div 100 + 1], p99 |-> durations[(n * 99) \div 100 + 1],
            meanRounds |-> FoldFunction(+, 0, rounds) \div n, maxRounds |-> Max(Range(rounds))]

-------------------------------------------------------------------------------

\* The report adds up: the clean and the contaminated answers are all of them, a wrong
\* answer is a false alarm or a miss, and the difference between the two accuracies has
\* its sign from cross multiplication.  A persistence reaches as far as the last answer
\* its kind got through to and no further, so percentiles are in order below it; none is
\* reported where every contamination is found, or none is, as for every baseline.
MetricsAddUp ==
  LET m == Impact(outputs)
      p == Persistence(findings, outputs)
      reached(f) == {i \in DOMAIN outputs : outputs[i].time > f.at /\ f.type \in outputs[i].present}
  IN  /\ m.clean + m.contaminated = m.total /\ m.cleanCorrect + m.contaminatedCorrect = m.correct
      /\ m.falsePositives + m.falseNegatives = m.total - m.correct
      /\ m.confused + m.inferred <= m.contaminated /\ m.staleWrong <= m.total - m.correct
      /\ m.rightlyAbstained <= m.shouldAbstain /\ m.shouldAbstain = m.inferred
      /\ m.clean > 0 /\ m.contaminated > 0 /\ m.cleanCorrect = m.clean => DeltaSign(m) >= 0
      /\ p.mean <= p.max /\ p.p50 <= p.p90 /\ p.p90 <= p.p99 /\ p.p99 <= p.max
      /\ (p.max = 0) = (\A k \in DOMAIN findings : reached(findings[k]) = {})
      /\ \A k \in DOMAIN findings : \A i \in reached(findings[k]) :
           p.max >= outputs[i].time - findings[k].at /\ p.maxRounds >= Cardinality(reached(findings[k]))
===============================================================================
