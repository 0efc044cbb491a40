------------------------------- MODULE PairedArms -------------------------------
(***************************************************************************)
(* The experiment against a live model (examples/run_llm_experiment.cpp):  *)
(* the same events are put to the model twice, once in a clean context and *)
(* once in one that ContextContaminator has tampered with, and the two     *)
(* arms are compared.  Beside it, LLMExperimentRunner, which asks without  *)
(* any context.  Which events are contaminated, how, and what the model    *)
(* answers are choices; the thresholds are constants.                      *)
(***************************************************************************)
EXTENDS ContextMethods, Sequences

CONSTANTS Streams,      \* the event streams: an entity and a label per event
          Compared,     \* the context strategies compared
          Interval,     \* nanoseconds between two events
          StaleMin,     \* own observations a stale state needs (30)
          ForeignMin,   \* foreign ones a retrieval needs, and inserts (3)
          SummaryMin,   \* entries a summary needs (4)
          Replies       \* the texts a model may answer with

ArmsAssumption ==
  /\ {Interval, StaleMin, ForeignMin, SummaryMin} \subseteq Nat \ {0}
  /\ Interval > 5 /\ StaleMin >= 3
  /\ Compared \subseteq Methods
  /\ \A s \in Streams : Len(s) \in Nat /\ DOMAIN s = 1..Len(s)

Types == {"StaleState", "EntityBinding", "InferencePersistence",
          "RetrievalContamination", "SummaryContamination", "CrossAgentContamination"}

VARIABLES
  stream,   \* the events, the same for both arms
  method,   \* the strategy under test
  arm,      \* "clean", then "dirty"; or "runner"; "over", "crashed"
  asked,    \* events asked about in this arm
  shown,    \* the records of the prompt being answered, with its trial's treatment
  tally,    \* per arm, what its trials came to
  exit      \* the exit code of main(), and the report it wrote, if any

vars == <<stream, method, arm, asked, shown, tally, exit>>

NoTally == [tp |-> 0, fn |-> 0, tn |-> 0, fp |-> 0, unread |-> 0, treated |-> 0]
NotAsked == [records |-> <<>>, treatment |-> "none", attempt |-> "none", pending |-> FALSE]

Init ==
  /\ stream \in Streams /\ method \in Compared
  /\ arm \in {"clean", "runner"} /\ asked = 0 /\ shown = NotAsked
  /\ tally = [a \in {"clean", "dirty", "runner"} |-> NoTally]
  /\ exit = [code |-> -1, report |-> <<>>]

-------------------------------------------------------------------------------
\* Events and records.  A measurement's value is the number of the event it was taken
\* from; a value nobody measured is the negative of one.  A record's id is the event it
\* was made from and what made it.

Time(i) == i * Interval
Measured(i) == [id |-> <<i, "measured">>, entity |-> stream[i].entity, kind |-> "trade", value |-> i, time |-> Time(i)]
History(i) == [j \in 1..(i - 1) |-> Measured(j)]

\* The entries of s at the positions P, in their order.
Rank(p, P) == Cardinality({q \in P : q <= p})
Kept(s, P) == [k \in 1..Cardinality(P) |-> s[CHOOSE p \in P : Rank(p, P) = k]]

\* make_context_manager() and get_context(): what the strategy keeps of the history, and
\* the event itself.
Flags == [temporal |-> TRUE, forgetting |-> TRUE]
ContextOf(i) == Append(Kept(History(i), GetContext(method, Flags, Measured(i), History(i))), Measured(i))

IsOwn(i, r) == r.entity = stream[i].entity /\ r.id # <<i, "measured">>
Own(i, records) == Kept(records, {p \in DOMAIN records : IsOwn(i, records[p])})
Rest(i, records) == Kept(records, {p \in DOMAIN records : ~IsOwn(i, records[p])})
Foreign(i, records) == Kept(records, {p \in DOMAIN records : records[p].entity # stream[i].entity})

\* What a contamination turns a context into; "skipped" when it cannot be applied.
Skipped(context) == [records |-> context, skipped |-> TRUE]
Applied(records) == [records |-> records, skipped |-> FALSE]
Claim(i, suffix, kind, age) ==
  [id |-> <<i, suffix>>, entity |-> stream[i].entity, kind |-> kind, value |-> -i, time |-> Time(i) - age]

Resurrected(i, r) == [r EXCEPT !.time = Time(i) - 1, !.id[2] = "_resurrected"]
Misbound(i, r) == [r EXCEPT !.entity = stream[i].entity, !.time = Time(i) - 2, !.id[2] = "_misbound"]

\* Mutant: the resurrected observation keeps its own time.
StaleState_NotRestamped(i, context) ==
  LET own == Own(i, History(i))
  IN  IF Len(own) < StaleMin THEN {Skipped(context)}
      ELSE {Applied(Append(context, [own[pick] EXCEPT !.id[2] = "_resurrected"])) : pick \in 1..(Len(own) \div 3)}
StaleState(i, context) ==
  LET own == Own(i, History(i))
  IN  IF Len(own) < StaleMin THEN {Skipped(context)}
      ELSE {Applied(Append(context, Resurrected(i, own[pick]))) : pick \in 1..(Len(own) \div 3)}
EntityBinding(i, context) ==
  LET others == Foreign(i, History(i))
  IN  IF others = <<>> THEN {Skipped(context)}
      ELSE {Applied(Append(context, Misbound(i, others[pick]))) : pick \in DOMAIN others}
InferencePersistence(i, context) ==
  {Applied(Append(context, Claim(i, "_prior_inference", "prior_inference", 3)))}
Retrieval(i, context) ==
  LET others == Foreign(i, History(i))
  IN  IF Len(others) < ForeignMin THEN {Skipped(context)}
      ELSE {Applied(context \o [k \in 1..ForeignMin |-> [others[picks[k]] EXCEPT !.id[2] = "_retrieved"]]) :
              picks \in [1..ForeignMin -> DOMAIN others]}
Summary(i, context) ==
  IF Len(Own(i, context)) < SummaryMin THEN {Skipped(context)}
  ELSE {Applied(Append(Rest(i, context), Claim(i, "_summary", "summary", 4)))}
CrossAgent(i, context) ==
  {Applied(Append(context, Claim(i, "_agent_claim", "agent_b_claim", 5)))}

\* ContextContaminator::apply().
Apply(type, i, context) ==
  CASE type = "StaleState" -> StaleState(i, context)
    [] type = "EntityBinding" -> EntityBinding(i, context)
    [] type = "InferencePersistence" -> InferencePersistence(i, context)
    [] type = "RetrievalContamination" -> Retrieval(i, context)
    [] type = "SummaryContamination" -> Summary(i, context)
    [] type = "CrossAgentContamination" -> CrossAgent(i, context)

\* Mutant: an attempt counts as a treatment.
EffectiveType_Attempts(type, outcome) == type
EffectiveType(type, outcome) == IF outcome.skipped THEN "none" ELSE type

\* format_context(): no ids, and not the event under review.
FormatContext(records, i) ==
  Kept([p \in DOMAIN records |-> [entity |-> records[p].entity, kind |-> records[p].kind,
                                  value |-> records[p].value, time |-> records[p].time]],
       {p \in DOMAIN records : records[p].id # <<i, "measured">>})

-------------------------------------------------------------------------------
\* ResponseParser::parse(): the first key of that name, the first colon after it, the
\* first string after that.  A number is converted where the colon ends, and std::stod
\* throws on anything else.

NoWord == ""
FirstFrom(text, p, Is(_)) == LET at == {q \in DOMAIN text : q >= p /\ Is(text[q])} IN IF at = {} THEN 0 ELSE Min(at)
ColonAfter(text, key) ==
  LET p == FirstFrom(text, 1, LAMBDA t : t = <<"string", key>>)
  IN  IF p = 0 THEN 0 ELSE FirstFrom(text, p, LAMBDA t : t = <<":">>)
FindString(text, key) ==
  LET colon == ColonAfter(text, key)
      p == IF colon = 0 THEN 0 ELSE FirstFrom(text, colon, LAMBDA t : t[1] = "string")
  IN  IF p = 0 THEN NoWord ELSE text[p][2]
NumberThrows(text, key) ==
  LET colon == ColonAfter(text, key)
  IN  colon # 0 /\ (colon + 1 \notin DOMAIN text \/ text[colon + 1][1] # "number")

Parsed(text) ==
  [classification |-> FindString(text, "classification"), throws |-> NumberThrows(text, "confidence")]

\* One answer counted: the arms take only the two words and leave the rest out, the
\* runner takes any word, and counts what it does not know, or could not read, as wrong.
Counted(t, a, anomaly, word) ==
  LET cell == IF anomaly THEN (IF word = "anomaly" THEN "tp" ELSE "fn")
                         ELSE (IF word = "normal" THEN "tn" ELSE "fp")
      read == IF a = "runner" THEN word # NoWord ELSE word \in {"anomaly", "normal"}
      known == [t EXCEPT ![cell] = @ + 1]
  IN  IF read THEN known
      ELSE IF a = "runner" THEN [known EXCEPT !.unread = @ + 1]
      ELSE [t EXCEPT !.unread = @ + 1]

-------------------------------------------------------------------------------
\* The verdict on an arm.

Answered(t) == t.tp + t.fn + t.tn + t.fp
Majority(t) == Max({t.tp + t.fp, t.tn + t.fn})
\* Mutant: an arm in which nothing was answered passes.
IsDegenerate_Empty(t) == Answered(t) # 0 /\ 100 * Majority(t) >= 98 * Answered(t)
\* majority_share() >= 0.98; with nothing answered the share is 1.
IsDegenerate(t) == Answered(t) = 0 \/ 100 * Majority(t) >= 98 * Answered(t)
\* balanced_accuracy() is chance: the two recalls add up to 1.
AtChance(t) ==
  LET p == t.tp + t.fn   n == t.tn + t.fp
  IN  IF p = 0 THEN t.tn = n /\ n # 0 ELSE IF n = 0 THEN t.tp = p ELSE t.tp * n + t.tn * p = p * n

-------------------------------------------------------------------------------
\* run_arm(): the prompt of the next event.
Ask ==
  /\ arm \in {"clean", "dirty", "runner"} /\ ~shown.pending /\ asked < Len(stream)
  /\ LET i == asked + 1
         context == IF arm = "runner" THEN <<>> ELSE ContextOf(i)
         plain == [records |-> FormatContext(context, i), treatment |-> "none", attempt |-> "none", pending |-> TRUE]
     IN  \/ shown' = plain
         \/ /\ arm = "dirty"
            /\ \E type \in Types : \E outcome \in Apply(type, i, context) :
                 shown' = [plain EXCEPT !.records = FormatContext(outcome.records, i), !.attempt = type,
                                        !.treatment = EffectiveType(type, outcome)]
  /\ UNCHANGED <<stream, method, arm, asked, tally, exit>>

\* The response: a failed request, or a text.  Nothing catches what std::stod throws.
Hear ==
  /\ shown.pending
  /\ asked' = asked + 1 /\ shown' = NotAsked
  /\ \E answer \in Replies \cup {<<>>} :
       IF Parsed(answer).throws
         THEN arm' = "crashed" /\ UNCHANGED tally
         ELSE LET counted == Counted(tally[arm], arm, stream[asked + 1].anomaly, Parsed(answer).classification)
                  treated == counted.treated + (IF shown.treatment # "none" THEN 1 ELSE 0)
              IN  tally' = [tally EXCEPT ![arm] = [counted EXCEPT !.treated = treated]] /\ UNCHANGED arm
  /\ UNCHANGED <<stream, method, exit>>

\* main() runs the clean arm, then the contaminated one over the same events.
NextArm ==
  /\ arm = "clean" /\ asked = Len(stream) /\ ~shown.pending
  /\ arm' = "dirty" /\ asked' = 0
  /\ UNCHANGED <<stream, method, shown, tally, exit>>

\* No backend that answers is_available(): there is no stand-in.
NoBackend ==
  /\ arm = "clean" /\ asked = 0 /\ ~shown.pending
  /\ arm' = "over" /\ exit' = [code |-> 1, report |-> <<>>]
  /\ UNCHANGED <<stream, method, asked, shown, tally>>

\* write_results(): what each arm came to; nothing when the file cannot be opened.
WriteResults ==
  {<<>>, [a \in {"clean", "dirty"} |->
           [answered |-> Answered(tally[a]), unread |-> tally[a].unread, treated |-> tally[a].treated,
            majority |-> Majority(tally[a]), degenerate |-> IsDegenerate(tally[a])]]}

\* The degeneracy gate, the report, which only warns when it cannot, and the code.
Finish ==
  /\ arm = "dirty" /\ asked = Len(stream) /\ ~shown.pending
  /\ \E report \in WriteResults :
       exit' = [code |-> IF \E a \in {"clean", "dirty"} : IsDegenerate(tally[a]) THEN 3 ELSE 0, report |-> report]
  /\ arm' = "over"
  /\ UNCHANGED <<stream, method, asked, shown, tally>>

Next == Ask \/ Hear \/ NextArm \/ NoBackend \/ Finish

Spec == Init /\ [][Next]_vars

-------------------------------------------------------------------------------

\* The arms differ in the treatment and in nothing else: a trial counts as treated
\* exactly when its prompt is not the one of the clean arm.  The treatment reaches the
\* answer: whoever follows the prompt's rule, the newest record of the event's own
\* entity, reads what was injected, and reads what the clean arm reads under a
\* retrieval, which brings true records of others.
Records(i) == FormatContext(ContextOf(i), i)
Newest(i, records) ==
  LET own == {r \in Range(records) : r.entity = stream[i].entity}
  IN  {r \in own : \A q \in own : q.time <= r.time}
TreatedIsDifferent ==
  LET i == asked + 1
  IN  shown.pending /\ arm # "runner" =>
        /\ (shown.treatment # "none") = (shown.records # Records(i))
        /\ shown.treatment = "RetrievalContamination" => Newest(i, shown.records) = Newest(i, Records(i))
        /\ shown.treatment \notin {"none", "RetrievalContamination"} =>
             Newest(i, shown.records) \cap Range(Records(i)) = {}

\* A run that exits with 0 measured something: every arm was answered, in both ways;
\* and where only one way was, but both labels were asked about, the arm is at chance
\* whatever it was shown.  No trial is lost or counted twice on the way there.
VerdictMeansSomething ==
  /\ exit.code = 0 =>
       \A a \in {"clean", "dirty"} : tally[a].tp + tally[a].fp > 0 /\ tally[a].tn + tally[a].fn > 0
  /\ \A a \in DOMAIN tally :
       LET t == tally[a] IN
       /\ Majority(t) = Answered(t) /\ t.tp + t.fn > 0 /\ t.tn + t.fp > 0 => AtChance(t)
       /\ a = arm => Answered(t) + (IF a = "runner" THEN 0 ELSE t.unread) = asked
       /\ t.treated <= Len(stream) /\ (a # "dirty" => t.treated = 0)
===============================================================================
