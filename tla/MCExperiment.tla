----------------------------- MODULE MCExperiment -----------------------------
(***************************************************************************)
(* The research side, several machines in one run: a comparison of context *)
(* methods (the study), the exchange with a language model, the documents  *)
(* they write, the two arms put to a live model, the walk-forward over     *)
(* days, what is computed from one day, the report of a run, and a batch   *)
(* run locally.  "part" says which of them moves.                          *)
(***************************************************************************)
EXTENDS Integers, Sequences, FiniteSets

CONSTANTS Raw, Unknown, Inferred, None, Entities, Values, Fabricated, Gaps, Linger, Configs, MaxEvents,
          WindowSize, Stride, TopK, SearchWindow, FilterAge, MaxAge
VARIABLES part, history, store, injected, runs, revived

Study == INSTANCE Experiment
study == <<history, store, injected, runs, revived>>

\* Every configuration a study compares: the baselines, both versioned methods, and
\* each ablation of the stronger one.
Baselines == {"NoHistory", "FullHistory", "FixedWindow", "RollingSummary", "VectorRetrieval", "TimeFilter"}
AllOn == [temporal |-> TRUE, provenance |-> TRUE, forgetting |-> TRUE, conflict |-> TRUE, crossAgent |-> TRUE]
With(m, fl) == [method |-> m, flags |-> fl]
MCConfigs ==
  {With(m, AllOn) : m \in Baselines \union {"VersionedContext", "FullVersionedIntegrity"}}
    \union {With("FullVersionedIntegrity", [AllOn EXCEPT ![f] = FALSE]) : f \in DOMAIN AllOn}
    \union {With("FullVersionedIntegrity", [f \in DOMAIN AllOn |-> FALSE])}
MCGaps == {1, 3}
MCValues == {1, 2}

-------------------------------------------------------------------------------
VARIABLES document, backend, call, first, futures, responses, due

Doc(fields) == <<"object", fields>>
Message(s) == <<"message", Doc(<<<<"content", <<"string", s>>>>>>)>>
Cut(tokens, n) == <<SubSeq(tokens, 1, n), SubSeq(tokens, n + 1, Len(tokens))>>
Json == INSTANCE JsonText WITH Controls <- {"control"}, MaxDepth <- 4

\* Answers of two segments: framed either way or not at all, an error, and one that
\* has no message; a chunked one comes in one chunk or two.
Ollama == Json!Stringify(Doc(<<Message("answer"), <<"done", <<"bool", TRUE>>>>>>))
Vllm == Json!Stringify(Doc(<<<<"choices", <<"array", <<Doc(<<Message("answer")>>)>>>>>>>>))
Bodies(text) ==
  [status : {"ok"}, framing : {"length", "none"}, chunks : {<<Cut(text, 4)>>}]
    \cup [status : {"ok"}, framing : {"chunked"}, chunks : {<<Cut(text, 4)>>, <<<<Cut(text, 4)[1]>>, <<Cut(text, 4)[2]>>>>}]
    \cup [status : {"error"}, framing : {"length"}, chunks : {<<<<Json!Stringify(Doc(<<<<"error", <<"null">>>>>>))>>>>}]
MCAnswers == [ollama |-> Bodies(Ollama), vllm |-> Bodies(Vllm)]

\* Streams of two tokens and a last line: a chunk a line, two lines in a chunk, a line
\* over two chunks, and without chunks.
Nl == <<<<"nl">>>>
Line(s) == Json!Stringify(Doc(<<Message(s), <<"done", <<"bool", FALSE>>>>>>)) \o Nl
End == Json!Stringify(Doc(<<Message(""), <<"done", <<"bool", TRUE>>>>>>)) \o Nl
MCStreams ==
  [status : {"ok"}, framing : {"chunked"},
   chunks : {<<<<Line("a")>>, <<Line("b")>>, <<End>>>>, <<Cut(Line("a") \o Line("b"), 5), <<End>>>>,
             <<<<Line("a")>>, <<Cut(Line("b"), 4)[1]>>, <<Cut(Line("b"), 4)[2]>>, <<End>>>>}]
    \cup [status : {"ok"}, framing : {"none"}, chunks : {<<Cut(Line("a") \o Line("b") \o End, 20)>>}]

Llm == INSTANCE LlmExchange WITH
  N <- 3, MaxConcurrent <- 2, Answers <- MCAnswers, StreamAnswers <- MCStreams, Controls <- {"control"}, MaxDepth <- 4
exchange == <<backend, call, first, futures, responses, due>>

\* Documents of two levels, with numbers of one and two digits in either base.
Leaves == {<<"null">>, <<"bool", TRUE>>, <<"number", 7>>, <<"number", 18>>, <<"number", 26>>, <<"number", 161>>,
           <<"string", "plain">>, <<"string", "control">>}
Lists(S) == {<<"array", s>> : s \in {<<>>} \cup {<<x>> : x \in S} \cup {<<x, y>> : x \in S, y \in S}}
Objects(S) ==
  {Doc(s) : s \in {<<>>} \cup {<<<<"plain", x>>>> : x \in S} \cup {<<<<"control", x>>, <<"plain", y>>>> : x \in S, y \in S}}
MCDocuments ==
  Leaves \cup Lists(Leaves) \cup Objects(Leaves) \cup Lists(Objects({<<"number", 18>>, <<"string", "control">>}))
    \cup Objects(Lists({<<"number", 18>>, <<"string", "control">>}))

-------------------------------------------------------------------------------
CONSTANTS Streams, Compared, Replies, Interval, StaleMin, ForeignMin, SummaryMin, ArmsWindow, ArmsFilterAge, ArmsMaxAge
VARIABLES stream, method, arm, asked, shown, tally, armsExit

\* Streams in which one entity fills the history, or two share it; every other event is
\* an anomaly.
EventsOf(entities) == [k \in DOMAIN entities |-> [entity |-> entities[k], anomaly |-> k % 2 = 0]]
MCEventStreams == {EventsOf(s) : s \in {<<"a", "a", "a", "a">>, <<"a", "b", "a">>, <<"a", "a", "b">>}}
\* Either word, neither, and a confidence that is no number.
Reply(class, confidence) == Json!Stringify(Doc(<<<<"classification", class>>, <<"confidence", confidence>>>>))
MCReplies == {Reply(<<"string", "anomaly">>, <<"number", 9>>), Reply(<<"string", "normal">>, <<"number", 9>>),
              Reply(<<"null">>, <<"number", 9>>), Reply(<<"string", "normal">>, <<"string", "high">>)}

Paired == INSTANCE PairedArms WITH
  WindowSize <- ArmsWindow, FilterAge <- ArmsFilterAge, MaxAge <- ArmsMaxAge, exit <- armsExit
paired == <<stream, method, arm, asked, shown, tally, armsExit>>

-------------------------------------------------------------------------------
CONSTANTS Window, Horizon, Threshold, DriftWindow, Series, Embargoes, Percent, Cap
VARIABLES files, embargoes, today, trainEnd, arms, violations, reported, exit, tape, warnAbove

\* Days: quiet, running up, both, too short to warm the window, out of order, empty.
Day(start, moves) == [k \in DOMAIN moves |-> [time |-> start + moves[k][1], price |-> moves[k][2], flow |-> moves[k][3]]]
Quiet(s) == Day(s, <<<<0, 5, 1>>, <<1, 5, -1>>, <<2, 5, 1>>, <<3, 5, 1>>, <<4, 5, -1>>>>)
Wild(s) == Day(s, <<<<0, 5, 1>>, <<1, 5, 2>>, <<1, 6, 1>>, <<2, 9, 2>>, <<4, 9, -1>>>>)
Mixed(s) == Day(s, <<<<0, 5, 1>>, <<1, 5, 1>>, <<1, 6, 1>>, <<2, 9, -1>>, <<3, 9, 1>>, <<5, 9, 1>>>>)
Short(s) == Day(s, <<<<0, 5, 1>>>>)
Disordered(s) == Day(s, <<<<2, 5, 1>>, <<0, 5, 1>>, <<3, 5, 1>>>>)
\* Any two or three of a set of files, two of which overlap, and series of four.
Files == {Quiet(1), Wild(1), Short(1), Mixed(11), Wild(11), Mixed(21), Mixed(23), Wild(4), Disordered(51), <<>>, None}
MCSeries ==
  [1..2 -> {Quiet(1), Mixed(11)}] \cup [1..3 -> Files]
    \cup {<<a, b, c, d>> : a \in {Mixed(11), Wild(11)}, b \in {Wild(1), Short(1)}, c \in {Mixed(21), Disordered(51)},
                           d \in Files \cup {Mixed(31)}}
MCEmbargoes == {<<0>>, <<0, 2>>, <<2, 5>>, <<5, 0>>}

Walk == INSTANCE WalkForward WITH Unreadable <- None, t <- today
walk == <<files, embargoes, today, trainEnd, arms, violations, reported, exit>>

\* Tapes of up to four trades, some at one time.
Trades == [gap : {0, 1}, price : {0, 2}, flow : {-1, 1}]
TapeOf(s) == [k \in DOMAIN s |->
  [time |-> Cardinality({j \in 1..k : s[j].gap = 1}), price |-> s[k].price, flow |-> s[k].flow]]
MCTapes == {TapeOf(s) : s \in UNION {[1..n -> Trades] : n \in {1, 2, 4}}}

-------------------------------------------------------------------------------
VARIABLES outputs, findings

Report == INSTANCE RunMetrics WITH
  Kinds <- {"StaleState", "InferencePersistence"}, Revived <- 1,
  Events <- <<[time |-> 1, anomaly |-> FALSE], [time |-> 2, anomaly |-> TRUE], [time |-> 4, anomaly |-> FALSE]>>
report == <<outputs, findings>>

-------------------------------------------------------------------------------
CONSTANTS Pool, Asked, MaxProcesses
VARIABLES request, configs, taskIndex, completed, held, rows, printed, step, processes, disk

\* Batch files of one directory: two rates of one per cent, a method under both its names,
\* the base rate only, a name that is none; and a small grid.
File(methods, rates, seeds) ==
  [grid |-> FALSE, batch |-> "batch", methods |-> methods, rates |-> rates, baseRate |-> 100, events |-> <<1000>>, seeds |-> seeds]
MCRequests ==
  {File(<<"NoHistory", "VersionedContext">>, <<50, 55>>, 1), File(<<"TimeFilter", "VersionedIntegrity", "FullVersionedIntegrity">>, <<>>, 2),
   File(<<"NoHistory", "TimeFilter">>, <<>>, 2), File(<<"NoHistory", "Unknown">>, <<>>, 1),
   [File(<<"NoHistory", "VersionedContext">>, <<100>>, 1) EXCEPT !.grid = TRUE, !.events = <<1000, 5000>>]}

Local == INSTANCE LocalRun WITH Workers <- Pool, Requests <- Asked, results <- rows
local == <<request, configs, taskIndex, completed, held, rows, printed, step, processes, disk>>

-------------------------------------------------------------------------------
ASSUME StudyAssumption == Study!MethodAssumption /\ Study!ExperimentAssumption
ASSUME PairedAssumption == Paired!MethodAssumption /\ Paired!ArmsAssumption
ASSUME WalkAssumption == Walk!TapeAssumption /\ Walk!WalkAssumption
ASSUME Local!RunAssumption /\ Llm!ExchangeAssumption /\ Report!MetricsAssumption

\* A machine that does not move is in one state.
NoStudy == history = <<>> /\ store = <<>> /\ injected = <<>> /\ runs = <<>> /\ revived = <<>>
NoArms == stream = <<>> /\ method = "" /\ arm = "" /\ asked = 0 /\ shown = <<>> /\ tally = <<>> /\ armsExit = <<>>

MCInit ==
  /\ part \in {"study", "llm", "json", "arms", "walk", "tape", "report", "local"}
  /\ IF part = "study" THEN Study!Init ELSE NoStudy
  /\ IF part = "arms" THEN Paired!Init ELSE NoArms
  /\ IF part = "walk" THEN TRUE ELSE files = <<Quiet(1), Quiet(1)>> /\ embargoes = <<0>>
  /\ Llm!Init /\ Walk!Init /\ Report!Init /\ Local!Init
  /\ document \in (IF part = "json" THEN MCDocuments ELSE {<<"null">>})
  /\ tape \in (IF part = "tape" THEN MCTapes ELSE {<<>>})
  /\ warnAbove \in (IF part = "tape" THEN {0, 1} ELSE {0})
MCNext ==
  /\ \/ part = "study" /\ Study!Next /\ UNCHANGED <<exchange, paired, walk, report, local>>
     \/ part = "llm" /\ Llm!Next /\ UNCHANGED <<study, paired, walk, report, local>>
     \/ part = "arms" /\ Paired!Next /\ UNCHANGED <<study, exchange, walk, report, local>>
     \/ part = "walk" /\ Walk!Next /\ UNCHANGED <<study, exchange, paired, report, local>>
     \/ part = "report" /\ Report!Next /\ UNCHANGED <<study, exchange, paired, walk, local>>
     \/ part = "local" /\ Local!Next /\ UNCHANGED <<study, exchange, paired, walk, report>>
  /\ UNCHANGED <<part, document, tape, warnAbove>>
MCSpec == MCInit /\ [][MCNext]_<<study, exchange, paired, walk, report, local, part, document, tape, warnAbove>>

\* The properties of the study.
DetectionLimits == part = "study" => Study!DetectionLimits
StrongerNeverWorse == part = "study" => Study!StrongerNeverWorse
ContextsAge == Study!ContextsAge
\* The property of LlmExchange; and every document comes back from its text, none from a
\* part of it.
AnswersAreWhole == Llm!AnswersAreWhole /\ (part = "json" => Json!ComesBackWhole(document))
\* What is reported is what it stands for: the metrics of a run, the tables and files of a
\* batch, a day's passes on every tape, with delays of up to two, the samples and scores of
\* the folds, and the check on sweeps of prompts that a server cuts off somewhere.
ReportsAddUp ==
  /\ Report!MetricsAddUp /\ Local!BatchIsInOrder
  /\ part = "walk" => Walk!NothingIsLeftOut
  /\ part = "tape" =>
       /\ Walk!PassesAreExact(tape, warnAbove, {0, 1, 2})
       /\ \A limit \in 1..60 : Walk!GrowthIsSeen(<<2, 4, 8, 16>>, 5, 3, limit)
\* Those of PairedArms.
ArmsAreComparable == part = "arms" => Paired!TreatedIsDifferent /\ Paired!VerdictMeansSomething
\* That of WalkForward.
NothingFromTheFuture == part = "walk" => Walk!NothingFromTheFuture
===============================================================================
