-------------------------------- MODULE LocalRun --------------------------------
(***************************************************************************)
(* A batch of experiments on one machine: a batch file read and expanded,  *)
(* or the grid of the demonstration (context/experiment_config_io.hpp,     *)
(* ExperimentGridGenerator); LocalDistributedRunner, whose threads draw    *)
(* indices from one atomic counter and report their progress; the tables   *)
(* made of the results; and the files they are saved in, over those of an  *)
(* earlier process, which may have been killed.                            *)
(***************************************************************************)
EXTENDS Integers, Sequences, FiniteSets, SequencesExt, FiniteSetsExt, TLC

CONSTANTS Workers,   \* the threads of a run
          Requests,  \* the batch files and grids that may be asked for
          MaxProcesses,  \* bound on the processes, one after another
          None       \* a default-constructed result, or no request

VARIABLES
  request, configs,      \* what this process was asked, and its runs
  taskIndex, completed,  \* the two atomic counters
  held,                  \* what each thread is doing
  results, printed,      \* the results by index; the progress figures as they appeared
  step, processes,       \* how far main() is; processes started
  disk                   \* the files of every directory
vars == <<request, configs, taskIndex, completed, held, results, printed, step, processes, disk>>

-------------------------------------------------------------------------------

\* The methods a batch file may name; one of them has two names.
MethodFromName(name) ==
  CASE name \in {"VersionedIntegrity", "FullVersionedIntegrity"} -> "VersionedIntegrity"
    [] name \in {"NoHistory", "FullHistory", "FixedWindow", "RollingSummary", "VectorRetrieval", "TimeFilter",
                 "VersionedContext"} -> name
    [] OTHER -> "none"

\* What from_json() insists on, with rates in thousandths.
Accepted(r) ==
  /\ r.batch # "" /\ r.methods # <<>> /\ \A m \in ToSet(r.methods) : MethodFromName(m) # "none"
  /\ \A rate \in ToSet(r.rates) : rate \in 0..1000
  /\ r.seeds >= 1

\* The nested loops over methods, rates, event counts and seeds: the run at place k of them.
Rates(r) == IF r.rates = <<>> THEN <<r.baseRate>> ELSE r.rates
Condition(r, k) ==
  LET s == r.seeds  e == s * Len(r.events)  all == e * Len(Rates(r))
  IN  [method |-> MethodFromName(r.methods[(k - 1) \div all + 1]),
       rate |-> Rates(r)[((k - 1) % all) \div e + 1],
       events |-> r.events[((k - 1) % e) \div s + 1],
       seed |-> (k - 1) % s]
NumberOf(r) == Len(r.methods) * Len(Rates(r)) * Len(r.events) * r.seeds

\* Mutant: every seed of a condition has one name.
IdOf_AnySeed(r, k) ==
  LET c == Condition(r, k) IN IF r.grid THEN <<k - 1>> ELSE <<r.batch, c.method, c.rate \div 10>>

\* A batch file's runs are named by method, the rate cut to whole percent (here without the
\* error of its product), and seed; those of a grid are numbered.
IdOf(r, k) ==
  LET c == Condition(r, k) IN IF r.grid THEN <<k - 1>> ELSE <<r.batch, c.method, c.rate \div 10, c.seed>>
Expand(r) == [k \in 1..NumberOf(r) |-> [id |-> IdOf(r, k)] @@ Condition(r, k)]

\* What is asked for has the types of a batch file, and None is none of its runs.
Request ==
  [grid : BOOLEAN, batch : STRING, methods : Seq(STRING), rates : Seq(Nat), baseRate : Nat, events : Seq(Nat), seeds : Int]
RunAssumption ==
  /\ Workers # {} /\ IsFiniteSet(Workers) /\ MaxProcesses \in Nat
  /\ Requests \subseteq Request /\ \A r \in Requests : \A k \in 1..NumberOf(r) : Expand(r)[k] # None

\* run_experiment(): the result repeats its configuration, which is all it depends on.
ResultOf(config) == config

-------------------------------------------------------------------------------
Idle == [stage |-> "idle"]
Out == [stage |-> "out"]
At(stage, k, done) == [stage |-> stage, at |-> k, done |-> done]

Init ==
  /\ request = None /\ configs = <<>> /\ taskIndex = 0 /\ completed = 0 /\ held = [w \in Workers |-> Out]
  /\ results = <<>> /\ printed = <<>> /\ step = "over" /\ processes = 0 /\ disk = <<>>

\* A process ends, and what it held is gone.
End ==
  /\ step' = "over" /\ configs' = <<>> /\ taskIndex' = 0 /\ completed' = 0 /\ held' = [w \in Workers |-> Out]
  /\ results' = <<>> /\ printed' = <<>> /\ request' = None /\ UNCHANGED processes

\* main(): a request that is not accepted ends the process before anything is touched.
Start(r) ==
  /\ step = "over" /\ processes < MaxProcesses /\ processes' = processes + 1 /\ request' = r
  /\ IF Accepted(r)
       THEN /\ configs' = Expand(r) /\ results' = [k \in 1..NumberOf(r) |-> None]
            /\ held' = [w \in Workers |-> Idle] /\ step' = "running"
       ELSE UNCHANGED <<configs, results, held, step>>
  /\ UNCHANGED <<taskIndex, completed, printed, disk>>

\* Mutant: an ordinary counter, of which two threads may read one value.
Take_NotAtomic(w) ==
  /\ step = "running" /\ held[w] = Idle
  /\ taskIndex' \in {taskIndex, taskIndex + 1}
  /\ held' = [held EXCEPT ![w] = IF taskIndex >= Len(configs) THEN Out ELSE At("run", taskIndex + 1, 0)]
  /\ UNCHANGED <<request, configs, completed, results, printed, step, processes, disk>>

\* A thread: draw the next index, run, count, and print the figure under the lock.
Take(w) ==
  /\ step = "running" /\ held[w] = Idle
  /\ taskIndex' = taskIndex + 1
  /\ held' = [held EXCEPT ![w] = IF taskIndex >= Len(configs) THEN Out ELSE At("run", taskIndex + 1, 0)]
  /\ UNCHANGED <<request, configs, completed, results, printed, step, processes, disk>>

\* Mutant: results are kept in the order they come.
RunExperiment_AsTheyCome(w) ==
  /\ step = "running" /\ held[w].stage = "run"
  /\ results' = [results EXCEPT ![Cardinality({k \in DOMAIN results : results[k] # None}) + 1] = ResultOf(configs[held[w].at])]
  /\ held' = [held EXCEPT ![w].stage = "stored"]
  /\ UNCHANGED <<request, configs, taskIndex, completed, printed, step, processes, disk>>

RunExperiment(w) ==
  /\ step = "running" /\ held[w].stage = "run"
  /\ results' = [results EXCEPT ![held[w].at] = ResultOf(configs[held[w].at])]
  /\ held' = [held EXCEPT ![w].stage = "stored"]
  /\ UNCHANGED <<request, configs, taskIndex, completed, printed, step, processes, disk>>
Count(w) ==
  /\ step = "running" /\ held[w].stage = "stored"
  /\ completed' = completed + 1 /\ held' = [held EXCEPT ![w] = At("counted", @.at, completed')]
  /\ UNCHANGED <<request, configs, taskIndex, results, printed, step, processes, disk>>
PrintProgress(w) ==
  /\ step = "running" /\ held[w].stage = "counted"
  /\ printed' = Append(printed, held[w].done) /\ held' = [held EXCEPT ![w] = Idle]
  /\ UNCHANGED <<request, configs, taskIndex, completed, results, step, processes, disk>>

\* Every thread joined: the tables are printed and save_batch() opens its first file.
Empty == [rows |-> <<>>, summary |-> <<>>, figures |-> <<>>]
Directory(d) == IF d \in DOMAIN disk THEN disk[d] ELSE Empty
\* A batch has a directory by its name; a demonstration names its batch by the second, and
\* here no two have the same one.
Saved == IF request.grid THEN <<"distributed", processes>> ELSE <<request.batch>>
SetFile(here, file, content) ==
  disk' = [d \in DOMAIN disk \cup {here} |-> IF d = here THEN [Directory(d) EXCEPT ![file] = content] ELSE disk[d]]
Join ==
  /\ step = "running" /\ \A w \in Workers : held[w] = Out
  /\ SetFile(Saved, "rows", <<>>) /\ step' = "rows"
  /\ UNCHANGED <<request, configs, taskIndex, completed, held, results, printed, processes>>

\* save_batch(): a row for each result, and only then the summary, the same way.
Whole(file) == Len(Directory(Saved)[file]) = Len(results)
WriteRow(file) ==
  /\ step = file /\ ~Whole(file)
  /\ SetFile(Saved, file, Append(Directory(Saved)[file], results[Len(Directory(Saved)[file]) + 1]))
  /\ UNCHANGED <<request, configs, taskIndex, completed, held, results, printed, step, processes>>
\* Mutant: the summary is begun while rows are missing.
BeginSummary_Early ==
  /\ step = "rows"
  /\ SetFile(Saved, "summary", <<>>) /\ step' = "summary"
  /\ UNCHANGED <<request, configs, taskIndex, completed, held, results, printed, processes>>

BeginSummary ==
  /\ step = "rows" /\ Whole("rows")
  /\ SetFile(Saved, "summary", <<>>) /\ step' = "summary"
  /\ UNCHANGED <<request, configs, taskIndex, completed, held, results, printed, processes>>

\* The demonstration adds its figures, which have a row for each result, of its method and
\* metrics: rate and seed are in none of them.  They are not the batch's: every
\* demonstration writes them under the same names in the same directory.
Figures(rs) == [k \in DOMAIN rs |-> rs[k].method]
Finish ==
  /\ step = "summary" /\ Whole("summary") /\ End
  /\ IF request.grid THEN SetFile(<<"figures", 0>>, "figures", Figures(results)) ELSE UNCHANGED disk

\* The process is killed; what the files hold stays.
Kill == step # "over" /\ End /\ UNCHANGED disk

Next ==
  \/ \E r \in Requests : Start(r)
  \/ \E w \in Workers : Take(w) \/ RunExperiment(w) \/ Count(w) \/ PrintProgress(w)
  \/ Join \/ WriteRow("rows") \/ BeginSummary \/ WriteRow("summary") \/ Finish \/ Kill
Spec == Init /\ [][Next]_vars

-------------------------------------------------------------------------------

\* aggregate(): how many results each (method, rate, events) is the mean of.
GroupOf(x) == <<x.method, x.rate, x.events>>
SampleCount(rs, group) == Cardinality({k \in DOMAIN rs : GroupOf(rs[k]) = group})
Aggregated(rs) == [group \in {GroupOf(rs[k]) : k \in DOMAIN rs} |-> SampleCount(rs, group)]

\* Mutant: runs are matched by condition only.
KeyOf_AnySeed(x) == <<x.rate, x.events>>

\* print_significance_table(): the pairs of a method, in the order of its results; the last
\* baseline run of a condition stands for it, and a result without one is passed over.
HasTable(r) == r.grid \/ r.seeds >= 2
Baseline(r) == IF r.grid THEN "NoHistory" ELSE MethodFromName(Head(r.methods))
KeyOf(x) == <<x.rate, x.events, x.seed>>
BaselineRuns(rs, baseline, key) == {k \in DOMAIN rs : rs[k].method = baseline /\ KeyOf(rs[k]) = key}
Paired(rs, baseline, method) ==
  LET treated == SelectSeq(rs, LAMBDA x : x.method = method /\ BaselineRuns(rs, baseline, KeyOf(x)) # {})
  IN  [i \in DOMAIN treated |-> <<rs[Max(BaselineRuns(rs, baseline, KeyOf(treated[i])))], treated[i]>>]

-------------------------------------------------------------------------------

\* Whatever the schedule, a run is drawn once, its result is at the place of its
\* configuration, and when the threads are joined each figure of the progress line was
\* printed once; a figure may appear late, behind later ones, but is ahead of its place by
\* no more than the other threads hold back (run_distributed()).
EachRunInItsPlace ==
  /\ step = "running" =>
       /\ \A v, w \in Workers : v # w /\ held[v] \notin {Idle, Out} /\ held[w] \notin {Idle, Out} => held[v].at # held[w].at
       /\ \A k \in DOMAIN results : results[k] # None => k <= taskIndex /\ results[k] = ResultOf(configs[k])
       /\ completed <= Cardinality({k \in DOMAIN results : results[k] # None})
       /\ \A i \in DOMAIN printed : printed[i] < i + Cardinality(Workers)
  /\ step \in {"rows", "summary"} =>
       /\ results = [k \in DOMAIN configs |-> ResultOf(configs[k])]
       /\ Len(printed) = Len(configs) /\ ToSet(printed) = DOMAIN configs

\* In the tables, a mean is over every seed of its condition; a method is set against the
\* baseline's run on the same stream, none of its runs is passed over, and no pair counts
\* more often than the batch lists the method, under either name.  A row that shares its
\* identifier with another differs from it by less than one per cent of the rate, if at all.
TablesCompareLikeWithLike ==
  step \in {"rows", "summary"} =>
    LET baseline == Baseline(request)
        Listed(m) == Cardinality({i \in DOMAIN request.methods : MethodFromName(request.methods[i]) = m})
        methods == {results[k].method : k \in DOMAIN results}
    IN  /\ \A group \in DOMAIN Aggregated(results) : Aggregated(results)[group] = Listed(group[1]) * request.seeds
        /\ HasTable(request) /\ baseline \in methods => \A m \in methods \ {baseline} :
             LET pairs == Paired(results, baseline, m)
             IN  /\ \A p \in ToSet(pairs) : p[1].method = baseline /\ \A f \in {"rate", "events", "seed"} : p[1][f] = p[2][f]
                 /\ Len(pairs) = Listed(m) * Len(Rates(request)) * Len(request.events) * request.seeds
                 /\ Len(pairs) = Listed(m) * Cardinality(ToSet(pairs))
        /\ \A j, k \in DOMAIN results : results[j].id = results[k].id =>
             /\ GroupOf([results[j] EXCEPT !.rate = 0]) = GroupOf([results[k] EXCEPT !.rate = 0])
             /\ results[j].seed = results[k].seed /\ results[j].rate \div 10 = results[k].rate \div 10

\* While a process saves its batch, the rows there are the first of its results, in the
\* order of the batch, whatever an earlier process left in the directory; it begins the
\* summary once they are all there, and writes it in the same order (save_batch(),
\* export_csv()).  Of a directory no process is writing to it says nothing.
SummaryBesideItsRows ==
  /\ step = "rows" => IsPrefix(Directory(Saved).rows, results)
  /\ step = "summary" => Directory(Saved).rows = results /\ IsPrefix(Directory(Saved).summary, results)

\* The three together: what a batch reports and saves is of its runs, each once.
BatchIsInOrder == EachRunInItsPlace /\ TablesCompareLikeWithLike /\ SummaryBesideItsRows
===============================================================================
