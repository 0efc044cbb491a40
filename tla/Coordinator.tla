------------------------------ MODULE Coordinator ------------------------------
(***************************************************************************)
(* context/distributed_experiment.hpp: an ExperimentCoordinator that hands *)
(* tasks to ExperimentWorkers, which run them in threads of their own and  *)
(* post back results and heartbeats.                                       *)
(*                                                                         *)
(* The coordinator's handlers hold one mutex, dispatch_tasks() also while  *)
(* it posts tasks; what workers do meanwhile commutes with it, so a        *)
(* handler is one action.  A post is not repeated and its outcome is not   *)
(* looked at: a message arrives once, or after its sender has stopped      *)
(* waiting for the answer, or never.                                       *)
(*                                                                         *)
(* The HTTP servers at both ends and the program that calls                *)
(* dispatch_tasks() are not part of the repository.  Batch ids are not     *)
(* reused.  A task's id is its batch's and an index, and what is asked of  *)
(* a batch is answered for every task whose id begins with the batch's:    *)
(* b1 is told of the tasks of b10 too.  What an experiment computes is     *)
(* abstracted to its success.                                              *)
(***************************************************************************)
EXTENDS Integers, SequencesExt

CONSTANTS
  Tasks,          \* the task ids
  Batches,        \* the batches that may be submitted, each the set of its tasks
  Prefixed,       \* for each id asked about, the tasks whose ids begin with it
  Workers,        \* the worker ids
  Threads,        \* the threads of a worker, Config::max_concurrent of them
  MaxConcurrent,  \* WorkerInfo::max_concurrent_tasks
  MaxRetries,     \* Config::max_retries
  MaxFailures     \* bound on crashes, stops, late and lost messages together

ASSUME TasksAssumption ==
  Tasks # {} /\ \A b \in Batches \cup Prefixed : b \subseteq Tasks /\ IsFiniteSet(b)
ASSUME WorkersAssumption == IsFiniteSet(Workers)
ASSUME LimitsAssumption ==
  MaxConcurrent \in Nat \ {0} /\ MaxRetries \in Nat \ {0} /\ MaxFailures \in Nat

VARIABLES
  \* the coordinator
  status,     \* all_tasks_: status, "Absent" before the task is submitted
  assigned,   \* all_tasks_: assigned_worker, as the set of it
  retries,    \* all_tasks_: retry_count
  pending,    \* pending_tasks_: copies of tasks, each with its retry_count
  results,    \* the keys of completed_results_
  known,      \* the keys of workers_
  current,    \* workers_: current_tasks
  available,  \* workers_: available
  alive,      \* workers_: a heartbeat came within the time of is_alive()
  \* the workers
  process,    \* new: not registered yet, up, stopped: stop() was called, down
  queue,      \* task_queue_
  job,        \* what each thread does
  heartbeat,  \* the current_tasks of the heartbeat under way, {} if none is
  late,       \* results whose senders have stopped waiting
  attempts,   \* history: how often each task has been begun
  failures    \* crashes, stops, late and lost messages so far

taskVars == <<status, assigned, retries, pending, results>>
infoVars == <<known, current, available, alive>>
workerVars == <<process, queue, job>>
messageVars == <<heartbeat, late>>
vars == <<taskVars, infoVars, workerVars, messageVars, attempts, failures>>

Ended == {"Completed", "Failed"}
NoTask == CHOOSE t \in Tasks : TRUE
Polling == [stage |-> "pop", task |-> NoTask]
Left == [stage |-> "done", task |-> NoTask]
Holding == {"run", "ok", "error"}

TypeOK ==
  /\ status \in [Tasks -> {"Absent", "Pending", "Running", "Completed", "Failed"}]
  /\ assigned \in [Tasks -> SUBSET Workers]
  /\ retries \in [Tasks -> 0..MaxRetries]
  /\ pending \in Seq([task : Tasks, retries : 0..MaxRetries-1])
  /\ results = {t \in Tasks : status[t] = "Completed"}
  /\ known \subseteq Workers /\ current \in [Workers -> Int]
  /\ available \in [Workers -> BOOLEAN] /\ alive \in [Workers -> BOOLEAN]
  /\ process \in [Workers -> {"new", "up", "stopped", "down"}]
  /\ queue \in [Workers -> Seq(Tasks)]
  /\ job \in [Workers -> [Threads -> [stage : {"pop", "done"} \cup Holding, task : Tasks]]]
  /\ heartbeat \in [Workers -> SUBSET Nat]
  /\ late \subseteq [task : Tasks, stage : {"ok", "error"}]
  /\ attempts \in [Tasks -> Nat] /\ failures \in 0..MaxFailures

Init ==
  /\ status = [t \in Tasks |-> "Absent"] /\ assigned = [t \in Tasks |-> {}]
  /\ retries = [t \in Tasks |-> 0] /\ pending = <<>> /\ results = {}
  /\ known = {} /\ current = [w \in Workers |-> 0]
  /\ available = [w \in Workers |-> FALSE] /\ alive = [w \in Workers |-> FALSE]
  /\ process = [w \in Workers |-> "new"]
  /\ queue = [w \in Workers |-> <<>>]
  /\ job = [w \in Workers |-> [k \in Threads |-> Polling]]
  /\ heartbeat = [w \in Workers |-> {}] /\ late = {}
  /\ attempts = [t \in Tasks |-> 0] /\ failures = 0

-------------------------------------------------------------------------------
(* The coordinator.                                                        *)

Fail == failures < MaxFailures /\ failures' = failures + 1

\* The tasks of a batch one by one; which of them is which index does not matter.
Orders(b) == {s \in [1..Cardinality(b) -> b] : IsInjective(s)}

\* submit_experiment_batch(), under a new batch id.
Submit(b) ==
  /\ b # {} /\ \A t \in b : status[t] = "Absent"
  /\ status' = [t \in Tasks |-> IF t \in b THEN "Pending" ELSE status[t]]
  /\ \E s \in Orders(b) :
       pending' = pending \o [i \in 1..Cardinality(b) |-> [task |-> s[i], retries |-> 0]]
  /\ UNCHANGED <<assigned, retries, results, infoVars, workerVars, messageVars, attempts, failures>>

\* register_worker(), for a process that has just been started and whose
\* WorkerInfo has no heartbeat yet.
Register(w) ==
  /\ process[w] = "new"
  /\ process' = [process EXCEPT ![w] = "up"]
  /\ known' = known \cup {w}
  /\ current' = [current EXCEPT ![w] = 0]
  /\ available' = [available EXCEPT ![w] = TRUE]
  /\ alive' = [alive EXCEPT ![w] = FALSE]
  /\ UNCHANGED <<taskVars, queue, job, messageVars, attempts, failures>>

\* process_heartbeat()
ProcessHeartbeat(w) ==
  /\ \E n \in heartbeat[w] :
       IF w \in known
         THEN /\ alive' = [alive EXCEPT ![w] = TRUE]
              /\ current' = [current EXCEPT ![w] = n]
              /\ available' = [available EXCEPT ![w] = n < MaxConcurrent]
         ELSE UNCHANGED <<alive, current, available>>
  /\ heartbeat' = [heartbeat EXCEPT ![w] = {}]
  /\ UNCHANGED <<taskVars, known, workerVars, late, attempts, failures>>

\* The time of is_alive() passes without a heartbeat, as the worker is gone or
\* several heartbeats in a row were lost.
Expire(w) ==
  /\ alive[w]
  /\ IF process[w] \in {"stopped", "down"} THEN UNCHANGED failures ELSE Fail
  /\ alive' = [alive EXCEPT ![w] = FALSE]
  /\ UNCHANGED <<taskVars, known, current, available, workerVars, messageVars, attempts>>

Eligible == {w \in known : alive[w] /\ available[w]}

\* Mutant: the tasks dispatched are not taken out of the queue.
Undispatched_Kept(n) == pending
Undispatched(n) == SubSeq(pending, n + 1, Len(pending))

\* dispatch_tasks(): one task for each eligible worker, in no particular order,
\* while there are tasks.  A worker that is down does not get its task, one that
\* is not may miss it.
Dispatch ==
  LET n == Min({Len(pending), Cardinality(Eligible)})
  IN  /\ n > 0
      /\ \E to \in {f \in [1..n -> Eligible] : IsInjective(f)} :
           LET chosen == {to[i] : i \in 1..n}
               taskOf(w) == pending[CHOOSE i \in 1..n : to[i] = w]
               given(t) == {i \in 1..n : pending[i].task = t}
           IN  /\ status' = [t \in Tasks |-> IF given(t) # {} THEN "Running" ELSE status[t]]
               /\ assigned' = [t \in Tasks |->
                    IF given(t) # {} THEN {to[Max(given(t))]} ELSE assigned[t]]
               /\ retries' = [t \in Tasks |->
                    IF given(t) # {} THEN pending[Max(given(t))].retries ELSE retries[t]]
               /\ current' = [w \in Workers |-> IF w \in chosen THEN current[w] + 1 ELSE current[w]]
               /\ available' = [w \in Workers |->
                    IF w \in chosen THEN current'[w] < MaxConcurrent ELSE available[w]]
               /\ \E missed \in SUBSET {w \in chosen : process[w] # "down"} :
                    /\ failures' = failures + Cardinality(missed)
                    /\ failures' <= MaxFailures
                    /\ queue' = [w \in Workers |->
                         IF w \in chosen \ missed /\ process[w] # "down"
                           THEN Append(queue[w], taskOf(w).task) ELSE queue[w]]
      /\ pending' = Undispatched(n)
      /\ UNCHANGED <<results, known, alive, process, job, messageVars, attempts>>

GiveUp(t) == retries[t] + 1 >= MaxRetries

\* Mutant: a task that is given up is queued again all the same.
Requeued_Always(t) ==
  Append(pending, [task |-> t, retries |-> Min({retries[t] + 1, MaxRetries - 1})])
\* Mutant: the copy that is queued was made before the retry was counted.
Requeued_OldCount(t) ==
  IF GiveUp(t) THEN pending ELSE Append(pending, [task |-> t, retries |-> retries[t]])
\* Mutant: a failed task is marked Pending and not queued.
Requeued_Never(t) == pending
Requeued(t) ==
  IF GiveUp(t) THEN pending ELSE Append(pending, [task |-> t, retries |-> retries[t] + 1])

\* process_result()
HandleResult(t, outcome) ==
  LET freed == assigned[t] \cap known
  IN  /\ IF outcome = "ok"
           THEN /\ status' = [status EXCEPT ![t] = "Completed"]
                /\ results' = results \cup {t}
                /\ UNCHANGED <<retries, pending>>
           ELSE /\ retries' = [retries EXCEPT ![t] = @ + 1]
                /\ status' = [status EXCEPT ![t] = IF GiveUp(t) THEN "Failed" ELSE "Pending"]
                /\ pending' = Requeued(t)
                /\ UNCHANGED results
      /\ current' = [v \in Workers |-> IF v \in freed THEN current[v] - 1 ELSE current[v]]
      /\ available' = [v \in Workers |-> v \in freed \/ available[v]]
      /\ UNCHANGED <<assigned, known, alive, process, queue, heartbeat, attempts, failures>>

ProcessLate ==
  \E r \in late :
    /\ HandleResult(r.task, r.stage)
    /\ late' = late \ {r}
    /\ UNCHANGED job

-------------------------------------------------------------------------------
(* What a batch is said to have come to: ids are the tasks whose ids begin *)
(* with the one asked about.                                               *)

\* get_batch_status()
BatchStatus(ids) ==
  LET of(set) == Cardinality({t \in ids : status[t] \in set})
      total == of({"Pending", "Running"} \cup Ended)
  IN  [total |-> total, pending |-> of({"Pending"}), running |-> of({"Running"}),
       completed |-> of({"Completed"}), failed |-> of({"Failed"}),
       percent |-> IF total = 0 THEN 0 ELSE (100 * of(Ended)) \div total]

\* get_batch_results()
BatchResults(ids) == results \cap ids

-------------------------------------------------------------------------------
(* A worker: the loop of its threads, its heartbeats, and how it ends.     *)

Take(w, k) ==
  /\ job[w][k].stage = "pop" /\ queue[w] # <<>>
  /\ job' = [job EXCEPT ![w][k] = [stage |-> "run", task |-> Head(queue[w])]]
  /\ queue' = [queue EXCEPT ![w] = Tail(@)]
  /\ attempts' = [attempts EXCEPT ![Head(queue[w])] = @ + 1]
  /\ UNCHANGED <<taskVars, infoVars, process, messageVars, failures>>

\* run_experiment() returns or throws.
Finish(w, k) ==
  /\ job[w][k].stage = "run"
  /\ \E outcome \in {"ok", "error"} : job' = [job EXCEPT ![w][k].stage = outcome]
  /\ UNCHANGED <<taskVars, infoVars, process, queue, messageVars, attempts, failures>>

\* send_result() has returned.
Return(w, k) == job' = [job EXCEPT ![w][k] = IF process[w] = "stopped" THEN Left ELSE Polling]

\* The result is posted and answered.
SendResult(w, k) ==
  /\ job[w][k].stage \in {"ok", "error"}
  /\ HandleResult(job[w][k].task, job[w][k].stage)
  /\ Return(w, k)
  /\ UNCHANGED late

\* The thread stops waiting for the answer; the result may still arrive.
TimeOut(w, k) ==
  /\ Fail
  /\ job[w][k].stage \in {"ok", "error"}
  /\ late' = late \cup {job[w][k]}
  /\ Return(w, k)
  /\ UNCHANGED <<taskVars, infoVars, process, queue, heartbeat, attempts>>

\* The thread finds running_ false.
LeaveLoop(w, k) ==
  /\ job[w][k].stage = "pop" /\ process[w] = "stopped"
  /\ job' = [job EXCEPT ![w][k] = Left]
  /\ UNCHANGED <<taskVars, infoVars, process, queue, messageVars, attempts, failures>>

\* send_heartbeat() reports the size of the task queue.
SendHeartbeat(w) ==
  /\ process[w] \in {"new", "up"} /\ heartbeat[w] = {}
  /\ heartbeat' = [heartbeat EXCEPT ![w] = {Len(queue[w])}]
  /\ UNCHANGED <<taskVars, infoVars, workerVars, late, attempts, failures>>

\* ExperimentWorker::stop(): what is in the queue stays there.
Stop(w) ==
  /\ Fail
  /\ process[w] \in {"new", "up"}
  /\ process' = [process EXCEPT ![w] = "stopped"]
  /\ UNCHANGED <<taskVars, infoVars, queue, job, messageVars, attempts>>

Crash(w) ==
  /\ Fail
  /\ process[w] # "down"
  /\ process' = [process EXCEPT ![w] = "down"]
  /\ queue' = [queue EXCEPT ![w] = <<>>]
  /\ job' = [job EXCEPT ![w] = [k \in Threads |-> Left]]
  /\ UNCHANGED <<taskVars, infoVars, messageVars, attempts>>

\* A new process takes the id of one that crashed.
Restart(w) ==
  /\ process[w] = "down"
  /\ process' = [process EXCEPT ![w] = "new"]
  /\ job' = [job EXCEPT ![w] = [k \in Threads |-> Polling]]
  /\ UNCHANGED <<taskVars, infoVars, queue, messageVars, attempts, failures>>

-------------------------------------------------------------------------------

\* The heartbeat thread, which waits for the answer.
Beat(w) == SendHeartbeat(w) \/ ProcessHeartbeat(w)

ThreadStep(w, k) == Take(w, k) \/ Finish(w, k) \/ SendResult(w, k) \/ LeaveLoop(w, k)

Next ==
  \/ \E b \in Batches : Submit(b)
  \/ Dispatch \/ ProcessLate
  \/ \E w \in Workers :
       \/ Register(w) \/ Beat(w) \/ Expire(w)
       \/ Stop(w) \/ Crash(w) \/ Restart(w)
       \/ \E k \in Threads : ThreadStep(w, k) \/ TimeOut(w, k)

Spec == Init /\ [][Next]_vars

(* Threads run, a worker that runs is registered and heard, and whoever    *)
(* embeds the coordinator keeps calling dispatch_tasks().  Nothing is      *)
(* assumed of what comes after a crash.                                    *)
FairSpec ==
  /\ Spec
  /\ WF_vars(Dispatch)
  /\ \A w \in Workers :
       /\ WF_vars(Register(w)) /\ WF_vars(Beat(w))
       /\ \A k \in Threads : WF_vars(ThreadStep(w, k))

-------------------------------------------------------------------------------

\* Where a task is: in the coordinator's queue, in a worker's, in a thread, or in a
\* late result.
Places(t) ==
  {<<"pending", 0, i>> : i \in {j \in DOMAIN pending : pending[j].task = t}}
    \cup (UNION {{<<"queue", w, i>> : i \in {j \in DOMAIN queue[w] : queue[w][j] = t}} : w \in Workers})
    \cup (UNION {{<<"thread", w, k>> : k \in {j \in Threads : job[w][j].stage \in Holding /\ job[w][j].task = t}}
                   : w \in Workers})
    \cup {<<"late", r.stage, 0>> : r \in {l \in late : l.task = t}}

HeldBy(w, t) ==
  t \in ToSet(queue[w]) \/ \E k \in Threads : job[w][k].stage \in Holding /\ job[w][k].task = t

\* However dispatches, failing runs, retries, lost messages and crashes follow each
\* other, a task is in one place at most; a pending one is in the coordinator's
\* queue, a running one nowhere but at the worker it was assigned to.  None is begun
\* more often than max_retries, and one given up has been begun that often.  The status
\* of a batch accounts for each of its tasks, and for a result of each completed one.
InOnePlace ==
  /\ TypeOK
  /\ \A t \in Tasks :
       /\ \A x, y \in Places(t) : x = y
       /\ Places(t) # {} => status[t] \in {"Pending", "Running"}
       /\ status[t] = "Pending" <=> \E i \in DOMAIN pending : pending[i].task = t
       /\ \A w \in Workers : HeldBy(w, t) => assigned[t] = {w}
       /\ attempts[t] <= MaxRetries
       /\ status[t] = "Failed" => attempts[t] = MaxRetries
  /\ \A ids \in Prefixed :
       LET said == BatchStatus(ids)
       IN  /\ said.total = said.pending + said.running + said.completed + said.failed
           /\ said.completed = Cardinality(BatchResults(ids))

\* A running task that nobody works on or ever will.
Lost(t) ==
  /\ status[t] = "Running"
  /\ \A w \in Workers : HeldBy(w, t) => process[w] = "stopped"

\* A task that has completed or failed stays so: no result comes after the last one.  Of
\* what an id is asked about, no result is withdrawn, the tasks that completed or failed
\* never become fewer, and progress is taken back only when tasks are submitted whose ids
\* begin with it too.
EndedIsKept ==
  [][/\ \A t \in Tasks : status[t] \in Ended => status'[t] = status[t]
     /\ \A ids \in Prefixed :
          LET before == BatchStatus(ids)
              after == BatchStatus(ids)'
          IN  /\ BatchResults(ids) \subseteq BatchResults(ids)'
              /\ before.completed <= after.completed /\ before.failed <= after.failed
              /\ before.percent <= after.percent \/ before.total < after.total]_vars

\* If a worker is left that nothing happens to (MaxFailures below their number), there
\* always comes a time again when every task submitted has ended, for good, unless the
\* worker, the message or the result was lost.
EndsOrIsLost ==
  EndedIsKept /\ []<>(\A t \in Tasks : status[t] \in {"Absent"} \cup Ended \/ Lost(t))

\* The header lists fault tolerance and Config a task_timeout_s: whatever becomes of one
\* worker, the tasks submitted end.  They do not: no timeout is ever looked at, and a task
\* whose worker is gone stays Running.
EveryTaskEnds == []<>(\A t \in Tasks : status[t] \in {"Absent"} \cup Ended)
===============================================================================
