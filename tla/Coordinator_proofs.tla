--------------------------- MODULE Coordinator_proofs ---------------------------
(***************************************************************************)
(* Two proofs, one for each half of the experiments.  The coordinator and  *)
(* its workers never have a task in two places, whatever dispatches,       *)
(* failing runs, retries, lost messages and crashes follow each other, and *)
(* what is said of a batch adds up; a batch run locally keeps the order of *)
(* its files and counts too.  What the runs then measure is worth          *)
(* comparing: each check finds exactly the contaminations it can see, no   *)
(* protection makes a run worse on the same stream, a context takes no     *)
(* event back that it has given up, both arms of a study were asked the    *)
(* same question, and a day is judged by what was known before it.         *)
(***************************************************************************)
EXTENDS Coordinator, MCExperiment, Lemmas, SequenceTheorems, FiniteSetTheorems, TLAPS

Waiting(t) == \E i \in 1..Len(pending) : pending[i].task = t
Queued(w, t) == \E i \in 1..Len(queue[w]) : queue[w][i] = t
Holds(w, k) == job[w][k].stage \in Holding
InThread(w, t) == \E k \in Threads : Holds(w, k) /\ job[w][k].task = t
IsLate(t) == \E r \in late : r.task = t

\* A place of each kind holds a task once.
Single ==
  /\ \A i, j \in 1..Len(pending) : pending[i].task = pending[j].task => i = j
  /\ \A w \in Workers : \A i, j \in 1..Len(queue[w]) : queue[w][i] = queue[w][j] => i = j
  /\ \A w \in Workers : \A k, l \in Threads :
       Holds(w, k) /\ Holds(w, l) /\ job[w][k].task = job[w][l].task => k = l
  /\ \A r, s \in late : r.task = s.task => r = s

\* A worker's places exclude each other and a late result.
Apart ==
  /\ \A w \in Workers, t \in Tasks : Queued(w, t) => ~InThread(w, t)
  /\ \A w \in Workers, t \in Tasks : IsLate(t) => ~Queued(w, t) /\ ~InThread(w, t)

\* The status says which of the places it can be.
Stated ==
  /\ \A t \in Tasks : status[t] = "Pending" <=> Waiting(t)
  /\ \A w \in Workers, t \in Tasks :
       Queued(w, t) \/ InThread(w, t) => status[t] = "Running" /\ assigned[t] = {w}
  /\ \A t \in Tasks : IsLate(t) => status[t] = "Running"

\* An attempt is counted when it begins, a retry when it has failed.
Counted ==
  /\ \A i \in 1..Len(pending) : pending[i].retries = retries[pending[i].task]
  /\ \A t \in Tasks :
       /\ attempts[t] <= MaxRetries
       /\ status[t] = "Absent" => attempts[t] = 0 /\ retries[t] = 0
       /\ status[t] = "Pending" => attempts[t] = retries[t]
       /\ status[t] \in {"Pending", "Running"} => retries[t] < MaxRetries
       /\ status[t] = "Failed" => attempts[t] = MaxRetries
       /\ IsLate(t) => attempts[t] = retries[t] + 1
  /\ \A w \in Workers, t \in Tasks :
       /\ Queued(w, t) => attempts[t] = retries[t]
       /\ InThread(w, t) => attempts[t] = retries[t] + 1

Placed == Single /\ Apart /\ Stated /\ Counted
IInv == TypeOK /\ Placed

-------------------------------------------------------------------------------
LEMMA NoTaskIsTask == ASSUME TasksAssumption PROVE NoTask \in Tasks
BY DEF TasksAssumption, NoTask

LEMMA Starts ==
  ASSUME TasksAssumption, LimitsAssumption PROVE Init => IInv
<1> SUFFICES ASSUME Init PROVE IInv
  OBVIOUS
<1>1. /\ pending = <<>> /\ Len(pending) = 0 /\ late = {}
      /\ \A w \in Workers : queue[w] = <<>> /\ Len(queue[w]) = 0
      /\ \A w \in Workers : \A k \in Threads : job[w][k] = Polling
      /\ \A t \in Tasks : status[t] = "Absent" /\ retries[t] = 0 /\ attempts[t] = 0
  BY DEF Init
<1>2. /\ \A t \in Tasks : ~Waiting(t) /\ ~IsLate(t)
      /\ \A w \in Workers : \A k \in Threads : ~Holds(w, k)
      /\ \A w \in Workers, t \in Tasks : ~Queued(w, t) /\ ~InThread(w, t)
  BY <1>1 DEF Waiting, IsLate, Queued, InThread, Holds, Polling, Holding
<1>3. TypeOK
  <2>1. Polling \in [stage : {"pop", "done"} \cup Holding, task : Tasks]
    BY NoTaskIsTask DEF Polling
  <2>2. /\ MaxRetries \in Nat \ {0} /\ MaxFailures \in Nat
    BY DEF LimitsAssumption
  <2>3. results = {t \in Tasks : status[t] = "Completed"}
    BY <1>1 DEF Init
  <2>4. /\ status \in [Tasks -> {"Absent", "Pending", "Running", "Completed", "Failed"}]
        /\ assigned \in [Tasks -> SUBSET Workers]
        /\ retries \in [Tasks -> 0..MaxRetries]
        /\ pending \in Seq([task : Tasks, retries : 0..MaxRetries-1])
        /\ known \subseteq Workers /\ current \in [Workers -> Int]
    BY <2>2 DEF Init
  <2>5. available \in [Workers -> BOOLEAN] /\ alive \in [Workers -> BOOLEAN]
    BY DEF Init
  <2>6. /\ process \in [Workers -> {"new", "up", "stopped", "down"}]
        /\ queue \in [Workers -> Seq(Tasks)]
        /\ heartbeat \in [Workers -> SUBSET Nat]
        /\ late \subseteq [task : Tasks, stage : {"ok", "error"}]
        /\ attempts \in [Tasks -> Nat] /\ failures \in 0..MaxFailures
    BY <2>2 DEF Init
  <2>7. job \in [Workers -> [Threads -> [stage : {"pop", "done"} \cup Holding, task : Tasks]]]
    BY <2>1 DEF Init
  <2>8. QED
    BY <2>3, <2>4, <2>5, <2>6, <2>7 DEF TypeOK
<1>4. Single /\ Apart
  BY <1>1, <1>2 DEF Single, Apart
<1>5. Stated /\ Counted
  BY <1>1, <1>2 DEF Stated, Counted, LimitsAssumption
<1>6. QED
  BY <1>3, <1>4, <1>5 DEF IInv, Placed

-------------------------------------------------------------------------------
(* Steps that bring nothing to any place: what the workers say of          *)
(* themselves, how they end, and a run that ends.                          *)

\* No thread takes up a task, no queue grows.
NothingNew ==
  /\ taskVars' = taskVars /\ attempts' = attempts /\ late' = late
  /\ \A w \in Workers : queue'[w] = queue[w] \/ queue'[w] = <<>>
  /\ \A w \in Workers : \A k \in Threads :
       job'[w][k].stage \in Holding => Holds(w, k) /\ job'[w][k].task = job[w][k].task

LEMMA NothingNewKeeps == ASSUME IInv, NothingNew PROVE Placed'
<1>1. /\ status' = status /\ assigned' = assigned /\ retries' = retries /\ pending' = pending
      /\ attempts' = attempts /\ late' = late
  BY DEF NothingNew, taskVars
<1>2. /\ \A w \in Workers : \A k \in Threads :
           Holds(w, k)' => Holds(w, k) /\ job'[w][k].task = job[w][k].task
      /\ \A w \in Workers, t \in Tasks : InThread(w, t)' => InThread(w, t)
  BY DEF NothingNew, Holds, InThread
<1>3. \A w \in Workers : \A i \in 1..Len(queue'[w]) : i \in 1..Len(queue[w]) /\ queue'[w][i] = queue[w][i]
  BY DEF NothingNew
<1>4. \A w \in Workers, t \in Tasks : Queued(w, t)' => Queued(w, t)
  BY <1>3 DEF Queued
<1>5. \A t \in Tasks : (Waiting(t)' <=> Waiting(t)) /\ (IsLate(t)' <=> IsLate(t))
  BY <1>1 DEF Waiting, IsLate
<1>6. Single'
  BY <1>1, <1>2, <1>3 DEF IInv, Placed, Single
<1>7. Apart' /\ Stated'
  BY <1>1, <1>2, <1>4, <1>5 DEF IInv, Placed, Apart, Stated
<1>8. Counted'
  BY <1>1, <1>2, <1>4, <1>5 DEF IInv, Placed, Counted
<1>9. QED
  BY <1>6, <1>7, <1>8 DEF Placed

Jobs == [Threads -> [stage : {"pop", "done"} \cup Holding, task : Tasks]]

LEMMA InfoKeeps ==
  ASSUME LimitsAssumption, IInv, NEW w \in Workers, Register(w) \/ Beat(w) \/ Expire(w)
  PROVE  IInv'
<1>1. /\ taskVars' = taskVars /\ queue' = queue /\ job' = job /\ late' = late /\ attempts' = attempts
  BY DEF Register, Beat, SendHeartbeat, ProcessHeartbeat, Expire, infoVars, workerVars, messageVars
<1>2. NothingNew
  BY <1>1 DEF NothingNew, Holds
<1>3. TypeOK'
  <2>1. known' \subseteq Workers /\ process' \in [Workers -> {"new", "up", "stopped", "down"}]
    <3>1. CASE Register(w)
      BY <3>1 DEF IInv, TypeOK, Register
    <3>2. CASE Beat(w) \/ Expire(w)
      <4>1. known' = known /\ process' = process
        BY <3>2 DEF Beat, SendHeartbeat, ProcessHeartbeat, Expire, infoVars, workerVars
      <4>2. QED
        BY <4>1 DEF IInv, TypeOK
    <3>3. QED
      BY <3>1, <3>2
  <2>2. current' \in [Workers -> Int] /\ heartbeat' \in [Workers -> SUBSET Nat]
    <3>1. \A n \in heartbeat[w] : n \in Nat
      BY DEF IInv, TypeOK
    <3>2. CASE Register(w) \/ Expire(w)
      BY <3>2 DEF IInv, TypeOK, Register, Expire, messageVars
    <3>3. CASE SendHeartbeat(w)
      BY <3>3 DEF IInv, TypeOK, SendHeartbeat, infoVars
    <3>4. CASE ProcessHeartbeat(w)
      BY <3>1, <3>4 DEF IInv, TypeOK, ProcessHeartbeat
    <3>5. QED
      BY <3>2, <3>3, <3>4 DEF Beat
  <2>3. available' \in [Workers -> BOOLEAN] /\ alive' \in [Workers -> BOOLEAN]
    <3>1. CASE Register(w)
      BY <3>1 DEF IInv, TypeOK, Register
    <3>2. CASE Expire(w)
      BY <3>2 DEF IInv, TypeOK, Expire
    <3>3. CASE SendHeartbeat(w)
      BY <3>3 DEF IInv, TypeOK, SendHeartbeat, infoVars
    <3>4. CASE ProcessHeartbeat(w)
      <4>1. PICK n \in heartbeat[w] :
              \/ /\ alive' = [alive EXCEPT ![w] = TRUE]
                 /\ available' = [available EXCEPT ![w] = n < MaxConcurrent]
              \/ alive' = alive /\ available' = available
        BY <3>4 DEF ProcessHeartbeat
      <4>2. (n < MaxConcurrent) \in BOOLEAN
        OBVIOUS
      <4>3. available \in [Workers -> BOOLEAN] /\ alive \in [Workers -> BOOLEAN]
        BY DEF IInv, TypeOK
      <4>4. QED
        BY <4>1, <4>2, <4>3, Zenon
    <3>5. QED
      BY <3>1, <3>2, <3>3, <3>4 DEF Beat
  <2>4. failures' \in 0..MaxFailures
    BY DEF IInv, TypeOK, Register, Beat, SendHeartbeat, ProcessHeartbeat, Expire, Fail, LimitsAssumption
  <2>5. QED
    BY <1>1, <2>1, <2>2, <2>3, <2>4 DEF IInv, TypeOK, taskVars
<1>4. QED
  BY <1>2, <1>3, NothingNewKeeps DEF IInv

LEMMA EndingKeeps ==
  ASSUME TasksAssumption, LimitsAssumption, IInv, NEW w \in Workers,
         Stop(w) \/ Crash(w) \/ Restart(w) \/ \E k \in Threads : LeaveLoop(w, k) \/ Finish(w, k)
  PROVE  IInv'
<1>1. /\ taskVars' = taskVars /\ infoVars' = infoVars /\ messageVars' = messageVars /\ attempts' = attempts
  BY DEF Stop, Crash, Restart, LeaveLoop, Finish
<1>2. /\ job \in [Workers -> Jobs] /\ queue \in [Workers -> Seq(Tasks)]
      /\ process \in [Workers -> {"new", "up", "stopped", "down"}] /\ failures \in 0..MaxFailures
  BY DEF IInv, TypeOK, Jobs
<1>3. /\ Polling \in [stage : {"pop", "done"} \cup Holding, task : Tasks] /\ Polling.stage \notin Holding
      /\ Left \in [stage : {"pop", "done"} \cup Holding, task : Tasks] /\ Left.stage \notin Holding
  BY NoTaskIsTask DEF Polling, Left, Holding
<1>4. process' \in [Workers -> {"new", "up", "stopped", "down"}]
  BY <1>2 DEF Stop, Crash, Restart, LeaveLoop, Finish
<1>5. failures' \in 0..MaxFailures
  <2>1. failures' = failures \/ (failures < MaxFailures /\ failures' = failures + 1)
    BY DEF Stop, Crash, Restart, LeaveLoop, Finish, Fail
  <2>2. QED
    BY <1>2, <2>1 DEF LimitsAssumption
<1>6. /\ queue' \in [Workers -> Seq(Tasks)]
      /\ \A v \in Workers : queue'[v] = queue[v] \/ queue'[v] = <<>>
  <2>1. queue' = queue \/ queue' = [queue EXCEPT ![w] = <<>>]
    BY DEF Stop, Crash, Restart, LeaveLoop, Finish
  <2>2. QED
    BY <1>2, <2>1, EmptySeq
<1>7. /\ job' \in [Workers -> Jobs]
      /\ \A v \in Workers : \A k \in Threads :
           job'[v][k].stage \in Holding => Holds(v, k) /\ job'[v][k].task = job[v][k].task
  <2>1. CASE Stop(w)
    BY <1>2, <2>1 DEF Stop, Holds
  <2>2. CASE Crash(w) \/ Restart(w)
    <3>1. PICK idle \in {Polling, Left} : job' = [job EXCEPT ![w] = [k \in Threads |-> idle]]
      BY <2>2 DEF Crash, Restart
    <3>2. [k \in Threads |-> idle] \in Jobs
      BY <1>3, <3>1 DEF Jobs
    <3>3. QED
      BY <1>2, <1>3, <3>1, <3>2 DEF Holds
  <2>3. ASSUME NEW k \in Threads, LeaveLoop(w, k) \/ Finish(w, k)
        PROVE  /\ job' \in [Workers -> Jobs]
               /\ \A v \in Workers : \A l \in Threads :
                    job'[v][l].stage \in Holding => Holds(v, l) /\ job'[v][l].task = job[v][l].task
    <3>1. /\ job[w] \in [Threads -> [stage : {"pop", "done"} \cup Holding, task : Tasks]]
          /\ job[w][k] \in [stage : {"pop", "done"} \cup Holding, task : Tasks]
      BY <1>2 DEF Jobs
    <3>2. PICK j \in [stage : {"pop", "done"} \cup Holding, task : Tasks] :
            /\ job' = [job EXCEPT ![w] = [job[w] EXCEPT ![k] = j]]
            /\ j.stage \in Holding => Holds(w, k) /\ j.task = job[w][k].task
      <4>1. CASE LeaveLoop(w, k)
        BY <1>3, <4>1 DEF LeaveLoop
      <4>2. CASE Finish(w, k)
        <5>1. PICK outcome \in {"ok", "error"} :
                job' = [job EXCEPT ![w] = [job[w] EXCEPT ![k] = [job[w][k] EXCEPT !.stage = outcome]]]
          BY <4>2 DEF Finish
        <5>2. /\ [job[w][k] EXCEPT !.stage = outcome] \in [stage : {"pop", "done"} \cup Holding, task : Tasks]
              /\ [job[w][k] EXCEPT !.stage = outcome].task = job[w][k].task
          BY <3>1, <5>1 DEF Holding
        <5>3. Holds(w, k)
          BY <4>2 DEF Finish, Holds, Holding
        <5>4. QED
          BY <5>1, <5>2, <5>3
      <4>3. QED
        BY <2>3, <4>1, <4>2
    <3>3. [job[w] EXCEPT ![k] = j] \in Jobs
      BY <3>1, <3>2 DEF Jobs
    <3>4. job' \in [Workers -> Jobs]
      BY <1>2, <3>2, <3>3
    <3>5. ASSUME NEW v \in Workers, NEW l \in Threads, job'[v][l].stage \in Holding
          PROVE  Holds(v, l) /\ job'[v][l].task = job[v][l].task
      <4>1. CASE v = w /\ l = k
        BY <1>2, <3>1, <3>2, <3>5, <4>1
      <4>2. CASE ~(v = w /\ l = k)
        <5>1. job'[v][l] = job[v][l]
          BY <1>2, <3>1, <3>2, <4>2
        <5>2. QED
          BY <3>5, <5>1 DEF Holds
      <4>3. QED
        BY <4>1, <4>2
    <3>6. QED
      BY <3>4, <3>5
  <2>4. QED
    BY <2>1, <2>2, <2>3
<1>8. TypeOK'
  BY <1>1, <1>4, <1>5, <1>6, <1>7 DEF IInv, TypeOK, Jobs, taskVars, infoVars, messageVars
<1>9. NothingNew
  BY <1>1, <1>6, <1>7 DEF NothingNew, messageVars
<1>10. QED
  BY <1>8, <1>9, NothingNewKeeps DEF IInv

-------------------------------------------------------------------------------
(* Steps that move a task.                                                 *)

\* An order of a finite set has all of it.
LEMMA OrderHitsAll ==
  ASSUME NEW S, IsFiniteSet(S), NEW s \in [1..Cardinality(S) -> S],
         \A i, j \in 1..Cardinality(S) : s[i] = s[j] => i = j
  PROVE  \A x \in S : \E i \in 1..Cardinality(S) : s[i] = x
<1> DEFINE n == Cardinality(S)
<1>1. n \in Nat
  BY FS_CardinalityType
<1>2. Cardinality(1..n) = n
  <2>1. 1 \in Int /\ n \in Int /\ (IF 1 > n THEN 0 ELSE n - 1 + 1) = n
    BY <1>1
  <2> HIDE DEF n
  <2>2. QED
    BY <2>1, FS_Interval
<1>3. s \in Injection(1..n, S)
  BY DEF Injection, IsInjective
<1>4. s \in Surjection(1..n, S)
  BY <1>2, <1>3, FS_Injection
<1>5. QED
  BY <1>4 DEF Surjection

LEMMA SubmitKeeps ==
  ASSUME TasksAssumption, LimitsAssumption, IInv, NEW b \in Batches, Submit(b)
  PROVE  IInv'
<1> DEFINE n == Cardinality(b)
           Entry == [task : Tasks, retries : 0..MaxRetries-1]
<1> PICK s \in Orders(b) : pending' = pending \o [i \in 1..n |-> [task |-> s[i], retries |-> 0]]
  BY DEF Submit
<1> DEFINE copies == [i \in 1..n |-> [task |-> s[i], retries |-> 0]]
<1>0. n \in Nat /\ b \subseteq Tasks /\ IsFiniteSet(b)
  BY FS_CardinalityType DEF TasksAssumption
<1>1. /\ n \in Nat /\ MaxRetries \in Nat \ {0}
      /\ \A i, j \in 1..n : s[i] = s[j] => i = j
      /\ \A t \in Tasks : t \in b <=> \E i \in 1..n : s[i] = t
      /\ \A i \in 1..n : s[i] \in b /\ s[i] \in Tasks
      /\ \A t \in b : t \in Tasks
  <2>1. s \in [1..n -> b] /\ \A i, j \in 1..n : s[i] = s[j] => i = j
    BY DEF Orders, IsInjective
  <2>2. \A t \in b : \E i \in 1..n : s[i] = t
    BY <1>0, <2>1, OrderHitsAll
  <2>3. MaxRetries \in Nat \ {0}
    BY DEF LimitsAssumption
  <2> HIDE DEF n
  <2>4. QED
    BY <1>0, <2>1, <2>2, <2>3
<1> HIDE DEF n
<1>2. /\ \A t \in b : status[t] = "Absent"
      /\ status' = [t \in Tasks |-> IF t \in b THEN "Pending" ELSE status[t]]
      /\ pending' = pending \o copies
      /\ assigned' = assigned /\ retries' = retries /\ results' = results
      /\ infoVars' = infoVars /\ process' = process /\ queue' = queue /\ job' = job
      /\ heartbeat' = heartbeat /\ late' = late /\ attempts' = attempts /\ failures' = failures
  BY DEF Submit, workerVars, messageVars
<1>3. pending \in Seq(Entry) /\ Len(pending) \in Nat
  BY DEF IInv, TypeOK
<1>4. copies \in Seq(Entry) /\ Len(copies) = n
  <2>1. \A i \in 1..n : [task |-> s[i], retries |-> 0] \in Entry
    BY <1>1
  <2>2. QED
    BY <1>1, <2>1
<1>5. \A i \in 1..n : copies[i].task = s[i] /\ copies[i].retries = 0
  OBVIOUS
<1> HIDE DEF copies, Entry
<1>6. /\ pending' \in Seq(Entry) /\ Len(pending') = Len(pending) + n
      /\ \A i \in 1..Len(pending) : pending'[i] = pending[i]
      /\ \A i \in 1..n :
           pending'[Len(pending) + i].task = s[i] /\ pending'[Len(pending) + i].retries = 0
  <2>1. \A i \in 1..Len(pending) + n :
           pending'[i] = IF i <= Len(pending) THEN pending[i] ELSE copies[i - Len(pending)]
    BY <1>2, <1>3, <1>4, ConcatProperties
  <2>2. pending' \in Seq(Entry) /\ Len(pending') = Len(pending) + n
    BY <1>2, <1>3, <1>4, ConcatProperties
  <2>3. \A i \in 1..Len(pending) : pending'[i] = pending[i]
    BY <1>1, <1>3, <2>1
  <2>4. \A i \in 1..n : pending'[Len(pending) + i] = copies[i]
    <3> TAKE i \in 1..n
    <3>1. /\ Len(pending) + i \in 1..Len(pending) + n /\ ~(Len(pending) + i <= Len(pending))
          /\ (Len(pending) + i) - Len(pending) = i
      BY <1>1, <1>3
    <3>2. QED
      BY <2>1, <3>1
  <2>5. QED
    BY <1>5, <2>2, <2>3, <2>4
<1>7. \A i \in 1..Len(pending') :
         i \in 1..Len(pending) \/ \E j \in 1..n : i = Len(pending) + j
  <2> TAKE i \in 1..Len(pending')
  <2>1. CASE i <= Len(pending)
    BY <1>1, <1>3, <1>6, <2>1
  <2>2. CASE i > Len(pending)
    <3>1. i - Len(pending) \in 1..n /\ i = Len(pending) + (i - Len(pending))
      BY <1>1, <1>3, <1>6, <2>2
    <3>2. QED
      BY <3>1
  <2>3. QED
    BY <1>1, <1>3, <1>6, <2>1, <2>2
<1>8. \A i \in 1..Len(pending) : pending[i].task \in Tasks
  <2>1. \A i \in 1..Len(pending) : pending[i] \in Entry
    BY <1>3, ElementOfSeq
  <2>2. QED
    BY <2>1 DEF Entry
<1>9. \A t \in Tasks : Waiting(t)' <=> Waiting(t) \/ t \in b
  <2> TAKE t \in Tasks
  <2>1. Waiting(t)' => Waiting(t) \/ t \in b
    <3>1. SUFFICES ASSUME NEW i \in 1..Len(pending'), pending'[i].task = t
                   PROVE  Waiting(t) \/ t \in b
      BY DEF Waiting
    <3>2. CASE i \in 1..Len(pending)
      BY <1>6, <3>1, <3>2 DEF Waiting
    <3>3. ASSUME NEW j \in 1..n, i = Len(pending) + j PROVE t \in b
      BY <1>1, <1>6, <3>1, <3>3
    <3>4. QED
      BY <1>7, <3>2, <3>3
  <2>2. Waiting(t) => Waiting(t)'
    BY <1>1, <1>3, <1>6 DEF Waiting
  <2>3. t \in b => Waiting(t)'
    <3>1. SUFFICES ASSUME NEW i \in 1..n, s[i] = t PROVE Waiting(t)'
      BY <1>1
    <3>2. Len(pending) + i \in 1..Len(pending')
      BY <1>1, <1>3, <1>6
    <3>3. QED
      BY <1>6, <3>1, <3>2 DEF Waiting
  <2>4. QED
    BY <2>1, <2>2, <2>3
<1>10. /\ \A w \in Workers, t \in Tasks : (Queued(w, t)' <=> Queued(w, t)) /\ (InThread(w, t)' <=> InThread(w, t))
       /\ \A t \in Tasks : IsLate(t)' <=> IsLate(t)
       /\ \A w \in Workers, k \in Threads : Holds(w, k)' <=> Holds(w, k)
  BY <1>2 DEF Queued, InThread, IsLate, Holds
<1>11. TypeOK'
  <2>1. /\ status' \in [Tasks -> {"Absent", "Pending", "Running", "Completed", "Failed"}]
        /\ results' = {t \in Tasks : status'[t] = "Completed"}
    <3>1. \A t \in Tasks : status'[t] = "Completed" <=> status[t] = "Completed"
      BY <1>2
    <3>2. QED
      BY <1>2, <3>1 DEF IInv, TypeOK
  <2>2. QED
    BY <1>2, <1>6, <2>1 DEF IInv, TypeOK, infoVars, Entry
<1>12. Single'
  <2>1. ASSUME NEW i \in 1..Len(pending'), NEW j \in 1..Len(pending'),
               pending'[i].task = pending'[j].task
        PROVE  i = j
    <3>1. ASSUME NEW x \in 1..Len(pending), NEW y \in 1..n
          PROVE  pending'[x].task # pending'[Len(pending) + y].task
      <4>1. Waiting(pending[x].task) /\ status[pending[x].task] = "Pending"
        BY <1>8 DEF IInv, Placed, Stated, Waiting
      <4>2. s[y] \in b /\ status[s[y]] = "Absent"
        BY <1>1, <1>2
      <4>3. QED
        BY <1>6, <4>1, <4>2
    <3>2. CASE i \in 1..Len(pending) /\ j \in 1..Len(pending)
      BY <1>6, <2>1, <3>2 DEF IInv, Placed, Single
    <3>3. ASSUME NEW x \in 1..n, NEW y \in 1..n,
                 i = Len(pending) + x, j = Len(pending) + y
          PROVE  i = j
      BY <1>1, <1>6, <2>1, <3>3
    <3>4. QED
      BY <1>7, <2>1, <3>1, <3>2, <3>3
  <2>2. QED
    BY <1>2, <1>10, <2>1 DEF IInv, Placed, Single
<1>13. Apart'
  BY <1>10 DEF IInv, Placed, Apart
<1>14. Stated'
  BY <1>1, <1>2, <1>9, <1>10 DEF IInv, Placed, Stated
<1>15. Counted'
  <2>1. \A t \in b : t \in Tasks /\ attempts[t] = 0 /\ retries[t] = 0
    <3>1. \A t \in Tasks : status[t] = "Absent" => attempts[t] = 0 /\ retries[t] = 0
      BY DEF IInv, Placed, Counted
    <3>2. QED
      BY <1>1, <1>2, <3>1
  <2>2. ASSUME NEW i \in 1..Len(pending') PROVE pending'[i].retries = retries[pending'[i].task]
    <3>1. CASE i \in 1..Len(pending)
      BY <1>6, <3>1 DEF IInv, Placed, Counted
    <3>2. ASSUME NEW j \in 1..n, i = Len(pending) + j
          PROVE  pending'[i].retries = retries[pending'[i].task]
      <4>1. pending'[i].task = s[j] /\ pending'[i].retries = 0 /\ s[j] \in b
        BY <1>1, <1>6, <3>2
      <4>2. QED
        BY <2>1, <4>1
    <3>3. QED
      BY <1>7, <3>1, <3>2
  <2>3. QED
    BY <1>1, <1>2, <1>10, <2>1, <2>2 DEF IInv, Placed, Counted
<1>16. QED
  BY <1>11, <1>12, <1>13, <1>14, <1>15 DEF IInv, Placed

Job == [stage : {"pop", "done"} \cup Holding, task : Tasks]

\* One thread turns to something else.
LEMMA OneJobChanges ==
  ASSUME NEW old \in Jobs, NEW k \in Threads, NEW j \in Job
  PROVE  /\ [old EXCEPT ![k] = j] \in Jobs
         /\ [old EXCEPT ![k] = j][k] = j
         /\ \A l \in Threads : l # k => [old EXCEPT ![k] = j][l] = old[l]
BY DEF Jobs, Job

LEMMA TakeKeeps ==
  ASSUME LimitsAssumption, IInv, NEW w \in Workers, NEW k \in Threads, Take(w, k)
  PROVE  IInv'
<1> DEFINE t == queue[w][1]
           j == [stage |-> "run", task |-> t]
<1>1. /\ job[w][k].stage = "pop" /\ queue[w] # <<>> /\ queue[w] \in Seq(Tasks)
      /\ queue \in [Workers -> Seq(Tasks)] /\ job \in [Workers -> Jobs] /\ attempts \in [Tasks -> Nat]
  BY DEF Take, IInv, TypeOK, Jobs
<1>2. Head(queue[w]) = t /\ t \in Tasks /\ 1 \in 1..Len(queue[w]) /\ Len(queue[w]) \in Nat
  BY <1>1, EmptySeq
<1>3. /\ job' = [job EXCEPT ![w] = [job[w] EXCEPT ![k] = j]]
      /\ queue' = [queue EXCEPT ![w] = Tail(queue[w])]
      /\ attempts' = [attempts EXCEPT ![t] = attempts[t] + 1]
      /\ status' = status /\ assigned' = assigned /\ retries' = retries /\ pending' = pending
      /\ results' = results /\ infoVars' = infoVars /\ process' = process /\ heartbeat' = heartbeat
      /\ late' = late /\ failures' = failures
  BY <1>2 DEF Take, taskVars, messageVars
<1>4. /\ Tail(queue[w]) \in Seq(Tasks) /\ Len(Tail(queue[w])) = Len(queue[w]) - 1
      /\ \A i \in 1..Len(Tail(queue[w])) : Tail(queue[w])[i] = queue[w][i + 1]
  BY <1>1, HeadTailProperties
<1>5. /\ queue' \in [Workers -> Seq(Tasks)]
      /\ Len(queue'[w]) = Len(queue[w]) - 1
      /\ \A i \in 1..Len(queue'[w]) : queue'[w][i] = queue[w][i + 1] /\ i + 1 \in 1..Len(queue[w]) /\ i + 1 # 1
      /\ \A v \in Workers : v # w => queue'[v] = queue[v]
  <2>1. queue'[w] = Tail(queue[w]) /\ queue' \in [Workers -> Seq(Tasks)]
        /\ \A v \in Workers : v # w => queue'[v] = queue[v]
    BY <1>1, <1>3, <1>4
  <2>2. \A i \in 1..Len(queue[w]) - 1 : i + 1 \in 1..Len(queue[w]) /\ i + 1 # 1
    BY <1>2
  <2>3. QED
    BY <1>4, <2>1, <2>2
<1>6. j \in Job /\ j.stage = "run" /\ j.task = t
  BY <1>2 DEF Job, Holding
<1> HIDE DEF j
<1>7. /\ job' \in [Workers -> Jobs] /\ job'[w][k] = j
      /\ \A v \in Workers, l \in Threads : v # w \/ l # k => job'[v][l] = job[v][l]
  <2>1. job[w] \in Jobs
    BY <1>1
  <2>2. /\ [job[w] EXCEPT ![k] = j] \in Jobs
        /\ [job[w] EXCEPT ![k] = j][k] = j
        /\ \A l \in Threads : l # k => [job[w] EXCEPT ![k] = j][l] = job[w][l]
    BY <1>6, <2>1, OneJobChanges
  <2>3. QED
    BY <1>1, <1>3, <2>2
<1>8. Queued(w, t)
  BY <1>2 DEF Queued
<1> HIDE DEF t
<1>9. /\ status[t] = "Running" /\ assigned[t] = {w} /\ attempts[t] = retries[t]
      /\ retries[t] < MaxRetries /\ ~InThread(w, t) /\ ~IsLate(t)
      /\ \A v \in Workers : v # w => ~Queued(v, t) /\ ~InThread(v, t)
  <2>1. status[t] = "Running" /\ assigned[t] = {w}
    BY <1>2, <1>8 DEF IInv, Placed, Stated
  <2>2. attempts[t] = retries[t] /\ retries[t] < MaxRetries
    BY <1>2, <1>8, <2>1 DEF IInv, Placed, Counted
  <2>3. ~InThread(w, t) /\ ~IsLate(t)
    BY <1>2, <1>8 DEF IInv, Placed, Apart
  <2>4. \A v \in Workers : Queued(v, t) \/ InThread(v, t) => assigned[t] = {v}
    BY <1>2 DEF IInv, Placed, Stated
  <2>5. QED
    BY <2>1, <2>2, <2>3, <2>4
<1>10. /\ \A v \in Workers, u \in Tasks : v # w => (Queued(v, u)' <=> Queued(v, u)) /\ (InThread(v, u)' <=> InThread(v, u))
       /\ \A u \in Tasks : Queued(w, u)' => Queued(w, u) /\ u # t
       /\ \A u \in Tasks : InThread(w, u)' => u = t \/ InThread(w, u)
       /\ \A u \in Tasks : (IsLate(u)' <=> IsLate(u)) /\ (Waiting(u)' <=> Waiting(u))
  <2>1. \A v \in Workers, u \in Tasks : v # w => (Queued(v, u)' <=> Queued(v, u)) /\ (InThread(v, u)' <=> InThread(v, u))
    BY <1>5, <1>7 DEF Queued, InThread, Holds
  <2>2. \A u \in Tasks : Queued(w, u)' => Queued(w, u)
    BY <1>5 DEF Queued
  <2>3. \A u \in Tasks : Queued(w, u)' => u # t
    <3>1. \A i \in 1..Len(queue[w]) : queue[w][i] = t => i = 1
      BY <1>2 DEF IInv, Placed, Single, t
    <3>2. \A i \in 1..Len(queue'[w]) : queue'[w][i] # t
      BY <1>5, <3>1
    <3>3. QED
      BY <3>2 DEF Queued
  <2>4. \A u \in Tasks : InThread(w, u)' => u = t \/ InThread(w, u)
    BY <1>6, <1>7 DEF InThread, Holds
  <2>5. \A u \in Tasks : (IsLate(u)' <=> IsLate(u)) /\ (Waiting(u)' <=> Waiting(u))
    BY <1>3 DEF IsLate, Waiting
  <2>6. QED
    BY <2>1, <2>2, <2>3, <2>4, <2>5
<1>11. TypeOK'
  <2>1. attempts' \in [Tasks -> Nat]
    BY <1>1, <1>2, <1>3
  <2>2. QED
    BY <1>3, <1>5, <1>7, <2>1 DEF IInv, TypeOK, Jobs, infoVars
<1>12. Single'
  <2>1. \A v \in Workers : \A x, y \in 1..Len(queue'[v]) : queue'[v][x] = queue'[v][y] => x = y
    <3> TAKE v \in Workers
    <3>1. CASE v = w
      <4>1. \A x, y \in 1..Len(queue[w]) : queue[w][x] = queue[w][y] => x = y
        BY DEF IInv, Placed, Single
      <4>2. QED
        BY <1>5, <3>1, <4>1
    <3>2. CASE v # w
      BY <1>5, <3>2 DEF IInv, Placed, Single
    <3>3. QED
      BY <3>1, <3>2
  <2>2. ASSUME NEW v \in Workers, NEW x \in Threads, NEW y \in Threads,
               Holds(v, x)', Holds(v, y)', job'[v][x].task = job'[v][y].task
        PROVE  x = y
    <3>1. CASE v = w /\ (x = k \/ y = k)
      BY <1>6, <1>7, <1>9, <2>2, <3>1 DEF InThread, Holds
    <3>2. CASE ~(v = w /\ (x = k \/ y = k))
      <4>1. job'[v][x] = job[v][x] /\ job'[v][y] = job[v][y]
        BY <1>7, <3>2
      <4>2. QED
        BY <2>2, <4>1 DEF IInv, Placed, Single, Holds
    <3>3. QED
      BY <3>1, <3>2
  <2>3. QED
    BY <1>3, <2>1, <2>2 DEF IInv, Placed, Single
<1>13. Apart'
  BY <1>9, <1>10 DEF IInv, Placed, Apart
<1>14. Stated'
  BY <1>3, <1>9, <1>10 DEF IInv, Placed, Stated
<1>15. Counted'
  <2>1. attempts'[t] = attempts[t] + 1 /\ \A u \in Tasks : u # t => attempts'[u] = attempts[u]
    BY <1>1, <1>2, <1>3
  <2>2. attempts'[t] <= MaxRetries /\ attempts'[t] = retries[t] + 1
    <3>1. retries[t] \in Nat /\ MaxRetries \in Int
      BY <1>2, <1>9 DEF IInv, TypeOK, LimitsAssumption
    <3>2. QED
      BY <1>9, <2>1, <3>1
  <2>3. \A u \in Tasks :
          /\ attempts'[u] <= MaxRetries
          /\ status[u] = "Absent" => attempts'[u] = 0 /\ retries[u] = 0
          /\ status[u] = "Pending" => attempts'[u] = retries[u]
          /\ status[u] = "Failed" => attempts'[u] = MaxRetries
          /\ IsLate(u) => attempts'[u] = retries[u] + 1
    BY <1>9, <2>1, <2>2 DEF IInv, Placed, Counted
  <2>4. \A v \in Workers, u \in Tasks :
           /\ Queued(v, u)' => attempts'[u] = retries[u]
           /\ InThread(v, u)' => attempts'[u] = retries[u] + 1
    BY <1>9, <1>10, <2>1, <2>2 DEF IInv, Placed, Counted
  <2>5. /\ \A i \in 1..Len(pending) : pending[i].retries = retries[pending[i].task]
        /\ \A u \in Tasks : status[u] \in {"Pending", "Running"} => retries[u] < MaxRetries
    BY DEF IInv, Placed, Counted
  <2>6. \A u \in Tasks :
          /\ attempts'[u] <= MaxRetries
          /\ status'[u] = "Absent" => attempts'[u] = 0 /\ retries'[u] = 0
          /\ status'[u] = "Pending" => attempts'[u] = retries'[u]
          /\ status'[u] \in {"Pending", "Running"} => retries'[u] < MaxRetries
          /\ status'[u] = "Failed" => attempts'[u] = MaxRetries
          /\ IsLate(u)' => attempts'[u] = retries'[u] + 1
    BY <1>3, <1>10, <2>3, <2>5
  <2>7. \A i \in 1..Len(pending') : pending'[i].retries = retries'[pending'[i].task]
    BY <1>3, <2>5
  <2>8. \A v \in Workers, u \in Tasks :
           /\ Queued(v, u)' => attempts'[u] = retries'[u]
           /\ InThread(v, u)' => attempts'[u] = retries'[u] + 1
    BY <1>3, <2>4
  <2>9. QED
    BY <2>6, <2>7, <2>8 DEF Counted
<1>16. QED
  BY <1>11, <1>12, <1>13, <1>14, <1>15 DEF IInv, Placed

LEMMA ReturnIdles ==
  ASSUME TasksAssumption, IInv, NEW w \in Workers, NEW k \in Threads, Return(w, k)
  PROVE  /\ job' \in [Workers -> Jobs] /\ job'[w][k].stage \notin Holding
         /\ \A v \in Workers, l \in Threads : v # w \/ l # k => job'[v][l] = job[v][l]
<1>1. PICK j \in {Left, Polling} : job' = [job EXCEPT ![w] = [job[w] EXCEPT ![k] = j]]
  BY DEF Return
<1>2. j \in Job /\ j.stage \notin Holding
  BY <1>1, NoTaskIsTask DEF Left, Polling, Job, Holding
<1>3. job \in [Workers -> Jobs] /\ job[w] \in Jobs
  BY DEF IInv, TypeOK, Jobs
<1>4. /\ [job[w] EXCEPT ![k] = j] \in Jobs
      /\ [job[w] EXCEPT ![k] = j][k] = j
      /\ \A l \in Threads : l # k => [job[w] EXCEPT ![k] = j][l] = job[w][l]
  BY <1>2, <1>3, OneJobChanges
<1>5. QED
  BY <1>1, <1>2, <1>3, <1>4

\* What is known of a task whose run has ended.
LEMMA InOneThread ==
  ASSUME IInv, NEW w \in Workers, NEW k \in Threads, job[w][k].stage \in {"ok", "error"}
  PROVE  LET t == job[w][k].task IN
         /\ t \in Tasks /\ status[t] = "Running" /\ attempts[t] = retries[t] + 1
         /\ retries[t] < MaxRetries /\ ~IsLate(t)
         /\ \A v \in Workers : ~Queued(v, t)
         /\ \A v \in Workers, l \in Threads :
              Holds(v, l) /\ job[v][l].task = t => v = w /\ l = k
<1> DEFINE t == job[w][k].task
<1>1. t \in Tasks
  <2>1. job[w][k] \in [stage : {"pop", "done"} \cup Holding, task : Tasks]
    BY DEF IInv, TypeOK
  <2>2. QED
    BY <2>1
<1>2. Holds(w, k)
  BY DEF Holds, Holding
<1>3. InThread(w, t)
  BY <1>2 DEF InThread
<1>4. \A l \in Threads : Holds(w, l) /\ job[w][l].task = t => l = k
  BY <1>2 DEF IInv, Placed, Single
<1> HIDE DEF t
<1>5. status[t] = "Running" /\ assigned[t] = {w}
  BY <1>1, <1>3 DEF IInv, Placed, Stated
<1>6. attempts[t] = retries[t] + 1 /\ retries[t] < MaxRetries
  BY <1>1, <1>3, <1>5 DEF IInv, Placed, Counted
<1>7. ~Queued(w, t) /\ ~IsLate(t)
  BY <1>1, <1>3 DEF IInv, Placed, Apart
<1>8. \A v \in Workers : Queued(v, t) \/ InThread(v, t) => assigned[t] = {v}
  BY <1>1 DEF IInv, Placed, Stated
<1>9. \A v \in Workers : Queued(v, t) \/ InThread(v, t) => v = w
  BY <1>5, <1>8
<1>10. \A v \in Workers, l \in Threads : Holds(v, l) /\ job[v][l].task = t => v = w /\ l = k
  BY <1>4, <1>9 DEF InThread
<1>11. QED
  BY <1>1, <1>5, <1>6, <1>7, <1>9, <1>10 DEF t

LEMMA TimeOutKeeps ==
  ASSUME TasksAssumption, LimitsAssumption, IInv, NEW w \in Workers, NEW k \in Threads, TimeOut(w, k)
  PROVE  IInv'
<1> DEFINE t == job[w][k].task
<1>1. /\ job[w][k].stage \in {"ok", "error"} /\ late' = late \cup {job[w][k]}
      /\ status' = status /\ assigned' = assigned /\ retries' = retries /\ pending' = pending
      /\ results' = results /\ infoVars' = infoVars /\ process' = process /\ queue' = queue
      /\ heartbeat' = heartbeat /\ attempts' = attempts
      /\ failures < MaxFailures /\ failures' = failures + 1
  BY DEF TimeOut, Fail, taskVars
<1>2. /\ t \in Tasks /\ status[t] = "Running" /\ attempts[t] = retries[t] + 1
      /\ retries[t] < MaxRetries /\ ~IsLate(t)
      /\ \A v \in Workers : ~Queued(v, t)
      /\ \A v \in Workers, l \in Threads :
           Holds(v, l) /\ job[v][l].task = t => v = w /\ l = k
  BY <1>1, InOneThread
<1>3. /\ job' \in [Workers -> Jobs] /\ job'[w][k].stage \notin Holding
      /\ \A v \in Workers, l \in Threads : v # w \/ l # k => job'[v][l] = job[v][l]
  BY ReturnIdles DEF TimeOut
<1>4. job[w][k].task = t /\ job[w][k] \in [task : Tasks, stage : {"ok", "error"}]
  <2>1. job[w][k] \in [stage : {"pop", "done"} \cup Holding, task : Tasks]
    BY DEF IInv, TypeOK
  <2>2. QED
    BY <1>1, <2>1
<1> HIDE DEF t
<1>5. \A v \in Workers, l \in Threads :
         Holds(v, l)' => Holds(v, l) /\ job'[v][l].task = job[v][l].task /\ job[v][l].task # t
  BY <1>2, <1>3 DEF Holds
<1>6. /\ \A v \in Workers, u \in Tasks : InThread(v, u)' => InThread(v, u) /\ u # t
      /\ \A v \in Workers, u \in Tasks : (Queued(v, u)' <=> Queued(v, u)) /\ (Queued(v, u) => u # t)
      /\ \A u \in Tasks : IsLate(u)' <=> IsLate(u) \/ u = t
      /\ \A u \in Tasks : Waiting(u)' <=> Waiting(u)
  <2>1. \A v \in Workers, u \in Tasks : InThread(v, u)' => InThread(v, u) /\ u # t
    BY <1>5 DEF InThread
  <2>2. \A v \in Workers, u \in Tasks : (Queued(v, u)' <=> Queued(v, u)) /\ (Queued(v, u) => u # t)
    BY <1>1, <1>2 DEF Queued
  <2>3. \A u \in Tasks : IsLate(u)' <=> IsLate(u) \/ u = t
    BY <1>1, <1>4 DEF IsLate
  <2>4. \A u \in Tasks : Waiting(u)' <=> Waiting(u)
    BY <1>1 DEF Waiting
  <2>5. QED
    BY <2>1, <2>2, <2>3, <2>4
<1>7. TypeOK'
  <2>1. failures' \in 0..MaxFailures
    BY <1>1 DEF IInv, TypeOK, LimitsAssumption
  <2>2. late' \subseteq [task : Tasks, stage : {"ok", "error"}]
    BY <1>1, <1>4 DEF IInv, TypeOK
  <2>3. QED
    BY <1>1, <1>3, <2>1, <2>2 DEF IInv, TypeOK, Jobs, infoVars
<1>8. Single'
  <2>1. \A r, s \in late' : r.task = s.task => r = s
    BY <1>1, <1>2, <1>4 DEF IInv, Placed, Single, IsLate
  <2>2. QED
    BY <1>1, <1>5, <2>1 DEF IInv, Placed, Single
<1>9. Apart'
  BY <1>6 DEF IInv, Placed, Apart
<1>10. Stated'
  BY <1>1, <1>2, <1>6 DEF IInv, Placed, Stated
<1>11. Counted'
  BY <1>1, <1>2, <1>6 DEF IInv, Placed, Counted
<1>12. QED
  BY <1>7, <1>8, <1>9, <1>10, <1>11 DEF IInv, Placed

\* A result is handled whose task is held nowhere any more.
LEMMA ResultKeeps ==
  ASSUME LimitsAssumption, IInv, NEW t \in Tasks, NEW outcome \in {"ok", "error"},
         HandleResult(t, outcome),
         status[t] = "Running", attempts[t] = retries[t] + 1, retries[t] < MaxRetries,
         \A v \in Workers : ~Queued(v, t),
         job' \in [Workers -> Jobs],
         \A v \in Workers, l \in Threads : Holds(v, l)' =>
           Holds(v, l) /\ job'[v][l].task = job[v][l].task /\ job[v][l].task # t,
         late' \subseteq late, \A r \in late' : r.task # t
  PROVE  IInv'
<1> DEFINE Entry == [task : Tasks, retries : 0..MaxRetries-1]
           again == [task |-> t, retries |-> retries[t] + 1]
<1>1. /\ assigned' = assigned /\ known' = known /\ alive' = alive /\ process' = process
      /\ queue' = queue /\ heartbeat' = heartbeat /\ attempts' = attempts /\ failures' = failures
  BY DEF HandleResult
<1>2. /\ retries[t] \in Nat /\ MaxRetries \in Nat \ {0}
      /\ status \in [Tasks -> {"Absent", "Pending", "Running", "Completed", "Failed"}]
      /\ retries \in [Tasks -> 0..MaxRetries]
      /\ pending \in Seq(Entry) /\ Len(pending) \in Nat
      /\ results = {u \in Tasks : status[u] = "Completed"}
  BY DEF IInv, TypeOK, LimitsAssumption
<1>3. /\ \A u \in Tasks : u # t => status'[u] = status[u] /\ retries'[u] = retries[u]
      /\ \/ /\ outcome = "ok" /\ status'[t] = "Completed" /\ retries'[t] = retries[t]
            /\ pending' = pending /\ results' = results \cup {t}
         \/ /\ GiveUp(t) /\ status'[t] = "Failed" /\ retries'[t] = retries[t] + 1
            /\ pending' = pending /\ results' = results
         \/ /\ ~GiveUp(t) /\ status'[t] = "Pending" /\ retries'[t] = retries[t] + 1
            /\ pending' = Append(pending, again) /\ results' = results
      /\ DOMAIN status' = Tasks /\ DOMAIN retries' = Tasks
  <2>1. CASE outcome = "ok"
    BY <1>2, <2>1 DEF HandleResult
  <2>2. CASE outcome = "error"
    BY <1>2, <2>2 DEF HandleResult, Requeued
  <2>3. QED
    BY <2>1, <2>2
<1>4. \/ status'[t] \in {"Completed", "Failed"} /\ pending' = pending
      \/ status'[t] = "Pending" /\ pending' = Append(pending, again)
  BY <1>3
<1>5. GiveUp(t) <=> retries[t] + 1 = MaxRetries
  BY <1>2 DEF GiveUp
<1>6. ~Waiting(t)
  BY DEF IInv, Placed, Stated
<1>7. \A i \in 1..Len(pending) : pending[i] \in Entry /\ pending[i].task \in Tasks /\ pending[i].task # t
  <2>1. \A i \in 1..Len(pending) : pending[i] \in Entry
    BY <1>2, ElementOfSeq
  <2>2. QED
    BY <1>6, <2>1 DEF Waiting, Entry
<1>8. /\ \A v \in Workers, u \in Tasks : InThread(v, u)' => InThread(v, u) /\ u # t
      /\ \A v \in Workers, u \in Tasks : (Queued(v, u)' <=> Queued(v, u)) /\ (Queued(v, u) => u # t)
      /\ \A u \in Tasks : IsLate(u)' => IsLate(u) /\ u # t
  <2>1. \A v \in Workers, u \in Tasks : InThread(v, u)' => InThread(v, u) /\ u # t
    BY DEF InThread
  <2>2. \A v \in Workers, u \in Tasks : (Queued(v, u)' <=> Queued(v, u)) /\ (Queued(v, u) => u # t)
    BY <1>1 DEF Queued
  <2>3. \A u \in Tasks : IsLate(u)' => IsLate(u) /\ u # t
    BY DEF IsLate
  <2>4. QED
    BY <2>1, <2>2, <2>3
<1>9. /\ pending' \in Seq(Entry)
      /\ \A i, j \in 1..Len(pending') : pending'[i].task = pending'[j].task => i = j
      /\ \A i \in 1..Len(pending') : pending'[i].retries = retries'[pending'[i].task]
      /\ \A u \in Tasks : u # t => (Waiting(u)' <=> Waiting(u))
      /\ Waiting(t)' <=> status'[t] = "Pending"
  <2>1. CASE pending' = pending
    <3>1. pending' \in Seq(Entry) /\ \A u \in Tasks : Waiting(u)' <=> Waiting(u)
      BY <1>2, <2>1 DEF Waiting
    <3>2. \A i, j \in 1..Len(pending') : pending'[i].task = pending'[j].task => i = j
      BY <2>1 DEF IInv, Placed, Single
    <3>3. \A i \in 1..Len(pending') : pending'[i].retries = retries'[pending'[i].task]
      BY <1>3, <1>7, <2>1 DEF IInv, Placed, Counted
    <3>4. status'[t] # "Pending"
      <4>1. Append(pending, again) # pending
        <5>1. Len(Append(pending, again)) = Len(pending) + 1
          BY <1>2
        <5>2. QED
          BY <1>2, <5>1
      <4>2. QED
        BY <1>4, <2>1, <4>1
    <3>5. QED
      BY <1>6, <3>1, <3>2, <3>3, <3>4
  <2>2. CASE status'[t] = "Pending" /\ pending' = Append(pending, again)
    <3>1. again \in Entry /\ again.task = t /\ again.retries = retries'[t]
      BY <1>2, <1>3, <1>5, <2>2
    <3> HIDE DEF again
    <3>2. /\ pending' \in Seq(Entry) /\ Len(pending') = Len(pending) + 1
          /\ pending'[Len(pending) + 1] = again
          /\ \A i \in 1..Len(pending) : pending'[i] = pending[i]
      BY <1>2, <2>2, <3>1
    <3>3. \A i \in 1..Len(pending') : i \in 1..Len(pending) \/ i = Len(pending) + 1
      BY <1>2, <3>2
    <3>4. Len(pending) + 1 \in 1..Len(pending') /\ \A i \in 1..Len(pending) : i \in 1..Len(pending')
      BY <1>2, <3>2
    <3>5. \A i, j \in 1..Len(pending') : pending'[i].task = pending'[j].task => i = j
      <4>1. \A i, j \in 1..Len(pending) : pending[i].task = pending[j].task => i = j
        BY DEF IInv, Placed, Single
      <4>2. QED
        BY <1>7, <3>1, <3>2, <3>3, <4>1
    <3>6. \A i \in 1..Len(pending') : pending'[i].retries = retries'[pending'[i].task]
      <4>1. \A i \in 1..Len(pending) : pending[i].retries = retries[pending[i].task]
        BY DEF IInv, Placed, Counted
      <4>2. QED
        BY SMTT(60), <1>3, <1>7, <3>1, <3>2, <3>3, <4>1
    <3>7. \A u \in Tasks : u # t => (Waiting(u)' <=> Waiting(u))
      BY <3>1, <3>2, <3>3, <3>4 DEF Waiting
    <3>8. Waiting(t)'
      BY <3>1, <3>2, <3>4 DEF Waiting
    <3>9. QED
      BY <2>2, <3>2, <3>5, <3>6, <3>7, <3>8
  <2>3. QED
    BY <1>4, <2>1, <2>2
<1>10. /\ status' \in [Tasks -> {"Absent", "Pending", "Running", "Completed", "Failed"}]
       /\ retries' \in [Tasks -> 0..MaxRetries]
       /\ results' = {u \in Tasks : status'[u] = "Completed"}
  <2>1. \A u \in Tasks : retries'[u] \in 0..MaxRetries
    BY <1>2, <1>3
  <2>2. \E f, g : status' = [u \in Tasks |-> f[u]] /\ retries' = [u \in Tasks |-> g[u]]
    BY <1>2 DEF HandleResult
  <2>3. QED
    BY <1>2, <1>3, <2>1, <2>2
<1>11. TypeOK'
  <2>1. current' \in [Workers -> Int]
    BY DEF HandleResult, IInv, TypeOK
  <2>2. available' \in [Workers -> BOOLEAN]
    <3>1. available' = [v \in Workers |-> v \in assigned[t] \cap known \/ available[v]]
      BY DEF HandleResult
    <3>2. QED
      BY <3>1, Zenon
  <2>3. late' \subseteq [task : Tasks, stage : {"ok", "error"}]
    BY DEF IInv, TypeOK
  <2>4. QED
    BY <1>1, <1>9, <1>10, <2>1, <2>2, <2>3 DEF IInv, TypeOK, Jobs
<1>12. Single'
  BY ZenonT(60), <1>1, <1>9 DEF IInv, Placed, Single
<1>13. Apart'
  BY <1>8 DEF IInv, Placed, Apart
<1>14. Stated'
  <2>1. \A u \in Tasks : status'[u] = "Pending" <=> Waiting(u)'
    BY <1>3, <1>9 DEF IInv, Placed, Stated
  <2>2. \A v \in Workers, u \in Tasks :
          Queued(v, u)' \/ InThread(v, u)' => status'[u] = "Running" /\ assigned'[u] = {v}
    BY <1>1, <1>3, <1>8 DEF IInv, Placed, Stated
  <2>3. \A u \in Tasks : IsLate(u)' => status'[u] = "Running"
    BY <1>3, <1>8 DEF IInv, Placed, Stated
  <2>4. QED
    BY <2>1, <2>2, <2>3 DEF Stated
<1>15. Counted'
  <2>1. ASSUME NEW u \in Tasks
        PROVE  /\ attempts'[u] <= MaxRetries
               /\ status'[u] = "Absent" => attempts'[u] = 0 /\ retries'[u] = 0
               /\ status'[u] = "Pending" => attempts'[u] = retries'[u]
               /\ status'[u] \in {"Pending", "Running"} => retries'[u] < MaxRetries
               /\ status'[u] = "Failed" => attempts'[u] = MaxRetries
               /\ IsLate(u)' => attempts'[u] = retries'[u] + 1
    <3>1. CASE u # t
      BY <1>1, <1>3, <1>8, <3>1 DEF IInv, Placed, Counted
    <3>2. CASE u = t
      <4>1. attempts'[t] = retries[t] + 1 /\ attempts'[t] <= MaxRetries /\ ~IsLate(u)'
        BY <1>1, <1>2, <1>8, <3>2
      <4>2. QED
        BY <1>2, <1>3, <1>5, <3>2, <4>1
    <3>3. QED
      BY <3>1, <3>2
  <2>2. \A v \in Workers, u \in Tasks :
          /\ Queued(v, u)' => attempts'[u] = retries'[u]
          /\ InThread(v, u)' => attempts'[u] = retries'[u] + 1
    BY <1>1, <1>3, <1>8 DEF IInv, Placed, Counted
  <2>3. QED
    BY <1>9, <2>1, <2>2 DEF Counted
<1>16. QED
  BY <1>11, <1>12, <1>13, <1>14, <1>15 DEF IInv, Placed

LEMMA SendResultKeeps ==
  ASSUME TasksAssumption, LimitsAssumption, IInv, NEW w \in Workers, NEW k \in Threads, SendResult(w, k)
  PROVE  IInv'
<1> DEFINE t == job[w][k].task
<1>1. /\ job[w][k].stage \in {"ok", "error"} /\ HandleResult(t, job[w][k].stage) /\ late' = late
  BY DEF SendResult
<1>2. /\ t \in Tasks /\ status[t] = "Running" /\ attempts[t] = retries[t] + 1
      /\ retries[t] < MaxRetries /\ ~IsLate(t)
      /\ \A v \in Workers : ~Queued(v, t)
      /\ \A v \in Workers, l \in Threads :
           Holds(v, l) /\ job[v][l].task = t => v = w /\ l = k
  BY <1>1, InOneThread
<1>3. /\ job' \in [Workers -> Jobs] /\ job'[w][k].stage \notin Holding
      /\ \A v \in Workers, l \in Threads : v # w \/ l # k => job'[v][l] = job[v][l]
  BY ReturnIdles DEF SendResult
<1> HIDE DEF t
<1>4. \A v \in Workers, l \in Threads :
         Holds(v, l)' => Holds(v, l) /\ job'[v][l].task = job[v][l].task /\ job[v][l].task # t
  BY <1>2, <1>3 DEF Holds
<1>5. late' \subseteq late /\ \A r \in late' : r.task # t
  BY <1>1, <1>2 DEF IsLate
<1>6. QED
  BY <1>1, <1>2, <1>3, <1>4, <1>5, ResultKeeps

LEMMA LateKeeps ==
  ASSUME LimitsAssumption, IInv, ProcessLate
  PROVE  IInv'
<1>1. PICK r \in late : HandleResult(r.task, r.stage) /\ late' = late \ {r} /\ job' = job
  BY DEF ProcessLate
<1>2. r.task \in Tasks /\ r.stage \in {"ok", "error"} /\ IsLate(r.task)
  BY DEF IInv, TypeOK, IsLate
<1>3. /\ status[r.task] = "Running" /\ attempts[r.task] = retries[r.task] + 1
      /\ retries[r.task] < MaxRetries
      /\ \A v \in Workers : ~Queued(v, r.task) /\ ~InThread(v, r.task)
  BY <1>2 DEF IInv, Placed, Apart, Stated, Counted
<1>4. job' \in [Workers -> Jobs]
  BY <1>1 DEF IInv, TypeOK, Jobs
<1>5. \A v \in Workers, l \in Threads :
         Holds(v, l)' => Holds(v, l) /\ job'[v][l].task = job[v][l].task /\ job[v][l].task # r.task
  BY <1>1, <1>3 DEF Holds, InThread
<1>6. late' \subseteq late /\ \A s \in late' : s.task # r.task
  BY <1>1 DEF IInv, Placed, Single
<1>7. QED
  BY <1>1, <1>2, <1>3, <1>4, <1>5, <1>6, ResultKeeps

-------------------------------------------------------------------------------
(* dispatch_tasks().                                                       *)

LEMMA MinOfTwo ==
  ASSUME NEW a \in Nat, NEW b \in Nat
  PROVE  Min({a, b}) \in {a, b} /\ Min({a, b}) <= a /\ Min({a, b}) <= b
<1>1. \E x \in {a, b} : \A y \in {a, b} : x <= y
  <2>1. CASE a <= b
    BY <2>1
  <2>2. CASE b <= a
    BY <2>2
  <2>3. QED
    BY <2>1, <2>2
<1>2. Min({a, b}) \in {a, b} /\ \A y \in {a, b} : Min({a, b}) <= y
  BY <1>1 DEF Min
<1>3. QED
  BY <1>2

LEMMA MaxOfOne == ASSUME NEW i \in Int PROVE Max({i}) = i
BY DEF Max

\* What a dispatch does to the tasks: the first n go to n different workers.
Sent(n, to) ==
  /\ n \in Nat \ {0} /\ n <= Len(pending)
  /\ to \in [1..n -> Workers] /\ \A i, j \in 1..n : to[i] = to[j] => i = j
  /\ status' \in [Tasks -> {"Absent", "Pending", "Running", "Completed", "Failed"}]
  /\ assigned' \in [Tasks -> SUBSET Workers]
  /\ \A i \in 1..n : status'[pending[i].task] = "Running" /\ assigned'[pending[i].task] = {to[i]}
  /\ \A t \in Tasks : (\A i \in 1..n : pending[i].task # t) =>
        status'[t] = status[t] /\ assigned'[t] = assigned[t]
  /\ retries' = retries
  /\ queue' \in [Workers -> Seq(Tasks)]
  /\ \A w \in Workers :
       \/ queue'[w] = queue[w]
       \/ \E i \in 1..n : to[i] = w /\ queue'[w] = Append(queue[w], pending[i].task)
  /\ pending' = SubSeq(pending, n + 1, Len(pending))
  /\ results' = results /\ job' = job /\ late' = late /\ attempts' = attempts

LEMMA PendingTasks ==
  ASSUME LimitsAssumption, IInv
  PROVE  /\ pending \in Seq([task : Tasks, retries : 0..MaxRetries-1]) /\ Len(pending) \in Nat
         /\ \A i \in 1..Len(pending) :
              /\ pending[i].task \in Tasks /\ status[pending[i].task] = "Pending"
              /\ pending[i].retries = retries[pending[i].task]
              /\ \A w \in Workers : ~Queued(w, pending[i].task) /\ ~InThread(w, pending[i].task)
              /\ ~IsLate(pending[i].task)
         /\ \A i, j \in 1..Len(pending) : pending[i].task = pending[j].task => i = j
<1>1. pending \in Seq([task : Tasks, retries : 0..MaxRetries-1]) /\ Len(pending) \in Nat
  BY DEF IInv, TypeOK
<1>2. ASSUME NEW i \in 1..Len(pending)
      PROVE  /\ pending[i].task \in Tasks /\ status[pending[i].task] = "Pending"
             /\ pending[i].retries = retries[pending[i].task]
             /\ \A w \in Workers : ~Queued(w, pending[i].task) /\ ~InThread(w, pending[i].task)
             /\ ~IsLate(pending[i].task)
  <2> DEFINE t == pending[i].task
  <2>1. t \in Tasks
    <3>1. pending[i] \in [task : Tasks, retries : 0..MaxRetries-1]
      BY <1>1, ElementOfSeq
    <3>2. QED
      BY <3>1
  <2>2. Waiting(t) /\ pending[i].retries = retries[t]
    BY DEF Waiting, IInv, Placed, Counted
  <2> HIDE DEF t
  <2>3. status[t] = "Pending"
    BY <2>1, <2>2 DEF IInv, Placed, Stated
  <2>4. /\ \A w \in Workers : ~Queued(w, t) /\ ~InThread(w, t)
        /\ ~IsLate(t)
    BY <2>1, <2>3 DEF IInv, Placed, Stated
  <2>5. QED
    BY <2>1, <2>2, <2>3, <2>4 DEF t
<1>3. QED
  BY <1>1, <1>2 DEF IInv, Placed, Single

LEMMA DispatchSends ==
  ASSUME WorkersAssumption, LimitsAssumption, IInv, Dispatch
  PROVE  TypeOK' /\ \E n, to : Sent(n, to)
<1> DEFINE n == Min({Len(pending), Cardinality(Eligible)})
<1>1. Len(pending) \in Nat /\ Cardinality(Eligible) \in Nat /\ IsFiniteSet(Eligible) /\ Eligible \subseteq Workers
  <2>1. Eligible \in SUBSET Workers
    BY DEF Eligible, IInv, TypeOK
  <2>2. QED
    BY <2>1, PendingTasks, FS_Subset, FS_CardinalityType DEF WorkersAssumption
<1>2. n \in Nat \ {0} /\ n <= Len(pending)
  <2>1. n \in {Len(pending), Cardinality(Eligible)} /\ n <= Len(pending)
    BY <1>1, MinOfTwo
  <2>2. n > 0
    BY DEF Dispatch
  <2> HIDE DEF n
  <2>3. QED
    BY <1>1, <2>1, <2>2
<1> DEFINE given(t) == {i \in 1..n : pending[i].task = t}
           chosen(to) == {to[i] : i \in 1..n}
           taskOf(to, w) == pending[CHOOSE i \in 1..n : to[i] = w]
<1>3. PICK to \in {f \in [1..n -> Eligible] : IsInjective(f)} :
        /\ status' = [t \in Tasks |-> IF given(t) # {} THEN "Running" ELSE status[t]]
        /\ assigned' = [t \in Tasks |-> IF given(t) # {} THEN {to[Max(given(t))]} ELSE assigned[t]]
        /\ retries' = [t \in Tasks |-> IF given(t) # {} THEN pending[Max(given(t))].retries ELSE retries[t]]
        /\ current' = [w \in Workers |-> IF w \in chosen(to) THEN current[w] + 1 ELSE current[w]]
        /\ available' = [w \in Workers |->
             IF w \in chosen(to) THEN current'[w] < MaxConcurrent ELSE available[w]]
        /\ \E missed \in SUBSET {w \in chosen(to) : process[w] # "down"} :
             /\ failures' = failures + Cardinality(missed)
             /\ failures' <= MaxFailures
             /\ queue' = [w \in Workers |->
                  IF w \in chosen(to) \ missed /\ process[w] # "down"
                    THEN Append(queue[w], taskOf(to, w).task) ELSE queue[w]]
  BY DEF Dispatch
<1>4. /\ pending' = SubSeq(pending, n + 1, Len(pending))
      /\ results' = results /\ known' = known /\ alive' = alive /\ process' = process /\ job' = job
      /\ heartbeat' = heartbeat /\ late' = late /\ attempts' = attempts
  BY DEF Dispatch, Undispatched, messageVars
<1> HIDE DEF n
<1>5. to \in [1..n -> Workers] /\ \A i, j \in 1..n : to[i] = to[j] => i = j
  BY <1>1, <1>3 DEF IsInjective
<1>6. \A i \in 1..n : i \in 1..Len(pending) /\ pending[i].task \in Tasks
  BY <1>1, <1>2, PendingTasks
<1>7. \A i \in 1..n : given(pending[i].task) = {i} /\ Max(given(pending[i].task)) = i
  <2> TAKE i \in 1..n
  <2>1. given(pending[i].task) = {i}
    BY <1>6, PendingTasks
  <2>2. QED
    BY <1>2, <2>1, MaxOfOne
<1>8. \A t \in Tasks : given(t) # {} => \E i \in 1..n : pending[i].task = t
  OBVIOUS
<1>9. \A t \in Tasks :
        /\ status'[t] = IF given(t) # {} THEN "Running" ELSE status[t]
        /\ assigned'[t] = IF given(t) # {} THEN {to[Max(given(t))]} ELSE assigned[t]
        /\ retries'[t] = IF given(t) # {} THEN pending[Max(given(t))].retries ELSE retries[t]
  <2> HIDE DEF given, chosen, taskOf
  <2>1. QED
    BY <1>3
<1>10. \A i \in 1..n :
         /\ status'[pending[i].task] = "Running"
         /\ assigned'[pending[i].task] = {to[i]}
         /\ retries'[pending[i].task] = retries[pending[i].task]
  <2> TAKE i \in 1..n
  <2>1. given(pending[i].task) # {} /\ pending[i].task \in Tasks /\ Max(given(pending[i].task)) = i
    BY <1>6, <1>7
  <2>2. pending[i].retries = retries[pending[i].task]
    BY <1>6, PendingTasks
  <2> HIDE DEF given
  <2>3. QED
    BY <1>9, <2>1, <2>2
<1>11. \A t \in Tasks : (\A i \in 1..n : pending[i].task # t) =>
         status'[t] = status[t] /\ assigned'[t] = assigned[t] /\ retries'[t] = retries[t]
  <2> TAKE t \in Tasks
  <2>1. (\A i \in 1..n : pending[i].task # t) => given(t) = {}
    OBVIOUS
  <2> HIDE DEF given
  <2>2. QED
    BY <1>9, <2>1
<1>12. DOMAIN status' = Tasks /\ status' = [t \in Tasks |-> status'[t]]
       /\ assigned' = [t \in Tasks |-> assigned'[t]] /\ retries' = [t \in Tasks |-> retries'[t]]
  <2> HIDE DEF given, chosen, taskOf
  <2>1. QED
    BY <1>3
<1> HIDE DEF given
<1>13. status' \in [Tasks -> {"Absent", "Pending", "Running", "Completed", "Failed"}]
  <2>1. \A t \in Tasks : status'[t] \in {"Absent", "Pending", "Running", "Completed", "Failed"}
    BY <1>9 DEF IInv, TypeOK
  <2>2. QED
    BY <1>12, <2>1
<1>14. assigned' \in [Tasks -> SUBSET Workers]
  <2>1. ASSUME NEW t \in Tasks PROVE assigned'[t] \in SUBSET Workers
    <3>1. CASE given(t) # {}
      <4>1. PICK i \in 1..n : pending[i].task = t
        BY <1>8, <3>1
      <4>2. assigned'[t] = {to[i]} /\ to[i] \in Workers
        BY <1>5, <1>10, <4>1
      <4>3. QED
        BY <4>2
    <3>2. CASE given(t) = {}
      <4>1. assigned'[t] = assigned[t]
        BY <1>9, <3>2
      <4>2. QED
        BY <4>1 DEF IInv, TypeOK
    <3>3. QED
      BY <3>1, <3>2
  <2>2. QED
    BY <1>12, <2>1
<1>15. retries' = retries
  <2>1. \A t \in Tasks : retries'[t] = retries[t]
    BY <1>10, <1>11
  <2>2. QED
    BY <1>12, <2>1 DEF IInv, TypeOK
<1>16. pending' \in Seq([task : Tasks, retries : 0..MaxRetries-1])
  <2> DEFINE Entry == [task : Tasks, retries : 0..MaxRetries-1]
  <2>1. pending \in Seq(Entry)
    BY PendingTasks
  <2> HIDE DEF Entry
  <2>2. \A i \in n+1..Len(pending) : i \in 1..Len(pending)
    BY <1>1, <1>2
  <2>3. SubSeq(pending, n + 1, Len(pending)) \in Seq(Entry)
    BY <1>1, <1>2, <2>1, <2>2, SubSeqProperties
  <2>4. QED
    BY <1>4, <2>3 DEF Entry
<1>17. results' = {t \in Tasks : status'[t] = "Completed"}
  <2>1. \A t \in Tasks : status'[t] = "Completed" <=> status[t] = "Completed"
    BY <1>6, <1>10, <1>11, PendingTasks
  <2>2. QED
    BY <1>4, <2>1 DEF IInv, TypeOK
<1>18. PICK missed \in SUBSET {w \in chosen(to) : process[w] # "down"} :
         /\ failures' = failures + Cardinality(missed)
         /\ failures' <= MaxFailures
         /\ queue' = [w \in Workers |->
              IF w \in chosen(to) \ missed /\ process[w] # "down"
                THEN Append(queue[w], taskOf(to, w).task) ELSE queue[w]]
  <2> HIDE DEF chosen, taskOf
  <2>1. QED
    BY <1>3
<1>19. \A w \in chosen(to) : w \in Workers /\ \E i \in 1..n : to[i] = w
  BY <1>5
<1>20. failures' \in 0..MaxFailures
  <2>1. missed \in SUBSET Workers
    BY <1>18, <1>19
  <2>2. Cardinality(missed) \in Nat
    BY <2>1, FS_Subset, FS_CardinalityType DEF WorkersAssumption
  <2>3. failures \in Nat /\ MaxFailures \in Nat
    BY DEF IInv, TypeOK, LimitsAssumption
  <2>4. QED
    BY <1>18, <2>2, <2>3
<1>21. \A i \in 1..n : taskOf(to, to[i]) = pending[i]
  <2> TAKE i \in 1..n
  <2>1. (CHOOSE j \in 1..n : to[j] = to[i]) = i
    BY <1>5
  <2>2. QED
    BY <2>1
<1>22. \A w \in Workers :
         \/ queue'[w] = queue[w]
         \/ \E i \in 1..n : to[i] = w /\ queue'[w] = Append(queue[w], pending[i].task)
  <2> TAKE w \in Workers
  <2>1. queue'[w] = IF w \in chosen(to) \ missed /\ process[w] # "down"
                      THEN Append(queue[w], taskOf(to, w).task) ELSE queue[w]
    <3> HIDE DEF chosen, taskOf
    <3>1. QED
      BY <1>18
  <2>2. CASE w \in chosen(to)
    <3>1. PICK i \in 1..n : to[i] = w
      BY <1>19, <2>2
    <3>2. taskOf(to, w) = pending[i]
      BY <1>21, <3>1
    <3> HIDE DEF chosen, taskOf
    <3>3. QED
      BY <2>1, <3>1, <3>2
  <2>3. CASE w \notin chosen(to)
    BY <2>1, <2>3
  <2>4. QED
    BY <2>2, <2>3
<1>23. queue' \in [Workers -> Seq(Tasks)]
  <2>1. queue' = [w \in Workers |-> queue'[w]]
    <3> HIDE DEF chosen, taskOf
    <3>1. QED
      BY <1>18
  <2>2. \A w \in Workers : queue[w] \in Seq(Tasks)
    BY DEF IInv, TypeOK
  <2>3. ASSUME NEW w \in Workers PROVE queue'[w] \in Seq(Tasks)
    <3>1. CASE queue'[w] = queue[w]
      BY <2>2, <3>1
    <3>2. ASSUME NEW i \in 1..n, queue'[w] = Append(queue[w], pending[i].task)
          PROVE  queue'[w] \in Seq(Tasks)
      <4>1. pending[i].task \in Tasks
        BY <1>6
      <4>2. QED
        BY <2>2, <3>2, <4>1, AppendProperties
    <3>3. QED
      BY <1>22, <3>1, <3>2
  <2>4. QED
    BY <2>1, <2>3
<1>24. current' \in [Workers -> Int]
  <2>1. \A w \in Workers : current[w] \in Int
    BY DEF IInv, TypeOK
  <2> HIDE DEF chosen, taskOf
  <2>2. QED
    BY <1>3, <2>1
<1>25. available' \in [Workers -> BOOLEAN]
  <2>1. /\ available' = [w \in Workers |->
              IF w \in chosen(to) THEN current'[w] < MaxConcurrent ELSE available[w]]
        /\ available \in [Workers -> BOOLEAN]
    BY <1>3 DEF IInv, TypeOK
  <2>2. \A w \in Workers : (current'[w] < MaxConcurrent) \in BOOLEAN
    OBVIOUS
  <2> HIDE DEF chosen
  <2>3. QED
    BY <2>1, <2>2, Zenon
<1>26. TypeOK'
  BY <1>4, <1>13, <1>14, <1>15, <1>16, <1>17, <1>20, <1>23, <1>24, <1>25 DEF IInv, TypeOK
<1>27. Sent(n, to)
  BY <1>2, <1>4, <1>5, <1>10, <1>11, <1>13, <1>14, <1>15, <1>22, <1>23 DEF Sent
<1>28. QED
  BY <1>26, <1>27

LEMMA SentKeeps ==
  ASSUME LimitsAssumption, IInv, NEW n, NEW to, Sent(n, to)
  PROVE  Placed'
<1> DEFINE Given(t) == \E i \in 1..n : pending[i].task = t
<1>1. /\ n \in Nat \ {0} /\ n <= Len(pending) /\ Len(pending) \in Nat
      /\ to \in [1..n -> Workers] /\ \A i, j \in 1..n : to[i] = to[j] => i = j
      /\ \A i \in 1..n : i \in 1..Len(pending)
  BY SMTT(60), PendingTasks DEF Sent
<1>2. /\ Len(pending') = Len(pending) - n
      /\ \A i \in 1..Len(pending') : n + i \in 1..Len(pending) /\ pending'[i] = pending[n + i]
  <2>1. /\ pending' = SubSeq(pending, n + 1, Len(pending))
        /\ pending \in Seq([task : Tasks, retries : 0..MaxRetries-1])
    BY PendingTasks DEF Sent
  <2>2. QED
    BY SMTT(60), <1>1, <2>1, SubSeqProperties
<1>3. /\ retries' = retries /\ job' = job /\ late' = late /\ attempts' = attempts
      /\ \A w \in Workers, k \in Threads : Holds(w, k)' <=> Holds(w, k)
      /\ \A w \in Workers, t \in Tasks : InThread(w, t)' <=> InThread(w, t)
      /\ \A t \in Tasks : IsLate(t)' <=> IsLate(t)
  BY DEF Sent, Holds, InThread, IsLate
<1>4. \A i \in 1..n :
        /\ pending[i].task \in Tasks /\ status[pending[i].task] = "Pending"
        /\ \A w \in Workers : ~Queued(w, pending[i].task) /\ ~InThread(w, pending[i].task)
        /\ ~IsLate(pending[i].task)
        /\ status'[pending[i].task] = "Running" /\ assigned'[pending[i].task] = {to[i]}
  BY <1>1, PendingTasks DEF Sent
<1>5. \A t \in Tasks : ~Given(t) => status'[t] = status[t] /\ assigned'[t] = assigned[t]
  BY DEF Sent
<1>6. \A t \in Tasks : Waiting(t)' <=> Waiting(t) /\ ~Given(t)
  <2> TAKE t \in Tasks
  <2>1. ASSUME Waiting(t)' PROVE Waiting(t) /\ ~Given(t)
    <3>1. PICK i \in 1..Len(pending') : pending'[i].task = t
      BY <2>1 DEF Waiting
    <3>2. n + i \in 1..Len(pending) /\ pending[n + i].task = t /\ n + i \notin 1..n
      BY <1>1, <1>2, <3>1
    <3>3. ~Given(t)
      BY <1>1, <3>2, PendingTasks
    <3>4. QED
      BY <3>2, <3>3 DEF Waiting
  <2>2. ASSUME Waiting(t), ~Given(t) PROVE Waiting(t)'
    <3>1. PICK i \in 1..Len(pending) : pending[i].task = t
      BY <2>2 DEF Waiting
    <3>2. i \notin 1..n
      BY <2>2, <3>1
    <3>3. i - n \in 1..Len(pending') /\ n + (i - n) = i
      BY <1>1, <1>2, <3>2
    <3>4. pending'[i - n] = pending[i]
      BY <1>2, <3>3
    <3>5. QED
      BY <3>1, <3>3, <3>4 DEF Waiting
  <2>3. QED
    BY <2>1, <2>2
<1>7. \A w \in Workers :
        \/ queue'[w] = queue[w]
        \/ \E i \in 1..n :
             /\ to[i] = w /\ Len(queue[w]) \in Nat /\ Len(queue'[w]) = Len(queue[w]) + 1
             /\ \A j \in 1..Len(queue[w]) : queue'[w][j] = queue[w][j]
             /\ queue'[w][Len(queue[w]) + 1] = pending[i].task
  <2> TAKE w \in Workers
  <2>1. queue[w] \in Seq(Tasks) /\ Len(queue[w]) \in Nat
    BY DEF IInv, TypeOK
  <2>2. \/ queue'[w] = queue[w]
        \/ \E i \in 1..n : to[i] = w /\ queue'[w] = Append(queue[w], pending[i].task)
    BY DEF Sent
  <2>3. ASSUME NEW i \in 1..n, to[i] = w, queue'[w] = Append(queue[w], pending[i].task)
        PROVE  /\ Len(queue'[w]) = Len(queue[w]) + 1
               /\ \A j \in 1..Len(queue[w]) : queue'[w][j] = queue[w][j]
               /\ queue'[w][Len(queue[w]) + 1] = pending[i].task
    BY <1>4, <2>1, <2>3, AppendProperties
  <2>4. QED
    BY <2>1, <2>2, <2>3
<1>8. \A w \in Workers, t \in Tasks :
        Queued(w, t)' => Queued(w, t) \/ \E i \in 1..n : to[i] = w /\ pending[i].task = t
  <2> TAKE w \in Workers, t \in Tasks
  <2>1. SUFFICES ASSUME Queued(w, t)'
                 PROVE  Queued(w, t) \/ \E i \in 1..n : to[i] = w /\ pending[i].task = t
    OBVIOUS
  <2>2. CASE queue'[w] = queue[w]
    BY <2>1, <2>2 DEF Queued
  <2>3. ASSUME NEW i \in 1..n,
               to[i] = w, Len(queue[w]) \in Nat, Len(queue'[w]) = Len(queue[w]) + 1,
               \A j \in 1..Len(queue[w]) : queue'[w][j] = queue[w][j],
               queue'[w][Len(queue[w]) + 1] = pending[i].task
        PROVE  Queued(w, t) \/ \E m \in 1..n : to[m] = w /\ pending[m].task = t
    <3>1. PICK j \in 1..Len(queue'[w]) : queue'[w][j] = t
      BY <2>1 DEF Queued
    <3>2. j \in 1..Len(queue[w]) \/ j = Len(queue[w]) + 1
      BY <2>3
    <3>3. QED
      BY <2>3, <3>1, <3>2 DEF Queued
  <2>4. QED
    BY <1>7, <2>2, <2>3
<1>9. Single'
  <2>1. \A i, j \in 1..Len(pending') : pending'[i].task = pending'[j].task => i = j
    <3> TAKE i \in 1..Len(pending'), j \in 1..Len(pending')
    <3>1. pending'[i].task = pending'[j].task => n + i = n + j
      BY <1>2, PendingTasks
    <3>2. QED
      BY <1>1, <1>2, <3>1
  <2>2. ASSUME NEW w \in Workers
        PROVE  \A i, j \in 1..Len(queue'[w]) : queue'[w][i] = queue'[w][j] => i = j
    <3>1. \A i, j \in 1..Len(queue[w]) : queue[w][i] = queue[w][j] => i = j
      BY DEF IInv, Placed, Single
    <3>2. CASE queue'[w] = queue[w]
      BY <3>1, <3>2
    <3>3. ASSUME NEW m \in 1..n,
                 to[m] = w, Len(queue[w]) \in Nat, Len(queue'[w]) = Len(queue[w]) + 1,
                 \A j \in 1..Len(queue[w]) : queue'[w][j] = queue[w][j],
                 queue'[w][Len(queue[w]) + 1] = pending[m].task
          PROVE  \A i, j \in 1..Len(queue'[w]) : queue'[w][i] = queue'[w][j] => i = j
      <4>1. \A j \in 1..Len(queue[w]) : queue[w][j] # pending[m].task
        BY <1>4 DEF Queued
      <4> TAKE i \in 1..Len(queue'[w]), j \in 1..Len(queue'[w])
      <4>2. /\ i \in 1..Len(queue[w]) \/ i = Len(queue[w]) + 1
            /\ j \in 1..Len(queue[w]) \/ j = Len(queue[w]) + 1
        BY <3>3
      <4>3. QED
        BY <3>1, <3>3, <4>1, <4>2
    <3>4. QED
      BY <1>7, <3>2, <3>3
  <2>3. QED
    BY <1>3, <2>1, <2>2 DEF IInv, Placed, Single
<1>10. Apart'
  BY <1>3, <1>4, <1>8 DEF IInv, Placed, Apart
<1>11. Stated'
  <2>1. ASSUME NEW t \in Tasks
        PROVE  /\ status'[t] = "Pending" <=> Waiting(t)'
               /\ IsLate(t)' => status'[t] = "Running"
    <3>1. CASE Given(t)
      BY <1>3, <1>4, <1>6, <3>1
    <3>2. CASE ~Given(t)
      BY <1>3, <1>5, <1>6, <3>2 DEF IInv, Placed, Stated
    <3>3. QED
      BY <3>1, <3>2
  <2>2. ASSUME NEW w \in Workers, NEW t \in Tasks, Queued(w, t)' \/ InThread(w, t)'
        PROVE  status'[t] = "Running" /\ assigned'[t] = {w}
    <3>1. CASE Queued(w, t) \/ InThread(w, t)
      <4>1. ~Given(t)
        BY <1>4, <3>1
      <4>2. QED
        BY <1>5, <3>1, <4>1 DEF IInv, Placed, Stated
    <3>2. CASE \E i \in 1..n : to[i] = w /\ pending[i].task = t
      BY <1>4, <3>2
    <3>3. QED
      BY <1>3, <1>8, <2>2, <3>1, <3>2
  <2>3. QED
    BY <2>1, <2>2 DEF Stated
<1>12. Counted'
  <2>1. \A i \in 1..Len(pending') : pending'[i].retries = retries'[pending'[i].task]
    BY <1>2, <1>3, PendingTasks
  <2>2. ASSUME NEW t \in Tasks
        PROVE  /\ attempts'[t] <= MaxRetries
               /\ status'[t] = "Absent" => attempts'[t] = 0 /\ retries'[t] = 0
               /\ status'[t] = "Pending" => attempts'[t] = retries'[t]
               /\ status'[t] \in {"Pending", "Running"} => retries'[t] < MaxRetries
               /\ status'[t] = "Failed" => attempts'[t] = MaxRetries
               /\ IsLate(t)' => attempts'[t] = retries'[t] + 1
    <3>1. CASE Given(t)
      BY <1>3, <1>4, <3>1 DEF IInv, Placed, Counted
    <3>2. CASE ~Given(t)
      BY <1>3, <1>5, <3>2 DEF IInv, Placed, Counted
    <3>3. QED
      BY <3>1, <3>2
  <2>3. ASSUME NEW w \in Workers, NEW t \in Tasks
        PROVE  /\ Queued(w, t)' => attempts'[t] = retries'[t]
               /\ InThread(w, t)' => attempts'[t] = retries'[t] + 1
    BY <1>3, <1>4, <1>8 DEF IInv, Placed, Counted
  <2>4. QED
    BY <2>1, <2>2, <2>3 DEF Counted
<1>13. QED
  BY <1>9, <1>10, <1>11, <1>12 DEF Placed

-------------------------------------------------------------------------------
LEMMA StepKeeps ==
  ASSUME TasksAssumption, WorkersAssumption, LimitsAssumption
  PROVE  IInv /\ [Next]_vars => IInv'
<1> SUFFICES ASSUME IInv, [Next]_vars PROVE IInv'
  OBVIOUS
<1>1. CASE \E b \in Batches : Submit(b)
  BY <1>1, SubmitKeeps
<1>2. CASE Dispatch
  <2>1. TypeOK' /\ \E n, to : Sent(n, to)
    BY <1>2, DispatchSends
  <2>2. QED
    BY <2>1, SentKeeps DEF IInv
<1>3. CASE ProcessLate
  BY <1>3, LateKeeps
<1>4. ASSUME NEW w \in Workers,
             Register(w) \/ Beat(w) \/ Expire(w) \/ Stop(w) \/ Crash(w) \/ Restart(w)
      PROVE  IInv'
  BY <1>4, InfoKeeps, EndingKeeps
<1>5. ASSUME NEW w \in Workers, NEW k \in Threads, ThreadStep(w, k) \/ TimeOut(w, k)
      PROVE  IInv'
  BY <1>5, TakeKeeps, SendResultKeeps, TimeOutKeeps, EndingKeeps DEF ThreadStep
<1>6. CASE UNCHANGED vars
  <2>1. NothingNew
    BY <1>6 DEF NothingNew, Holds, vars, workerVars, messageVars
  <2>2. TypeOK'
    BY <1>6 DEF IInv, TypeOK, vars, taskVars, infoVars, workerVars, messageVars
  <2>3. QED
    BY <2>1, <2>2, NothingNewKeeps DEF IInv
<1>7. QED
  BY <1>1, <1>2, <1>3, <1>4, <1>5, <1>6 DEF Next

LEMMA Invariance ==
  ASSUME TasksAssumption, WorkersAssumption, LimitsAssumption PROVE Spec => []IInv
<1>1. Init => IInv
  BY Starts
<1>2. IInv /\ [Next]_vars => IInv'
  BY StepKeeps
<1>3. QED
  BY <1>1, <1>2, PTL DEF Spec

-------------------------------------------------------------------------------
(* What InOnePlace says, from the invariant.                               *)

LEMMA FourParts ==
  ASSUME NEW P, NEW R, NEW C, NEW F,
         IsFiniteSet(P), IsFiniteSet(R), IsFiniteSet(C), IsFiniteSet(F),
         P \cap R = {}, (P \cup R) \cap C = {}, (P \cup R \cup C) \cap F = {}
  PROVE  Cardinality(P \cup R \cup C \cup F) =
           Cardinality(P) + Cardinality(R) + Cardinality(C) + Cardinality(F)
<1>1. Cardinality({}) = 0
  BY FS_EmptySet
<1>2. IsFiniteSet(P \cup R) /\ IsFiniteSet(P \cup R \cup C)
  BY FS_Union
<1>3. /\ Cardinality(P) \in Nat /\ Cardinality(R) \in Nat /\ Cardinality(C) \in Nat
      /\ Cardinality(F) \in Nat
  BY FS_CardinalityType
<1>4. Cardinality(P \cup R) = Cardinality(P) + Cardinality(R) - Cardinality(P \cap R)
  BY FS_Union
<1>5. Cardinality(P \cup R \cup C) =
        Cardinality(P \cup R) + Cardinality(C) - Cardinality((P \cup R) \cap C)
  BY <1>2, FS_Union
<1>6. Cardinality(P \cup R \cup C \cup F) =
        Cardinality(P \cup R \cup C) + Cardinality(F) - Cardinality((P \cup R \cup C) \cap F)
  BY <1>2, FS_Union
<1>7. /\ Cardinality(P \cap R) = 0 /\ Cardinality((P \cup R) \cap C) = 0
      /\ Cardinality((P \cup R \cup C) \cap F) = 0
  BY <1>1
<1>8. QED
  BY <1>3, <1>4, <1>5, <1>6, <1>7

LEMMA BatchAddsUp ==
  ASSUME TasksAssumption, IInv, NEW b \in Prefixed
  PROVE  /\ BatchStatus(b).total = BatchStatus(b).pending + BatchStatus(b).running
                                     + BatchStatus(b).completed + BatchStatus(b).failed
         /\ BatchStatus(b).completed = Cardinality(BatchResults(b))
<1> DEFINE in(set) == {t \in b : status[t] \in set}
<1>2. IsFiniteSet(b) /\ \A t \in b : t \in Tasks
  BY DEF TasksAssumption
<1>3. \A set : IsFiniteSet(in(set))
  <2> TAKE set
  <2>1. in(set) \subseteq b
    OBVIOUS
  <2>2. QED
    BY <1>2, <2>1, FS_Subset
<1>4. in({"Pending", "Running"} \cup Ended)
        = in({"Pending"}) \cup in({"Running"}) \cup in({"Completed"}) \cup in({"Failed"})
  BY DEF Ended
<1>5. Cardinality(in({"Pending", "Running"} \cup Ended))
        = Cardinality(in({"Pending"})) + Cardinality(in({"Running"}))
            + Cardinality(in({"Completed"})) + Cardinality(in({"Failed"}))
  <2>1. /\ in({"Pending"}) \cap in({"Running"}) = {}
        /\ (in({"Pending"}) \cup in({"Running"})) \cap in({"Completed"}) = {}
        /\ (in({"Pending"}) \cup in({"Running"}) \cup in({"Completed"})) \cap in({"Failed"}) = {}
    OBVIOUS
  <2> HIDE DEF in
  <2>2. /\ IsFiniteSet(in({"Pending"})) /\ IsFiniteSet(in({"Running"}))
        /\ IsFiniteSet(in({"Completed"})) /\ IsFiniteSet(in({"Failed"}))
    BY <1>3
  <2>3. Cardinality(in({"Pending"}) \cup in({"Running"}) \cup in({"Completed"}) \cup in({"Failed"}))
          = Cardinality(in({"Pending"})) + Cardinality(in({"Running"}))
              + Cardinality(in({"Completed"})) + Cardinality(in({"Failed"}))
    BY <2>1, <2>2, FourParts
  <2>4. QED
    BY <1>4, <2>3
<1>6. BatchResults(b) = in({"Completed"})
  BY <1>2 DEF BatchResults, IInv, TypeOK
<1>7. /\ BatchStatus(b).total = Cardinality(in({"Pending", "Running"} \cup Ended))
      /\ BatchStatus(b).pending = Cardinality(in({"Pending"}))
      /\ BatchStatus(b).running = Cardinality(in({"Running"}))
      /\ BatchStatus(b).completed = Cardinality(in({"Completed"}))
      /\ BatchStatus(b).failed = Cardinality(in({"Failed"}))
  BY DEF BatchStatus
<1> HIDE DEF in
<1>8. QED
  BY <1>5, <1>6, <1>7

LEMMA OnePlace ==
  ASSUME IInv, NEW t \in Tasks
  PROVE  /\ \A x, y \in Places(t) : x = y
         /\ Places(t) # {} => status[t] \in {"Pending", "Running"}
         /\ status[t] = "Pending" <=> \E i \in DOMAIN pending : pending[i].task = t
         /\ \A w \in Workers : HeldBy(w, t) => assigned[t] = {w}
<1>1. /\ pending \in Seq([task : Tasks, retries : 0..MaxRetries-1])
      /\ \A w \in Workers : queue[w] \in Seq(Tasks)
  BY DEF IInv, TypeOK
<1>2. /\ DOMAIN pending = 1..Len(pending)
      /\ \A w \in Workers : DOMAIN queue[w] = 1..Len(queue[w])
  BY <1>1
<1>3. /\ status[t] = "Pending" <=> Waiting(t)
      /\ \A w \in Workers :
           Queued(w, t) \/ InThread(w, t) => status[t] = "Running" /\ assigned[t] = {w}
      /\ IsLate(t) => status[t] = "Running" /\ \A w \in Workers : ~Queued(w, t) /\ ~InThread(w, t)
  BY DEF IInv, Placed, Apart, Stated
<1> DEFINE AsPending(x) == \E i \in 1..Len(pending) : pending[i].task = t /\ x = <<"pending", 0, i>>
           AsQueued(w, x) == \E i \in 1..Len(queue[w]) : queue[w][i] = t /\ x = <<"queue", w, i>>
           AsRunning(w, x) ==
             \E k \in Threads : Holds(w, k) /\ job[w][k].task = t /\ x = <<"thread", w, k>>
           AsLate(x) == \E r \in late : r.task = t /\ x = <<"late", r.stage, 0>>
<1>4. \A x \in Places(t) :
        AsPending(x) \/ AsLate(x) \/ \E w \in Workers : AsQueued(w, x) \/ AsRunning(w, x)
  <2> TAKE x \in Places(t)
  <2> DEFINE Q == UNION {{<<"queue", w, i>> : i \in {j \in DOMAIN queue[w] : queue[w][j] = t}} : w \in Workers}
             R == UNION {{<<"thread", w, k>> : k \in {j \in Threads : job[w][j].stage \in Holding /\ job[w][j].task = t}}
                           : w \in Workers}
             P == {<<"pending", 0, i>> : i \in {j \in DOMAIN pending : pending[j].task = t}}
             L == {<<"late", r.stage, 0>> : r \in {l \in late : l.task = t}}
  <2>1. x \in P \cup Q \cup R \cup L
    BY Zenon DEF Places
  <2>2. x \in P => AsPending(x)
    BY <1>2
  <2>3. x \in L => AsLate(x)
    OBVIOUS
  <2>4. x \in Q => \E w \in Workers : AsQueued(w, x)
    BY <1>2
  <2>5. x \in R => \E w \in Workers : AsRunning(w, x)
    BY DEF Holds
  <2> HIDE DEF P, Q, R, L, AsPending, AsQueued, AsRunning, AsLate
  <2>6. QED
    BY <2>1, <2>2, <2>3, <2>4, <2>5
<1>5. \A x : /\ AsPending(x) => Waiting(t)
             /\ AsLate(x) => IsLate(t)
             /\ \A w \in Workers : /\ AsQueued(w, x) => Queued(w, t)
                                   /\ AsRunning(w, x) => InThread(w, t)
  BY DEF Waiting, IsLate, Queued, InThread
<1>6. /\ \A x, y : AsPending(x) /\ AsPending(y) => x = y
      /\ \A x, y : AsLate(x) /\ AsLate(y) => x = y
      /\ \A w \in Workers : \A x, y : /\ AsQueued(w, x) /\ AsQueued(w, y) => x = y
                                      /\ AsRunning(w, x) /\ AsRunning(w, y) => x = y
  <2>1. /\ \A i, j \in 1..Len(pending) : pending[i].task = t /\ pending[j].task = t => i = j
        /\ \A r, s \in late : r.task = t /\ s.task = t => r = s
        /\ \A w \in Workers : \A i, j \in 1..Len(queue[w]) : queue[w][i] = t /\ queue[w][j] = t => i = j
        /\ \A w \in Workers : \A k, l \in Threads :
             Holds(w, k) /\ Holds(w, l) /\ job[w][k].task = t /\ job[w][l].task = t => k = l
    BY DEF IInv, Placed, Single
  <2>2. QED
    BY <2>1
<1> HIDE DEF AsPending, AsQueued, AsRunning, AsLate
<1>7. /\ Places(t) # {} => status[t] \in {"Pending", "Running"}
      /\ \A x, y \in Places(t) : x = y
  <2>1. Places(t) # {} => status[t] \in {"Pending", "Running"}
    BY <1>3, <1>4, <1>5
  <2>2. ASSUME NEW x \in Places(t), NEW y \in Places(t) PROVE x = y
    <3>1. CASE AsPending(x)
      <4>1. AsPending(y)
        BY <1>3, <1>4, <1>5, <3>1
      <4>2. QED
        BY <1>6, <3>1, <4>1
    <3>2. CASE AsLate(x)
      <4>1. AsLate(y)
        BY <1>3, <1>4, <1>5, <3>2
      <4>2. QED
        BY <1>6, <3>2, <4>1
    <3>3. ASSUME NEW w \in Workers, AsQueued(w, x) PROVE x = y
      <4>1. Queued(w, t) /\ status[t] = "Running" /\ assigned[t] = {w}
        BY <1>3, <1>5, <3>3
      <4>2. \A v \in Workers : ~InThread(v, t) /\ (Queued(v, t) => v = w)
        BY <1>3, <4>1 DEF IInv, Placed, Apart
      <4>3. AsQueued(w, y)
        BY <1>3, <1>4, <1>5, <4>1, <4>2
      <4>4. QED
        BY <1>6, <3>3, <4>3
    <3>4. ASSUME NEW w \in Workers, AsRunning(w, x) PROVE x = y
      <4>1. InThread(w, t) /\ status[t] = "Running" /\ assigned[t] = {w}
        BY <1>3, <1>5, <3>4
      <4>2. \A v \in Workers : ~Queued(v, t) /\ (InThread(v, t) => v = w)
        BY <1>3, <4>1 DEF IInv, Placed, Apart
      <4>3. AsRunning(w, y)
        BY <1>3, <1>4, <1>5, <4>1, <4>2
      <4>4. QED
        BY <1>6, <3>4, <4>3
    <3>5. QED
      BY <1>4, <3>1, <3>2, <3>3, <3>4
  <2>3. QED
    BY <2>1, <2>2
<1>8. \A w \in Workers : HeldBy(w, t) => Queued(w, t) \/ InThread(w, t)
  BY <1>2 DEF HeldBy, Queued, InThread, Holds, ToSet
<1>9. QED
  BY <1>2, <1>3, <1>7, <1>8 DEF Waiting

(* A task is in one place at most, where its status says, is tried no more *)
(* often than it may be, and each batch's status accounts for its tasks,   *)
(* for any tasks, batches, workers, threads, limits and failures.          *)
THEOREM TasksInOnePlace ==
  ASSUME TasksAssumption, WorkersAssumption, LimitsAssumption PROVE Spec => []InOnePlace
<1>1. IInv => InOnePlace
  <2> SUFFICES ASSUME IInv PROVE InOnePlace
    OBVIOUS
  <2>1. TypeOK /\ \A t \in Tasks :
          attempts[t] <= MaxRetries /\ (status[t] = "Failed" => attempts[t] = MaxRetries)
    BY DEF IInv, Placed, Counted
  <2>2. QED
    BY <2>1, OnePlace, BatchAddsUp DEF InOnePlace
<1>2. QED
  BY <1>1, Invariance, PTL

-------------------------------------------------------------------------------
(* What has ended.                                                         *)

\* A result is taken of a running task only, and a dispatch sends pending ones.
LEMMA EndedStays ==
  ASSUME TasksAssumption, WorkersAssumption, LimitsAssumption, IInv, Next
  PROVE  \A t \in Tasks : status[t] \in Ended => status'[t] = status[t]
<1>1. status \in [Tasks -> {"Absent", "Pending", "Running", "Completed", "Failed"}]
  BY DEF IInv, TypeOK
<1>2. ASSUME NEW r \in Tasks, NEW outcome, HandleResult(r, outcome), status[r] = "Running"
      PROVE  \A t \in Tasks : status[t] \in Ended => status'[t] = status[t]
  <2>1. \A t \in Tasks \ {r} : status'[t] = status[t]
    BY <1>1, <1>2 DEF HandleResult
  <2>2. QED
    BY <1>2, <2>1 DEF Ended
<1>3. CASE \E b \in Batches : Submit(b)
  BY <1>3 DEF Submit, Ended
<1>4. CASE Dispatch
  <2>1. PICK n, to : Sent(n, to)
    BY <1>4, DispatchSends
  <2>2. \A i \in 1..n : status[pending[i].task] = "Pending"
    BY <2>1, PendingTasks DEF Sent
  <2>3. QED
    BY <2>1, <2>2 DEF Sent, Ended
<1>5. CASE ProcessLate
  <2>1. PICK r \in late : HandleResult(r.task, r.stage)
    BY <1>5 DEF ProcessLate
  <2>2. r.task \in Tasks /\ IsLate(r.task)
    BY DEF IInv, TypeOK, IsLate
  <2>3. status[r.task] = "Running"
    BY <2>2 DEF IInv, Placed, Stated
  <2>4. QED
    BY <1>2, <2>1, <2>2, <2>3
<1>6. ASSUME NEW w \in Workers, NEW k \in Threads, SendResult(w, k)
      PROVE  \A t \in Tasks : status[t] \in Ended => status'[t] = status[t]
  <2>1. job[w][k].stage \in {"ok", "error"} /\ HandleResult(job[w][k].task, job[w][k].stage)
    BY <1>6 DEF SendResult
  <2>2. job[w][k].task \in Tasks /\ status[job[w][k].task] = "Running"
    BY <2>1, InOneThread
  <2>3. QED
    BY <1>2, <2>1, <2>2
<1>7. ASSUME NEW w \in Workers,
             Register(w) \/ Beat(w) \/ Expire(w) \/ Stop(w) \/ Crash(w) \/ Restart(w)
      PROVE  status' = status
  BY <1>7 DEF Register, Beat, SendHeartbeat, ProcessHeartbeat, Expire, Stop, Crash, Restart, taskVars
<1>8. ASSUME NEW w \in Workers, NEW k \in Threads,
             Take(w, k) \/ Finish(w, k) \/ LeaveLoop(w, k) \/ TimeOut(w, k)
      PROVE  status' = status
  BY <1>8 DEF Take, Finish, LeaveLoop, TimeOut, taskVars
<1>9. QED
  BY <1>3, <1>4, <1>5, <1>6, <1>7, <1>8 DEF Next, ThreadStep

\* A larger part of the same whole is no smaller percentage.
LEMMA PercentGrows ==
  ASSUME NEW a \in Nat, NEW b \in Nat, NEW n \in Nat \ {0}, a <= b
  PROVE  (100 * a) \div n <= (100 * b) \div n
<1> DEFINE p == (100 * a) \div n
           q == (100 * b) \div n
<1>1. /\ p \in Int /\ (100 * a) % n \in 0..(n - 1) /\ 100 * a = p * n + ((100 * a) % n)
      /\ q \in Int /\ (100 * b) % n \in 0..(n - 1) /\ 100 * b = q * n + ((100 * b) % n)
  <2>1. 100 * a \in Int /\ 100 * b \in Int
    OBVIOUS
  <2>2. QED
    BY <2>1, DivMod
<1> HIDE DEF p, q
<1>2. ASSUME p >= q + 1 PROVE FALSE
  <2>1. PICK d \in Nat : p = q + 1 + d
    <3>1. p - q - 1 \in Nat /\ p = q + 1 + (p - q - 1)
      BY <1>1, <1>2
    <3>2. QED
      BY <3>1
  <2>2. p * n = q * n + n + d * n
    BY <1>1, <2>1
  <2>3. d * n \in Nat /\ q * n \in Int
    BY <1>1, <2>1
  <2>4. QED
    BY <1>1, <2>2, <2>3
<1>3. QED
  BY <1>1, <1>2 DEF p, q

LEMMA BatchesGrow ==
  ASSUME TasksAssumption, TypeOK, TypeOK', NEW ids \in Prefixed,
         \A t \in Tasks : status[t] \in Ended => status'[t] = status[t],
         \A t \in Tasks : status[t] # "Absent" => status'[t] # "Absent"
  PROVE  LET before == BatchStatus(ids)
             after == BatchStatus(ids)'
         IN  /\ BatchResults(ids) \subseteq BatchResults(ids)'
             /\ before.completed <= after.completed /\ before.failed <= after.failed
             /\ before.percent <= after.percent \/ before.total < after.total
<1> DEFINE in(set) == {t \in ids : status[t] \in set}
           next(set) == {t \in ids : status'[t] \in set}
           All == {"Pending", "Running"} \cup Ended
           percent(e, n) == IF n = 0 THEN 0 ELSE (100 * e) \div n
<1>1. IsFiniteSet(ids) /\ ids \subseteq Tasks
  BY DEF TasksAssumption
<1>2. \A set : IsFiniteSet(next(set))
  BY <1>1, FS_Subset
<1>3. /\ in({"Completed"}) \subseteq next({"Completed"}) /\ in({"Failed"}) \subseteq next({"Failed"})
      /\ in(Ended) \subseteq next(Ended)
  BY <1>1 DEF Ended
<1>4. in(All) \subseteq next(All)
  <2>1. \A t \in Tasks : /\ status[t] \in All <=> status[t] # "Absent"
                         /\ status'[t] \in All <=> status'[t] # "Absent"
    BY DEF TypeOK, Ended
  <2> HIDE DEF All
  <2>2. QED
    BY <1>1, <2>1
<1>5. /\ BatchStatus(ids).completed = Cardinality(in({"Completed"}))
      /\ BatchStatus(ids).failed = Cardinality(in({"Failed"}))
      /\ BatchStatus(ids).total = Cardinality(in(All))
      /\ BatchStatus(ids).percent = percent(Cardinality(in(Ended)), Cardinality(in(All)))
  BY DEF BatchStatus
<1>6. /\ BatchStatus(ids)'.completed = Cardinality(next({"Completed"}))
      /\ BatchStatus(ids)'.failed = Cardinality(next({"Failed"}))
      /\ BatchStatus(ids)'.total = Cardinality(next(All))
      /\ BatchStatus(ids)'.percent = percent(Cardinality(next(Ended)), Cardinality(next(All)))
  BY DEF BatchStatus
<1>7. results \subseteq results'
  BY DEF TypeOK, Ended
<1> HIDE DEF in, next, All
<1>8. \A set : in(set) \subseteq next(set) =>
        /\ Cardinality(in(set)) \in Nat /\ Cardinality(next(set)) \in Nat
        /\ Cardinality(in(set)) <= Cardinality(next(set))
  BY <1>2, FS_Subset, FS_CardinalityType
<1>9. \/ BatchStatus(ids).percent <= BatchStatus(ids)'.percent
      \/ BatchStatus(ids).total < BatchStatus(ids)'.total
  <2>1. CASE Cardinality(in(All)) = Cardinality(next(All))
    <3>1. percent(Cardinality(in(Ended)), Cardinality(in(All)))
            <= percent(Cardinality(next(Ended)), Cardinality(in(All)))
      BY <1>3, <1>4, <1>8, PercentGrows
    <3>2. QED
      BY <1>5, <1>6, <2>1, <3>1
  <2>2. CASE Cardinality(in(All)) < Cardinality(next(All))
    BY <1>5, <1>6, <2>2
  <2>3. QED
    BY <1>4, <1>8, <2>1, <2>2
<1>10. QED
  BY <1>3, <1>5, <1>6, <1>7, <1>8, <1>9 DEF BatchResults

\* A task that has been submitted is not forgotten.
LEMMA SubmittedStays ==
  ASSUME IInv, Next
  PROVE  \A t \in Tasks : status[t] # "Absent" => status'[t] # "Absent"
<1>1. status \in [Tasks -> {"Absent", "Pending", "Running", "Completed", "Failed"}]
  BY DEF IInv, TypeOK
<1>2. ASSUME NEW r, NEW outcome, HandleResult(r, outcome)
      PROVE  \A t \in Tasks : status[t] # "Absent" => status'[t] # "Absent"
  BY <1>1, <1>2 DEF HandleResult
<1>3. CASE \E b \in Batches : Submit(b)
  BY <1>3 DEF Submit
<1>4. CASE Dispatch
  BY <1>4 DEF Dispatch
<1>5. CASE ProcessLate
  BY <1>2, <1>5 DEF ProcessLate
<1>6. ASSUME NEW w \in Workers, NEW k \in Threads, SendResult(w, k)
      PROVE  \A t \in Tasks : status[t] # "Absent" => status'[t] # "Absent"
  BY <1>2, <1>6 DEF SendResult
<1>7. ASSUME NEW w \in Workers,
             Register(w) \/ Beat(w) \/ Expire(w) \/ Stop(w) \/ Crash(w) \/ Restart(w)
      PROVE  status' = status
  BY <1>7 DEF Register, Beat, SendHeartbeat, ProcessHeartbeat, Expire, Stop, Crash, Restart, taskVars
<1>8. ASSUME NEW w \in Workers, NEW k \in Threads,
             Take(w, k) \/ Finish(w, k) \/ LeaveLoop(w, k) \/ TimeOut(w, k)
      PROVE  status' = status
  BY <1>8 DEF Take, Finish, LeaveLoop, TimeOut, taskVars
<1>9. QED
  BY <1>3, <1>4, <1>5, <1>6, <1>7, <1>8 DEF Next, ThreadStep

(* No task that has ended is run again or changes its outcome, however     *)
(* late a result comes; what an id is asked about loses no result and no   *)
(* task that completed or failed, and progress only when tasks are         *)
(* submitted whose ids begin with it: whatever the tasks, batches, ids,    *)
(* workers, threads, limits and failures.                                  *)
THEOREM EndedTasksStayEnded ==
  ASSUME TasksAssumption, WorkersAssumption, LimitsAssumption PROVE Spec => EndedIsKept
<1> DEFINE Kept ==
      /\ \A t \in Tasks : status[t] \in Ended => status'[t] = status[t]
      /\ \A ids \in Prefixed :
           LET before == BatchStatus(ids)
               after == BatchStatus(ids)'
           IN  /\ BatchResults(ids) \subseteq BatchResults(ids)'
               /\ before.completed <= after.completed /\ before.failed <= after.failed
               /\ before.percent <= after.percent \/ before.total < after.total
<1>1. IInv /\ IInv' /\ [Next]_vars => [Kept]_vars
  <2> SUFFICES ASSUME IInv, IInv', Next PROVE Kept
    OBVIOUS
  <2>1. \A t \in Tasks : status[t] \in Ended => status'[t] = status[t]
    BY EndedStays
  <2>2. \A t \in Tasks : status[t] # "Absent" => status'[t] # "Absent"
    BY SubmittedStays
  <2>3. TypeOK /\ TypeOK'
    BY DEF IInv
  <2>4. QED
    BY <2>1, <2>2, <2>3, BatchesGrow
<1>2. Spec => [][Next]_vars
  BY PTL DEF Spec
<1>3. QED
  BY <1>1, <1>2, Invariance, PTL DEF EndedIsKept

-------------------------------------------------------------------------------
(* The study.  An entity's marks are right when the states before the      *)
(* newest that are not superseded are those an injection has revived, and  *)
(* the newest is superseded only as a copy of the one before it.           *)

State ==
  [value : Values \cup {Fabricated}, observed : Int, from : Int, until : Int,
   maxAge : Int, superseded : BOOLEAN, source : {Raw, Unknown}, confidence : Nat]

Copied(entity) ==
  LET n == Len(entity)
  IN  n > 0 /\ entity[n].superseded => n > 1 /\ entity[n] = [entity[n - 1] EXCEPT !.source = Unknown]

\* A state that may be added.
CopyFits(entity, s) ==
  s.superseded => /\ Len(entity) > 0
                  /\ s = [entity[Len(entity)] EXCEPT !.superseded = TRUE, !.source = Unknown]

Marked(entity, rev) ==
  /\ rev \subseteq 1..(Len(entity) - 1)
  /\ \A v \in 1..(Len(entity) - 1) : entity[v].superseded <=> v \notin rev
  /\ Copied(entity)

LEMMA TableIsSeq ==
  ASSUME NEW n \in Nat, NEW S, NEW f \in [1..n -> S]
  PROVE  f \in Seq(S) /\ Len(f) = n
<1>1. f \in Seq(S)
  BY SeqDef
<1>2. QED
  BY <1>1

LEMMA MarkedWhenNew ==
  ASSUME NEW entity \in Seq(State), NEW rev, Marked(entity, rev), NEW s \in State,
         CopyFits(entity, s)
  PROVE  /\ Study!AddState(entity, s) \in Seq(State)
         /\ Len(Study!AddState(entity, s)) = Len(entity) + 1
         /\ Study!AddState(entity, s)[Len(entity) + 1] = s
         /\ Marked(Study!AddState(entity, s), rev)
<1> DEFINE n == Len(entity)
           old == [i \in 1..n |-> [entity[i] EXCEPT !.superseded = @ \/ i = n]]
           new == Study!AddState(entity, s)
<1>1. n \in Nat /\ new = Append(old, s)
  BY DEF Study!AddState
<1>2. ASSUME NEW i \in 1..n
      PROVE  old[i] \in State /\ old[i].superseded = (entity[i].superseded \/ i = n)
  <2>1. entity[i] \in State
    BY <1>1
  <2>2. QED
    BY <2>1 DEF State
<1>3. old \in Seq(State) /\ Len(old) = n
  <2>1. \A i \in 1..n : old[i] \in State
    BY <1>2
  <2>2. old \in [1..n -> State]
    BY <2>1
  <2>3. QED
    BY <1>1, <2>2, TableIsSeq
<1> HIDE DEF old
<1>4. /\ new \in Seq(State) /\ Len(new) = n + 1 /\ new[n + 1] = s
      /\ \A i \in 1..n : new[i] = old[i]
  BY <1>1, <1>3, AppendProperties
<1> HIDE DEF new
<1>5. ASSUME NEW v \in 1..n PROVE new[v].superseded <=> v \notin rev
  <2>1. CASE v = n
    <3>1. v \notin rev
      BY <2>1, <1>1, <1>5 DEF Marked
    <3>2. new[v].superseded
      BY <2>1, <1>5, <1>2, <1>4
    <3>3. QED
      BY <3>1, <3>2
  <2>2. CASE v # n
    <3>1. v \in 1..(n - 1)
      BY <2>2, <1>1, <1>5
    <3>2. entity[v] \in State
      BY <1>5
    <3>3. new[v].superseded = entity[v].superseded
      BY <2>2, <3>2, <1>2, <1>4, <1>5 DEF State
    <3>4. QED
      BY <3>1, <3>3 DEF Marked
  <2>3. QED
    BY <2>1, <2>2
<1>6. rev \subseteq 1..n
  BY <1>1 DEF Marked
<1>7. Copied(new)
  <2>1. SUFFICES ASSUME s.superseded
                 PROVE  n + 1 > 1 /\ s = [new[n] EXCEPT !.source = Unknown]
    BY <1>1, <1>4 DEF Copied
  <2>2. n > 0 /\ n \in 1..n
    BY <1>1, <2>1 DEF CopyFits
  <2>3. new[n] = [entity[n] EXCEPT !.superseded = TRUE]
    <3>1. new[n] = old[n] /\ old[n] = [entity[n] EXCEPT !.superseded = @ \/ n = n]
      BY <1>4, <2>2 DEF old
    <3>2. (entity[n].superseded \/ n = n) = TRUE
      OBVIOUS
    <3>3. QED
      BY <3>1, <3>2
  <2>4. s = [entity[n] EXCEPT !.superseded = TRUE, !.source = Unknown]
    BY <2>1 DEF CopyFits
  <2>5. QED
    BY <1>1, <2>2, <2>3, <2>4
<1>8. Marked(new, rev)
  <2>1. Len(new) - 1 = n
    BY <1>1, <1>4
  <2>2. QED
    BY <2>1, <1>5, <1>6, <1>7 DEF Marked
<1>9. QED
  BY <1>4, <1>8 DEF new

LEMMA MarkedWhenRevived ==
  ASSUME NEW entity \in Seq(State), NEW rev, Marked(entity, rev), Len(entity) >= 2,
         ~entity[Len(entity)].superseded, NEW now \in Int, Linger \in Nat
  PROVE  /\ Study!Resurrect(entity, now, Linger) \in Seq(State)
         /\ Len(Study!Resurrect(entity, now, Linger)) = Len(entity)
         /\ Marked(Study!Resurrect(entity, now, Linger), rev \cup {Len(entity) - 1})
<1> DEFINE n == Len(entity)
           new == Study!Resurrect(entity, now, Linger)
<1>1. n \in Nat /\ n - 1 \in 1..n /\ DOMAIN entity = 1..n
  OBVIOUS
<1>2. /\ DOMAIN new = 1..n
      /\ \A i \in 1..n : i # n - 1 => new[i] = entity[i]
      /\ new[n - 1] = [[entity[n - 1] EXCEPT !.superseded = FALSE] EXCEPT !.until = now + Linger]
  <2> DEFINE mid == [entity EXCEPT ![n - 1].superseded = FALSE]
  <2>1. new = [mid EXCEPT ![n - 1].until = now + Linger]
    BY DEF Study!Resurrect
  <2>2. /\ DOMAIN mid = 1..n /\ mid[n - 1] = [entity[n - 1] EXCEPT !.superseded = FALSE]
        /\ \A i \in 1..n : i # n - 1 => mid[i] = entity[i]
    BY <1>1
  <2> HIDE DEF mid
  <2>3. QED
    BY <1>1, <2>1, <2>2
<1>3. entity[n - 1] \in State /\ now + Linger \in Int
  BY <1>1
<1>4. new[n - 1] \in State /\ new[n - 1].superseded = FALSE
  BY <1>2, <1>3 DEF State
<1>5. new \in Seq(State) /\ Len(new) = n
  <2>1. \A i \in 1..n : new[i] \in State
    BY <1>2, <1>4
  <2>2. new \in [1..n -> State]
    <3>1. new = [i \in 1..n |-> new[i]]
      BY <1>2 DEF Study!Resurrect
    <3>2. QED
      BY <2>1, <3>1
  <2>3. QED
    BY <1>1, <2>2, TableIsSeq
<1>6. ASSUME NEW v \in 1..(n - 1)
      PROVE  new[v].superseded <=> v \notin rev \cup {n - 1}
  <2>1. CASE v = n - 1
    BY <2>1, <1>4
  <2>2. CASE v # n - 1
    <3>1. v \in 1..n
      BY <1>1, <1>6
    <3>2. new[v] = entity[v]
      BY <2>2, <3>1, <1>2
    <3>3. QED
      BY <2>2, <3>2, <1>6 DEF Marked
  <2>3. QED
    BY <2>1, <2>2
<1> HIDE DEF new
<1>7. Marked(new, rev \cup {n - 1})
  <2>1. rev \cup {n - 1} \subseteq 1..(n - 1)
    <3>1. rev \subseteq 1..(n - 1)
      BY DEF Marked
    <3>2. n - 1 \in 1..(n - 1)
      BY <1>1
    <3>3. QED
      BY <3>1, <3>2
  <2>2. \A v \in 1..(Len(new) - 1) : new[v].superseded <=> v \notin rev \cup {n - 1}
    BY <1>5, <1>6
  <2>3. Copied(new)
    <3> HIDE DEF n
    <3>1. n \in 1..n /\ n # n - 1
      BY <1>1
    <3>2. ~new[Len(new)].superseded
      <4>1. new[n] = entity[n] /\ Len(new) = n
        BY <1>2, <1>5, <3>1
      <4>2. ~entity[n].superseded
        BY DEF n
      <4>3. QED
        BY <4>1, <4>2
    <3>3. QED
      BY <3>2 DEF Copied
  <2>4. QED
    BY <1>5, <2>1, <2>2, <2>3 DEF Marked
<1>8. QED
  BY <1>5, <1>7 DEF new

LEMMA StudyCardinality == ASSUME NEW S PROVE Study!Cardinality(S) = Cardinality(S)
BY DEF Study!Cardinality, Cardinality

LEMMA VersionsFinite ==
  ASSUME NEW n \in Nat, NEW S, S \subseteq 1..n
  PROVE  IsFiniteSet(S) /\ Study!Cardinality(S) \in Nat /\ (Study!Cardinality(S) = 0 <=> S = {})
<1>1. IsFiniteSet(1..n)
  BY FS_Interval
<1>2. IsFiniteSet(S)
  BY <1>1, FS_Subset
<1>3. QED
  BY <1>2, FS_CardinalityType, FS_EmptySet, StudyCardinality

\* The newest valid version is a valid one.
LEMMA CurrentIsValid ==
  ASSUME NEW entity, Len(entity) \in Nat, NEW now
  PROVE  /\ Study!CurrentState(entity, now) \in 0..Len(entity)
         /\ Study!CurrentState(entity, now) > 0 =>
              Study!CurrentState(entity, now) \in Study!ValidVersions(entity, now)
<1> DEFINE n == Len(entity)
           S == Study!ValidVersions(entity, now) \cup {0}
           T == {k \in Nat : n - k \in S}
<1>1. S \subseteq 0..n /\ 0 \in S /\ n \in Nat
  BY DEF Study!ValidVersions
<1>2. n \in T /\ T \in SUBSET Nat
  BY <1>1
<1>3. PICK k \in T : \A l \in T : k <= l
  BY <1>2, NatLeast
<1>4. \A y \in S : n - k >= y
  <2> TAKE y \in S
  <2>1. y \in 0..n /\ n - y \in Nat /\ n - (n - y) = y
    BY <1>1
  <2>2. n - y \in T
    BY <2>1
  <2>3. QED
    BY <1>1, <1>3, <2>1, <2>2
<1>5. n - k \in S
  BY <1>3
<1> HIDE DEF S, T
<1>6. Study!CurrentState(entity, now) = CHOOSE x \in S : \A y \in S : x >= y
  BY DEF Study!CurrentState, Study!Max, S
<1>7. Study!CurrentState(entity, now) \in S
  BY <1>4, <1>5, <1>6
<1>8. QED
  BY <1>1, <1>7 DEF S

\* A conflict needs two valid versions: one of them is not the newest.
LEMMA ConflictIsOld ==
  ASSUME NEW entity, Len(entity) \in Nat, NEW now, Study!HasConflict(entity, now)
  PROVE  \E v \in Study!ValidVersions(entity, now) : v # Len(entity)
<1> DEFINE V == Study!ValidVersions(entity, now)
           X == {entity[v].value : v \in V}
<1>1. SUFFICES ASSUME \A v \in V : v = Len(entity) PROVE FALSE
  OBVIOUS
<1>2. X \subseteq {entity[Len(entity)].value}
  BY <1>1
<1> HIDE DEF V
<1>3. X = {} \/ X = {entity[Len(entity)].value}
  BY <1>2
<1>4. Cardinality(X) = 0 \/ Cardinality(X) = 1
  BY <1>3, FS_EmptySet, FS_Singleton
<1>5. Cardinality(X) > 1
  BY StudyCardinality DEF Study!HasConflict, V
<1>6. QED
  BY <1>4, <1>5

Contaminations == Study!Elsewhere \cup Study!Lies \cup {"StaleState"}

\* What is found is counted; and nothing is found where nothing is switched on.
LEMMA FindingsCount ==
  ASSUME Study!ExperimentAssumption, NEW c \in Configs, NEW type, NEW entity \in Seq(State), NEW now
  PROVE  Study!Findings(c, type, entity, now) \in Nat
<1>1. Study!Cardinality(Study!OldValid(entity, now)) \in Nat
  <2>1. Len(entity) \in Nat /\ Study!OldValid(entity, now) \subseteq 1..Len(entity)
    BY DEF Study!OldValid, Study!ValidVersions
  <2>2. QED
    BY <2>1, VersionsFinite
<1>2. QED
  BY <1>1 DEF Study!Findings

StudyEvent == [entity : Entities, value : Values, time : Nat]
Counters == [tainted : SUBSET Nat, found : Nat, residual : Nat, stale : Nat]

StudyTypes ==
  /\ history \in Seq(StudyEvent)
  /\ injected \in Seq(Contaminations \cup {None}) /\ Len(injected) = Len(history)
  /\ store \in [Entities -> Seq(State)]
  /\ runs \in [Configs -> Counters]
  /\ \A c \in Configs : runs[c].tainted \subseteq 1..Len(history)
  /\ revived \in [Entities -> SUBSET Nat]

TimesGrow == \A i, j \in 1..Len(history) : i < j => history[i].time < history[j].time

\* What DetectionLimits says of the newest event.
LimitsKept ==
  history # <<>> =>
    \A c \in Configs : Study!Mitigates(c) =>
      LET entity == store[history[Len(history)].entity]
          time == history[Len(history)].time
          carried == injected[Len(history)]
          passed == Len(history) \in runs[c].tainted
      IN  /\ carried = "StaleState" /\ c.flags.provenance /\ passed =>
               ~Study!IsValidAt(entity[Len(entity) - 1], time)
          /\ carried \in Study!Lies /\ ~passed =>
               \E v \in revived[history[Len(history)].entity] : Study!IsValidAt(entity[v], time)
          /\ carried \in {"SummaryContamination", "RetrievalContamination"} => passed

StudyInv ==
  /\ StudyTypes /\ TimesGrow
  /\ \A e \in Entities : Marked(store[e], revived[e])
  /\ LimitsKept /\ Study!StrongerNeverWorse

LEMMA NowIsTime ==
  ASSUME StudyTypes
  PROVE  /\ Study!Now \in Nat
         /\ history # <<>> => Study!Now = history[Len(history)].time
<1>1. CASE history = <<>>
  BY <1>1 DEF Study!Now
<1>2. CASE history # <<>>
  <2>1. history[Len(history)] \in StudyEvent
    BY <1>2 DEF StudyTypes
  <2>2. QED
    BY <1>2, <2>1 DEF Study!Now, StudyEvent
<1>3. QED
  BY <1>1, <1>2

LEMMA RecordedFits ==
  ASSUME StudyInv, NEW event \in StudyEvent
  PROVE  /\ Study!Recorded(event) \in Seq(State)
         /\ Len(Study!Recorded(event)) = Len(store[event.entity]) + 1
         /\ ~Study!Recorded(event)[Len(Study!Recorded(event))].superseded
         /\ Marked(Study!Recorded(event), revived[event.entity])
<1>1. event.entity \in Entities /\ event.value \in Values /\ event.time \in Int
  BY DEF StudyEvent
<1>2. store[event.entity] \in Seq(State) /\ Marked(store[event.entity], revived[event.entity])
  BY <1>1 DEF StudyInv, StudyTypes
<1> DEFINE s == Study!Observed(event.value, event.time)
<1>3. s \in State /\ ~s.superseded /\ CopyFits(store[event.entity], s)
  BY <1>1 DEF Study!Observed, State, CopyFits
<1> HIDE DEF s
<1>4. Study!Recorded(event) = Study!AddState(store[event.entity], s)
  BY DEF Study!Recorded, s
<1>5. QED
  BY <1>2, <1>3, <1>4, MarkedWhenNew

LEMMA BindFits ==
  ASSUME NEW from \in Seq(State), NEW entity \in Seq(State), NEW rev, Marked(entity, rev), NEW now,
         Study!CanBind(from, now), NEW same \in BOOLEAN, same => from = entity
  PROVE  /\ Study!Bind(from, entity, now, same) \in Seq(State)
         /\ Len(Study!Bind(from, entity, now, same)) = Len(entity) + 1
         /\ Marked(Study!Bind(from, entity, now, same), rev)
<1> DEFINE v == Study!CurrentState(from, now)
           s == [from[v] EXCEPT !.source = Unknown, !.superseded = same /\ v = Len(entity)]
<1>1. v \in Study!ValidVersions(from, now)
  <2>1. Len(from) \in Nat
    OBVIOUS
  <2>2. QED
    BY <2>1, CurrentIsValid DEF Study!CanBind
<1>2. Study!Bind(from, entity, now, same) = Study!AddState(entity, s)
  BY DEF Study!Bind
<1> HIDE DEF v
<1>3. v \in 1..Len(from) /\ from[v] \in State
  BY <1>1 DEF Study!ValidVersions
<1>4. s \in State /\ s.superseded = (same /\ v = Len(entity))
  BY <1>3 DEF State
<1>5. CopyFits(entity, s)
  <2>1. SUFFICES ASSUME same, v = Len(entity)
                 PROVE  /\ Len(entity) > 0
                        /\ s = [entity[Len(entity)] EXCEPT !.superseded = TRUE, !.source = Unknown]
    BY <1>4 DEF CopyFits
  <2>2. from = entity /\ Len(entity) > 0
    BY <1>3, <2>1
  <2>3. QED
    BY <1>3, <2>1, <2>2 DEF State
<1> HIDE DEF s
<1>6. QED
  BY <1>2, <1>4, <1>5, MarkedWhenNew

LEMMA FabricateFits ==
  ASSUME NEW entity \in Seq(State), NEW rev, Marked(entity, rev), NEW now \in Nat, Linger \in Nat
  PROVE  /\ Study!Fabricate(entity, Fabricated, now, Linger) \in Seq(State)
         /\ Len(Study!Fabricate(entity, Fabricated, now, Linger)) = Len(entity) + 1
         /\ Marked(Study!Fabricate(entity, Fabricated, now, Linger), rev)
<1> DEFINE s == [value |-> Fabricated, observed |-> now, from |-> now, until |-> now + Linger,
                 maxAge |-> Linger, superseded |-> FALSE, source |-> Raw, confidence |-> 95]
<1>1. s \in State /\ CopyFits(entity, s)
  BY DEF State, CopyFits
<1>2. Study!Fabricate(entity, Fabricated, now, Linger) = Study!AddState(entity, s)
  BY DEF Study!Fabricate
<1> HIDE DEF s
<1>3. QED
  BY <1>1, <1>2, MarkedWhenNew

-------------------------------------------------------------------------------
(* Contexts.                                                               *)

LEMMA ContextIsPast ==
  ASSUME NEW c \in Configs, NEW event
  PROVE  Study!GetContext(c.method, c.flags, event, history) \subseteq DOMAIN history
BY DEF Study!GetContext, Study!FixedWindow, Study!RollingSummary, Study!VectorRetrieval, Study!Younger,
       Study!VersionedContext, Study!LatestPerEntity

\* What a stronger configuration is shown, a weaker one is shown too.
LEMMA ContextShrinks ==
  ASSUME Study!MethodAssumption, Study!ExperimentAssumption, StudyTypes,
         NEW c \in Configs, NEW d \in Configs, Study!Stronger(c, d), NEW event \in StudyEvent
  PROVE  Study!GetContext(c.method, c.flags, event, history)
           \subseteq Study!GetContext(d.method, d.flags, event, history)
<1>1. CASE d.method = "FullHistory"
  <2>1. Study!GetContext(d.method, d.flags, event, history) = DOMAIN history
    BY <1>1 DEF Study!GetContext
  <2>2. QED
    BY <2>1, ContextIsPast
<1>2. CASE d.method # "FullHistory"
  <2>1. /\ c.method \in {"VersionedContext", "FullVersionedIntegrity"}
        /\ d.method \in {"VersionedContext", "FullVersionedIntegrity"}
        /\ d.flags.temporal => c.flags.temporal
        /\ d.flags.forgetting => c.flags.forgetting
    BY <1>2 DEF Study!Stronger, Study!Mitigates, Study!ExperimentAssumption, Study!Flags
  <2>2. /\ Study!GetContext(c.method, c.flags, event, history) = Study!VersionedContext(event, history, c.flags)
        /\ Study!GetContext(d.method, d.flags, event, history) = Study!VersionedContext(event, history, d.flags)
    BY <2>1 DEF Study!GetContext
  <2> DEFINE young == Study!Younger(event, history, MaxAge)
             kc == IF c.flags.temporal THEN young ELSE DOMAIN history
             kd == IF d.flags.temporal THEN young ELSE DOMAIN history
  <2>3. young \subseteq DOMAIN history /\ kc \subseteq kd /\ kd \subseteq DOMAIN history
    BY <2>1 DEF Study!Younger
  <2>4. \A i \in kc, j \in kd \ kc : history[j].time < history[i].time
    <3> TAKE i \in kc, j \in kd \ kc
    <3>1. i \in young /\ j \in DOMAIN history /\ j \notin young
      BY <2>3
    <3>2. history[i].time \in Nat /\ history[j].time \in Nat /\ event.time \in Nat /\ MaxAge \in Nat
      <4>1. history[i] \in StudyEvent /\ history[j] \in StudyEvent
        BY <2>3, <3>1 DEF StudyTypes
      <4>2. QED
        BY <4>1 DEF StudyEvent, Study!MethodAssumption
    <3>3. event.time - history[i].time <= MaxAge /\ ~(event.time - history[j].time <= MaxAge)
      BY <3>1 DEF Study!Younger
    <3>4. QED
      BY <3>2, <3>3
  <2>5. Study!LatestPerEntity(history, kc) \subseteq Study!LatestPerEntity(history, kd)
    BY <2>3, <2>4 DEF Study!LatestPerEntity
  <2>6. Study!LatestPerEntity(history, kc) \subseteq kc
    BY DEF Study!LatestPerEntity
  <2>7. /\ Study!VersionedContext(event, history, c.flags) =
             IF c.flags.forgetting THEN Study!LatestPerEntity(history, kc) ELSE kc
        /\ Study!VersionedContext(event, history, d.flags) =
             IF d.flags.forgetting THEN Study!LatestPerEntity(history, kd) ELSE kd
    BY DEF Study!VersionedContext
  <2> HIDE DEF kc, kd
  <2>8. QED
    BY <2>1, <2>2, <2>3, <2>5, <2>6, <2>7
<1>3. QED
  BY <1>1, <1>2

-------------------------------------------------------------------------------
(* One event.                                                              *)

\* A stronger configuration finds something wherever a weaker one does.
LEMMA StrongerFinds ==
  ASSUME Study!ExperimentAssumption, NEW c \in Configs, NEW d \in Configs, Study!Stronger(c, d),
         NEW type, NEW entity, NEW now, Study!Findings(c, type, entity, now) = 0
  PROVE  Study!Findings(d, type, entity, now) = 0
<1>1. CASE d.method = "FullHistory"
  BY <1>1 DEF Study!Findings, Study!Mitigates, Study!FullIntegrity
<1>2. CASE d.method # "FullHistory"
  <2>1. /\ Study!Mitigates(c) /\ Study!Mitigates(d)
        /\ Study!FullIntegrity(d) => Study!FullIntegrity(c)
        /\ d.flags.provenance => c.flags.provenance
        /\ d.flags.conflict => c.flags.conflict
        /\ d.flags.crossAgent => c.flags.crossAgent
    BY <1>2 DEF Study!Stronger, Study!ExperimentAssumption, Study!Flags
  <2>2. CASE type = "StaleState" /\ d.flags.provenance
    <3>1. /\ Study!Findings(c, type, entity, now) = Study!Cardinality(Study!OldValid(entity, now))
          /\ Study!Findings(d, type, entity, now) = Study!Cardinality(Study!OldValid(entity, now))
      BY <2>1, <2>2 DEF Study!Findings, Study!Lies
    <3>2. QED
      BY <3>1
  <2>3. ASSUME Study!FullIntegrity(d), type \in Study!Lies, d.flags.conflict, Study!HasConflict(entity, now)
        PROVE  FALSE
    <3>1. Study!Findings(c, type, entity, now) = 1
      BY <2>1, <2>3 DEF Study!Findings, Study!Lies
    <3>2. QED
      BY <3>1
  <2>4. ASSUME Study!FullIntegrity(d), type = "CrossAgentContamination", d.flags.crossAgent
        PROVE  FALSE
    <3>1. Study!Findings(c, type, entity, now) = 1
      BY <2>1, <2>4 DEF Study!Findings, Study!Lies
    <3>2. QED
      BY <3>1
  <2>5. QED
    BY <2>2, <2>3, <2>4 DEF Study!Findings
<1>3. QED
  BY <1>1, <1>2

Found(c, type, entity, event) ==
  IF type = None THEN 0 ELSE Study!Findings(c, type, entity, event.time)
Survives(c, type, entity, event) == type # None /\ Found(c, type, entity, event) = 0

IsAccount(a, c, type, survives, context) ==
  /\ a \in Counters
  /\ a.tainted \subseteq 1..(Len(history) + 1)
  /\ a.tainted = IF survives THEN runs[c].tainted \cup {Len(history) + 1} ELSE runs[c].tainted
  /\ a.residual = Cardinality(context \cap runs[c].tainted)
  /\ a.stale = runs[c].stale + IF a.residual > 0 \/ (survives /\ type = "StaleState") THEN 1 ELSE 0
  /\ Len(history) + 1 \in a.tainted <=> survives

LEMMA Accounted ==
  ASSUME Study!ExperimentAssumption, StudyTypes, NEW c \in Configs, NEW event \in StudyEvent, NEW type,
         NEW entity \in Seq(State)
  PROVE  IsAccount(Study!Account(c, event, type, entity), c, type, Survives(c, type, entity, event),
                   Study!GetContext(c.method, c.flags, event, history))
<1> DEFINE a == Study!Account(c, event, type, entity)
           context == Study!GetContext(c.method, c.flags, event, history)
           f == Found(c, type, entity, event)
           survives == Survives(c, type, entity, event)
           residual == Study!Cardinality(context \cap runs[c].tainted)
           usesOld == residual > 0 \/ (survives /\ type = "StaleState")
<1>1. /\ Len(history) \in Nat /\ runs[c] \in Counters
      /\ runs[c].tainted \subseteq 1..Len(history)
      /\ runs[c].tainted \in SUBSET Nat /\ runs[c].found \in Nat /\ runs[c].stale \in Nat
  BY DEF StudyTypes, Counters
<1>2. a = [tainted |-> IF survives THEN runs[c].tainted \cup {Len(history) + 1} ELSE runs[c].tainted,
           found |-> runs[c].found + f, residual |-> residual,
           stale |-> runs[c].stale + (IF usesOld THEN 1 ELSE 0)]
  BY DEF Study!Account, Survives, Found
<1>3. f \in Nat
  BY FindingsCount DEF Found
<1>4. residual \in Nat
  <2>1. context \cap runs[c].tainted \subseteq 1..Len(history)
    BY <1>1
  <2>2. QED
    BY <1>1, <2>1, VersionsFinite
<1>5. residual = Cardinality(context \cap runs[c].tainted)
  BY StudyCardinality
<1> HIDE DEF a, f, survives, residual
<1>6. a \in Counters
  BY <1>1, <1>2, <1>3, <1>4 DEF Counters
<1>7. a.tainted = IF survives THEN runs[c].tainted \cup {Len(history) + 1} ELSE runs[c].tainted
  BY <1>2
<1>8. /\ a.tainted \subseteq 1..(Len(history) + 1)
      /\ Len(history) + 1 \in a.tainted <=> survives
  BY <1>1, <1>7
<1>9. a.residual = residual /\ a.stale = runs[c].stale + (IF usesOld THEN 1 ELSE 0)
  BY <1>2
<1>10. IsAccount(a, c, type, survives, context)
  BY <1>5, <1>6, <1>7, <1>8, <1>9 DEF IsAccount
<1>11. QED
  BY <1>10 DEF a, survives

LEMMA StrongerAccounts ==
  ASSUME Study!MethodAssumption, Study!ExperimentAssumption, StudyTypes, Study!StrongerNeverWorse,
         NEW c \in Configs, NEW d \in Configs, Study!Stronger(c, d),
         NEW event \in StudyEvent, NEW type, NEW entity \in Seq(State)
  PROVE  LET a == Study!Account(c, event, type, entity)
             b == Study!Account(d, event, type, entity)
         IN  a.tainted \subseteq b.tainted /\ a.residual <= b.residual /\ a.stale <= b.stale
<1> DEFINE a == Study!Account(c, event, type, entity)
           b == Study!Account(d, event, type, entity)
           ca == Study!GetContext(c.method, c.flags, event, history)
           cb == Study!GetContext(d.method, d.flags, event, history)
           sa == Survives(c, type, entity, event)
           sb == Survives(d, type, entity, event)
<1>1. runs[c].tainted \subseteq runs[d].tainted /\ runs[c].stale <= runs[d].stale
  BY DEF Study!StrongerNeverWorse
<1>2. sa => sb
  BY StrongerFinds DEF Survives, Found
<1>3. /\ a \in Counters /\ b \in Counters
      /\ a.tainted = IF sa THEN runs[c].tainted \cup {Len(history) + 1} ELSE runs[c].tainted
      /\ b.tainted = IF sb THEN runs[d].tainted \cup {Len(history) + 1} ELSE runs[d].tainted
      /\ a.residual = Cardinality(ca \cap runs[c].tainted)
      /\ b.residual = Cardinality(cb \cap runs[d].tainted)
      /\ a.stale = runs[c].stale + IF a.residual > 0 \/ (sa /\ type = "StaleState") THEN 1 ELSE 0
      /\ b.stale = runs[d].stale + IF b.residual > 0 \/ (sb /\ type = "StaleState") THEN 1 ELSE 0
  <2>1. IsAccount(a, c, type, sa, ca) /\ IsAccount(b, d, type, sb, cb)
    BY Accounted
  <2> HIDE DEF a, b, sa, sb, ca, cb
  <2>2. QED
    BY <2>1 DEF IsAccount
<1>4. runs[c].stale \in Nat /\ runs[d].stale \in Nat
  BY DEF StudyTypes, Counters
<1>5. a.residual <= b.residual
  <2>1. ca \cap runs[c].tainted \subseteq cb \cap runs[d].tainted
    BY <1>1, ContextShrinks
  <2>2. IsFiniteSet(cb \cap runs[d].tainted)
    <3>1. Len(history) \in Nat /\ cb \cap runs[d].tainted \subseteq 1..Len(history)
      BY DEF StudyTypes
    <3>2. QED
      BY <3>1, VersionsFinite
  <2>3. QED
    BY <1>3, <2>1, <2>2, FS_Subset
<1>6. a.residual \in Nat /\ b.residual \in Nat
  BY <1>3 DEF Counters
<1> HIDE DEF a, b, sa, sb
<1>7. a.stale <= b.stale
  BY <1>1, <1>2, <1>3, <1>4, <1>5, <1>6
<1>8. a.tainted \subseteq b.tainted
  BY <1>1, <1>2, <1>3
<1>9. QED
  BY <1>5, <1>7, <1>8 DEF a, b

LEMMA ConcludeKeeps ==
  ASSUME Study!MethodAssumption, Study!ExperimentAssumption, StudyInv,
         NEW event \in StudyEvent, event.time > Study!Now, NEW type \in Contaminations \cup {None},
         NEW entity \in Seq(State), Len(entity) >= 1, type = "StaleState" => Len(entity) >= 2,
         NEW rev \in SUBSET Nat, Marked(entity, rev),
         revived' = [revived EXCEPT ![event.entity] = rev],
         Study!Conclude(event, type, entity)
  PROVE  StudyInv'
<1> DEFINE n == Len(history)
           account(c) == Study!Account(c, event, type, entity)
<1>1. /\ n \in Nat /\ history \in Seq(StudyEvent) /\ Len(injected) = n
      /\ event.entity \in Entities /\ event.time \in Nat /\ Len(entity) \in Nat
  BY DEF StudyInv, StudyTypes, StudyEvent
<1>2. /\ history' \in Seq(StudyEvent) /\ Len(history') = n + 1 /\ history'[n + 1] = event
      /\ \A i \in 1..n : history'[i] = history[i]
  BY <1>1, AppendProperties DEF Study!Conclude
<1>3. /\ injected' \in Seq(Contaminations \cup {None}) /\ Len(injected') = n + 1 /\ injected'[n + 1] = type
  BY <1>1, AppendProperties DEF Study!Conclude, StudyInv, StudyTypes
<1>4. /\ store' \in [Entities -> Seq(State)] /\ revived' \in [Entities -> SUBSET Nat]
      /\ store'[event.entity] = entity /\ revived'[event.entity] = rev
      /\ \A e \in Entities \ {event.entity} : store'[e] = store[e] /\ revived'[e] = revived[e]
  BY <1>1 DEF Study!Conclude, StudyInv, StudyTypes
<1>5. DOMAIN runs' = Configs /\ runs' = [c \in Configs |-> runs'[c]] /\ \A c \in Configs : runs'[c] = account(c)
  BY DEF Study!Conclude
<1>6. ASSUME NEW c \in Configs
      PROVE  IsAccount(runs'[c], c, type, Survives(c, type, entity, event),
                       Study!GetContext(c.method, c.flags, event, history))
  BY <1>5, Accounted DEF StudyInv
<1>7. \A c \in Configs : runs'[c] \in Counters /\ runs'[c].tainted \subseteq 1..(n + 1)
  BY <1>6 DEF IsAccount
<1>8. StudyTypes'
  <2>1. runs' \in [Configs -> Counters]
    BY <1>5, <1>7
  <2>2. \A c \in Configs : runs'[c].tainted \subseteq 1..Len(history')
    BY <1>2, <1>7
  <2>3. QED
    BY <1>2, <1>3, <1>4, <2>1, <2>2 DEF StudyTypes
<1>9. TimesGrow'
  <2> SUFFICES ASSUME NEW i \in 1..(n + 1), NEW j \in 1..(n + 1), i < j
               PROVE  history'[i].time < history'[j].time
    BY <1>2 DEF TimesGrow
  <2>1. CASE j \in 1..n
    <3>1. i \in 1..n
      BY <2>1, <1>1
    <3>2. QED
      BY <2>1, <3>1, <1>2 DEF StudyInv, TimesGrow
  <2>2. CASE j = n + 1
    <3>1. i \in 1..n /\ n \in 1..n /\ history # <<>>
      BY <2>2, <1>1
    <3>2. history[n].time = Study!Now /\ history[n].time < event.time
      BY <3>1, NowIsTime DEF StudyInv
    <3>3. history[i] \in StudyEvent /\ history[n] \in StudyEvent
      BY <3>1, <1>1
    <3>4. history[i].time \in Nat /\ history[n].time \in Nat
      BY <3>3 DEF StudyEvent
    <3>5. history[i].time <= history[n].time
      <4>1. CASE i = n
        BY <3>4, <4>1
      <4>2. CASE i < n
        BY <3>1, <3>4, <4>2 DEF StudyInv, TimesGrow
      <4>3. QED
        BY <3>1, <4>1, <4>2
    <3>6. QED
      BY <2>2, <3>1, <3>2, <3>4, <3>5, <1>1, <1>2
  <2>3. j \in 1..n \/ j = n + 1
    BY <1>1
  <2>4. QED
    BY <2>1, <2>2, <2>3
<1>10. \A e \in Entities : Marked(store'[e], revived'[e])
  BY <1>4 DEF StudyInv
<1>11. Study!StrongerNeverWorse'
  <2> SUFFICES ASSUME NEW c \in Configs, NEW d \in Configs, Study!Stronger(c, d)
               PROVE  /\ runs'[c].tainted \subseteq runs'[d].tainted
                      /\ runs'[c].residual <= runs'[d].residual
                      /\ runs'[c].stale <= runs'[d].stale
    BY DEF Study!StrongerNeverWorse, Study!Stronger, Study!Mitigates, Study!FullIntegrity
  <2>1. QED
    BY <1>5, StrongerAccounts DEF StudyInv
<1>12. LimitsKept'
  <2> SUFFICES ASSUME NEW c \in Configs, Study!Mitigates(c)
      PROVE  LET passed == n + 1 \in runs'[c].tainted
             IN  /\ type = "StaleState" /\ c.flags.provenance /\ passed =>
                      ~Study!IsValidAt(entity[Len(entity) - 1], event.time)
                 /\ type \in Study!Lies /\ ~passed =>
                      \E v \in rev : Study!IsValidAt(entity[v], event.time)
                 /\ type \in {"SummaryContamination", "RetrievalContamination"} => passed
    BY <1>2, <1>3, <1>4 DEF LimitsKept, Study!Mitigates, Study!IsValidAt, Study!Lies
  <2>1. n + 1 \in runs'[c].tainted <=> type # None /\ Found(c, type, entity, event) = 0
    BY <1>6 DEF IsAccount, Survives
  <2>2. type \in Contaminations => type # None
    BY DEF Contaminations, Study!ExperimentAssumption
  <2>3. ASSUME type = "StaleState", c.flags.provenance, n + 1 \in runs'[c].tainted
        PROVE  ~Study!IsValidAt(entity[Len(entity) - 1], event.time)
    <3>1. Study!Findings(c, type, entity, event.time) = 0
      BY <2>1, <2>3 DEF Found
    <3>2. Study!Findings(c, type, entity, event.time) = Study!Cardinality(Study!OldValid(entity, event.time))
      BY <2>3 DEF Study!Findings, Study!Lies
    <3>3. Study!OldValid(entity, event.time) = {}
      <4>1. Study!OldValid(entity, event.time) \subseteq 1..Len(entity)
        BY DEF Study!OldValid, Study!ValidVersions
      <4>2. QED
        BY <1>1, <3>1, <3>2, <4>1, VersionsFinite
    <3>4. Len(entity) - 1 \in 1..Len(entity) /\ Len(entity) - 1 # Len(entity)
      BY <1>1, <2>3
    <3>5. QED
      BY <3>3, <3>4 DEF Study!OldValid, Study!ValidVersions
  <2>4. ASSUME type \in Study!Lies, n + 1 \notin runs'[c].tainted
        PROVE  \E v \in rev : Study!IsValidAt(entity[v], event.time)
    <3>1. type # None /\ Study!Findings(c, type, entity, event.time) # 0
      BY <2>1, <2>2, <2>4 DEF Found, Contaminations
    <3>2. Study!HasConflict(entity, event.time)
      BY <2>4, <3>1 DEF Study!Findings, Study!Lies
    <3>3. PICK v \in Study!ValidVersions(entity, event.time) : v # Len(entity)
      BY <1>1, <3>2, ConflictIsOld
    <3>4. v \in 1..Len(entity) /\ Study!IsValidAt(entity[v], event.time) /\ ~entity[v].superseded
      BY <3>3 DEF Study!ValidVersions, Study!IsValidAt
    <3>5. v \in rev
      BY <1>1, <3>3, <3>4 DEF Marked
    <3>6. QED
      BY <3>4, <3>5
  <2>5. ASSUME type \in {"SummaryContamination", "RetrievalContamination"}
        PROVE  n + 1 \in runs'[c].tainted
    <3>1. Study!Findings(c, type, entity, event.time) = 0
      BY <2>5 DEF Study!Findings, Study!Lies
    <3>2. type # None
      BY <2>2, <2>5 DEF Contaminations, Study!Elsewhere
    <3>3. QED
      BY <2>1, <3>1, <3>2 DEF Found
  <2>6. QED
    BY <2>3, <2>4, <2>5
<1>13. QED
  BY <1>8, <1>9, <1>10, <1>11, <1>12 DEF StudyInv

LEMMA StudyStarts == ASSUME Study!ExperimentAssumption, Study!Init PROVE StudyInv
<1> USE DEF Study!Init
<1>1. StudyTypes /\ TimesGrow /\ LimitsKept
  BY DEF StudyTypes, TimesGrow, LimitsKept, Counters
<1>2. \A e \in Entities : Marked(store[e], revived[e])
  BY DEF Marked, Copied
<1>3. Study!StrongerNeverWorse
  BY DEF Study!StrongerNeverWorse
<1>4. QED
  BY <1>1, <1>2, <1>3 DEF StudyInv

LEMMA EventFollows ==
  ASSUME Study!ExperimentAssumption, StudyTypes, NEW e \in Entities, NEW value \in Values, NEW gap \in Gaps
  PROVE  /\ Study!Event(e, value, gap) \in StudyEvent
         /\ Study!Event(e, value, gap).time > Study!Now
<1>1. gap \in Nat /\ gap > 0 /\ Study!Now \in Nat
  <2>1. Gaps \subseteq Nat \ {0}
    BY DEF Study!ExperimentAssumption
  <2>2. QED
    BY <2>1, NowIsTime
<1>2. QED
  BY <1>1 DEF Study!Event, StudyEvent

LEMMA ObserveKeeps ==
  ASSUME Study!MethodAssumption, Study!ExperimentAssumption, StudyInv,
         NEW event \in StudyEvent, event.time > Study!Now, Study!Observe(event)
  PROVE  StudyInv'
<1> DEFINE recorded == Study!Recorded(event)
           old == store[event.entity]
           rev == revived[event.entity]
<1>1. /\ event.entity \in Entities /\ event.time \in Nat /\ Linger \in Nat
      /\ store \in [Entities -> Seq(State)] /\ revived \in [Entities -> SUBSET Nat]
      /\ old \in Seq(State) /\ Len(old) \in Nat /\ rev \in SUBSET Nat
  BY DEF StudyInv, StudyTypes, StudyEvent, Study!ExperimentAssumption
<1>2. /\ recorded \in Seq(State) /\ Len(recorded) \in Nat /\ Len(recorded) = Len(old) + 1
      /\ Len(recorded) >= 1 /\ ~recorded[Len(recorded)].superseded /\ Marked(recorded, rev)
  BY <1>1, RecordedFits
<1> HIDE DEF recorded
<1>3. UNCHANGED revived => revived' = [revived EXCEPT ![event.entity] = rev]
  BY <1>1
<1>4. /\ {None, "StaleState"} \subseteq Contaminations \cup {None}
      /\ Study!Elsewhere \cup Study!Lies \subseteq Contaminations \cup {None}
      /\ {None} \cup Study!Elsewhere \cup Study!Lies \subseteq Contaminations \cup {None}
      /\ "StaleState" \notin {None} \cup Study!Elsewhere \cup Study!Lies
  BY DEF Contaminations, Study!Elsewhere, Study!Lies, Study!ExperimentAssumption
<1>5. CASE Study!Clean(event)
  <2>1. Study!Conclude(event, None, recorded) /\ UNCHANGED revived
    BY <1>5 DEF Study!Clean, recorded
  <2>2. None \in Contaminations \cup {None} /\ (None = "StaleState" => Len(recorded) >= 2)
    BY <1>4
  <2>3. QED
    BY <1>1, <1>2, <1>3, <2>1, <2>2, ConcludeKeeps
<1>6. CASE Study!InjectStale(event)
  <2> DEFINE new == Study!Resurrect(recorded, event.time, Linger)
  <2>1. /\ Len(recorded) >= 2 /\ Study!Conclude(event, "StaleState", new)
        /\ revived' = [revived EXCEPT ![event.entity] = rev \cup {Len(old)}]
    BY <1>6 DEF Study!InjectStale, Study!CanResurrect, recorded
  <2>2. /\ new \in Seq(State) /\ Len(new) = Len(old) + 1
        /\ Marked(new, rev \cup {Len(recorded) - 1})
    <3>1. event.time \in Int
      BY <1>1
    <3> HIDE DEF rev
    <3>2. QED
      BY <1>1, <1>2, <2>1, <3>1, MarkedWhenRevived
  <2>3. Len(recorded) - 1 = Len(old) /\ rev \cup {Len(old)} \in SUBSET Nat
    BY <1>1, <1>2
  <2>4. "StaleState" \in Contaminations \cup {None} /\ Len(new) >= 1 /\ Len(new) >= 2
        /\ Marked(new, rev \cup {Len(old)})
    BY <1>1, <1>2, <1>4, <2>1, <2>2, <2>3
  <2> HIDE DEF new
  <2>5. QED
    BY <1>1, <2>1, <2>2, <2>3, <2>4, ConcludeKeeps
<1>7. ASSUME NEW other \in Entities, Study!InjectBinding(event, other) PROVE StudyInv'
  <2> DEFINE from == IF other = event.entity THEN recorded ELSE store[other]
             new == Study!Bind(from, recorded, event.time, other = event.entity)
  <2>1. Study!CanBind(from, event.time) /\ Study!Conclude(event, "EntityBinding", new) /\ UNCHANGED revived
    BY <1>7 DEF Study!InjectBinding, recorded
  <2>2. from \in Seq(State) /\ (other = event.entity => from = recorded)
    BY <1>1, <1>2
  <2> HIDE DEF from
  <2>3. new \in Seq(State) /\ Len(new) = Len(recorded) + 1 /\ Marked(new, rev)
    BY <1>2, <2>1, <2>2, BindFits
  <2>4. "EntityBinding" \in Contaminations \cup {None} /\ Len(new) >= 1
    BY <1>2, <1>4, <2>3 DEF Study!Lies
  <2> HIDE DEF new
  <2>5. QED
    BY <1>1, <1>3, <2>1, <2>3, <2>4, ConcludeKeeps
<1>8. CASE Study!InjectInference(event)
  <2> DEFINE new == Study!Fabricate(recorded, Fabricated, event.time, Linger)
  <2>1. Study!Conclude(event, "InferencePersistence", new) /\ UNCHANGED revived
    BY <1>8 DEF Study!InjectInference, recorded
  <2>2. new \in Seq(State) /\ Len(new) = Len(recorded) + 1 /\ Marked(new, rev)
    <3> HIDE DEF rev
    <3>1. QED
      BY <1>1, <1>2, FabricateFits
  <2>3. "InferencePersistence" \in Contaminations \cup {None} /\ Len(new) >= 1
    BY <1>2, <1>4, <2>2 DEF Study!Lies
  <2> HIDE DEF new
  <2>4. QED
    BY <1>1, <1>3, <2>1, <2>2, <2>3, ConcludeKeeps
<1>9. ASSUME NEW type \in Study!Elsewhere, Study!InjectElsewhere(event, type) PROVE StudyInv'
  <2>1. Study!Conclude(event, type, recorded) /\ UNCHANGED revived
    BY <1>9 DEF Study!InjectElsewhere, recorded
  <2>2. type \in Contaminations \cup {None} /\ type # "StaleState"
    BY <1>4
  <2>3. QED
    BY <1>1, <1>2, <1>3, <2>1, <2>2, ConcludeKeeps
<1>10. QED
  BY <1>5, <1>6, <1>7, <1>8, <1>9 DEF Study!Observe

LEMMA StudyKeeps ==
  ASSUME Study!MethodAssumption, Study!ExperimentAssumption, StudyInv, [Study!Next]_(Study!vars)
  PROVE  StudyInv'
<1>1. CASE UNCHANGED Study!vars
  BY <1>1 DEF Study!vars, StudyInv, StudyTypes, TimesGrow, LimitsKept, Study!StrongerNeverWorse
<1>2. CASE Study!Next
  BY <1>2, EventFollows, ObserveKeeps DEF Study!Next, StudyInv
<1>3. QED
  BY <1>1, <1>2

-------------------------------------------------------------------------------
(* What follows.                                                           *)

LEMMA StudyTypeOK == ASSUME StudyTypes PROVE Study!TypeOK
<1>1. history \in Seq([entity : Entities, value : Values, time : Nat])
  BY DEF StudyTypes, StudyEvent
<1>2. DOMAIN injected = DOMAIN history /\ DOMAIN store = Entities /\ DOMAIN runs = Configs
  BY DEF StudyTypes
<1>3. ASSUME NEW c \in Configs
      PROVE  /\ runs[c].tainted \subseteq DOMAIN history
             /\ {runs[c].found, runs[c].residual, runs[c].stale} \subseteq Nat
  <2>1. runs[c] \in Counters /\ runs[c].tainted \subseteq 1..Len(history) /\ DOMAIN history = 1..Len(history)
    BY DEF StudyTypes
  <2>2. QED
    BY <2>1 DEF Counters
<1>4. QED
  BY <1>1, <1>2, <1>3 DEF Study!TypeOK

LEMMA MarksAreExact == ASSUME StudyInv PROVE Study!SupersededExactly
<1>1. ASSUME NEW e \in Entities, NEW v \in DOMAIN store[e]
      PROVE  IF v < Len(store[e]) THEN store[e][v].superseded <=> v \notin revived[e]
             ELSE store[e][v].superseded =>
                    v > 1 /\ store[e][v] = [store[e][v - 1] EXCEPT !.source = Unknown]
  <2>1. /\ store[e] \in Seq(State) /\ Len(store[e]) \in Nat /\ v \in 1..Len(store[e])
        /\ Marked(store[e], revived[e])
    BY DEF StudyInv, StudyTypes
  <2>2. CASE v < Len(store[e])
    <3>1. v \in 1..(Len(store[e]) - 1)
      BY <2>1, <2>2
    <3>2. QED
      BY <2>1, <2>2, <3>1 DEF Marked
  <2>3. CASE ~(v < Len(store[e]))
    <3>1. v = Len(store[e]) /\ v > 0
      BY <2>1, <2>3
    <3>2. QED
      BY <2>1, <2>3, <3>1 DEF Marked, Copied
  <2>4. QED
    BY <2>2, <2>3
<1>2. QED
  BY <1>1, StudyTypeOK DEF Study!SupersededExactly, StudyInv

LEMMA SafeStatesAreKept ==
  ASSUME Study!ExperimentAssumption, StudyInv PROVE Study!SafeIsRetained
<1> SUFFICES ASSUME NEW e \in Study!SafeEntities(store, Study!Now)
    PROVE  LET v == Study!CurrentState(store[e], Study!Now)
           IN  /\ v < Len(store[e]) => v \in revived[e]
               /\ v \in Study!Retained(store[e], Study!Now, [maxAge |-> 0, minConfidence |-> 0, superseded |-> TRUE,
                                        inferences |-> TRUE, preserve |-> {}])
  BY DEF Study!SafeIsRetained
<1> DEFINE v == Study!CurrentState(store[e], Study!Now)
<1>1. e \in Entities /\ store[e] \in Seq(State) /\ Len(store[e]) \in Nat /\ Marked(store[e], revived[e])
  BY DEF Study!SafeEntities, StudyInv, StudyTypes
<1>2. v > 0 /\ Study!CheckValidity(store[e][v], Study!Now) = None
  BY DEF Study!SafeEntities
<1>3. v \in Study!ValidVersions(store[e], Study!Now)
  BY <1>1, <1>2, CurrentIsValid
<1> HIDE DEF v
<1>4. v \in 1..Len(store[e]) /\ ~store[e][v].superseded
  BY <1>3 DEF Study!ValidVersions, Study!IsValidAt
<1>5. v < Len(store[e]) => v \in revived[e]
  BY <1>1, <1>4 DEF Marked
<1>6. store[e][v].source # Inferred /\ store[e][v].confidence >= 0
  <2>1. store[e][v] \in State
    BY <1>1, <1>4
  <2>2. QED
    BY <2>1 DEF State, Study!ExperimentAssumption
<1>7. v \in Study!Retained(store[e], Study!Now, [maxAge |-> 0, minConfidence |-> 0, superseded |-> TRUE,
                                                inferences |-> TRUE, preserve |-> {}])
  BY <1>4, <1>6 DEF Study!Retained
<1>8. QED
  BY <1>5, <1>7 DEF v

LEMMA LimitsFollow ==
  ASSUME Study!ExperimentAssumption, StudyInv PROVE Study!DetectionLimits
<1>1. Study!SupersededExactly /\ Study!SafeIsRetained
  BY MarksAreExact, SafeStatesAreKept
<1>2. QED
  BY <1>1 DEF StudyInv, LimitsKept, Study!DetectionLimits, Study!Latest, Study!Carried

(* What the reliability layer finds and what it cannot find is what its    *)
(* comments say, in every study: any entities, values, stream and          *)
(* configurations.  Of the states before an entity's newest exactly the    *)
(* revived ones are not marked superseded, the newest is marked only as a  *)
(* copy of the one before it, and what build_safe_context() hands out is   *)
(* never what forgetting drops.                                            *)
THEOREM DetectionIsLimited ==
  ASSUME Study!MethodAssumption, Study!ExperimentAssumption PROVE Study!Spec => []DetectionLimits
<1>1. Study!Init => StudyInv
  BY StudyStarts
<1>2. StudyInv /\ [Study!Next]_(Study!vars) => StudyInv'
  BY StudyKeeps
<1>3. StudyInv => DetectionLimits
  BY LimitsFollow DEF DetectionLimits
<1>4. QED
  BY <1>1, <1>2, <1>3, PTL DEF Study!Spec

(* No flag, and no stronger method, ever makes a run worse on the same     *)
(* stream: fewer tainted events, less residue, less stale information,     *)
(* whatever is compared and whatever the stream.                           *)
THEOREM ProtectionNeverHurts ==
  ASSUME Study!MethodAssumption, Study!ExperimentAssumption PROVE Study!Spec => []StrongerNeverWorse
<1>1. Study!Init => StudyInv
  BY StudyStarts
<1>2. StudyInv /\ [Study!Next]_(Study!vars) => StudyInv'
  BY StudyKeeps
<1>3. StudyInv => StrongerNeverWorse
  BY DEF StudyInv, StrongerNeverWorse
<1>4. QED
  BY <1>1, <1>2, <1>3, PTL DEF Study!Spec

\* Every turn of the loop ends the same way.
LEMMA EventIsAppended ==
  ASSUME Study!ExperimentAssumption, StudyInv, Study!Next
  PROVE  \E event \in StudyEvent : event.time > Study!Now /\ history' = Append(history, event)
<1>1. PICK e \in Entities, value \in Values, gap \in Gaps : Study!Observe(Study!Event(e, value, gap))
  BY DEF Study!Next
<1> DEFINE event == Study!Event(e, value, gap)
<1>2. event \in StudyEvent /\ event.time > Study!Now
  BY EventFollows DEF StudyInv
<1> HIDE DEF event
<1>3. Study!Observe(event)
  BY <1>1 DEF event
<1>4. history' = Append(history, event)
  BY <1>3 DEF Study!Observe, Study!Clean, Study!InjectStale, Study!InjectBinding, Study!InjectInference,
              Study!InjectElsewhere, Study!Conclude
<1>5. QED
  BY <1>2, <1>4

Digest(h) == Study!RollingSummary(h) \ Study!FixedWindow(h)
Shown(h) == Study!LatestPerEntity(h, DOMAIN h)

LEMMA AgeOfContexts ==
  ASSUME Study!MethodAssumption, Study!ExperimentAssumption, StudyInv, Study!Next
  PROVE  /\ Digest(history) \subseteq Digest(history')
         /\ history # <<>> =>
              /\ Shown(history') \intersect DOMAIN history \subseteq Shown(history)
              /\ Len(history') \in Shown(history')
              /\ \A i \in Shown(history') \ {Len(history')} :
                   history'[i].entity # history'[Len(history')].entity
<1> DEFINE n == Len(history)
<1>1. PICK event \in StudyEvent : event.time > Study!Now /\ history' = Append(history, event)
  BY EventIsAppended
<1>2. /\ n \in Nat /\ history \in Seq(StudyEvent) /\ DOMAIN history = 1..n
      /\ WindowSize \in Nat
  BY DEF StudyInv, StudyTypes, Study!MethodAssumption
<1>3. /\ history' \in Seq(StudyEvent) /\ Len(history') = n + 1 /\ DOMAIN history' = 1..(n + 1)
      /\ history'[n + 1] = event
      /\ \A i \in 1..n : history'[i] = history[i]
  BY <1>1, <1>2, AppendProperties
<1>4. Digest(history) \subseteq Digest(history')
  <2> SUFFICES ASSUME NEW i \in Digest(history) PROVE i \in Digest(history')
    OBVIOUS
  <2>1. i \in 1..n /\ ~(i > n - WindowSize) /\ (i - 1) % Stride = 0
    BY <1>2 DEF Digest, Study!RollingSummary, Study!FixedWindow
  <2>2. i \in 1..(n + 1) /\ ~(i > n + 1 - WindowSize)
    BY <1>2, <2>1
  <2>3. i \in Study!RollingSummary(history')
    BY <1>3, <2>1, <2>2 DEF Study!RollingSummary
  <2>4. i \notin Study!FixedWindow(history')
    <3>1. Len(history') = n + 1
      BY <1>3
    <3>2. ~(i > n + 1 - WindowSize)
      BY <2>2
    <3>3. n \in Nat /\ i \in Nat /\ WindowSize \in Nat
      BY <1>2, <2>1
    <3> DEFINE m == Len(history')
    <3> HIDE DEF n, m
    <3>4. m = n + 1
      BY <3>1 DEF m
    <3>5. ~(i > m - WindowSize)
      BY ONLY <3>2, <3>3, <3>4
    <3>6. QED
      BY <3>5 DEF m, Study!FixedWindow
  <2>5. QED
    BY <2>3, <2>4 DEF Digest
<1>5. \A i \in 1..n : history[i].time < event.time
  <2> TAKE i \in 1..n
  <2>1. n \in 1..n /\ history # <<>>
    BY <1>2
  <2>2. history[n].time < event.time
    BY <1>1, <2>1, NowIsTime DEF StudyInv
  <2>3. history[i] \in StudyEvent /\ history[n] \in StudyEvent
    BY <1>2, <2>1
  <2>4. history[i].time \in Nat /\ history[n].time \in Nat /\ event.time \in Nat
    BY <2>3 DEF StudyEvent
  <2>5. i = n \/ history[i].time < history[n].time
    <3>1. i = n \/ i < n
      <4>1. n \in Nat /\ i \in 1..n
        BY <1>2
      <4> HIDE DEF n
      <4>2. QED
        BY <4>1
    <3>2. QED
      BY <2>1, <3>1 DEF StudyInv, TimesGrow
  <2>6. QED
    BY <2>2, <2>4, <2>5
<1>6. ASSUME NEW i \in Shown(history') \cap DOMAIN history PROVE i \in Shown(history)
  <2>1. i \in 1..n /\ \A j \in 1..n : history'[j] = history[j]
    BY <1>2, <1>3
  <2>2. \A j \in (1..(n + 1)) \ {i} : history'[j].entity = history'[i].entity =>
           \/ history'[j].time < history'[i].time
           \/ history'[j].time = history'[i].time /\ j > i
    BY <1>3 DEF Shown, Study!LatestPerEntity
  <2>3. \A j \in (1..n) \ {i} : history[j].entity = history[i].entity =>
           \/ history[j].time < history[i].time
           \/ history[j].time = history[i].time /\ j > i
    BY <1>2, <2>1, <2>2
  <2>4. QED
    BY <1>2, <2>1, <2>3 DEF Shown, Study!LatestPerEntity
<1>7. n + 1 \in Shown(history')
  <2>1. \A j \in (1..(n + 1)) \ {n + 1} : history'[j].time < history'[n + 1].time
    BY <1>2, <1>3, <1>5
  <2>2. n + 1 \in 1..(n + 1)
    BY <1>2
  <2>3. QED
    BY <1>3, <2>1, <2>2 DEF Shown, Study!LatestPerEntity
<1>8. ASSUME NEW i \in Shown(history') \ {n + 1} PROVE history'[i].entity # history'[n + 1].entity
  <2>1. i \in 1..n /\ n + 1 \in (1..(n + 1)) \ {i}
    BY <1>2, <1>3 DEF Shown, Study!LatestPerEntity
  <2>2. history'[i].time < history'[n + 1].time
    BY <1>3, <1>5, <2>1
  <2>3. history'[i].time \in Nat /\ history'[n + 1].time \in Nat
    <3>1. history'[i] \in StudyEvent /\ history'[n + 1] \in StudyEvent
      BY <1>2, <1>3, <2>1
    <3>2. QED
      BY <3>1 DEF StudyEvent
  <2>4. history'[n + 1].entity = history'[i].entity =>
           \/ history'[n + 1].time < history'[i].time
           \/ history'[n + 1].time = history'[i].time /\ n + 1 > i
    BY <1>3, <2>1 DEF Shown, Study!LatestPerEntity
  <2>5. QED
    BY <2>2, <2>3, <2>4
<1>9. QED
  BY <1>3, <1>4, <1>6, <1>7, <1>8

(* Contexts age as the strategies' comments say, along any stream: the     *)
(* digest of a rolling summary never drops an event, and selective         *)
(* forgetting shows an entity's newest event and none of the earlier ones. *)
THEOREM ContextsOnlyAge ==
  ASSUME Study!MethodAssumption, Study!ExperimentAssumption PROVE Study!Spec => ContextsAge
<1> DEFINE Ages ==
      LET digest(h) == Study!RollingSummary(h) \ Study!FixedWindow(h)
          seen(h) == Study!VersionedContext(Study!Event(Study!Latest.entity, Study!Latest.value, 0), h,
                        [temporal |-> FALSE, forgetting |-> TRUE])
      IN  /\ digest(history) \subseteq digest(history')
          /\ history # <<>> =>
               /\ seen(history') \intersect DOMAIN history
                    \subseteq seen(history)
               /\ Len(history') \in seen(history')
               /\ \A i \in seen(history') \ {Len(history')} :
                    history'[i].entity # history'[Len(history')].entity
<1>1. StudyInv /\ [Study!Next]_(Study!vars) => [Ages]_(Study!vars)
  <2> SUFFICES ASSUME StudyInv, Study!Next PROVE Ages
    OBVIOUS
  <2>1. \A h : Study!VersionedContext(Study!Event(Study!Latest.entity, Study!Latest.value, 0), h,
                 [temporal |-> FALSE, forgetting |-> TRUE]) = Shown(h)
    BY DEF Study!VersionedContext, Shown
  <2>2. QED
    BY <2>1, AgeOfContexts DEF Digest
<1> HIDE DEF Ages
<1>2. Study!Init => StudyInv
  BY StudyStarts
<1>3. StudyInv /\ [Study!Next]_(Study!vars) => StudyInv'
  BY StudyKeeps
<1>4. ContextsAge <=> [][Ages]_(Study!vars)
  BY DEF ContextsAge, Study!ContextsAge, Ages
<1>5. QED
  BY <1>1, <1>2, <1>3, <1>4, PTL DEF Study!Spec

-------------------------------------------------------------------------------
(* The arms.  The entries of a sequence at some of its positions: the k-th *)
(* of them is the one that k of these positions do not lie behind.         *)

LEMMA PairedCardinality == ASSUME NEW S PROVE Paired!Cardinality(S) = Cardinality(S)
BY DEF Paired!Cardinality, Cardinality

LEMMA RankGrows ==
  ASSUME NEW n \in Nat, NEW P \in SUBSET (1..n)
  PROVE  /\ IsFiniteSet(P) /\ Cardinality(P) \in Nat
         /\ \A p \in P : Paired!Rank(p, P) \in 1..Cardinality(P)
         /\ \A p, q \in P : p < q => Paired!Rank(p, P) < Paired!Rank(q, P)
<1> DEFINE below(p) == {q \in P : q <= p}
<1>1. IsFiniteSet(1..n)
  BY FS_Interval
<1>2. IsFiniteSet(P) /\ Cardinality(P) \in Nat
  BY <1>1, FS_Subset, FS_CardinalityType
<1>3. ASSUME NEW p
      PROVE  /\ IsFiniteSet(below(p)) /\ Cardinality(below(p)) \in Nat
             /\ Cardinality(below(p)) <= Cardinality(P) /\ Paired!Rank(p, P) = Cardinality(below(p))
  <2>1. below(p) \in SUBSET P
    OBVIOUS
  <2>2. Paired!Rank(p, P) = Cardinality(below(p))
    BY PairedCardinality DEF Paired!Rank
  <2> HIDE DEF below
  <2>3. QED
    BY <1>2, <2>1, <2>2, FS_Subset, FS_CardinalityType
<1>4. ASSUME NEW p \in P PROVE Paired!Rank(p, P) \in 1..Cardinality(P)
  <2>1. p \in below(p)
    OBVIOUS
  <2> HIDE DEF below
  <2>2. Cardinality(below(p)) # 0
    BY <1>3, <2>1, FS_EmptySet
  <2>3. QED
    BY <1>2, <1>3, <2>2
<1>5. ASSUME NEW p \in P, NEW q \in P, p < q PROVE Paired!Rank(p, P) < Paired!Rank(q, P)
  <2> p \in Nat /\ q \in Nat /\ \A o \in P : o \in Nat
    OBVIOUS
  <2>1. below(p) \cup {q} \in SUBSET below(q) /\ q \notin below(p)
    <3>1. \A o \in P : o <= p => o <= q
      BY <1>5
    <3>2. q <= q /\ ~(q <= p)
      BY <1>5
    <3>3. QED
      BY <3>1, <3>2
  <2> HIDE DEF below
  <2>2. Cardinality(below(p) \cup {q}) = Cardinality(below(p)) + 1
    BY <1>3, <2>1, FS_AddElement
  <2>3. Cardinality(below(p) \cup {q}) <= Cardinality(below(q))
    BY <1>3, <2>1, FS_Subset
  <2>4. QED
    BY <1>3, <2>2, <2>3
<1>6. QED
  BY <1>2, <1>4, <1>5

LEMMA RankReached ==
  ASSUME NEW n \in Nat, NEW P \in SUBSET (1..n), NEW k \in 1..Cardinality(P)
  PROVE  \E p \in P : Paired!Rank(p, P) = k
<1> DEFINE below(p) == {q \in P : q <= p}
           T == {m \in Nat : Cardinality(below(m)) >= k}
<1>1. IsFiniteSet(P) /\ Cardinality(P) \in Nat
  BY RankGrows
<1>2. \A p : IsFiniteSet(below(p)) /\ Cardinality(below(p)) \in Nat
  <2> TAKE p
  <2>1. below(p) \in SUBSET P
    OBVIOUS
  <2> HIDE DEF below
  <2>2. QED
    BY <1>1, <2>1, FS_Subset, FS_CardinalityType
<1>3. below(n) = P /\ below(0) = {}
  <2>1. \A q \in P : q <= n /\ ~(q <= 0)
    OBVIOUS
  <2>2. QED
    BY <2>1
<1>4. n \in T
  <2> HIDE DEF below
  <2>1. QED
    BY <1>1, <1>3
<1>k. k \in Nat /\ k # 0
  BY <1>1
<1>5. PICK m \in T : \A l \in T : m <= l
  BY <1>4, NatLeast
<1>t. m \in Nat /\ Cardinality(below(m)) >= k
  BY <1>5
<1>6. m # 0
  <2> HIDE DEF below
  <2>1. Cardinality(below(0)) = 0
    BY <1>3, FS_EmptySet
  <2>2. QED
    BY <1>k, <1>t, <2>1
<1>7. m - 1 \in Nat /\ ~(Cardinality(below(m - 1)) >= k)
  <2>1. m - 1 \in Nat /\ ~(m <= m - 1)
    BY <1>t, <1>6
  <2> HIDE DEF below
  <2>2. QED
    BY <1>5, <2>1
<1>8. Cardinality(below(m - 1)) < k /\ Cardinality(below(m)) >= k
  <2> HIDE DEF below
  <2>1. QED
    BY <1>k, <1>2, <1>t, <1>7
<1>9. below(m) = below(m - 1) \cup (P \cap {m}) /\ m \notin below(m - 1)
  <2>1. \A q \in P : (q <= m <=> q <= m - 1 \/ q = m) /\ ~(m <= m - 1)
    BY <1>t
  <2>2. ~(m <= m - 1)
    BY <1>t
  <2>3. QED
    BY <2>1, <2>2
<1>10. m \in P /\ below(m) = below(m - 1) \cup {m}
  <2>1. below(m) # below(m - 1)
    <3> HIDE DEF below
    <3>1. QED
      BY <1>1, <1>2, <1>8
  <2> HIDE DEF below
  <2>2. QED
    BY <1>9, <2>1
<1>11. Cardinality(below(m)) = Cardinality(below(m - 1)) + 1
  <2> HIDE DEF below
  <2>1. QED
    BY <1>2, <1>9, <1>10, FS_AddElement
<1>12. Cardinality(below(m)) = k
  <2> HIDE DEF below
  <2>1. QED
    BY <1>1, <1>2, <1>8, <1>11
<1>13. Paired!Rank(m, P) = Cardinality(below(m))
  BY PairedCardinality DEF Paired!Rank
<1>14. QED
  BY <1>10, <1>12, <1>13

\* The entries of s at the positions P are those of f, and f has no others.
Selects(f, s, P) ==
  /\ DOMAIN f = 1..Cardinality(P) /\ Cardinality(P) \in Nat
  /\ \A k \in 1..Cardinality(P) : \E p \in P : f[k] = s[p]
  /\ \A p \in P : \E k \in 1..Cardinality(P) : f[k] = s[p]

LEMMA KeptEntries ==
  ASSUME NEW n \in Nat, NEW P \in SUBSET (1..n), NEW s
  PROVE  Selects(Paired!Kept(s, P), s, P)
<1> DEFINE at(k) == CHOOSE p \in P : Paired!Rank(p, P) = k
<1>1. Paired!Kept(s, P) = [k \in 1..Cardinality(P) |-> s[at(k)]] /\ Cardinality(P) \in Nat
  BY PairedCardinality, RankGrows DEF Paired!Kept
<1>2. \A k \in 1..Cardinality(P) : at(k) \in P /\ Paired!Rank(at(k), P) = k
  BY RankReached
<1>3. ASSUME NEW p \in P PROVE Paired!Rank(p, P) \in 1..Cardinality(P) /\ at(Paired!Rank(p, P)) = p
  <2>1. Paired!Rank(p, P) \in 1..Cardinality(P)
    BY RankGrows
  <2> DEFINE q == at(Paired!Rank(p, P))
  <2>2. q \in P /\ Paired!Rank(q, P) = Paired!Rank(p, P)
    BY <1>2, <2>1
  <2> HIDE DEF q, at
  <2>3. p \in Nat /\ q \in Nat /\ Paired!Rank(p, P) \in Nat
    BY <2>1, <2>2, RankGrows
  <2>4. /\ p < q => Paired!Rank(p, P) < Paired!Rank(q, P)
        /\ q < p => Paired!Rank(q, P) < Paired!Rank(p, P)
    BY <2>2, RankGrows
  <2>6. q = p
    BY <2>2, <2>3, <2>4
  <2>5. QED
    BY <2>1, <2>6 DEF q
<1> HIDE DEF at
<1>4. \A k \in 1..Cardinality(P) : Paired!Kept(s, P)[k] = s[at(k)]
  BY <1>1
<1>5. QED
  BY <1>1, <1>2, <1>3, <1>4 DEF Selects

LEMMA KeptSequence ==
  ASSUME NEW n \in Nat, NEW P \in SUBSET (1..n), NEW s, NEW S, \A p \in P : s[p] \in S
  PROVE  Paired!Kept(s, P) \in Seq(S) /\ Len(Paired!Kept(s, P)) = Cardinality(P)
<1>s. Selects(Paired!Kept(s, P), s, P)
  BY KeptEntries
<1>1. /\ DOMAIN Paired!Kept(s, P) = 1..Cardinality(P) /\ Cardinality(P) \in Nat
      /\ \A k \in 1..Cardinality(P) : \E p \in P : Paired!Kept(s, P)[k] = s[p]
  BY <1>s DEF Selects
<1>2. Paired!Kept(s, P) = [k \in 1..Cardinality(P) |-> Paired!Kept(s, P)[k]]
  BY <1>1, PairedCardinality DEF Paired!Kept
<1>3. Paired!Kept(s, P) \in [1..Cardinality(P) -> S]
  BY <1>1, <1>2
<1>4. QED
  BY <1>1, <1>3, TableIsSeq

\* What a prompt says of a record, and the records of a context that a prompt for event i
\* shows: all but the event itself.
Told(r) == [entity |-> r.entity, kind |-> r.kind, value |-> r.value, time |-> r.time]
Visible(i, d) == {p \in DOMAIN d : d[p].id # <<i, "measured">>}

LEMMA PromptTells ==
  ASSUME NEW i, NEW d, NEW l \in Nat, DOMAIN d = 1..l
  PROVE  /\ Paired!Range(Paired!FormatContext(d, i)) = {Told(d[p]) : p \in Visible(i, d)}
         /\ DOMAIN Paired!FormatContext(d, i) = 1..Cardinality(Visible(i, d))
<1> DEFINE P == Visible(i, d)
           s == [p \in DOMAIN d |-> Told(d[p])]
           f == Paired!FormatContext(d, i)
<1>1. f = Paired!Kept(s, P)
  BY DEF Paired!FormatContext, Visible, Told
<1>2. P \in SUBSET (1..l) /\ \A p \in P : s[p] = Told(d[p])
  BY DEF Visible
<1> HIDE DEF P, s, f
<1>3. /\ DOMAIN f = 1..Cardinality(P)
      /\ \A k \in 1..Cardinality(P) : \E p \in P : f[k] = s[p]
      /\ \A p \in P : \E k \in 1..Cardinality(P) : f[k] = s[p]
  <2>1. P \in SUBSET (1..l)
    BY <1>2
  <2>2. Selects(Paired!Kept(s, P), s, P)
    BY <2>1, KeptEntries
  <2>3. QED
    BY <1>1, <2>2 DEF Selects
<1>4. Paired!Range(f) = {f[k] : k \in 1..Cardinality(P)}
  BY <1>3 DEF Paired!Range
<1>5. Paired!Range(f) = {Told(d[p]) : p \in P}
  BY <1>2, <1>3, <1>4
<1>6. QED
  BY <1>3, <1>5 DEF f, P

\* One record that is younger than every other, and of the event's own entity, is the
\* newest one of the prompt, and it is not in the prompt without it.
LEMMA InjectedIsNewest ==
  ASSUME NEW i, NEW c, NEW m \in Nat, DOMAIN c = 1..m, NEW d, NEW l \in Nat, DOMAIN d = 1..l, NEW x,
         x.entity = stream[i].entity, x.id # <<i, "measured">>, x.time \in Int,
         \A p \in Visible(i, c) : c[p].time \in Int /\ c[p].time < x.time,
         \A p \in 1..l : d[p] = x \/ \E q \in 1..m : d[p] = c[q],
         \E p \in 1..l : d[p] = x
  PROVE  /\ Paired!Newest(i, Paired!FormatContext(d, i)) = {Told(x)}
         /\ Paired!Newest(i, Paired!FormatContext(d, i)) \cap Paired!Range(Paired!FormatContext(c, i)) = {}
         /\ Paired!FormatContext(d, i) # Paired!FormatContext(c, i)
<1> DEFINE fc == Paired!FormatContext(c, i)
           fd == Paired!FormatContext(d, i)
           told == Told(x)
<1>1. told.entity = stream[i].entity /\ told.time = x.time
  BY DEF Told
<1>2. \A r \in Paired!Range(fc) : r.time \in Int /\ r.time < x.time
  <2>1. Paired!Range(fc) = {Told(c[p]) : p \in Visible(i, c)}
    BY PromptTells
  <2>2. \A p \in Visible(i, c) : Told(c[p]).time = c[p].time
    BY DEF Told
  <2> HIDE DEF fc
  <2>3. QED
    BY <2>1, <2>2
<1>3. told \in Paired!Range(fd)
  <2>1. PICK p \in 1..l : d[p] = x
    OBVIOUS
  <2>2. p \in Visible(i, d)
    BY <2>1 DEF Visible
  <2>3. QED
    BY <2>1, <2>2, PromptTells
<1>4. \A r \in Paired!Range(fd) : r = told \/ r \in Paired!Range(fc)
  <2> SUFFICES ASSUME NEW p \in Visible(i, d) PROVE Told(d[p]) = told \/ Told(d[p]) \in Paired!Range(fc)
    BY PromptTells
  <2>1. CASE d[p] = x
    BY <2>1
  <2>2. CASE \E q \in 1..m : d[p] = c[q]
    <3>1. PICK q \in 1..m : d[p] = c[q]
      BY <2>2
    <3>2. q \in Visible(i, c)
      BY <3>1 DEF Visible
    <3>3. QED
      BY <3>1, <3>2, PromptTells
  <2>3. QED
    BY <2>1, <2>2 DEF Visible
<1> HIDE DEF fc, fd, told
<1>5. told \notin Paired!Range(fc)
  BY <1>1, <1>2
<1>6. Paired!Newest(i, fd) = {told}
  <2> DEFINE own == {r \in Paired!Range(fd) : r.entity = stream[i].entity}
  <2>1. told \in own
    BY <1>1, <1>3
  <2>2. \A q \in own : q = told \/ (q.time \in Int /\ q.time < told.time)
    BY <1>1, <1>2, <1>4
  <2>3. told.time \in Int
    BY <1>1
  <2>4. Paired!Newest(i, fd) = {r \in own : \A q \in own : q.time <= r.time}
    BY DEF Paired!Newest
  <2> HIDE DEF own
  <2>5. \A q \in own : q.time <= told.time
    BY <2>2, <2>3
  <2>6. \A r \in own : r # told => ~(told.time <= r.time)
    BY <2>2, <2>3
  <2>7. QED
    BY <2>1, <2>4, <2>5, <2>6
<1>7. QED
  BY <1>3, <1>5, <1>6 DEF fc, fd, told

\* True records of others change neither the event's own records nor the newest of them,
\* but the prompt does.
LEMMA RetrievedIsForeign ==
  ASSUME NEW i, NEW c, NEW m \in Nat, DOMAIN c = 1..m, NEW d, NEW f \in Nat \ {0}, DOMAIN d = 1..(m + f),
         \A p \in 1..m : d[p] = c[p],
         \A p \in (m + 1)..(m + f) : d[p].id # <<i, "measured">> /\ d[p].entity # stream[i].entity
  PROVE  /\ Paired!Newest(i, Paired!FormatContext(d, i)) = Paired!Newest(i, Paired!FormatContext(c, i))
         /\ Paired!FormatContext(d, i) # Paired!FormatContext(c, i)
<1> DEFINE fc == Paired!FormatContext(c, i)
           fd == Paired!FormatContext(d, i)
           own(s) == {r \in Paired!Range(s) : r.entity = stream[i].entity}
<1>1. m + f \in Nat /\ m + 1 \in 1..(m + f) /\ m + 1 \in (m + 1)..(m + f) /\ m + 1 \notin 1..m
      /\ 1..m \subseteq 1..(m + f)
  OBVIOUS
<1>2. \A p \in 1..(m + f) : p \in 1..m \/ p \in (m + 1)..(m + f)
  OBVIOUS
<1>3. Visible(i, c) \cup {m + 1} \in SUBSET Visible(i, d) /\ m + 1 \notin Visible(i, c)
  BY <1>1 DEF Visible
<1>4. own(fd) = own(fc)
  <2>1. \A p \in Visible(i, c) : p \in Visible(i, d) /\ Told(c[p]) = Told(d[p])
    BY <1>1 DEF Visible
  <2>2. \A p \in Visible(i, d) : Told(d[p]).entity = stream[i].entity => p \in Visible(i, c) /\ Told(c[p]) = Told(d[p])
    BY <1>2 DEF Visible, Told
  <2>3. Paired!Range(fd) = {Told(d[p]) : p \in Visible(i, d)}
    BY <1>1, PromptTells
  <2>4. Paired!Range(fc) = {Told(c[p]) : p \in Visible(i, c)}
    BY PromptTells
  <2> HIDE DEF fc, fd
  <2>5. QED
    BY <2>1, <2>2, <2>3, <2>4
<1>5. Paired!Newest(i, fd) = Paired!Newest(i, fc)
  BY <1>4 DEF Paired!Newest
<1>6. Cardinality(Visible(i, c)) \in Nat /\ Cardinality(Visible(i, d)) \in Nat
      /\ Cardinality(Visible(i, d)) >= Cardinality(Visible(i, c)) + 1
  <2>1. Visible(i, d) \in SUBSET (1..(m + f)) /\ Visible(i, c) \in SUBSET (1..m)
    BY DEF Visible
  <2>2. IsFiniteSet(Visible(i, d)) /\ IsFiniteSet(Visible(i, c))
    <3>1. IsFiniteSet(1..(m + f)) /\ IsFiniteSet(1..m)
      BY <1>1, FS_Interval
    <3>2. QED
      BY <2>1, <3>1, FS_Subset
  <2>3. Cardinality(Visible(i, c) \cup {m + 1}) = Cardinality(Visible(i, c)) + 1
    BY <1>3, <2>2, FS_AddElement
  <2>4. QED
    BY <1>3, <2>2, <2>3, FS_Subset, FS_CardinalityType
<1>7. fd # fc
  <2>1. DOMAIN fd = 1..Cardinality(Visible(i, d)) /\ DOMAIN fc = 1..Cardinality(Visible(i, c))
    BY <1>1, PromptTells
  <2> HIDE DEF fc, fd
  <2>2. 1..Cardinality(Visible(i, d)) # 1..Cardinality(Visible(i, c))
    <3>1. Cardinality(Visible(i, d)) \in 1..Cardinality(Visible(i, d))
          /\ Cardinality(Visible(i, d)) \notin 1..Cardinality(Visible(i, c))
      BY <1>6
    <3>2. QED
      BY <3>1
  <2>3. QED
    BY <2>1, <2>2
<1>8. QED
  BY <1>5, <1>7

\* The times of two events differ by whole intervals.
LEMMA IntervalsBetween ==
  ASSUME Paired!ArmsAssumption, NEW i \in Nat \ {0}, NEW j \in 1..(i - 1)
  PROVE  Paired!Time(i) \in Nat /\ Paired!Time(j) \in Nat /\ Paired!Time(j) <= Paired!Time(i) - Interval
<1>1. Interval \in Nat /\ j \in Nat /\ i \in Nat /\ i - 1 - j \in Nat
  BY DEF Paired!ArmsAssumption
<1>2. \A a, b \in Nat : a * b \in Nat
  OBVIOUS
<1>3. (i - 1 - j) * Interval \in Nat /\ i * Interval \in Nat /\ j * Interval \in Nat
  BY <1>1, <1>2
<1>4. i * Interval = (i - 1 - j) * Interval + j * Interval + Interval
  BY <1>1
<1>5. QED
  BY <1>1, <1>3, <1>4 DEF Paired!Time

\* What a strategy is shown of event i: the event itself, last, after events before it.
LEMMA HistoryOfEvents ==
  ASSUME NEW i \in Nat \ {0}
  PROVE  /\ Paired!History(i) \in Seq({Paired!Measured(j) : j \in 1..(i - 1)}) /\ Len(Paired!History(i)) = i - 1
         /\ DOMAIN Paired!History(i) = 1..(i - 1) /\ i - 1 \in Nat
         /\ \A j \in 1..(i - 1) : Paired!History(i)[j] = Paired!Measured(j)
<1>1. i - 1 \in Nat
  OBVIOUS
<1>2. Paired!History(i) = [j \in 1..(i - 1) |-> Paired!Measured(j)]
  BY DEF Paired!History
<1>3. Paired!History(i) \in [1..(i - 1) -> {Paired!Measured(j) : j \in 1..(i - 1)}]
  BY <1>2
<1>4. QED
  BY <1>1, <1>2, <1>3, TableIsSeq

LEMMA ContextOfEvent ==
  ASSUME NEW i \in Nat \ {0}
  PROVE  \E m \in Nat \ {0} :
           /\ DOMAIN Paired!ContextOf(i) = 1..m /\ Len(Paired!ContextOf(i)) = m
           /\ Paired!ContextOf(i) \in Seq({Paired!Measured(j) : j \in 1..i})
           /\ Paired!ContextOf(i)[m] = Paired!Measured(i)
           /\ \A p \in 1..m : p # m => \E j \in 1..(i - 1) : Paired!ContextOf(i)[p] = Paired!Measured(j)
<1> DEFINE h == Paired!History(i)
           G == Paired!GetContext(method, Paired!Flags, Paired!Measured(i), h)
           S == {Paired!Measured(j) : j \in 1..(i - 1)}
           U == {Paired!Measured(j) : j \in 1..i}
           k == Paired!Kept(h, G)
           n == Len(k)
<1>1. G \in SUBSET DOMAIN h
  BY DEF Paired!GetContext, Paired!FixedWindow, Paired!RollingSummary, Paired!VectorRetrieval, Paired!Younger,
         Paired!VersionedContext, Paired!LatestPerEntity
<1> HIDE DEF G
<1>2. i - 1 \in Nat /\ G \in SUBSET (1..(i - 1)) /\ \A p \in G : h[p] \in S
  BY <1>1, HistoryOfEvents
<1>3. Paired!ContextOf(i) = Append(k, Paired!Measured(i))
  BY DEF Paired!ContextOf, G
<1>4. S \subseteq U /\ Paired!Measured(i) \in U
  <2>1. i \in 1..i /\ \A j \in 1..(i - 1) : j \in 1..i
    OBVIOUS
  <2>2. QED
    BY <2>1
<1> HIDE DEF S, h
<1>5. k \in Seq(S)
  BY <1>2, KeptSequence
<1> HIDE DEF k, U
<1>6. n \in Nat /\ DOMAIN k = 1..n /\ \A p \in 1..n : k[p] \in S
  BY <1>5
<1>7. k \in Seq(U)
  BY <1>4, <1>5
<1>8. Append(k, Paired!Measured(i)) \in Seq(U) /\ DOMAIN Append(k, Paired!Measured(i)) = 1..(n + 1)
      /\ Len(Append(k, Paired!Measured(i))) = n + 1
      /\ Append(k, Paired!Measured(i))[n + 1] = Paired!Measured(i)
      /\ \A p \in 1..n : Append(k, Paired!Measured(i))[p] = k[p]
  BY <1>4, <1>7
<1>9. n + 1 \in Nat \ {0} /\ \A p \in 1..(n + 1) : p # n + 1 => p \in 1..n
  BY <1>6
<1>10. \A p \in 1..(n + 1) : p # n + 1 => Append(k, Paired!Measured(i))[p] \in S
  BY <1>6, <1>8, <1>9
<1>11. \A r \in S : \E j \in 1..(i - 1) : r = Paired!Measured(j)
  BY DEF S
<1> HIDE DEF n
<1>12. QED
  BY <1>3, <1>8, <1>9, <1>10, <1>11 DEF U

\* What a treatment that took effect makes of the prompt for event i.
Shows(i, type, d) ==
  /\ Paired!FormatContext(d, i) # Paired!Records(i)
  /\ type = "RetrievalContamination" =>
       Paired!Newest(i, Paired!FormatContext(d, i)) = Paired!Newest(i, Paired!Records(i))
  /\ type # "RetrievalContamination" =>
       Paired!Newest(i, Paired!FormatContext(d, i)) \cap Paired!Range(Paired!Records(i)) = {}

\* A record of the event's own entity, made up less than an interval before it, shows.
Fresh(i, x) ==
  x.entity = stream[i].entity /\ x.id # <<i, "measured">> /\ \E age \in 1..5 : x.time = Paired!Time(i) - age

LEMMA FreshShows ==
  ASSUME Paired!ArmsAssumption, NEW i \in Nat \ {0}, NEW x, Fresh(i, x), NEW d, NEW l \in Nat, DOMAIN d = 1..l,
         \A p \in 1..l : d[p] = x \/ \E q \in DOMAIN Paired!ContextOf(i) : d[p] = Paired!ContextOf(i)[q],
         \E p \in 1..l : d[p] = x,
         NEW type, type # "RetrievalContamination"
  PROVE  Shows(i, type, d)
<1> DEFINE c == Paired!ContextOf(i)
<1>1. PICK m \in Nat \ {0} :
        /\ DOMAIN c = 1..m
        /\ c[m] = Paired!Measured(i)
        /\ \A p \in 1..m : p # m => \E j \in 1..(i - 1) : c[p] = Paired!Measured(j)
  BY ContextOfEvent
<1>2. x.time \in Int /\ Paired!Time(i) \in Nat /\ Interval \in Nat /\ x.time > Paired!Time(i) - Interval
  <2>1. Interval \in Nat /\ Interval > 5
    BY DEF Paired!ArmsAssumption
  <2>2. \A a, b \in Nat : a * b \in Nat
    OBVIOUS
  <2>3. Paired!Time(i) \in Nat
    BY <2>1, <2>2 DEF Paired!Time
  <2>4. QED
    BY <2>1, <2>3 DEF Fresh
<1>3. Paired!Measured(i).id = <<i, "measured">> /\ \A j : Paired!Measured(j).time = Paired!Time(j)
  BY DEF Paired!Measured
<1> HIDE DEF c
<1>4. ASSUME NEW p \in Visible(i, c) PROVE c[p].time \in Int /\ c[p].time < x.time
  <2>1. p \in 1..m /\ p # m
    BY <1>1, <1>3 DEF Visible
  <2>2. PICK j \in 1..(i - 1) : c[p] = Paired!Measured(j)
    BY <1>1, <2>1
  <2>3. c[p].time = Paired!Time(j)
    BY <1>3, <2>2
  <2>4. Paired!Time(j) \in Nat /\ Paired!Time(j) <= Paired!Time(i) - Interval
    BY IntervalsBetween
  <2>5. QED
    BY <1>2, <2>3, <2>4
<1>5. /\ x.entity = stream[i].entity /\ x.id # <<i, "measured">>
      /\ m \in Nat
      /\ \A p \in 1..l : d[p] = x \/ \E q \in 1..m : d[p] = c[q]
  BY <1>1 DEF Fresh, c
<1>6. /\ Paired!Newest(i, Paired!FormatContext(d, i)) \cap Paired!Range(Paired!FormatContext(c, i)) = {}
      /\ Paired!FormatContext(d, i) # Paired!FormatContext(c, i)
  <2>1. \A p \in Visible(i, c) : c[p].time \in Int /\ c[p].time < x.time
    BY <1>4
  <2>2. m \in Nat /\ DOMAIN c = 1..m /\ l \in Nat /\ DOMAIN d = 1..l /\ (\E p \in 1..l : d[p] = x) /\ x.time \in Int
    BY <1>1, <1>2
  <2>3. QED
    BY ONLY <1>5, <2>1, <2>2, InjectedIsNewest
<1>7. QED
  BY <1>6 DEF Shows, Paired!Records, c

\* So does anything of that kind behind the context, or behind a part of it.
LEMMA AppendedShows ==
  ASSUME Paired!ArmsAssumption, NEW i \in Nat \ {0}, NEW x, Fresh(i, x), NEW b, NEW S, b \in Seq(S),
         \A p \in DOMAIN b : \E q \in DOMAIN Paired!ContextOf(i) : b[p] = Paired!ContextOf(i)[q],
         NEW type, type # "RetrievalContamination"
  PROVE  Shows(i, type, Append(b, x))
<1> DEFINE n == Len(b)
           d == Append(b, x)
<1>1. b \in Seq(S \cup {x}) /\ x \in S \cup {x}
  OBVIOUS
<1>2. /\ n \in Nat /\ DOMAIN b = 1..n /\ DOMAIN d = 1..(n + 1) /\ d[n + 1] = x
      /\ \A p \in 1..n : d[p] = b[p]
  BY <1>1
<1> HIDE DEF n, d
<1>3. n + 1 \in Nat /\ n + 1 \in 1..(n + 1) /\ \A p \in 1..(n + 1) : p \in 1..n \/ p = n + 1
  BY <1>2
<1>4. /\ \A p \in 1..(n + 1) : d[p] = x \/ \E q \in DOMAIN Paired!ContextOf(i) : d[p] = Paired!ContextOf(i)[q]
      /\ \E p \in 1..(n + 1) : d[p] = x
  BY <1>2, <1>3
<1>5. Shows(i, type, d)
  BY <1>2, <1>3, <1>4, FreshShows
<1>6. QED
  BY <1>5 DEF d

\* The records of the history that a contamination picks from.
LEMMA PickedRecords ==
  ASSUME NEW i \in Nat \ {0}, NEW P \in SUBSET (1..(i - 1))
  PROVE  /\ Len(Paired!Kept(Paired!History(i), P)) \in Nat
         /\ DOMAIN Paired!Kept(Paired!History(i), P) = 1..Len(Paired!Kept(Paired!History(i), P))
         /\ \A k \in DOMAIN Paired!Kept(Paired!History(i), P) :
              \E j \in P : Paired!Kept(Paired!History(i), P)[k] = Paired!Measured(j)
<1> DEFINE h == Paired!History(i)
           f == Paired!Kept(h, P)
           S == {Paired!Measured(j) : j \in P}
<1>1. i - 1 \in Nat /\ \A j \in P : h[j] = Paired!Measured(j)
  BY HistoryOfEvents
<1> HIDE DEF h
<1>2. \A j \in P : h[j] \in S
  BY <1>1
<1>3. \A r \in S : \E j \in P : r = Paired!Measured(j)
  OBVIOUS
<1> HIDE DEF S
<1>4. f \in Seq(S)
  BY <1>1, <1>2, KeptSequence
<1> HIDE DEF f
<1>5. Len(f) \in Nat /\ DOMAIN f = 1..Len(f) /\ \A k \in DOMAIN f : f[k] \in S
  BY <1>4
<1>6. QED
  BY <1>3, <1>5 DEF f, h

LEMMA OwnAndForeign ==
  ASSUME NEW i \in Nat \ {0}
  PROVE  /\ Len(Paired!Own(i, Paired!History(i))) \in Nat
         /\ DOMAIN Paired!Own(i, Paired!History(i)) = 1..Len(Paired!Own(i, Paired!History(i)))
         /\ \A k \in DOMAIN Paired!Own(i, Paired!History(i)) : \E j \in 1..(i - 1) :
              /\ Paired!Own(i, Paired!History(i))[k] = Paired!Measured(j)
              /\ Paired!Measured(j).entity = stream[i].entity
         /\ Len(Paired!Foreign(i, Paired!History(i))) \in Nat
         /\ DOMAIN Paired!Foreign(i, Paired!History(i)) = 1..Len(Paired!Foreign(i, Paired!History(i)))
         /\ \A k \in DOMAIN Paired!Foreign(i, Paired!History(i)) : \E j \in 1..(i - 1) :
              /\ Paired!Foreign(i, Paired!History(i))[k] = Paired!Measured(j)
              /\ Paired!Measured(j).entity # stream[i].entity
<1> DEFINE h == Paired!History(i)
           O == {p \in DOMAIN h : Paired!IsOwn(i, h[p])}
           F == {p \in DOMAIN h : h[p].entity # stream[i].entity}
<1>1. DOMAIN h = 1..(i - 1) /\ \A j \in 1..(i - 1) : h[j] = Paired!Measured(j)
  BY HistoryOfEvents
<1>2. Paired!Own(i, h) = Paired!Kept(h, O) /\ Paired!Foreign(i, h) = Paired!Kept(h, F)
  BY DEF Paired!Own, Paired!Foreign
<1> HIDE DEF h
<1>3. O \in SUBSET (1..(i - 1)) /\ \A j \in O : Paired!Measured(j).entity = stream[i].entity
  BY <1>1 DEF Paired!IsOwn
<1>4. F \in SUBSET (1..(i - 1)) /\ \A j \in F : Paired!Measured(j).entity # stream[i].entity
  BY <1>1
<1> HIDE DEF O, F
<1>5. Len(Paired!Kept(h, O)) \in Nat /\ DOMAIN Paired!Kept(h, O) = 1..Len(Paired!Kept(h, O))
      /\ \A k \in DOMAIN Paired!Kept(h, O) : \E j \in O : Paired!Kept(h, O)[k] = Paired!Measured(j)
  BY <1>3, PickedRecords DEF h
<1>6. Len(Paired!Kept(h, F)) \in Nat /\ DOMAIN Paired!Kept(h, F) = 1..Len(Paired!Kept(h, F))
      /\ \A k \in DOMAIN Paired!Kept(h, F) : \E j \in F : Paired!Kept(h, F)[k] = Paired!Measured(j)
  BY <1>4, PickedRecords DEF h
<1>7. /\ \A k \in DOMAIN Paired!Kept(h, O) : \E j \in 1..(i - 1) :
           Paired!Kept(h, O)[k] = Paired!Measured(j) /\ Paired!Measured(j).entity = stream[i].entity
      /\ \A k \in DOMAIN Paired!Kept(h, F) : \E j \in 1..(i - 1) :
           Paired!Kept(h, F)[k] = Paired!Measured(j) /\ Paired!Measured(j).entity # stream[i].entity
  BY <1>3, <1>4, <1>5, <1>6
<1>8. QED
  BY <1>2, <1>5, <1>6, <1>7 DEF h

\* What each contamination injects.
LEMMA InjectionIsFresh ==
  ASSUME Paired!ArmsAssumption, NEW i \in Nat \ {0}
  PROVE  /\ \A j \in 1..(i - 1) : Paired!Measured(j).entity = stream[i].entity =>
              Fresh(i, Paired!Resurrected(i, Paired!Measured(j)))
         /\ \A j \in 1..(i - 1) : Fresh(i, Paired!Misbound(i, Paired!Measured(j)))
         /\ Fresh(i, Paired!Claim(i, "_prior_inference", "prior_inference", 3))
         /\ Fresh(i, Paired!Claim(i, "_summary", "summary", 4))
         /\ Fresh(i, Paired!Claim(i, "_agent_claim", "agent_b_claim", 5))
<1>1. 1 \in 1..5 /\ 2 \in 1..5 /\ 3 \in 1..5 /\ 4 \in 1..5 /\ 5 \in 1..5
  OBVIOUS
<1>2. \A suffix : <<i, suffix>> = <<i, "measured">> => suffix = "measured"
  OBVIOUS
<1>3. /\ Fresh(i, Paired!Claim(i, "_prior_inference", "prior_inference", 3))
      /\ Fresh(i, Paired!Claim(i, "_summary", "summary", 4))
      /\ Fresh(i, Paired!Claim(i, "_agent_claim", "agent_b_claim", 5))
  BY <1>1, <1>2 DEF Fresh, Paired!Claim
<1>4. ASSUME NEW j \in 1..(i - 1), Paired!Measured(j).entity = stream[i].entity
      PROVE  Fresh(i, Paired!Resurrected(i, Paired!Measured(j)))
  <2> DEFINE x == Paired!Resurrected(i, Paired!Measured(j))
  <2>1. x.entity = Paired!Measured(j).entity /\ x.time = Paired!Time(i) - 1 /\ x.id[2] = "_resurrected"
    BY DEF Paired!Measured, Paired!Resurrected
  <2> HIDE DEF x
  <2>2. x.id # <<i, "measured">>
    BY <2>1
  <2>3. Fresh(i, x)
    BY <1>1, <1>4, <2>1, <2>2 DEF Fresh
  <2>4. QED
    BY <2>3 DEF x
<1>5. ASSUME NEW j \in 1..(i - 1)
      PROVE  Fresh(i, Paired!Misbound(i, Paired!Measured(j)))
  <2> DEFINE x == Paired!Misbound(i, Paired!Measured(j))
  <2>1. x.entity = stream[i].entity /\ x.time = Paired!Time(i) - 2 /\ x.id[2] = "_misbound"
    BY DEF Paired!Measured, Paired!Misbound
  <2> HIDE DEF x
  <2>2. x.id # <<i, "measured">>
    BY <2>1
  <2>3. Fresh(i, x)
    BY <1>1, <2>1, <2>2 DEF Fresh
  <2>4. QED
    BY <2>3 DEF x
<1>6. QED
  BY <1>3, <1>4, <1>5

\* A contamination that is not skipped shows; one that is leaves the context alone.
LEMMA ContaminationShows ==
  ASSUME Paired!ArmsAssumption, NEW i \in Nat \ {0}, NEW type \in Paired!Types,
         NEW outcome, outcome \in Paired!Apply(type, i, Paired!ContextOf(i))
  PROVE  /\ outcome.skipped \in BOOLEAN
         /\ outcome.skipped => outcome.records = Paired!ContextOf(i)
         /\ ~outcome.skipped => Shows(i, type, outcome.records)
<1> DEFINE c == Paired!ContextOf(i)
           h == Paired!History(i)
           Done == \/ outcome = Paired!Skipped(c)
                   \/ \E d : outcome = Paired!Applied(d) /\ Shows(i, type, d)
<1>1. PICK m \in Nat \ {0} :
        /\ DOMAIN c = 1..m
        /\ c \in Seq({Paired!Measured(j) : j \in 1..i})
        /\ c[m] = Paired!Measured(i)
        /\ \A p \in 1..m : p # m => \E j \in 1..(i - 1) : c[p] = Paired!Measured(j)
  BY ContextOfEvent
<1>2. \A x : Fresh(i, x) /\ type # "RetrievalContamination" => Shows(i, type, Append(c, x))
  <2> TAKE x
  <2>1. \A p \in DOMAIN c : \E q \in DOMAIN c : c[p] = c[q]
    OBVIOUS
  <2>2. QED
    BY <1>1, <2>1, AppendedShows
<1>d. SUFFICES Done
  <2>1. ASSUME outcome = Paired!Skipped(c)
        PROVE  outcome.skipped = TRUE /\ outcome.records = c
    BY <2>1 DEF Paired!Skipped
  <2>2. ASSUME NEW d, outcome = Paired!Applied(d), Shows(i, type, d)
        PROVE  outcome.skipped = FALSE /\ Shows(i, type, outcome.records)
    BY <2>2 DEF Paired!Applied
  <2> HIDE DEF c
  <2>3. QED
    BY <2>1, <2>2 DEF c
<1> HIDE DEF c, h
<1>3. CASE type = "StaleState"
  <2> DEFINE own == Paired!Own(i, h)
  <2>1. outcome \in Paired!StaleState(i, c)
    BY <1>3 DEF Paired!Apply, c
  <2>2. Len(own) \in Nat /\ DOMAIN own = 1..Len(own)
        /\ \A k \in DOMAIN own : \E j \in 1..(i - 1) :
             own[k] = Paired!Measured(j) /\ Paired!Measured(j).entity = stream[i].entity
    BY OwnAndForeign DEF h
  <2>3. \/ outcome = Paired!Skipped(c)
        \/ \E pick \in 1..(Len(own) \div 3) : outcome = Paired!Applied(Append(c, Paired!Resurrected(i, own[pick])))
    <3>1. outcome \in IF Len(own) < StaleMin THEN {Paired!Skipped(c)}
                      ELSE {Paired!Applied(Append(c, Paired!Resurrected(i, own[pick]))) : pick \in 1..(Len(own) \div 3)}
      BY <2>1 DEF Paired!StaleState, h
    <3> HIDE DEF own
    <3>2. QED
      BY <3>1
  <2> HIDE DEF own
  <2>4. ASSUME NEW pick \in 1..(Len(own) \div 3) PROVE Fresh(i, Paired!Resurrected(i, own[pick]))
    <3>1. pick \in DOMAIN own
      <4>1. \A n \in Nat : n \div 3 \in Nat /\ n \div 3 <= n
        OBVIOUS
      <4>2. QED
        BY <2>2, <4>1
    <3>2. QED
      BY <2>2, <3>1, InjectionIsFresh
  <2>5. QED
    BY <1>2, <1>3, <2>3, <2>4
<1>4. CASE type = "EntityBinding"
  <2> DEFINE others == Paired!Foreign(i, h)
  <2>1. outcome \in Paired!EntityBinding(i, c)
    BY <1>4 DEF Paired!Apply, c
  <2>2. \A k \in DOMAIN others : \E j \in 1..(i - 1) : others[k] = Paired!Measured(j)
    BY OwnAndForeign DEF h
  <2>3. \/ outcome = Paired!Skipped(c)
        \/ \E pick \in DOMAIN others : outcome = Paired!Applied(Append(c, Paired!Misbound(i, others[pick])))
    <3>1. outcome \in IF others = <<>> THEN {Paired!Skipped(c)}
                      ELSE {Paired!Applied(Append(c, Paired!Misbound(i, others[pick]))) : pick \in DOMAIN others}
      BY <2>1 DEF Paired!EntityBinding, h
    <3> HIDE DEF others
    <3>2. QED
      BY <3>1
  <2> HIDE DEF others
  <2>4. \A pick \in DOMAIN others : Fresh(i, Paired!Misbound(i, others[pick]))
    BY <2>2, InjectionIsFresh
  <2>5. QED
    BY <1>2, <1>4, <2>3, <2>4
<1>5. CASE type = "InferencePersistence"
  <2>1. outcome = Paired!Applied(Append(c, Paired!Claim(i, "_prior_inference", "prior_inference", 3)))
    BY <1>5 DEF Paired!Apply, c, Paired!InferencePersistence
  <2>2. QED
    BY <1>2, <1>5, <2>1, InjectionIsFresh
<1>6. CASE type = "CrossAgentContamination"
  <2>1. outcome = Paired!Applied(Append(c, Paired!Claim(i, "_agent_claim", "agent_b_claim", 5)))
    BY <1>6 DEF Paired!Apply, c, Paired!CrossAgent
  <2>2. QED
    BY <1>2, <1>6, <2>1, InjectionIsFresh
<1>7. CASE type = "SummaryContamination"
  <2> DEFINE P == {p \in DOMAIN c : ~Paired!IsOwn(i, c[p])}
             b == Paired!Rest(i, c)
             S == {Paired!Measured(j) : j \in 1..i}
             x == Paired!Claim(i, "_summary", "summary", 4)
  <2>1. outcome = Paired!Skipped(c) \/ outcome = Paired!Applied(Append(b, x))
    BY <1>7 DEF Paired!Apply, c, Paired!Summary
  <2>2. b = Paired!Kept(c, P) /\ P \in SUBSET (1..m)
    BY <1>1 DEF Paired!Rest
  <2>3. \A p \in P : c[p] \in S
    BY <1>1
  <2>4. Fresh(i, x)
    BY InjectionIsFresh
  <2> HIDE DEF P, b, S, x
  <2>5. m \in Nat /\ Selects(b, c, P) /\ b \in Seq(S)
    BY <2>2, <2>3, KeptEntries, KeptSequence
  <2>6. \A p \in DOMAIN b : \E q \in DOMAIN c : b[p] = c[q]
    BY <1>1, <2>2, <2>5 DEF Selects
  <2>7. Shows(i, type, Append(b, x))
    BY <1>7, <2>4, <2>5, <2>6, AppendedShows DEF c
  <2>8. QED
    BY <2>1, <2>7
<1>8. CASE type = "RetrievalContamination"
  <2> DEFINE others == Paired!Foreign(i, h)
             u(picks) == [k \in 1..ForeignMin |-> [others[picks[k]] EXCEPT !.id[2] = "_retrieved"]]
  <2>1. outcome \in Paired!Retrieval(i, c)
    BY <1>8 DEF Paired!Apply, c
  <2>2. \A k \in DOMAIN others : \E j \in 1..(i - 1) :
             others[k] = Paired!Measured(j) /\ Paired!Measured(j).entity # stream[i].entity
    BY OwnAndForeign DEF h
  <2>3. \/ outcome = Paired!Skipped(c)
        \/ \E picks \in [1..ForeignMin -> DOMAIN others] : outcome = Paired!Applied(c \o u(picks))
    BY <2>1 DEF Paired!Retrieval, h
  <2>4. ForeignMin \in Nat \ {0}
    BY DEF Paired!ArmsAssumption
  <2> HIDE DEF others
  <2>5. ASSUME NEW picks \in [1..ForeignMin -> DOMAIN others] PROVE Shows(i, type, c \o u(picks))
    <3> DEFINE S == {Paired!Measured(j) : j \in 1..i}
               w == u(picks)
               R == {w[k] : k \in 1..ForeignMin}
               d == c \o w
    <3>1. \A k \in 1..ForeignMin : w[k].id[2] = "_retrieved" /\ w[k].entity # stream[i].entity
      <4> TAKE k \in 1..ForeignMin
      <4>1. picks[k] \in DOMAIN others
        OBVIOUS
      <4>2. PICK j \in 1..(i - 1) : others[picks[k]] = Paired!Measured(j) /\ Paired!Measured(j).entity # stream[i].entity
        BY <2>2, <4>1
      <4>3. w[k] = [Paired!Measured(j) EXCEPT !.id[2] = "_retrieved"]
        BY <4>2
      <4> HIDE DEF w
      <4>4. QED
        BY <4>2, <4>3 DEF Paired!Measured
    <3>2. DOMAIN w = 1..ForeignMin /\ w \in [1..ForeignMin -> R]
      OBVIOUS
    <3> HIDE DEF w
    <3>3. w \in Seq(R) /\ Len(w) = ForeignMin
      BY <2>4, <3>2, TableIsSeq
    <3> HIDE DEF R, S
    <3>4. c \in Seq(S \cup R) /\ w \in Seq(S \cup R) /\ Len(c) = m
      BY <1>1, <3>3 DEF S
    <3>5. /\ DOMAIN d = 1..(m + ForeignMin)
          /\ \A p \in 1..m : d[p] = c[p]
          /\ \A p \in (m + 1)..(m + ForeignMin) : d[p] = w[p - m] /\ p - m \in 1..ForeignMin
      BY <1>1, <2>4, <3>3, <3>4
    <3> HIDE DEF d
    <3>6. \A p \in (m + 1)..(m + ForeignMin) : d[p].id # <<i, "measured">> /\ d[p].entity # stream[i].entity
      <4> TAKE p \in (m + 1)..(m + ForeignMin)
      <4>1. d[p].id[2] = "_retrieved" /\ d[p].entity # stream[i].entity
        BY <3>1, <3>5
      <4>2. QED
        BY <4>1
    <3>7. /\ Paired!Newest(i, Paired!FormatContext(d, i)) = Paired!Newest(i, Paired!FormatContext(c, i))
          /\ Paired!FormatContext(d, i) # Paired!FormatContext(c, i)
      <4>1. m \in Nat /\ DOMAIN c = 1..m
        BY <1>1
      <4>2. QED
        BY ONLY <2>4, <3>5, <3>6, <4>1, RetrievedIsForeign
    <3>8. Shows(i, type, d)
      BY <1>8, <3>7 DEF Shows, Paired!Records, c
    <3>9. QED
      BY <3>8 DEF d, w
  <2> HIDE DEF u
  <2>6. QED
    BY <2>3, <2>5
<1>9. QED
  BY <1>3, <1>4, <1>5, <1>6, <1>7, <1>8 DEF Paired!Types

\* One trial is counted once, whatever was answered.
ArmTally == [tp : Nat, fn : Nat, tn : Nat, fp : Nat, unread : Nat, treated : Nat]

LEMMA CountedOnce ==
  ASSUME NEW t \in ArmTally, NEW a, NEW anomaly, NEW word
  PROVE  /\ Paired!Counted(t, a, anomaly, word) \in ArmTally
         /\ Paired!Counted(t, a, anomaly, word).treated = t.treated
         /\ Paired!Answered(Paired!Counted(t, a, anomaly, word))
              + (IF a = "runner" THEN 0 ELSE Paired!Counted(t, a, anomaly, word).unread)
            = Paired!Answered(t) + (IF a = "runner" THEN 0 ELSE t.unread) + 1
<1> DEFINE r == Paired!Counted(t, a, anomaly, word)
           Once(u) == /\ u \in ArmTally /\ u.treated = t.treated
                      /\ Paired!Answered(u) = Paired!Answered(t) + 1 /\ u.unread = t.unread
           cell == IF anomaly THEN (IF word = "anomaly" THEN "tp" ELSE "fn")
                              ELSE (IF word = "normal" THEN "tn" ELSE "fp")
           more == [t EXCEPT ![cell] = @ + 1]
           unread(u) == [u EXCEPT !.unread = @ + 1]
<1>1. Once([t EXCEPT !["tp"] = @ + 1])
  BY DEF ArmTally, Paired!Answered
<1>2. Once([t EXCEPT !["fn"] = @ + 1])
  BY DEF ArmTally, Paired!Answered
<1>3. Once([t EXCEPT !["tn"] = @ + 1])
  BY DEF ArmTally, Paired!Answered
<1>4. Once([t EXCEPT !["fp"] = @ + 1])
  BY DEF ArmTally, Paired!Answered
<1>5. Once(more)
  <2>1. cell \in {"tp", "fn", "tn", "fp"}
    OBVIOUS
  <2> HIDE DEF cell, Once
  <2>2. QED
    BY <1>1, <1>2, <1>3, <1>4, <2>1
<1>6. ASSUME NEW u \in ArmTally
      PROVE  /\ unread(u) \in ArmTally /\ unread(u).treated = u.treated
             /\ Paired!Answered(unread(u)) = Paired!Answered(u) /\ unread(u).unread = u.unread + 1
  BY DEF ArmTally, Paired!Answered
<1>7. \/ r = more /\ (a = "runner" \/ a # "runner")
      \/ a = "runner" /\ r = unread(more)
      \/ a # "runner" /\ r = unread(t)
  <2> DEFINE read == IF a = "runner" THEN word # Paired!NoWord ELSE word \in {"anomaly", "normal"}
  <2>1. r = IF read THEN more ELSE IF a = "runner" THEN unread(more) ELSE unread(t)
    BY Zenon DEF Paired!Counted
  <2> HIDE DEF read, r, more, unread
  <2>2. QED
    BY <2>1
<1>8. Paired!Answered(t) \in Nat /\ t.unread \in Nat
  BY DEF ArmTally, Paired!Answered
<1> HIDE DEF r, more, unread
<1>9. more \in ArmTally /\ more.treated = t.treated
      /\ Paired!Answered(more) = Paired!Answered(t) + 1 /\ more.unread = t.unread
  BY <1>5
<1> HIDE DEF Once
<1>10. CASE r = more
  BY <1>8, <1>9, <1>10 DEF r
<1>11. CASE a = "runner" /\ r = unread(more)
  BY <1>6, <1>8, <1>9, <1>11 DEF r
<1>12. CASE a # "runner" /\ r = unread(t)
  BY <1>6, <1>8, <1>12 DEF r
<1>13. QED
  BY <1>7, <1>10, <1>11, <1>12

LEMMA MajorityOfTwo ==
  ASSUME NEW t \in ArmTally
  PROVE  /\ Paired!Majority(t) \in {t.tp + t.fp, t.tn + t.fn}
         /\ Paired!Majority(t) >= t.tp + t.fp /\ Paired!Majority(t) >= t.tn + t.fn
<1> DEFINE a == t.tp + t.fp
           b == t.tn + t.fn
<1>1. a \in Nat /\ b \in Nat
  BY DEF ArmTally
<1>2. Paired!Majority(t) = CHOOSE x \in {a, b} : \A y \in {a, b} : x >= y
  BY DEF Paired!Majority, Paired!Max
<1> HIDE DEF a, b
<1>3. \E x \in {a, b} : \A y \in {a, b} : x >= y
  BY <1>1
<1>4. Paired!Majority(t) \in {a, b} /\ \A y \in {a, b} : Paired!Majority(t) >= y
  BY <1>2, <1>3
<1>5. QED
  BY <1>4 DEF a, b

\* The verdict's arithmetic: an arm that is not degenerate was answered both ways, and one
\* that was answered one way only is at chance.
LEMMA VerdictArithmetic ==
  ASSUME NEW t \in ArmTally
  PROVE  /\ ~Paired!IsDegenerate(t) => t.tp + t.fp > 0 /\ t.tn + t.fn > 0
         /\ Paired!Majority(t) = Paired!Answered(t) /\ t.tp + t.fn > 0 /\ t.tn + t.fp > 0 => Paired!AtChance(t)
<1>1. t.tp \in Nat /\ t.fn \in Nat /\ t.tn \in Nat /\ t.fp \in Nat
  BY DEF ArmTally
<1>2. Paired!Answered(t) = t.tp + t.fn + t.tn + t.fp
  BY DEF Paired!Answered
<1>3. /\ Paired!Majority(t) \in {t.tp + t.fp, t.tn + t.fn}
      /\ Paired!Majority(t) >= t.tp + t.fp /\ Paired!Majority(t) >= t.tn + t.fn
  BY MajorityOfTwo
<1>4. ~Paired!IsDegenerate(t) => t.tp + t.fp > 0 /\ t.tn + t.fn > 0
  <2> SUFFICES ASSUME ~Paired!IsDegenerate(t) PROVE t.tp + t.fp > 0 /\ t.tn + t.fn > 0
    OBVIOUS
  <2>1. Paired!Answered(t) # 0 /\ ~(100 * Paired!Majority(t) >= 98 * Paired!Answered(t))
    BY DEF Paired!IsDegenerate
  <2>2. QED
    BY <1>1, <1>2, <1>3, <2>1
<1>5. ASSUME Paired!Majority(t) = Paired!Answered(t), t.tp + t.fn > 0, t.tn + t.fp > 0 PROVE Paired!AtChance(t)
  <2>1. (t.tn = 0 /\ t.fn = 0) \/ (t.tp = 0 /\ t.fp = 0)
    BY <1>1, <1>2, <1>3, <1>5
  <2>2. t.tp * (t.tn + t.fp) + t.tn * (t.tp + t.fn) = (t.tp + t.fn) * (t.tn + t.fp)
    <3>1. CASE t.tn = 0 /\ t.fn = 0
      BY <1>1, <3>1
    <3>2. CASE t.tp = 0 /\ t.fp = 0
      BY <1>1, <3>2
    <3>3. QED
      BY <2>1, <3>1, <3>2
  <2>3. t.tp + t.fn # 0 /\ t.tn + t.fp # 0
    BY <1>1, <1>5
  <2>4. QED
    BY <2>2, <2>3 DEF Paired!AtChance
<1>6. QED
  BY <1>4, <1>5

\* What the arms keep: a trial is pending only while there are events left, and it is of the
\* contaminated arm if it is treated; every event asked about is in the running arm's tally
\* once; the contaminated arm begins with an empty one; and 0 is returned only when neither
\* arm is degenerate.
ArmsInv ==
  /\ stream \in Streams
  /\ arm \in {"clean", "dirty", "runner", "over", "crashed"}
  /\ asked \in 0..Len(stream)
  /\ tally \in [{"clean", "dirty", "runner"} -> ArmTally]
  /\ shown.pending => asked < Len(stream) /\ arm \in {"clean", "dirty", "runner"}
  /\ shown.treatment # "none" => arm = "dirty" /\ shown.pending
  /\ arm = "clean" => tally["dirty"] = Paired!NoTally
  /\ arm = "dirty" => tally["dirty"].treated <= asked
  /\ tally["dirty"].treated <= Len(stream)
  /\ tally["clean"].treated = 0 /\ tally["runner"].treated = 0
  /\ arm \in DOMAIN tally =>
       Paired!Answered(tally[arm]) + (IF arm = "runner" THEN 0 ELSE tally[arm].unread) = asked
  /\ armsExit.code = 0 => arm = "over" /\ \A a \in {"clean", "dirty"} : ~Paired!IsDegenerate(tally[a])
  /\ Paired!TreatedIsDifferent

LEMMA ArmsInvImplies == ArmsInv => Paired!TreatedIsDifferent /\ Paired!VerdictMeansSomething
<1> SUFFICES ASSUME ArmsInv PROVE Paired!TreatedIsDifferent /\ Paired!VerdictMeansSomething
  OBVIOUS
<1>1. DOMAIN tally = {"clean", "dirty", "runner"} /\ \A a \in DOMAIN tally : tally[a] \in ArmTally
  BY DEF ArmsInv
<1>2. Len(stream) \in Nat
  BY DEF ArmsInv
<1>3. Paired!TreatedIsDifferent
  BY DEF ArmsInv
<1>4. armsExit.code = 0 =>
        \A a \in {"clean", "dirty"} : tally[a].tp + tally[a].fp > 0 /\ tally[a].tn + tally[a].fn > 0
  BY <1>1, VerdictArithmetic DEF ArmsInv
<1>5. ASSUME NEW a \in DOMAIN tally
      PROVE  /\ /\ Paired!Majority(tally[a]) = Paired!Answered(tally[a])
                /\ tally[a].tp + tally[a].fn > 0 /\ tally[a].tn + tally[a].fp > 0
                => Paired!AtChance(tally[a])
             /\ a = arm => Paired!Answered(tally[a]) + (IF a = "runner" THEN 0 ELSE tally[a].unread) = asked
             /\ tally[a].treated <= Len(stream) /\ (a # "dirty" => tally[a].treated = 0)
  <2>1. tally[a] \in ArmTally
    BY <1>1
  <2>2. Paired!Majority(tally[a]) = Paired!Answered(tally[a])
          /\ tally[a].tp + tally[a].fn > 0 /\ tally[a].tn + tally[a].fp > 0 => Paired!AtChance(tally[a])
    BY <2>1, VerdictArithmetic
  <2>3. a = arm => Paired!Answered(tally[a]) + (IF a = "runner" THEN 0 ELSE tally[a].unread) = asked
    BY DEF ArmsInv
  <2>4. tally[a].treated <= Len(stream) /\ (a # "dirty" => tally[a].treated = 0)
    BY <1>1, <1>2 DEF ArmsInv
  <2>5. QED
    BY <2>2, <2>3, <2>4
<1>6. QED
  BY <1>3, <1>4, <1>5 DEF Paired!VerdictMeansSomething

LEMMA ArmsStart == ASSUME Paired!ArmsAssumption, Paired!Init PROVE ArmsInv
<1>1. stream \in Streams /\ Len(stream) \in Nat
  BY DEF Paired!Init, Paired!ArmsAssumption
<1>2. Paired!NoTally \in ArmTally /\ Paired!NoTally.treated = 0 /\ Paired!NoTally.unread = 0
      /\ Paired!Answered(Paired!NoTally) = 0
  BY DEF Paired!NoTally, ArmTally, Paired!Answered
<1>3. tally = [a \in {"clean", "dirty", "runner"} |-> Paired!NoTally] /\ armsExit.code = -1
      /\ arm \in {"clean", "runner"} /\ asked = 0
  BY DEF Paired!Init
<1>4. shown.pending = FALSE /\ shown.treatment = "none"
  BY DEF Paired!Init, Paired!NotAsked
<1>5. Paired!TreatedIsDifferent
  BY <1>4 DEF Paired!TreatedIsDifferent
<1>6. tally \in [{"clean", "dirty", "runner"} -> ArmTally]
  BY <1>2, <1>3
<1>7. tally["clean"] = Paired!NoTally /\ tally["dirty"] = Paired!NoTally /\ tally["runner"] = Paired!NoTally
  BY <1>3
<1>8. QED
  BY <1>1, <1>2, <1>3, <1>4, <1>5, <1>6, <1>7 DEF ArmsInv

\* The clean prompt of an event does not change.
LEMMA RecordsStay ==
  ASSUME stream' = stream, method' = method, asked' = asked
  PROVE  Paired!Records(asked + 1)' = Paired!Records(asked + 1)
<1>1. \A j : Paired!Measured(j)' = Paired!Measured(j)
  BY DEF Paired!Measured
<1>2. Paired!History(asked + 1)' = Paired!History(asked + 1)
  BY <1>1 DEF Paired!History
<1>3. Paired!Measured(asked + 1)' = Paired!Measured(asked + 1)
  BY <1>1
<1>4. Paired!ContextOf(asked + 1)' = Paired!ContextOf(asked + 1)
  BY <1>2, <1>3 DEF Paired!ContextOf
<1>5. QED
  BY <1>4 DEF Paired!Records

LEMMA AskKeeps == ASSUME Paired!ArmsAssumption, ArmsInv, Paired!Ask PROVE ArmsInv'
<1> DEFINE i == asked + 1
           context == IF arm = "runner" THEN <<>> ELSE Paired!ContextOf(i)
           plain == [records |-> Paired!FormatContext(context, i), treatment |-> "none", attempt |-> "none", pending |-> TRUE]
<1>1. /\ arm \in {"clean", "dirty", "runner"} /\ asked < Len(stream) /\ asked \in 0..Len(stream)
      /\ UNCHANGED <<stream, method, arm, asked, tally, armsExit>>
  <2>1. arm \in {"clean", "dirty", "runner"} /\ asked < Len(stream)
    BY Zenon DEF Paired!Ask
  <2>2. UNCHANGED <<stream, method, arm, asked, tally, armsExit>>
    BY Zenon DEF Paired!Ask
  <2>3. QED
    BY <2>1, <2>2 DEF ArmsInv
<1>2. i \in Nat \ {0} /\ Len(stream) \in Nat
  <2>1. Len(stream) \in Nat
    BY DEF ArmsInv, Paired!ArmsAssumption
  <2>2. QED
    BY <1>1, <2>1
<1>3. \/ shown' = plain
      \/ arm = "dirty" /\ \E type \in Paired!Types : \E outcome \in Paired!Apply(type, i, context) :
           shown' = [plain EXCEPT !.records = Paired!FormatContext(outcome.records, i), !.attempt = type,
                                  !.treatment = Paired!EffectiveType(type, outcome)]
  BY Zenon DEF Paired!Ask
<1> DEFINE Proper(show, a) ==
             a # "runner" =>
               /\ (show.treatment # "none") = (show.records # Paired!Records(i))
               /\ show.treatment = "RetrievalContamination" =>
                    Paired!Newest(i, show.records) = Paired!Newest(i, Paired!Records(i))
               /\ show.treatment \notin {"none", "RetrievalContamination"} =>
                    Paired!Newest(i, show.records) \cap Paired!Range(Paired!Records(i)) = {}
<1>4. Proper(plain, arm)
  BY DEF Paired!Records
<1>5. ASSUME arm = "dirty", NEW type \in Paired!Types, NEW outcome \in Paired!Apply(type, i, context),
             shown' = [plain EXCEPT !.records = Paired!FormatContext(outcome.records, i), !.attempt = type,
                                    !.treatment = Paired!EffectiveType(type, outcome)]
      PROVE  Proper(shown', arm)
  <2>1. shown'.records = Paired!FormatContext(outcome.records, i)
        /\ shown'.treatment = Paired!EffectiveType(type, outcome)
    BY <1>5
  <2>2. context = Paired!ContextOf(i)
    BY <1>5
  <2> HIDE DEF i, context, plain
  <2>3. /\ outcome.skipped \in BOOLEAN
        /\ outcome.skipped => outcome.records = Paired!ContextOf(i)
        /\ ~outcome.skipped => Shows(i, type, outcome.records)
    BY <1>2, <2>2, ContaminationShows
  <2>4. CASE outcome.skipped
    <3>1. shown'.treatment = "none" /\ shown'.records = Paired!Records(i)
      BY <2>1, <2>3, <2>4 DEF Paired!EffectiveType, Paired!Records
    <3>2. QED
      BY <3>1
  <2>5. CASE ~outcome.skipped
    <3>1. shown'.treatment = type /\ type # "none"
      BY <2>1, <2>5 DEF Paired!EffectiveType, Paired!Types
    <3>2. QED
      BY <2>1, <2>3, <2>5, <3>1 DEF Shows
  <2>6. QED
    BY <2>3, <2>4, <2>5
<1>6. Proper(shown', arm)
  <2>1. CASE shown' = plain
    <3> HIDE DEF Proper, plain
    <3>1. QED
      BY <1>4, <2>1
  <2> HIDE DEF Proper
  <2>2. QED
    BY Zenon, <1>3, <1>5, <2>1
<1>7. shown'.pending = TRUE /\ (shown'.treatment # "none" => arm = "dirty")
  <2>1. CASE shown' = plain
    BY <2>1
  <2>2. ASSUME arm = "dirty", NEW type \in Paired!Types, NEW outcome \in Paired!Apply(type, i, context),
               shown' = [plain EXCEPT !.records = Paired!FormatContext(outcome.records, i), !.attempt = type,
                                      !.treatment = Paired!EffectiveType(type, outcome)]
        PROVE  shown'.pending = TRUE
    BY <2>2
  <2> HIDE DEF plain, context
  <2>3. QED
    BY Zenon, <1>3, <2>1, <2>2
<1> HIDE DEF plain, context
<1>8. Paired!TreatedIsDifferent'
  <2>1. Paired!Records(asked + 1)' = Paired!Records(i)
    BY <1>1, RecordsStay
  <2>2. /\ Paired!Newest(asked + 1, shown.records)' = Paired!Newest(i, shown'.records)
        /\ Paired!Newest(asked + 1, Paired!Records(asked + 1))' = Paired!Newest(i, Paired!Records(i))
    BY <1>1, <2>1 DEF Paired!Newest
  <2>3. Proper(shown', arm')
    BY <1>1, <1>6
  <2>4. QED
    BY <2>1, <2>2, <2>3 DEF Paired!TreatedIsDifferent
<1>9. QED
  BY <1>1, <1>2, <1>7, <1>8 DEF ArmsInv, Paired!IsDegenerate, Paired!Answered, Paired!Majority

LEMMA HearKeeps == ASSUME Paired!ArmsAssumption, ArmsInv, Paired!Hear PROVE ArmsInv'
<1>1. /\ shown.pending /\ asked' = asked + 1 /\ shown' = Paired!NotAsked
      /\ UNCHANGED <<stream, method, armsExit>>
  BY Zenon DEF Paired!Hear
<1>2. /\ arm \in {"clean", "dirty", "runner"} /\ asked \in Nat /\ Len(stream) \in Nat /\ asked < Len(stream)
      /\ stream \in Streams
  <2>1. Len(stream) \in Nat
    BY DEF ArmsInv, Paired!ArmsAssumption
  <2>2. QED
    BY <1>1, <2>1 DEF ArmsInv
<1>3. shown'.pending = FALSE /\ shown'.treatment = "none"
  BY <1>1 DEF Paired!NotAsked
<1>4. Paired!TreatedIsDifferent'
  BY <1>3 DEF Paired!TreatedIsDifferent
<1>5. asked' \in 0..Len(stream)' /\ asked' \in Nat /\ stream' = stream
  BY <1>1, <1>2
<1>6. \/ arm' = "crashed" /\ tally' = tally
      \/ \E answer \in Replies \cup {<<>>} :
           LET counted == Paired!Counted(tally[arm], arm, stream[asked + 1].anomaly, Paired!Parsed(answer).classification)
               treated == counted.treated + (IF shown.treatment # "none" THEN 1 ELSE 0)
           IN  tally' = [tally EXCEPT ![arm] = [counted EXCEPT !.treated = treated]] /\ arm' = arm
  BY Zenon DEF Paired!Hear
<1>7. CASE arm' = "crashed" /\ tally' = tally
  <2>1. armsExit'.code # 0
    BY <1>1, <1>2 DEF ArmsInv
  <2>2. /\ tally' \in [{"clean", "dirty", "runner"} -> ArmTally]
        /\ tally'["dirty"].treated <= Len(stream)' /\ tally'["clean"].treated = 0 /\ tally'["runner"].treated = 0
        /\ arm' \in {"clean", "dirty", "runner", "over", "crashed"}
        /\ arm' # "clean" /\ arm' # "dirty"
    BY <1>1, <1>7 DEF ArmsInv
  <2>3. arm' \notin DOMAIN tally'
    BY <1>7, <2>2
  <2>4. QED
    BY <1>2, <1>3, <1>4, <1>5, <2>1, <2>2, <2>3 DEF ArmsInv
<1>8. ASSUME NEW answer \in Replies \cup {<<>>},
             LET counted == Paired!Counted(tally[arm], arm, stream[asked + 1].anomaly, Paired!Parsed(answer).classification)
                 treated == counted.treated + (IF shown.treatment # "none" THEN 1 ELSE 0)
             IN  tally' = [tally EXCEPT ![arm] = [counted EXCEPT !.treated = treated]] /\ arm' = arm
      PROVE  ArmsInv'
  <2> DEFINE counted == Paired!Counted(tally[arm], arm, stream[asked + 1].anomaly, Paired!Parsed(answer).classification)
             one == IF shown.treatment # "none" THEN 1 ELSE 0
             u == [counted EXCEPT !.treated = counted.treated + one]
  <2>1. tally' = [tally EXCEPT ![arm] = u] /\ arm' = arm
    BY <1>8
  <2>2. tally \in [{"clean", "dirty", "runner"} -> ArmTally] /\ tally[arm] \in ArmTally
    BY <1>2 DEF ArmsInv
  <2>3. /\ counted \in ArmTally /\ counted.treated = tally[arm].treated
        /\ Paired!Answered(counted) + (IF arm = "runner" THEN 0 ELSE counted.unread)
            = Paired!Answered(tally[arm]) + (IF arm = "runner" THEN 0 ELSE tally[arm].unread) + 1
    BY <2>2, CountedOnce
  <2> HIDE DEF counted
  <2>4. one \in {0, 1} /\ (arm # "dirty" => one = 0)
    BY DEF ArmsInv
  <2> HIDE DEF one
  <2>5. /\ u \in ArmTally /\ u.treated = tally[arm].treated + one
        /\ Paired!Answered(u) = Paired!Answered(counted) /\ u.unread = counted.unread
    <3>1. counted.treated \in Nat /\ counted.treated + one \in Nat
      BY <2>3, <2>4 DEF ArmTally
    <3>2. /\ u \in ArmTally /\ u.treated = counted.treated + one
          /\ u.tp = counted.tp /\ u.fn = counted.fn /\ u.tn = counted.tn /\ u.fp = counted.fp
          /\ u.unread = counted.unread
      BY <2>3, <3>1 DEF ArmTally
    <3> HIDE DEF u
    <3>3. QED
      BY <2>3, <3>2 DEF Paired!Answered
  <2> HIDE DEF u
  <2>6. Paired!Answered(u) + (IF arm = "runner" THEN 0 ELSE u.unread) = asked + 1
    <3>1. Paired!Answered(tally[arm]) + (IF arm = "runner" THEN 0 ELSE tally[arm].unread) = asked
      BY <1>2, <2>2 DEF ArmsInv
    <3>2. QED
      BY <2>3, <2>5, <3>1
  <2>7. /\ tally' \in [{"clean", "dirty", "runner"} -> ArmTally] /\ tally'[arm] = u
        /\ \A a \in {"clean", "dirty", "runner"} : a # arm => tally'[a] = tally[a]
    BY <1>2, <2>1, <2>2, <2>5
  <2>8. /\ tally'["clean"].treated = 0 /\ tally'["runner"].treated = 0
        /\ arm = "clean" => tally'["dirty"] = Paired!NoTally
        /\ arm = "dirty" => tally'["dirty"].treated <= asked'
        /\ tally'["dirty"].treated <= Len(stream)
    <3>1. CASE arm = "dirty"
      <4>1. tally["dirty"].treated <= asked /\ tally["dirty"].treated \in Nat
        BY <2>2, <3>1 DEF ArmsInv, ArmTally
      <4>2. tally'["dirty"].treated <= asked + 1
        BY <1>2, <2>4, <2>5, <2>7, <3>1, <4>1
      <4>3. tally'["dirty"].treated \in Nat
        BY <2>7 DEF ArmTally
      <4>4. tally'["clean"] = tally["clean"] /\ tally'["runner"] = tally["runner"]
        BY <2>7, <3>1
      <4>5. QED
        BY <1>1, <1>2, <3>1, <4>2, <4>3, <4>4 DEF ArmsInv
    <3>2. CASE arm # "dirty"
      <4>1. tally'["dirty"] = tally["dirty"]
        BY <2>7, <3>2
      <4>2. u.treated = tally[arm].treated
        <5>1. tally[arm].treated \in Nat
          BY <2>2 DEF ArmTally
        <5>2. one = 0
          BY <2>4, <3>2
        <5>3. QED
          BY <2>5, <5>1, <5>2
      <4>3. \A a \in {"clean", "runner"} : tally'[a].treated = tally[a].treated
        BY <2>7, <4>2
      <4>4. QED
        BY <3>2, <4>1, <4>3 DEF ArmsInv
    <3>3. QED
      BY <3>1, <3>2
  <2>9. armsExit'.code # 0
    <3>1. armsExit.code = 0 => arm = "over"
      BY DEF ArmsInv
    <3>2. QED
      BY <1>1, <1>2, <3>1
  <2>10. arm' \in DOMAIN tally' =>
           Paired!Answered(tally[arm])' + (IF arm' = "runner" THEN 0 ELSE tally'[arm'].unread) = asked'
    BY <1>1, <2>1, <2>6, <2>7 DEF Paired!Answered
  <2>11. QED
    BY <1>1, <1>2, <1>3, <1>4, <1>5, <2>1, <2>7, <2>8, <2>9, <2>10 DEF ArmsInv
<1>9. QED
  BY <1>6, <1>7, <1>8

LEMMA ArmsKeep == ASSUME Paired!ArmsAssumption, ArmsInv, [Paired!Next]_(Paired!vars) PROVE ArmsInv'
<1>1. Len(stream) \in Nat
  BY DEF ArmsInv, Paired!ArmsAssumption
<1>2. CASE Paired!Ask
  BY <1>2, AskKeeps
<1>3. CASE Paired!Hear
  BY <1>3, HearKeeps
<1>4. CASE Paired!NextArm
  <2>1. /\ arm = "clean" /\ ~shown.pending /\ arm' = "dirty" /\ asked' = 0
        /\ UNCHANGED <<stream, method, shown, tally, armsExit>>
    BY <1>4 DEF Paired!NextArm
  <2>2. Paired!NoTally.treated = 0 /\ Paired!NoTally.unread = 0 /\ Paired!Answered(Paired!NoTally) = 0
    BY DEF Paired!NoTally, Paired!Answered
  <2>3. Paired!TreatedIsDifferent'
    BY <2>1 DEF Paired!TreatedIsDifferent
  <2>4. tally' = tally /\ tally["dirty"] = Paired!NoTally
    BY <2>1 DEF ArmsInv
  <2>5. Paired!Answered(tally[arm])' + (IF arm' = "runner" THEN 0 ELSE tally'[arm'].unread) = asked'
    BY <2>1, <2>2, <2>4 DEF Paired!Answered
  <2>6. armsExit'.code # 0
    BY <2>1 DEF ArmsInv
  <2>7. QED
    BY <1>1, <2>1, <2>2, <2>3, <2>4, <2>5, <2>6 DEF ArmsInv
<1>5. CASE Paired!NoBackend
  <2>1. /\ arm = "clean" /\ ~shown.pending /\ arm' = "over" /\ armsExit'.code = 1
        /\ UNCHANGED <<stream, method, asked, shown, tally>>
    BY <1>5 DEF Paired!NoBackend
  <2>2. Paired!TreatedIsDifferent'
    BY <2>1 DEF Paired!TreatedIsDifferent
  <2>3. QED
    BY <1>1, <2>1, <2>2 DEF ArmsInv
<1>6. CASE Paired!Finish
  <2>1. /\ arm = "dirty" /\ ~shown.pending /\ arm' = "over"
        /\ UNCHANGED <<stream, method, asked, shown, tally>>
        /\ armsExit'.code = IF \E a \in {"clean", "dirty"} : Paired!IsDegenerate(tally[a]) THEN 3 ELSE 0
    BY <1>6 DEF Paired!Finish
  <2>2. Paired!TreatedIsDifferent'
    BY <2>1 DEF Paired!TreatedIsDifferent
  <2>3. \A a \in {"clean", "dirty"} : Paired!IsDegenerate(tally[a])' = Paired!IsDegenerate(tally[a])
    BY <2>1 DEF Paired!IsDegenerate, Paired!Answered, Paired!Majority
  <2>4. armsExit'.code = 0 => \A a \in {"clean", "dirty"} : ~Paired!IsDegenerate(tally[a])'
    BY <2>1, <2>3
  <2>5. QED
    BY <1>1, <2>1, <2>2, <2>4 DEF ArmsInv
<1>7. CASE UNCHANGED Paired!vars
  <2>1. /\ stream' = stream /\ method' = method /\ arm' = arm /\ asked' = asked /\ shown' = shown
        /\ tally' = tally /\ armsExit' = armsExit
    BY <1>7 DEF Paired!vars
  <2>2. Paired!Records(asked + 1)' = Paired!Records(asked + 1)
    BY <2>1, RecordsStay
  <2>3. Paired!TreatedIsDifferent'
    BY <2>1, <2>2 DEF ArmsInv, Paired!TreatedIsDifferent, Paired!Newest
  <2>4. /\ \A a \in {"clean", "dirty"} : Paired!IsDegenerate(tally[a])' = Paired!IsDegenerate(tally[a])
        /\ Paired!Answered(tally[arm])' = Paired!Answered(tally[arm])
    BY <2>1 DEF Paired!IsDegenerate, Paired!Answered, Paired!Majority
  <2>5. QED
    BY <2>1, <2>3, <2>4 DEF ArmsInv
<1>8. QED
  BY <1>2, <1>3, <1>4, <1>5, <1>6, <1>7 DEF Paired!Next

\* ArmsAreComparable for every stream of events, every strategy, whatever is contaminated and
\* whatever the model answers: a trial counts as treated exactly if its prompt differs from
\* the clean one, a treatment is what its reader takes for the newest record, retrieval
\* apart, and an exit code of 0 means that both arms were answered in both ways.
THEOREM ArmsMeasureTheTreatment ==
  ASSUME Paired!ArmsAssumption PROVE Paired!Spec => []ArmsAreComparable
<1>1. Paired!Init => ArmsInv
  BY ArmsStart
<1>2. ArmsInv /\ [Paired!Next]_(Paired!vars) => ArmsInv'
  BY ArmsKeep
<1>3. ArmsInv => ArmsAreComparable
  BY ArmsInvImplies DEF ArmsAreComparable
<1>4. QED
  BY <1>1, <1>2, <1>3, PTL DEF Paired!Spec

-------------------------------------------------------------------------------
(* A batch run locally.                                                    *)

\* The runs that have a result, and the threads that hold a result not counted yet, or a
\* figure not printed yet.
Finished == {k \in DOMAIN rows : rows[k] # None}
Storing == {w \in Pool : held[w].stage = "stored"}
Telling == {w \in Pool : held[w].stage = "counted"}

Stages == {"run", "stored", "counted"}
Does(w) ==
  \/ held[w] = Local!Idle \/ held[w] = Local!Out
  \/ \E s \in Stages, k \in 1..Len(configs), d \in Nat : held[w] = Local!At(s, k, d)

\* The threads: what each holds was drawn, by it alone, and is not finished before it is
\* run; what was drawn is finished or still held.
ThreadsInv ==
  /\ held \in [Pool -> {held[w] : w \in Pool}] /\ \A w \in Pool : Does(w)
  /\ \A v, w \in Pool : held[v].stage \in Stages /\ held[w].stage \in Stages /\ held[v].at = held[w].at => v = w
  /\ \A w \in Pool : held[w].stage \in Stages => held[w].at <= taskIndex
  /\ \A w \in Pool : held[w].stage = "run" => rows[held[w].at] = None
  /\ \A w \in Pool : held[w] = Local!Out => Len(configs) <= taskIndex
  /\ \A k \in 1..Len(configs) : k <= taskIndex =>
       rows[k] # None \/ \E w \in Pool : held[w].stage = "run" /\ held[w].at = k

\* The results: each at the place of its run, none before it was drawn.
ResultsInv ==
  /\ rows \in [1..Len(configs) -> {rows[k] : k \in DOMAIN rows}]
  /\ \A k \in 1..Len(configs) : rows[k] # None => k <= taskIndex /\ rows[k] = configs[k]

\* The figures: of the finished runs, all are counted but those just stored; of the figures
\* up to the counter, each is printed or held.
FiguresInv ==
  /\ completed + Cardinality(Storing) = Cardinality(Finished)
  /\ Len(printed) + Cardinality(Telling) = completed
  /\ \A w \in Telling : held[w].done \in 1..completed
  /\ \A i \in 1..Len(printed) : printed[i] \in 1..completed /\ printed[i] < i + Cardinality(Pool)
  /\ \A c \in 1..completed :
       (\E i \in 1..Len(printed) : printed[i] = c) \/ (\E w \in Telling : held[w].done = c)

\* When the threads are joined there is a result for every run, and a figure for each.
JoinedInv ==
  /\ rows = configs /\ Len(printed) = Len(configs) /\ {printed[i] : i \in DOMAIN printed} = 1..Len(configs)

Cells == {rows[k] : k \in DOMAIN rows}
Begins(s, u) == Len(s) <= Len(u) /\ \A i \in 1..Len(s) : s[i] = u[i]

Fields(x) == DOMAIN x = {"rows", "summary", "figures"}

\* The files: those of the batch that is being saved begin like its results.
FilesInv ==
  /\ \A d \in DOMAIN disk : Fields(disk[d])
  /\ step \in {"rows", "summary"} =>
       /\ Local!Saved \in DOMAIN disk
       /\ disk[Local!Saved].rows \in Seq(Cells) /\ Begins(disk[Local!Saved].rows, rows)
  /\ step = "summary" =>
       /\ disk[Local!Saved].rows = rows
       /\ disk[Local!Saved].summary \in Seq(Cells) /\ Begins(disk[Local!Saved].summary, rows)

BatchInv ==
  /\ taskIndex \in Nat /\ completed \in Nat /\ processes \in Nat /\ printed \in Seq(Nat)
  /\ step \in {"over", "running", "rows", "summary"}
  /\ step = "over" => taskIndex = 0 /\ completed = 0 /\ printed = <<>> /\ configs = <<>> /\ rows = <<>>
  /\ step # "over" =>
       request \in Asked /\ Local!Accepted(request) /\ configs = Local!Expand(request)
  /\ step = "running" => ThreadsInv /\ ResultsInv /\ FiguresInv
  /\ step \in {"rows", "summary"} => JoinedInv
  /\ FilesInv

\* A request that is accepted has runs, as many as the loops make.
LEMMA RequestHasRuns ==
  ASSUME Local!RunAssumption, NEW r \in Asked, Local!Accepted(r)
  PROVE  /\ Local!NumberOf(r) \in Nat /\ Len(Local!Expand(r)) = Local!NumberOf(r)
         /\ DOMAIN Local!Expand(r) = 1..Local!NumberOf(r)
         /\ \A k \in 1..Local!NumberOf(r) : Local!Expand(r)[k] # None
<1>1. r \in Local!Request
  BY DEF Local!RunAssumption
<1>2. /\ r.methods \in Seq(STRING) /\ r.rates \in Seq(Nat) /\ r.baseRate \in Nat /\ r.events \in Seq(Nat)
      /\ r.seeds \in Nat
  <2>1. r.seeds \in Int /\ r.seeds >= 1
    <3>1. r.seeds \in Int
      BY <1>1 DEF Local!Request
    <3>2. r.seeds >= 1
      BY Zenon DEF Local!Accepted
    <3>3. QED
      BY <3>1, <3>2
  <2>2. QED
    BY <1>1, <2>1 DEF Local!Request
<1>3. Local!Rates(r) \in Seq(Nat)
  BY <1>2 DEF Local!Rates
<1>4. Len(r.methods) \in Nat /\ Len(Local!Rates(r)) \in Nat /\ Len(r.events) \in Nat
  BY <1>2, <1>3, LenProperties
<1>5. \A a, b \in Nat : a * b \in Nat
  OBVIOUS
<1>6. Local!NumberOf(r) \in Nat
  BY <1>2, <1>4, <1>5 DEF Local!NumberOf
<1>7. DOMAIN Local!Expand(r) = 1..Local!NumberOf(r)
  BY DEF Local!Expand
<1>8. Local!Expand(r) \in [1..Local!NumberOf(r) -> {Local!Expand(r)[k] : k \in 1..Local!NumberOf(r)}]
  BY <1>7 DEF Local!Expand
<1>9. Len(Local!Expand(r)) = Local!NumberOf(r)
  BY <1>6, <1>8, TableIsSeq
<1>10. \A k \in 1..Local!NumberOf(r) : Local!Expand(r)[k] # None
  BY DEF Local!RunAssumption
<1>11. QED
  BY <1>6, <1>7, <1>9, <1>10

LEMMA AtHas ==
  ASSUME NEW s, NEW k, NEW d
  PROVE  Local!At(s, k, d).stage = s /\ Local!At(s, k, d).at = k /\ Local!At(s, k, d).done = d
BY DEF Local!At

LEMMA StageOf ==
  ASSUME NEW w \in Pool, Does(w)
  PROVE  /\ held[w].stage = "idle" => held[w] = Local!Idle
         /\ held[w].stage = "out" => held[w] = Local!Out
         /\ held[w].stage \in {"idle", "out"} \cup Stages
         /\ held[w].stage \in Stages =>
              /\ held[w].at \in 1..Len(configs) /\ held[w].done \in Nat
              /\ held[w] = Local!At(held[w].stage, held[w].at, held[w].done)
         /\ held[w] = Local!Idle => held[w].stage = "idle"
         /\ held[w] = Local!Out => held[w].stage = "out"
<1>1. Local!Idle.stage = "idle" /\ Local!Out.stage = "out" /\ Local!Idle # Local!Out
  BY DEF Local!Idle, Local!Out
<1>2. CASE held[w] = Local!Idle \/ held[w] = Local!Out
  BY <1>1, <1>2 DEF Stages
<1>3. ASSUME NEW s \in Stages, NEW k \in 1..Len(configs), NEW d \in Nat, held[w] = Local!At(s, k, d)
      PROVE  /\ held[w].stage \in Stages /\ held[w].at \in 1..Len(configs) /\ held[w].done \in Nat
             /\ held[w] = Local!At(held[w].stage, held[w].at, held[w].done)
  <2>1. held[w].stage = s /\ held[w].at = k /\ held[w].done = d
    BY <1>3, AtHas
  <2>2. QED
    BY <1>3, <2>1
<1>4. QED
  BY <1>1, <1>2, <1>3 DEF Does, Stages

\* One element joins a finite set, or leaves it.
LEMMA OneMore ==
  ASSUME NEW S, NEW T, NEW x, IsFiniteSet(S), x \notin S, T = S \cup {x}
  PROVE  IsFiniteSet(T) /\ Cardinality(T) = Cardinality(S) + 1 /\ Cardinality(S) \in Nat /\ Cardinality(T) \in Nat
BY FS_AddElement, FS_CardinalityType

\* The sets whose sizes the figures compare are finite.
LEMMA BatchSets ==
  ASSUME Local!RunAssumption, BatchInv, step = "running"
  PROVE  /\ IsFiniteSet(Pool) /\ Cardinality(Pool) \in Nat /\ Len(configs) \in Nat
         /\ IsFiniteSet(Storing) /\ IsFiniteSet(Telling) /\ IsFiniteSet(Finished)
         /\ Cardinality(Storing) \in Nat /\ Cardinality(Telling) \in Nat /\ Cardinality(Finished) \in Nat
         /\ Cardinality(Telling) <= Cardinality(Pool) /\ Len(printed) \in Nat
<1>1. IsFiniteSet(Pool)
  BY Zenon DEF Local!IsFiniteSet, IsFiniteSet, Local!RunAssumption
<1>2. Len(configs) \in Nat /\ DOMAIN rows = 1..Len(configs)
  <2>1. request \in Asked /\ Local!Accepted(request) /\ configs = Local!Expand(request)
    BY DEF BatchInv
  <2>2. Len(configs) \in Nat
    BY <2>1, RequestHasRuns
  <2>3. QED
    BY <2>2 DEF BatchInv, ResultsInv
<1>3. Storing \subseteq Pool /\ Telling \subseteq Pool /\ Finished \subseteq 1..Len(configs)
  BY <1>2 DEF Storing, Telling, Finished
<1>4. IsFiniteSet(1..Len(configs))
  BY <1>2, FS_Interval
<1>5. IsFiniteSet(Storing) /\ IsFiniteSet(Telling) /\ IsFiniteSet(Finished) /\ Cardinality(Telling) <= Cardinality(Pool)
  BY <1>1, <1>3, <1>4, FS_Subset
<1>6. Len(printed) \in Nat
  BY LenProperties DEF BatchInv
<1>7. QED
  BY <1>1, <1>2, <1>5, <1>6, FS_CardinalityType

\* While the threads run, no file is touched.
LEMMA FilesWait ==
  ASSUME FilesInv, step = "running", step' = step, disk' = disk, processes' = processes, request' = request
  PROVE  FilesInv'
BY DEF FilesInv

LEMMA DrawKeeps ==
  ASSUME Local!RunAssumption, BatchInv, NEW w \in Pool, Local!Take(w)
  PROVE  BatchInv'
<1> DEFINE new == IF taskIndex >= Len(configs) THEN Local!Out ELSE Local!At("run", taskIndex + 1, 0)
<1>1. /\ step = "running" /\ held[w] = Local!Idle /\ taskIndex' = taskIndex + 1
      /\ held' = [held EXCEPT ![w] = new]
      /\ UNCHANGED <<request, configs, completed, rows, printed, step, processes, disk>>
  BY DEF Local!Take
<1>2. FilesInv'
  BY <1>1, FilesWait DEF BatchInv
<1>3. ThreadsInv /\ ResultsInv /\ FiguresInv /\ taskIndex \in Nat /\ Len(configs) \in Nat
  BY <1>1, BatchSets DEF BatchInv
<1>4. held' \in [Pool -> {held'[v] : v \in Pool}] /\ held'[w] = new /\ \A v \in Pool \ {w} : held'[v] = held[v]
  BY <1>1, <1>3 DEF ThreadsInv
<1>5. /\ new = Local!Out /\ Len(configs) <= taskIndex /\ new.stage = "out"
      \/ /\ new = Local!At("run", taskIndex + 1, 0) /\ taskIndex + 1 \in 1..Len(configs) /\ new.stage = "run"
         /\ new.at = taskIndex + 1 /\ new # Local!Out
  <2>1. Local!Out.stage = "out"
    BY DEF Local!Out
  <2>2. CASE taskIndex >= Len(configs)
    BY <2>1, <2>2, <1>3
  <2>3. CASE ~(taskIndex >= Len(configs))
    BY <2>1, <2>3, <1>3, AtHas
  <2>4. QED
    BY <2>2, <2>3
<1> HIDE DEF new
<1>6. held[w].stage = "idle"
  BY <1>1 DEF Local!Idle
<1>7. \A v \in Pool : Does(v)'
  <2>1. ASSUME NEW v \in Pool, v # w PROVE Does(v)'
    <3>1. Does(v)
      BY <1>3 DEF ThreadsInv
    <3>2. QED
      BY <1>1, <1>4, <2>1, <3>1 DEF Does
  <2>2. Does(w)'
    <3>1. CASE new = Local!Out
      BY <1>4, <3>1 DEF Does
    <3>2. CASE new = Local!At("run", taskIndex + 1, 0) /\ taskIndex + 1 \in 1..Len(configs)
      <4>1. "run" \in Stages /\ 0 \in Nat
        BY DEF Stages
      <4>2. held'[w] = Local!At("run", taskIndex + 1, 0) /\ configs' = configs
        BY <1>1, <1>4, <3>2
      <4>3. \E s \in Stages, k \in 1..Len(configs), d \in Nat : held'[w] = Local!At(s, k, d)
        BY <3>2, <4>1, <4>2, Zenon
      <4>4. QED
        BY <4>2, <4>3 DEF Does
    <3>3. QED
      BY <1>5, <3>1, <3>2
  <2>3. QED
    BY <2>1, <2>2
<1>8. ThreadsInv'
  <2>1. \A u, v \in Pool : held'[u].stage \in Stages /\ held'[v].stage \in Stages /\ held'[u].at = held'[v].at => u = v
    <3>1. SUFFICES ASSUME NEW u \in Pool, NEW v \in Pool, u # v,
                          held'[u].stage \in Stages, held'[v].stage \in Stages, held'[u].at = held'[v].at
                   PROVE  FALSE
      OBVIOUS
    <3>2. \A x \in Pool : x # w /\ held'[x].stage \in Stages => held'[x].at <= taskIndex /\ held'[x].at \in Nat
      <4>1. ASSUME NEW x \in Pool, x # w, held[x].stage \in Stages PROVE held[x].at <= taskIndex /\ held[x].at \in Nat
        BY <1>3, <4>1, StageOf DEF ThreadsInv
      <4>2. QED
        BY <1>4, <4>1
    <3>3. held'[w].stage \in Stages => held'[w].at = taskIndex + 1
      BY <1>4, <1>5 DEF Stages
    <3>4. CASE u = w \/ v = w
      BY <1>3, <3>1, <3>2, <3>3, <3>4
    <3>5. CASE u # w /\ v # w
      BY <1>3, <1>4, <3>1, <3>5 DEF ThreadsInv
    <3>6. QED
      BY <3>4, <3>5
  <2>2. \A v \in Pool : held'[v].stage \in Stages => held'[v].at <= taskIndex'
    <3>1. ASSUME NEW v \in Pool, v # w, held[v].stage \in Stages PROVE held[v].at <= taskIndex + 1
      <4>1. held[v].at \in Nat /\ held[v].at <= taskIndex
        BY <1>3, <3>1, StageOf DEF ThreadsInv
      <4>2. QED
        BY <1>3, <4>1
    <3>2. held'[w].stage \in Stages => held'[w].at <= taskIndex + 1
      BY <1>3, <1>4, <1>5 DEF Stages
    <3>3. QED
      BY <1>1, <1>4, <3>1, <3>2
  <2>3. \A v \in Pool : held'[v].stage = "run" => rows'[held'[v].at] = None
    <3>1. ASSUME new.stage = "run" PROVE rows[new.at] = None
      <4>1. new.at = taskIndex + 1 /\ taskIndex + 1 \in 1..Len(configs)
        BY <1>5, <3>1
      <4>2. QED
        BY <1>3, <4>1 DEF ResultsInv
    <3>2. QED
      BY <1>1, <1>3, <1>4, <3>1 DEF ThreadsInv
  <2>4. \A v \in Pool : held'[v] = Local!Out => Len(configs) <= taskIndex'
    <3>1. ASSUME NEW v \in Pool, held'[v] = Local!Out PROVE Len(configs) <= taskIndex
      BY <1>3, <1>4, <1>5, <3>1 DEF ThreadsInv
    <3>2. QED
      BY <1>1, <1>3, <3>1
  <2>5. \A k \in 1..Len(configs) : k <= taskIndex' =>
          rows[k] # None \/ \E v \in Pool : held'[v].stage = "run" /\ held'[v].at = k
    <3>1. SUFFICES ASSUME NEW k \in 1..Len(configs), k <= taskIndex + 1, rows[k] = None
                   PROVE  \E v \in Pool : held'[v].stage = "run" /\ held'[v].at = k
      BY <1>1
    <3>2. CASE k <= taskIndex
      <4>1. PICK v \in Pool : held[v].stage = "run" /\ held[v].at = k
        BY <1>3, <3>1, <3>2 DEF ThreadsInv
      <4>2. v # w
        BY <1>6, <4>1
      <4>3. QED
        BY <1>4, <4>1, <4>2
    <3>3. CASE k = taskIndex + 1
      BY <1>3, <1>4, <1>5, <3>3
    <3>4. QED
      BY <1>3, <3>1, <3>2, <3>3
  <2>6. QED
    BY <1>1, <1>4, <1>7, <2>1, <2>2, <2>3, <2>4, <2>5 DEF ThreadsInv
<1>9. ResultsInv'
  <2>1. \A k \in 1..Len(configs) : k <= taskIndex => k <= taskIndex + 1
    BY <1>3
  <2>2. QED
    BY <1>1, <1>3, <2>1 DEF ResultsInv
<1>10. FiguresInv'
  <2>1. Storing' = Storing /\ Telling' = Telling /\ Finished' = Finished
    BY <1>1, <1>4, <1>5, <1>6 DEF Storing, Telling, Finished
  <2>2. w \notin Telling
    BY <1>6 DEF Telling
  <2>3. \A v \in Telling : held'[v] = held[v]
    BY <1>4, <2>2 DEF Telling
  <2>4. QED
    BY <1>1, <1>3, <2>1, <2>3 DEF FiguresInv
<1>11. QED
  BY <1>1, <1>2, <1>3, <1>8, <1>9, <1>10 DEF BatchInv

\* A thread whose state alone changes, and keeps what it holds and where.
Moved(w, s, d) ==
  /\ held'[w] = Local!At(s, held[w].at, d)
  /\ held'[w].stage = s /\ held'[w].at = held[w].at /\ held'[w].done = d
  /\ \A v \in Pool \ {w} : held'[v] = held[v]
  /\ held' \in [Pool -> {held'[v] : v \in Pool}] /\ (\A v \in Pool : Does(v))'
  /\ \A u, v \in Pool : held'[u].stage \in Stages /\ held'[v].stage \in Stages /\ held'[u].at = held'[v].at => u = v
  /\ \A v \in Pool : held'[v].stage \in Stages => held'[v].at <= taskIndex
  /\ \A v \in Pool : held'[v] = Local!Out => Len(configs) <= taskIndex

LEMMA StageMoves ==
  ASSUME ThreadsInv, NEW w \in Pool, NEW s \in Stages, NEW d \in Nat, held[w].stage \in Stages,
         held' = [held EXCEPT ![w] = Local!At(s, held[w].at, d)], configs' = configs
  PROVE  Moved(w, s, d)
<1> DEFINE k == held[w].at
           new == Local!At(s, k, d)
<1>0. k \in 1..Len(configs)
  BY StageOf DEF ThreadsInv
<1> HIDE DEF k
<1>1. /\ held'[w] = new /\ new.stage = s /\ new.at = k /\ new.done = d
      /\ \A v \in Pool \ {w} : held'[v] = held[v]
      /\ held' \in [Pool -> {held'[v] : v \in Pool}]
  BY AtHas DEF ThreadsInv, k
<1>2. \A v \in Pool : Does(v)'
  <2>1. ASSUME NEW v \in Pool, v # w PROVE Does(v)'
    <3>1. Does(v)
      BY DEF ThreadsInv
    <3>2. held'[v] = held[v]
      BY <1>1, <2>1
    <3>3. QED
      BY <3>1, <3>2 DEF Does
  <2>2. Does(w)'
    <3>1. held'[w] = Local!At(s, k, d)
      BY <1>1
    <3>2. \E t \in Stages, l \in 1..Len(configs), e \in Nat : held'[w] = Local!At(t, l, e)
      BY <1>0, <3>1, Zenon
    <3>3. QED
      BY <3>2 DEF Does
  <2>3. QED
    BY <2>1, <2>2
<1>3. \A v \in Pool : held'[v].stage \in Stages => held[v].stage \in Stages /\ held'[v].at = held[v].at
  <2>1. k = held[w].at
    BY DEF k
  <2>2. QED
    BY <1>1, <2>1
<1>4. new # Local!Out
  BY <1>1 DEF Local!Out, Stages
<1>5. \A v \in Pool : held'[v] = Local!Out => held[v] = Local!Out
  BY <1>1, <1>4
<1>6. new = Local!At(s, held[w].at, d) /\ k = held[w].at
  BY DEF k
<1> HIDE DEF new
<1>7. /\ \A u, v \in Pool : held'[u].stage \in Stages /\ held'[v].stage \in Stages /\ held'[u].at = held'[v].at => u = v
      /\ \A v \in Pool : held'[v].stage \in Stages => held'[v].at <= taskIndex
      /\ \A v \in Pool : held'[v] = Local!Out => Len(configs) <= taskIndex
  BY <1>3, <1>5 DEF ThreadsInv
<1>8. QED
  BY <1>1, <1>2, <1>6, <1>7 DEF Moved

LEMMA RunKeeps ==
  ASSUME Local!RunAssumption, BatchInv, NEW w \in Pool, Local!RunExperiment(w)
  PROVE  BatchInv'
<1> DEFINE k == held[w].at
           d == held[w].done
           new == Local!At("stored", k, d)
<1>1. /\ step = "running" /\ held[w].stage = "run" /\ rows' = [rows EXCEPT ![k] = configs[k]]
      /\ held' = [held EXCEPT ![w].stage = "stored"]
      /\ UNCHANGED <<request, configs, taskIndex, completed, printed, step, processes, disk>>
  BY DEF Local!RunExperiment, Local!ResultOf
<1>2. FilesInv'
  BY <1>1, FilesWait DEF BatchInv
<1>3. ThreadsInv /\ ResultsInv /\ FiguresInv /\ Len(configs) \in Nat
  BY <1>1, BatchSets DEF BatchInv
<1>4. "run" \in Stages /\ "stored" \in Stages
  BY DEF Stages
<1>5. k \in 1..Len(configs) /\ d \in Nat /\ held[w] = Local!At("run", k, d)
  BY <1>1, <1>3, <1>4, StageOf DEF ThreadsInv
<1>6. held' = [held EXCEPT ![w] = new]
  <2>1. [held[w] EXCEPT !.stage = "stored"] = new
    BY <1>5 DEF Local!At
  <2>2. QED
    BY <1>1, <2>1
<1>7. configs[k] # None /\ rows[k] = None /\ k <= taskIndex
  <2>1. request \in Asked /\ Local!Accepted(request) /\ configs = Local!Expand(request)
    BY <1>1 DEF BatchInv
  <2>2. k \in 1..Local!NumberOf(request)
    BY <1>5, <2>1, RequestHasRuns
  <2>3. QED
    BY <1>1, <1>3, <1>4, <2>1, <2>2, RequestHasRuns DEF ThreadsInv
<1> HIDE DEF k, d, new
<1>8. /\ held'[w] = new /\ new.stage = "stored" /\ new.at = k /\ new.done = d
      /\ \A v \in Pool \ {w} : held'[v] = held[v]
      /\ held' \in [Pool -> {held'[v] : v \in Pool}] /\ (\A v \in Pool : Does(v))'
      /\ \A u, v \in Pool : held'[u].stage \in Stages /\ held'[v].stage \in Stages /\ held'[u].at = held'[v].at => u = v
      /\ \A v \in Pool : held'[v].stage \in Stages => held'[v].at <= taskIndex
      /\ \A v \in Pool : held'[v] = Local!Out => Len(configs) <= taskIndex
  <2>1. held[w].stage \in Stages /\ configs' = configs /\ held' = [held EXCEPT ![w] = Local!At("stored", held[w].at, d)]
    BY <1>1, <1>4, <1>6 DEF k, new
  <2>2. Moved(w, "stored", d)
    BY <1>3, <1>4, <1>5, <2>1, StageMoves
  <2>3. new = Local!At("stored", held[w].at, d) /\ k = held[w].at
    BY DEF k, new
  <2>4. QED
    BY <2>2, <2>3 DEF Moved
<1>9. /\ DOMAIN rows = 1..Len(configs) /\ DOMAIN rows' = 1..Len(configs) /\ rows'[k] = configs[k]
      /\ \A l \in 1..Len(configs) : l # k => rows'[l] = rows[l]
  BY <1>1, <1>5, <1>3 DEF ResultsInv
<1>10. ThreadsInv'
  <2>1. \A v \in Pool : held'[v].stage = "run" => rows'[held'[v].at] = None
    <3>1. SUFFICES ASSUME NEW v \in Pool, held'[v].stage = "run" PROVE rows'[held'[v].at] = None
      OBVIOUS
    <3>2. v # w /\ held'[v] = held[v]
      BY <1>8, <3>1
    <3>3. held[v].at # k /\ held[v].at \in 1..Len(configs)
      BY <1>1, <1>3, <1>4, <3>1, <3>2, StageOf DEF ThreadsInv, k
    <3>4. QED
      BY <1>3, <1>9, <3>1, <3>2, <3>3 DEF ThreadsInv
  <2>2. \A l \in 1..Len(configs) : l <= taskIndex =>
          rows'[l] # None \/ \E v \in Pool : held'[v].stage = "run" /\ held'[v].at = l
    <3>1. SUFFICES ASSUME NEW l \in 1..Len(configs), l <= taskIndex, l # k, rows[l] = None
                   PROVE  \E v \in Pool : held'[v].stage = "run" /\ held'[v].at = l
      BY <1>7, <1>9
    <3>2. PICK v \in Pool : held[v].stage = "run" /\ held[v].at = l
      BY <1>3, <3>1 DEF ThreadsInv
    <3>3. v # w
      BY <3>1, <3>2 DEF k
    <3>4. QED
      BY <1>8, <3>2, <3>3
  <2>3. QED
    BY <1>1, <1>8, <2>1, <2>2 DEF ThreadsInv
<1>11. ResultsInv'
  <2>1. rows' \in [1..Len(configs) -> {rows'[l] : l \in DOMAIN rows'}]
    BY <1>1, <1>9, <1>3 DEF ResultsInv
  <2>2. \A l \in 1..Len(configs) : rows'[l] # None => l <= taskIndex /\ rows'[l] = configs[l]
    BY <1>3, <1>7, <1>9 DEF ResultsInv
  <2>3. QED
    BY <1>1, <2>1, <2>2 DEF ResultsInv
<1>12. FiguresInv'
  <2>1. Storing' = Storing \cup {w} /\ w \notin Storing /\ Telling' = Telling /\ w \notin Telling
    BY <1>1, <1>8 DEF Storing, Telling
  <2>2. Finished' = Finished \cup {k} /\ k \notin Finished
    BY <1>5, <1>7, <1>9 DEF Finished
  <2>3. /\ IsFiniteSet(Storing) /\ IsFiniteSet(Finished) /\ Cardinality(Storing) \in Nat /\ Cardinality(Finished) \in Nat
        /\ completed \in Nat
    BY <1>1, BatchSets DEF BatchInv
  <2>4. Cardinality(Storing') = Cardinality(Storing) + 1 /\ Cardinality(Finished') = Cardinality(Finished) + 1
    BY <2>1, <2>2, <2>3, OneMore
  <2>5. completed' + Cardinality(Storing') = Cardinality(Finished')
    BY <1>1, <1>3, <2>3, <2>4 DEF FiguresInv
  <2>6. \A v \in Telling : held'[v] = held[v]
    BY <1>8, <2>1 DEF Telling
  <2>7. QED
    BY <1>1, <1>3, <2>1, <2>5, <2>6 DEF FiguresInv
<1>13. QED
  BY <1>1, <1>2, <1>10, <1>11, <1>12 DEF BatchInv

LEMMA CountKeeps ==
  ASSUME Local!RunAssumption, BatchInv, NEW w \in Pool, Local!Count(w)
  PROVE  BatchInv'
<1> DEFINE k == held[w].at
           new == Local!At("counted", k, completed + 1)
<1>1. /\ step = "running" /\ held[w].stage = "stored" /\ completed' = completed + 1
      /\ held' = [held EXCEPT ![w] = new]
      /\ UNCHANGED <<request, configs, taskIndex, rows, printed, step, processes, disk>>
  BY DEF Local!Count
<1>2. FilesInv'
  BY <1>1, FilesWait DEF BatchInv
<1>3. ThreadsInv /\ ResultsInv /\ FiguresInv /\ Len(configs) \in Nat /\ completed \in Nat
  BY <1>1, BatchSets DEF BatchInv
<1>4. "run" \in Stages /\ "stored" \in Stages /\ "counted" \in Stages
  BY DEF Stages
<1>5. k \in 1..Len(configs) /\ completed + 1 \in Nat
  BY <1>1, <1>3, <1>4, StageOf DEF ThreadsInv
<1> HIDE DEF k, new
<1>6. /\ held'[w] = new /\ new.stage = "counted" /\ new.at = k /\ new.done = completed + 1
      /\ \A v \in Pool \ {w} : held'[v] = held[v]
      /\ held' \in [Pool -> {held'[v] : v \in Pool}] /\ (\A v \in Pool : Does(v))'
      /\ \A u, v \in Pool : held'[u].stage \in Stages /\ held'[v].stage \in Stages /\ held'[u].at = held'[v].at => u = v
      /\ \A v \in Pool : held'[v].stage \in Stages => held'[v].at <= taskIndex
      /\ \A v \in Pool : held'[v] = Local!Out => Len(configs) <= taskIndex
  <2>1. held[w].stage \in Stages /\ configs' = configs
        /\ held' = [held EXCEPT ![w] = Local!At("counted", held[w].at, completed + 1)]
    BY <1>1, <1>4 DEF k, new
  <2>2. Moved(w, "counted", completed + 1)
    BY <1>3, <1>4, <1>5, <2>1, StageMoves
  <2>3. new = Local!At("counted", held[w].at, completed + 1) /\ k = held[w].at
    BY DEF k, new
  <2>4. QED
    BY <2>2, <2>3 DEF Moved
<1>7. ThreadsInv'
  <2>1. \A v \in Pool : held'[v].stage = "run" <=> held[v].stage = "run"
    BY <1>1, <1>6
  <2>2. \A v \in Pool : held'[v].stage = "run" => held'[v] = held[v]
    BY <1>1, <1>6
  <2>3. \A v \in Pool : held'[v].stage = "run" => rows'[held'[v].at] = None
    BY <1>1, <1>3, <2>1, <2>2 DEF ThreadsInv
  <2>4. \A l \in 1..Len(configs) : l <= taskIndex =>
          rows[l] # None \/ \E v \in Pool : held'[v].stage = "run" /\ held'[v].at = l
    BY <1>3, <2>1, <2>2 DEF ThreadsInv
  <2>5. QED
    BY <1>1, <1>6, <2>3, <2>4 DEF ThreadsInv
<1>8. ResultsInv'
  BY <1>1, <1>3 DEF ResultsInv
<1>9. FiguresInv'
  <2>1. /\ Storing = Storing' \cup {w} /\ w \in Storing /\ w \notin Storing'
        /\ Telling' = Telling \cup {w} /\ w \notin Telling /\ Finished' = Finished
    BY <1>1, <1>6 DEF Storing, Telling, Finished
  <2>2. /\ IsFiniteSet(Storing) /\ IsFiniteSet(Telling) /\ Cardinality(Storing) \in Nat /\ Cardinality(Telling) \in Nat
        /\ Cardinality(Finished) \in Nat /\ Len(printed) \in Nat
    BY <1>1, BatchSets
  <2>3. IsFiniteSet(Storing')
    <3>1. Storing' \subseteq Storing
      BY <2>1
    <3>2. QED
      BY <2>2, <3>1, FS_Subset
  <2>4. Cardinality(Storing) = Cardinality(Storing') + 1 /\ Cardinality(Storing') \in Nat
    BY <2>1, <2>3, OneMore
  <2>5. Cardinality(Telling') = Cardinality(Telling) + 1
    BY <2>1, <2>2, OneMore
  <2>6. completed + Cardinality(Storing) = Cardinality(Finished) /\ Len(printed) + Cardinality(Telling) = completed
    BY <1>3 DEF FiguresInv
  <2>7. completed' + Cardinality(Storing') = Cardinality(Finished') /\ Len(printed') + Cardinality(Telling') = completed'
    BY <1>1, <1>3, <2>1, <2>2, <2>4, <2>5, <2>6
  <2>8. \A v \in Telling' : held'[v].done \in 1..(completed + 1)
    <3>1. \A v \in Telling : held[v].done \in 1..(completed + 1)
      BY <1>3 DEF FiguresInv
    <3>2. \A v \in Telling : held'[v] = held[v]
      BY <1>6, <2>1 DEF Telling
    <3>3. QED
      BY <1>3, <1>6, <2>1, <3>1, <3>2
  <2>9. \A i \in 1..Len(printed) : printed[i] \in 1..(completed + 1) /\ printed[i] < i + Cardinality(Pool)
    BY <1>3 DEF FiguresInv
  <2>10. \A c \in 1..(completed + 1) :
           (\E i \in 1..Len(printed) : printed[i] = c) \/ (\E v \in Telling' : held'[v].done = c)
    <3>1. SUFFICES ASSUME NEW c \in 1..(completed + 1), ~ \E i \in 1..Len(printed) : printed[i] = c
                   PROVE  \E v \in Telling' : held'[v].done = c
      OBVIOUS
    <3>2. CASE c = completed + 1
      BY <1>6, <2>1, <3>2
    <3>3. CASE c # completed + 1
      <4>1. c \in 1..completed
        BY <1>3, <3>3
      <4>2. PICK v \in Telling : held[v].done = c
        BY <1>3, <3>1, <4>1 DEF FiguresInv
      <4>3. v # w /\ v \in Pool
        BY <2>1 DEF Telling
      <4>4. QED
        BY <1>6, <2>1, <4>2, <4>3
    <3>4. QED
      BY <3>2, <3>3
  <2>11. QED
    BY <1>1, <2>7, <2>8, <2>9, <2>10 DEF FiguresInv
<1>10. QED
  BY <1>1, <1>2, <1>3, <1>5, <1>7, <1>8, <1>9 DEF BatchInv

LEMMA PrintKeeps ==
  ASSUME Local!RunAssumption, BatchInv, NEW w \in Pool, Local!PrintProgress(w)
  PROVE  BatchInv'
<1> DEFINE d == held[w].done
           n == Len(printed)
<1>1. /\ step = "running" /\ held[w].stage = "counted" /\ printed' = Append(printed, d)
      /\ held' = [held EXCEPT ![w] = Local!Idle]
      /\ UNCHANGED <<request, configs, taskIndex, completed, rows, step, processes, disk>>
  BY DEF Local!PrintProgress
<1>2. FilesInv'
  BY <1>1, FilesWait DEF BatchInv
<1>3. /\ ThreadsInv /\ ResultsInv /\ FiguresInv /\ Len(configs) \in Nat /\ completed \in Nat /\ n \in Nat
      /\ printed \in Seq(Nat) /\ Cardinality(Pool) \in Nat
  BY <1>1, BatchSets DEF BatchInv
<1>4. Local!Idle.stage = "idle" /\ Local!Idle # Local!Out
  BY DEF Local!Idle, Local!Out
<1>5. /\ held'[w] = Local!Idle /\ \A v \in Pool \ {w} : held'[v] = held[v]
      /\ held' \in [Pool -> {held'[v] : v \in Pool}]
  BY <1>1, <1>3 DEF ThreadsInv
<1>6. w \in Telling /\ d \in 1..completed
  <2>1. w \in Telling
    BY <1>1 DEF Telling
  <2>2. QED
    BY <1>3, <2>1 DEF FiguresInv
<1>7. /\ printed' \in Seq(Nat) /\ Len(printed') = n + 1 /\ printed'[n + 1] = d
      /\ \A i \in 1..n : printed'[i] = printed[i]
  <2>1. d \in Nat
    BY <1>3, <1>6
  <2>2. QED
    BY <1>1, <1>3, <2>1, AppendProperties
<1>8. ThreadsInv'
  <2>1. (\A v \in Pool : Does(v))'
    <3>1. ASSUME NEW v \in Pool, v # w PROVE Does(v)'
      <4>1. Does(v) /\ held'[v] = held[v]
        BY <1>3, <1>5, <3>1 DEF ThreadsInv
      <4>2. QED
        BY <1>1, <4>1 DEF Does
    <3>2. Does(w)'
      BY <1>5 DEF Does
    <3>3. QED
      BY <3>1, <3>2
  <2>2. \A v \in Pool : held'[v].stage \in Stages => v # w
    BY <1>4, <1>5 DEF Stages
  <2>3. "run" \in Stages
    BY DEF Stages
  <2>4. \A v \in Pool : held'[v].stage = "run" <=> held[v].stage = "run"
    BY <1>1, <1>4, <1>5
  <2>5. \A v \in Pool : held'[v].stage = "run" => held'[v] = held[v]
    BY <1>4, <1>5
  <2>6. \A l \in 1..Len(configs) : l <= taskIndex =>
          rows[l] # None \/ \E v \in Pool : held'[v].stage = "run" /\ held'[v].at = l
    BY <1>3, <2>4, <2>5 DEF ThreadsInv
  <2>7. \A v \in Pool : held'[v].stage = "run" => rows[held'[v].at] = None
    BY <1>3, <2>4, <2>5 DEF ThreadsInv
  <2>8. /\ \A u, v \in Pool : held'[u].stage \in Stages /\ held'[v].stage \in Stages /\ held'[u].at = held'[v].at => u = v
        /\ \A v \in Pool : held'[v].stage \in Stages => held'[v].at <= taskIndex
        /\ \A v \in Pool : held'[v] = Local!Out => Len(configs) <= taskIndex
    BY <1>3, <1>4, <1>5, <2>2 DEF ThreadsInv
  <2>9. QED
    BY <1>1, <1>5, <2>1, <2>6, <2>7, <2>8 DEF ThreadsInv
<1>9. ResultsInv'
  BY <1>1, <1>3 DEF ResultsInv
<1>10. FiguresInv'
  <2>1. Storing' = Storing /\ Telling = Telling' \cup {w} /\ w \notin Telling' /\ Finished' = Finished
    BY <1>1, <1>4, <1>5 DEF Storing, Telling, Finished
  <2>2. IsFiniteSet(Telling) /\ Cardinality(Telling) \in Nat /\ Cardinality(Telling) <= Cardinality(Pool)
    BY <1>1, BatchSets
  <2>3. IsFiniteSet(Telling')
    <3>1. Telling' \subseteq Telling
      BY <2>1
    <3>2. QED
      BY <2>2, <3>1, FS_Subset
  <2>4. Cardinality(Telling) = Cardinality(Telling') + 1 /\ Cardinality(Telling') \in Nat
    BY <2>1, <2>3, OneMore
  <2>5. completed + Cardinality(Storing) = Cardinality(Finished) /\ n + Cardinality(Telling) = completed
    BY <1>3 DEF FiguresInv
  <2>6. completed' + Cardinality(Storing') = Cardinality(Finished') /\ Len(printed') + Cardinality(Telling') = completed'
    BY <1>1, <1>3, <1>7, <2>1, <2>4, <2>5
  <2>7. \A v \in Telling' : held'[v].done \in 1..completed
    <3>1. \A v \in Telling' : v \in Telling /\ v \in Pool \ {w}
      BY <2>1 DEF Telling
    <3>2. QED
      BY <1>3, <1>5, <3>1 DEF FiguresInv
  <2>8. \A i \in 1..(n + 1) : printed'[i] \in 1..completed /\ printed'[i] < i + Cardinality(Pool)
    <3>1. \A i \in 1..n : printed[i] \in 1..completed /\ printed[i] < i + Cardinality(Pool)
      BY <1>3 DEF FiguresInv
    <3>2. d < n + 1 + Cardinality(Pool)
      BY <1>3, <1>6, <2>2, <2>5
    <3>3. ASSUME NEW i \in 1..(n + 1) PROVE printed'[i] \in 1..completed /\ printed'[i] < i + Cardinality(Pool)
      <4>1. CASE i = n + 1
        BY <1>6, <1>7, <3>2, <4>1
      <4>2. CASE i # n + 1
        <5>1. i \in 1..n
          BY <1>3, <4>2
        <5>2. QED
          BY <1>7, <3>1, <5>1
      <4>3. QED
        BY <4>1, <4>2
    <3>4. QED
      BY <3>3
  <2>9. \A c \in 1..completed :
           (\E i \in 1..(n + 1) : printed'[i] = c) \/ (\E v \in Telling' : held'[v].done = c)
    <3>1. SUFFICES ASSUME NEW c \in 1..completed, ~ \E v \in Telling' : held'[v].done = c
                   PROVE  \E i \in 1..(n + 1) : printed'[i] = c
      OBVIOUS
    <3>2. n + 1 \in 1..(n + 1) /\ \A i \in 1..n : i \in 1..(n + 1)
      BY <1>3
    <3>3. CASE \E i \in 1..n : printed[i] = c
      BY <1>7, <3>2, <3>3
    <3>4. CASE ~ \E i \in 1..n : printed[i] = c
      <4>1. PICK v \in Telling : held[v].done = c
        BY <1>3, <3>4 DEF FiguresInv
      <4>2. v = w
        <5>1. SUFFICES ASSUME v # w PROVE FALSE
          OBVIOUS
        <5>2. v \in Telling' /\ v \in Pool \ {w}
          BY <2>1, <4>1, <5>1 DEF Telling
        <5>3. QED
          BY <1>5, <3>1, <4>1, <5>2
      <4>3. QED
        BY <1>7, <3>2, <4>1, <4>2
    <3>5. QED
      BY <3>3, <3>4
  <2> HIDE DEF n
  <2>10. Len(printed') = n + 1 /\ completed' = completed
    BY <1>1, <1>7
  <2>11. QED
    BY <2>6, <2>7, <2>8, <2>9, <2>10 DEF FiguresInv
<1>11. QED
  BY <1>1, <1>2, <1>3, <1>7, <1>8, <1>9, <1>10 DEF BatchInv

\* The files of a directory one of which has been written to.
LEMMA FieldsSet ==
  ASSUME NEW x, Fields(x), NEW c
  PROVE  /\ Fields([x EXCEPT !["rows"] = c]) /\ Fields([x EXCEPT !["summary"] = c]) /\ Fields([x EXCEPT !["figures"] = c])
BY DEF Fields

\* What writing to a file of a directory changes.
Wrote(here, file, content) ==
  LET before == Local!Directory(here) IN
  /\ DOMAIN disk' = DOMAIN disk \cup {here}
  /\ disk'[here] = [before EXCEPT ![file] = content]
  /\ Fields(before) /\ \A d \in DOMAIN disk' : Fields(disk'[d])

LEMMA SetFileSets ==
  ASSUME FilesInv, NEW here, NEW file \in {"rows", "summary", "figures"}, NEW content, Local!SetFile(here, file, content)
  PROVE  Wrote(here, file, content)
<1> DEFINE before == Local!Directory(here)
           wrote == [before EXCEPT ![file] = content]
           new(d) == IF d = here THEN [Local!Directory(d) EXCEPT ![file] = content] ELSE disk[d]
<1>1. disk' = [d \in DOMAIN disk \cup {here} |-> new(d)]
  BY DEF Local!SetFile
<1>2. new(here) = wrote /\ \A d \in DOMAIN disk \ {here} : new(d) = disk[d]
  OBVIOUS
<1>3. Fields(before)
  <2>1. CASE here \in DOMAIN disk
    BY <2>1 DEF FilesInv, Local!Directory
  <2>2. CASE here \notin DOMAIN disk
    BY <2>2 DEF Fields, Local!Directory, Local!Empty
  <2>3. QED
    BY <2>1, <2>2
<1>4. Fields(wrote)
  <2>1. CASE file = "rows"
    BY <1>3, <2>1, FieldsSet
  <2>2. CASE file = "summary"
    BY <1>3, <2>2, FieldsSet
  <2>3. CASE file = "figures"
    BY <1>3, <2>3, FieldsSet
  <2>4. QED
    BY <2>1, <2>2, <2>3
<1>5. wrote = [before EXCEPT ![file] = content] /\ before = Local!Directory(here)
  OBVIOUS
<1> HIDE DEF before, wrote, new
<1>6. DOMAIN disk' = DOMAIN disk \cup {here} /\ \A d \in DOMAIN disk \cup {here} : disk'[d] = new(d)
  BY <1>1
<1>7. \A d \in DOMAIN disk' : Fields(disk'[d])
  BY <1>2, <1>4, <1>6 DEF FilesInv
<1>8. disk'[here] = wrote
  BY <1>2, <1>6
<1>9. QED
  BY <1>3, <1>5, <1>6, <1>7, <1>8 DEF Wrote

\* Once every thread has ended, every run has its result, and every figure is printed.
LEMMA AllJoined ==
  ASSUME Local!RunAssumption, BatchInv, step = "running", \A w \in Pool : held[w] = Local!Out
  PROVE  JoinedInv
<1>1. ThreadsInv /\ ResultsInv /\ FiguresInv /\ printed \in Seq(Nat) /\ Len(configs) \in Nat /\ completed \in Nat
  BY BatchSets DEF BatchInv
<1>2. PICK w \in Pool : TRUE
  BY Zenon DEF Local!RunAssumption
<1>3. Len(configs) <= taskIndex
  BY <1>1, <1>2 DEF ThreadsInv
<1>4. \A v \in Pool : held[v].stage = "out"
  BY DEF Local!Out
<1>5. \A k \in 1..Len(configs) : rows[k] # None
  <2>1. SUFFICES ASSUME NEW k \in 1..Len(configs) PROVE rows[k] # None
    OBVIOUS
  <2>2. k <= taskIndex
    BY <1>1, <1>3 DEF BatchInv
  <2>3. QED
    BY <1>1, <1>4, <2>2 DEF ThreadsInv
<1>6. DOMAIN rows = 1..Len(configs) /\ \A k \in 1..Len(configs) : rows[k] = configs[k]
  BY <1>1, <1>5 DEF ResultsInv
<1>7. rows = configs
  <2>1. request \in Asked /\ Local!Accepted(request) /\ configs = Local!Expand(request)
    BY DEF BatchInv
  <2>2. /\ DOMAIN Local!Expand(request) = 1..Local!NumberOf(request)
        /\ Len(configs) = Local!NumberOf(request)
    BY <2>1, RequestHasRuns
  <2>3. configs = [k \in 1..Len(configs) |-> configs[k]]
    BY <2>1, <2>2 DEF Local!Expand
  <2>4. rows = [k \in 1..Len(configs) |-> rows[k]]
    BY <1>1 DEF ResultsInv
  <2>5. QED
    BY <1>6, <2>3, <2>4
<1>8. Storing = {} /\ Telling = {} /\ Finished = 1..Len(configs)
  BY <1>4, <1>5, <1>6 DEF Storing, Telling, Finished
<1>9. completed = Len(configs) /\ Len(printed) = Len(configs)
  <2>1. Cardinality(Storing) = 0 /\ Cardinality(Telling) = 0
    BY <1>8, FS_EmptySet
  <2>2. Cardinality(Finished) = Len(configs)
    <3>1. \A m \in Nat : Cardinality(1..m) = m
      <4>1. ASSUME NEW m \in Nat PROVE Cardinality(1..m) = m
        <5>1. Cardinality(1..m) = IF 1 > m THEN 0 ELSE m - 1 + 1
          BY FS_Interval
        <5>2. QED
          BY <5>1
      <4>2. QED
        BY <4>1
    <3>2. QED
      BY <1>1, <1>8, <3>1
  <2>3. Len(printed) \in Nat
    BY <1>1, LenProperties
  <2>4. QED
    BY <1>1, <2>1, <2>2, <2>3 DEF FiguresInv
<1>10. {printed[i] : i \in DOMAIN printed} = 1..Len(configs)
  <2>1. DOMAIN printed = 1..Len(printed)
    BY <1>1, LenProperties
  <2>2. QED
    BY <1>1, <1>8, <1>9, <2>1 DEF FiguresInv
<1>11. QED
  BY <1>7, <1>9, <1>10 DEF JoinedInv

\* The rows written so far, with the next one.
LEMMA OneRowMore ==
  ASSUME NEW n \in Nat, NEW S, NEW u \in [1..n -> S], Len(u) = n,
         NEW s \in Seq(S), Begins(s, u), Len(s) # n
  PROVE  Append(s, u[Len(s) + 1]) \in Seq(S) /\ Begins(Append(s, u[Len(s) + 1]), u)
<1> DEFINE m == Len(s)
           x == u[m + 1]
           new == Append(s, x)
<1>1. m \in Nat /\ m < n /\ m + 1 \in 1..n
  BY LenProperties DEF Begins
<1>2. x \in S
  BY <1>1
<1>3. new \in Seq(S) /\ Len(new) = m + 1 /\ new[m + 1] = x /\ \A i \in 1..m : new[i] = s[i]
  BY <1>2, AppendProperties
<1> HIDE DEF x, new
<1>4. \A i \in 1..m : s[i] = u[i]
  BY DEF Begins
<1> HIDE DEF m
<1>5. x = u[m + 1]
  BY DEF x
<1>6. \A i \in 1..(m + 1) : new[i] = u[i]
  <2>1. ASSUME NEW i \in 1..(m + 1) PROVE new[i] = u[i]
    <3>1. CASE i = m + 1
      BY <1>3, <1>5, <3>1
    <3>2. CASE i # m + 1
      <4>1. i \in 1..m
        BY <1>1, <3>2
      <4>2. QED
        BY <1>3, <1>4, <4>1
    <3>3. QED
      BY <3>1, <3>2
  <2>2. QED
    BY <2>1
<1>7. Begins(new, u)
  BY <1>1, <1>3, <1>6 DEF Begins
<1>8. QED
  BY <1>3, <1>7 DEF new, x, m

\* A file that begins like the results and is as long is the results.
LEMMA WholeIsAll ==
  ASSUME NEW n \in Nat, NEW S, NEW u \in [1..n -> S], Len(u) = n, NEW s \in Seq(S), Begins(s, u), Len(s) = n
  PROVE  s = u
<1>1. s \in [1..n -> S]
  BY LenProperties, SeqDef
<1>2. \A i \in 1..n : s[i] = u[i]
  BY DEF Begins
<1>3. QED
  BY <1>1, <1>2

\* What holds of the results while the files are written.
LEMMA SavingHas ==
  ASSUME Local!RunAssumption, BatchInv, step \in {"rows", "summary"}
  PROVE  /\ Len(rows) \in Nat /\ rows \in [1..Len(rows) -> Cells]
         /\ JoinedInv /\ FilesInv /\ Local!Saved \in DOMAIN disk /\ request \in Asked
         /\ Local!Directory(Local!Saved) = disk[Local!Saved]
<1>1. JoinedInv /\ FilesInv /\ request \in Asked /\ Local!Accepted(request) /\ configs = Local!Expand(request)
  BY DEF BatchInv
<1>2. Local!Saved \in DOMAIN disk
  BY <1>1 DEF FilesInv
<1>3. rows = Local!Expand(request)
  BY <1>1 DEF JoinedInv
<1>4. Len(rows) \in Nat /\ DOMAIN rows = 1..Len(rows)
  BY <1>1, <1>3, RequestHasRuns
<1>5. rows = [k \in DOMAIN rows |-> rows[k]]
  BY <1>3 DEF Local!Expand
<1>6. QED
  BY <1>1, <1>2, <1>4, <1>5 DEF Local!Directory, Cells

LEMMA JoinKeeps ==
  ASSUME Local!RunAssumption, BatchInv, Local!Join
  PROVE  BatchInv'
<1> DEFINE here == Local!Saved
           before == Local!Directory(here)
<1>1. /\ step = "running" /\ (\A w \in Pool : held[w] = Local!Out) /\ step' = "rows"
      /\ Local!SetFile(here, "rows", <<>>)
      /\ UNCHANGED <<request, configs, taskIndex, completed, held, rows, printed, processes>>
  BY DEF Local!Join
<1>2. JoinedInv'
  BY <1>1, AllJoined DEF JoinedInv
<1>3. FilesInv /\ request \in Asked /\ Local!Accepted(request) /\ configs = Local!Expand(request) /\ processes \in Nat
  BY <1>1 DEF BatchInv
<1>4. /\ DOMAIN disk' = DOMAIN disk \cup {here} /\ disk'[here] = [before EXCEPT !["rows"] = <<>>]
      /\ Fields(before) /\ \A d \in DOMAIN disk' : Fields(disk'[d])
  BY <1>1, <1>3, SetFileSets DEF Wrote
<1>5. Local!Saved' = here /\ Cells' = Cells
  BY <1>1 DEF Local!Saved, Cells
<1> HIDE DEF here, before
<1>6. disk'[here].rows = <<>>
  <2>1. [before EXCEPT !["rows"] = <<>>].rows = <<>>
    BY <1>4 DEF Fields
  <2>2. QED
    BY <1>4, <2>1
<1>7. Begins(<<>>, rows) /\ <<>> \in Seq(Cells)
  BY <1>3, RequestHasRuns, AllJoined, <1>1 DEF Begins, JoinedInv
<1>8. FilesInv'
  BY <1>1, <1>4, <1>5, <1>6, <1>7 DEF FilesInv
<1>9. QED
  BY <1>1, <1>2, <1>3, <1>8 DEF BatchInv

LEMMA WriteKeeps ==
  ASSUME Local!RunAssumption, BatchInv, NEW file \in {"rows", "summary"}, Local!WriteRow(file)
  PROVE  BatchInv'
<1> DEFINE here == Local!Saved
           before == Local!Directory(here)
           old == before[file]
           new == Append(old, rows[Len(old) + 1])
<1>1. /\ step = file /\ Len(old) # Len(rows) /\ Local!SetFile(here, file, new)
      /\ UNCHANGED <<request, configs, taskIndex, completed, held, rows, printed, step, processes>>
  BY DEF Local!WriteRow, Local!Whole
<1>2. /\ Len(rows) \in Nat /\ rows \in [1..Len(rows) -> Cells] /\ JoinedInv /\ FilesInv
      /\ here \in DOMAIN disk /\ before = disk[here]
  BY <1>1, SavingHas
<1>3. Local!Saved' = here /\ Cells' = Cells /\ JoinedInv'
  BY <1>1, <1>2 DEF Local!Saved, Cells, JoinedInv
<1>4. /\ DOMAIN disk' = DOMAIN disk /\ disk'[here] = [before EXCEPT ![file] = new]
      /\ Fields(before) /\ \A d \in DOMAIN disk' : Fields(disk'[d])
  <2>1. Wrote(here, file, new)
    BY <1>1, <1>2, SetFileSets
  <2>2. QED
    BY <1>2, <2>1 DEF Wrote
<1>5. /\ before.rows \in Seq(Cells) /\ Begins(before.rows, rows)
      /\ file = "summary" => before.rows = rows /\ before.summary \in Seq(Cells) /\ Begins(before.summary, rows)
  BY <1>1, <1>2 DEF FilesInv
<1>6. old \in Seq(Cells) /\ Begins(old, rows)
  <2>1. CASE file = "rows"
    BY <1>5, <2>1
  <2>2. CASE file = "summary"
    BY <1>5, <2>2
  <2>3. QED
    BY <2>1, <2>2
<1>7. new \in Seq(Cells) /\ Begins(new, rows)
  BY <1>1, <1>2, <1>6, OneRowMore
<1>8. /\ file = "rows" => disk'[here].rows = new
      /\ file = "summary" => disk'[here].summary = new /\ disk'[here].rows = before.rows
  <2> HIDE DEF here, before, new
  <2>1. CASE file = "rows"
    <3>1. [before EXCEPT !["rows"] = new].rows = new
      BY <1>4 DEF Fields
    <3>2. QED
      BY <1>4, <2>1, <3>1
  <2>2. CASE file = "summary"
    <3>1. [before EXCEPT !["summary"] = new].summary = new /\ [before EXCEPT !["summary"] = new].rows = before.rows
      BY <1>4 DEF Fields
    <3>2. QED
      BY <1>4, <2>2, <3>1
  <2>3. QED
    BY <2>1, <2>2
<1> HIDE DEF here, before, old, new
<1>9. FilesInv'
  <2>1. step' = file /\ here \in DOMAIN disk' /\ rows' = rows
    BY <1>1, <1>2, <1>4
  <2>2. /\ disk'[here].rows \in Seq(Cells) /\ Begins(disk'[here].rows, rows)
        /\ file = "summary" => disk'[here].rows = rows /\ disk'[here].summary \in Seq(Cells) /\ Begins(disk'[here].summary, rows)
    BY <1>5, <1>7, <1>8
  <2>3. QED
    BY <1>3, <1>4, <2>1, <2>2 DEF FilesInv
<1>10. QED
  BY <1>1, <1>3, <1>9 DEF BatchInv

LEMMA BeginKeeps ==
  ASSUME Local!RunAssumption, BatchInv, Local!BeginSummary
  PROVE  BatchInv'
<1> DEFINE here == Local!Saved
           before == Local!Directory(here)
<1>1. /\ step = "rows" /\ step' = "summary" /\ Len(before.rows) = Len(rows) /\ Local!SetFile(here, "summary", <<>>)
      /\ UNCHANGED <<request, configs, taskIndex, completed, held, rows, printed, processes>>
  BY DEF Local!BeginSummary, Local!Whole
<1>2. /\ Len(rows) \in Nat /\ rows \in [1..Len(rows) -> Cells] /\ JoinedInv /\ FilesInv
      /\ here \in DOMAIN disk /\ before = disk[here]
  BY <1>1, SavingHas
<1>3. Local!Saved' = here /\ Cells' = Cells /\ JoinedInv'
  BY <1>1, <1>2 DEF Local!Saved, Cells, JoinedInv
<1>4. /\ DOMAIN disk' = DOMAIN disk /\ disk'[here] = [before EXCEPT !["summary"] = <<>>]
      /\ Fields(before) /\ \A d \in DOMAIN disk' : Fields(disk'[d])
  <2>1. Wrote(here, "summary", <<>>)
    BY <1>1, <1>2, SetFileSets
  <2>2. QED
    BY <1>2, <2>1 DEF Wrote
<1>5. before.rows \in Seq(Cells) /\ Begins(before.rows, rows)
  BY <1>1, <1>2 DEF FilesInv
<1>6. before.rows = rows
  BY <1>1, <1>2, <1>5, WholeIsAll
<1> HIDE DEF here, before
<1>7. disk'[here].summary = <<>> /\ disk'[here].rows = rows
  <2>1. [before EXCEPT !["summary"] = <<>>].summary = <<>> /\ [before EXCEPT !["summary"] = <<>>].rows = before.rows
    BY <1>4 DEF Fields
  <2>2. QED
    BY <1>4, <1>6, <2>1
<1>8. FilesInv'
  <2>1. step' = "summary" /\ here \in DOMAIN disk' /\ rows' = rows
    BY <1>1, <1>2, <1>4
  <2>2. Begins(<<>>, rows) /\ <<>> \in Seq(Cells)
    BY <1>2 DEF Begins
  <2>3. QED
    BY <1>3, <1>4, <1>5, <1>6, <1>7, <2>1, <2>2 DEF FilesInv
<1>9. QED
  BY <1>1, <1>3, <1>8 DEF BatchInv

\* When a process is over, nothing of it is left but files.
LEMMA OverKeeps ==
  ASSUME Local!RunAssumption, BatchInv, Local!End, \A d \in DOMAIN disk' : Fields(disk'[d])
  PROVE  BatchInv'
<1>1. /\ step' = "over" /\ configs' = <<>> /\ taskIndex' = 0 /\ completed' = 0
      /\ rows' = <<>> /\ printed' = <<>> /\ processes' = processes
  BY DEF Local!End
<1>2. processes \in Nat
  BY DEF BatchInv
<1>3. FilesInv'
  BY <1>1 DEF FilesInv
<1>4. <<>> \in Seq(Nat)
  OBVIOUS
<1>5. QED
  BY <1>1, <1>2, <1>3, <1>4 DEF BatchInv

LEMMA FinishKeeps ==
  ASSUME Local!RunAssumption, BatchInv, Local!Finish
  PROVE  BatchInv'
<1>1. /\ Local!End
      /\ IF request.grid THEN Local!SetFile(<<"figures", 0>>, "figures", Local!Figures(rows)) ELSE UNCHANGED disk
  BY DEF Local!Finish
<1>2. FilesInv
  BY DEF BatchInv
<1>3. \A d \in DOMAIN disk' : Fields(disk'[d])
  <2>1. CASE request.grid
    BY <1>1, <1>2, <2>1, SetFileSets DEF Wrote
  <2>2. CASE ~request.grid
    BY <1>1, <1>2, <2>2 DEF FilesInv
  <2>3. QED
    BY <2>1, <2>2
<1>4. QED
  BY <1>1, <1>3, OverKeeps

LEMMA KillKeeps ==
  ASSUME Local!RunAssumption, BatchInv, Local!Kill
  PROVE  BatchInv'
<1>1. Local!End /\ disk' = disk
  BY DEF Local!Kill
<1>2. FilesInv
  BY DEF BatchInv
<1>3. QED
  BY <1>1, <1>2, OverKeeps DEF FilesInv

LEMMA StartKeeps ==
  ASSUME Local!RunAssumption, BatchInv, NEW r \in Asked, Local!Start(r)
  PROVE  BatchInv'
<1> DEFINE n == Local!NumberOf(r)
<1>1. /\ step = "over" /\ processes' = processes + 1 /\ request' = r
      /\ UNCHANGED <<taskIndex, completed, printed, disk>>
  BY DEF Local!Start
<1>2. /\ taskIndex = 0 /\ completed = 0 /\ printed = <<>> /\ configs = <<>> /\ rows = <<>> /\ processes \in Nat /\ FilesInv
  BY <1>1 DEF BatchInv
<1>3. \A d \in DOMAIN disk : Fields(disk[d])
  BY <1>2 DEF FilesInv
<1>4. FilesInv' \/ step' \in {"rows", "summary"}
  BY <1>1, <1>3 DEF FilesInv
<1>5. CASE ~Local!Accepted(r)
  <2>1. configs' = configs /\ rows' = rows /\ step' = step
    BY <1>5 DEF Local!Start
  <2>2. QED
    BY <1>1, <1>2, <1>4, <2>1 DEF BatchInv
<1>6. CASE Local!Accepted(r)
  <2>1. /\ configs' = Local!Expand(r) /\ rows' = [k \in 1..n |-> None] /\ held' = [w \in Pool |-> Local!Idle]
        /\ step' = "running"
    BY <1>6 DEF Local!Start
  <2>2. n \in Nat /\ Len(configs') = n
    BY <1>6, <2>1, RequestHasRuns
  <2> HIDE DEF n
  <2>3. Local!Idle.stage = "idle" /\ Local!Idle # Local!Out
    BY DEF Local!Idle, Local!Out
  <2>4. ThreadsInv'
    <3>1. (\A w \in Pool : Does(w))'
      BY <2>1 DEF Does
    <3>2. held' \in [Pool -> {held'[w] : w \in Pool}] /\ \A w \in Pool : held'[w].stage = "idle" /\ held'[w] # Local!Out
      BY <2>1, <2>3
    <3>3. \A w \in Pool : held'[w].stage \notin Stages /\ held'[w].stage # "run"
      BY <3>2 DEF Stages
    <3>4. \A k \in 1..Len(configs') : ~(k <= taskIndex')
      BY <1>1, <1>2, <2>2
    <3>5. QED
      BY <3>1, <3>2, <3>3, <3>4 DEF ThreadsInv
  <2>5. ResultsInv'
    BY <2>1, <2>2 DEF ResultsInv
  <2>6. FiguresInv'
    <3>1. Storing' = {} /\ Telling' = {} /\ Finished' = {}
      BY <2>1, <2>3 DEF Storing, Telling, Finished
    <3>2. Cardinality({}) = 0
      BY FS_EmptySet
    <3>3. printed' = <<>> /\ completed' = 0 /\ Len(printed') = 0
      BY <1>1, <1>2
    <3>4. QED
      BY <3>1, <3>2, <3>3 DEF FiguresInv
  <2>7. FilesInv'
    BY <1>4, <2>1
  <2>8. taskIndex' \in Nat /\ completed' \in Nat /\ processes' \in Nat /\ printed' \in Seq(Nat) /\ request' \in Asked
    BY <1>1, <1>2
  <2>9. Local!Accepted(request)' /\ configs' = Local!Expand(request)'
    <3>1. Local!Accepted(request)' = Local!Accepted(r) /\ Local!Expand(request)' = Local!Expand(r)
      BY <1>1
    <3>2. QED
      BY <1>6, <2>1, <3>1
  <2>10. QED
    BY <2>1, <2>4, <2>5, <2>6, <2>7, <2>8, <2>9 DEF BatchInv
<1>7. QED
  BY <1>5, <1>6

LEMMA BatchStarts == ASSUME Local!RunAssumption, Local!Init PROVE BatchInv
<1>1. /\ request = None /\ configs = <<>> /\ taskIndex = 0 /\ completed = 0 /\ rows = <<>> /\ printed = <<>>
      /\ step = "over" /\ processes = 0 /\ disk = <<>>
  BY DEF Local!Init
<1>2. DOMAIN disk = {}
  BY <1>1
<1>3. FilesInv
  BY <1>1, <1>2 DEF FilesInv
<1>4. <<>> \in Seq(Nat)
  OBVIOUS
<1>5. QED
  BY <1>1, <1>3, <1>4 DEF BatchInv

LEMMA BatchKeeps == ASSUME Local!RunAssumption, BatchInv, [Local!Next]_(Local!vars) PROVE BatchInv'
<1>1. ASSUME NEW r \in Asked, Local!Start(r) PROVE BatchInv'
  BY <1>1, StartKeeps
<1>2. ASSUME NEW w \in Pool, Local!Take(w) PROVE BatchInv'
  BY <1>2, DrawKeeps
<1>3. ASSUME NEW w \in Pool, Local!RunExperiment(w) PROVE BatchInv'
  BY <1>3, RunKeeps
<1>4. ASSUME NEW w \in Pool, Local!Count(w) PROVE BatchInv'
  BY <1>4, CountKeeps
<1>5. ASSUME NEW w \in Pool, Local!PrintProgress(w) PROVE BatchInv'
  BY <1>5, PrintKeeps
<1>6. CASE Local!Join
  BY <1>6, JoinKeeps
<1>7. CASE Local!WriteRow("rows") \/ Local!WriteRow("summary")
  BY <1>7, WriteKeeps
<1>8. CASE Local!BeginSummary
  BY <1>8, BeginKeeps
<1>9. CASE Local!Finish
  BY <1>9, FinishKeeps
<1>10. CASE Local!Kill
  BY <1>10, KillKeeps
<1>11. CASE UNCHANGED Local!vars
  <2>1. /\ request' = request /\ configs' = configs /\ taskIndex' = taskIndex /\ completed' = completed
        /\ held' = held /\ rows' = rows /\ printed' = printed /\ step' = step /\ processes' = processes /\ disk' = disk
    BY <1>11 DEF Local!vars
  <2>2. (\A w \in Pool : Does(w)) => (\A w \in Pool : Does(w))'
    BY <2>1 DEF Does
  <2>3. ThreadsInv => ThreadsInv'
    BY <2>1, <2>2 DEF ThreadsInv
  <2>4. ResultsInv => ResultsInv'
    BY <2>1 DEF ResultsInv
  <2>5. FiguresInv => FiguresInv'
    BY <2>1 DEF FiguresInv, Storing, Telling, Finished
  <2>6. JoinedInv => JoinedInv'
    BY <2>1 DEF JoinedInv
  <2>7. Local!Saved' = Local!Saved /\ Cells' = Cells
    BY <2>1 DEF Local!Saved, Cells
  <2>8. FilesInv => FilesInv'
    BY <2>1, <2>7 DEF FilesInv
  <2>9. Local!Accepted(request)' = Local!Accepted(request) /\ Local!Expand(request)' = Local!Expand(request)
    BY <2>1
  <2>10. QED
    BY <2>1, <2>3, <2>4, <2>5, <2>6, <2>8, <2>9 DEF BatchInv
<1>12. QED
  BY <1>1, <1>2, <1>3, <1>4, <1>5, <1>6, <1>7, <1>8, <1>9, <1>10, <1>11 DEF Local!Next

LEMMA BatchInvPlaces == ASSUME Local!RunAssumption, BatchInv PROVE Local!EachRunInItsPlace
<1>1. CASE step = "running"
  <2>1. ThreadsInv /\ ResultsInv /\ FiguresInv
    BY <1>1 DEF BatchInv
  <2>2. \A w \in Pool : held[w] \notin {Local!Idle, Local!Out} => held[w].stage \in Stages
    <3>1. ASSUME NEW w \in Pool, held[w] \notin {Local!Idle, Local!Out} PROVE held[w].stage \in Stages
      <4>1. Does(w)
        BY <2>1 DEF ThreadsInv
      <4>2. QED
        BY <3>1, <4>1, StageOf
    <3>2. QED
      BY <3>1
  <2>3. \A v, w \in Pool : v # w /\ held[v] \notin {Local!Idle, Local!Out} /\ held[w] \notin {Local!Idle, Local!Out} =>
          held[v].at # held[w].at
    BY <2>1, <2>2 DEF ThreadsInv
  <2>4. DOMAIN rows = 1..Len(configs) /\ \A k \in DOMAIN rows : rows[k] # None => k <= taskIndex /\ rows[k] = configs[k]
    BY <2>1 DEF ResultsInv
  <2>5. completed <= Cardinality(Finished)
    <3>1. Cardinality(Storing) \in Nat /\ Cardinality(Finished) \in Nat /\ completed \in Nat
      BY <1>1, BatchSets DEF BatchInv
    <3>2. QED
      BY <2>1, <3>1 DEF FiguresInv
  <2>6. DOMAIN printed = 1..Len(printed) /\ \A i \in DOMAIN printed : printed[i] < i + Cardinality(Pool)
    <3>1. DOMAIN printed = 1..Len(printed)
      BY LenProperties DEF BatchInv
    <3>2. QED
      BY <2>1, <3>1 DEF FiguresInv
  <2>7. Local!Cardinality(Pool) = Cardinality(Pool) /\ Local!Cardinality({k \in DOMAIN rows : rows[k] # None}) = Cardinality(Finished)
    BY DEF Local!Cardinality, Cardinality, Finished
  <2>8. step \notin {"rows", "summary"}
    BY <1>1
  <2>9. QED
    BY <1>1, <2>3, <2>4, <2>5, <2>6, <2>7, <2>8 DEF Local!EachRunInItsPlace, Local!ResultOf
<1>2. CASE step \in {"rows", "summary"}
  <2>1. JoinedInv
    BY <1>2 DEF BatchInv
  <2>2. /\ Len(rows) \in Nat /\ rows \in [1..Len(rows) -> Cells]
    BY <1>2, SavingHas
  <2>3. DOMAIN configs = 1..Len(configs) /\ rows = [k \in DOMAIN configs |-> configs[k]]
    BY <2>1, <2>2 DEF JoinedInv
  <2>4. Local!ToSet(printed) = DOMAIN configs
    BY <2>1, <2>3 DEF JoinedInv, Local!ToSet
  <2>5. step # "running"
    BY <1>2
  <2>6. QED
    BY <2>1, <2>3, <2>4, <2>5 DEF Local!EachRunInItsPlace, Local!ResultOf, JoinedInv
<1>3. CASE step = "over"
  BY <1>3 DEF Local!EachRunInItsPlace
<1>4. QED
  BY <1>1, <1>2, <1>3 DEF BatchInv

LEMMA BeginsIsPrefix ==
  ASSUME NEW n \in Nat, NEW S, NEW u \in [1..n -> S], Len(u) = n, NEW s \in Seq(S), Begins(s, u)
  PROVE  Local!IsPrefix(s, u)
<1>1. u \in Seq(S)
  BY TableIsSeq
<1>2. Len(s) \in Nat /\ Len(s) <= n /\ DOMAIN s = 1..Len(s) /\ \A i \in 1..Len(s) : s[i] = u[i]
  BY LenProperties DEF Begins
<1>3. SubSeq(s, 1, Len(s)) = [i \in 1..Len(s) |-> s[i]] /\ SubSeq(u, 1, Len(s)) = [i \in 1..Len(s) |-> u[i]]
  <2>1. \A q \in Seq(S), m \in Nat : m <= Len(q) => SubSeq(q, 1, m) = [i \in 1..m |-> q[i]]
    BY Z3
  <2>2. QED
    BY <1>1, <1>2, <2>1
<1>4. SubSeq(s, 1, Len(s)) = SubSeq(u, 1, Len(s))
  BY <1>2, <1>3
<1>5. QED
  BY <1>2, <1>4 DEF Local!IsPrefix

LEMMA BatchInvFiles == ASSUME Local!RunAssumption, BatchInv PROVE Local!SummaryBesideItsRows
<1>1. ASSUME step = "rows" PROVE Local!IsPrefix(Local!Directory(Local!Saved).rows, rows)
  <2>1. /\ Len(rows) \in Nat /\ rows \in [1..Len(rows) -> Cells] /\ FilesInv
        /\ Local!Directory(Local!Saved) = disk[Local!Saved]
    BY <1>1, SavingHas
  <2>2. disk[Local!Saved].rows \in Seq(Cells) /\ Begins(disk[Local!Saved].rows, rows)
    BY <1>1, <2>1 DEF FilesInv
  <2>3. QED
    BY <2>1, <2>2, BeginsIsPrefix
<1>2. ASSUME step = "summary"
      PROVE  Local!Directory(Local!Saved).rows = rows /\ Local!IsPrefix(Local!Directory(Local!Saved).summary, rows)
  <2>1. /\ Len(rows) \in Nat /\ rows \in [1..Len(rows) -> Cells] /\ FilesInv
        /\ Local!Directory(Local!Saved) = disk[Local!Saved]
    BY <1>2, SavingHas
  <2>2. /\ disk[Local!Saved].rows = rows
        /\ disk[Local!Saved].summary \in Seq(Cells) /\ Begins(disk[Local!Saved].summary, rows)
    BY <1>2, <2>1 DEF FilesInv
  <2>3. QED
    BY <2>1, <2>2, BeginsIsPrefix
<1>3. QED
  BY <1>1, <1>2 DEF Local!SummaryBesideItsRows

\* EachRunInItsPlace and SummaryBesideItsRows for any number of threads and batches, whatever
\* the schedule and whenever an earlier process was killed: each result is at the place of
\* its run, the progress figures are all printed, each ahead of its place by less than the
\* threads there are, and while a process saves its batch the rows are the first of its
\* results, all of them once it writes the summary.
THEOREM BatchesKeepOrder ==
  ASSUME Local!RunAssumption PROVE Local!Spec => [](Local!EachRunInItsPlace /\ Local!SummaryBesideItsRows)
<1>1. Local!Init => BatchInv
  BY BatchStarts
<1>2. BatchInv /\ [Local!Next]_(Local!vars) => BatchInv'
  BY BatchKeeps
<1>3. BatchInv => Local!EachRunInItsPlace /\ Local!SummaryBesideItsRows
  BY BatchInvPlaces, BatchInvFiles
<1>4. QED
  BY <1>1, <1>2, <1>3, PTL DEF Local!Spec

(***************************************************************************)
(* The days.  What a day's files yield comes first: striding, splitting    *)
(* and placing rows, then the run over a day, defined by recursion over    *)
(* its trades.  The walk's own invariant follows.                          *)
(***************************************************************************)

LEMMA WalkCardinality == ASSUME NEW S PROVE Walk!Cardinality(S) = Cardinality(S)
BY DEF Walk!Cardinality, Cardinality

LEMMA WalkRank == ASSUME NEW P, NEW p PROVE Walk!Rank(p, P) = Paired!Rank(p, P)
<1> DEFINE below == {q \in P : q <= p}
<1>1. Walk!Rank(p, P) = Cardinality(below)
  BY WalkCardinality DEF Walk!Rank
<1>2. Paired!Rank(p, P) = Cardinality(below)
  BY PairedCardinality DEF Paired!Rank
<1>3. QED
  BY <1>1, <1>2

LEMMA WalkKept ==
  ASSUME NEW n \in Nat, NEW P \in SUBSET (1..n), NEW s, NEW S, \A p \in P : s[p] \in S
  PROVE  Walk!Kept(s, P) \in Seq(S) /\ Len(Walk!Kept(s, P)) = Cardinality(P)
<1> DEFINE at(k) == CHOOSE p \in P : Walk!Rank(p, P) = k
<1>1. Walk!Kept(s, P) = [k \in 1..Cardinality(P) |-> s[at(k)]] /\ Cardinality(P) \in Nat
  BY WalkCardinality, RankGrows DEF Walk!Kept
<1>2. ASSUME NEW k \in 1..Cardinality(P) PROVE at(k) \in P
  <2>1. PICK p \in P : Paired!Rank(p, P) = k
    BY RankReached
  <2>2. Walk!Rank(p, P) = k
    BY <2>1, WalkRank
  <2>3. QED
    BY <2>2
<1> HIDE DEF at
<1>3. Walk!Kept(s, P) \in [1..Cardinality(P) -> S]
  BY <1>1, <1>2
<1>4. QED
  BY <1>1, <1>3, TableIsSeq

\* The run over the first i trades of a day.
RunStep(g, trades, labels, w, i) ==
  IF i = 0 THEN Walk!Opening ELSE Walk!AfterTrade(g[i - 1], trades[i], labels[i], w)
RunsUpTo(g, trades, labels, w, n) ==
  /\ DOMAIN g = 0..Len(trades) /\ g = [i \in 0..Len(trades) |-> g[i]]
  /\ \A i \in 0..n : g[i] = RunStep(g, trades, labels, w, i)
IsRun(g, trades, labels, w) == g = [i \in 0..Len(trades) |-> RunStep(g, trades, labels, w, i)]

LEMMA RunExists ==
  ASSUME NEW S, NEW trades \in Seq(S), NEW labels, NEW w
  PROVE  \E g : IsRun(g, trades, labels, w)
<1> DEFINE T == {n \in Nat : n <= Len(trades) /\ ~ \E g : RunsUpTo(g, trades, labels, w, n)}
<1>0. Len(trades) \in Nat
  OBVIOUS
<1>1. 0 \notin T
  <2> DEFINE g == [i \in 0..Len(trades) |-> Walk!Opening]
  <2>1. \A i \in 0..0 : g[i] = RunStep(g, trades, labels, w, i)
    BY <1>0 DEF RunStep
  <2>2. RunsUpTo(g, trades, labels, w, 0)
    BY <2>1 DEF RunsUpTo
  <2>3. QED
    BY <2>2
<1>2. ASSUME NEW n \in Nat, n \notin T, n + 1 <= Len(trades) PROVE n + 1 \notin T
  <2>1. PICK g : RunsUpTo(g, trades, labels, w, n)
    BY <1>0, <1>2
  <2> DEFINE h == [i \in 0..Len(trades) |-> IF i = n + 1 THEN Walk!AfterTrade(g[n], trades[n + 1], labels[n + 1], w) ELSE g[i]]
  <2>2. ASSUME NEW i \in 0..(n + 1) PROVE h[i] = RunStep(h, trades, labels, w, i)
    <3>1. i \in 0..Len(trades) /\ n \in 0..Len(trades) /\ n # n + 1
      BY <1>0, <1>2
    <3>2. CASE i = n + 1
      <4>1. i # 0 /\ i - 1 = n
        BY <3>2
      <4>2. h[i] = Walk!AfterTrade(g[n], trades[n + 1], labels[n + 1], w) /\ h[n] = g[n]
        BY <3>1, <3>2
      <4> HIDE DEF h
      <4>3. QED
        BY <3>2, <4>1, <4>2 DEF RunStep
    <3>3. CASE i # n + 1
      <4>1. i \in 0..n /\ (i # 0 => i - 1 \in 0..Len(trades) /\ i - 1 # n + 1)
        BY <1>0, <3>1, <3>3
      <4>2. h[i] = g[i] /\ (i # 0 => h[i - 1] = g[i - 1])
        BY <3>1, <3>3, <4>1
      <4>3. g[i] = RunStep(g, trades, labels, w, i)
        BY <2>1, <4>1 DEF RunsUpTo
      <4> HIDE DEF h
      <4>4. QED
        BY <4>2, <4>3 DEF RunStep
    <3>4. QED
      BY <3>2, <3>3
  <2>3. RunsUpTo(h, trades, labels, w, n + 1)
    <3>1. DOMAIN h = 0..Len(trades) /\ h = [i \in 0..Len(trades) |-> h[i]]
      OBVIOUS
    <3> HIDE DEF h
    <3>2. QED
      BY <2>2, <3>1 DEF RunsUpTo
  <2>4. QED
    BY <2>3
<1>3. ASSUME T # {} PROVE FALSE
  <2>1. PICK m \in T : \A j \in T : m <= j
    BY <1>3, NatLeast
  <2>2. m \in Nat /\ m # 0 /\ m <= Len(trades)
    BY <1>1, <2>1
  <2> HIDE DEF T
  <2>3. m - 1 \in Nat /\ ~(m <= m - 1) /\ (m - 1) + 1 = m
    BY <2>2
  <2>4. m - 1 \notin T
    BY <2>1, <2>3
  <2>5. (m - 1) + 1 \notin T
    BY <1>2, <2>2, <2>3, <2>4
  <2>6. QED
    BY <2>1, <2>3, <2>5
<1>4. PICK g : RunsUpTo(g, trades, labels, w, Len(trades))
  BY <1>0, <1>3
<1>5. IsRun(g, trades, labels, w)
  BY <1>4 DEF RunsUpTo, IsRun
<1>6. QED
  BY <1>5

\* Every sample of a run has the time of one of the day's trades.

\* A sequence whose entries have a time of T.
Timed(x, T) == \E V : x \in Seq(V) /\ \A v \in V : v.time \in T
TimesOf(trades) == {trades[i].time : i \in 1..Len(trades)}

LEMMA TimedBy == ASSUME NEW s, NEW V, NEW T, s \in Seq(V), \A v \in V : v.time \in T PROVE Timed(s, T)
BY DEF Timed

LEMMA AfterTradeTimes ==
  ASSUME NEW run, NEW trade, NEW label, NEW w, NEW T, Timed(run.samples, T), trade.time \in T
  PROVE  Timed(Walk!AfterTrade(run, trade, label, w).samples, T)
<1> DEFINE after == Walk!AfterTrade(run, trade, label, w).samples
<1>1. \/ after = run.samples
      \/ \E net : after = Append(run.samples, [net |-> net, time |-> trade.time])
  BY DEF Walk!AfterTrade
<1>2. ASSUME NEW net PROVE Timed(Append(run.samples, [net |-> net, time |-> trade.time]), T)
  <2>1. PICK V : run.samples \in Seq(V) /\ \A v \in V : v.time \in T
    BY DEF Timed
  <2> DEFINE e == [net |-> net, time |-> trade.time]
             W == V \cup {e}
  <2>2. e.time = trade.time /\ e \in W
    OBVIOUS
  <2> HIDE DEF e
  <2>3. run.samples \in Seq(W)
    BY <2>1, SeqMonotonic
  <2>4. Append(run.samples, e) \in Seq(W)
    BY <2>2, <2>3
  <2>5. \A v \in W : v.time \in T
    BY <2>1, <2>2
  <2>6. QED
    BY <2>4, <2>5 DEF Timed, e
<1> HIDE DEF after
<1>3. QED
  BY <1>1, <1>2 DEF after

\* Every sample of a run has the time of one of the day's trades.
LEMMA RunSamples ==
  ASSUME NEW S, NEW trades \in Seq(S), NEW labels, NEW w
  PROVE  Timed(Walk!RunDay(trades, labels, w).samples, TimesOf(trades))
<1> DEFINE r == CHOOSE g : IsRun(g, trades, labels, w)
           U == {n \in Nat : n <= Len(trades) /\ ~Timed(r[n].samples, TimesOf(trades))}
<1>0. Len(trades) \in Nat
  OBVIOUS
<1>1. IsRun(r, trades, labels, w)
  BY RunExists
<1>2. Walk!RunDay(trades, labels, w) = r[Len(trades)]
  BY DEF Walk!RunDay, IsRun, RunStep
<1> HIDE DEF r
<1>3. \A i \in 0..Len(trades) : r[i] = RunStep(r, trades, labels, w, i)
  BY <1>1 DEF IsRun
<1>4. 0 \notin U
  <2>1. r[0] = Walk!Opening
    BY <1>0, <1>3 DEF RunStep
  <2>2. r[0].samples = <<>>
    BY <2>1 DEF Walk!Opening
  <2>3. Timed(<<>>, TimesOf(trades))
    <3>1. PICK V : V = {}
      OBVIOUS
    <3>2. <<>> \in Seq(V) /\ \A v \in V : v.time \in TimesOf(trades)
      BY <3>1, EmptySeq
    <3>3. QED
      BY <3>2, TimedBy
  <2>4. QED
    BY <2>2, <2>3
<1>5. ASSUME U # {} PROVE FALSE
  <2>1. PICK m \in U : \A j \in U : m <= j
    BY <1>5, NatLeast
  <2>2. m \in Nat /\ m # 0 /\ m <= Len(trades) /\ ~Timed(r[m].samples, TimesOf(trades))
    BY <1>4, <2>1
  <2>3. m - 1 \in Nat /\ ~(m <= m - 1) /\ m - 1 <= Len(trades) /\ m \in 1..Len(trades) /\ m \in 0..Len(trades)
    BY <1>0, <2>2
  <2>4. Timed(r[m - 1].samples, TimesOf(trades))
    BY <2>1, <2>3
  <2>5. r[m] = Walk!AfterTrade(r[m - 1], trades[m], labels[m], w)
    BY <1>3, <2>2, <2>3 DEF RunStep
  <2>6. trades[m].time \in TimesOf(trades)
    BY <2>3 DEF TimesOf
  <2>7. QED
    BY <2>2, <2>4, <2>5, <2>6, AfterTradeTimes
<1>6. QED
  BY <1>0, <1>2, <1>5

\* No trade of an ordered day is later than its last.
LEMMA LastIsLatest ==
  ASSUME NEW trades \in Seq(Walk!Trade), trades # <<>>, Walk!InOrder(trades)
  PROVE  /\ Len(trades) \in Nat \ {0} /\ Last(trades).time \in Int
         /\ \A i \in 1..Len(trades) : trades[i].time \in Int /\ trades[i].time <= Last(trades).time
<1> DEFINE n == Len(trades)
           D == {k \in Nat : k < n /\ trades[n - k].time > trades[n].time}
<1>1. n \in Nat \ {0} /\ \A i \in 1..n : trades[i].time \in Int
  <2>1. n \in Nat \ {0}
    BY EmptySeq
  <2>2. \A i \in 1..n : trades[i] \in Walk!Trade
    BY ElementOfSeq
  <2> HIDE DEF n
  <2>3. QED
    BY <2>1, <2>2 DEF Walk!Trade
<1>2. Last(trades) = trades[n]
  BY DEF Last
<1>3. ASSUME NEW k \in Nat, k + 1 < n PROVE trades[n - (k + 1)].time <= trades[n - k].time
  <2>1. n - k \in 2..n /\ (n - k) - 1 = n - (k + 1)
    BY <1>1, <1>3
  <2> HIDE DEF n
  <2>2. QED
    BY <2>1 DEF Walk!InOrder, n
<1>4. D = {}
  <2>1. SUFFICES ASSUME D # {} PROVE FALSE
    OBVIOUS
  <2>2. PICK m \in D : \A j \in D : m <= j
    BY <2>1, NatLeast
  <2>3. m \in Nat /\ m < n /\ trades[n - m].time > trades[n].time
    BY <2>2
  <2> HIDE DEF D, n
  <2>4. n - 0 = n /\ n \in 1..n /\ ~(trades[n].time > trades[n].time)
    BY <1>1
  <2>5. m # 0
    BY <2>3, <2>4
  <2> DEFINE k == m - 1
  <2>6. k \in Nat /\ m = k + 1 /\ ~(m <= k) /\ k < n /\ n - k \in 1..n /\ n - m \in 1..n
    BY <1>1, <2>3, <2>5
  <2> HIDE DEF k
  <2>7. trades[n - m].time <= trades[n - k].time
    BY <1>3, <2>3, <2>6
  <2>8. ~(trades[n - k].time > trades[n].time)
    BY <2>2, <2>6 DEF D
  <2>9. QED
    BY <1>1, <2>3, <2>4, <2>6, <2>7, <2>8
<1>5. ASSUME NEW i \in 1..n PROVE trades[i].time <= trades[n].time
  <2>1. n - i \in Nat /\ n - i < n /\ n - (n - i) = i /\ n \in 1..n
    BY <1>1
  <2>2. n - i \notin D
    BY <1>4
  <2> HIDE DEF n
  <2>3. ~(trades[i].time > trades[n].time)
    BY <2>1, <2>2
  <2>4. QED
    BY <1>1, <2>1, <2>3
<1>6. QED
  BY <1>1, <1>2, <1>5

\* What is strided down is of the feed, and something if the feed is.
LEMMA StridedFits ==
  ASSUME NEW S, NEW feed \in Seq(S), NEW cap \in Nat
  PROVE  /\ Walk!Strided(feed, cap) \in Seq(S)
         /\ feed # <<>> => Walk!Strided(feed, cap) # <<>>
<1> DEFINE n == Len(feed)
           stride == IF cap # 0 /\ n > cap THEN (n + cap - 1) \div cap ELSE 1
           kept == (n + stride - 1) \div stride
           f == [k \in 1..kept |-> feed[(k - 1) * stride + 1]]
<1>1. Walk!Strided(feed, cap) = f
  BY DEF Walk!Strided
<1>2. n \in Nat
  OBVIOUS
<1>3. stride \in Nat \ {0}
  <2>1. CASE cap # 0 /\ n > cap
    <3> DEFINE a == n + cap - 1
               q == a \div cap
    <3>1. a \in Nat /\ a \in Int /\ a >= cap /\ cap \in Nat \ {0}
      BY <1>2, <2>1
    <3> HIDE DEF a
    <3>2. q \in Nat /\ a = q * cap + (a % cap) /\ a % cap \in 0..(cap - 1)
      BY ONLY <3>1, DivMod
    <3> HIDE DEF q
    <3>3. q # 0
      BY <3>1, <3>2
    <3>4. stride = q
      BY <2>1 DEF q, a
    <3> HIDE DEF stride
    <3>5. QED
      BY <3>2, <3>3, <3>4
  <2>2. CASE ~(cap # 0 /\ n > cap)
    BY <2>2
  <2>3. QED
    BY <2>1, <2>2
<1> HIDE DEF stride
<1> DEFINE b == n + stride - 1
<1>4. b \in Nat /\ b \in Int
  BY <1>2, <1>3
<1> HIDE DEF b
<1>5. kept \in Nat /\ b = kept * stride + (b % stride) /\ b % stride \in 0..(stride - 1)
  <2>1. kept = b \div stride
    BY DEF b
  <2> HIDE DEF kept
  <2>2. b \div stride \in Nat /\ b = (b \div stride) * stride + (b % stride) /\ b % stride \in 0..(stride - 1)
    BY ONLY <1>3, <1>4, DivMod
  <2>3. QED
    BY ONLY <2>1, <2>2
<1> HIDE DEF kept, n
<1>6. kept * stride <= n + stride - 1
  <2> DEFINE p == kept * stride
             r == b % stride
  <2>1. p \in Int /\ r \in 0..(stride - 1) /\ b = p + r
    BY <1>3, <1>5
  <2> HIDE DEF p, r
  <2>2. p <= b
    BY <1>3, <1>4, <2>1
  <2>3. QED
    BY <2>2 DEF b, p
<1>7. ASSUME NEW k \in 1..kept PROVE (k - 1) * stride + 1 \in 1..n
  <2>1. (k - 1) * stride >= 0 /\ (k - 1) * stride \in Int
    BY <1>3, <1>5
  <2>2. k * stride <= kept * stride
    <3> DEFINE d == kept - k
    <3>1. d \in Nat /\ kept = k + d
      BY <1>5
    <3> HIDE DEF d
    <3>2. d * stride >= 0 /\ kept * stride = k * stride + d * stride
      BY <1>3, <3>1
    <3>3. k * stride \in Int /\ d * stride \in Int
      BY <1>3, <3>1
    <3>4. QED
      BY <3>2, <3>3
  <2>3. (k - 1) * stride = k * stride - stride
    BY <1>3, <1>5
  <2>4. k * stride \in Int /\ kept * stride \in Int
    BY <1>3, <1>5
  <2> DEFINE x == (k - 1) * stride
             y == k * stride
             z == kept * stride
  <2>5. x >= 0 /\ x \in Int /\ y \in Int /\ z \in Int /\ y <= z /\ x = y - stride /\ z <= n + stride - 1
    BY <1>6, <2>1, <2>2, <2>3, <2>4
  <2> HIDE DEF x, y, z
  <2>6. x + 1 \in 1..n
    BY <1>2, <1>3, <2>5 DEF n
  <2>7. QED
    BY <2>6 DEF x
<1>8. f \in [1..kept -> S]
  <2>1. \A i \in 1..n : feed[i] \in S
    BY ElementOfSeq DEF n
  <2>2. QED
    BY <1>7, <2>1
<1>9. f \in Seq(S) /\ Len(f) = kept
  BY <1>5, <1>8, TableIsSeq
<1>10. ASSUME feed # <<>> PROVE kept # 0
  <2>1. n \in Nat \ {0}
    BY <1>10, EmptySeq DEF n
  <2>2. b >= stride
    BY <1>3, <2>1 DEF b
  <2>3. b % stride < stride /\ b % stride \in Int
    BY <1>3, <1>5
  <2>4. SUFFICES ASSUME kept = 0 PROVE FALSE
    OBVIOUS
  <2>5. kept * stride = 0
    BY <1>3, <2>4
  <2>6. QED
    BY <1>3, <1>4, <1>5, <2>2, <2>3, <2>5
<1> HIDE DEF f
<1>11. QED
  BY <1>1, <1>9, <1>10, EmptySeq

\* A day's samples apart from those near its end, which are B's, and those near it.
LEMMA SplitFits ==
  ASSUME NEW S, NEW samples \in Seq(S), NEW end, NEW embargo, NEW B,
         \A k \in 1..Len(samples) : ~(embargo # 0 /\ samples[k].time > end - embargo) => samples[k] \in B
  PROVE  /\ Walk!EmbargoSplit(samples, end, embargo).body \in Seq(B)
         /\ Walk!EmbargoSplit(samples, end, embargo).tail \in Seq(S)
         /\ (\E k \in 1..Len(samples) : ~(embargo # 0 /\ samples[k].time > end - embargo))
              => Walk!EmbargoSplit(samples, end, embargo).body # <<>>
<1> DEFINE late1 == {k \in DOMAIN samples : embargo # 0 /\ samples[k].time > end - embargo}
           soon == DOMAIN samples \ late1
           n == Len(samples)
<1>1. n \in Nat /\ DOMAIN samples = 1..n
  OBVIOUS
<1>2. late1 \in SUBSET (1..n) /\ soon \in SUBSET (1..n)
  BY <1>1
<1>3. /\ Walk!EmbargoSplit(samples, end, embargo).body = Walk!Kept(samples, soon)
      /\ Walk!EmbargoSplit(samples, end, embargo).tail = Walk!Kept(samples, late1)
  BY DEF Walk!EmbargoSplit
<1>4. (\A k \in soon : samples[k] \in B) /\ \A k \in late1 : samples[k] \in S
  BY <1>1
<1>5. (\E k \in 1..n : ~(embargo # 0 /\ samples[k].time > end - embargo)) => soon # {}
  BY <1>1
<1> HIDE DEF late1, soon, n
<1>6. /\ Walk!Kept(samples, soon) \in Seq(B) /\ Len(Walk!Kept(samples, soon)) = Cardinality(soon)
      /\ Walk!Kept(samples, late1) \in Seq(S)
  BY <1>1, <1>2, <1>4, WalkKept
<1>7. soon # {} => Cardinality(soon) # 0
  <2>1. IsFiniteSet(1..n)
    BY <1>1, FS_Interval
  <2>2. IsFiniteSet(soon)
    BY <1>2, <2>1, FS_Subset
  <2>3. QED
    BY <2>2, FS_EmptySet
<1>8. soon # {} => Walk!Kept(samples, soon) # <<>>
  BY <1>6, <1>7, EmptySeq
<1>9. QED
  BY <1>3, <1>5, <1>6, <1>8 DEF n

\* Every file has a place of its own, and every place is one's.
UpTo(at, n, i) == {j \in 1..n : at[j] <= at[i]}
Distinct(at, n) == (\A i \in 1..n : at[i] \in Int) /\ \A i, j \in 1..n : i # j => at[i] # at[j]
LEMMA PlacesFilled ==
  ASSUME NEW n \in Nat, NEW at, Distinct(at, n), NEW k \in 1..n
  PROVE  \E i \in 1..n : Cardinality(UpTo(at, n, i)) = k
<1> DEFINE D == 1..n
           below(i) == {j \in D : at[j] <= at[i]}
           g == [i \in D |-> Cardinality(below(i))]
<1>0. (\A i \in D : at[i] \in Int) /\ \A i, j \in D : i # j => at[i] # at[j]
  BY DEF Distinct
<1>1. IsFiniteSet(D) /\ Cardinality(D) = n
  BY FS_Interval
<1>2. ASSUME NEW i \in D
      PROVE  IsFiniteSet(below(i)) /\ Cardinality(below(i)) \in D /\ g[i] = Cardinality(below(i))
  <2>1. below(i) \in SUBSET D /\ i \in below(i)
    BY <1>0
  <2>2. g[i] = Cardinality(below(i))
    OBVIOUS
  <2> HIDE DEF below, g, D
  <2>3. IsFiniteSet(below(i)) /\ Cardinality(below(i)) <= n /\ Cardinality(below(i)) \in Nat
    BY <1>1, <2>1, FS_Subset, FS_CardinalityType
  <2>4. Cardinality(below(i)) # 0
    BY <2>1, <2>3, FS_EmptySet
  <2>5. Cardinality(below(i)) \in D
    BY <2>3, <2>4 DEF D
  <2>6. QED
    BY <2>2, <2>3, <2>5
<1>3. ASSUME NEW i \in D, NEW j \in D, at[i] < at[j] PROVE g[i] # g[j]
  <2>1. below(i) \cup {j} \in SUBSET below(j) /\ j \notin below(i)
    <3>1. at[i] \in Int /\ at[j] \in Int /\ \A l \in D : at[l] \in Int
      BY <1>0
    <3>2. \A l \in D : at[l] <= at[i] => at[l] <= at[j]
      BY <1>3, <3>1
    <3>3. at[j] <= at[j] /\ ~(at[j] <= at[i])
      BY <1>3, <3>1
    <3>4. QED
      BY <3>2, <3>3
  <2> HIDE DEF below, g, D
  <2>2. Cardinality(below(i) \cup {j}) = Cardinality(below(i)) + 1
    BY <1>2, <2>1, FS_AddElement
  <2>3. Cardinality(below(i) \cup {j}) <= Cardinality(below(j))
    BY <1>2, <2>1, FS_Subset
  <2>4. Cardinality(below(i)) \in Nat /\ Cardinality(below(j)) \in Nat
    BY <1>2, FS_CardinalityType
  <2>5. QED
    BY <1>2, <2>2, <2>3, <2>4
<1>4. ASSUME NEW i \in D, NEW j \in D, i # j PROVE g[i] # g[j]
  <2>1. at[i] # at[j] /\ at[i] \in Int /\ at[j] \in Int
    BY <1>0, <1>4
  <2>2. at[i] < at[j] \/ at[j] < at[i]
    BY <2>1
  <2> HIDE DEF g, D
  <2>3. QED
    BY <1>3, <2>2
<1>5. g \in Injection(D, D)
  <2>1. g \in [D -> D]
    <3>1. \A i \in D : Cardinality(below(i)) \in D
      BY <1>2
    <3> HIDE DEF below, D
    <3>2. QED
      BY <3>1
  <2> HIDE DEF g, D
  <2>2. QED
    BY <1>4, <2>1 DEF Injection, IsInjective
<1>6. g \in Surjection(D, D)
  <2> HIDE DEF g, D
  <2>1. QED
    BY <1>1, <1>5, FS_Injection
<1>7. PICK i \in D : g[i] = k
  BY <1>6 DEF Surjection
<1>8. UpTo(at, n, i) = below(i)
  BY DEF UpTo
<1>9. QED
  BY <1>2, <1>7, <1>8

LEMMA InTimeOrderFits ==
  ASSUME NEW S, NEW fs \in Seq(S), \A i \in DOMAIN fs : fs[i][1].time \in Int,
         \A i, j \in DOMAIN fs : i # j => fs[i][1].time # fs[j][1].time
  PROVE  Walk!InTimeOrder(fs) \in Seq(S) /\ Len(Walk!InTimeOrder(fs)) = Len(fs)
<1> DEFINE n == Len(fs)
           at == [i \in 1..n |-> fs[i][1].time]
           source(k) == CHOOSE i \in DOMAIN fs : Walk!Place(fs, i) = k
<1>1. n \in Nat /\ DOMAIN fs = 1..n
  OBVIOUS
<1>2. ASSUME NEW i \in 1..n PROVE Walk!Place(fs, i) = Cardinality(UpTo(at, n, i))
  <2>1. {j \in DOMAIN fs : fs[j][1].time <= fs[i][1].time} = UpTo(at, n, i)
    BY <1>1 DEF UpTo
  <2>2. QED
    BY <2>1, WalkCardinality DEF Walk!Place
<1>3. Distinct(at, n)
  BY <1>1 DEF Distinct
<1>4. ASSUME NEW k \in 1..n PROVE source(k) \in 1..n
  <2> HIDE DEF at, n
  <2>1. PICK i \in 1..n : Cardinality(UpTo(at, n, i)) = k
    BY <1>1, <1>3, PlacesFilled
  <2>2. Walk!Place(fs, i) = k
    BY <1>2, <2>1
  <2>3. QED
    BY <1>1, <2>2
<1>5. Walk!InTimeOrder(fs) = [k \in 1..n |-> fs[source(k)]]
  BY <1>1 DEF Walk!InTimeOrder
<1> HIDE DEF source, at
<1>6. \A i \in 1..n : fs[i] \in S
  BY ElementOfSeq
<1> HIDE DEF n
<1>7. Walk!InTimeOrder(fs) \in [1..n -> S]
  BY <1>4, <1>5, <1>6
<1>8. QED
  BY <1>1, <1>7, TableIsSeq DEF n

\* What the days done have given, and what an arm's threshold may be drawn from.
Past(d) == UNION {Walk!SamplesOf(i) : i \in 1..d}
FirstDayLeft(a) == \E s \in Walk!SamplesOf(1) : ~Walk!OutOfReach(s, 2, embargoes[a])

\* The days are files that could be read, and those done were in order.
DaysInv ==
  /\ files \in Seq({None} \cup Seq(Walk!Trade)) /\ embargoes \in Seq(Nat) \ {<<>>}
  /\ DOMAIN arms = DOMAIN embargoes
  /\ today \in Int /\ -1 <= today /\ today <= Len(files) /\ trainEnd \in Int /\ exit \in Int
  /\ today >= 0 => files \in Seq(Seq(Walk!Trade))
  /\ \A d \in 1..today : files[d] # <<>> /\ Walk!InOrder(files[d]) /\ Last(files[d]).time <= trainEnd

\* An arm has samples of the days done, those near the end of the last held back.
SamplesInv ==
  \A a \in DOMAIN arms :
    /\ DOMAIN arms[a] = {"samples", "deferred", "folds"}
    /\ arms[a].samples \in Seq(Walk!Allowed(a, today + 1)) /\ arms[a].deferred \in Seq(Past(today))
    /\ today >= 1 /\ FirstDayLeft(a) => arms[a].samples # <<>>

\* A fold was made of samples that its day allows.
FoldOk(a, f) ==
  /\ f.day \in 2..today /\ Walk!Range(f.samples) \subseteq Walk!Allowed(a, f.day)
  /\ \A s \in Walk!Range(f.samples) : s.time < files[f.day][1].time
FoldsInv ==
  \A a \in DOMAIN arms :
    /\ \E S : arms[a].folds \in Seq(S)
    /\ \A k \in 1..Len(arms[a].folds) : FoldOk(a, arms[a].folds[k])

\* While the headline arm has kept the protocol, the days done do not overlap, and every
\* arm that had samples from the start has a fold for each but the first.
FoldsFrom2(a) ==
  Len(arms[a].folds) = today - 1 /\ \A k \in 1..Len(arms[a].folds) : arms[a].folds[k].day = k + 1
HeadlineInv ==
  violations = {} =>
    /\ \A i, j \in 1..today : i < j => Last(files[i]).time < files[j][1].time
    /\ \A a \in DOMAIN arms : today >= 1 /\ (a = 1 \/ FirstDayLeft(a)) => FoldsFrom2(a)

ReportedInv == exit = 0 => today = Len(files) /\ today >= 1 /\ violations = {} /\ reported = Walk!Aggregated(arms[1].folds)

WalkInv == DaysInv /\ SamplesInv /\ FoldsInv /\ HeadlineInv /\ ReportedInv

\* The samples of a day are a sequence, and none is later than the day's last trade.
SamplesAreOf(d) ==
  /\ Walk!DaySamples(d) \in Seq(Walk!SamplesOf(d))
  /\ \A s \in Walk!SamplesOf(d) : s.day = d /\ s.time \in Int /\ s.time <= Last(files[d]).time

LEMMA SamplesOfDay ==
  ASSUME NEW d, files[d] \in Seq(Walk!Trade), files[d] # <<>>, Walk!InOrder(files[d])
  PROVE  SamplesAreOf(d)
<1> DEFINE run == Walk!RunDay(files[d], Walk!Labels(files[d]), 0).samples
           n == Len(run)
           sample(k) == [net |-> run[k].net, time |-> run[k].time, day |-> d, nth |-> k]
<1>1. PICK V : run \in Seq(V) /\ \A v \in V : v.time \in TimesOf(files[d])
  BY RunSamples DEF Timed
<1>2. Walk!DaySamples(d) = [k \in DOMAIN run |-> sample(k)]
  BY DEF Walk!DaySamples
<1>3. Walk!SamplesOf(d) = {Walk!DaySamples(d)[k] : k \in DOMAIN Walk!DaySamples(d)}
  BY DEF Walk!SamplesOf, Walk!Range
<1> HIDE DEF run, sample
<1>4. n \in Nat /\ DOMAIN run = 1..n /\ \A k \in 1..n : run[k].time \in TimesOf(files[d])
  BY <1>1
<1>5. \A k \in 1..n : Walk!DaySamples(d)[k] = sample(k) /\ sample(k) \in Walk!SamplesOf(d)
  BY <1>2, <1>3, <1>4
<1>6. Walk!DaySamples(d) \in [1..n -> Walk!SamplesOf(d)]
  BY <1>2, <1>4, <1>5
<1>7. Walk!DaySamples(d) \in Seq(Walk!SamplesOf(d))
  BY <1>4, <1>6, TableIsSeq
<1>8. ASSUME NEW t \in TimesOf(files[d]) PROVE t \in Int /\ t <= Last(files[d]).time
  BY LastIsLatest DEF TimesOf
<1>9. ASSUME NEW s \in Walk!SamplesOf(d) PROVE s.day = d /\ s.time \in TimesOf(files[d])
  <2>1. PICK k \in 1..n : s = Walk!DaySamples(d)[k]
    BY <1>2, <1>3, <1>4
  <2>2. s = sample(k)
    BY <1>5, <2>1
  <2>3. sample(k).day = d /\ sample(k).time = run[k].time
    BY DEF sample
  <2>4. QED
    BY <1>4, <2>2, <2>3
<1>10. QED
  BY <1>7, <1>8, <1>9 DEF SamplesAreOf

LEMMA DaysHaveSamples == ASSUME DaysInv PROVE \A d \in 1..today : SamplesAreOf(d)
<1> SUFFICES ASSUME NEW d \in 1..today PROVE SamplesAreOf(d)
  OBVIOUS
<1>1. today >= 0 /\ d \in 1..Len(files)
  BY DEF DaysInv
<1>2. files \in Seq(Seq(Walk!Trade)) /\ files[d] # <<>> /\ Walk!InOrder(files[d])
  BY <1>1 DEF DaysInv
<1>3. files[d] \in Seq(Walk!Trade)
  BY <1>1, <1>2, ElementOfSeq
<1>4. QED
  BY <1>2, <1>3, SamplesOfDay

LEMMA WalkStarts ==
  ASSUME Walk!WalkAssumption, Walk!Init
  PROVE  WalkInv
<1>1. /\ files \in Seq({None} \cup Seq(Walk!Trade)) /\ embargoes \in Seq(Nat) \ {<<>>}
      /\ today = -1 /\ trainEnd = 0 /\ violations = {} /\ exit = -1
      /\ arms = [a \in DOMAIN embargoes |-> [samples |-> <<>>, deferred |-> <<>>, folds |-> <<>>]]
  BY DEF Walk!Init, Walk!WalkAssumption
<1>2. Len(files) \in Nat
  BY <1>1
<1>3. \A a \in DOMAIN arms : /\ arms[a].samples = <<>> /\ arms[a].deferred = <<>> /\ arms[a].folds = <<>>
                             /\ DOMAIN arms[a] = {"samples", "deferred", "folds"}
  BY <1>1
<1>4. DaysInv
  BY <1>1, <1>2 DEF DaysInv
<1>5. SamplesInv
  <2>1. \A S : <<>> \in Seq(S)
    BY EmptySeq
  <2>2. ~(today >= 1)
    BY <1>1
  <2>3. QED
    BY <1>3, <2>1, <2>2, Zenon DEF SamplesInv
<1>6. FoldsInv
  <2>1. \A a \in DOMAIN arms : arms[a].folds \in Seq(Nat) /\ 1..Len(arms[a].folds) = {}
    <3>1. <<>> \in Seq(Nat) /\ Len(<<>>) = 0 /\ 1..0 = {}
      BY EmptySeq
    <3>2. QED
      BY <1>3, <3>1, Zenon
  <2>2. QED
    BY <2>1 DEF FoldsInv
<1>7. HeadlineInv
  BY <1>1 DEF HeadlineInv
<1>8. ReportedInv
  BY <1>1 DEF ReportedInv
<1>9. QED
  BY <1>4, <1>5, <1>6, <1>7, <1>8 DEF WalkInv

\* Before the first day an arm has nothing.
LEMMA NothingBeforeTheFirst ==
  ASSUME WalkInv, today <= 0, NEW a \in DOMAIN arms
  PROVE  arms[a].samples = <<>> /\ arms[a].deferred = <<>> /\ Len(arms[a].folds) = 0
<1>1. today \in Int /\ 1..today = {} /\ 1..((today + 1) - 1) = {} /\ 2..today = {}
  BY DEF WalkInv, DaysInv
<1>2. Walk!Allowed(a, today + 1) = {} /\ Past(today) = {}
  BY <1>1 DEF Walk!Allowed, Past
<1>3. arms[a].samples \in Seq({}) /\ arms[a].deferred \in Seq({})
  BY <1>2 DEF WalkInv, SamplesInv
<1>4. \A s \in Seq({}) : s = <<>>
  OBVIOUS
<1>5. Len(arms[a].folds) \in Nat /\ \A k \in 1..Len(arms[a].folds) : arms[a].folds[k].day \in 2..today
  BY DEF WalkInv, FoldsInv, FoldOk
<1>6. Len(arms[a].folds) = 0
  BY <1>1, <1>5
<1>7. QED
  BY <1>3, <1>4, <1>6


LEMMA StartSorts ==
  ASSUME WalkInv, Walk!Start
  PROVE  WalkInv'
<1>1. /\ today = -1 /\ exit = -1 /\ embargoes' = embargoes /\ trainEnd' = trainEnd /\ arms' = arms
      /\ violations' = violations /\ reported' = reported
      /\ \/ files' = files /\ today' = today /\ exit' \in {1, 2, 3}
         \/ /\ \A f \in Walk!Range(files) : f # None /\ f # <<>>
            /\ \A i, j \in DOMAIN files : i # j => files[i][1].time # files[j][1].time
            /\ files' = Walk!InTimeOrder(files) /\ today' = 0 /\ exit' = exit
  BY DEF Walk!Start, Walk!Peeks
<1>2. files \in Seq({None} \cup Seq(Walk!Trade)) /\ Len(files) \in Nat /\ embargoes \in Seq(Nat) \ {<<>>}
      /\ DOMAIN arms = DOMAIN embargoes /\ trainEnd \in Int
  BY DEF WalkInv, DaysInv
<1>3. ASSUME today' = 0 PROVE files' \in Seq(Seq(Walk!Trade)) /\ Len(files') = Len(files)
  <2>1. /\ \A f \in Walk!Range(files) : f # None /\ f # <<>>
        /\ \A i, j \in DOMAIN files : i # j => files[i][1].time # files[j][1].time
        /\ files' = Walk!InTimeOrder(files)
    BY <1>1, <1>3
  <2>2. DOMAIN files = 1..Len(files)
    BY <1>2
  <2>3. ASSUME NEW i \in 1..Len(files)
        PROVE  files[i] \in Seq(Walk!Trade) /\ files[i][1].time \in Int
    <3>1. files[i] \in Walk!Range(files) /\ files[i] \in {None} \cup Seq(Walk!Trade)
      BY <1>2, <2>2, ElementOfSeq DEF Walk!Range
    <3>2. files[i] \in Seq(Walk!Trade) /\ files[i] # <<>>
      BY <2>1, <3>1
    <3>3. Len(files[i]) \in Nat \ {0}
      BY <3>2, EmptySeq
    <3>4. files[i][1] \in Walk!Trade
      BY <3>2, <3>3, ElementOfSeq
    <3>5. QED
      BY <3>2, <3>4 DEF Walk!Trade
  <2>4. files \in [1..Len(files) -> Seq(Walk!Trade)]
    <3>1. files \in [1..Len(files) -> {None} \cup Seq(Walk!Trade)]
      BY <1>2, LenProperties
    <3>2. QED
      BY <2>3, <3>1
  <2>5. files \in Seq(Seq(Walk!Trade))
    BY <1>2, <2>4, TableIsSeq
  <2>6. QED
    BY <2>1, <2>2, <2>3, <2>5, InTimeOrderFits
<1>4. today' \in {-1, 0} /\ (today' = -1 => files' = files)
  BY <1>1
<1>5. \A a \in DOMAIN arms : arms[a].samples = <<>> /\ arms[a].deferred = <<>> /\ Len(arms[a].folds) = 0
  BY <1>1, NothingBeforeTheFirst
<1>6. DaysInv'
  <2>1. files' \in Seq({None} \cup Seq(Walk!Trade)) /\ Len(files') = Len(files)
    <3>1. Seq(Walk!Trade) \subseteq {None} \cup Seq(Walk!Trade)
      OBVIOUS
    <3>2. CASE today' = 0
      BY <1>3, <3>1, <3>2, SeqMonotonic
    <3>3. CASE today' = -1
      BY <1>2, <1>4, <3>3
    <3>4. QED
      BY <1>4, <3>2, <3>3
  <2>2. today' >= 0 => files' \in Seq(Seq(Walk!Trade))
    BY <1>3, <1>4
  <2>3. today' \in Int /\ -1 <= today' /\ today' <= Len(files') /\ exit' \in Int /\ 1..today' = {}
    BY <1>1, <1>2, <1>4, <2>1
  <2>4. QED
    BY <1>1, <1>2, <2>1, <2>2, <2>3 DEF DaysInv
<1>7. SamplesInv'
  <2>1. \A S : <<>> \in Seq(S)
    BY EmptySeq
  <2>2. ~(today' >= 1)
    BY <1>4
  <2>3. \A a \in DOMAIN arms' : /\ arms'[a].samples = <<>> /\ arms'[a].deferred = <<>>
                                /\ DOMAIN arms'[a] = {"samples", "deferred", "folds"}
    BY <1>1, <1>5 DEF WalkInv, SamplesInv
  <2>4. QED
    BY <2>1, <2>2, <2>3, Zenon DEF SamplesInv
<1>8. FoldsInv'
  <2>1. \A a \in DOMAIN arms : (\E S : arms[a].folds \in Seq(S)) /\ 1..Len(arms[a].folds) = {}
    BY <1>5 DEF WalkInv, FoldsInv
  <2>2. QED
    BY <1>1, <2>1 DEF FoldsInv
<1>9. HeadlineInv'
  <2>1. 1..today' = {} /\ ~(today' >= 1)
    BY <1>4
  <2>2. QED
    BY <2>1, Zenon DEF HeadlineInv
<1>10. ReportedInv'
  <2>1. exit' # 0
    BY <1>1
  <2>2. QED
    BY <2>1 DEF ReportedInv
<1>11. QED
  BY <1>6, <1>7, <1>8, <1>9, <1>10 DEF WalkInv

\* The samples of the days are the files'.
LEMMA SameDays ==
  ASSUME files' = files, embargoes' = embargoes
  PROVE  /\ \A d : Walk!SamplesOf(d)' = Walk!SamplesOf(d) /\ Past(d)' = Past(d)
         /\ \A a, d : Walk!Allowed(a, d)' = Walk!Allowed(a, d)
         /\ \A a : FirstDayLeft(a)' = FirstDayLeft(a)
         /\ \A s, d, e : Walk!OutOfReach(s, d, e)' = Walk!OutOfReach(s, d, e)
<1>1. ASSUME NEW d PROVE Walk!SamplesOf(d)' = Walk!SamplesOf(d)
  BY DEF Walk!SamplesOf, Walk!DaySamples
<1>2. ASSUME NEW s, NEW d, NEW e PROVE Walk!OutOfReach(s, d, e)' = Walk!OutOfReach(s, d, e)
  BY DEF Walk!OutOfReach
<1>3. ASSUME NEW d PROVE Past(d)' = Past(d)
  BY <1>1 DEF Past
<1>4. ASSUME NEW a, NEW d PROVE Walk!Allowed(a, d)' = Walk!Allowed(a, d)
  BY <1>1, <1>2 DEF Walk!Allowed
<1>5. ASSUME NEW a PROVE FirstDayLeft(a)' = FirstDayLeft(a)
  BY <1>1, <1>2 DEF FirstDayLeft
<1>6. QED
  BY <1>1, <1>2, <1>3, <1>4, <1>5

LEMMA FoldStays ==
  ASSUME files' = files, embargoes' = embargoes, today \in Int, today' \in Int, today <= today',
         NEW a, NEW f, FoldOk(a, f)
  PROVE  FoldOk(a, f)'
<1>1. f.day \in 2..today'
  BY DEF FoldOk
<1>2. Walk!Allowed(a, f.day)' = Walk!Allowed(a, f.day)
  BY SameDays
<1>3. QED
  BY <1>1, <1>2 DEF FoldOk

LEMMA VerdictKeeps ==
  ASSUME WalkInv, Walk!Judge
  PROVE  WalkInv'
<1>1. /\ today = Len(files) /\ exit = -1 /\ UNCHANGED <<files, embargoes, today, trainEnd, arms, violations>>
      /\ exit' \in {0, 1, 3, 4}
      /\ exit' = 0 => violations = {} /\ ~(Len(arms[1].folds) < 2) /\ reported' = Walk!Aggregated(arms[1].folds)
  BY DEF Walk!Judge
<1>2. DaysInv' /\ SamplesInv' /\ FoldsInv' /\ HeadlineInv'
  <2>1. DaysInv'
    <3>1. exit' \in Int
      BY <1>1
    <3>2. QED
      BY <1>1, <3>1, Zenon DEF WalkInv, DaysInv
  <2>2. SamplesInv'
    BY <1>1, SameDays DEF WalkInv, SamplesInv
  <2>3. FoldsInv'
    <3>1. today \in Int /\ today' = today /\ today <= today
      BY <1>1 DEF WalkInv, DaysInv
    <3>2. \A a, f : FoldOk(a, f) => FoldOk(a, f)'
      BY <1>1, <3>1, FoldStays
    <3>3. QED
      BY <1>1, <3>2 DEF WalkInv, FoldsInv
  <2>4. HeadlineInv'
    BY <1>1, SameDays DEF WalkInv, HeadlineInv, FoldsFrom2
  <2>5. QED
    BY <2>1, <2>2, <2>3, <2>4
<1>3. ASSUME exit' = 0 PROVE today >= 1
  <2>1. 1 \in DOMAIN arms
    BY EmptySeq DEF WalkInv, DaysInv
  <2>2. today \in Int
    BY DEF WalkInv, DaysInv
  <2>3. today <= 0 => Len(arms[1].folds) = 0
    BY <2>1, NothingBeforeTheFirst
  <2>4. QED
    BY <1>1, <1>3, <2>2, <2>3
<1>4. ReportedInv'
  BY <1>1, <1>3 DEF ReportedInv, Walk!Aggregated, Walk!DayLeaks
<1>5. QED
  BY <1>2, <1>4 DEF WalkInv


LEMMA WalkMax ==
  ASSUME NEW x \in Int, NEW y \in Int
  PROVE  Walk!Max({x, y}) \in Int /\ x <= Walk!Max({x, y}) /\ y <= Walk!Max({x, y})
<1>1. \E m \in {x, y} : \A z \in {x, y} : m >= z
  <2>1. CASE x >= y
    BY <2>1
  <2>2. CASE ~(x >= y)
    BY <2>2
  <2>3. QED
    BY <2>1, <2>2
<1>2. Walk!Max({x, y}) \in {x, y} /\ \A z \in {x, y} : Walk!Max({x, y}) >= z
  BY <1>1 DEF Walk!Max
<1>3. QED
  BY <1>2

\* What a day that loads does to an arm, the files being as they were.
Remaining(a, d) == Walk!EmbargoSplit(Walk!DaySamples(d), Last(files[d]).time, embargoes[a])
NewFold(a) == Walk!FoldOf(arms[a], files[today + 1])
DayDone(a) ==
  /\ DOMAIN arms'[a] = DOMAIN arms[a]
  /\ arms'[a].samples = arms[a].samples \o Walk!Strided(arms[a].deferred \o Remaining(a, today + 1).body, Cap)
  /\ arms'[a].deferred = Remaining(a, today + 1).tail
  /\ arms'[a].folds = IF today > 0 /\ Walk!Sound(NewFold(a)) THEN Append(arms[a].folds, NewFold(a)) ELSE arms[a].folds

LEMMA DayDoes ==
  ASSUME WalkInv, Walk!Day
  PROVE  /\ today >= 0 /\ today < Len(files) /\ exit = -1 /\ UNCHANGED <<files, embargoes, reported>>
         /\ \/ exit' = 1 /\ UNCHANGED <<today, trainEnd, arms, violations>>
            \/ /\ files[today + 1] # None /\ files[today + 1] # <<>> /\ Walk!InOrder(files[today + 1])
               /\ DOMAIN arms' = DOMAIN arms /\ \A a \in DOMAIN arms : DayDone(a)
               /\ violations' = {} => violations = {} /\ (today > 0 => Walk!Sound(NewFold(1)))
               /\ trainEnd' = Walk!Max({trainEnd, Last(files[today + 1]).time})
               /\ today' = today + 1 /\ exit' = exit
<1>1. today >= 0 /\ today < Len(files) /\ exit = -1 /\ UNCHANGED <<files, embargoes, reported>>
  BY DEF Walk!Day
<1>2. CASE ~Walk!Loads(files[today + 1])
  BY <1>1, <1>2 DEF Walk!Day
<1>3. CASE Walk!Loads(files[today + 1])
  <2> DEFINE tapeNow == files[today + 1]
             soFar(a) == Walk!Calibrated(arms[a], Walk!DaySamples(today + 1), tapeNow, embargoes[a])
             folds(a) == IF today > 0 /\ Walk!Sound(NewFold(a)) THEN Append(arms[a].folds, NewFold(a)) ELSE arms[a].folds
  <2>1. /\ arms' = [a \in DOMAIN arms |-> [soFar(a) EXCEPT !.folds = folds(a)]]
        /\ violations' = violations \cup (IF today > 0 /\ ~Walk!Sound(NewFold(1)) THEN {today + 1} ELSE {})
        /\ trainEnd' = Walk!Max({trainEnd, Last(tapeNow).time})
        /\ today' = today + 1 /\ exit' = exit
    BY <1>3, Zenon DEF Walk!Day, NewFold, Last, Walk!Last
  <2>2. ASSUME NEW a \in DOMAIN arms PROVE DayDone(a)
    <3> DEFINE arm0 == arms[a]
               more == arms[a].samples \o Walk!Strided(arms[a].deferred \o Remaining(a, today + 1).body, Cap)
               rest == Remaining(a, today + 1).tail
    <3>1. DOMAIN arm0 = {"samples", "deferred", "folds"}
      BY DEF WalkInv, SamplesInv
    <3>2. soFar(a) = [arm0 EXCEPT !.samples = more, !.deferred = rest]
      BY DEF Walk!Calibrated, Remaining, Last, Walk!Last
    <3>3. arms'[a] = [soFar(a) EXCEPT !.folds = folds(a)]
      BY <2>1
    <3> HIDE DEF soFar, more, rest, arm0, folds
    <3>4. /\ DOMAIN soFar(a) = DOMAIN arm0
          /\ soFar(a).samples = more /\ soFar(a).deferred = rest
      BY <3>1, <3>2
    <3>5. /\ DOMAIN arms'[a] = DOMAIN arm0 /\ arms'[a].samples = more /\ arms'[a].deferred = rest
          /\ arms'[a].folds = folds(a)
      BY <3>1, <3>3, <3>4
    <3>6. QED
      BY <3>5 DEF DayDone, more, rest, arm0, folds
  <2>3. files[today + 1] # None /\ files[today + 1] # <<>> /\ Walk!InOrder(files[today + 1])
    BY <1>3 DEF Walk!Loads, Walk!Peeks
  <2>4. DOMAIN arms' = DOMAIN arms
    BY <2>1
  <2>5. violations' = {} => violations = {} /\ (today > 0 => Walk!Sound(NewFold(1)))
    BY <2>1
  <2>6. QED
    BY <1>1, <2>1, <2>2, <2>3, <2>4, <2>5, Zenon
<1>4. QED
  BY <1>2, <1>3


\* What was sampled before a day is out of the reach of its end.
LEMMA PastIsAllowed ==
  ASSUME NEW n \in Nat, \A d \in 1..n : SamplesAreOf(d), NEW a
  PROVE  /\ Walk!Allowed(a, n + 1) \subseteq Past(n) /\ Past(n) \subseteq Walk!Allowed(a, n + 2)
         /\ Past(n) \subseteq Past(n + 1)
<1>1. (n + 1) - 1 = n /\ (n + 2) - 1 = n + 1 /\ 1..n \subseteq 1..(n + 1)
  OBVIOUS
<1>2. Walk!Allowed(a, n + 1) \subseteq Past(n)
  BY <1>1 DEF Walk!Allowed, Past
<1>3. ASSUME NEW s \in Past(n) PROVE s \in Walk!Allowed(a, n + 2) /\ s \in Past(n + 1)
  <2>1. PICK d \in 1..n : s \in Walk!SamplesOf(d)
    BY DEF Past
  <2>2. s.day = d
    BY <2>1 DEF SamplesAreOf
  <2>3. d # n + 1 /\ d \in 1..(n + 1)
    OBVIOUS
  <2>4. ~Walk!OutOfReach(s, n + 2, embargoes[a])
    BY <1>1, <2>2, <2>3 DEF Walk!OutOfReach
  <2>5. QED
    BY <1>1, <2>1, <2>3, <2>4 DEF Walk!Allowed, Past
<1>4. QED
  BY <1>2, <1>3

\* Of the day itself, what is not near its end is allowed from the next day on.
LEMMA RestIsAllowed ==
  ASSUME NEW n \in Nat, SamplesAreOf(n + 1), NEW a, NEW s \in Walk!SamplesOf(n + 1)
  PROVE  /\ Walk!OutOfReach(s, n + 2, embargoes[a])
              <=> (embargoes[a] # 0 /\ s.time > Last(files[n + 1]).time - embargoes[a])
         /\ ~Walk!OutOfReach(s, n + 2, embargoes[a]) => s \in Walk!Allowed(a, n + 2)
<1>1. (n + 2) - 1 = n + 1 /\ n + 1 \in 1..(n + 1)
  OBVIOUS
<1>2. s.day = n + 1
  BY DEF SamplesAreOf
<1>3. Walk!OutOfReach(s, n + 2, embargoes[a])
        <=> (embargoes[a] # 0 /\ s.time > Last(files[n + 1]).time - embargoes[a])
  BY <1>1, <1>2 DEF Walk!OutOfReach, Last, Walk!Last
<1>4. ~Walk!OutOfReach(s, n + 2, embargoes[a]) => s \in Walk!Allowed(a, n + 2)
  BY <1>1 DEF Walk!Allowed
<1>5. QED
  BY <1>3, <1>4

\* What a day adds to the samples of an arm, and what it holds back.
LEMMA DayAdds ==
  ASSUME WalkInv, Walk!WalkAssumption, today >= 0, \A d \in 1..(today + 1) : SamplesAreOf(d),
         NEW a \in DOMAIN arms, DayDone(a)
  PROVE  /\ arms'[a].samples \in Seq(Walk!Allowed(a, today + 2))
         /\ arms'[a].deferred \in Seq(Past(today + 1))
         /\ FirstDayLeft(a) => arms'[a].samples # <<>>
<1> DEFINE ok == Walk!Allowed(a, today + 2)
           day == Walk!DaySamples(today + 1)
           end == Last(files[today + 1]).time
           e == embargoes[a]
           body == Remaining(a, today + 1).body
           tail == Remaining(a, today + 1).tail
           feed == arms[a].deferred \o body
           more == Walk!Strided(feed, Cap)
<1>1. today \in Nat /\ Cap \in Nat
  BY DEF WalkInv, DaysInv, Walk!WalkAssumption
<1>2. /\ arms[a].samples \in Seq(Walk!Allowed(a, today + 1)) /\ arms[a].deferred \in Seq(Past(today))
      /\ today >= 1 /\ FirstDayLeft(a) => arms[a].samples # <<>>
  BY DEF WalkInv, SamplesInv
<1>3. /\ today + 1 \in 1..(today + 1) /\ SamplesAreOf(today + 1)
      /\ \A d \in 1..today : SamplesAreOf(d)
  BY <1>1
<1>4. Walk!Allowed(a, today + 1) \subseteq Past(today) /\ Past(today) \subseteq ok
  BY <1>1, <1>3, PastIsAllowed
<1>5. arms[a].samples \in Seq(ok) /\ arms[a].deferred \in Seq(ok)
  BY <1>2, <1>4, SeqMonotonic
<1>6. /\ day \in Seq(Walk!SamplesOf(today + 1))
      /\ \A k \in 1..Len(day) : day[k] \in Walk!SamplesOf(today + 1)
  BY <1>3, ElementOfSeq DEF SamplesAreOf
<1>7. \A s \in Walk!SamplesOf(today + 1) :
        /\ Walk!OutOfReach(s, today + 2, e) <=> (e # 0 /\ s.time > end - e)
        /\ ~Walk!OutOfReach(s, today + 2, e) => s \in ok
  BY <1>1, <1>3, RestIsAllowed
<1> HIDE DEF day, end, e, ok
<1>8. \A k \in 1..Len(day) : ~(e # 0 /\ day[k].time > end - e) => day[k] \in ok
  BY <1>6, <1>7
<1>9. Remaining(a, today + 1) = Walk!EmbargoSplit(day, end, e)
  BY DEF Remaining, day, end, e
<1>10. /\ body \in Seq(ok) /\ tail \in Seq(Walk!SamplesOf(today + 1))
       /\ (\E k \in 1..Len(day) : ~(e # 0 /\ day[k].time > end - e)) => body # <<>>
  BY <1>6, <1>8, <1>9, SplitFits
<1> HIDE DEF body, tail
<1>11. feed \in Seq(ok) /\ Len(feed) = Len(arms[a].deferred) + Len(body)
  BY <1>5, <1>10, ConcatProperties
<1>12. more \in Seq(ok) /\ (feed # <<>> => more # <<>>)
  BY <1>1, <1>11, StridedFits
<1>13. arms'[a].samples = arms[a].samples \o more /\ arms'[a].deferred = tail
  BY DEF DayDone, more, feed, body, tail
<1> HIDE DEF feed, more
<1>14. arms'[a].samples \in Seq(ok) /\ Len(arms'[a].samples) = Len(arms[a].samples) + Len(more)
  BY <1>5, <1>12, <1>13, ConcatProperties
<1>15. arms'[a].deferred \in Seq(Past(today + 1))
  <2>1. Walk!SamplesOf(today + 1) \subseteq Past(today + 1)
    BY <1>3 DEF Past
  <2>2. QED
    BY <1>10, <1>13, <2>1, SeqMonotonic
<1>16. ASSUME FirstDayLeft(a) PROVE arms'[a].samples # <<>>
  <2>1. Len(arms[a].samples) \in Nat /\ Len(more) \in Nat /\ Len(arms[a].deferred) \in Nat /\ Len(body) \in Nat
    BY <1>5, <1>10, <1>12
  <2>2. CASE today >= 1
    <3>1. Len(arms[a].samples) # 0
      BY <1>2, <1>5, <1>16, <2>2, EmptySeq
    <3>2. QED
      BY <1>14, <2>1, <3>1, EmptySeq
  <2>3. CASE today = 0
    <3>1. PICK s \in Walk!SamplesOf(today + 1) : ~Walk!OutOfReach(s, today + 2, e)
      <4>1. today + 1 = 1 /\ today + 2 = 2
        BY <2>3
      <4>2. QED
        BY <1>16, <4>1 DEF FirstDayLeft, e
    <3>2. ~(e # 0 /\ s.time > end - e)
      BY <1>7, <3>1
    <3>3. PICK k \in 1..Len(day) : day[k] = s
      <4>1. DOMAIN day = 1..Len(day)
        BY <1>6
      <4>2. Walk!SamplesOf(today + 1) = {day[k] : k \in DOMAIN day}
        BY DEF Walk!SamplesOf, Walk!Range, day
      <4>3. QED
        BY <4>1, <4>2
    <3>4. body # <<>>
      BY <1>10, <3>2, <3>3
    <3>5. Len(body) # 0
      BY <1>10, <3>4, EmptySeq
    <3>6. feed # <<>>
      BY <1>11, <2>1, <3>5, EmptySeq
    <3>7. Len(more) # 0
      BY <1>12, <3>6, EmptySeq
    <3>8. QED
      BY <1>14, <2>1, <3>7, EmptySeq
  <2>4. QED
    BY <1>1, <2>2, <2>3
<1>17. QED
  BY <1>14, <1>15, <1>16 DEF ok


LEMMA DayJudged ==
  ASSUME WalkInv, Walk!WalkAssumption, Walk!Day
  PROVE  WalkInv'
<1>1. /\ today >= 0 /\ today < Len(files) /\ exit = -1 /\ UNCHANGED <<files, embargoes, reported>>
      /\ \/ exit' = 1 /\ UNCHANGED <<today, trainEnd, arms, violations>>
         \/ /\ files[today + 1] # None /\ files[today + 1] # <<>> /\ Walk!InOrder(files[today + 1])
            /\ DOMAIN arms' = DOMAIN arms /\ \A a \in DOMAIN arms : DayDone(a)
            /\ violations' = {} => violations = {} /\ (today > 0 => Walk!Sound(NewFold(1)))
            /\ trainEnd' = Walk!Max({trainEnd, Last(files[today + 1]).time})
            /\ today' = today + 1 /\ exit' = exit
  BY DayDoes
<1>2. CASE exit' = 1 /\ UNCHANGED <<today, trainEnd, arms, violations>>
  <2>1. DaysInv'
    <3>1. exit' \in Int
      BY <1>2
    <3>2. QED
      BY <1>1, <1>2, <3>1, Zenon DEF WalkInv, DaysInv
  <2>2. SamplesInv'
    BY <1>1, <1>2, SameDays DEF WalkInv, SamplesInv
  <2>3. FoldsInv'
    <3>1. today \in Int /\ today' = today /\ today <= today
      BY <1>2 DEF WalkInv, DaysInv
    <3>2. \A a, f : FoldOk(a, f) => FoldOk(a, f)'
      BY <1>1, <3>1, FoldStays
    <3>3. QED
      BY <1>2, <3>2 DEF WalkInv, FoldsInv
  <2>4. HeadlineInv'
    BY <1>1, <1>2, SameDays DEF WalkInv, HeadlineInv, FoldsFrom2
  <2>5. ReportedInv'
    BY <1>2 DEF ReportedInv
  <2>6. QED
    BY <2>1, <2>2, <2>3, <2>4, <2>5 DEF WalkInv
<1>3. CASE ~(exit' = 1 /\ UNCHANGED <<today, trainEnd, arms, violations>>)
  <2> DEFINE now == files[today + 1]
             fold(a) == NewFold(a)
  <2>0. /\ now # <<>> /\ Walk!InOrder(now)
        /\ DOMAIN arms' = DOMAIN arms /\ \A a \in DOMAIN arms : DayDone(a)
        /\ violations' = {} => violations = {} /\ (today > 0 => Walk!Sound(NewFold(1)))
        /\ trainEnd' = Walk!Max({trainEnd, Last(now).time})
        /\ today' = today + 1 /\ exit' = -1 /\ files' = files /\ embargoes' = embargoes
    BY <1>1, <1>3
  <2>1. /\ today \in Nat /\ Len(files) \in Nat /\ today + 1 \in 1..Len(files) /\ trainEnd \in Int
        /\ files \in Seq(Seq(Walk!Trade)) /\ embargoes \in Seq(Nat) \ {<<>>} /\ DOMAIN arms = DOMAIN embargoes
        /\ files \in Seq({None} \cup Seq(Walk!Trade))
    BY <1>1 DEF WalkInv, DaysInv
  <2>2. now \in Seq(Walk!Trade) /\ SamplesAreOf(today + 1)
    <3>1. now \in Seq(Walk!Trade)
      BY <2>1, ElementOfSeq
    <3>2. QED
      BY <2>0, <3>1, SamplesOfDay
  <2>3. Last(now).time \in Int /\ trainEnd' \in Int /\ trainEnd <= trainEnd' /\ Last(now).time <= trainEnd'
    <3>1. Last(now).time \in Int
      BY <2>0, <2>2, LastIsLatest
    <3>2. QED
      BY <2>0, <2>1, <3>1, WalkMax
  <2>s. \A d \in 1..(today + 1) : SamplesAreOf(d)
    <3>1. \A d \in 1..today : SamplesAreOf(d)
      BY DaysHaveSamples DEF WalkInv
    <3>2. \A d \in 1..(today + 1) : d \in 1..today \/ d = today + 1
      BY <2>1
    <3>3. QED
      BY <2>2, <3>1, <3>2
  <2>4. DaysInv'
    <3>1. ASSUME NEW d \in 1..(today + 1)
          PROVE  files[d] # <<>> /\ Walk!InOrder(files[d]) /\ Last(files[d]).time <= trainEnd'
      <4>1. CASE d = today + 1
        BY <2>0, <2>3, <4>1
      <4>2. CASE d # today + 1
        <5>1. d \in 1..today
          BY <2>1, <4>2
        <5>2. files[d] # <<>> /\ Walk!InOrder(files[d]) /\ Last(files[d]).time <= trainEnd
          BY <5>1 DEF WalkInv, DaysInv
        <5>3. files[d] \in Seq(Walk!Trade)
          <6>1. d \in 1..Len(files)
            BY <2>1, <5>1
          <6>2. QED
            BY <2>1, <6>1, ElementOfSeq
        <5>4. Last(files[d]).time \in Int
          BY <5>2, <5>3, LastIsLatest
        <5>5. QED
          BY <2>1, <2>3, <5>2, <5>4
      <4>3. QED
        BY <4>1, <4>2
    <3>2. today + 1 \in Int /\ -1 <= today + 1 /\ today + 1 <= Len(files) /\ -1 \in Int
      BY <2>1
    <3>3. \A d \in 1..today' : files'[d] # <<>> /\ Walk!InOrder(files'[d]) /\ Last(files'[d]).time <= trainEnd'
      BY <2>0, <3>1
    <3>4. QED
      BY <2>0, <2>1, <2>3, <3>2, <3>3 DEF DaysInv
  <2>5. SamplesInv'
    <3>1. ASSUME NEW a \in DOMAIN arms
          PROVE  /\ arms'[a].samples \in Seq(Walk!Allowed(a, today + 2))
                 /\ arms'[a].deferred \in Seq(Past(today + 1))
                 /\ FirstDayLeft(a) => arms'[a].samples # <<>>
      BY <1>1, <2>0, <2>s, DayAdds
    <3>2. today' + 1 = today + 2
      BY <2>0, <2>1
    <3>3. ASSUME NEW a PROVE /\ Walk!Allowed(a, today + 1)' = Walk!Allowed(a, today + 2)
                             /\ Past(today)' = Past(today + 1)
                             /\ FirstDayLeft(a)' = FirstDayLeft(a)
      BY <2>0, <3>2, SameDays
    <3>4. \A a \in DOMAIN arms : DOMAIN arms'[a] = {"samples", "deferred", "folds"}
      BY <2>0 DEF DayDone, WalkInv, SamplesInv
    <3>5. QED
      BY <2>0, <3>1, <3>3, <3>4 DEF SamplesInv
  <2>6. ASSUME NEW a \in DOMAIN arms
        PROVE  /\ fold(a).day = today + 1 /\ fold(a).samples = arms[a].samples
               /\ Walk!Sound(fold(a)) <=> trainEnd < now[1].time /\ arms[a].samples # <<>>
    BY DEF NewFold, Walk!FoldOf, Walk!Sound, Walk!Causal
  <2>7. ASSUME NEW i \in 1..today PROVE Last(files[i]).time \in Int /\ Last(files[i]).time <= trainEnd
    <3>1. files[i] # <<>> /\ Walk!InOrder(files[i]) /\ Last(files[i]).time <= trainEnd
      BY DEF WalkInv, DaysInv
    <3>2. i \in 1..Len(files)
      BY <2>1
    <3>3. files[i] \in Seq(Walk!Trade)
      BY <2>1, <3>2, ElementOfSeq
    <3>4. QED
      BY <3>1, <3>3, LastIsLatest
  <2>8. now[1].time \in Int
    <3>1. 1 \in 1..Len(now)
      BY <2>0, <2>2, EmptySeq
    <3>2. QED
      BY <2>2, <3>1, LastIsLatest, <2>0
  <2>9. FoldsInv'
    <3>1. ASSUME NEW a \in DOMAIN arms, today > 0, Walk!Sound(fold(a)), NEW f, f = fold(a)
          PROVE  FoldOk(a, f)'
      <4>0. f.day = today + 1 /\ f.samples = arms[a].samples /\ trainEnd < now[1].time
        BY <2>6, <3>1
      <4>1. f.day \in 2..today'
        BY <2>0, <2>1, <3>1, <4>0
      <4>2. arms[a].samples \in Seq(Walk!Allowed(a, today + 1))
        BY DEF WalkInv, SamplesInv
      <4>3. Walk!Range(arms[a].samples) \subseteq Walk!Allowed(a, today + 1)
        BY <4>2 DEF Walk!Range
      <4>4. ASSUME NEW s \in Walk!Allowed(a, today + 1) PROVE s.time < now[1].time
        <5>1. (today + 1) - 1 = today
          BY <2>1
        <5>2. PICK d \in 1..today : s \in Walk!SamplesOf(d)
          BY <5>1 DEF Walk!Allowed
        <5>3. d \in 1..(today + 1)
          BY <2>1
        <5>4. s.time \in Int /\ s.time <= Last(files[d]).time
          BY <2>s, <5>2, <5>3 DEF SamplesAreOf
        <5>5. Last(files[d]).time \in Int /\ Last(files[d]).time <= trainEnd
          BY <2>7
        <5>6. trainEnd \in Int
          BY <2>1
        <5> HIDE DEF now
        <5>7. QED
          BY ONLY <2>8, <4>0, <5>4, <5>5, <5>6
      <4>5. Walk!Allowed(a, f.day)' = Walk!Allowed(a, f.day)
        BY <2>0, SameDays
      <4>6. Walk!Range(f.samples) \subseteq Walk!Allowed(a, f.day)'
        BY <4>0, <4>3, <4>5
      <4>7. \A s \in Walk!Range(f.samples) : s.time < files'[f.day][1].time
        BY <2>0, <4>0, <4>3, <4>4
      <4>8. QED
        BY <4>1, <4>6, <4>7 DEF FoldOk
    <3>2. ASSUME NEW a, NEW f, FoldOk(a, f) PROVE FoldOk(a, f)'
      BY <2>0, <2>1, <3>2, FoldStays
    <3>3. ASSUME NEW a \in DOMAIN arms
          PROVE  /\ \E S : arms'[a].folds \in Seq(S)
                 /\ \A k \in 1..Len(arms'[a].folds) : \A f : f = arms'[a].folds[k] => FoldOk(a, f)'
      <4>1. PICK S : arms[a].folds \in Seq(S)
        BY DEF WalkInv, FoldsInv
      <4>2. \A k \in 1..Len(arms[a].folds) : FoldOk(a, arms[a].folds[k])
        BY DEF WalkInv, FoldsInv
      <4>3. CASE today > 0 /\ Walk!Sound(fold(a))
        <5>1. arms'[a].folds = Append(arms[a].folds, fold(a))
          BY <2>0, <4>3 DEF DayDone
        <5>0. \A f : f = fold(a) => FoldOk(a, f)'
          BY <3>1, <4>3
        <5> HIDE DEF fold
        <5>2. arms[a].folds \in Seq(S \cup {fold(a)}) /\ fold(a) \in S \cup {fold(a)}
          BY <4>1, SeqMonotonic
        <5>3. /\ Append(arms[a].folds, fold(a)) \in Seq(S \cup {fold(a)})
              /\ Len(Append(arms[a].folds, fold(a))) = Len(arms[a].folds) + 1
              /\ \A k \in 1..Len(arms[a].folds) : Append(arms[a].folds, fold(a))[k] = arms[a].folds[k]
              /\ Append(arms[a].folds, fold(a))[Len(arms[a].folds) + 1] = fold(a)
          BY <5>2, AppendProperties
        <5>4. Len(arms[a].folds) \in Nat
          BY <4>1
        <5>5. ASSUME NEW k \in 1..Len(arms'[a].folds), NEW f, f = arms'[a].folds[k] PROVE FoldOk(a, f)'
          <6>1. CASE k = Len(arms[a].folds) + 1
            <7>1. f = fold(a)
              BY <5>1, <5>3, <5>5, <6>1
            <7>2. QED
              BY <5>0, <7>1
          <6>2. CASE k # Len(arms[a].folds) + 1
            <7>1. k \in 1..Len(arms[a].folds)
              BY <5>1, <5>3, <5>4, <6>2
            <7>2. f = arms[a].folds[k] /\ FoldOk(a, arms[a].folds[k])
              BY <4>2, <5>1, <5>3, <5>5, <7>1
            <7>3. QED
              BY <3>2, <7>2
          <6>3. QED
            BY <6>1, <6>2
        <5>6. QED
          BY <5>1, <5>3, <5>5
      <4>4. CASE ~(today > 0 /\ Walk!Sound(fold(a)))
        <5>1. arms'[a].folds = arms[a].folds
          BY <2>0, <4>4 DEF DayDone
        <5>2. \A k \in 1..Len(arms[a].folds) : \A f : f = arms[a].folds[k] => FoldOk(a, f)'
          BY <3>2, <4>2
        <5>3. QED
          BY <4>1, <5>1, <5>2
      <4>5. QED
        BY <4>3, <4>4
    <3>4. QED
      BY <2>0, <3>3 DEF FoldsInv, FoldOk
  <2>10. HeadlineInv'
    <3> SUFFICES ASSUME violations' = {}
                 PROVE  /\ \A i, j \in 1..today' : i < j => Last(files'[i]).time < files'[j][1].time
                        /\ \A a \in DOMAIN arms' : today' >= 1 /\ (a = 1 \/ FirstDayLeft(a)') => FoldsFrom2(a)'
      BY DEF HeadlineInv
    <3>1. /\ today > 0 => Walk!Sound(fold(1))
          /\ \A i, j \in 1..today : i < j => Last(files[i]).time < files[j][1].time
          /\ \A a \in DOMAIN arms : today >= 1 /\ (a = 1 \/ FirstDayLeft(a)) => FoldsFrom2(a)
      BY <2>0 DEF WalkInv, HeadlineInv
    <3>2. 1 \in DOMAIN arms
      BY <2>1, EmptySeq
    <3>3. today > 0 => trainEnd < now[1].time /\ arms[1].samples # <<>>
      BY <2>6, <3>1, <3>2
    <3>4. ASSUME NEW i \in 1..(today + 1), NEW j \in 1..(today + 1), i < j
          PROVE  Last(files[i]).time < files[j][1].time
      <4>1. i \in 1..today /\ today > 0 /\ (j \in 1..today \/ j = today + 1)
        BY <2>1, <3>4
      <4>2. CASE j \in 1..today
        <5>1. \A l, m \in 1..today : l < m => Last(files[l]).time < files[m][1].time
          BY <3>1
        <5>2. QED
          BY ONLY <3>4, <4>1, <4>2, <5>1
      <4>3. CASE j = today + 1
        BY <2>1, <2>7, <2>8, <3>3, <4>1, <4>3
      <4>4. QED
        BY <4>1, <4>2, <4>3
    <3>5. ASSUME NEW a \in DOMAIN arms, a = 1 \/ FirstDayLeft(a)
          PROVE  Len(arms'[a].folds) = today /\ \A k \in 1..Len(arms'[a].folds) : arms'[a].folds[k].day = k + 1
      <4>0. PICK S : arms[a].folds \in Seq(S)
        BY DEF WalkInv, FoldsInv
      <4>1. CASE today = 0
        <5>0. today <= 0 /\ ~(today > 0)
          BY <4>1
        <5>1. arms'[a].folds = arms[a].folds /\ Len(arms[a].folds) = 0
          <6>1. arms'[a].folds = arms[a].folds
            BY <2>0, <5>0 DEF DayDone
          <6>2. QED
            BY <5>0, <6>1, NothingBeforeTheFirst
        <5>2. QED
          BY <4>1, <5>1
      <4>2. CASE today > 0
        <5>1. Walk!Sound(fold(a))
          <6>1. arms[a].samples # <<>>
            BY <2>1, <3>3, <3>5, <4>2 DEF WalkInv, SamplesInv
          <6>2. QED
            BY <2>6, <3>3, <4>2, <6>1
        <5>2. arms'[a].folds = Append(arms[a].folds, fold(a)) /\ fold(a).day = today + 1
          BY <2>0, <2>6, <4>2, <5>1 DEF DayDone
        <5>3. Len(arms[a].folds) = today - 1 /\ \A k \in 1..Len(arms[a].folds) : arms[a].folds[k].day = k + 1
          BY <2>1, <3>1, <3>5, <4>2 DEF FoldsFrom2
        <5> HIDE DEF fold
        <5>4. arms[a].folds \in Seq(S \cup {fold(a)}) /\ fold(a) \in S \cup {fold(a)}
          BY <4>0, SeqMonotonic
        <5>5. /\ Len(Append(arms[a].folds, fold(a))) = Len(arms[a].folds) + 1
              /\ \A k \in 1..Len(arms[a].folds) : Append(arms[a].folds, fold(a))[k] = arms[a].folds[k]
              /\ Append(arms[a].folds, fold(a))[Len(arms[a].folds) + 1] = fold(a)
          BY <5>4, AppendProperties
        <5>6. Len(arms'[a].folds) = today
          BY <2>1, <5>2, <5>3, <5>5
        <5>7. ASSUME NEW k \in 1..today PROVE arms'[a].folds[k].day = k + 1
          <6>1. k \in 1..Len(arms[a].folds) \/ k = Len(arms[a].folds) + 1
            BY <2>1, <5>3
          <6>2. CASE k \in 1..Len(arms[a].folds)
            BY <5>2, <5>3, <5>5, <6>2
          <6>3. CASE k = Len(arms[a].folds) + 1
            <7>1. k = today
              BY <2>1, <5>3, <6>3
            <7>2. arms'[a].folds[k] = fold(a)
              BY <5>2, <5>5, <6>3
            <7>3. QED
              BY <5>2, <7>1, <7>2
          <6>4. QED
            BY <6>1, <6>2, <6>3
        <5>8. QED
          BY <5>6, <5>7
      <4>3. QED
        BY <2>1, <4>1, <4>2
    <3>6. \A a : FirstDayLeft(a)' = FirstDayLeft(a)
      BY <2>0, SameDays
    <3>7. today' - 1 = today
      BY <2>0, <2>1
    <3>8. \A a \in DOMAIN arms' : today' >= 1 /\ (a = 1 \/ FirstDayLeft(a)') => FoldsFrom2(a)'
      BY <2>0, <3>5, <3>6, <3>7 DEF FoldsFrom2
    <3>9. QED
      BY <2>0, <3>4, <3>8
  <2>11. ReportedInv'
    BY <2>0 DEF ReportedInv
  <2>12. QED
    BY <2>4, <2>5, <2>9, <2>10, <2>11 DEF WalkInv
<1>4. QED
  BY <1>2, <1>3


LEMMA WalkInvImplies == ASSUME WalkInv PROVE Walk!NothingFromTheFuture
<1> DEFINE folds(a) == arms[a].folds
<1>1. ASSUME NEW a \in DOMAIN arms PROVE DOMAIN folds(a) = 1..Len(folds(a)) /\ Len(folds(a)) \in Nat
  BY DEF WalkInv, FoldsInv
<1>2. ASSUME NEW a \in DOMAIN arms, NEW k \in DOMAIN folds(a)
      PROVE  /\ Walk!Range(folds(a)[k].samples) \subseteq Walk!Allowed(a, folds(a)[k].day)
             /\ \A s \in Walk!Range(folds(a)[k].samples) : s.time < files[folds(a)[k].day][1].time
  <2>1. FoldOk(a, folds(a)[k])
    BY <1>1 DEF WalkInv, FoldsInv
  <2>2. QED
    BY <2>1 DEF FoldOk
<1>3. ASSUME exit = 0
      PROVE  /\ reported.headline = 2..Len(files) /\ reported.clean = {d \in 2..Len(files) : ~Walk!DayLeaks(d)}
             /\ \A i, j \in DOMAIN files : i < j => Last(files[i]).time < files[j][1].time
             /\ \A a \in DOMAIN arms : a = 1 \/ FirstDayLeft(a) =>
                  [k \in DOMAIN folds(a) |-> folds(a)[k].day] = [k \in 1..(Len(files) - 1) |-> k + 1]
  <2>1. /\ today = Len(files) /\ today >= 1 /\ violations = {} /\ reported = Walk!Aggregated(folds(1))
        /\ DOMAIN files = 1..Len(files) /\ today \in Nat /\ 1 \in DOMAIN arms
    BY <1>3, EmptySeq DEF WalkInv, ReportedInv, DaysInv
  <2>2. /\ \A i, j \in 1..today : i < j => Last(files[i]).time < files[j][1].time
        /\ \A a \in DOMAIN arms : a = 1 \/ FirstDayLeft(a) => FoldsFrom2(a)
    BY <2>1 DEF WalkInv, HeadlineInv
  <2>3. ASSUME NEW a \in DOMAIN arms, a = 1 \/ FirstDayLeft(a)
        PROVE  DOMAIN folds(a) = 1..(today - 1) /\ \A k \in 1..(today - 1) : folds(a)[k].day = k + 1
    BY <1>1, <2>2, <2>3 DEF FoldsFrom2
  <2>4. DOMAIN folds(1) = 1..(today - 1) /\ \A k \in 1..(today - 1) : folds(1)[k].day = k + 1
    BY <2>1, <2>3
  <2> DEFINE all == Walk!Range(folds(1))
  <2>5. all = {folds(1)[k] : k \in 1..(today - 1)}
    BY <2>4 DEF Walk!Range
  <2>6. \A d \in 2..today : d - 1 \in 1..(today - 1) /\ (d - 1) + 1 = d
    BY <2>1
  <2>7. \A k \in 1..(today - 1) : k + 1 \in 2..today
    BY <2>1
  <2>8. ASSUME NEW d \in 2..today PROVE \E f \in all : f.day = d
    <3>1. folds(1)[d - 1] \in all /\ folds(1)[d - 1].day = d
      BY <2>4, <2>5, <2>6
    <3>2. QED
      BY <3>1
  <2>9. \A f \in all : f.day \in 2..today
    BY <2>4, <2>5, <2>7
  <2>10. /\ reported.headline = {f.day : f \in all}
         /\ reported.clean = {f.day : f \in {g \in all : ~Walk!DayLeaks(g.day)}}
    BY <2>1 DEF Walk!Aggregated
  <2> HIDE DEF all
  <2>11. reported.headline = 2..today
    BY <2>8, <2>9, <2>10
  <2>12. reported.clean = {d \in 2..today : ~Walk!DayLeaks(d)}
    BY <2>8, <2>9, <2>10
  <2>13. ASSUME NEW a \in DOMAIN arms, a = 1 \/ FirstDayLeft(a)
         PROVE  [k \in DOMAIN folds(a) |-> folds(a)[k].day] = [k \in 1..(Len(files) - 1) |-> k + 1]
    BY <2>1, <2>3, <2>13
  <2>14. QED
    BY <2>1, <2>2, <2>11, <2>12, <2>13
<1>4. QED
  BY <1>2, <1>3, Zenon DEF Walk!NothingFromTheFuture, FirstDayLeft, Last, Walk!Last

\* A walk-forward's numbers come from its past: every sample behind a threshold closed
\* before the day it judges, and none lies within the embargo of the day before; and a run
\* that reports has a fold for every day but the first, over days that do not overlap.
THEOREM ThePastAlone ==
  ASSUME Walk!TapeAssumption, Walk!WalkAssumption
  PROVE  Walk!Spec => []NothingFromTheFuture
<1>1. Walk!Init => WalkInv
  BY WalkStarts
<1>2. WalkInv /\ [Walk!Next]_(Walk!vars) => WalkInv'
  <2> SUFFICES ASSUME WalkInv, [Walk!Next]_(Walk!vars) PROVE WalkInv'
    OBVIOUS
  <2>1. CASE Walk!Start
    BY <2>1, StartSorts
  <2>2. CASE Walk!Day
    BY <2>2, DayJudged
  <2>3. CASE Walk!Judge
    BY <2>3, VerdictKeeps
  <2>4. CASE UNCHANGED Walk!vars
    <3>1. UNCHANGED <<files, embargoes, today, trainEnd, arms, violations, reported, exit>>
      BY <2>4 DEF Walk!vars
    <3>2. DaysInv'
      BY <3>1, Zenon DEF WalkInv, DaysInv
    <3>3. SamplesInv'
      BY <3>1, SameDays DEF WalkInv, SamplesInv
    <3>4. FoldsInv'
      <4>1. today \in Int /\ today' = today /\ today <= today
        BY <3>1 DEF WalkInv, DaysInv
      <4>2. \A a, f : FoldOk(a, f) => FoldOk(a, f)'
        BY <3>1, <4>1, FoldStays
      <4>3. QED
        BY <3>1, <4>2 DEF WalkInv, FoldsInv
    <3>5. HeadlineInv'
      BY <3>1, SameDays DEF WalkInv, HeadlineInv, FoldsFrom2
    <3>6. ReportedInv'
      BY <3>1 DEF WalkInv, ReportedInv, Walk!Aggregated, Walk!DayLeaks
    <3>7. QED
      BY <3>2, <3>3, <3>4, <3>5, <3>6 DEF WalkInv
  <2>5. QED
    BY <2>1, <2>2, <2>3, <2>4 DEF Walk!Next
<1>3. WalkInv => NothingFromTheFuture
  BY WalkInvImplies DEF NothingFromTheFuture
<1>4. QED
  BY <1>1, <1>2, <1>3, PTL DEF Walk!Spec
===============================================================================
