------------------------------ MODULE Lanes_proofs ------------------------------
(***************************************************************************)
(* Proofs about Lanes: what the fast lane acts on is live whatever the     *)
(* two lanes interleave to, its advice only ever moves on, and no          *)
(* observation and no age is left out of the counts.  And about the        *)
(* pipeline tool: what it decides is what a lane without delay would, the  *)
(* views of its book agree (TickToTrade), its schedule keeps the tape's,   *)
(* and the latencies it reports are honest (StageTimes).                   *)
(***************************************************************************)
EXTENDS MCLanes, Lemmas, SequenceTheorems, FiniteSetTheorems, TLAPS

\* An observation the fast lane may have made: if it was made in the current
\* generation of the context, then not before that generation began.
Seen(x) ==
  /\ x.time <= obs.time
  /\ x.generation <= obs.generation
  /\ x.generation = obs.generation => generationSince <= x.time

\* An advisory drawn from such an observation, unless there is none.
Drawn(a) ==
  /\ a.stance = "None" => a = NoAdvice
  /\ a.stance # "None" =>
       /\ a.issued <= obs.time
       /\ a.generation <= obs.generation
       /\ a.generation = obs.generation => generationSince <= a.issued
       /\ a.until = a.issued + TTL

Known ==
  /\ generationSince <= obs.time
  /\ Seen(newest) /\ \A i \in 1..Len(queue) : Seen(queue[i])
  /\ Drawn(slot) /\ Drawn(sampled) /\ Drawn(cached)

Judged ==
  inForce # NoAdvice =>
    /\ Drawn(inForce)
    /\ IsValidAt(inForce, obs.time, obs.generation) /\ IsFreshAt(inForce, obs.time)

\* b is no older than a, and there is a b if there is an a.
NoOlder(a, b) == a.stance # "None" => b.stance # "None" /\ a.issued <= b.issued

\* Along the way of an advisory: cache, sample, slot, slow lane, queue.
Ordered ==
  /\ NoOlder(cached, sampled) /\ NoOlder(sampled, slot)
  /\ slot.stance # "None" => slot.issued <= newest.time
  /\ \A i \in 1..Len(queue) : newest.time <= queue[i].time
  /\ \A i, j \in 1..Len(queue) : i <= j => queue[i].time <= queue[j].time

\* The sequence number of the newest observation accepted.
Accepted == IF queue = <<>> THEN newest.sequence ELSE queue[Len(queue)].sequence

Drains ==
  /\ backlog <= Accepted /\ Accepted <= obs.sequence
  /\ spc = "decide" => backlog <= newest.sequence

IInv ==
  /\ TypeOK /\ Known /\ Judged /\ Ordered /\ Drains
  /\ ObservationsAccounted /\ EveryAgeOffered

LEMMA NoAdviceIsAdvice ==
  ASSUME BoundAssumption
  PROVE  NoAdvice \in Advice /\ NoAdvice.stance = "None"
BY DEF NoAdvice, Advice, Times, BoundAssumption

-------------------------------------------------------------------------------
LEMMA DifferenceIsNat ==
  ASSUME NEW a \in Nat, NEW b \in Nat, b > a PROVE b - a \in Nat
OBVIOUS

LEMMA QueueEnds ==
  ASSUME TypeOK, queue # <<>>
  PROVE  /\ Len(queue) \in 1..Len(queue) /\ (Len(queue) = 1 \/ Len(queue) > 1)
         /\ Head(queue) = queue[1] /\ queue[1] \in Observation
         /\ queue[Len(queue)] \in Observation
<1>1. queue \in Seq(Observation) /\ Len(queue) \in Nat
  BY DEF TypeOK
<1>2. Len(queue) # 0
  BY <1>1, EmptySeq
<1>3. QED
  BY <1>1, <1>2

LEMMA AcceptedIsNumber == ASSUME TypeOK PROVE Accepted \in 0..MaxEvents
<1>1. CASE queue = <<>>
  BY <1>1 DEF Accepted, TypeOK, Observation
<1>2. CASE queue # <<>>
  BY <1>2, QueueEnds DEF Accepted, Observation
<1>3. QED
  BY <1>1, <1>2

LEMMA TypesStart == ASSUME SizeAssumption, BoundAssumption PROVE Init => TypeOK
<1> SUFFICES ASSUME Init PROVE TypeOK
  OBVIOUS
<1>1. obs \in Observation /\ newest \in Observation
  BY DEF Init, Observation, Times, BoundAssumption
<1>2. sampled \in Advice /\ cached \in Advice /\ inForce \in Advice /\ slot \in Advice
  BY NoAdviceIsAdvice DEF Init
<1>3. queue \in Seq(Observation) /\ Len(queue) = 0 /\ published \in Seq(Times)
  BY DEF Init
<1>4. cadence \in [last : Times, haveLast : BOOLEAN, violations : Nat, publishes : Nat]
  BY DEF Init, Times
<1>5. Len(queue) <= Capacity /\ folded \in 0..Window /\ calib \in 0..CalibrationN /\ backlog \in 0..MaxEvents
  BY <1>3 DEF Init, SizeAssumption, BoundAssumption
<1>6. QED
  BY <1>1, <1>2, <1>3, <1>4, <1>5 DEF Init, TypeOK, Times

LEMMA Starts == ASSUME SizeAssumption, BoundAssumption PROVE Init => IInv
<1> SUFFICES ASSUME Init PROVE IInv
  OBVIOUS
<1>1. /\ Len(queue) = 0
      /\ newest = [time |-> 0, generation |-> 0, sequence |-> 0] /\ obs = newest
  BY DEF Init
<1>2. Known
  BY <1>1, NoAdviceIsAdvice DEF Init, Known, Seen, Drawn
<1>3. Judged /\ Ordered
  BY <1>1, NoAdviceIsAdvice DEF Init, Judged, Ordered, NoOlder
<1>4. Drains
  BY <1>1 DEF Init, Drains, Accepted
<1>5. ObservationsAccounted /\ EveryAgeOffered
  BY <1>1 DEF Init, ObservationsAccounted, EveryAgeOffered
<1>6. QED
  BY <1>2, <1>3, <1>4, <1>5, TypesStart DEF IInv

-------------------------------------------------------------------------------
(* The steps of the fast lane.                                             *)

LEMMA ArriveKeeps ==
  ASSUME SizeAssumption, TimeAssumption, BoundAssumption, IInv,
         NEW d \in Steps, NEW g \in {obs.generation, obs.generation + 1},
         g <= MaxGeneration, Arrive(d, g)
  PROVE  IInv'
<1>1. /\ fpc = "event" /\ fpc' = "push" /\ obs.sequence < MaxEvents
      /\ obs' = [time |-> obs.time + d, generation |-> g, sequence |-> obs.sequence + 1]
      /\ generationSince' = IF g > obs.generation THEN obs.time + d ELSE generationSince
      /\ inForce' = NoAdvice /\ offered' = offered + 1
      /\ sampled' = sampled /\ sampledAt' = sampledAt /\ cached' = cached
      /\ staleReads' = staleReads /\ callsBlind' = callsBlind /\ countVars' = countVars
      /\ queue' = queue /\ dropped' = dropped /\ consumed' = consumed
      /\ slot' = slot /\ stop' = stop
      /\ spc' = spc /\ got' = got /\ newest' = newest /\ folded' = folded
      /\ calibVars' = calibVars /\ cadence' = cadence /\ published' = published
      /\ backlog' = backlog
  BY DEF Arrive, slowVars, publishVars
<1>2. /\ d \in Nat /\ g \in 0..MaxGeneration /\ obs.time \in Nat /\ obs.sequence \in 0..MaxEvents
      /\ obs.generation \in 0..MaxGeneration /\ generationSince \in Nat
  BY DEF IInv, TypeOK, Observation, Times, TimeAssumption, BoundAssumption
<1>3. obs' \in Observation /\ generationSince' \in Nat
  BY <1>1, <1>2 DEF Observation, Times, BoundAssumption
<1>4. /\ obs'.time >= obs.time /\ obs'.generation >= obs.generation /\ obs'.sequence = obs.sequence + 1
      /\ generationSince' <= obs'.time
      /\ obs'.generation = obs.generation => generationSince' = generationSince
  BY <1>1, <1>2 DEF IInv, Known
<1>5. TypeOK'
  BY <1>1, <1>3, NoAdviceIsAdvice DEF IInv, TypeOK, Times, countVars, calibVars
<1>6. Known'
  <2>1. ASSUME NEW x \in Observation, Seen(x) PROVE x.time <= obs'.time /\ x.generation <= obs'.generation
           /\ (x.generation = obs'.generation => generationSince' <= x.time)
    BY <1>2, <1>3, <1>4, <2>1 DEF Seen, Observation, Times
  <2>2. newest \in Observation /\ \A i \in 1..Len(queue) : queue[i] \in Observation
    BY SMTT(60) DEF IInv, TypeOK
  <2>3. Seen(newest)' /\ \A i \in 1..Len(queue)' : Seen(queue[i])'
    BY <1>1, <2>1, <2>2 DEF IInv, Known, Seen
  <2>4. ASSUME NEW a \in Advice, Drawn(a), a.stance # "None"
        PROVE  /\ a.issued <= obs'.time /\ a.generation <= obs'.generation
               /\ a.generation = obs'.generation => generationSince' <= a.issued
    BY <1>2, <1>3, <1>4, <2>4 DEF Drawn, Advice, Observation, Times
  <2>5. Drawn(slot)' /\ Drawn(sampled)' /\ Drawn(cached)'
    BY <1>1, <2>4 DEF IInv, TypeOK, Known, Drawn
  <2>6. QED
    BY <1>4, <2>3, <2>5 DEF Known
<1>7. Judged'
  BY <1>1 DEF Judged
<1>8. Ordered'
  BY <1>1 DEF IInv, Ordered, NoOlder
<1>9. Drains'
  <2>1. Accepted' = Accepted /\ Accepted \in Int
    BY <1>1, AcceptedIsNumber DEF IInv, Accepted
  <2>2. QED
    BY <1>1, <1>2, <1>4, <2>1 DEF IInv, Drains
<1>10. ObservationsAccounted' /\ EveryAgeOffered'
  BY <1>1 DEF IInv, TypeOK, ObservationsAccounted, EveryAgeOffered, Calls, countVars
<1>11. QED
  BY <1>5, <1>6, <1>7, <1>8, <1>9, <1>10 DEF IInv

LEMMA PushKeeps ==
  ASSUME SizeAssumption, BoundAssumption, IInv, Push
  PROVE  IInv'
<1>1. /\ fpc = "push" /\ fpc' \in {"advise", "drop"}
      /\ \/ Len(queue) < Capacity /\ queue' = Append(queue, obs) /\ fpc' = "advise"
         \/ queue' = queue /\ fpc' = "drop"
      /\ obs' = obs /\ generationSince' = generationSince
      /\ sampled' = sampled /\ sampledAt' = sampledAt /\ cached' = cached /\ inForce' = inForce
      /\ staleReads' = staleReads /\ countVars' = countVars /\ callsBlind' = callsBlind
      /\ offered' = offered /\ dropped' = dropped /\ consumed' = consumed
      /\ slot' = slot /\ stop' = stop
      /\ spc' = spc /\ got' = got /\ newest' = newest /\ folded' = folded
      /\ calibVars' = calibVars /\ cadence' = cadence /\ published' = published
      /\ backlog' = backlog
  BY DEF Push, tapeVars, viewVars, slowVars, publishVars
<1>2. queue \in Seq(Observation) /\ Len(queue) \in Nat /\ obs \in Observation /\ newest \in Observation
      /\ Capacity \in Nat /\ Len(queue) <= Capacity
  BY DEF IInv, TypeOK, SizeAssumption
<1>3. CASE queue' = queue
  <2>1. TypeOK' /\ Known' /\ Judged' /\ Ordered'
    BY <1>1, <1>3 DEF IInv, TypeOK, countVars, calibVars, Known, Seen, Drawn, Judged, IsValidAt,
                       IsFreshAt, AgeAt, Ordered, NoOlder
  <2>2. Drains' /\ ObservationsAccounted' /\ EveryAgeOffered'
    BY <1>1, <1>3 DEF IInv, Drains, Accepted, ObservationsAccounted, EveryAgeOffered, Calls, countVars
  <2>3. QED
    BY <2>1, <2>2 DEF IInv
<1>4. CASE Len(queue) < Capacity /\ queue' = Append(queue, obs) /\ fpc' = "advise"
  <2>1. /\ queue' \in Seq(Observation) /\ Len(queue') = Len(queue) + 1
        /\ queue'[Len(queue) + 1] = obs
        /\ \A i \in 1..Len(queue) : queue'[i] = queue[i]
    BY <1>2, <1>4
  <2>2. TypeOK'
    BY <1>1, <1>2, <1>4, <2>1 DEF IInv, TypeOK, countVars, calibVars
  <2>3. Seen(obs) /\ newest.time <= obs.time /\ \A i \in 1..Len(queue) : queue[i].time <= obs.time
    BY SMTT(60), <1>2 DEF IInv, Known, Seen, Observation, Times
  <2>4. Known'
    <3>1. \A i \in 1..Len(queue') : Seen(queue'[i])
      BY <1>2, <2>1, <2>3 DEF IInv, Known
    <3>2. QED
      BY <1>1, <3>1 DEF IInv, Known, Seen, Drawn
  <2>5. Judged'
    BY <1>1 DEF IInv, Judged, Drawn, IsValidAt, IsFreshAt, AgeAt
  <2>6. Ordered'
    <3>1. \A i \in 1..Len(queue') : newest.time <= queue'[i].time
      BY <1>2, <2>1, <2>3 DEF IInv, Ordered
    <3>2. ASSUME NEW i \in 1..Len(queue'), NEW j \in 1..Len(queue'), i <= j
          PROVE  queue'[i].time <= queue'[j].time
      <4>1. CASE j \in 1..Len(queue)
        BY <1>2, <2>1, <3>2, <4>1 DEF IInv, Ordered
      <4>2. CASE j = Len(queue) + 1 /\ i \in 1..Len(queue)
        BY <2>1, <2>3, <4>2
      <4>3. CASE j = Len(queue) + 1 /\ i = j
        BY <1>2, <2>1, <4>3 DEF Observation, Times
      <4>4. QED
        BY <1>2, <2>1, <3>2, <4>1, <4>2, <4>3
    <3>3. QED
      BY <1>1, <3>1, <3>2 DEF IInv, Ordered, NoOlder
  <2>7. Drains'
    <3>1. queue' # <<>> /\ Accepted' = obs.sequence
      BY <1>2, <2>1 DEF Accepted
    <3>2. QED
      BY <1>1, <1>2, <3>1, AcceptedIsNumber DEF IInv, TypeOK, Drains, Observation
  <2>8. ObservationsAccounted' /\ EveryAgeOffered'
    BY <1>1, <1>2, <1>4, <2>1 DEF IInv, TypeOK, ObservationsAccounted, EveryAgeOffered, Calls, countVars
  <2>9. QED
    BY <2>2, <2>4, <2>5, <2>6, <2>7, <2>8 DEF IInv
<1>5. QED
  BY <1>1, <1>3, <1>4

\* What no other step of the fast lane touches.
TapeKept ==
  /\ obs' = obs /\ generationSince' = generationSince
  /\ queue' = queue /\ offered' = offered /\ consumed' = consumed
  /\ slot' = slot
  /\ spc' = spc /\ got' = got /\ newest' = newest /\ folded' = folded
  /\ calibVars' = calibVars /\ cadence' = cadence /\ published' = published /\ backlog' = backlog

LEMMA ControlKeeps ==
  ASSUME IInv, CountDrop \/ EndOfTape \/ Join
  PROVE  IInv'
<1>1. /\ TapeKept
      /\ sampled' = sampled /\ sampledAt' = sampledAt /\ cached' = cached /\ inForce' = inForce
      /\ staleReads' = staleReads /\ countVars' = countVars /\ callsBlind' = callsBlind
      /\ \/ fpc = "drop" /\ fpc' = "advise" /\ dropped' = dropped + 1 /\ stop' = stop
         \/ fpc = "event" /\ fpc' = "join" /\ dropped' = dropped /\ stop' = TRUE
         \/ fpc = "join" /\ fpc' = "joined" /\ dropped' = dropped /\ stop' = stop
  BY DEF CountDrop, EndOfTape, Join, TapeKept, tapeVars, viewVars, slowVars, publishVars, bridgeVars
<1>2. TypeOK'
  <2>1. stop' \in BOOLEAN /\ fpc' \in {"advise", "join", "joined"}
    BY <1>1 DEF IInv, TypeOK
  <2>2. dropped' \in Nat
    BY <1>1 DEF IInv, TypeOK
  <2>3. QED
    BY <1>1, <2>1, <2>2 DEF IInv, TypeOK, TapeKept, countVars, calibVars
<1>3. Known' /\ Judged' /\ Ordered' /\ Drains'
  BY <1>1 DEF IInv, TapeKept, Known, Seen, Drawn, Judged, IsValidAt, IsFreshAt, AgeAt,
              Ordered, NoOlder, Drains, Accepted
<1>4. ObservationsAccounted'
  <2>1. Len(queue) \in Nat /\ dropped \in Nat /\ offered \in Nat /\ consumed \in Nat
    BY DEF IInv, TypeOK
  <2>2. CASE fpc = "drop"
    BY <1>1, <2>1, <2>2 DEF IInv, TapeKept, ObservationsAccounted
  <2>3. CASE fpc # "drop"
    BY <1>1, <2>1, <2>3 DEF IInv, TapeKept, ObservationsAccounted
  <2>4. QED
    BY <2>2, <2>3
<1>5. EveryAgeOffered'
  BY <1>1 DEF IInv, EveryAgeOffered, Calls, countVars
<1>6. QED
  BY <1>2, <1>3, <1>4, <1>5 DEF IInv

LEMMA SampleKeeps ==
  ASSUME IInv, Sample
  PROVE  IInv'
<1>1. /\ TapeKept
      /\ sampled' = slot /\ sampledAt' = cadence.publishes /\ cached' = cached /\ inForce' = inForce
      /\ staleReads' = staleReads /\ countVars' = countVars /\ callsBlind' = callsBlind
      /\ fpc = "advise" /\ fpc' = "read" /\ dropped' = dropped /\ stop' = stop
  BY DEF Sample, TapeKept, tapeVars, slowVars, publishVars, bridgeVars
<1>2. TypeOK'
  BY <1>1 DEF IInv, TypeOK, TapeKept, countVars, calibVars
<1>3. Known' /\ Judged' /\ Drains'
  BY <1>1 DEF IInv, TapeKept, Known, Seen, Drawn, Judged, IsValidAt, IsFreshAt, AgeAt, Drains, Accepted
<1>4. NoOlder(cached, slot) /\ NoOlder(slot, slot)
  <2>1. NoOlder(cached, sampled) /\ NoOlder(sampled, slot)
    BY DEF IInv, Ordered
  <2>2. cached.issued \in Int /\ sampled.issued \in Int /\ slot.issued \in Int
    BY DEF IInv, TypeOK, Advice, Times
  <2>3. QED
    BY <2>1, <2>2 DEF NoOlder
<1>5. Ordered'
  BY <1>1, <1>4 DEF IInv, TapeKept, Ordered, NoOlder
<1>6. ObservationsAccounted' /\ EveryAgeOffered'
  BY <1>1 DEF IInv, TypeOK, TapeKept, ObservationsAccounted, EveryAgeOffered, Calls, countVars
<1>7. QED
  BY <1>2, <1>3, <1>5, <1>6 DEF IInv

\* What AdviseFresh and AdviseCached make of the advice they judge.
LEMMA JudgeKeeps ==
  ASSUME TimeAssumption, BoundAssumption, IInv, NEW a \in Advice, Drawn(a), Judge(a),
         obs' = obs, generationSince' = generationSince
  PROVE  /\ rejected' \in Nat /\ rejectedStale' \in Nat
         /\ offeredAges' \in Nat /\ actedAges' \in Nat /\ inForce' \in Advice
         /\ Judged'
         /\ offeredAges' = offeredAges + (IF a.stance # "None" THEN 1 ELSE 0)
         /\ actedAges' + rejected' + rejectedStale' = Calls + 1
<1> DEFINE valid == IsValidAt(a, obs.time, obs.generation)
           act   == valid /\ IsFreshAt(a, obs.time)
<1>1. /\ offeredAges' = offeredAges + (IF a.stance # "None" THEN 1 ELSE 0)
      /\ rejected' = rejected + (IF valid THEN 0 ELSE 1)
      /\ rejectedStale' = rejectedStale + (IF valid /\ ~act THEN 1 ELSE 0)
      /\ actedAges' = actedAges + (IF act THEN 1 ELSE 0)
      /\ inForce' = IF act THEN a ELSE NoAdvice
  BY DEF Judge
<1>2. /\ rejected \in Nat /\ rejectedStale \in Nat /\ offeredAges \in Nat /\ actedAges \in Nat
  BY DEF IInv, TypeOK
<1>3. Judged'
  <2>1. CASE act
    BY <1>1, <2>1 DEF Judged, Drawn, IsValidAt, IsFreshAt, AgeAt
  <2>2. CASE ~act
    BY <1>1, <2>2 DEF Judged
  <2>3. QED
    BY <2>1, <2>2
<1>4. inForce' \in Advice
  BY <1>1, NoAdviceIsAdvice
<1> HIDE DEF valid, act
<1>5. act => valid
  BY DEF act
<1>6. QED
  BY <1>1, <1>2, <1>3, <1>4, <1>5 DEF Calls

LEMMA AdviseKeeps ==
  ASSUME TimeAssumption, BoundAssumption, IInv, AdviseFresh \/ AdviseCached
  PROVE  IInv'
<1>1. /\ TapeKept
      /\ sampled' = sampled /\ sampledAt' = sampledAt
      /\ fpc = "read" /\ fpc' = "event" /\ dropped' = dropped /\ stop' = stop
  BY DEF AdviseFresh, AdviseCached, TapeKept, tapeVars, slowVars, publishVars, bridgeVars
<1>2. Known' <=> /\ generationSince <= obs.time
                 /\ Seen(newest) /\ \A i \in 1..Len(queue) : Seen(queue[i])
                 /\ Drawn(slot) /\ Drawn(sampled) /\ Drawn(cached')
  BY <1>1 DEF TapeKept, Known, Seen, Drawn
<1>3. Ordered' <=> /\ NoOlder(cached', sampled) /\ NoOlder(sampled, slot)
                   /\ slot.stance # "None" => slot.issued <= newest.time
                   /\ \A i \in 1..Len(queue) : newest.time <= queue[i].time
                   /\ \A i, j \in 1..Len(queue) : i <= j => queue[i].time <= queue[j].time
  BY <1>1 DEF TapeKept, Ordered, NoOlder
<1>4. Drains' /\ ObservationsAccounted'
  BY <1>1 DEF IInv, TypeOK, TapeKept, Drains, Accepted, ObservationsAccounted
<1>5. ASSUME NEW a \in Advice, Drawn(a), Judge(a), cached' \in Advice, Drawn(cached'),
             NoOlder(cached', sampled), staleReads' \in Nat, callsBlind' \in Nat
      PROVE  TypeOK' /\ Known' /\ Ordered' /\ Judged'
  <2>1. /\ rejected' \in Nat /\ rejectedStale' \in Nat
        /\ offeredAges' \in Nat /\ actedAges' \in Nat /\ inForce' \in Advice /\ Judged'
    BY <1>1, <1>5, JudgeKeeps DEF TapeKept
  <2>2. TypeOK'
    BY <1>1, <1>5, <2>1 DEF IInv, TypeOK, TapeKept, calibVars
  <2>3. Known' /\ Ordered'
    BY <1>2, <1>3, <1>5 DEF IInv, Known, Ordered
  <2>4. QED
    BY <2>1, <2>2, <2>3
<1>6. CASE AdviseFresh
  <2>1. /\ sampled # NoAdvice /\ cached' = sampled /\ Judge(sampled) /\ staleReads' = staleReads
        /\ callsBlind' = IF cached = NoAdvice THEN Calls ELSE callsBlind
    BY <1>6 DEF AdviseFresh, Calls
  <2>2. sampled \in Advice /\ Drawn(sampled) /\ sampled.stance # "None" /\ NoOlder(sampled, sampled)
    BY <2>1 DEF IInv, TypeOK, Known, Drawn, NoOlder, Advice, Times
  <2>3. staleReads' \in Nat /\ callsBlind' \in Nat /\ Calls \in Nat
    BY <2>1 DEF IInv, TypeOK, Calls
  <2>4. /\ offeredAges' = offeredAges + 1
        /\ actedAges' + rejected' + rejectedStale' = Calls + 1
    BY <1>1, <2>1, <2>2, JudgeKeeps DEF TapeKept
  <2>5. EveryAgeOffered'
    <3>1. offeredAges' = (Calls + 1) - callsBlind'
      BY <2>1, <2>3, <2>4 DEF IInv, TypeOK, EveryAgeOffered
    <3>2. QED
      BY <2>1, <2>4, <3>1 DEF EveryAgeOffered, Calls
  <2>6. TypeOK' /\ Known' /\ Ordered' /\ Judged'
    BY <1>5, <2>1, <2>2, <2>3
  <2>7. QED
    BY <1>4, <2>5, <2>6 DEF IInv
<1>7. CASE AdviseCached
  <2>1. cached' = cached /\ Judge(cached) /\ staleReads' = staleReads + 1 /\ callsBlind' = callsBlind
    BY <1>7 DEF AdviseCached
  <2>2. /\ cached \in Advice /\ Drawn(cached) /\ NoOlder(cached, sampled)
        /\ staleReads' \in Nat /\ callsBlind' \in Nat /\ Calls \in Nat
    BY <2>1 DEF IInv, TypeOK, Known, Ordered, Calls
  <2>3. /\ offeredAges' = offeredAges + (IF cached.stance # "None" THEN 1 ELSE 0)
        /\ actedAges' + rejected' + rejectedStale' = Calls + 1
    BY <1>1, <2>1, <2>2, JudgeKeeps DEF TapeKept
  <2>4. EveryAgeOffered'
    <3>1. CASE cached = NoAdvice
      BY <2>1, <2>3, <3>1, NoAdviceIsAdvice DEF IInv, EveryAgeOffered
    <3>2. CASE cached # NoAdvice
      <4>1. cached.stance # "None" /\ offeredAges = Calls - callsBlind
        BY <2>2, <3>2 DEF IInv, Drawn, EveryAgeOffered
      <4>2. offeredAges' = (Calls + 1) - callsBlind'
        BY <2>1, <2>2, <2>3, <4>1
      <4>3. QED
        BY <2>1, <2>3, <3>2, <4>2 DEF EveryAgeOffered, Calls
    <3>3. QED
      BY <3>1, <3>2
  <2>5. TypeOK' /\ Known' /\ Ordered' /\ Judged'
    BY <1>5, <2>1, <2>2
  <2>6. QED
    BY <1>4, <2>4, <2>5 DEF IInv
<1>8. QED
  BY <1>6, <1>7

-------------------------------------------------------------------------------
(* The steps of the slow lane.                                             *)

\* What it does not touch.
FastKept ==
  /\ fpc' = fpc /\ obs' = obs /\ generationSince' = generationSince
  /\ sampled' = sampled /\ sampledAt' = sampledAt /\ cached' = cached /\ inForce' = inForce
  /\ staleReads' = staleReads /\ countVars' = countVars /\ callsBlind' = callsBlind
  /\ offered' = offered /\ dropped' = dropped /\ stop' = stop

LEMMA FastStaysJudged ==
  ASSUME IInv, FastKept PROVE Judged' /\ EveryAgeOffered'
BY DEF IInv, FastKept, Judged, Drawn, IsValidAt, IsFreshAt, AgeAt, EveryAgeOffered, Calls, countVars

LEMMA LoopKeeps ==
  ASSUME SizeAssumption, IInv, TestStop \/ Drained \/ Calibrate \/ FoldOne
  PROVE  IInv'
<1>1. /\ FastKept /\ queue' = queue /\ slot' = slot /\ newest' = newest
      /\ cadence' = cadence /\ published' = published /\ backlog' = backlog
  BY DEF TestStop, Drained, Calibrate, FoldOne, FastKept, fastVars, tapeVars, viewVars,
         bridgeVars, publishVars
<1>2. newest \in Observation /\ folded \in 0..Window /\ calib \in 0..CalibrationN
      /\ calibFirst \in Times /\ calibLast \in Times /\ consumed \in Nat
      /\ Window \in Nat \ {0} /\ CalibrationN \in Nat \ {0} /\ newest.time \in Times
  BY DEF IInv, TypeOK, Observation, SizeAssumption
<1>3. /\ folded' \in 0..Window /\ calib' \in 0..CalibrationN
      /\ calibFirst' \in Times /\ calibLast' \in Times /\ consumed' \in Nat
  BY <1>2 DEF TestStop, Drained, Calibrate, FoldOne, calibVars, bridgeVars
<1>4. got' \in BOOLEAN /\ spc' \in {"outer", "poll", "count", "decide", "done"}
  BY DEF IInv, TypeOK, TestStop, Drained, Calibrate, FoldOne
<1>5. TypeOK'
  BY <1>1, <1>3, <1>4 DEF IInv, TypeOK, FastKept, countVars
<1>6. Known' /\ Ordered'
  BY <1>1 DEF IInv, FastKept, Known, Seen, Drawn, Ordered, NoOlder
<1>7. Drains'
  <2>1. Accepted' = Accepted
    BY <1>1 DEF Accepted
  <2>2. spc' = "decide" => queue = <<>>
    BY DEF TestStop, Drained, Calibrate, FoldOne
  <2>3. queue = <<>> => Accepted = newest.sequence
    BY DEF Accepted
  <2>4. QED
    BY <1>1, <2>1, <2>2, <2>3 DEF IInv, FastKept, Drains
<1>8. ObservationsAccounted'
  <2>1. /\ \/ spc = "count" /\ spc' # "count" /\ consumed' = consumed + 1
           \/ spc # "count" /\ spc' # "count" /\ consumed' = consumed
    BY DEF TestStop, Drained, Calibrate, FoldOne, bridgeVars
  <2>2. Len(queue) \in Nat /\ offered \in Nat /\ dropped \in Nat
    BY DEF IInv, TypeOK
  <2>3. QED
    BY <1>1, <1>2, <2>1, <2>2 DEF IInv, FastKept, ObservationsAccounted
<1>9. QED
  BY <1>1, <1>5, <1>6, <1>7, <1>8, FastStaysJudged DEF IInv

LEMMA PollKeeps ==
  ASSUME SizeAssumption, IInv, PollOne
  PROVE  IInv'
<1>1. /\ FastKept /\ slot' = slot /\ queue # <<>> /\ newest' = Head(queue) /\ queue' = Tail(queue)
      /\ spc = "poll" /\ spc' = "count" /\ consumed' = consumed /\ got' = got /\ folded' = folded
      /\ calibVars' = calibVars /\ cadence' = cadence /\ published' = published /\ backlog' = backlog
  BY DEF PollOne, FastKept, fastVars, tapeVars, viewVars, publishVars
<1>2. /\ queue \in Seq(Observation) /\ Len(queue) \in Nat
      /\ Len(queue) \in 1..Len(queue) /\ newest' = queue[1] /\ newest' \in Observation
  BY <1>1, QueueEnds DEF IInv, TypeOK
<1>3. /\ queue' \in Seq(Observation) /\ Len(queue') = Len(queue) - 1
      /\ \A i \in 1..Len(queue') : queue'[i] = queue[i + 1]
  BY <1>1, <1>2, HeadTailProperties
<1>4. \A i \in 1..Len(queue') : i + 1 \in 1..Len(queue)
  BY <1>2, <1>3
<1>5. TypeOK'
  <2>1. Len(queue') <= Capacity
    BY <1>2, <1>3 DEF IInv, TypeOK, SizeAssumption
  <2>2. QED
    BY <1>1, <1>2, <1>3, <2>1 DEF IInv, TypeOK, FastKept, countVars, calibVars
<1>6. Known'
  <2>1. Seen(newest') /\ \A i \in 1..Len(queue') : Seen(queue'[i])
    BY <1>2, <1>3, <1>4 DEF IInv, Known
  <2>2. QED
    BY <1>1, <2>1 DEF IInv, FastKept, Known, Seen, Drawn
<1>7. Ordered'
  <2>1. newest.time <= newest'.time /\ \A i \in 1..Len(queue') : newest'.time <= queue'[i].time
    BY <1>2, <1>3, <1>4 DEF IInv, Ordered
  <2>2. ASSUME NEW i \in 1..Len(queue'), NEW j \in 1..Len(queue'), i <= j
        PROVE  queue'[i].time <= queue'[j].time
    BY <1>3, <1>4, <2>2 DEF IInv, Ordered
  <2>3. slot.stance # "None" => slot.issued <= newest'.time
    <3>1. newest.time \in Int /\ slot.issued \in Int
      BY DEF IInv, TypeOK, Observation, Advice, Times
    <3>2. newest'.time \in Int
      BY <1>2 DEF Observation, Times
    <3>3. slot.stance # "None" => slot.issued <= newest.time
      BY DEF IInv, Ordered
    <3>4. QED
      BY <2>1, <3>1, <3>2, <3>3
  <2>4. QED
    BY <1>1, <2>1, <2>2, <2>3 DEF IInv, FastKept, Ordered, NoOlder
<1>8. Drains'
  <2>1. Accepted' = Accepted
    <3>1. CASE Len(queue) = 1
      <4>1. Len(queue') = 0
        BY <1>3, <3>1
      <4>2. queue' = <<>>
        BY <1>3, <4>1, EmptySeq
      <4>3. QED
        BY <1>1, <1>2, <3>1, <4>2 DEF Accepted
    <3>2. CASE Len(queue) > 1
      <4>1. Len(queue') > 0 /\ Len(queue') \in 1..Len(queue') /\ Len(queue') + 1 = Len(queue)
        BY <1>2, <1>3, <3>2
      <4>2. queue' # <<>>
        BY <4>1
      <4>3. queue'[Len(queue')] = queue[Len(queue)]
        BY <1>3, <4>1
      <4>4. QED
        BY <1>1, <4>2, <4>3 DEF Accepted
    <3>3. Len(queue) = 1 \/ Len(queue) > 1
      BY <1>1, QueueEnds DEF IInv
    <3>4. QED
      BY <3>1, <3>2, <3>3
  <2>2. QED
    BY <1>1, <2>1 DEF IInv, FastKept, Drains
<1>9. ObservationsAccounted'
  <2>1. offered \in Nat /\ dropped \in Nat /\ consumed \in Nat
    BY DEF IInv, TypeOK
  <2>2. QED
    BY <1>1, <1>2, <1>3, <2>1 DEF IInv, FastKept, ObservationsAccounted
<1>10. QED
  BY <1>1, <1>5, <1>6, <1>7, <1>8, <1>9, FastStaysJudged DEF IInv

LEMMA PublishKeeps ==
  ASSUME TimeAssumption, SizeAssumption, IInv, Publish
  PROVE  IInv' /\ slot'.stance # "None"
<1>1. /\ FastKept /\ queue' = queue /\ newest' = newest /\ spc = "decide" /\ spc' = "outer"
      /\ consumed' = consumed /\ got' = got /\ folded' = folded
      /\ published' = Append(published, newest.time) /\ backlog' = Accepted
  BY DEF Publish, FastKept, fastVars, tapeVars, viewVars, bridgeVars, Accepted
<1>2. /\ newest \in Observation /\ newest.time \in Nat /\ newest.generation \in 0..MaxGeneration
      /\ calib \in 0..CalibrationN /\ calibFirst \in Nat /\ calibLast \in Nat
      /\ CalibrationN \in Nat \ {0} /\ TTL \in Nat /\ Horizon \in Nat
  BY DEF IInv, TypeOK, Observation, Times, TimeAssumption, SizeAssumption
<1>3. calib' \in 0..CalibrationN /\ calibFirst' \in Nat /\ calibLast' \in Nat
  BY <1>2 DEF Publish, calibVars
<1>4. /\ slot'.stance = "Risk" /\ slot'.issued = newest.time /\ slot'.until = newest.time + TTL
      /\ slot'.generation = newest.generation /\ slot' \in Advice
  <2> DEFINE h == IF ParameterMode /\ calibLast' > calibFirst' THEN calibLast' - calibFirst' ELSE Horizon
  <2>1. slot' = [stance |-> "Risk", issued |-> newest.time, until |-> newest.time + TTL,
                 generation |-> newest.generation, horizon |-> h]
    BY DEF Publish
  <2>2. calibLast' > calibFirst' => calibLast' - calibFirst' \in Nat
    <3>1. calibFirst' \in Nat /\ calibLast' \in Nat
      BY <1>3
    <3>2. QED
      BY <3>1, DifferenceIsNat
  <2>3. h \in Nat
    <3>1. CASE ParameterMode /\ calibLast' > calibFirst'
      BY <2>2, <3>1
    <3>2. CASE ~(ParameterMode /\ calibLast' > calibFirst')
      BY <1>2, <3>2
    <3>3. QED
      BY <3>1, <3>2
  <2> HIDE DEF h
  <2>4. QED
    BY <1>2, <2>1, <2>3 DEF Advice, Times
<1>5. cadence' \in [last : Times, haveLast : BOOLEAN, violations : Nat, publishes : Nat]
  <2>1. cadence.violations \in Nat /\ cadence.publishes \in Nat
    BY DEF IInv, TypeOK
  <2>2. QED
    BY <1>2, <2>1 DEF Publish, ObservePublish, Times
<1>6. published' \in Seq(Times)
  BY <1>1, <1>2 DEF IInv, TypeOK, Times
<1>7. TypeOK'
  BY <1>1, <1>3, <1>4, <1>5, <1>6, AcceptedIsNumber DEF IInv, TypeOK, FastKept, countVars, Times
<1>8. Known'
  <2>1. Drawn(slot')
    BY <1>4 DEF IInv, Known, Seen, Drawn
  <2>2. QED
    BY <1>1, <2>1 DEF IInv, FastKept, Known, Seen, Drawn
<1>9. Ordered'
  <2>1. NoOlder(sampled, slot')
    <3>1. sampled.issued \in Int /\ slot.issued \in Int
      BY DEF IInv, TypeOK, Advice, Times
    <3>2. NoOlder(sampled, slot) /\ (slot.stance # "None" => slot.issued <= newest.time)
      BY DEF IInv, Ordered
    <3>3. QED
      BY <1>2, <1>4, <3>1, <3>2 DEF NoOlder
  <2>2. slot'.issued <= newest.time
    BY <1>2, <1>4
  <2>3. QED
    BY <1>1, <2>1, <2>2 DEF IInv, FastKept, Ordered, NoOlder
<1>10. Drains'
  <2>1. Accepted' = Accepted /\ Accepted \in Int
    BY <1>1, AcceptedIsNumber DEF IInv, Accepted
  <2>2. QED
    BY <1>1, <2>1 DEF IInv, FastKept, Drains
<1>11. ObservationsAccounted'
  BY <1>1 DEF IInv, FastKept, ObservationsAccounted
<1>12. QED
  BY <1>1, <1>4, <1>7, <1>8, <1>9, <1>10, <1>11, FastStaysJudged DEF IInv

-------------------------------------------------------------------------------
LEMMA StepKeeps ==
  ASSUME SizeAssumption, TimeAssumption, BoundAssumption, IInv, [Next]_vars
  PROVE  IInv'
<1>1. ASSUME NEW d \in Steps, Arrive(d, obs.generation) PROVE IInv'
  <2>1. obs.generation \in {obs.generation, obs.generation + 1} /\ obs.generation <= MaxGeneration
    BY DEF IInv, TypeOK, Observation, BoundAssumption
  <2>2. QED
    BY <1>1, <2>1, ArriveKeeps
<1>2. ASSUME NEW d \in Steps, obs.generation < MaxGeneration, Arrive(d, obs.generation + 1) PROVE IInv'
  <2>1. obs.generation + 1 \in {obs.generation, obs.generation + 1} /\ obs.generation + 1 <= MaxGeneration
    BY <1>2 DEF IInv, TypeOK, Observation, BoundAssumption
  <2>2. QED
    BY <1>2, <2>1, ArriveKeeps
<1>3. CASE UNCHANGED vars
  <2>1. /\ FastKept /\ queue' = queue /\ slot' = slot /\ newest' = newest /\ spc' = spc
        /\ consumed' = consumed /\ got' = got /\ folded' = folded /\ calibVars' = calibVars
        /\ cadence' = cadence /\ published' = published /\ backlog' = backlog
    BY <1>3 DEF vars, FastKept, fastVars, tapeVars, viewVars, slowVars, publishVars, bridgeVars
  <2>2. TypeOK' /\ Known' /\ Ordered'
    BY <2>1 DEF IInv, TypeOK, FastKept, countVars, calibVars, Known, Seen, Drawn, Ordered, NoOlder
  <2>3. Drains' /\ ObservationsAccounted'
    BY <2>1 DEF IInv, FastKept, Drains, Accepted, ObservationsAccounted
  <2>4. QED
    BY <2>1, <2>2, <2>3, FastStaysJudged DEF IInv
<1>4. CASE Push \/ CountDrop \/ Sample \/ AdviseFresh \/ AdviseCached \/ EndOfTape \/ Join
  BY <1>4, PushKeeps, ControlKeeps, SampleKeeps, AdviseKeeps
<1>5. CASE Slow
  BY <1>5, LoopKeeps, PollKeeps, PublishKeeps DEF Slow
<1>6. QED
  BY <1>1, <1>2, <1>3, <1>4, <1>5 DEF Next, Fast, FastStep

LEMMA Invariance ==
  ASSUME SizeAssumption, TimeAssumption, BoundAssumption PROVE Spec => []IInv
<1>1. Init => IInv
  BY Starts
<1>2. IInv /\ [Next]_vars => IInv'
  BY StepKeeps
<1>3. QED
  BY <1>1, <1>2, PTL DEF Spec

(* An order is sized only by advice that is live: drawn from an event the  *)
(* fast lane saw since its context was last invalidated, within the        *)
(* lifetime and within the tolerated part of the horizon.                  *)
THEOREM AdviceIsLive ==
  ASSUME SizeAssumption, TimeAssumption, BoundAssumption PROVE Spec => []ActsOnLiveAdvice
<1>1. IInv => ActsOnLiveAdvice
  <2> SUFFICES ASSUME IInv, inForce # NoAdvice
      PROVE  /\ generationSince <= inForce.issued /\ inForce.issued <= obs.time
             /\ obs.time < inForce.issued + TTL
             /\ MaxAgePercent > 0 /\ inForce.horizon > 0 =>
                  100 * (obs.time - inForce.issued) <= MaxAgePercent * inForce.horizon
    BY DEF IInv, ActsOnLiveAdvice
  <2>1. /\ inForce.issued \in Nat /\ inForce.horizon \in Nat /\ obs.time \in Nat
        /\ MaxAgePercent \in Nat /\ TTL \in Nat
    BY DEF IInv, TypeOK, Advice, Observation, Times, TimeAssumption
  <2>2. /\ Drawn(inForce)
        /\ inForce.stance # "None" /\ inForce.until > obs.time /\ inForce.generation = obs.generation
        /\ IsFreshAt(inForce, obs.time)
    BY DEF IInv, Judged, IsValidAt
  <2>3. /\ generationSince <= inForce.issued /\ inForce.issued <= obs.time
        /\ obs.time < inForce.issued + TTL
    BY <2>1, <2>2 DEF Drawn
  <2>4. ASSUME MaxAgePercent > 0, inForce.horizon > 0
        PROVE  100 * (obs.time - inForce.issued) <= MaxAgePercent * inForce.horizon
    <3> DEFINE span == inForce.horizon * MaxAgePercent
    <3>1. obs.time - inForce.issued <= span \div 100
      BY <2>1, <2>2, <2>3, <2>4 DEF IsFreshAt, AgeAt, MaxAgeNs
    <3>2. span \in Nat /\ span = MaxAgePercent * inForce.horizon
      BY <2>1
    <3> HIDE DEF span
    <3>3. QED
      BY <2>1, <3>1, <3>2
  <2>5. QED
    BY <2>3, <2>4
<1>2. QED
  BY <1>1, Invariance, PTL

-------------------------------------------------------------------------------
(* The cadence: what observe_publish() remembers is the last advisory, so  *)
(* its count is that of the gaps, however many there were.                 *)

CadenceKept ==
  /\ cadence.haveLast <=> published # <<>>
  /\ published # <<>> => cadence.last = published[Len(published)]
  /\ CadenceExact

LEMMA CadenceStarts == Init => CadenceKept
<1> SUFFICES ASSUME Init PROVE CadenceKept
  OBVIOUS
<1>1. published = <<>> /\ cadence.haveLast = FALSE /\ cadence.violations = 0
  BY DEF Init
<1>2. LateGaps = {}
  BY <1>1 DEF LateGaps
<1>3. QED
  BY <1>1, <1>2, FS_EmptySet DEF CadenceKept, CadenceExact

LEMMA PublishCounts ==
  ASSUME TimeAssumption, TypeOK, CadenceKept, Publish PROVE CadenceKept'
<1> DEFINE n == Len(published)
           t == newest.time
           late == BudgetNs > 0 /\ n > 0 /\ t - published[n] > BudgetNs
<1>1. /\ cadence' = ObservePublish(t) /\ published' = Append(published, t)
      /\ BudgetNs \in Nat /\ t \in Nat /\ published \in Seq(Nat) /\ n \in Nat
      /\ cadence.violations \in Nat /\ cadence.last \in Nat
  BY DEF Publish, TypeOK, Observation, Times, TimeAssumption
<1>2. /\ cadence'.haveLast /\ cadence'.last = t
      /\ cadence'.violations = cadence.violations + (IF late THEN 1 ELSE 0)
  <2>1. cadence.haveLast <=> n > 0
    BY <1>1 DEF CadenceKept
  <2>2. n > 0 => cadence.last = published[n]
    BY <1>1 DEF CadenceKept
  <2>3. QED
    BY <1>1, <2>1, <2>2 DEF ObservePublish
<1>3. /\ published' # <<>> /\ Len(published') = n + 1 /\ published'[n + 1] = t
      /\ \A i \in 1..n : published'[i] = published[i]
  BY <1>1
<1>4. ASSUME BudgetNs > 0 PROVE cadence'.violations = Cardinality(LateGaps')
  <2>1. LateGaps' = (IF late THEN LateGaps \cup {n} ELSE LateGaps)
    <3>1. LateGaps' = {i \in 1..n : published'[i+1] - published'[i] > BudgetNs}
      BY <1>1, <1>3 DEF LateGaps
    <3>2. \A i \in 1..(n-1) : published'[i+1] = published[i+1] /\ published'[i] = published[i]
      BY <1>1, <1>3
    <3>3. n > 0 => published'[n+1] - published'[n] = t - published[n]
      BY <1>1, <1>3
    <3>4. \A i \in 1..n : i \in LateGaps' <=> i \in LateGaps \/ (late /\ i = n)
      BY <1>1, <1>4, <3>1, <3>2, <3>3 DEF LateGaps
    <3>5. LateGaps \subseteq 1..n /\ LateGaps' \subseteq 1..n /\ (late => n \in 1..n)
      BY <1>1, <3>1 DEF LateGaps
    <3> HIDE DEF late, n
    <3>6. QED
      BY <3>4, <3>5
  <2>2. IsFiniteSet(LateGaps) /\ n \notin LateGaps
    <3>1. LateGaps \subseteq 1..(n-1) /\ n \notin 1..(n-1) /\ 1 \in Int /\ n-1 \in Int
      BY <1>1 DEF LateGaps
    <3>2. IsFiniteSet(1..(n-1))
      BY <3>1, FS_Interval
    <3>3. QED
      BY <3>1, <3>2, FS_Subset
  <2>3. Cardinality(LateGaps') = Cardinality(LateGaps) + (IF late THEN 1 ELSE 0)
    <3>1. Cardinality(LateGaps \cup {n}) = Cardinality(LateGaps) + 1
      BY <2>2, FS_AddElement
    <3>2. Cardinality(LateGaps) \in Nat
      BY <2>2, FS_CardinalityType
    <3>3. QED
      BY <2>1, <3>1, <3>2
  <2>4. QED
    BY <1>2, <1>4, <2>3 DEF CadenceKept, CadenceExact
<1>5. QED
  BY <1>2, <1>3, <1>4 DEF CadenceKept, CadenceExact

LEMMA CadenceStep ==
  ASSUME TimeAssumption, TypeOK, CadenceKept, [Next]_vars PROVE CadenceKept'
<1>1. CASE Publish
  BY <1>1, PublishCounts
<1>2. CASE ~Publish
  <2>1. cadence' = cadence /\ published' = published
    BY <1>2 DEF Next, Fast, FastStep, Slow, Arrive, Push, CountDrop, Sample, AdviseFresh, AdviseCached,
           EndOfTape, Join, TestStop, PollOne, FoldOne, Drained, Calibrate, vars, slowVars, publishVars
  <2>2. QED
    BY <2>1 DEF CadenceKept, CadenceExact, LateGaps
<1>3. QED
  BY <1>1, <1>2

(* Every observation offered is dropped, consumed, queued or about to be   *)
(* counted, every call since the first advisory recorded an age, and the   *)
(* violations counted are the gaps over the budget between one advisory    *)
(* and the next.                                                           *)
THEOREM NothingUncounted ==
  ASSUME SizeAssumption, TimeAssumption, BoundAssumption PROVE Spec => []MeasurementsExact
<1>1. Init => IInv /\ CadenceKept
  BY Starts, CadenceStarts
<1>2. IInv /\ CadenceKept /\ [Next]_vars => IInv' /\ CadenceKept'
  BY StepKeeps, CadenceStep DEF IInv
<1>3. IInv /\ CadenceKept => MeasurementsExact
  BY DEF IInv, CadenceKept, MeasurementsExact
<1>4. QED
  BY <1>1, <1>2, <1>3, PTL DEF Spec

(* The advice in the cache is only ever replaced by advice no older, and   *)
(* each advisory accounts for all that waited when the last was published. *)
THEOREM AdviceOnlyMovesOn ==
  ASSUME SizeAssumption, TimeAssumption, BoundAssumption PROVE Spec => AdviceMovesOn
<1>1. IInv /\ [Next]_vars =>
        [/\ cached.stance # "None" => cached'.stance # "None" /\ cached'.issued >= cached.issued
         /\ Publish => newest.sequence >= backlog]_vars
  <2> SUFFICES ASSUME IInv, Next
               PROVE  /\ cached.stance # "None" =>
                           cached'.stance # "None" /\ cached'.issued >= cached.issued
                      /\ Publish => newest.sequence >= backlog
    OBVIOUS
  <2>1. Publish => newest.sequence >= backlog
    BY DEF IInv, Publish, Drains, TypeOK, Observation
  <2>2. cached' = cached \/ cached' = sampled
    BY DEF Next, Fast, FastStep, Slow, Arrive, Push, CountDrop, Sample, AdviseFresh, AdviseCached,
           EndOfTape, Join, TestStop, PollOne, FoldOne, Drained, Calibrate, Publish, fastVars, viewVars
  <2>3. /\ NoOlder(cached, sampled)
        /\ cached.issued \in Int /\ sampled.issued \in Int
    BY DEF IInv, TypeOK, Ordered, Advice, Times
  <2>4. QED
    BY <2>1, <2>2, <2>3 DEF NoOlder
<1>2. QED
  BY <1>1, Invariance, PTL DEF Spec, AdviceMovesOn

-------------------------------------------------------------------------------
(* The decisions of the pipeline tool.                                     *)

\* The trades that the window of the pipeline has taken in, in this pass.
Fed == IF pFpc = "advise" THEN tick - 1 ELSE tick

\* The tape is read in the first pass, and read again in the others.
TapeInv ==
  /\ pFpc \in {"tick", "advise", "join", "joined"}
  /\ tape \in Seq(Trades) /\ pass \in Nat \ {0} /\ tick \in Nat
  /\ pass = 1 => Len(tape) = tick
  /\ pass # 1 => Len(tape) = Ticks /\ tick <= Ticks
  /\ pFpc = "advise" => tick > 0

\* The window is the last of the trades taken in.
WindowInv ==
  /\ flow \in Seq(Int)
  /\ Len(flow) = IF Fed < Window THEN Fed ELSE Window
  /\ \A i \in 1..Len(flow) : flow[i] = Pipe!Flow(tape[Fed - Len(flow) + i])

Recent == LET before == SubSeq(tape, 1, tick - 1) IN SubSeq(before, tick - Window, tick - 1)
IdealNet == Pipe!NetFlow([i \in DOMAIN Recent |-> Pipe!Flow(Recent[i])])
IdealRiskOff == tick > Window /\ Pipe!Magnitude(IdealNet) > warnAbove
DecidedInv ==
  pFpc = "tick" /\ tick > 0 =>
    decided = [riskOff |-> IdealRiskOff,
               sized |-> IdealRiskOff /\ Pipe!Sign(IdealNet) = tape[tick].sign]

\* A threshold that anyone has is the quantile of the samples, all of them.
Calibrated(x) == x # 0 => Len(samples) = CalibrationN /\ x = Pipe!Quantile(samples, QuantilePercent)
CalibrationInv ==
  /\ \E S : samples \in Seq(S)
  /\ Len(samples) <= CalibrationN
  /\ Calibrated(slowWarn) /\ Calibrated(pSlot.parameter)
  /\ Calibrated(pCached.parameter) /\ Calibrated(warnAbove)
  /\ Len(samples) = CalibrationN => slowWarn = Pipe!Quantile(samples, QuantilePercent)

\* In the first pass nobody has heard of a trade that is still to come.
Past(time, p, k) == time \in Nat /\ (p = 1 => time <= k)
PastInv ==
  /\ pQueue \in Seq([time : Nat, flow : Int])
  /\ \A i \in 1..Len(pQueue) : Past(pQueue[i].time, pass, tick)
  /\ Past(pNewest.time, pass, tick) /\ Past(pSlot.issued, pass, tick) /\ Past(pCached.issued, pass, tick)

PipeInv == TapeInv /\ WindowInv /\ DecidedInv /\ CalibrationInv /\ PastInv

LEMMA FlowIsInt == ASSUME Pipe!TapeAssumption, NEW t \in Trades PROVE Pipe!Flow(t) \in Int
<1>1. t.sign \in {-1, 1} /\ t.quantity \in Nat
  BY DEF Pipe!TapeAssumption
<1>2. QED
  BY <1>1 DEF Pipe!Flow

LEMMA FullWindowShifts ==
  ASSUME NEW s \in Seq(Int), NEW x \in Int, s # <<>>
  PROVE  /\ Tail(Append(s, x)) \in Seq(Int)
         /\ Len(Tail(Append(s, x))) = Len(s)
<1>1. Append(s, x) \in Seq(Int) /\ Append(s, x) # <<>> /\ Len(Append(s, x)) = Len(s) + 1
  BY AppendProperties
<1>2. QED
  BY <1>1, HeadTailProperties

LEMMA PipeStarts ==
  ASSUME Pipe!TapeAssumption, Pipe!OptionsAssumption, Pipe!Init PROVE PipeInv
<1> USE DEF Pipe!Init, Pipe!NoAdvice
<1>1. TapeInv /\ WindowInv /\ DecidedInv
  BY DEF TapeInv, WindowInv, DecidedInv, Fed, Pipe!OptionsAssumption
<1>2. CalibrationInv
  <2>1. samples \in Seq({}) /\ Len(samples) = 0
    OBVIOUS
  <2>2. Calibrated(0) /\ CalibrationN \in Nat \ {0}
    BY DEF Calibrated, Pipe!OptionsAssumption
  <2>3. QED
    BY <2>1, <2>2 DEF CalibrationInv
<1>3. PastInv
  BY DEF PastInv, Past
<1>4. QED
  BY <1>1, <1>2, <1>3 DEF PipeInv

LEMMA TickKeeps ==
  ASSUME Pipe!TapeAssumption, Pipe!OptionsAssumption, PipeInv, NEW t \in Trades, Pipe!Tick(t)
  PROVE  PipeInv'
<1>1. /\ pFpc = "tick" /\ tick < Ticks /\ pFpc' = "advise" /\ tick' = tick + 1 /\ Ticks \in Nat
      /\ IF pass = 1 THEN tape' = Append(tape, t) ELSE t = tape[tick + 1] /\ tape' = tape
      /\ pQueue' = IF Len(pQueue) < Capacity
                     THEN Append(pQueue, [time |-> tick + 1, flow |-> Pipe!Flow(t)]) ELSE pQueue
      /\ UNCHANGED <<pass, flow, warnAbove, pCached, sizedDown, decided, pSlot, pStop,
                     pSpc, pGot, pNewest, slowFlow, samples, slowWarn>>
  BY DEF Pipe!Tick, Pipe!slowVars, Pipe!TapeAssumption
<1>2. TapeInv'
  <2>1. /\ tape \in Seq(Trades) /\ pass \in Nat \ {0} /\ tick \in Nat
        /\ pass = 1 => Len(tape) = tick
        /\ pass # 1 => Len(tape) = Ticks
    BY DEF PipeInv, TapeInv
  <2>2. pFpc' = "advise" /\ tick' \in Nat /\ tick' > 0 /\ tick' <= Ticks /\ pass' = pass
    BY <1>1, <2>1
  <2>3. CASE pass = 1
    <3>1. tape' = Append(tape, t)
      BY <1>1, <2>3
    <3>2. tape' \in Seq(Trades) /\ Len(tape') = Len(tape) + 1
      BY <2>1, <3>1
    <3>3. QED
      BY <1>1, <2>1, <2>2, <2>3, <3>2 DEF TapeInv
  <2>4. CASE pass # 1
    BY <1>1, <2>1, <2>2, <2>4 DEF TapeInv
  <2>5. QED
    BY <2>3, <2>4
<1>3. /\ Fed' = Fed /\ Fed = tick /\ tick <= Len(tape)
      /\ \A i \in 1..tick : tape'[i] = tape[i]
  BY <1>1 DEF PipeInv, TapeInv, Fed
<1>4. WindowInv'
  <2>1. /\ flow \in Seq(Int) /\ Len(flow) = IF tick < Window THEN tick ELSE Window
        /\ \A i \in 1..Len(flow) : flow[i] = Pipe!Flow(tape[tick - Len(flow) + i])
        /\ tick \in Nat /\ Window \in Nat \ {0}
    BY <1>3 DEF PipeInv, WindowInv, TapeInv, Pipe!OptionsAssumption
  <2>2. \A i \in 1..Len(flow) : flow[i] = Pipe!Flow(tape'[tick - Len(flow) + i])
    <3> SUFFICES ASSUME NEW i \in 1..Len(flow) PROVE flow[i] = Pipe!Flow(tape'[tick - Len(flow) + i])
      OBVIOUS
    <3>1. tick - Len(flow) + i \in 1..tick
      BY <2>1
    <3>2. QED
      BY <2>1, <3>1, <1>3
  <2>3. flow' = flow /\ Fed' = tick
    BY <1>1, <1>3
  <2>4. QED
    BY <2>1, <2>2, <2>3 DEF WindowInv, Pipe!Flow
<1>5. DecidedInv'
  BY <1>1 DEF DecidedInv
<1>6. CalibrationInv'
  BY <1>1 DEF PipeInv, CalibrationInv, Calibrated
<1>7. PastInv'
  <2> DEFINE o == [time |-> tick + 1, flow |-> Pipe!Flow(t)]
  <2>1. tick \in Nat /\ Pipe!Flow(t) \in Int /\ pQueue \in Seq([time : Nat, flow : Int])
    BY FlowIsInt DEF PipeInv, TapeInv, PastInv
  <2>2. o \in [time : Nat, flow : Int] /\ o.time = tick + 1
    BY <2>1
  <2>3. pQueue' = pQueue \/ pQueue' = Append(pQueue, o)
    BY <1>1
  <2>4. \A x : Past(x, pass, tick) => Past(x, pass', tick')
    BY <1>1, <2>1 DEF Past
  <2>5. Past(tick + 1, pass', tick')
    BY <1>1, <2>1 DEF Past
  <2>6. \A i \in 1..Len(pQueue) : Past(pQueue[i].time, pass', tick')
    BY <2>4 DEF PipeInv, PastInv
  <2> HIDE DEF o
  <2>7. pQueue' \in Seq([time : Nat, flow : Int])
    <3> DEFINE R == [time : Nat, flow : Int]
    <3>1. pQueue \in Seq(R) /\ o \in R
      BY <2>1, <2>2
    <3> HIDE DEF R
    <3>2. pQueue' \in Seq(R)
      BY <3>1, <2>3
    <3>3. QED
      BY <3>2 DEF R
  <2>8. ASSUME NEW i \in 1..Len(pQueue') PROVE Past(pQueue'[i].time, pass', tick')
    <3>1. CASE pQueue' = pQueue
      BY <3>1, <2>6
    <3>2. CASE pQueue' = Append(pQueue, o)
      <4>1. CASE i \in 1..Len(pQueue)
        BY <3>2, <4>1, <2>6, <2>1
      <4>2. CASE i = Len(pQueue) + 1
        BY <3>2, <4>2, <2>1, <2>2, <2>5
      <4>3. QED
        BY <3>2, <4>1, <4>2, <2>1, <2>2
    <3>3. QED
      BY <2>3, <3>1, <3>2
  <2>9. QED
    BY <1>1, <2>7, <2>4, <2>8 DEF PipeInv, PastInv
<1>8. QED
  BY <1>2, <1>4, <1>5, <1>6, <1>7 DEF PipeInv
LEMMA AdviseKeepsPipe ==
  ASSUME Pipe!TapeAssumption, Pipe!OptionsAssumption, PipeInv, Pipe!Advise
  PROVE  PipeInv'
<1> DEFINE cur == Pipe!Flow(tape[tick])
           d == Pipe!Decide(flow, warnAbove')
           sized == Pipe!Warm(flow, Window) /\ d.riskOff /\ d.direction = tape[tick].sign
<1>1. /\ pFpc = "advise" /\ pFpc' = "tick"
      /\ pCached' \in {pCached, pSlot} /\ warnAbove' = Pipe!ThresholdOf(pCached')
      /\ decided' = [riskOff |-> Pipe!Warm(flow, Window) /\ d.riskOff, sized |-> sized]
      /\ flow' = Pipe!Observe(flow, cur, Window)
      /\ UNCHANGED <<tape, pass, tick, pQueue, pSlot, pNewest, samples, slowWarn>>
  BY DEF Pipe!Advise, Pipe!slowVars
<1>2. /\ tick \in Nat \ {0} /\ tape \in Seq(Trades) /\ tick \in 1..Len(tape)
      /\ Fed = tick - 1 /\ Fed' = tick /\ Window \in Nat \ {0}
  <2>1. tick <= Len(tape)
    BY <1>1 DEF PipeInv, TapeInv
  <2>2. QED
    BY <1>1, <2>1 DEF PipeInv, TapeInv, Fed, Pipe!OptionsAssumption
<1>3. cur \in Int
  <2>1. tape[tick] \in Trades
    BY <1>2
  <2>2. QED
    BY <2>1, FlowIsInt
<1>4. /\ flow \in Seq(Int) /\ Len(flow) = IF tick - 1 < Window THEN tick - 1 ELSE Window
      /\ \A i \in 1..Len(flow) : flow[i] = Pipe!Flow(tape[tick - 1 - Len(flow) + i])
  BY <1>2 DEF PipeInv, WindowInv
<1>5. TapeInv'
  BY <1>1, <1>2 DEF PipeInv, TapeInv
<1>6. WindowInv'
  <2> HIDE DEF cur
  <2>1. CASE Len(flow) < Window
    <3>1. flow' = Append(flow, cur)
      BY <1>1, <1>3, <1>4, <1>2, <2>1 DEF Pipe!Observe
    <3>2. flow' \in Seq(Int) /\ Len(flow') = tick /\ tick <= Window
      BY <3>1, <1>3, <1>4, <1>2, <2>1
    <3>3. ASSUME NEW i \in 1..Len(flow') PROVE flow'[i] = Pipe!Flow(tape[tick - Len(flow') + i])
      <4>1. CASE i = tick
        BY <4>1, <3>1, <3>2, <1>2, <1>3, <1>4, <2>1 DEF cur
      <4>2. CASE i \in 1..(tick - 1)
        BY <4>2, <3>1, <3>2, <1>2, <1>3, <1>4, <2>1
      <4>3. QED
        BY <3>2, <4>1, <4>2, <1>2
    <3>4. QED
      BY <1>1, <1>2, <3>2, <3>3 DEF WindowInv, Pipe!Flow
  <2>2. CASE Len(flow) = Window
    <3>1. flow' = Tail(Append(flow, cur))
      BY <1>1, <1>3, <1>4, <1>2, <2>2 DEF Pipe!Observe
    <3>2. flow' \in Seq(Int) /\ Len(flow') = Window /\ tick - 1 >= Window
      <4>1. flow # <<>>
        BY <1>2, <2>2
      <4>2. flow' \in Seq(Int) /\ Len(flow') = Window
        BY <3>1, <4>1, <1>3, <1>4, <2>2, FullWindowShifts
      <4>3. tick - 1 >= Window
        BY <1>2, <1>4, <2>2
      <4>4. QED
        BY <4>2, <4>3
    <3>3. ASSUME NEW i \in 1..Len(flow') PROVE flow'[i] = Pipe!Flow(tape[tick - Len(flow') + i])
      <4>1. flow'[i] = Append(flow, cur)[i + 1]
        BY <3>1, <3>2, <1>2, <1>3, <1>4, <2>2
      <4>2. CASE i = Window
        BY <4>1, <4>2, <3>2, <1>2, <1>3, <1>4, <2>2 DEF cur
      <4>3. CASE i \in 1..(Window - 1)
        <5>1. Append(flow, cur)[i + 1] = flow[i + 1] /\ i + 1 \in 1..Len(flow)
          BY <4>3, <1>2, <1>3, <1>4, <2>2
        <5>2. flow[i + 1] = Pipe!Flow(tape[tick - 1 - Len(flow) + (i + 1)])
          BY <5>1, <1>4
        <5>3. tick - 1 - Len(flow) + (i + 1) = tick - Len(flow') + i
          BY <3>2, <2>2, <1>2
        <5>4. QED
          BY <4>1, <5>1, <5>2, <5>3
      <4>4. QED
        BY <3>2, <4>2, <4>3, <1>2
    <3>4. QED
      BY <1>1, <1>2, <3>2, <3>3 DEF WindowInv, Pipe!Flow
  <2>3. QED
    BY <1>2, <1>4, <2>1, <2>2
<1>7. DecidedInv'
  <2>1. ASSUME tick > Window PROVE flow = [i \in DOMAIN Recent |-> Pipe!Flow(Recent[i])]
    <3> DEFINE before == SubSeq(tape, 1, tick - 1)
    <3>1. before \in Seq(Trades) /\ Len(before) = tick - 1 /\ \A i \in 1..(tick - 1) : before[i] = tape[i]
      BY <1>2
    <3>2. Recent = SubSeq(before, tick - Window, tick - 1)
      BY DEF Recent
    <3> HIDE DEF before
    <3>3. /\ Recent \in Seq(Trades) /\ Len(Recent) = Window
          /\ \A i \in 1..Window : Recent[i] = before[tick - Window + i - 1]
      BY <3>1, <3>2, <1>2, <2>1
    <3>4. \A i \in 1..Window : Recent[i] = tape[tick - 1 - Window + i]
      BY <3>1, <3>3, <1>2, <2>1
    <3>5. DOMAIN Recent = 1..Window /\ Len(flow) = Window
      BY <3>3, <1>2, <1>4, <2>1
    <3>6. \A i \in 1..Window : flow[i] = Pipe!Flow(Recent[i])
      BY <3>4, <3>5, <1>4, <2>1
    <3>7. flow = [i \in 1..Window |-> flow[i]]
      BY <3>5, <1>4
    <3>8. QED
      BY <3>5, <3>6, <3>7
  <2>2. Recent' = Recent /\ IdealNet' = IdealNet
    BY <1>1 DEF Recent, IdealNet, Pipe!Flow
  <2>3. IdealRiskOff' <=> Pipe!Warm(flow, Window) /\ d.riskOff
    <3>1. Pipe!Warm(flow, Window) <=> tick > Window
      BY <1>2, <1>4 DEF Pipe!Warm
    <3>2. CASE tick > Window
      <4>1. Pipe!NetFlow(flow) = IdealNet
        BY <3>2, <2>1 DEF IdealNet
      <4>2. d.riskOff <=> Pipe!Magnitude(IdealNet) > warnAbove'
        BY <4>1 DEF Pipe!Decide
      <4>3. QED
        BY <3>1, <3>2, <4>2, <2>2, <1>1 DEF IdealRiskOff
    <3>3. CASE ~(tick > Window)
      BY <3>1, <3>3, <1>1 DEF IdealRiskOff
    <3>4. QED
      BY <3>2, <3>3
  <2>4. sized <=> IdealRiskOff' /\ Pipe!Sign(IdealNet') = tape[tick].sign
    <3>1. CASE tick > Window
      <4>1. Pipe!NetFlow(flow) = IdealNet
        BY <3>1, <2>1 DEF IdealNet
      <4>2. d.direction = Pipe!Sign(IdealNet')
        BY <4>1, <2>2 DEF Pipe!Decide
      <4>3. QED
        BY <4>2, <2>3
    <3>2. CASE ~(tick > Window)
      <4>1. ~IdealRiskOff'
        BY <3>2, <1>1 DEF IdealRiskOff
      <4>2. QED
        BY <4>1, <2>3
    <3>3. QED
      BY <3>1, <3>2
  <2>5. QED
    BY <1>1, <2>3, <2>4 DEF DecidedInv
<1>8. CalibrationInv'
  <2>1. \A x : Calibrated(x)' <=> Calibrated(x)
    BY <1>1 DEF Calibrated
  <2>2. Calibrated(pCached'.parameter)
    BY <1>1 DEF PipeInv, CalibrationInv
  <2>3. Calibrated(warnAbove')
    <3>1. warnAbove' = pCached'.parameter \/ warnAbove' = warnAbove
      BY <1>1 DEF Pipe!ThresholdOf
    <3>2. QED
      BY <3>1, <2>2 DEF PipeInv, CalibrationInv
  <2>4. QED
    BY <1>1, <2>2, <2>3 DEF PipeInv, CalibrationInv, Calibrated
<1>9. PastInv'
  BY <1>1 DEF PipeInv, PastInv
<1>10. QED
  BY <1>5, <1>6, <1>7, <1>8, <1>9 DEF PipeInv
LEMMA NextPassKeeps ==
  ASSUME Pipe!TapeAssumption, Pipe!OptionsAssumption, PipeInv, Pipe!NextPass
  PROVE  PipeInv'
<1>1. /\ pFpc = "tick" /\ pFpc' = pFpc /\ tick = Ticks /\ pass' = pass + 1 /\ tick' = 0
      /\ flow' = <<>> /\ warnAbove' = 0 /\ pCached' = Pipe!NoAdvice
      /\ UNCHANGED <<tape, pQueue, pSlot, pNewest, samples, slowWarn>>
  BY DEF Pipe!NextPass, Pipe!NewPipeline, Pipe!slowVars
<1>2. TapeInv' /\ pass' # 1
  BY <1>1 DEF PipeInv, TapeInv, Pipe!TapeAssumption
<1>3. WindowInv' /\ DecidedInv'
  BY <1>1 DEF WindowInv, DecidedInv, Fed, Pipe!OptionsAssumption
<1>4. CalibrationInv'
  BY <1>1 DEF PipeInv, CalibrationInv, Calibrated, Pipe!NoAdvice
<1>5. PastInv'
  BY <1>1, <1>2 DEF PipeInv, PastInv, Past, Pipe!NoAdvice
<1>6. QED
  BY <1>2, <1>3, <1>4, <1>5 DEF PipeInv

\* What the fast lane's own state has to keep, whatever else happens.
LEMMA FastLaneKept ==
  ASSUME PipeInv, UNCHANGED <<tape, pass, tick, flow, warnAbove, decided>>,
         pFpc' = pFpc \/ (pFpc = "tick" /\ pFpc' = "join") \/ (pFpc = "join" /\ pFpc' = "joined")
  PROVE  TapeInv' /\ WindowInv' /\ DecidedInv'
<1>1. TapeInv'
  BY DEF PipeInv, TapeInv
<1>2. Fed' = Fed
  BY DEF PipeInv, TapeInv, Fed
<1>3. WindowInv'
  BY <1>2 DEF PipeInv, WindowInv, Pipe!Flow
<1>4. /\ IdealRiskOff' = IdealRiskOff /\ IdealNet' = IdealNet
      /\ pFpc' = "tick" => pFpc = "tick"
  BY DEF IdealRiskOff, IdealNet, Recent, Pipe!Flow
<1>5. DecidedInv'
  BY <1>4 DEF PipeInv, DecidedInv
<1>6. QED
  BY <1>1, <1>3, <1>5

LEMMA PollKeepsPipe == ASSUME PipeInv, Pipe!PollOne PROVE PipeInv'
<1>1. /\ pQueue # <<>> /\ pNewest' = Head(pQueue) /\ pQueue' = Tail(pQueue)
      /\ UNCHANGED <<samples, slowWarn, pFpc, tape, pass, tick, flow, warnAbove, pCached, decided, pSlot>>
  BY DEF Pipe!PollOne, Pipe!fastVars, Pipe!pipelineVars
<1>2. TapeInv' /\ WindowInv' /\ DecidedInv'
  BY <1>1, FastLaneKept
<1>3. CalibrationInv'
  BY <1>1 DEF PipeInv, CalibrationInv, Calibrated
<1>4. PastInv'
  <2> DEFINE R == [time : Nat, flow : Int]
  <2>1. pQueue \in Seq(R) /\ \A i \in 1..Len(pQueue) : Past(pQueue[i].time, pass, tick)
    BY DEF PipeInv, PastInv
  <2> HIDE DEF R
  <2>2. pQueue' \in Seq(R) /\ Len(pQueue) >= 1 /\ Len(pQueue') = Len(pQueue) - 1
    BY <1>1, <2>1
  <2>3. \A i \in 1..Len(pQueue') : pQueue'[i] = pQueue[i + 1] /\ i + 1 \in 1..Len(pQueue)
    BY <1>1, <2>1, <2>2
  <2>4. Past(pNewest'.time, pass, tick)
    BY <1>1, <2>1, <2>2
  <2>5. \A i \in 1..Len(pQueue') : Past(pQueue'[i].time, pass, tick)
    BY <2>1, <2>3
  <2>6. QED
    BY <1>1, <2>2, <2>4, <2>5 DEF PipeInv, PastInv, R
<1>5. QED
  BY <1>2, <1>3, <1>4 DEF PipeInv

LEMMA SampleAdds ==
  ASSUME NEW s, NEW S, s \in Seq(S), NEW x
  PROVE  Append(s, x) \in Seq(S \cup {x}) /\ Len(Append(s, x)) = Len(s) + 1
<1>1. s \in Seq(S \cup {x})
  <2>1. \A i \in 1..Len(s) : s[i] \in S \cup {x}
    OBVIOUS
  <2>2. QED
    BY <2>1
<1>2. QED
  BY <1>1

LEMMA CalibrateKeeps ==
  ASSUME Pipe!OptionsAssumption, PipeInv, Pipe!Calibrate PROVE PipeInv'
<1>1. /\ Len(samples) + 1 < CalibrationN /\ samples' = Pipe!Sampled
      /\ UNCHANGED <<pFpc, tape, pass, tick, flow, warnAbove, pCached, decided, pSlot, pQueue, pNewest, slowWarn>>
  BY DEF Pipe!Calibrate, Pipe!fastVars, Pipe!pipelineVars
<1>2. TapeInv' /\ WindowInv' /\ DecidedInv'
  BY <1>1, FastLaneKept
<1>3. CalibrationInv'
  <2>1. PICK S : samples \in Seq(S)
    BY DEF PipeInv, CalibrationInv
  <2>2. (\E T : samples' \in Seq(T)) /\ Len(samples') = Len(samples) + 1 /\ Len(samples) \in Nat
    <3> DEFINE x == Pipe!Magnitude(Pipe!NetFlow(slowFlow))
    <3>1. samples' = Append(samples, x)
      BY <1>1 DEF Pipe!Sampled
    <3> HIDE DEF x
    <3>2. Append(samples, x) \in Seq(S \cup {x}) /\ Len(Append(samples, x)) = Len(samples) + 1
      BY <2>1, SampleAdds
    <3>3. QED
      BY <2>1, <3>1, <3>2
  <2>3. slowWarn = 0 /\ pSlot.parameter = 0 /\ pCached.parameter = 0 /\ warnAbove = 0
    BY <1>1, <2>2 DEF PipeInv, CalibrationInv, Calibrated, Pipe!OptionsAssumption
  <2>4. QED
    BY <1>1, <2>2, <2>3 DEF CalibrationInv, Calibrated, Pipe!OptionsAssumption
<1>4. PastInv'
  BY <1>1 DEF PipeInv, PastInv
<1>5. QED
  BY <1>2, <1>3, <1>4 DEF PipeInv

LEMMA PublishKeepsPipe ==
  ASSUME Pipe!OptionsAssumption, PipeInv, Pipe!Publish PROVE PipeInv'
<1>1. /\ Len(samples) + 1 >= CalibrationN
      /\ IF Len(samples) < CalibrationN
           THEN samples' = Pipe!Sampled /\ slowWarn' = Pipe!Quantile(Pipe!Sampled, QuantilePercent)
           ELSE UNCHANGED <<samples, slowWarn>>
      /\ pSlot' = Pipe!Advisory(slowWarn')
      /\ UNCHANGED <<pFpc, tape, pass, tick, flow, warnAbove, pCached, decided, pQueue, pNewest>>
  BY DEF Pipe!Publish, Pipe!fastVars, Pipe!pipelineVars
<1>2. TapeInv' /\ WindowInv' /\ DecidedInv'
  BY <1>1, FastLaneKept
<1>3. pSlot'.parameter = slowWarn' /\ pSlot'.issued = pNewest.time
  BY <1>1 DEF Pipe!Advisory
<1>4. CalibrationInv'
  <2>1. PICK S : samples \in Seq(S)
    BY DEF PipeInv, CalibrationInv
  <2>2. Len(samples) \in Nat /\ CalibrationN \in Nat \ {0} /\ Len(samples) <= CalibrationN
    BY <2>1 DEF PipeInv, CalibrationInv, Pipe!OptionsAssumption
  <2>3. CASE Len(samples) < CalibrationN
    <3>1. (\E T : samples' \in Seq(T)) /\ Len(samples') = Len(samples) + 1
      <4> DEFINE x == Pipe!Magnitude(Pipe!NetFlow(slowFlow))
      <4>1. samples' = Append(samples, x)
        BY <1>1, <2>3 DEF Pipe!Sampled
      <4> HIDE DEF x
      <4>2. Append(samples, x) \in Seq(S \cup {x}) /\ Len(Append(samples, x)) = Len(samples) + 1
        BY <2>1, SampleAdds
      <4>3. QED
        BY <2>1, <4>1, <4>2
    <3>2. Len(samples') = CalibrationN /\ slowWarn' = Pipe!Quantile(samples', QuantilePercent)
      BY <1>1, <2>2, <2>3, <3>1
    <3>3. pCached.parameter = 0 /\ warnAbove = 0
      BY <2>2, <2>3 DEF PipeInv, CalibrationInv, Calibrated
    <3>4. QED
      BY <1>1, <1>3, <2>2, <3>1, <3>2, <3>3 DEF CalibrationInv, Calibrated
  <2>4. CASE Len(samples) = CalibrationN
    <3>1. samples' = samples /\ slowWarn' = slowWarn
      BY <1>1, <2>2, <2>4
    <3>2. QED
      BY <1>1, <1>3, <2>4, <3>1 DEF PipeInv, CalibrationInv, Calibrated
  <2>5. QED
    BY <2>2, <2>3, <2>4
<1>5. PastInv'
  BY <1>1, <1>3 DEF PipeInv, PastInv
<1>6. QED
  BY <1>2, <1>4, <1>5 DEF PipeInv

LEMMA OthersKeepPipe ==
  ASSUME PipeInv, Pipe!EndOfRun \/ Pipe!Join \/ Pipe!TestStop \/ Pipe!Drained \/ UNCHANGED Pipe!vars
  PROVE  PipeInv'
<1>1. /\ UNCHANGED <<tape, pass, tick, flow, warnAbove, pCached, decided, pQueue, pSlot, pNewest, samples, slowWarn>>
      /\ pFpc' = pFpc \/ (pFpc = "tick" /\ pFpc' = "join") \/ (pFpc = "join" /\ pFpc' = "joined")
  BY DEF Pipe!EndOfRun, Pipe!Join, Pipe!TestStop, Pipe!Drained, Pipe!vars, Pipe!fastVars, Pipe!slowVars, Pipe!pipelineVars
<1>2. TapeInv' /\ WindowInv' /\ DecidedInv'
  BY <1>1, FastLaneKept
<1>3. CalibrationInv' /\ PastInv'
  BY <1>1 DEF PipeInv, CalibrationInv, Calibrated, PastInv
<1>4. QED
  BY <1>2, <1>3 DEF PipeInv

\* In every pass of the pipeline tool, whatever the two threads interleave to and the
\* bridge drops, an order is sized down by the net flow of the trades just before
\* it on the tape, against a threshold that is none or the calibrated one.
THEOREM DecisionsAreIdeal ==
  ASSUME Pipe!TapeAssumption, Pipe!OptionsAssumption PROVE Pipe!Spec => []DecidesOnTheTape
<1>1. Pipe!Init => PipeInv
  BY PipeStarts
<1>2. PipeInv /\ [Pipe!Next]_(Pipe!vars) => PipeInv'
  BY TickKeeps, AdviseKeepsPipe, NextPassKeeps, PollKeepsPipe, CalibrateKeeps, PublishKeepsPipe, OthersKeepPipe
     DEF Pipe!Next, Pipe!Fast, Pipe!Slow
<1>3. PipeInv => DecidesOnTheTape
  <2> SUFFICES ASSUME PipeInv PROVE DecidesOnTheTape
    OBVIOUS
  <2> USE DEF PipeInv
  <2>1. pFpc = "tick" /\ tick > 0 =>
          decided = [riskOff |-> IdealRiskOff,
                     sized |-> IdealRiskOff /\ Pipe!Sign(IdealNet) = tape[tick].sign]
    BY DEF DecidedInv
  <2>2. warnAbove # 0 => Len(samples) = CalibrationN /\ warnAbove = Pipe!Quantile(samples, QuantilePercent)
    BY DEF CalibrationInv, Calibrated
  <2>3. pass = 1 => pCached.issued <= tick
    BY DEF PastInv, Past
  <2>4. QED
    BY <2>1, <2>2, <2>3 DEF DecidesOnTheTape, Pipe!DecidesOnTheTape, IdealRiskOff, IdealNet, Recent
<1>4. QED
  BY <1>1, <1>2, <1>3, PTL DEF Pipe!Spec

-------------------------------------------------------------------------------
(* The level-2 book.                                                       *)

\* What the library's sums and cardinalities are in the instance of TickToTrade.
LEMMA SameBookSum == ASSUME NEW f, NEW S PROVE Pipe!SumFunctionOnSet(f, S) = SumFunctionOnSet(f, S)
BY DEF Pipe!SumFunctionOnSet, Pipe!FoldFunctionOnSet, Pipe!MapThenFoldSet,
       SumFunctionOnSet, FoldFunctionOnSet, MapThenFoldSet

LEMMA SameBookSize == ASSUME NEW S PROVE Pipe!Cardinality(S) = Cardinality(S)
BY DEF Pipe!Cardinality, Cardinality

\* A side of a book has finitely many levels, none of them empty.
IsSide(levels) ==
  /\ IsFiniteSet(DOMAIN levels) /\ DOMAIN levels \subseteq Int
  /\ \A p \in DOMAIN levels : levels[p] \in Nat \ {0}

BooksInv == IsSide(bids) /\ IsSide(asks)

LEMMA UpdateKeepsSide ==
  ASSUME NEW levels, IsSide(levels), NEW price \in Int, NEW quantity \in Nat
  PROVE  IsSide(Pipe!UpdateLevel(levels, price, quantity))
<1> DEFINE new == Pipe!UpdateLevel(levels, price, quantity)
<1>1. CASE quantity = 0
  <2>1. new = [p \in DOMAIN levels \ {price} |-> levels[p]]
    BY <1>1 DEF Pipe!UpdateLevel
  <2>2. DOMAIN new = DOMAIN levels \ {price} /\ \A p \in DOMAIN new : new[p] = levels[p]
    BY <2>1
  <2>3. IsFiniteSet(DOMAIN levels \ {price})
    BY FS_Subset DEF IsSide
  <2> HIDE DEF new
  <2>4. IsSide(new)
    BY <2>2, <2>3 DEF IsSide
  <2>5. QED
    BY <2>4 DEF new
<1>2. CASE quantity # 0
  <2>1. new = [p \in DOMAIN levels \cup {price} |-> IF p = price THEN quantity ELSE levels[p]]
    BY <1>2 DEF Pipe!UpdateLevel
  <2>2. /\ DOMAIN new = DOMAIN levels \cup {price}
        /\ \A p \in DOMAIN new : new[p] = IF p = price THEN quantity ELSE levels[p]
    BY <2>1
  <2>3. IsFiniteSet(DOMAIN levels \cup {price})
    BY FS_AddElement DEF IsSide
  <2> HIDE DEF new
  <2>4. IsSide(new)
    BY <1>2, <2>2, <2>3 DEF IsSide
  <2>5. QED
    BY <2>4 DEF new
<1>3. QED
  BY <1>1, <1>2

LEMMA BooksStart == Pipe!Init => BooksInv
<1>1. IsFiniteSet({})
  BY FS_EmptySet
<1>2. IsSide(<<>>)
  BY <1>1 DEF IsSide
<1>3. QED
  BY <1>2 DEF Pipe!Init, Pipe!NoLevels, BooksInv

LEMMA BooksKept ==
  ASSUME Pipe!TapeAssumption, Pipe!OptionsAssumption, BooksInv, [Pipe!Next]_(Pipe!vars)
  PROVE  BooksInv'
<1>1. ASSUME NEW t \in Trades, Pipe!Tick(t) PROVE BooksInv'
  <2> DEFINE trim == t.price - t.sign * DepthLevels
             up(levels) == Pipe!UpdateLevel(Pipe!UpdateLevel(levels, t.price, t.quantity), trim, 0)
  <2>1. t.price \in Int /\ trim \in Int /\ t.quantity \in Nat
    <3>1. t.price \in Nat /\ t.sign \in {-1, 1} /\ t.quantity \in Nat /\ DepthLevels \in Nat
      BY DEF Pipe!TapeAssumption, Pipe!OptionsAssumption
    <3>2. QED
      BY <3>1
  <2>2. IsSide(up(bids)) /\ IsSide(up(asks))
    <3> HIDE DEF trim
    <3>1. 0 \in Nat
      OBVIOUS
    <3>2. QED
      BY <2>1, <3>1, UpdateKeepsSide DEF BooksInv
  <2>3. (bids' = up(bids) /\ asks' = asks) \/ (asks' = up(asks) /\ bids' = bids)
    BY <1>1 DEF Pipe!Tick, Pipe!UpdateBook
  <2> HIDE DEF up
  <2>4. QED
    BY <2>2, <2>3 DEF BooksInv
<1>2. CASE Pipe!NextPass
  <2>1. bids' = <<>> /\ asks' = <<>>
    BY <1>2 DEF Pipe!NextPass, Pipe!NewPipeline, Pipe!NoLevels
  <2>2. IsFiniteSet({})
    BY FS_EmptySet
  <2>3. IsSide(<<>>)
    BY <2>2 DEF IsSide
  <2>4. QED
    BY <2>1, <2>3 DEF BooksInv
<1>3. CASE Pipe!Advise \/ Pipe!EndOfRun \/ Pipe!Join \/ Pipe!Slow \/ UNCHANGED Pipe!vars
  <2>1. bids' = bids /\ asks' = asks
    BY <1>3 DEF Pipe!Advise, Pipe!EndOfRun, Pipe!Join, Pipe!Slow, Pipe!TestStop, Pipe!PollOne, Pipe!Drained,
                Pipe!Calibrate, Pipe!Publish, Pipe!vars, Pipe!fastVars, Pipe!pipelineVars
  <2>2. QED
    BY <2>1 DEF BooksInv
<1>4. QED
  BY <1>1, <1>2, <1>3 DEF Pipe!Next, Pipe!Fast

\* p is no worse than q for a taker of this side.
NoWorse(side, p, q) == IF side = "buy" THEN p <= q ELSE p >= q
Sides == {"buy", "sell"}

Depth(side, levels, limit) == SumFunctionOnSet(levels, Pipe!Within(side, levels, limit))

LEMMA WithinIs ==
  ASSUME NEW side \in Sides, NEW levels, IsSide(levels), NEW limit \in DOMAIN levels
  PROVE  /\ \A p : p \in Pipe!Within(side, levels, limit) <=> p \in DOMAIN levels /\ NoWorse(side, p, limit)
         /\ Pipe!Within(side, levels, limit) \in SUBSET DOMAIN levels
         /\ IsFiniteSet(Pipe!Within(side, levels, limit))
         /\ limit \in Pipe!Within(side, levels, limit)
         /\ Pipe!DepthToPrice(side, levels, limit) = Depth(side, levels, limit)
         /\ Depth(side, levels, limit) \in Int
<1> DEFINE W == Pipe!Within(side, levels, limit)
<1>1. \A p : p \in W <=> p \in DOMAIN levels /\ NoWorse(side, p, limit)
  BY DEF Pipe!Within, NoWorse
<1>2. limit \in Int
  BY DEF IsSide
<1>3. NoWorse(side, limit, limit)
  BY <1>2 DEF NoWorse
<1>4. Pipe!DepthToPrice(side, levels, limit) = Depth(side, levels, limit)
  BY SameBookSum DEF Pipe!DepthToPrice, Depth
<1> HIDE DEF W
<1>5. W \in SUBSET DOMAIN levels /\ limit \in W
  BY <1>1, <1>3
<1>6. IsFiniteSet(W)
  BY <1>5, FS_Subset DEF IsSide
<1>7. \A p \in W : levels[p] \in Int
  BY <1>5 DEF IsSide
<1>8. SumFunctionOnSet(levels, W) \in Int
  BY <1>6, <1>7, SumType
<1>9. QED
  BY <1>1, <1>4, <1>5, <1>6, <1>8 DEF W, Depth

\* What the levels up to one take of a quantity that the levels up to another hold.
LEMMA FillIs ==
  ASSUME NEW side \in Sides, NEW levels, IsSide(levels), NEW limit \in DOMAIN levels, NEW p \in DOMAIN levels
  PROVE  Pipe!Fill(side, levels, p, Depth(side, levels, limit))
           = IF NoWorse(side, p, limit) THEN levels[p] ELSE 0
<1> DEFINE W == Pipe!Within(side, levels, limit)
           V == Pipe!Within(side, levels, p)
           target == Depth(side, levels, limit)
           upTo == Depth(side, levels, p)
           better == upTo - levels[p]
<1>1. /\ \A q : q \in W <=> q \in DOMAIN levels /\ NoWorse(side, q, limit)
      /\ W \in SUBSET DOMAIN levels /\ IsFiniteSet(W) /\ limit \in W /\ target \in Int
      /\ target = SumFunctionOnSet(levels, W)
  BY WithinIs DEF Depth
<1>2. /\ \A q : q \in V <=> q \in DOMAIN levels /\ NoWorse(side, q, p)
      /\ V \in SUBSET DOMAIN levels /\ IsFiniteSet(V) /\ p \in V /\ upTo \in Int
      /\ Pipe!DepthToPrice(side, levels, p) = upTo
      /\ upTo = SumFunctionOnSet(levels, V)
  BY WithinIs DEF Depth
<1>3. levels[p] \in Nat \ {0} /\ p \in Int /\ limit \in Int /\ DOMAIN levels \subseteq Int
      /\ \A q \in DOMAIN levels : levels[q] \in Nat
  BY DEF IsSide
<1> HIDE DEF W, V
<1>4. Pipe!Fill(side, levels, p, target) = Pipe!Max({0, Pipe!Min({levels[p], target - better})})
  BY <1>2 DEF Pipe!Fill
<1> HIDE DEF target, upTo
<1>5. better \in Int
  BY <1>2, <1>3
<1>6. CASE NoWorse(side, p, limit)
  <2>1. V \in SUBSET W
    <3>1. ASSUME NEW q \in V PROVE q \in W
      <4>1. q \in DOMAIN levels /\ NoWorse(side, q, p)
        BY <1>2
      <4>2. q \in Int
        BY <1>3, <4>1
      <4>3. NoWorse(side, q, limit)
        BY <1>3, <1>6, <4>1, <4>2 DEF NoWorse
      <4>4. QED
        BY <1>1, <4>1, <4>3
    <3>2. QED
      BY <3>1
  <2>2. \A q \in W : levels[q] \in Nat
    BY <1>1, <1>3
  <2>3. upTo <= target
    BY <1>1, <1>2, <2>1, <2>2, SumOverPart
  <2>4. levels[p] <= target - better
    BY <1>1, <1>2, <1>3, <2>3
  <2> DEFINE rest == target - better
             took == Pipe!Min({levels[p], rest})
  <2>5. rest \in Int
    BY <1>1, <1>5
  <2> HIDE DEF better, rest
  <2>6. took = levels[p]
    <3>1. took = CHOOSE x \in {levels[p], rest} : \A y \in {levels[p], rest} : x <= y
      BY DEF Pipe!Min
    <3>2. levels[p] <= rest
      BY <2>4 DEF rest
    <3>3. \A x \in {levels[p], rest} : (\A y \in {levels[p], rest} : x <= y) => x = levels[p]
      BY <1>3, <2>5, <3>2
    <3>4. \A y \in {levels[p], rest} : levels[p] <= y
      BY <1>3, <3>2
    <3>5. QED
      BY <3>1, <3>3, <3>4
  <2>7. Pipe!Max({0, levels[p]}) = levels[p]
    <3>1. Pipe!Max({0, levels[p]}) = CHOOSE x \in {0, levels[p]} : \A y \in {0, levels[p]} : x >= y
      BY DEF Pipe!Max
    <3>2. \A x \in {0, levels[p]} : (\A y \in {0, levels[p]} : x >= y) => x = levels[p]
      BY <1>3
    <3>3. \A y \in {0, levels[p]} : levels[p] >= y
      BY <1>3
    <3>4. QED
      BY <3>1, <3>2, <3>3
  <2>8. QED
    BY <1>4, <1>6, <2>6, <2>7 DEF rest, target
<1>7. CASE ~NoWorse(side, p, limit)
  <2>1. W \in SUBSET (V \ {p})
    <3>1. ASSUME NEW q \in W PROVE q \in V \ {p}
      <4>1. q \in DOMAIN levels /\ NoWorse(side, q, limit)
        BY <1>1
      <4>2. q \in Int
        BY <1>3, <4>1
      <4>3. NoWorse(side, q, p) /\ q # p
        BY <1>3, <1>7, <4>1, <4>2 DEF NoWorse
      <4>4. QED
        BY <1>2, <4>1, <4>3
    <3>2. QED
      BY <3>1
  <2>2. IsFiniteSet(V \ {p}) /\ \A q \in V \ {p} : levels[q] \in Nat
    BY <1>2, <1>3, FS_Subset
  <2>3. target <= SumFunctionOnSet(levels, V \ {p})
    BY <1>1, <2>1, <2>2, SumOverPart
  <2>4. \A q \in V : levels[q] \in Int
    BY <1>2, <1>3
  <2>5. upTo = levels[p] + SumFunctionOnSet(levels, V \ {p}) /\ SumFunctionOnSet(levels, V \ {p}) \in Int
    BY <1>2, <2>2, <2>4, SumRemove, SumType
  <2> DEFINE rest == target - better
             took == Pipe!Min({levels[p], rest})
  <2>6. rest \in Int /\ rest <= 0
    BY <1>1, <1>2, <1>3, <2>3, <2>5
  <2> HIDE DEF rest, better
  <2>7. took = rest
    <3>1. took = CHOOSE x \in {levels[p], rest} : \A y \in {levels[p], rest} : x <= y
      BY DEF Pipe!Min
    <3>2. \A x \in {levels[p], rest} : (\A y \in {levels[p], rest} : x <= y) => x = rest
      BY <1>3, <2>6
    <3>3. \A y \in {levels[p], rest} : rest <= y
      BY <1>3, <2>6
    <3>4. QED
      BY <3>1, <3>2, <3>3
  <2>8. Pipe!Max({0, rest}) = 0
    <3>1. Pipe!Max({0, rest}) = CHOOSE x \in {0, rest} : \A y \in {0, rest} : x >= y
      BY DEF Pipe!Max
    <3>2. \A x \in {0, rest} : (\A y \in {0, rest} : x >= y) => x = 0
      BY <2>6
    <3>3. \A y \in {0, rest} : 0 >= y
      BY <2>6
    <3>4. QED
      BY <3>1, <3>2, <3>3
  <2>9. QED
    BY <1>4, <1>7, <2>7, <2>8 DEF rest, target
<1>8. QED
  BY <1>6, <1>7 DEF target

LEMMA BestOf ==
  ASSUME NEW side \in Sides, NEW S, IsFiniteSet(S), S \subseteq Int, S # {}
  PROVE  \E b \in S : \A q \in S : NoWorse(side, b, q)
<1> DEFINE Up(p) == {q \in S : NoWorse(side, q, p)}
           C == {Up(p) : p \in S}
<1>1. \A s \in C : IsFiniteSet(s)
  BY FS_Subset
<1>2. PICK s \in C : \A r \in C : Cardinality(s) <= Cardinality(r)
  BY <1>1, SmallestSet, Zenon
<1>3. PICK b \in S : s = Up(b)
  OBVIOUS
<1>4. ASSUME NEW q \in S, ~NoWorse(side, b, q) PROVE FALSE
  <2>1. b \in Int /\ q \in Int
    OBVIOUS
  <2>2. Up(q) \subseteq Up(b)
    <3>1. ASSUME NEW x \in S, NoWorse(side, x, q) PROVE NoWorse(side, x, b)
      BY <1>4, <2>1, <3>1 DEF NoWorse
    <3>2. QED
      BY <3>1
  <2>3. b \in Up(b) /\ b \notin Up(q)
    BY <1>4, <2>1 DEF NoWorse
  <2>4. IsFiniteSet(Up(b)) /\ Up(q) \in C
    BY <1>1, <1>3
  <2> HIDE DEF Up
  <2>5. /\ Cardinality(Up(q)) \in Nat /\ Cardinality(Up(b)) \in Nat
        /\ Cardinality(Up(q)) < Cardinality(Up(b))
    BY <2>2, <2>3, <2>4, FS_Subset, FS_CardinalityType
  <2>6. Cardinality(Up(b)) <= Cardinality(Up(q))
    BY <1>2, <1>3, <2>4
  <2>7. QED
    BY <2>5, <2>6
<1>5. QED
  BY <1>4

\* A level that is no worse has no more levels before it.
LEMMA WithinNested ==
  ASSUME NEW side \in Sides, NEW levels, IsSide(levels), NEW p \in DOMAIN levels, NEW q \in DOMAIN levels,
         NoWorse(side, q, p)
  PROVE  /\ Pipe!Within(side, levels, q) \subseteq Pipe!Within(side, levels, p)
         /\ Cardinality(Pipe!Within(side, levels, q)) \in Nat
         /\ Cardinality(Pipe!Within(side, levels, p)) \in Nat
         /\ Cardinality(Pipe!Within(side, levels, q)) <= Cardinality(Pipe!Within(side, levels, p))
         /\ q # p => Cardinality(Pipe!Within(side, levels, q)) < Cardinality(Pipe!Within(side, levels, p))
<1> DEFINE V == Pipe!Within(side, levels, q)
           W == Pipe!Within(side, levels, p)
<1>1. /\ \A x : x \in V <=> x \in DOMAIN levels /\ NoWorse(side, x, q)
      /\ \A x : x \in W <=> x \in DOMAIN levels /\ NoWorse(side, x, p)
      /\ IsFiniteSet(V) /\ IsFiniteSet(W) /\ p \in W
  BY WithinIs
<1> HIDE DEF V, W
<1>2. DOMAIN levels \subseteq Int
  BY DEF IsSide
<1>3. V \subseteq W
  <2>1. ASSUME NEW x \in V PROVE x \in W
    <3>1. x \in Int /\ NoWorse(side, x, q) /\ p \in Int /\ q \in Int
      BY <1>1, <1>2
    <3>2. NoWorse(side, x, p)
      BY <3>1 DEF NoWorse
    <3>3. QED
      BY <1>1, <3>2
  <2>2. QED
    BY <2>1
<1>4. q # p => p \notin V
  <2>1. p \in Int /\ q \in Int
    BY <1>2
  <2>2. NoWorse(side, p, q) => q = p
    BY <2>1 DEF NoWorse
  <2>3. QED
    BY <1>1, <2>2
<1>5. /\ Cardinality(V) \in Nat /\ Cardinality(W) \in Nat /\ Cardinality(V) <= Cardinality(W)
      /\ q # p => Cardinality(V) < Cardinality(W)
  BY <1>1, <1>3, <1>4, FS_Subset, FS_CardinalityType
<1>6. QED
  BY <1>3, <1>5 DEF V, W

\* The n best levels are those up to one of them, and they are n.
LEMMA TopIs ==
  ASSUME NEW side \in Sides, NEW levels, IsSide(levels), NEW n \in 1..Cardinality(DOMAIN levels)
  PROVE  /\ Cardinality(Pipe!TopLevels(side, levels, n)) = n
         /\ \E b \in DOMAIN levels : Pipe!TopLevels(side, levels, n) = Pipe!Within(side, levels, b)
<1> DEFINE D == DOMAIN levels
           W(p) == Pipe!Within(side, levels, p)
           Top(k) == {p \in D : Cardinality(W(p)) <= k}
           Good(k) == Cardinality(Top(k)) = k /\ \E b \in D : Top(k) = W(b)
           Bad == {k \in 1..Cardinality(D) : ~Good(k)}
<1>1. IsFiniteSet(D) /\ Cardinality(D) \in Nat /\ D \subseteq Int
  BY FS_CardinalityType DEF IsSide
<1>2. \A p \in D : /\ \A x : x \in W(p) <=> x \in D /\ NoWorse(side, x, p)
                   /\ IsFiniteSet(W(p)) /\ p \in W(p) /\ W(p) \subseteq D
  BY WithinIs
<1>3. \A p, q \in D : NoWorse(side, q, p) =>
        /\ W(q) \subseteq W(p)
        /\ Cardinality(W(q)) \in Nat /\ Cardinality(W(p)) \in Nat /\ Cardinality(W(q)) <= Cardinality(W(p))
        /\ q # p => Cardinality(W(q)) < Cardinality(W(p))
  BY WithinNested
<1>4. \A p \in D : NoWorse(side, p, p)
  BY <1>1 DEF NoWorse
<1>5. \A p, q \in D : NoWorse(side, p, q) \/ NoWorse(side, q, p)
  BY <1>1 DEF NoWorse
<1>6. \A p, q \in D : NoWorse(side, p, q) /\ NoWorse(side, q, p) => p = q
  BY <1>1 DEF NoWorse
<1>7. Pipe!TopLevels(side, levels, n) = Top(n)
  <2>1. Pipe!TopLevels(side, levels, n) = {p \in D : Pipe!Cardinality(W(p)) <= n}
    BY DEF Pipe!TopLevels
  <2>2. \A p \in D : Pipe!Cardinality(W(p)) = Cardinality(W(p))
    BY SameBookSize
  <2> HIDE DEF W, D
  <2>3. QED
    BY <2>1, <2>2
<1>8. \A p \in D : Cardinality(W(p)) \in Nat \ {0}
  <2> SUFFICES ASSUME NEW p \in D PROVE Cardinality(W(p)) \in Nat \ {0}
    OBVIOUS
  <2>1. IsFiniteSet(W(p)) /\ W(p) # {}
    BY <1>2
  <2> HIDE DEF W
  <2>2. QED
    BY <2>1, FS_CardinalityType, FS_EmptySet
<1> HIDE DEF W
<1>9. ASSUME Bad # {} PROVE FALSE
  <2>1. Bad \in SUBSET Nat
    BY <1>1
  <2>2. PICK m \in Bad : \A k \in Bad : m <= k
    BY <1>9, <2>1, NatLeast
  <2>3. m \in 1..Cardinality(D) /\ m - 1 \in Nat /\ m \in Nat
    BY <1>1, <2>2
  <2> DEFINE Prev == Top(m - 1)
  <2>4. Cardinality(Prev) = m - 1
    <3>1. CASE m = 1
      <4>1. Prev = {}
        BY <1>8, <3>1
      <4>2. QED
        BY <3>1, <4>1, FS_EmptySet
    <3>2. CASE m # 1
      <4>1. m - 1 \in 1..Cardinality(D) /\ ~(m <= m - 1)
        BY <1>1, <2>3, <3>2
      <4>2. m - 1 \notin Bad
        BY <2>2, <4>1
      <4>3. QED
        BY <4>1, <4>2
    <3>3. QED
      BY <3>1, <3>2
  <2>5. Prev \subseteq D /\ Prev # D
    BY <1>1, <2>3, <2>4
  <2>6. IsFiniteSet(Prev) /\ IsFiniteSet(D \ Prev) /\ D \ Prev # {}
    BY <1>1, <2>5, FS_Subset
  <2>7. PICK b \in D \ Prev : \A q \in D \ Prev : NoWorse(side, b, q)
    <3> HIDE DEF Prev
    <3>1. D \ Prev \subseteq Int
      BY <1>1
    <3>2. QED
      BY <2>6, <3>1, BestOf
  <2>8. Cardinality(W(b)) > m - 1
    BY <1>8, <2>3, <2>7
  <2>9. W(b) = Prev \cup {b}
    <3>1. ASSUME NEW q \in W(b), q # b PROVE q \in Prev
      BY <1>2, <1>6, <2>7, <3>1
    <3>2. ASSUME NEW q \in Prev PROVE q \in W(b)
      <4>1. q \in D /\ Cardinality(W(q)) <= m - 1 /\ Cardinality(W(q)) \in Nat /\ Cardinality(W(b)) \in Nat
        BY <1>8, <2>7
      <4>2. ~NoWorse(side, b, q)
        BY <1>3, <2>3, <2>7, <2>8, <4>1
      <4>3. NoWorse(side, q, b)
        BY <1>5, <2>7, <4>1, <4>2
      <4>4. QED
        BY <1>2, <2>7, <4>1, <4>3
    <3>3. b \in W(b)
      BY <1>2, <2>7
    <3>4. QED
      BY <3>1, <3>2, <3>3
  <2>10. Cardinality(W(b)) = m
    <3> HIDE DEF Prev
    <3>1. Cardinality(Prev \cup {b}) = Cardinality(Prev) + 1
      BY <2>6, <2>7, FS_AddElement
    <3>2. QED
      BY <2>3, <2>4, <2>9, <3>1
  <2>11. Top(m) = W(b)
    <3>1. ASSUME NEW q \in Top(m) PROVE q \in W(b)
      <4>1. q \in D /\ Cardinality(W(q)) <= m /\ Cardinality(W(q)) \in Nat /\ b \in D
        BY <1>8, <2>7
      <4>2. ASSUME ~NoWorse(side, q, b) PROVE FALSE
        <5>1. NoWorse(side, b, q) /\ q # b
          BY <1>4, <1>5, <4>1, <4>2
        <5>2. Cardinality(W(b)) < Cardinality(W(q))
          BY <1>3, <4>1, <5>1
        <5>3. QED
          BY <2>3, <2>10, <4>1, <5>2
      <4>3. QED
        BY <1>2, <4>1, <4>2
    <3>2. ASSUME NEW q \in W(b) PROVE q \in Top(m)
      <4>1. q \in D /\ NoWorse(side, q, b) /\ b \in D
        BY <1>2, <2>7
      <4>2. Cardinality(W(q)) <= m
        BY <1>3, <2>10, <4>1
      <4>3. QED
        BY <4>1, <4>2
    <3>3. QED
      BY <3>1, <3>2
  <2>12. Good(m)
    BY <2>7, <2>10, <2>11
  <2>13. QED
    BY <2>2, <2>12
<1>10. Good(n)
  BY <1>9
<1>11. QED
  BY <1>7, <1>10 DEF W

\* A walk for the quantity up to a level takes that quantity, at no more than its price.
LEMMA WalkIs ==
  ASSUME NEW side \in Sides, NEW levels, IsSide(levels), NEW limit \in DOMAIN levels
  PROVE  LET depth == Depth(side, levels, limit)
             value == Pipe!WalkValue(side, levels, depth)
         IN  /\ Pipe!WalkQuantity(side, levels, depth) = depth
             /\ IF side = "buy" THEN value <= limit * depth ELSE value >= limit * depth
             /\ (\A p \in DOMAIN levels : NoWorse(side, limit, p)) => value = limit * depth
<1> DEFINE D == DOMAIN levels
           W == Pipe!Within(side, levels, limit)
           depth == Depth(side, levels, limit)
           fill == [p \in D |-> Pipe!Fill(side, levels, p, depth)]
           paid == [p \in D |-> p * Pipe!Fill(side, levels, p, depth)]
           bound == [p \in D |-> limit * fill[p]]
           value == Pipe!WalkValue(side, levels, depth)
<1>1. /\ IsFiniteSet(D) /\ D \subseteq Int /\ limit \in Int
      /\ \A p \in D : levels[p] \in Nat
  BY DEF IsSide
<1>2. /\ \A p : p \in W <=> p \in D /\ NoWorse(side, p, limit)
      /\ W \in SUBSET D /\ IsFiniteSet(W) /\ depth \in Int
  BY WithinIs
<1>3. \A p \in D : fill[p] = IF NoWorse(side, p, limit) THEN levels[p] ELSE 0
  BY FillIs
<1>4. \A p \in D : fill[p] \in Nat /\ paid[p] = p * fill[p] /\ bound[p] = limit * fill[p]
                   /\ paid[p] \in Int /\ bound[p] \in Int
  <2> SUFFICES ASSUME NEW p \in D PROVE fill[p] \in Nat /\ paid[p] = p * fill[p] /\ bound[p] = limit * fill[p]
                                        /\ paid[p] \in Int /\ bound[p] \in Int
    OBVIOUS
  <2>1. fill[p] \in Nat /\ p \in Int
    BY <1>1, <1>3
  <2>2. paid[p] = p * fill[p] /\ bound[p] = limit * fill[p]
    OBVIOUS
  <2> HIDE DEF fill, paid, bound
  <2>3. p * fill[p] \in Int /\ limit * fill[p] \in Int
    BY <1>1, <2>1
  <2>4. QED
    BY <2>1, <2>2, <2>3
<1>5. Pipe!WalkQuantity(side, levels, depth) = SumFunctionOnSet(fill, D) /\ value = SumFunctionOnSet(paid, D)
  <2>1. DOMAIN fill = D /\ DOMAIN paid = D
    OBVIOUS
  <2>2. Pipe!WalkQuantity(side, levels, depth) = Pipe!SumFunction(fill) /\ value = Pipe!SumFunction(paid)
    BY DEF Pipe!WalkQuantity, Pipe!WalkValue
  <2>3. Pipe!SumFunction(fill) = Pipe!SumFunctionOnSet(fill, DOMAIN fill)
        /\ Pipe!SumFunction(paid) = Pipe!SumFunctionOnSet(paid, DOMAIN paid)
    BY DEF Pipe!SumFunction
  <2> HIDE DEF fill, paid, D, depth
  <2>4. QED
    BY <2>1, <2>2, <2>3, SameBookSum
<1>6. SumFunctionOnSet(levels, W) = depth
  BY DEF Depth
<1> HIDE DEF fill, paid, bound, value, D, W, depth
<1>7. SumFunctionOnSet(fill, D) = depth
  <2>1. \A p \in D \ W : fill[p] = 0
    BY <1>2, <1>3
  <2>2. SumFunctionOnSet(fill, W) = SumFunctionOnSet(fill, D)
    BY <1>1, <1>2, <1>4, <2>1, SumOverPart
  <2>3. \A p \in W : levels[p] \in Int /\ levels[p] = fill[p]
    BY <1>1, <1>2, <1>3
  <2>4. SumFunctionOnSet(levels, W) = SumFunctionOnSet(fill, W)
    BY <1>2, <2>3, SumCong
  <2>5. QED
    BY <1>6, <2>2, <2>4
<1>8. SumFunctionOnSet(bound, D) = limit * depth
  <2>1. \A p \in D : fill[p] \in Int /\ bound[p] = limit * fill[p]
    BY <1>4
  <2>2. QED
    BY <1>1, <1>7, <2>1, SumScaled
<1>9. ASSUME NEW p \in D
      PROVE  /\ IF side = "buy" THEN paid[p] <= bound[p] ELSE bound[p] <= paid[p]
             /\ NoWorse(side, limit, p) => paid[p] = bound[p]
  <2>1. p \in Int /\ limit \in Int /\ levels[p] \in Nat
    BY <1>1
  <2>2. CASE NoWorse(side, p, limit)
    <3>1. IF side = "buy" THEN p * levels[p] <= limit * levels[p] ELSE limit * levels[p] <= p * levels[p]
      BY <2>1, <2>2 DEF NoWorse
    <3>2. NoWorse(side, limit, p) => p = limit
      BY <2>1, <2>2 DEF NoWorse
    <3>3. fill[p] = levels[p] /\ paid[p] = p * levels[p] /\ bound[p] = limit * levels[p]
      BY <1>3, <1>4, <2>2
    <3>4. QED
      BY <3>1, <3>2, <3>3
  <2>3. CASE ~NoWorse(side, p, limit)
    <3>1. paid[p] = p * 0 /\ bound[p] = limit * 0
      BY <1>3, <1>4, <2>3
    <3>2. p * 0 = 0 /\ limit * 0 = 0
      BY <2>1
    <3>3. QED
      BY <3>1, <3>2
  <2>4. QED
    BY <2>2, <2>3
<1>10. IF side = "buy" THEN value <= limit * depth ELSE limit * depth <= value
  <2>1. CASE side = "buy"
    <3>1. \A p \in D : paid[p] \in Int /\ bound[p] \in Int /\ paid[p] <= bound[p]
      BY <1>4, <1>9, <2>1
    <3>2. SumFunctionOnSet(paid, D) <= SumFunctionOnSet(bound, D)
      BY <1>1, <3>1, SumOrdered
    <3>3. QED
      BY <1>5, <1>8, <2>1, <3>2
  <2>2. CASE side # "buy"
    <3>1. \A p \in D : paid[p] \in Int /\ bound[p] \in Int /\ bound[p] <= paid[p]
      BY <1>4, <1>9, <2>2
    <3>2. SumFunctionOnSet(bound, D) <= SumFunctionOnSet(paid, D)
      BY <1>1, <3>1, SumOrdered
    <3>3. QED
      BY <1>5, <1>8, <2>2, <3>2
  <2>3. QED
    BY <2>1, <2>2
<1>11. ASSUME \A p \in D : NoWorse(side, limit, p) PROVE value = limit * depth
  <2>1. \A p \in D : paid[p] \in Int /\ paid[p] = bound[p]
    BY <1>4, <1>9, <1>11
  <2>2. SumFunctionOnSet(paid, D) = SumFunctionOnSet(bound, D)
    BY <1>1, <2>1, SumCong
  <2>3. QED
    BY <1>5, <1>8, <2>2
<1>12. value \in Int /\ limit * depth \in Int
  <2>1. \A p \in D : paid[p] \in Int
    BY <1>4
  <2>2. SumFunctionOnSet(paid, D) \in Int
    BY <1>1, <2>1, SumType
  <2>3. QED
    BY <1>1, <1>2, <1>5, <2>2
<1>13. IF side = "buy" THEN value <= limit * depth ELSE value >= limit * depth
  BY <1>10, <1>12
<1>14. QED
  BY <1>5, <1>7, <1>11, <1>13 DEF value, depth, D

\* The best price is one that no other is better than.
LEMMA BestIs ==
  ASSUME NEW side \in Sides, NEW levels, IsSide(levels),
         NEW limit \in (IF side = "buy" THEN Pipe!BestAsk(levels) ELSE Pipe!BestBid(levels)),
         NEW p \in DOMAIN levels
  PROVE  NoWorse(side, limit, p)
<1> DEFINE D == DOMAIN levels
<1>1. IsFiniteSet(D) /\ D \subseteq Int /\ D # {}
  BY DEF IsSide
<1>2. levels # <<>>
  BY <1>1
<1>3. \E b \in D : \A q \in D : NoWorse(side, b, q)
  BY <1>1, BestOf
<1>4. CASE side = "buy"
  <2>1. limit = Pipe!Min(D)
    BY <1>2, <1>4 DEF Pipe!BestAsk, Pipe!NoLevels
  <2>2. limit = CHOOSE x \in D : \A y \in D : x <= y
    BY <2>1 DEF Pipe!Min
  <2>3. \E x \in D : \A y \in D : x <= y
    BY <1>3, <1>4 DEF NoWorse
  <2>4. limit \in D /\ \A y \in D : limit <= y
    BY <2>2, <2>3
  <2>5. QED
    BY <1>4, <2>4 DEF NoWorse
<1>5. CASE side # "buy"
  <2>1. limit = Pipe!Max(D)
    BY <1>2, <1>5 DEF Pipe!BestBid, Pipe!NoLevels
  <2>2. limit = CHOOSE x \in D : \A y \in D : x >= y
    BY <2>1 DEF Pipe!Max
  <2>3. \E x \in D : \A y \in D : x >= y
    BY <1>3, <1>5 DEF NoWorse
  <2>4. limit \in D /\ \A y \in D : limit >= y
    BY <2>2, <2>3
  <2>5. QED
    BY <1>5, <2>4 DEF NoWorse
<1>6. QED
  BY <1>4, <1>5

\* A walk for the quantity of the n best levels takes from them and from no other.
LEMMA TopIsWalked ==
  ASSUME NEW side \in Sides, NEW levels, IsSide(levels), NEW n \in 1..Cardinality(DOMAIN levels),
         NEW p \in DOMAIN levels
  PROVE  (Pipe!Fill(side, levels, p, Pipe!TopQuantity(side, levels, n)) > 0)
           <=> p \in Pipe!TopLevels(side, levels, n)
<1>1. PICK b \in DOMAIN levels : Pipe!TopLevels(side, levels, n) = Pipe!Within(side, levels, b)
  BY TopIs
<1>2. Pipe!TopQuantity(side, levels, n) = Depth(side, levels, b)
  BY <1>1, SameBookSum DEF Pipe!TopQuantity, Depth
<1>3. Pipe!Fill(side, levels, p, Depth(side, levels, b)) = IF NoWorse(side, p, b) THEN levels[p] ELSE 0
  BY FillIs
<1>4. p \in Pipe!Within(side, levels, b) <=> NoWorse(side, p, b)
  BY WithinIs
<1>5. levels[p] \in Nat \ {0}
  BY DEF IsSide
<1>6. QED
  BY <1>1, <1>2, <1>3, <1>4, <1>5

LEMMA ViewsAgree == ASSUME BooksInv PROVE BookViewsAgree
<1> SUFFICES ASSUME NEW side \in Sides
             PROVE  LET levels == IF side = "buy" THEN asks ELSE bids
                        worse(limit, x) == IF side = "buy" THEN x <= limit ELSE x >= limit
                    IN  /\ \A limit \in DOMAIN levels :
                             LET depth == Pipe!DepthToPrice(side, levels, limit)
                                 value == Pipe!WalkValue(side, levels, depth)
                             IN  /\ Pipe!WalkQuantity(side, levels, depth) = depth
                                 /\ worse(limit * depth, value)
                                 /\ limit \in (IF side = "buy" THEN Pipe!BestAsk(levels) ELSE Pipe!BestBid(levels)) =>
                                      value = limit * depth
                        /\ \A n \in 1..Pipe!Cardinality(DOMAIN levels) :
                             LET top == Pipe!TopLevels(side, levels, n) IN
                             /\ Pipe!Cardinality(top) = n
                             /\ \A p \in DOMAIN levels :
                                  (Pipe!Fill(side, levels, p, Pipe!TopQuantity(side, levels, n)) > 0) <=> p \in top
  BY DEF BookViewsAgree, Pipe!BookViewsAgree, Sides
<1> DEFINE levels == IF side = "buy" THEN asks ELSE bids
<1>1. IsSide(levels)
  BY DEF BooksInv
<1> HIDE DEF levels
<1>2. ASSUME NEW limit \in DOMAIN levels
      PROVE  LET depth == Pipe!DepthToPrice(side, levels, limit)
                 value == Pipe!WalkValue(side, levels, depth)
             IN  /\ Pipe!WalkQuantity(side, levels, depth) = depth
                 /\ IF side = "buy" THEN value <= limit * depth ELSE value >= limit * depth
                 /\ limit \in (IF side = "buy" THEN Pipe!BestAsk(levels) ELSE Pipe!BestBid(levels)) =>
                      value = limit * depth
  <2>1. Pipe!DepthToPrice(side, levels, limit) = Depth(side, levels, limit)
    BY <1>1, WithinIs
  <2>2. limit \in (IF side = "buy" THEN Pipe!BestAsk(levels) ELSE Pipe!BestBid(levels)) =>
          \A p \in DOMAIN levels : NoWorse(side, limit, p)
    BY <1>1, BestIs
  <2> DEFINE depth == Depth(side, levels, limit)
             value == Pipe!WalkValue(side, levels, depth)
  <2>3. /\ Pipe!WalkQuantity(side, levels, depth) = depth
        /\ IF side = "buy" THEN value <= limit * depth ELSE value >= limit * depth
        /\ (\A p \in DOMAIN levels : NoWorse(side, limit, p)) => value = limit * depth
    BY <1>1, WalkIs
  <2>4. QED
    BY <2>1, <2>2, <2>3
<1>3. ASSUME NEW n \in 1..Pipe!Cardinality(DOMAIN levels)
      PROVE  LET top == Pipe!TopLevels(side, levels, n) IN
             /\ Pipe!Cardinality(top) = n
             /\ \A p \in DOMAIN levels :
                  (Pipe!Fill(side, levels, p, Pipe!TopQuantity(side, levels, n)) > 0) <=> p \in top
  <2>1. n \in 1..Cardinality(DOMAIN levels)
    BY SameBookSize
  <2>2. Cardinality(Pipe!TopLevels(side, levels, n)) = n
    BY <1>1, <2>1, TopIs
  <2>3. \A p \in DOMAIN levels :
          (Pipe!Fill(side, levels, p, Pipe!TopQuantity(side, levels, n)) > 0)
            <=> p \in Pipe!TopLevels(side, levels, n)
    BY <1>1, <2>1, TopIsWalked
  <2>4. QED
    BY <2>2, <2>3, SameBookSize
<1>4. QED
  BY <1>2, <1>3 DEF levels

\* What is read off the level-2 book agrees (order_book.hpp: vwap, depth_to_price,
\* get_top_levels, the best prices), for any trades and any depth: a quantity that the
\* levels up to a limit hold is bought whole and at an average no worse than the limit,
\* at the best level for exactly its price, and the top levels are what a walk for
\* their quantity takes from.
THEOREM ViewsOfTheBookAgree ==
  ASSUME Pipe!TapeAssumption, Pipe!OptionsAssumption PROVE Pipe!Spec => []BookViewsAgree
<1>1. Pipe!Init => BooksInv
  BY BooksStart
<1>2. BooksInv /\ [Pipe!Next]_(Pipe!vars) => BooksInv'
  BY BooksKept
<1>3. BooksInv => BookViewsAgree
  BY ViewsAgree
<1>4. QED
  BY <1>1, <1>2, <1>3, PTL DEF Pipe!Spec

-------------------------------------------------------------------------------
(* The schedule of the pipeline tool.                                      *)

LEMMA QuotientBounds ==
  ASSUME NEW d \in Nat \ {0}, NEW a \in Int
  PROVE  a \div d \in Int /\ d * (a \div d) <= a /\ a < d * (a \div d) + d
<1>1. a \div d \in Int /\ a % d \in 0..(d - 1) /\ a = (a \div d) * d + (a % d)
  BY DivMod
<1>2. (a \div d) * d = d * (a \div d) /\ d * (a \div d) \in Int
  BY <1>1
<1>3. QED
  BY <1>1, <1>2

LEMMA QuotientsApart ==
  ASSUME NEW d \in Nat \ {0}, NEW a \in Int, NEW b \in Int, NEW k \in Int, a + k * d <= b
  PROVE  (a \div d) + k <= b \div d
<1> DEFINE p == a \div d
           q == b \div d
<1>1. /\ p \in Int /\ q \in Int /\ d * p <= a /\ b < d * q + d
  BY QuotientBounds
<1> HIDE DEF p, q
<1>2. ASSUME q <= p + k - 1 PROVE FALSE
  <2>1. d * q <= d * (p + k - 1)
    BY <1>1, <1>2
  <2>2. d * (p + k - 1) = d * p + k * d - d
    BY <1>1
  <2>3. d * q \in Int /\ d * p \in Int /\ k * d \in Int
    BY <1>1
  <2>4. QED
    BY <1>1, <2>1, <2>2, <2>3
<1>3. p + k <= q
  BY <1>1, <1>2
<1>4. QED
  BY <1>3 DEF p, q

LEMMA QuotientOfProduct ==
  ASSUME NEW d \in Nat \ {0}, NEW u \in Int PROVE (u * d) \div d = u
<1>1. u * d \in Int /\ 0 \in Int /\ -u * d = -(u * d)
  OBVIOUS
<1>2. 0 \div d = 0
  <2>1. 0 \div d \in Int /\ d * (0 \div d) <= 0 /\ 0 < d * (0 \div d) + d
    BY QuotientBounds
  <2>2. ASSUME 0 \div d >= 1 PROVE FALSE
    BY <2>1, <2>2
  <2>3. ASSUME 0 \div d <= -1 PROVE FALSE
    BY <2>1, <2>3
  <2>4. QED
    BY <2>1, <2>2, <2>3
<1>3. (0 \div d) + u <= (u * d) \div d
  BY <1>1, QuotientsApart
<1>4. ((u * d) \div d) + (-u) <= 0 \div d
  BY <1>1, QuotientsApart
<1>5. (u * d) \div d \in Int
  BY <1>1, QuotientBounds
<1>6. QED
  BY <1>2, <1>3, <1>4, <1>5

LEMMA SameMembers == ASSUME NEW S PROVE Stages!Cardinality(S) = Cardinality(S)
BY DEF Stages!Cardinality, Cardinality

\* Trades are in the order of their times.
LEMMA TapeIsSorted ==
  ASSUME Stages!ScheduleAssumption, NEW t \in Stages!Tapes, NEW i \in 1..N, NEW j \in 1..N, i <= j
  PROVE  t[i] <= t[j]
<1>1. /\ N \in Nat \ {0} /\ \A k \in 1..N : t[k] \in Int
      /\ \A k \in 1..(N - 1) : t[k] <= t[k + 1]
  BY DEF Stages!Tapes, Stages!ScheduleAssumption
<1> DEFINE Bad == {k \in i..N : t[k] < t[i]}
<1>2. ASSUME Bad # {} PROVE FALSE
  <2>1. Bad \in SUBSET Nat
    BY <1>1
  <2>2. PICK m \in Bad : \A n \in Bad : m <= n
    BY <1>2, <2>1, NatLeast
  <2>3. m \in i..N /\ t[m] < t[i] /\ m # i
    BY <1>1, <2>2
  <2>4. m - 1 \in i..N /\ m - 1 \in 1..(N - 1) /\ m - 1 \notin Bad
    BY <1>1, <2>2, <2>3
  <2>5. t[m - 1] >= t[i] /\ t[m - 1] <= t[m]
    <3>1. t[m - 1] <= t[(m - 1) + 1] /\ (m - 1) + 1 = m
      BY <1>1, <2>3, <2>4
    <3>2. QED
      BY <1>1, <2>4, <3>1
  <2>6. QED
    BY <1>1, <2>3, <2>4, <2>5
<1>3. QED
  BY <1>1, <1>2

\* The place of a trade in its millisecond, from 0, and how many there are in it.
Place(t, i) == i - Stages!Min(Stages!Cluster(t, i))
Crowd(t, i) == Cardinality(Stages!Cluster(t, i))

LEMMA PlaceInCrowd ==
  ASSUME Stages!ScheduleAssumption, NEW t \in Stages!Tapes, NEW i \in 1..N
  PROVE  Crowd(t, i) \in Nat \ {0} /\ Place(t, i) \in Nat /\ Place(t, i) < Crowd(t, i)
<1> DEFINE C == Stages!Cluster(t, i)
           a == Stages!Min(C)
<1>1. DOMAIN t = 1..N /\ N \in Nat /\ \A k \in 1..N : t[k] \in Int
  BY DEF Stages!Tapes, Stages!ScheduleAssumption
<1>2. C = {j \in 1..N : t[j] = t[i]}
  BY <1>1 DEF Stages!Cluster
<1>3. C \in SUBSET Nat /\ i \in C
  BY <1>1, <1>2
<1>4. a \in C /\ \A j \in C : a <= j
  <2>1. \E m \in C : \A n \in C : m <= n
    BY <1>3, NatLeast
  <2>2. QED
    BY <2>1 DEF Stages!Min
<1>5. a..i \subseteq C
  <2> SUFFICES ASSUME NEW k \in a..i PROVE k \in C
    OBVIOUS
  <2>1. k \in 1..N /\ a \in 1..N /\ a <= k /\ k <= i /\ t[a] = t[i]
    BY <1>1, <1>2, <1>4
  <2>2. t[a] <= t[k] /\ t[k] <= t[i]
    BY <2>1, TapeIsSorted
  <2>3. QED
    BY <1>1, <1>2, <2>1, <2>2
<1>6. IsFiniteSet(C)
  <2>1. IsFiniteSet(1..N)
    BY <1>1, FS_Interval
  <2>2. QED
    BY <1>2, <2>1, FS_Subset
<1>7. Cardinality(a..i) = i - a + 1
  <2>1. a \in Int /\ i \in Int /\ a <= i
    BY <1>3, <1>4
  <2>2. QED
    BY <2>1, FS_Interval
<1>8. Cardinality(a..i) <= Cardinality(C) /\ Cardinality(C) \in Nat
  BY <1>5, <1>6, FS_Subset, FS_CardinalityType
<1>9. a \in Nat /\ a <= i /\ i \in Nat
  BY <1>3, <1>4
<1>10. QED
  BY <1>7, <1>8, <1>9 DEF Place, Crowd

\* How far into its millisecond the k-th of c trades is.
Spread(k, c) == (UnitsPerMs * k) \div c

LEMMA SpreadMoves ==
  ASSUME Stages!ScheduleAssumption, NEW c \in Nat \ {0}, NEW k \in Nat, NEW j \in Nat, k < j,
         NEW s \in Nat, s * c <= UnitsPerMs
  PROVE  Spread(k, c) \in Int /\ Spread(j, c) \in Int /\ Spread(k, c) + s <= Spread(j, c)
<1>1. UnitsPerMs \in Nat \ {0}
  BY DEF Stages!ScheduleAssumption
<1> DEFINE p == UnitsPerMs * k
           q == UnitsPerMs * j
<1>2. p \in Int /\ q \in Int /\ s * c \in Int /\ UnitsPerMs * (k + 1) = p + UnitsPerMs
  BY <1>1
<1>3. UnitsPerMs * (k + 1) <= q
  BY <1>1
<1>4. p + s * c <= q
  BY <1>1, <1>2, <1>3
<1> HIDE DEF p, q
<1>5. p \div c \in Int /\ q \div c \in Int /\ (p \div c) + s <= q \div c
  BY <1>2, <1>4, QuotientsApart, QuotientBounds
<1>6. QED
  BY <1>5 DEF Spread, p, q

LEMMA SpreadInside ==
  ASSUME Stages!ScheduleAssumption, NEW c \in Nat \ {0}, NEW k \in Nat, k < c
  PROVE  Spread(k, c) \in 0..(UnitsPerMs - 1) /\ Spread(c, c) = UnitsPerMs
<1>1. UnitsPerMs \in Nat \ {0}
  BY DEF Stages!ScheduleAssumption
<1> DEFINE q == (UnitsPerMs * k) \div c
<1>2. UnitsPerMs * k \in Nat /\ UnitsPerMs * c \in Nat
  BY <1>1
<1>3. q \in Int /\ c * q <= UnitsPerMs * k /\ UnitsPerMs * k < c * q + c
  BY <1>2, QuotientBounds
<1> HIDE DEF q
<1>4. q >= 0
  <2>1. ASSUME q <= -1 PROVE FALSE
    <3>1. c * q <= c * (-1) /\ c * q \in Int
      BY <2>1, <1>3
    <3>2. QED
      BY <3>1, <1>2, <1>3
  <2>2. QED
    BY <2>1, <1>3
<1>5. q < UnitsPerMs
  <2>1. ASSUME q >= UnitsPerMs PROVE FALSE
    <3>1. c * q >= c * UnitsPerMs /\ c * UnitsPerMs = UnitsPerMs * c /\ c * q \in Int
      BY <2>1, <1>1, <1>3
    <3>2. UnitsPerMs * k < UnitsPerMs * c
      BY <1>1
    <3>3. QED
      BY <3>1, <3>2, <1>2, <1>3
  <2>2. QED
    BY <2>1, <1>1, <1>3
<1>6. (UnitsPerMs * c) \div c = UnitsPerMs
  BY <1>1, QuotientOfProduct
<1>7. QED
  BY <1>1, <1>3, <1>4, <1>5, <1>6 DEF Spread, q
\* The milliseconds before a trade's own.
Start(t, i) == (t[i] - t[1]) * UnitsPerMs

LEMMA OffsetIs ==
  ASSUME Stages!ScheduleAssumption, NEW t \in Stages!Tapes, NEW i \in 1..N
  PROVE  /\ Stages!Offset(t, i) = Start(t, i) + Spread(Place(t, i), Crowd(t, i))
         /\ Start(t, i) \in Nat /\ Stages!Offset(t, i) \in Nat
         /\ Start(t, i) <= Stages!Offset(t, i) /\ Stages!Offset(t, i) < Start(t, i) + UnitsPerMs
<1>1. Stages!Offset(t, i) = Start(t, i) + Spread(Place(t, i), Crowd(t, i))
  BY SameMembers DEF Stages!Offset, Start, Spread, Place, Crowd
<1>2. Spread(Place(t, i), Crowd(t, i)) \in 0..(UnitsPerMs - 1) /\ UnitsPerMs \in Nat \ {0}
  BY PlaceInCrowd, SpreadInside DEF Stages!ScheduleAssumption
<1>3. Start(t, i) \in Nat
  <2>1. t[i] - t[1] \in Nat
    <3>1. 1 \in 1..N /\ 1 <= i /\ t[1] \in Int /\ t[i] \in Int
      BY DEF Stages!Tapes, Stages!ScheduleAssumption
    <3>2. QED
      BY <3>1, TapeIsSorted
  <2>2. QED
    BY <1>2, <2>1 DEF Start
<1>4. QED
  BY <1>1, <1>2, <1>3

\* The next trade's offset, and by how much it is later.
LEMMA NextOffset ==
  ASSUME Stages!ScheduleAssumption, NEW t \in Stages!Tapes, NEW i \in 1..N, i < N,
         NEW s \in Nat, s * Crowd(t, i) <= UnitsPerMs
  PROVE  Stages!Offset(t, i) + s <= Stages!Offset(t, i + 1)
<1>1. /\ N \in Nat /\ i + 1 \in 1..N /\ UnitsPerMs \in Nat \ {0} /\ DOMAIN t = 1..N
      /\ t[1] \in Int /\ t[i] \in Int /\ t[i + 1] \in Int /\ t[i] <= t[i + 1]
  BY DEF Stages!Tapes, Stages!ScheduleAssumption
<1> DEFINE c == Crowd(t, i)
           k == Place(t, i)
           o == Stages!Offset(t, i)
           n == Stages!Offset(t, i + 1)
<1>2. c \in Nat \ {0} /\ k \in Nat /\ k < c
  BY PlaceInCrowd
<1>3. /\ o = Start(t, i) + Spread(k, c) /\ n = Start(t, i + 1) + Spread(Place(t, i + 1), Crowd(t, i + 1))
      /\ o \in Nat /\ n \in Nat /\ Start(t, i) \in Nat /\ Start(t, i + 1) \in Nat /\ Start(t, i + 1) <= n
  BY <1>1, OffsetIs
<1>4. CASE t[i] = t[i + 1]
  <2>1. Stages!Cluster(t, i + 1) = Stages!Cluster(t, i)
    BY <1>4 DEF Stages!Cluster
  <2>2. Crowd(t, i + 1) = c
    BY <2>1 DEF Crowd
  <2>3. Place(t, i + 1) = k + 1
    <3>1. k = i - Stages!Min(Stages!Cluster(t, i)) /\ Place(t, i + 1) = (i + 1) - Stages!Min(Stages!Cluster(t, i))
      BY <2>1 DEF Place
    <3>2. Stages!Min(Stages!Cluster(t, i)) \in Int
      <4>1. i \in Stages!Cluster(t, i) /\ Stages!Cluster(t, i) \in SUBSET Nat
        BY <1>1 DEF Stages!Cluster
      <4>2. \E m \in Stages!Cluster(t, i) : \A x \in Stages!Cluster(t, i) : m <= x
        BY <4>1, NatLeast
      <4>3. QED
        BY <4>1, <4>2 DEF Stages!Min
    <3>3. QED
      BY <3>1, <3>2, <1>1
  <2>4. Start(t, i + 1) = Start(t, i)
    BY <1>4 DEF Start
  <2>5. Spread(k, c) + s <= Spread(k + 1, c) /\ Spread(k, c) \in Int /\ Spread(k + 1, c) \in Int
    BY <1>2, SpreadMoves
  <2>6. QED
    BY <1>3, <2>2, <2>3, <2>4, <2>5
<1>5. CASE t[i] < t[i + 1]
  <2>1. Start(t, i) + UnitsPerMs <= Start(t, i + 1)
    <3>1. (t[i] - t[1]) + 1 <= t[i + 1] - t[1]
      BY <1>1, <1>5
    <3>2. ((t[i] - t[1]) + 1) * UnitsPerMs <= (t[i + 1] - t[1]) * UnitsPerMs
      BY <1>1, <3>1
    <3>3. ((t[i] - t[1]) + 1) * UnitsPerMs = (t[i] - t[1]) * UnitsPerMs + UnitsPerMs
      BY <1>1
    <3>4. QED
      BY <3>2, <3>3 DEF Start
  <2>2. Spread(k, c) + s <= UnitsPerMs /\ Spread(k, c) \in Int
    BY <1>2, SpreadMoves, SpreadInside
  <2>3. QED
    BY <1>1, <1>3, <2>1, <2>2
<1>6. QED
  BY <1>1, <1>4, <1>5

\* The clock's time of a trade is its offset at the replay's speed, rounded down.
LEMMA DueIs ==
  ASSUME Stages!ScheduleAssumption, NEW t \in Stages!Tapes, NEW i \in 1..N
  PROVE  /\ Stages!Due(t, i) = Stages!Offset(t, i) \div Speed /\ Stages!Due(t, i) \in Int
         /\ Start(t, i) <= Speed * Stages!Due(t, i) + Speed - 1
         /\ Speed * Stages!Due(t, i) < Start(t, i) + UnitsPerMs
<1> DEFINE o == Stages!Offset(t, i)
           d == o \div Speed
           s == Start(t, i)
<1>1. Speed \in Nat \ {0} /\ UnitsPerMs \in Nat \ {0}
  BY DEF Stages!ScheduleAssumption
<1>2. o \in Nat /\ s \in Nat /\ s <= o /\ o < s + UnitsPerMs
  BY OffsetIs
<1>3. Stages!Due(t, i) = d
  BY DEF Stages!Due
<1> HIDE DEF o, s
<1>4. d \in Int /\ Speed * d <= o /\ o < Speed * d + Speed
  BY <1>1, <1>2, QuotientBounds
<1> HIDE DEF d
<1>5. Speed * d \in Int
  BY <1>1, <1>4
<1>6. s <= Speed * d + Speed - 1 /\ Speed * d < s + UnitsPerMs
  BY <1>1, <1>2, <1>4, <1>5
<1>7. QED
  BY <1>3, <1>4, <1>6 DEF d, o, s

\* What is k clock units later in offset is due k units later at least.
LEMMA DueApart ==
  ASSUME Stages!ScheduleAssumption, NEW t \in Stages!Tapes, NEW i \in 1..N, i < N,
         NEW k \in Nat, k * Speed * Crowd(t, i) <= UnitsPerMs
  PROVE  Stages!Due(t, i) + k <= Stages!Due(t, i + 1)
<1> DEFINE o == Stages!Offset(t, i)
           n == Stages!Offset(t, i + 1)
           s == k * Speed
<1>1. Speed \in Nat \ {0} /\ i + 1 \in 1..N
  BY DEF Stages!ScheduleAssumption
<1>2. s \in Nat
  BY <1>1
<1>3. o + s <= n
  <2>1. s * Crowd(t, i) <= UnitsPerMs
    OBVIOUS
  <2> HIDE DEF s
  <2>2. QED
    BY <1>2, <2>1, NextOffset
<1>4. o \in Nat /\ n \in Nat /\ Stages!Due(t, i) = o \div Speed /\ Stages!Due(t, i + 1) = n \div Speed
  BY <1>1, OffsetIs, DueIs
<1> HIDE DEF o, n
<1>5. (o \div Speed) + k <= n \div Speed
  BY <1>1, <1>3, <1>4, QuotientsApart
<1>6. QED
  BY <1>4, <1>5

\* The schedule keeps the tape, for every tape, clock and speed.
LEMMA ScheduleKept ==
  ASSUME Stages!ScheduleAssumption, recorded \in Stages!Tapes PROVE ScheduleKeepsTheTape
<1>1. Speed \in Nat \ {0} /\ UnitsPerMs \in Nat \ {0} /\ N \in Nat
  BY DEF Stages!ScheduleAssumption
<1>2. ASSUME NEW i \in 1..N
      PROVE  /\ Start(recorded, i) <= Speed * Stages!Due(recorded, i) + Speed - 1
             /\ Speed * Stages!Due(recorded, i) < Start(recorded, i) + UnitsPerMs
  BY DueIs
<1>3. ASSUME NEW i \in 1..N, i < N PROVE Stages!Due(recorded, i) <= Stages!Due(recorded, i + 1)
  <2>1. i + 1 \in 1..N /\ Crowd(recorded, i) \in Nat
    BY <1>1, <1>3, PlaceInCrowd
  <2>2. 0 * Speed * Crowd(recorded, i) <= UnitsPerMs
    BY <2>1, <1>1
  <2>3. Stages!Due(recorded, i) + 0 <= Stages!Due(recorded, i + 1)
    BY <1>3, <2>2, DueApart
  <2>4. QED
    BY <2>1, <2>3, DueIs
<1>4. ASSUME NEW i \in 1..N, i < N, UnitsPerMs >= Speed * Cardinality(Stages!Cluster(recorded, i))
      PROVE  Stages!Due(recorded, i) < Stages!Due(recorded, i + 1)
  <2>1. i + 1 \in 1..N /\ Crowd(recorded, i) \in Nat
    BY <1>1, <1>4, PlaceInCrowd
  <2>2. 1 * Speed * Crowd(recorded, i) <= UnitsPerMs
    <3>1. 1 * Speed * Crowd(recorded, i) = Speed * Crowd(recorded, i) /\ Speed * Crowd(recorded, i) \in Int
      BY <1>1, <2>1
    <3>2. Speed * Crowd(recorded, i) <= UnitsPerMs
      BY <1>1, <1>4, <3>1 DEF Crowd
    <3>3. QED
      BY <3>1, <3>2
  <2>3. Stages!Due(recorded, i) + 1 <= Stages!Due(recorded, i + 1)
    BY <1>4, <2>2, DueApart
  <2>4. QED
    BY <2>1, <2>3, DueIs
<1>5. QED
  BY <1>2, <1>3, <1>4, SameMembers DEF ScheduleKeepsTheTape, Stages!ScheduleKeepsTheTape, Start

\* The schedule keeps the tape (pipeline_main.cpp, arrival_offsets() and
\* build_schedule()): for every tape, every length of a millisecond in clock units and
\* every speed, trades are due in their order, each within its own millisecond, and two
\* are due at once only if the clock cannot tell them apart.
THEOREM TapeIsKept == ASSUME Stages!ScheduleAssumption PROVE Stages!Spec => []ScheduleKeepsTheTape
<1> DEFINE I == recorded \in Stages!Tapes
<1>1. Stages!Init => I
  BY DEF Stages!Init
<1>2. I /\ [Stages!Next]_(Stages!vars) => I'
  BY DEF Stages!Next, Stages!Handle, Stages!vars
<1>3. I => ScheduleKeepsTheTape
  BY ScheduleKept
<1> HIDE DEF I
<1>4. QED
  BY <1>1, <1>2, <1>3, PTL DEF Stages!Spec

-------------------------------------------------------------------------------
(***************************************************************************)
(* The histogram.  Powers of two first: the recursive function exists, and *)
(* doubles.                                                                *)
(***************************************************************************)

DoublesTo(f, n) == f \in [0..n -> Nat] /\ \A k \in 0..n : f[k] = IF k = 0 THEN 1 ELSE 2 * f[k - 1]

LEMMA DoublingExists == ASSUME NEW n \in Nat PROVE \E f : DoublesTo(f, n)
<1> DEFINE T == {k \in Nat : ~ \E f : DoublesTo(f, k)}
<1>1. ASSUME n \in T PROVE FALSE
  <2>1. PICK m \in T : \A k \in T : m <= k
    BY <1>1, NatLeast
  <2>2. CASE m = 0
    <3>1. DoublesTo([k \in 0..0 |-> 1], 0)
      BY DEF DoublesTo
    <3>2. QED
      BY <2>1, <2>2, <3>1
  <2>3. CASE m # 0
    <3>1. m - 1 \in Nat /\ m - 1 \notin T
      BY <2>1, <2>3
    <3>2. PICK f : DoublesTo(f, m - 1)
      BY <3>1
    <3> DEFINE g == [k \in 0..m |-> IF k = m THEN 2 * f[m - 1] ELSE f[k]]
    <3>3. f[m - 1] \in Nat /\ \A k \in 0..(m - 1) : f[k] \in Nat /\ f[k] = IF k = 0 THEN 1 ELSE 2 * f[k - 1]
      BY <3>1, <3>2 DEF DoublesTo
    <3>4. g \in [0..m -> Nat]
      BY <2>1, <3>3
    <3>5. ASSUME NEW k \in 0..m PROVE g[k] = IF k = 0 THEN 1 ELSE 2 * g[k - 1]
      BY <2>1, <2>3, <3>3
    <3>6. DoublesTo(g, m)
      BY <3>4, <3>5 DEF DoublesTo
    <3>7. QED
      BY <2>1, <3>6
  <2>4. QED
    BY <2>2, <2>3
<1>2. QED
  BY <1>1

LEMMA DoublingAgrees ==
  ASSUME NEW m \in Nat, NEW n \in Nat, m <= n, NEW f, NEW g, DoublesTo(f, m), DoublesTo(g, n)
  PROVE  \A k \in 0..m : f[k] = g[k]
<1> DEFINE T == {k \in 0..m : f[k] # g[k]}
<1>1. ASSUME T # {} PROVE FALSE
  <2>1. T \in SUBSET Nat
    OBVIOUS
  <2>2. PICK k \in T : \A j \in T : k <= j
    BY <1>1, <2>1, NatLeast
  <2>3. k \in 0..m /\ f[k] # g[k] /\ k \in 0..n
    OBVIOUS
  <2>4. f[k] = (IF k = 0 THEN 1 ELSE 2 * f[k - 1]) /\ g[k] = (IF k = 0 THEN 1 ELSE 2 * g[k - 1])
    BY <2>3 DEF DoublesTo
  <2>5. k # 0
    BY <2>3, <2>4
  <2>6. k - 1 \in 0..m /\ k - 1 \notin T
    BY <2>2, <2>3, <2>5
  <2>7. f[k - 1] = g[k - 1]
    BY <2>6
  <2>8. QED
    BY <2>3, <2>4, <2>5, <2>7
<1>2. QED
  BY <1>1

Power(n) == Stages!Pow2[n]

LEMMA PowerIs ==
  /\ Power(0) = 1
  /\ \A n \in Nat : Power(n) \in Nat \ {0} /\ Power(n + 1) = 2 * Power(n)
<1> DEFINE F == [n \in Nat |-> (CHOOSE f : DoublesTo(f, n))[n]]
           IsPower(f) == f = [n \in Nat |-> IF n = 0 THEN 1 ELSE 2 * f[n - 1]]
<1>1. ASSUME NEW n \in Nat PROVE F[n] \in Nat /\ F[n] = IF n = 0 THEN 1 ELSE 2 * F[n - 1]
  <2> DEFINE f == CHOOSE f : DoublesTo(f, n)
  <2>1. DoublesTo(f, n)
    BY DoublingExists
  <2> HIDE DEF f
  <2>2. f[n] \in Nat /\ f[n] = IF n = 0 THEN 1 ELSE 2 * f[n - 1]
    BY <2>1 DEF DoublesTo
  <2>3. F[n] = f[n]
    BY DEF f
  <2>4. ASSUME n # 0 PROVE F[n - 1] = f[n - 1]
    <3> DEFINE g == CHOOSE g : DoublesTo(g, n - 1)
    <3>1. n - 1 \in Nat
      BY <2>4
    <3>2. DoublesTo(g, n - 1)
      BY <3>1, DoublingExists
    <3>3. F[n - 1] = g[n - 1]
      BY <3>1
    <3> HIDE DEF g
    <3>4. g[n - 1] = f[n - 1]
      BY <2>1, <3>1, <3>2, DoublingAgrees
    <3>5. QED
      BY <3>3, <3>4
  <2> HIDE DEF F
  <2>5. QED
    BY <2>2, <2>3, <2>4
<1>2. IsPower(F)
  <2>1. F = [n \in Nat |-> F[n]]
    OBVIOUS
  <2> HIDE DEF F
  <2>2. QED
    BY <1>1, <2>1
<1>3. Stages!Pow2 = CHOOSE f : IsPower(f)
  BY DEF Stages!Pow2
<1> HIDE DEF F
<1>4. IsPower(Stages!Pow2)
  BY <1>2, <1>3
<1> DEFINE p == Stages!Pow2
<1>5. \A n \in Nat : p[n] = IF n = 0 THEN 1 ELSE 2 * p[n - 1]
  BY <1>4
<1> HIDE DEF p
<1>6. p[0] = 1 /\ \A n \in Nat : p[n + 1] = 2 * p[n]
  <2>1. ASSUME NEW n \in Nat PROVE p[n + 1] = 2 * p[n]
    <3>1. n + 1 \in Nat /\ n + 1 # 0 /\ (n + 1) - 1 = n
      OBVIOUS
    <3>2. QED
      BY <1>5, <3>1
  <2>2. QED
    BY <1>5, <2>1
<1>7. \A n \in Nat : p[n] \in Nat \ {0}
  <2> DEFINE T == {n \in Nat : p[n] \notin Nat \ {0}}
  <2>1. ASSUME T # {} PROVE FALSE
    <3>1. PICK n \in T : \A k \in T : n <= k
      BY <2>1, NatLeast
    <3>2. n # 0 /\ n - 1 \in Nat
      BY <1>6, <3>1
    <3>3. n - 1 \notin T
      BY <3>1, <3>2
    <3>4. p[n - 1] \in Nat \ {0} /\ p[n] = 2 * p[n - 1]
      BY <1>5, <3>2, <3>3
    <3>5. QED
      BY <3>1, <3>4
  <2>2. QED
    BY <2>1
<1>8. QED
  BY <1>6, <1>7 DEF p, Power

LEMMA PowersMultiply ==
  ASSUME NEW m \in Nat, NEW n \in Nat PROVE Power(m + n) = Power(m) * Power(n)
<1> DEFINE T == {k \in Nat : Power(m + k) # Power(m) * Power(k)}
<1>1. ASSUME T # {} PROVE FALSE
  <2>1. PICK k \in T : \A j \in T : k <= j
    BY <1>1, NatLeast
  <2>2. k # 0
    <3>1. Power(m + 0) = Power(m) * Power(0)
      BY PowerIs
    <3>2. QED
      BY <2>1, <3>1
  <2>3. k - 1 \in Nat /\ k - 1 \notin T
    BY <2>1, <2>2
  <2>4. Power(m + (k - 1)) = Power(m) * Power(k - 1)
    BY <2>3
  <2>5. Power((m + (k - 1)) + 1) = 2 * Power(m + (k - 1)) /\ Power((k - 1) + 1) = 2 * Power(k - 1)
    BY <2>3, PowerIs
  <2>6. (m + (k - 1)) + 1 = m + k /\ (k - 1) + 1 = k
    BY <2>3
  <2>7. Power(m) \in Nat /\ Power(k - 1) \in Nat
    BY <2>3, PowerIs
  <2>8. Power(m) * (2 * Power(k - 1)) = 2 * (Power(m) * Power(k - 1))
    BY <2>7
  <2>9. Power(m + k) = Power(m) * Power(k)
    BY <2>4, <2>5, <2>6, <2>8
  <2>10. QED
    BY <2>1, <2>9
<1>2. QED
  BY <1>1

LEMMA PowersGrow ==
  ASSUME NEW m \in Nat, NEW n \in Nat, m <= n PROVE Power(m) <= Power(n) /\ n < Power(n)
<1>1. Power(m) <= Power(n)
  <2>1. n - m \in Nat /\ m + (n - m) = n
    OBVIOUS
  <2>2. Power(n) = Power(m) * Power(n - m)
    BY <2>1, PowersMultiply
  <2> DEFINE a == Power(m)
             b == Power(n - m)
  <2>3. a \in Nat \ {0} /\ b \in Nat \ {0}
    BY <2>1, PowerIs
  <2> HIDE DEF a, b
  <2>4. a <= a * b
    BY <2>3
  <2>5. QED
    BY <2>2, <2>4 DEF a, b
<1>2. n < Power(n)
  <2> DEFINE T == {k \in Nat : ~(k < Power(k))}
  <2>1. ASSUME T # {} PROVE FALSE
    <3>1. PICK k \in T : \A j \in T : k <= j
      BY <2>1, NatLeast
    <3>2. k # 0
      BY <3>1, PowerIs
    <3>3. k - 1 \in Nat /\ k - 1 \notin T
      BY <3>1, <3>2
    <3>4. k - 1 < Power(k - 1) /\ Power(k - 1) \in Nat /\ Power((k - 1) + 1) = 2 * Power(k - 1) /\ (k - 1) + 1 = k
      BY <3>3, PowerIs
    <3>5. QED
      BY <3>1, <3>2, <3>4
  <2>2. QED
    BY <2>1
<1>3. QED
  BY <1>1, <1>2

\* A value has a highest bit, and is in the bucket of its index.
HalfCount == Stages!SubBucketHalfCount
BitOf(v) == Stages!HighestBit(v)

LEMMA CountsAre ==
  ASSUME Stages!ScheduleAssumption
  PROVE  /\ HalfCount \in Nat \ {0} /\ Stages!SubBucketCount = 2 * HalfCount
         /\ HalfCount = Power(SubBucketBits - 1) /\ SubBucketBits - 1 \in Nat
<1>1. SubBucketBits - 1 \in Nat /\ (SubBucketBits - 1) + 1 = SubBucketBits
  BY DEF Stages!ScheduleAssumption
<1>2. Power(SubBucketBits - 1) \in Nat \ {0} /\ Power((SubBucketBits - 1) + 1) = 2 * Power(SubBucketBits - 1)
  BY <1>1, PowerIs
<1>3. Stages!SubBucketCount = Power(SubBucketBits) /\ HalfCount = Power(SubBucketBits - 1)
  BY DEF Stages!SubBucketCount, Stages!SubBucketHalfCount, Power, HalfCount
<1>4. QED
  BY <1>1, <1>2, <1>3

LEMMA BitIs ==
  ASSUME NEW v \in Nat \ {0}
  PROVE  BitOf(v) \in Nat /\ Power(BitOf(v)) <= v /\ v < Power(BitOf(v) + 1)
<1> DEFINE T == {b \in Nat : v < Power(b)}
<1>1. v \in T
  BY PowersGrow
<1>2. PICK n \in T : \A k \in T : n <= k
  BY <1>1, NatLeast
<1>3. n # 0
  BY <1>2, PowerIs
<1>4. n - 1 \in 0..v /\ n - 1 \notin T /\ (n - 1) + 1 = n
  BY <1>1, <1>2, <1>3
<1>5. Power(n - 1) <= v /\ v < Power((n - 1) + 1)
  BY <1>2, <1>4, PowerIs
<1>6. \E b \in 0..v : Stages!Pow2[b] <= v /\ v < Stages!Pow2[b + 1]
  BY <1>4, <1>5 DEF Power
<1>7. BitOf(v) = CHOOSE b \in 0..v : Stages!Pow2[b] <= v /\ v < Stages!Pow2[b + 1]
  BY DEF Stages!HighestBit, BitOf
<1>8. BitOf(v) \in 0..v /\ Stages!Pow2[BitOf(v)] <= v /\ v < Stages!Pow2[BitOf(v) + 1]
  BY <1>6, <1>7
<1>9. QED
  BY <1>8 DEF Power

\* For a value beyond the first bucket: its bucket, and its place in it.
BucketOf(v) == BitOf(v) - (SubBucketBits - 1)
SubOf(v) == v \div Power(BucketOf(v))

LEMMA BucketIs ==
  ASSUME Stages!ScheduleAssumption, NEW v \in Nat, v >= Stages!SubBucketCount
  PROVE  /\ BucketOf(v) \in Nat \ {0} /\ SubOf(v) \in Nat
         /\ HalfCount <= SubOf(v) /\ SubOf(v) < 2 * HalfCount
         /\ SubOf(v) * Power(BucketOf(v)) <= v /\ v < SubOf(v) * Power(BucketOf(v)) + Power(BucketOf(v))
         /\ Stages!IndexOf(v) = BucketOf(v) * HalfCount + SubOf(v)
<1> DEFINE h == HalfCount
           s == SubBucketBits - 1
           b == BitOf(v)
           k == BucketOf(v)
           q == SubOf(v)
<1>1. /\ h \in Nat \ {0} /\ Stages!SubBucketCount = 2 * h /\ h = Power(s) /\ s \in Nat
  BY CountsAre
<1>2. v \in Nat \ {0} /\ v >= 2 * h
  BY <1>1
<1>3. b \in Nat /\ Power(b) <= v /\ v < Power(b + 1) /\ Power(b + 1) = 2 * Power(b)
  BY <1>2, BitIs, PowerIs
<1>4. s < b
  <2>1. ASSUME b <= s PROVE FALSE
    <3>1. b + 1 \in Nat /\ s + 1 \in Nat /\ b + 1 <= s + 1
      BY <1>1, <1>3, <2>1
    <3>2. Power(b + 1) <= Power(s + 1) /\ Power(s + 1) = 2 * Power(s)
      BY <1>1, <3>1, PowersGrow, PowerIs
    <3>3. Power(b + 1) \in Nat
      BY <3>1, PowerIs
    <3>4. QED
      BY <1>1, <1>2, <1>3, <3>2, <3>3
  <2>2. QED
    BY <1>1, <1>3, <2>1
<1>5. k \in Nat \ {0} /\ b = s + k
  BY <1>1, <1>3, <1>4 DEF BucketOf
<1> DEFINE w == Power(k)
<1>6. w \in Nat \ {0} /\ Power(b) = h * w
  BY <1>1, <1>5, PowersMultiply, PowerIs
<1>7. q = v \div w
  BY DEF SubOf
<1> HIDE DEF b, k, w, q
<1>8. q \in Int /\ w * q <= v /\ v < w * q + w
  BY <1>6, <1>7, QuotientBounds
<1>9. h * w <= v /\ v < 2 * (h * w)
  BY <1>3, <1>6
<1> HIDE DEF h, s
<1>10. h <= q
  <2>1. ASSUME q <= h - 1 PROVE FALSE
    <3>1. w * q <= w * (h - 1)
      BY <1>1, <1>6, <1>8, <2>1
    <3>2. w * (h - 1) = h * w - w
      BY <1>1, <1>6
    <3>3. w * q \in Int /\ h * w \in Int
      BY <1>1, <1>6, <1>8
    <3>4. QED
      BY <1>6, <1>8, <1>9, <3>1, <3>2, <3>3
  <2>2. QED
    BY <1>1, <1>8, <2>1
<1>11. q < 2 * h
  <2>1. ASSUME q >= 2 * h PROVE FALSE
    <3>1. w * q >= w * (2 * h)
      BY <1>1, <1>6, <1>8, <2>1
    <3>2. w * (2 * h) = 2 * (h * w)
      BY <1>1, <1>6
    <3>3. w * q \in Int /\ h * w \in Int
      BY <1>1, <1>6, <1>8
    <3>4. QED
      BY <1>8, <1>9, <3>1, <3>2, <3>3
  <2>2. QED
    BY <1>1, <1>8, <2>1
<1>12. Stages!IndexOf(v) = k * h + q
  BY <1>1, <1>2, <1>7 DEF Stages!IndexOf, BitOf, BucketOf, HalfCount, Power, h, b, k, w
<1>13. w * q = q * w
  BY <1>6, <1>8
<1>14. QED
  BY <1>1, <1>5, <1>8, <1>10, <1>11, <1>12, <1>13 DEF h, k, q, w

\* What lands in the bucket of v is no more than 1 / HalfCount away from v.
LEMMA IndexBounds ==
  ASSUME Stages!ScheduleAssumption, NEW v \in Nat
  PROVE  /\ Stages!IndexOf(v) \in Nat
         /\ Stages!HighestEquivalent(Stages!IndexOf(v)) \in Nat
         /\ v <= Stages!HighestEquivalent(Stages!IndexOf(v))
         /\ (Stages!HighestEquivalent(Stages!IndexOf(v)) - v) * HalfCount <= v
<1> DEFINE h == HalfCount
           i == Stages!IndexOf(v)
<1>1. h \in Nat \ {0} /\ Stages!SubBucketCount = 2 * h
  BY CountsAre
<1>2. CASE v < Stages!SubBucketCount
  <2>1. i = v /\ Stages!HighestEquivalent(v) = v
    BY <1>2 DEF Stages!IndexOf, Stages!HighestEquivalent
  <2>2. (v - v) * h <= v
    BY <1>1
  <2>3. QED
    BY <2>1, <2>2
<1>3. CASE v >= Stages!SubBucketCount
  <2> DEFINE k == BucketOf(v)
             q == SubOf(v)
             w == Power(k)
  <2>1. /\ k \in Nat \ {0} /\ q \in Nat /\ h <= q /\ q < 2 * h
        /\ q * w <= v /\ v < q * w + w /\ i = k * h + q
    BY <1>3, BucketIs
  <2>2. w \in Nat \ {0}
    BY <2>1, PowerIs
  <2> HIDE DEF h, k, q, w, i
  <2>3. k * h \in Nat /\ k * h >= h
    BY <1>1, <2>1
  <2>4. i \in Nat /\ i >= 2 * h /\ i - h = (q - h) + k * h
    BY <1>1, <2>1, <2>3
  <2>5. (i - h) \div h = k
    <3> DEFINE d == (i - h) \div h
    <3>1. d \in Int /\ h * d <= i - h /\ i - h < h * d + h
      BY <1>1, <2>4, QuotientBounds
    <3>2. k * h <= i - h /\ i - h < k * h + h
      BY <1>1, <2>1, <2>3, <2>4
    <3> HIDE DEF d
    <3>3. ASSUME d <= k - 1 PROVE FALSE
      <4>1. h * d <= h * (k - 1)
        BY <1>1, <2>1, <3>1, <3>3
      <4>2. h * (k - 1) = k * h - h
        BY <1>1, <2>1
      <4>3. h * d \in Int
        BY <1>1, <3>1
      <4>4. QED
        BY <1>1, <2>3, <2>4, <3>1, <3>2, <4>1, <4>2, <4>3
    <3>4. ASSUME d >= k + 1 PROVE FALSE
      <4>1. h * d >= h * (k + 1)
        BY <1>1, <2>1, <3>1, <3>4
      <4>2. h * (k + 1) = k * h + h
        BY <1>1, <2>1
      <4>3. h * d \in Int
        BY <1>1, <3>1
      <4>4. QED
        BY <1>1, <2>3, <2>4, <3>1, <3>2, <4>1, <4>2, <4>3
    <3>5. d = k
      BY <2>1, <3>1, <3>3, <3>4
    <3>6. QED
      BY <3>5 DEF d
  <2>6. Stages!Bucket(i) = k
    BY <2>5 DEF Stages!Bucket, HalfCount, h
  <2>7. ~(i < Stages!SubBucketCount)
    BY <1>1, <2>4
  <2>8. i - k * h = q
    BY <2>1, <2>3
  <2>9. Stages!LowestEquivalent(i) = q * w
    BY <2>6, <2>7, <2>8 DEF Stages!LowestEquivalent, HalfCount, h, Power, w
  <2>10. Stages!HighestEquivalent(i) = q * w + w - 1
    BY <2>6, <2>7, <2>9 DEF Stages!HighestEquivalent, Power, w
  <2>11. q * w \in Nat
    BY <2>1, <2>2
  <2> DEFINE x == q * w + w - 1
  <2>12. x = q * w + w - 1
    OBVIOUS
  <2> HIDE DEF x
  <2>13. x \in Nat /\ v <= x /\ x - v <= w
    BY <2>1, <2>2, <2>11, <2>12
  <2>14. (x - v) * h <= v
    <3> DEFINE e == x - v
    <3>1. e \in Nat /\ e <= w
      BY <2>1, <2>13
    <3> HIDE DEF e
    <3>2. e * h <= w * h
      BY <1>1, <2>2, <3>1
    <3>3. w * h <= q * w
      BY <1>1, <2>1, <2>2
    <3>4. e * h \in Int /\ w * h \in Int
      BY <1>1, <2>2, <3>1
    <3>5. e * h <= v
      BY <2>1, <2>11, <3>2, <3>3, <3>4
    <3>6. QED
      BY <3>5 DEF e
  <2>15. Stages!HighestEquivalent(i) = x
    BY <2>10, <2>12
  <2>16. QED
    BY <2>4, <2>13, <2>14, <2>15, Zenon DEF i, h
<1>4. QED
  BY <1>1, <1>2, <1>3

LEMMA IndexGrows ==
  ASSUME Stages!ScheduleAssumption, NEW u \in Nat, NEW v \in Nat, u <= v
  PROVE  Stages!IndexOf(u) <= Stages!IndexOf(v)
<1> DEFINE h == HalfCount
<1>1. h \in Nat \ {0} /\ Stages!SubBucketCount = 2 * h
  BY CountsAre
<1>2. CASE v < Stages!SubBucketCount
  BY <1>1, <1>2 DEF Stages!IndexOf
<1>3. CASE v >= Stages!SubBucketCount
  <2> DEFINE k == BucketOf(v)
             q == SubOf(v)
  <2>1. /\ k \in Nat \ {0} /\ q \in Nat /\ h <= q /\ q < 2 * h
        /\ q * Power(k) <= v /\ v < q * Power(k) + Power(k) /\ Stages!IndexOf(v) = k * h + q
    BY <1>3, BucketIs
  <2>2. Power(k) \in Nat \ {0}
    BY <2>1, PowerIs
  <2>3. CASE u < Stages!SubBucketCount
    <3>1. Stages!IndexOf(u) = u
      BY <2>3 DEF Stages!IndexOf
    <3> HIDE DEF h, k, q
    <3>2. k * h >= h /\ k * h \in Nat
      BY <1>1, <2>1
    <3>3. QED
      BY <1>1, <2>1, <2>3, <3>1, <3>2
  <2>4. CASE u >= Stages!SubBucketCount
    <3> DEFINE j == BucketOf(u)
               p == SubOf(u)
    <3>1. /\ j \in Nat \ {0} /\ p \in Nat /\ h <= p /\ p < 2 * h
          /\ p * Power(j) <= u /\ u < p * Power(j) + Power(j) /\ Stages!IndexOf(u) = j * h + p
      BY <2>4, BucketIs
    <3>2. j <= k
      <4>1. u \in Nat \ {0} /\ v \in Nat \ {0}
        BY <1>1, <1>3, <2>4
      <4>2. /\ BitOf(u) \in Nat /\ BitOf(v) \in Nat /\ Power(BitOf(u)) <= u /\ v < Power(BitOf(v) + 1)
        BY <4>1, BitIs
      <4>3. ASSUME BitOf(v) + 1 <= BitOf(u) PROVE FALSE
        <5>1. Power(BitOf(v) + 1) <= Power(BitOf(u))
          BY <4>2, <4>3, PowersGrow
        <5>2. Power(BitOf(v) + 1) \in Nat /\ Power(BitOf(u)) \in Nat
          BY <4>2, PowerIs
        <5>3. QED
          BY <4>2, <5>1, <5>2
      <4>4. BitOf(u) <= BitOf(v)
        BY <4>2, <4>3
      <4>5. SubBucketBits - 1 \in Nat
        BY CountsAre
      <4>6. QED
        BY <4>2, <4>4, <4>5 DEF BucketOf
    <3>3. CASE j = k
      <4> DEFINE w == Power(k)
      <4>1. u + 0 * w <= v
        BY <2>2
      <4>2. p = u \div w /\ q = v \div w
        BY <3>3 DEF SubOf
      <4> HIDE DEF h, k, q, j, p, w
      <4>3. w \in Nat \ {0}
        BY <2>2 DEF w
      <4>4. p + 0 <= q
        BY <4>1, <4>2, <4>3, QuotientsApart
      <4>5. j * h = k * h /\ k * h \in Nat
        BY <1>1, <2>1, <3>3
      <4>6. QED
        BY <2>1, <3>1, <4>4, <4>5
    <3>4. CASE j < k
      <4> HIDE DEF h, k, q, j, p
      <4>1. (j + 1) * h <= k * h /\ (j + 1) * h = j * h + h /\ j * h \in Nat /\ k * h \in Nat
        BY <1>1, <2>1, <3>1, <3>4
      <4>2. QED
        BY <1>1, <2>1, <3>1, <4>1
    <3>5. QED
      BY <2>1, <3>1, <3>2, <3>3, <3>4
  <2>5. QED
    BY <1>1, <2>3, <2>4
<1>4. QED
  BY <1>1, <1>2, <1>3

\* The k-th value of a finite function.
Under(h, v) == {i \in DOMAIN h : h[i] < v}
AtMost(h, v) == {i \in DOMAIN h : h[i] <= v}

LEMMA RankedIs ==
  ASSUME NEW D, IsFiniteSet(D), NEW h \in [D -> Nat], NEW k \in Nat \ {0}, k <= Cardinality(D)
  PROVE  /\ \E i \in D : Stages!Ranked(h, k) = h[i]
         /\ Stages!Ranked(h, k) \in Nat
         /\ Cardinality(Under(h, Stages!Ranked(h, k))) < k
         /\ k <= Cardinality(AtMost(h, Stages!Ranked(h, k)))
<1> DEFINE R == {h[i] : i \in D}
           u(v) == Cardinality(Under(h, v))
           a(v) == Cardinality(AtMost(h, v))
<1>1. DOMAIN h = D /\ R \in SUBSET Nat
  OBVIOUS
<1>2. ASSUME NEW v PROVE /\ IsFiniteSet(Under(h, v)) /\ IsFiniteSet(AtMost(h, v)) /\ u(v) \in Nat /\ a(v) \in Nat
  <2>1. Under(h, v) \subseteq D /\ AtMost(h, v) \subseteq D
    BY <1>1 DEF Under, AtMost
  <2>2. QED
    BY <2>1, FS_Subset, FS_CardinalityType
<1>3. R # {}
  <2>1. D # {}
    BY FS_EmptySet
  <2>2. QED
    BY <2>1
<1> DEFINE T == {k - u(v) : v \in {x \in R : u(x) < k}}
<1>4. T \in SUBSET Nat /\ T # {}
  <2>1. PICK v \in R : \A x \in R : v <= x
    BY <1>1, <1>3, NatLeast
  <2>2. Under(h, v) = {}
    <3>1. ASSUME NEW i \in D, h[i] < v PROVE FALSE
      <4>1. h[i] \in R /\ h[i] \in Nat /\ v \in Nat
        BY <1>1
      <4>2. QED
        BY <2>1, <3>1, <4>1
    <3>2. QED
      BY <1>1, <3>1 DEF Under
  <2>3. u(v) = 0
    BY <2>2, FS_EmptySet
  <2>4. k - u(v) \in T
    BY <2>1, <2>3
  <2>5. ASSUME NEW t \in T PROVE t \in Nat
    <3>1. PICK v0 \in R : u(v0) < k /\ t = k - u(v0)
      OBVIOUS
    <3>2. u(v0) \in Nat
      BY <1>2
    <3> HIDE DEF u, T
    <3>3. QED
      BY <3>1, <3>2
  <2>6. QED
    BY <2>4, <2>5
<1>5. PICK t \in T : \A s \in T : t <= s
  BY <1>4, NatLeast
<1>6. PICK v \in R : u(v) < k /\ t = k - u(v)
  OBVIOUS
<1>7. ASSUME a(v) < k PROVE FALSE
  <2> DEFINE L == {x \in R : v < x}
  <2>1. L # {}
    <3>1. ASSUME AtMost(h, v) = D PROVE FALSE
      BY <1>2, <1>7, <3>1, FS_CardinalityType
    <3>2. PICK i \in D : ~(h[i] <= v)
      BY <1>1, <3>1 DEF AtMost
    <3>3. h[i] \in R /\ h[i] \in Nat /\ v \in Nat
      BY <1>1
    <3>4. QED
      BY <3>2, <3>3
  <2>2. PICK x \in L : \A y \in L : x <= y
    <3>1. L \in SUBSET Nat
      BY <1>1
    <3>2. QED
      BY <2>1, <3>1, NatLeast
  <2>3. Under(h, x) = AtMost(h, v)
    <3>1. ASSUME NEW i \in D PROVE h[i] < x <=> h[i] <= v
      <4>1. h[i] \in R /\ h[i] \in Nat /\ v \in Nat /\ x \in Nat /\ v < x
        BY <1>1, <2>2
      <4>2. v < h[i] => x <= h[i]
        BY <2>2, <4>1
      <4>3. QED
        BY <4>1, <4>2
    <3>2. QED
      BY <1>1, <3>1 DEF Under, AtMost
  <2>4. u(v) < a(v)
    <3>1. PICK i \in D : h[i] = v
      OBVIOUS
    <3>2. i \in AtMost(h, v) /\ i \notin Under(h, v)
      BY <1>1, <3>1 DEF Under, AtMost
    <3>3. Under(h, v) \subseteq AtMost(h, v)
      BY <1>1 DEF Under, AtMost
    <3>4. IsFiniteSet(AtMost(h, v)) /\ u(v) \in Nat /\ a(v) \in Nat
      BY <1>2
    <3>5. u(v) <= a(v) /\ u(v) # a(v)
      BY <3>2, <3>3, <3>4, FS_Subset
    <3>6. QED
      BY <3>4, <3>5
  <2>5. u(x) = a(v)
    BY <2>3
  <2>6. k - u(x) \in T
    BY <1>7, <2>2, <2>5
  <2>7. u(v) \in Nat /\ a(v) \in Nat
    BY <1>2
  <2> HIDE DEF u, a
  <2>8. QED
    BY <1>5, <1>6, <2>4, <2>5, <2>6, <2>7
<1>8. k <= a(v)
  <2>1. a(v) \in Nat
    BY <1>2
  <2> HIDE DEF a
  <2>2. QED
    BY <1>7, <2>1
<1> DEFINE Is(x) == x \in R /\ u(x) < k /\ k <= a(x)
<1>9. Stages!Ranked(h, k) = CHOOSE x \in R : u(x) < k /\ k <= a(x)
  <2>1. Stages!Range(h) = R
    BY <1>1 DEF Stages!Range
  <2>2. ASSUME NEW x PROVE Stages!Cardinality({i \in DOMAIN h : h[i] < x}) = u(x) /\ Stages!Cardinality({i \in DOMAIN h : h[i] <= x}) = a(x)
    BY SameMembers DEF Under, AtMost
  <2> HIDE DEF u, a, R
  <2>3. QED
    BY <2>1, <2>2 DEF Stages!Ranked
<1> DEFINE r == Stages!Ranked(h, k)
<1>10. r \in R /\ u(r) < k /\ k <= a(r)
  <2> HIDE DEF u, a, R
  <2>1. QED
    BY <1>6, <1>8, <1>9
<1>11. r \in Nat
  BY <1>1, <1>10
<1>12. \E i \in D : r = h[i]
  BY <1>10
<1>13. QED
  BY <1>10, <1>11, <1>12

LEMMA LargestIs ==
  ASSUME NEW S \in SUBSET Nat, IsFiniteSet(S), S # {}
  PROVE  Stages!Max(S) \in S /\ \A x \in S : x <= Stages!Max(S)
<1> DEFINE above(m) == {x \in S : m < x}
           C == {above(m) : m \in S}
<1>1. \A m \in S : IsFiniteSet(above(m)) /\ Cardinality(above(m)) \in Nat
  <2>1. \A m \in S : above(m) \subseteq S
    OBVIOUS
  <2>2. QED
    BY <2>1, FS_Subset, FS_CardinalityType
<1>2. C # {} /\ \A s \in C : IsFiniteSet(s)
  BY <1>1
<1>3. PICK s \in C : \A t \in C : Cardinality(s) <= Cardinality(t)
  <2> HIDE DEF C
  <2>1. QED
    BY <1>2, SmallestSet
<1>4. PICK m \in S : s = above(m)
  OBVIOUS
<1>5. ASSUME NEW x \in S, m < x PROVE FALSE
  <2>1. above(x) \subseteq above(m) /\ above(m) # above(x)
    <3>1. \A y \in S : y \in Int
      OBVIOUS
    <3>2. x \in above(m) /\ x \notin above(x)
      BY <1>5, <3>1
    <3>3. ASSUME NEW y \in S, x < y PROVE m < y
      BY <1>5, <3>1, <3>3
    <3>4. QED
      BY <3>2, <3>3
  <2>2. Cardinality(above(x)) < Cardinality(above(m))
    <3>1. IsFiniteSet(above(m)) /\ Cardinality(above(m)) \in Nat /\ Cardinality(above(x)) \in Nat
      BY <1>1
    <3> HIDE DEF above
    <3>2. QED
      BY <2>1, <3>1, FS_Subset
  <2>3. above(x) \in C
    OBVIOUS
  <2>4. Cardinality(above(m)) <= Cardinality(above(x))
    BY <1>3, <1>4, <2>3
  <2>5. Cardinality(above(m)) \in Nat /\ Cardinality(above(x)) \in Nat
    BY <1>1
  <2> HIDE DEF above
  <2>6. QED
    BY <2>2, <2>4, <2>5
<1>6. \A x \in S : m >= x
  BY <1>5
<1>7. Stages!Max(S) = CHOOSE x \in S : \A y \in S : x >= y
  BY DEF Stages!Max
<1>8. Stages!Max(S) \in S /\ \A y \in S : Stages!Max(S) >= y
  BY <1>6, <1>7
<1>9. QED
  BY <1>8

LEMMA FactorKept == ASSUME NEW d \in Nat, NEW g \in Nat, NEW c \in Nat, d <= g PROVE d * c <= g * c
OBVIOUS

\* What is shown of a percentile: not below the value it stands for, nor far above it.
LEMMA PercentileIs ==
  ASSUME Stages!ScheduleAssumption, NEW h \in Seq(Nat), h # <<>>, NEW p,
         Stages!Wanted(Len(h), p) \in 1..Len(h)
  PROVE  LET exact == Stages!Ranked(h, Stages!Wanted(Len(h), p))
             shown == Stages!Percentile(h, p)
         IN  /\ exact \in Nat /\ shown \in Nat
             /\ exact <= shown /\ (shown - exact) * HalfCount <= exact
             /\ Stages!Wanted(Len(h), p) <= Cardinality(AtMost(h, exact))
<1> DEFINE w == Stages!Wanted(Len(h), p)
           D == 1..Len(h)
           exact == Stages!Ranked(h, w)
           shown == Stages!Percentile(h, p)
           ix(i) == Stages!IndexOf(h[i])
           E == Stages!IndexOf(exact)
           seen(k) == Cardinality({i \in D : ix(i) <= k})
           indices == {ix(i) : i \in D}
           enough == {k \in indices : seen(k) >= w}
<1>1. DOMAIN h = D /\ h \in [D -> Nat] /\ IsFiniteSet(D) /\ Cardinality(D) = Len(h) /\ Len(h) \in Nat
  <2>1. Len(h) \in Nat /\ DOMAIN h = D /\ h \in [D -> Nat]
    OBVIOUS
  <2>2. IsFiniteSet(D) /\ Cardinality(D) = Len(h)
    <3> DEFINE n == Len(h)
    <3>1. n \in Int /\ 1 \in Int /\ n >= 0
      BY <2>1
    <3> HIDE DEF n
    <3>2. IsFiniteSet(1..n) /\ Cardinality(1..n) = IF 1 > n THEN 0 ELSE n - 1 + 1
      BY <3>1, FS_Interval
    <3>3. Cardinality(1..n) = n
      BY <3>1, <3>2
    <3>4. QED
      BY <3>2, <3>3 DEF n
  <2>3. QED
    BY <2>1, <2>2
<1>2. w \in Nat \ {0} /\ w <= Cardinality(D)
  BY <1>1
<1>3. /\ \E i \in D : exact = h[i]
      /\ exact \in Nat
      /\ Cardinality(Under(h, exact)) < w
      /\ w <= Cardinality(AtMost(h, exact))
  <2> HIDE DEF w, D
  <2>1. QED
    BY <1>1, <1>2, RankedIs
<1> HIDE DEF w, exact
<1>4. PICK e \in D : exact = h[e]
  BY <1>3
<1>5. \A i \in D : ix(i) \in Nat /\ h[i] \in Nat
  BY <1>1, IndexBounds
<1>6. /\ E \in Nat /\ Stages!HighestEquivalent(E) \in Nat /\ exact <= Stages!HighestEquivalent(E)
      /\ (Stages!HighestEquivalent(E) - exact) * HalfCount <= exact
  BY <1>3, IndexBounds
<1>7. ASSUME NEW k PROVE IsFiniteSet({i \in D : ix(i) <= k}) /\ seen(k) \in Nat
  <2>1. {i \in D : ix(i) <= k} \subseteq D
    OBVIOUS
  <2>2. QED
    BY <1>1, <2>1, FS_Subset, FS_CardinalityType
<1>8. IsFiniteSet(Under(h, exact)) /\ Cardinality(Under(h, exact)) \in Nat /\ IsFiniteSet(AtMost(h, exact)) /\ Cardinality(AtMost(h, exact)) \in Nat
  <2>1. Under(h, exact) \subseteq D /\ AtMost(h, exact) \subseteq D
    BY <1>1 DEF Under, AtMost
  <2>2. QED
    BY <1>1, <2>1, FS_Subset, FS_CardinalityType
<1>9. E \in enough
  <2>1. AtMost(h, exact) \subseteq {i \in D : ix(i) <= E}
    <3>1. ASSUME NEW i \in D, h[i] <= exact PROVE ix(i) <= E
      BY <1>3, <1>5, <3>1, IndexGrows
    <3>2. QED
      BY <1>1, <3>1 DEF AtMost
  <2>2. Cardinality(AtMost(h, exact)) <= seen(E)
    BY <1>7, <2>1, FS_Subset
  <2>3. E = ix(e) /\ E \in indices
    BY <1>4
  <2>4. seen(E) \in Nat
    BY <1>7
  <2> HIDE DEF seen, indices, E
  <2>5. seen(E) >= w
    BY <1>2, <1>3, <1>8, <2>2, <2>4
  <2>6. QED
    BY <2>3, <2>5
<1>10. ASSUME NEW k \in enough PROVE E <= k
  <2>1. k \in Nat /\ seen(k) >= w
    BY <1>5
  <2>2. ASSUME k < E PROVE FALSE
    <3>1. {i \in D : ix(i) <= k} \subseteq Under(h, exact)
      <4>1. ASSUME NEW i \in D, ix(i) <= k, ~(h[i] < exact) PROVE FALSE
        <5>1. exact <= h[i]
          <6>1. h[i] \in Nat /\ ~(h[i] < exact)
            BY <1>5, <4>1
          <6>2. exact \in Nat
            BY <1>3
          <6>3. QED
            BY ONLY <6>1, <6>2
        <5>2. E <= ix(i)
          BY <1>3, <1>5, <5>1, IndexGrows
        <5>3. ix(i) \in Nat
          BY <1>5
        <5> HIDE DEF E, ix
        <5>4. QED
          BY <1>6, <2>1, <2>2, <4>1, <5>2, <5>3
      <4>2. QED
        BY <1>1, <4>1 DEF Under
    <3>2. seen(k) <= Cardinality(Under(h, exact))
      BY <1>8, <3>1, FS_Subset
    <3>3. seen(k) \in Nat
      BY <1>7
    <3> HIDE DEF seen, enough
    <3>4. QED
      BY <1>2, <1>3, <1>8, <2>1, <3>2, <3>3
  <2> HIDE DEF E, enough
  <2>3. QED
    BY <1>6, <2>1, <2>2
<1>11. Stages!Min(enough) = E
  <2>1. \A k \in enough : k \in Int
    BY <1>5
  <2>2. Stages!Min(enough) = CHOOSE x \in enough : \A y \in enough : x <= y
    BY DEF Stages!Min
  <2> HIDE DEF enough, E
  <2>3. Stages!Min(enough) \in enough /\ \A y \in enough : Stages!Min(enough) <= y
    BY <1>9, <1>10, <2>2
  <2>4. QED
    BY <1>9, <1>10, <2>1, <2>3
<1> DEFINE M == {h[i] : i \in D}
<1>12. Stages!Max(M) \in Nat /\ exact <= Stages!Max(M)
  <2>1. M \in SUBSET Nat /\ M # {} /\ IsFiniteSet(M)
    <3>1. IsFiniteSet(M)
      <4> DEFINE H == [i \in D |-> h[i]]
      <4>1. H \in Surjection(D, M)
        BY DEF Surjection
      <4>2. QED
        BY <1>1, <4>1, FS_Surjection
    <3>2. QED
      BY <1>1, <1>4, <3>1
  <2>2. Stages!Max(M) \in M /\ \A x \in M : x <= Stages!Max(M)
    <3> HIDE DEF M
    <3>1. QED
      BY <2>1, LargestIs
  <2>3. exact \in M
    BY <1>4
  <2> HIDE DEF M
  <2>4. QED
    BY <2>1, <2>2, <2>3
<1> DEFINE high == Stages!HighestEquivalent(E)
           most == Stages!Max(M)
<1>13. shown = Stages!Min({high, most})
  <2> DEFINE X == [i \in D |-> Stages!IndexOf(h[i])]
             t(k) == Stages!Cardinality({i \in D : X[i] <= k})
  <2>0. Stages!Range(X) = indices /\ \A i \in D : X[i] = ix(i)
    BY DEF Stages!Range
  <2>1. \A k \in indices : t(k) = seen(k)
    <3>1. ASSUME NEW k PROVE {i \in D : X[i] <= k} = {i \in D : ix(i) <= k}
      <4> HIDE DEF X, ix, D
      <4>1. QED
        BY <2>0
    <3>2. QED
      BY <3>1, SameMembers
  <2> HIDE DEF t, seen, indices
  <2>2. enough = {k \in Stages!Range(X) : t(k) >= w}
    <3> HIDE DEF X
    <3>1. QED
      BY <2>0, <2>1
  <2>3. shown = Stages!Min({Stages!HighestEquivalent(Stages!Min(enough)), Stages!Max({h[i] : i \in D})})
    <3> HIDE DEF enough, D, X
    <3>1. X = [i \in DOMAIN h |-> Stages!IndexOf(h[i])] /\ D = DOMAIN h
      BY <1>1 DEF X
    <3>2. QED
      BY <1>1, <2>2, <3>1 DEF Stages!Percentile, w, t
  <2> HIDE DEF enough, E
  <2>4. QED
    BY <1>11, <2>3
<1> HIDE DEF high, most, E, M, shown
<1>14. high \in Nat /\ most \in Nat /\ exact <= high /\ exact <= most /\ (high - exact) * HalfCount <= exact
  BY <1>6, <1>12 DEF high, most
<1>15. shown \in {high, most} /\ shown <= high /\ shown <= most
  <2>1. shown = CHOOSE x \in {high, most} : \A y \in {high, most} : x <= y
    BY <1>13 DEF Stages!Min
  <2>2. \E x \in {high, most} : \A y \in {high, most} : x <= y
    BY <1>14
  <2>3. shown \in {high, most} /\ \A y \in {high, most} : shown <= y
    BY <2>1, <2>2
  <2>4. QED
    BY <2>3
<1>16. (shown - exact) * HalfCount <= exact
  <2>1. HalfCount \in Nat \ {0}
    BY CountsAre
  <2>2. shown - exact \in Nat /\ high - exact \in Nat /\ shown - exact <= high - exact
    <3>1. exact \in Nat
      BY <1>3
    <3>2. QED
      BY ONLY <1>14, <1>15, <3>1
  <2>3. (shown - exact) * HalfCount <= (high - exact) * HalfCount
    BY <2>1, <2>2, FactorKept
  <2> DEFINE d == (shown - exact) * HalfCount
             g == (high - exact) * HalfCount
  <2>4. d \in Int /\ g \in Int /\ d <= g
    BY <2>1, <2>2, <2>3
  <2>5. g <= exact
    BY <1>14
  <2> HIDE DEF d, g
  <2>6. d <= exact
    <3>1. exact \in Nat
      BY <1>3
    <3>2. QED
      BY ONLY <2>4, <2>5, <3>1
  <2>7. QED
    BY <2>6 DEF d
<1>17. shown \in Nat /\ exact <= shown
  BY <1>3, <1>14, <1>15
<1>18. QED
  BY <1>3, <1>16, <1>17 DEF w, exact, shown

\* How many of v, v - g, v - 2 * g ... are x or more: what a stall of v owes to the tail
\* from x on, one tick arriving every g.
Owed(v, x, g) == IF v < x THEN 0 ELSE (v - x) \div g + 1

LEMMA OwedIs ==
  ASSUME NEW g \in Nat \ {0}, NEW x \in Nat, NEW v \in Int
  PROVE  /\ Owed(v, x, g) \in Nat
         /\ v >= x => Owed(v, x, g) \in Nat \ {0} /\ g * (Owed(v, x, g) - 1) <= v - x /\ v - x < g * Owed(v, x, g)
<1>1. CASE v < x
  BY <1>1 DEF Owed
<1>2. CASE v >= x
  <2> DEFINE q == (v - x) \div g
  <2>1. v - x \in Nat
    BY <1>2
  <2>2. q \in Int /\ g * q <= v - x /\ v - x < g * q + g
    BY <2>1, QuotientBounds
  <2>3. Owed(v, x, g) = q + 1
    BY <1>2 DEF Owed
  <2> HIDE DEF q
  <2>4. q >= 0
    <3>1. ASSUME q <= -1 PROVE FALSE
      <4>1. g * q <= g * (-1)
        BY <2>2, <3>1
      <4>2. g * q \in Int /\ g * (-1) = -g
        BY <2>2
      <4>3. QED
        BY <2>1, <2>2, <4>1, <4>2
    <3>2. QED
      BY <2>2, <3>1
  <2>5. g * (q + 1) = g * q + g /\ (q + 1) - 1 = q
    BY <2>2
  <2>6. QED
    BY <1>2, <2>2, <2>3, <2>4, <2>5
<1>3. QED
  BY <1>1, <1>2

\* The quotient is the one number with such bounds.
LEMMA OwedOnly ==
  ASSUME NEW g \in Nat \ {0}, NEW x \in Nat, NEW v \in Int, v >= x, NEW k \in Nat
  PROVE  /\ g * k <= v - x => k + 1 <= Owed(v, x, g)
         /\ v - x < g * k => Owed(v, x, g) <= k
<1> DEFINE o == Owed(v, x, g)
<1>1. o \in Nat \ {0} /\ g * (o - 1) <= v - x /\ v - x < g * o
  BY OwedIs
<1> HIDE DEF o
<1>2. v - x \in Nat
  OBVIOUS
<1>3. ASSUME g * k <= v - x, o <= k PROVE FALSE
  <2>1. g * o <= g * k
    BY <1>1, <1>3
  <2>2. g * o \in Int /\ g * k \in Int
    BY <1>1
  <2>3. QED
    BY <1>1, <1>2, <1>3, <2>1, <2>2
<1>4. ASSUME v - x < g * k, k <= o - 1 PROVE FALSE
  <2>1. g * k <= g * (o - 1)
    BY <1>1, <1>4
  <2>2. g * (o - 1) \in Int /\ g * k \in Int
    BY <1>1
  <2>3. QED
    BY <1>1, <1>2, <1>4, <2>1, <2>2
<1>5. (g * k <= v - x => k + 1 <= o) /\ (v - x < g * k => o <= k)
  BY <1>1, <1>3, <1>4
<1>6. QED
  BY <1>5 DEF o

LEMMA OwedGrows ==
  ASSUME NEW g \in Nat \ {0}, NEW x \in Nat, NEW u \in Int, NEW v \in Int, u <= v
  PROVE  Owed(u, x, g) <= Owed(v, x, g)
<1>1. Owed(u, x, g) \in Nat /\ Owed(v, x, g) \in Nat
  BY OwedIs
<1>2. CASE u < x
  BY <1>1, <1>2 DEF Owed
<1>3. CASE u >= x
  <2> DEFINE o == Owed(u, x, g)
             k == o - 1
  <2>0. o \in Nat \ {0} /\ g * (o - 1) <= u - x
    BY <1>3, OwedIs
  <2> HIDE DEF o
  <2>1. k \in Nat /\ g * k <= u - x /\ v >= x
    BY <1>3, <2>0
  <2> HIDE DEF k
  <2>2. g * k <= v - x
    <3>1. g * k \in Int /\ u - x <= v - x
      BY <2>1
    <3>2. QED
      BY <2>1, <3>1
  <2>3. k + 1 <= Owed(v, x, g)
    BY <2>1, <2>2, OwedOnly
  <2>4. QED
    BY <1>1, <2>3 DEF k, o
<1>4. QED
  BY <1>2, <1>3

\* One tick later, one less is owed, unless none was.
LEMMA OwedStep ==
  ASSUME NEW g \in Nat \ {0}, NEW x \in Nat, NEW v \in Int
  PROVE  Owed(v, x, g) = (IF v >= x THEN 1 ELSE 0) + Owed(v - g, x, g)
<1>0. v - g \in Int
  OBVIOUS
<1> DEFINE w == v - g
<1>1. w \in Int /\ Owed(v, x, g) \in Nat /\ Owed(w, x, g) \in Nat
  <2> HIDE DEF w
  <2>1. w \in Int
    BY <1>0 DEF w
  <2>2. QED
    BY <2>1, OwedIs
<1>2. CASE v < x
  BY <1>2 DEF Owed
<1>3. CASE v >= x /\ v - g < x
  <2>1. Owed(v - g, x, g) = 0
    BY <1>3 DEF Owed
  <2>2. Owed(v, x, g) \in Nat \ {0}
    BY <1>3, OwedIs
  <2>3. v - x < g * 1
    BY <1>3
  <2>4. Owed(v, x, g) <= 1
    BY <1>3, <2>3, OwedOnly
  <2>5. QED
    BY <1>3, <2>1, <2>2, <2>4
<1>4. CASE v - g >= x
  <2> DEFINE o == Owed(w, x, g)
  <2>0. w >= x /\ v >= x /\ w - x = (v - x) - g
    BY <1>4
  <2> HIDE DEF w
  <2>1. o \in Nat \ {0} /\ g * (o - 1) <= w - x /\ w - x < g * o
    BY <1>1, <2>0, OwedIs
  <2> HIDE DEF o
  <2>2. g * o \in Int /\ g * (o - 1) = g * o - g /\ g * (o + 1) = g * o + g
    BY <2>1
  <2>3. g * o <= v - x /\ v - x < g * (o + 1)
    BY <1>1, <2>0, <2>1, <2>2
  <2>4. o \in Nat /\ o + 1 \in Nat
    BY <2>1
  <2>5. o + 1 <= Owed(v, x, g) /\ Owed(v, x, g) <= o + 1
    BY <2>0, <2>3, <2>4, OwedOnly
  <2>6. QED
    BY <1>1, <2>0, <2>1, <2>5 DEF o, w
<1>5. QED
  BY <1>1, <1>2, <1>3, <1>4

\* Two waits end to end owe at least what they owe apart.
LEMMA OwedTogether ==
  ASSUME NEW g \in Nat \ {0}, NEW x \in Nat, x >= g, NEW a \in Nat, NEW b \in Nat
  PROVE  Owed(a, x, g) + Owed(b, x, g) <= Owed(a + b, x, g)
<1> DEFINE c == a + b
<1>0. c \in Int /\ a \in Int /\ b \in Int /\ a <= c /\ b <= c /\ (a >= x /\ b >= x => c >= x /\ c - x = (a - x) + (b - x) + x)
  OBVIOUS
<1> HIDE DEF c
<1>1. Owed(a, x, g) \in Nat /\ Owed(b, x, g) \in Nat /\ Owed(c, x, g) \in Nat
  BY <1>0, OwedIs
<1>2. CASE a < x
  <2>1. Owed(a, x, g) = 0
    BY <1>2 DEF Owed
  <2>2. Owed(b, x, g) <= Owed(c, x, g)
    BY <1>0, OwedGrows
  <2>3. QED
    BY <1>1, <2>1, <2>2 DEF c
<1>3. CASE b < x
  <2>1. Owed(b, x, g) = 0
    BY <1>3 DEF Owed
  <2>2. Owed(a, x, g) <= Owed(c, x, g)
    BY <1>0, OwedGrows
  <2>3. QED
    BY <1>1, <2>1, <2>2 DEF c
<1>4. CASE a >= x /\ b >= x
  <2> DEFINE m == Owed(a, x, g)
             n == Owed(b, x, g)
  <2>1. m \in Nat \ {0} /\ n \in Nat \ {0} /\ g * (m - 1) <= a - x /\ g * (n - 1) <= b - x
    BY <1>0, <1>4, OwedIs
  <2> HIDE DEF m, n
  <2>2. /\ g * (m - 1) = g * m - g /\ g * (n - 1) = g * n - g /\ g * (m + n - 1) = g * m + g * n - g
        /\ g * m \in Int /\ g * n \in Int
    BY <2>1
  <2>3. g * (m + n - 1) <= c - x
    BY <1>0, <1>4, <2>1, <2>2
  <2>4. m + n - 1 \in Nat /\ c >= x
    BY <1>0, <1>4, <2>1
  <2> DEFINE k == m + n - 1
  <2> HIDE DEF k
  <2>5. k \in Nat /\ g * k <= c - x
    BY <2>3, <2>4 DEF k
  <2>6. k + 1 <= Owed(c, x, g)
    BY <1>0, <2>4, <2>5, OwedOnly
  <2>7. QED
    BY <1>1, <2>1, <2>6 DEF m, n, k, c
<1>5. QED
  BY <1>2, <1>3, <1>4

\* What record_corrected() makes of one value is what it owes.
LEMMA CorrectedOwes ==
  ASSUME NEW g \in Nat \ {0}, NEW x \in Nat, x >= g, NEW v \in Nat
  PROVE  Stages!AtOrAbove(Stages!Corrected(v, g), x) = Owed(v, x, g)
<1>1. ASSUME NEW h PROVE Stages!AtOrAbove(h, x) = Cardinality({i \in DOMAIN h : h[i] >= x})
  BY SameMembers DEF Stages!AtOrAbove
<1>2. CASE v <= g
  <2> DEFINE h == <<v>>
  <2>1. Stages!Corrected(v, g) = h
    BY <1>2 DEF Stages!Corrected
  <2>2. DOMAIN h = {1} /\ h[1] = v
    OBVIOUS
  <2> HIDE DEF h
  <2>3. CASE v < x
    <3>1. {i \in DOMAIN h : h[i] >= x} = {}
      BY <2>2, <2>3
    <3>2. QED
      BY <1>1, <2>1, <2>3, <3>1, FS_EmptySet DEF Owed
  <2>4. CASE v >= x
    <3>1. {i \in DOMAIN h : h[i] >= x} = {1}
      BY <2>2, <2>4
    <3>2. v - x < g * 1
      BY <1>2, <2>4
    <3>3. Owed(v, x, g) \in Nat \ {0}
      BY <2>4, OwedIs
    <3>4. v \in Int /\ 1 \in Nat
      OBVIOUS
    <3>5. Owed(v, x, g) <= 1
      BY <2>4, <3>2, <3>4, OwedOnly
    <3>6. Owed(v, x, g) = 1
      BY <3>3, <3>5
    <3>7. Cardinality({1}) = 1
      BY FS_Singleton
    <3>8. QED
      BY <1>1, <2>1, <3>1, <3>6, <3>7
  <2>5. QED
    BY <2>3, <2>4
<1>3. CASE v > g
  <2> DEFINE q == v \div g
             h == [k \in 1..q |-> v - (k - 1) * g]
             o == Owed(v, x, g)
  <2>1. Stages!Corrected(v, g) = h
    BY <1>3 DEF Stages!Corrected
  <2>2. q \in Int /\ g * q <= v /\ v < g * q + g
    BY QuotientBounds
  <2>3. o \in Nat /\ (v >= x => o \in Nat \ {0} /\ g * (o - 1) <= v - x /\ v - x < g * o)
    BY OwedIs
  <2>4. DOMAIN h = 1..q /\ \A k \in 1..q : h[k] = v - (k - 1) * g
    OBVIOUS
  <2> HIDE DEF h, q, o
  <2>5. o <= q
    <3>1. ASSUME q <= o - 1 PROVE FALSE
      <4>1. q \in Nat
        <5>1. ASSUME q <= -1 PROVE FALSE
          <6>1. g * q <= g * (-1) /\ g * (-1) = -g /\ g * q \in Int
            BY <2>2, <5>1
          <6>2. QED
            BY <2>2, <6>1
        <5>2. QED
          BY <2>2, <5>1
      <4>2. o \in Nat \ {0} /\ v >= x
        BY <2>3, <3>1, <4>1 DEF Owed, o
      <4>3. g * q <= g * (o - 1) /\ g * q \in Int /\ g * (o - 1) \in Int
        BY <2>2, <3>1, <4>1, <4>2
      <4>4. g * (o - 1) <= v - x
        BY <2>3, <4>2
      <4>5. QED
        BY <2>2, <4>2, <4>3, <4>4
    <3>2. QED
      BY <2>2, <2>3, <3>1
  <2>6. ASSUME NEW k \in 1..q PROVE h[k] >= x <=> k <= o
    <3>1. k - 1 \in Nat /\ (k - 1) * g \in Nat /\ h[k] = v - (k - 1) * g /\ (k - 1) * g = g * (k - 1)
      BY <2>2, <2>4
    <3>2. CASE v < x
      <4>1. o = 0
        BY <3>2 DEF o, Owed
      <4>2. QED
        BY <2>2, <3>1, <3>2, <4>1
    <3>3. CASE v >= x
      <4> DEFINE j == k - 1
      <4>0. j \in Nat /\ k = j + 1 /\ h[k] = v - g * j /\ v \in Int
        BY <3>1
      <4> HIDE DEF j
      <4>1. (g * j <= v - x => j + 1 <= o) /\ (v - x < g * j => o <= j)
        BY <3>3, <4>0, OwedOnly DEF o
      <4>2. g * j \in Int
        BY <4>0
      <4>3. QED
        BY ONLY <2>3, <4>0, <4>1, <4>2, x \in Nat
    <3>4. QED
      BY <3>2, <3>3
  <2>7. {k \in DOMAIN h : h[k] >= x} = 1..o
    BY <2>2, <2>3, <2>4, <2>5, <2>6
  <2>8. Cardinality(1..o) = o
    <3>1. Cardinality(1..o) = IF 1 > o THEN 0 ELSE o - 1 + 1
      BY <2>3, FS_Interval
    <3>2. QED
      BY <2>3, <3>1
  <2>9. QED
    BY <1>1, <2>1, <2>7, <2>8 DEF o
<1>4. QED
  BY <1>2, <1>3

\* A tick answered in r' after one that left it a wait of p owes at least what its own
\* service and that wait owe.
LEMMA OwedArrives ==
  ASSUME NEW g \in Nat \ {0}, NEW x \in Nat, x >= g, NEW s \in Nat, NEW p \in Int, NEW r \in Nat,
         r >= s, r >= p + s
  PROVE  Owed(s, x, g) + Owed(p, x, g) <= (IF r >= x THEN 1 ELSE 0) + Owed(r - g, x, g)
<1>1. Owed(r, x, g) = (IF r >= x THEN 1 ELSE 0) + Owed(r - g, x, g)
  <2>1. r \in Int
    OBVIOUS
  <2>2. QED
    BY <2>1, OwedStep
<1>2. s \in Int /\ r \in Int /\ Owed(s, x, g) \in Nat /\ Owed(p, x, g) \in Nat /\ Owed(r, x, g) \in Nat
  <2>1. s \in Int /\ r \in Int
    OBVIOUS
  <2>2. QED
    BY <2>1, OwedIs
<1>3. CASE p < 0
  <2>1. Owed(p, x, g) = 0
    BY <1>3 DEF Owed
  <2>2. Owed(s, x, g) <= Owed(r, x, g)
    BY <1>2, OwedGrows
  <2>3. QED
    BY <1>1, <1>2, <2>1, <2>2
<1>4. CASE p >= 0
  <2> DEFINE c == s + p
  <2>1. c \in Int /\ p \in Nat /\ c <= r
    BY <1>4
  <2>2. Owed(s, x, g) + Owed(p, x, g) <= Owed(c, x, g)
    BY <2>1, OwedTogether
  <2> HIDE DEF c
  <2>3. Owed(c, x, g) <= Owed(r, x, g) /\ Owed(c, x, g) \in Nat
    BY <1>2, <2>1, OwedGrows, OwedIs
  <2>4. QED
    BY ONLY <1>1, <1>2, <2>2, <2>3
<1>5. QED
  BY <1>3, <1>4

\* The ticks 1..m that took x or more.
Late(r, m, x) == {i \in 1..m : r[i] >= x}

LEMMA LateGrows ==
  ASSUME NEW r, NEW x, NEW m \in Nat
  PROVE  /\ IsFiniteSet(Late(r, m, x)) /\ Cardinality(Late(r, m, x)) \in Nat
         /\ Cardinality(Late(r, m + 1, x)) = Cardinality(Late(r, m, x)) + (IF r[m + 1] >= x THEN 1 ELSE 0)
<1>1. IsFiniteSet(1..m)
  <2>1. m \in Int /\ 1 \in Int
    OBVIOUS
  <2>2. QED
    BY <2>1, FS_Interval
<1>2. IsFiniteSet(Late(r, m, x)) /\ Cardinality(Late(r, m, x)) \in Nat
  <2>1. Late(r, m, x) \subseteq 1..m
    BY DEF Late
  <2>2. QED
    BY <1>1, <2>1, FS_Subset, FS_CardinalityType
<1>3. m + 1 \notin Late(r, m, x)
  BY DEF Late
<1>4. CASE r[m + 1] >= x
  <2>1. Late(r, m + 1, x) = Late(r, m, x) \cup {m + 1}
    BY <1>4 DEF Late
  <2>2. QED
    BY <1>2, <1>3, <1>4, <2>1, FS_AddElement
<1>5. CASE ~(r[m + 1] >= x)
  <2>1. Late(r, m + 1, x) = Late(r, m, x)
    BY <1>5 DEF Late
  <2>2. QED
    BY <1>2, <1>5, <2>1
<1>6. QED
  BY <1>2, <1>4, <1>5

\* Ticks arrive every g, each is answered after its own service and after the one before
\* it, and the last before the next is due: what their services owe to the tail they have
\* all shown.
LEMMA TailPaid ==
  ASSUME NEW n \in Nat \ {0}, NEW g \in Nat \ {0}, NEW x \in Nat, x >= g,
         NEW s \in [1..n -> Nat], NEW r \in [1..n -> Nat],
         \A i \in 1..n : r[i] >= s[i],
         \A i \in 1..(n - 1) : r[i + 1] >= (r[i] - g) + s[i + 1],
         r[n] <= g
  PROVE  SumFunctionOnSet([i \in 1..n |-> Owed(s[i], x, g)], 1..n) <= Cardinality(Late(r, n, x))
<1> DEFINE O == [i \in 1..n |-> Owed(s[i], x, g)]
           sum(m) == SumFunctionOnSet(O, 1..m)
           left(m) == IF m = 0 THEN 0 ELSE r[m] - g
           C == {m \in 0..n : ~(sum(m) <= Cardinality(Late(r, m, x)) + Owed(left(m), x, g))}
<1>1. \A i \in 1..n : O[i] = Owed(s[i], x, g) /\ O[i] \in Nat
  <2>1. ASSUME NEW i \in 1..n PROVE Owed(s[i], x, g) \in Nat
    <3>1. s[i] \in Int
      OBVIOUS
    <3>2. QED
      BY <3>1, OwedIs
  <2>2. QED
    BY <2>1
<1>2. \A m \in 0..n : left(m) \in Int
  OBVIOUS
<1>3. ASSUME NEW m \in 0..n PROVE IsFiniteSet(1..m) /\ sum(m) \in Int
  <2>1. m \in Int /\ 1 \in Int /\ 1..m \subseteq 1..n
    OBVIOUS
  <2>2. IsFiniteSet(1..m)
    BY <2>1, FS_Interval
  <2>3. \A i \in 1..m : O[i] \in Int
    BY <1>1, <2>1
  <2> HIDE DEF O
  <2>4. QED
    BY <2>2, <2>3, SumType
<1>4. 0 \notin C
  <2>1. 1..0 = {}
    OBVIOUS
  <2>2. sum(0) = 0
    <3> HIDE DEF O
    <3>1. QED
      BY <2>1, SumEmpty
  <2>3. left(0) \in Int /\ 0 \in Nat
    OBVIOUS
  <2> HIDE DEF left
  <2>4. Owed(left(0), x, g) \in Nat
    BY <2>3, OwedIs
  <2>5. Cardinality(Late(r, 0, x)) \in Nat
    BY <2>3, LateGrows
  <2>6. QED
    BY <2>2, <2>4, <2>5
<1>5. ASSUME NEW m \in 0..n, m # n, m \notin C PROVE m + 1 \notin C
  <2> DEFINE k == m + 1
             c == Cardinality(Late(r, m, x))
             d == Cardinality(Late(r, k, x))
             one == IF r[k] >= x THEN 1 ELSE 0
             a == Owed(s[k], x, g)
             b == Owed(left(m), x, g)
             e == Owed(r[k] - g, x, g)
  <2>1. k \in 1..n /\ k \in 0..n /\ m \in Nat /\ s[k] \in Nat /\ r[k] \in Nat /\ left(k) = r[k] - g
    BY <1>5
  <2>2. r[k] >= s[k] /\ r[k] >= left(m) + s[k]
    BY <1>5, <2>1
  <2>3. a + b <= one + e
    <3>1. left(m) \in Int
      BY <1>2
    <3> HIDE DEF left, k
    <3>2. QED
      BY <2>1, <2>2, <3>1, OwedArrives
  <2>4. c \in Nat /\ d = c + one
    BY <2>1, LateGrows
  <2>5. sum(k) = a + sum(m)
    <3>1. 1..k = (1..m) \cup {k} /\ k \notin 1..m
      BY <2>1
    <3>2. \A i \in (1..m) \cup {k} : O[i] \in Int
      BY <1>1, <2>1, <3>1
    <3>3. O[k] = a
      BY <1>1, <2>1
    <3> HIDE DEF O, k
    <3>4. SumFunctionOnSet(O, (1..m) \cup {k}) = O[k] + SumFunctionOnSet(O, 1..m)
      BY <1>3, <3>1, <3>2, SumAdd
    <3>5. QED
      BY <3>1, <3>3, <3>4
  <2>6. a \in Nat /\ b \in Nat /\ e \in Nat /\ one \in {0, 1}
    <3>1. left(m) \in Int /\ s[k] \in Int /\ r[k] - g \in Int
      BY <1>2, <2>1
    <3> HIDE DEF left, k
    <3>2. QED
      BY <3>1, OwedIs
  <2>7. sum(m) <= c + b /\ sum(m) \in Int
    BY <1>3, <1>5
  <2>8. Owed(left(k), x, g) = e
    BY <2>1
  <2> HIDE DEF sum, c, d, one, a, b, e, k, left
  <2>9. sum(k) <= d + e
    BY ONLY <2>3, <2>4, <2>5, <2>6, <2>7
  <2>10. QED
    BY <2>1, <2>8, <2>9 DEF d, k
<1>6. C = {}
  <2>1. ASSUME C # {} PROVE FALSE
    <3> HIDE DEF sum, left
    <3>1. C \in SUBSET Nat
      OBVIOUS
    <3>2. PICK m \in C : \A j \in C : m <= j
      <4> HIDE DEF C
      <4>1. QED
        BY <2>1, <3>1, NatLeast
    <3>3. m # 0 /\ m \in 0..n
      BY <1>4, <3>2
    <3>4. m - 1 \in 0..n /\ m - 1 # n /\ (m - 1) + 1 = m
      BY <3>3
    <3>5. m - 1 \notin C
      <4> HIDE DEF C
      <4>1. QED
        BY <3>2, <3>3
    <3> DEFINE j == m - 1
    <3> HIDE DEF C, j
    <3>6. j \in 0..n /\ j # n /\ j \notin C
      BY <3>4, <3>5 DEF j
    <3>7. j + 1 \notin C
      BY <1>5, <3>6
    <3>8. QED
      BY <3>2, <3>4, <3>7 DEF j
  <2>2. QED
    BY <2>1
<1>7. sum(n) <= Cardinality(Late(r, n, x)) + Owed(left(n), x, g)
  <2>1. n \in 0..n
    OBVIOUS
  <2>2. n \notin C
    <3> HIDE DEF C
    <3>1. QED
      BY <1>6
  <2> HIDE DEF sum, left
  <2>3. QED
    BY <2>1, <2>2
<1>8. Owed(left(n), x, g) = 0
  <2>1. left(n) < x
    OBVIOUS
  <2>2. QED
    BY <2>1 DEF Owed
<1>9. Cardinality(Late(r, n, x)) \in Nat
  BY LateGrows
<1>10. QED
  BY <1>7, <1>8, <1>9

LEMMA SameStageSum == ASSUME NEW f, NEW S PROVE Stages!SumFunctionOnSet(f, S) = SumFunctionOnSet(f, S)
BY DEF Stages!SumFunctionOnSet, Stages!FoldFunctionOnSet, Stages!MapThenFoldSet,
       SumFunctionOnSet, FoldFunctionOnSet, MapThenFoldSet

LEMMA IntervalIs ==
  ASSUME Stages!ScheduleAssumption, NEW t \in Stages!Tapes
  PROVE  Stages!ExpectedInterval(t) \in Nat
<1> DEFINE D == {j \in 1..(N - 1) : Stages!Due(t, j) < Stages!Due(t, j + 1)}
           h == Stages!Gaps(t)
           c == Cardinality(D)
           k == c \div 2 + 1
<1>1. N \in Nat /\ Len(t) = N
  <2>1. N \in Nat /\ t \in [1..N -> 0..(MaxMs * N)]
    BY DEF Stages!Tapes, Stages!ScheduleAssumption
  <2>2. QED
    BY <2>1
<1>2. \A j \in 1..N : Stages!Due(t, j) \in Int
  BY DueIs
<1>3. h = [j \in D |-> Stages!Due(t, j + 1) - Stages!Due(t, j)]
  BY <1>1 DEF Stages!Gaps
<1>4. h \in [D -> Nat] /\ DOMAIN h = D
  <2>1. ASSUME NEW j \in D PROVE Stages!Due(t, j + 1) - Stages!Due(t, j) \in Nat
    <3>1. j \in 1..N /\ j + 1 \in 1..N
      BY <1>1
    <3>2. QED
      BY <1>2, <3>1
  <2> HIDE DEF D
  <2>2. QED
    BY <1>3, <2>1
<1>5. IsFiniteSet(D) /\ c \in Nat
  <2>1. N - 1 \in Int /\ 1 \in Int /\ D \subseteq 1..(N - 1)
    BY <1>1
  <2>2. IsFiniteSet(1..(N - 1))
    BY <2>1, FS_Interval
  <2> HIDE DEF D
  <2>3. QED
    BY <2>1, <2>2, FS_Subset, FS_CardinalityType
<1>6. Stages!ExpectedInterval(t) = IF c = 0 THEN 0 ELSE Stages!Ranked(h, k)
  <2> HIDE DEF D, h
  <2>1. Stages!Cardinality(DOMAIN h) = c
    BY <1>4, SameMembers
  <2> HIDE DEF c
  <2>2. QED
    BY <2>1 DEF Stages!ExpectedInterval, h
<1> HIDE DEF D, h, c
<1>7. CASE c = 0
  BY <1>6, <1>7
<1>8. CASE c # 0
  <2>1. k \in Nat \ {0} /\ k <= c
    BY <1>5, <1>8
  <2> HIDE DEF k
  <2>2. k <= Cardinality(D)
    BY <2>1 DEF c
  <2>3. Stages!Ranked(h, k) \in Nat
    BY <1>4, <1>5, <2>1, <2>2, RankedIs
  <2>4. QED
    BY <1>6, <1>8, <2>3
<1>9. QED
  BY <1>7, <1>8

LEMMA WantedIs ==
  ASSUME NEW n \in Nat \ {0}, NEW p \in {50, 90, 99, 100}
  PROVE  /\ Stages!Wanted(n, p) \in 1..n
         /\ 100 * Stages!Wanted(n, p) >= p * n
<1> DEFINE w == Stages!Wanted(n, p)
           a == p * n + 99
<1>1. p * n \in Int /\ p * n >= n /\ p * n <= 100 * n /\ p * n >= 50
  <2>1. p \in Nat /\ p >= 50
    OBVIOUS
  <2>2. CASE p = 50
    BY <2>2
  <2>3. CASE p = 90
    BY <2>3
  <2>4. CASE p = 99
    BY <2>4
  <2>5. CASE p = 100
    BY <2>5
  <2>6. QED
    BY <2>2, <2>3, <2>4, <2>5
<1>2. w = a \div 100 /\ a \in Int
  BY <1>1 DEF Stages!Wanted
<1> HIDE DEF a, w
<1>3. w \in Int /\ 100 * w <= a /\ a < 100 * w + 100
  <2>1. 100 \in Nat \ {0}
    OBVIOUS
  <2>2. QED
    BY <1>2, <2>1, QuotientBounds
<1> DEFINE m == p * n
<1>4. m \in Int /\ m >= n /\ m <= 100 * n /\ m >= 50 /\ a = m + 99
  BY <1>1 DEF a
<1> HIDE DEF m
<1>5. 100 * w >= m /\ w >= 1 /\ w <= n
  BY <1>3, <1>4
<1>6. QED
  BY <1>3, <1>5 DEF m, w

-------------------------------------------------------------------------------
(* The paced replay.                                                       *)

When(i) == Stages!Due(recorded, i)

\* No tick starts before it is due, nor before the one ahead of it is answered.
TimesInv ==
  /\ recorded \in Stages!Tapes
  /\ now \in Nat
  /\ service \in Seq(Costs) /\ response \in Seq(Nat) /\ queueing \in Seq(Nat)
  /\ Len(response) = Stages!Done /\ Len(queueing) = Stages!Done /\ Stages!Done <= N
  /\ \A i \in 1..Stages!Done : response[i] = queueing[i] + service[i]
  /\ \A i \in 1..(Stages!Done - 1) : queueing[i + 1] >= When(i) + response[i] - When(i + 1)
  /\ Stages!Done > 0 => now = When(Stages!Done) + response[Stages!Done]

LEMMA TimesStart == ASSUME Stages!ScheduleAssumption, Stages!Init PROVE TimesInv
<1>1. N \in Nat
  BY DEF Stages!ScheduleAssumption
<1>2. QED
  BY <1>1 DEF TimesInv, Stages!Init, Stages!Done

LEMMA Appended ==
  ASSUME NEW S, NEW h \in Seq(S), NEW v \in S
  PROVE  /\ Append(h, v) \in Seq(S) /\ Len(Append(h, v)) = Len(h) + 1
         /\ \A i \in 1..Len(h) : Append(h, v)[i] = h[i]
         /\ Append(h, v)[Len(h) + 1] = v
OBVIOUS

LEMMA TimesStep ==
  ASSUME Stages!ScheduleAssumption, TimesInv,
         NEW cost \in Costs, NEW late \in Delays, NEW notice \in Delays, Stages!Handle(cost, late, notice)
  PROVE  TimesInv'
<1> DEFINE n == Len(service)
           due == When(n + 1)
           reached == now + late
           start == IF reached < due THEN due + notice ELSE reached
           out == start + cost
<1>1. /\ cost \in Nat \ {0} /\ late \in Nat /\ notice \in Nat /\ N \in Nat /\ n \in Nat /\ n < N
      /\ service' = Append(service, cost) /\ response' = Append(response, out - due)
      /\ queueing' = Append(queueing, start - due) /\ now' = out /\ recorded' = recorded
  <2>1. n \in Nat
    BY DEF TimesInv
  <2>2. QED
    BY <2>1 DEF Stages!Handle, Stages!ScheduleAssumption, Stages!Done, When
<1>2. \A i \in 1..N : When(i) \in Int
  BY DueIs DEF TimesInv, When
<1>3. due \in Int
  BY <1>1, <1>2
<1> HIDE DEF due
<1>4. start \in Nat /\ start >= due /\ start >= now /\ now \in Nat
  BY <1>1, <1>3 DEF TimesInv
<1> HIDE DEF start
<1>5. out \in Nat /\ out - due \in Nat /\ start - due \in Nat /\ out - due = (start - due) + cost
  BY <1>1, <1>3, <1>4
<1> HIDE DEF out
<1> DEFINE o == out - due
           s == start - due
<1>6. o \in Nat /\ s \in Nat /\ o = s + cost /\ out = due + o
  BY <1>1, <1>3, <1>5 DEF out
<1>7. s >= now - due
  BY <1>3, <1>4
<1>8. response' = Append(response, o) /\ queueing' = Append(queueing, s)
  BY <1>1
<1> HIDE DEF o, s
<1>9. /\ service \in Seq(Costs) /\ response \in Seq(Nat) /\ queueing \in Seq(Nat)
      /\ Len(response) = n /\ Len(queueing) = n
  BY DEF TimesInv, Stages!Done
<1>10. /\ service' \in Seq(Costs) /\ Len(service') = n + 1
       /\ \A i \in 1..n : service'[i] = service[i]
       /\ service'[n + 1] = cost
  BY <1>1, <1>9, Appended
<1>11. /\ response' \in Seq(Nat) /\ Len(response') = n + 1
       /\ \A i \in 1..n : response'[i] = response[i]
       /\ response'[n + 1] = o
  BY <1>6, <1>8, <1>9, Appended
<1>12. /\ queueing' \in Seq(Nat) /\ Len(queueing') = n + 1
       /\ \A i \in 1..n : queueing'[i] = queueing[i]
       /\ queueing'[n + 1] = s
  BY <1>6, <1>8, <1>9, Appended
<1>13. Stages!Done' = n + 1 /\ Stages!Done = n
  BY <1>10 DEF Stages!Done
<1>14. ASSUME NEW i \in 1..(n + 1) PROVE response'[i] = queueing'[i] + service'[i]
  <2>1. CASE i = n + 1
    BY <1>6, <1>10, <1>11, <1>12, <2>1
  <2>2. CASE i # n + 1
    <3>1. i \in 1..n
      BY <1>1, <2>2
    <3>2. response[i] = queueing[i] + service[i]
      BY <1>13, <3>1 DEF TimesInv
    <3>3. QED
      BY <1>10, <1>11, <1>12, <3>1, <3>2
  <2>3. QED
    BY <2>1, <2>2
<1>15. ASSUME NEW i \in 1..n PROVE queueing'[i + 1] >= When(i) + response'[i] - When(i + 1)
  <2>1. CASE i = n
    <3>1. now = When(n) + response[n]
      BY <1>1, <1>13, <2>1 DEF TimesInv
    <3>2. queueing'[i + 1] = s /\ response'[i] = response[n] /\ When(i + 1) = due /\ When(i) = When(n)
      BY <1>11, <1>12, <2>1 DEF due
    <3>3. n \in 1..N /\ n \in 1..Len(response)
      BY <1>1, <1>9, <2>1
    <3>4. When(n) \in Int /\ response[n] \in Nat
      BY <1>2, <1>9, <3>3
    <3> DEFINE a == When(n)
               b == response[n]
    <3>5. a \in Int /\ b \in Nat /\ now = a + b
      BY <3>1, <3>4
    <3> HIDE DEF a, b
    <3>6. s >= a + b - due
      BY ONLY <1>3, <1>4, <1>6, <1>7, <3>5
    <3>7. QED
      BY <3>2, <3>6 DEF a, b
  <2>2. CASE i # n
    <3>1. i \in 1..(n - 1) /\ i + 1 \in 1..n
      BY <1>1, <2>2
    <3>2. queueing[i + 1] >= When(i) + response[i] - When(i + 1)
      BY <1>13, <3>1 DEF TimesInv
    <3>3. QED
      BY <1>11, <1>12, <3>1, <3>2
  <2>3. QED
    BY <2>1, <2>2
<1>16. \A i : When(i)' = When(i)
  BY <1>1 DEF When, Stages!Due, Stages!Offset, Stages!Cluster
<1>17. recorded' \in Stages!Tapes /\ now' \in Nat
  BY <1>1, <1>5 DEF TimesInv
<1>18. now' = When(n + 1) + o
  BY <1>1, <1>6 DEF due
<1>19. n + 1 <= N /\ (n + 1) - 1 = n
  BY <1>1
<1>20. /\ recorded' \in Stages!Tapes'
       /\ \A i \in 1..Stages!Done' : response'[i] = queueing'[i] + service'[i]
       /\ \A i \in 1..(Stages!Done' - 1) : queueing'[i + 1] >= When(i)' + response'[i] - When(i + 1)'
       /\ Stages!Done' > 0 => now' = When(Stages!Done)' + response'[Stages!Done']
  <2>1. Stages!Tapes' = Stages!Tapes
    BY DEF Stages!Tapes
  <2>2. When(Stages!Done)' = When(n + 1)
    BY <1>1, <1>13 DEF When, Stages!Due, Stages!Offset, Stages!Cluster
  <2>3. \A i \in 1..n : When(i)' = When(i) /\ When(i + 1)' = When(i + 1)
    BY <1>16
  <2>4. QED
    BY <1>11, <1>13, <1>14, <1>15, <1>17, <1>18, <1>19, <2>1, <2>2, <2>3
<1>21. QED
  BY <1>10, <1>11, <1>12, <1>13, <1>17, <1>19, <1>20 DEF TimesInv

-------------------------------------------------------------------------------
(* What is concluded.                                                      *)

LEMMA Measured ==
  ASSUME Stages!ScheduleAssumption, TimesInv
  PROVE  /\ Stages!Done \in Nat /\ Len(service) = Stages!Done
         /\ service \in Seq(Nat) /\ response \in Seq(Nat)
         /\ DOMAIN service = 1..Stages!Done /\ DOMAIN response = 1..Stages!Done
         /\ \A i \in 1..Stages!Done :
              /\ service[i] \in Nat \ {0} /\ response[i] \in Nat /\ queueing[i] \in Nat
              /\ response[i] = queueing[i] + service[i]
         /\ IsFiniteSet(1..Stages!Done) /\ Cardinality(1..Stages!Done) = Stages!Done
<1> DEFINE n == Stages!Done
<1>1. n = Len(service) /\ Costs \subseteq Nat \ {0} /\ service \in Seq(Costs)
  BY DEF TimesInv, Stages!Done, Stages!ScheduleAssumption
<1>2. n \in Nat
  BY <1>1
<1>3. response \in Seq(Nat) /\ queueing \in Seq(Nat) /\ Len(response) = n /\ Len(queueing) = n
  BY DEF TimesInv
<1>4. \A i \in 1..n : response[i] = queueing[i] + service[i]
  BY DEF TimesInv
<1> HIDE DEF n
<1>5. \A i \in 1..n : service[i] \in Nat \ {0} /\ response[i] \in Nat /\ queueing[i] \in Nat
  <2>1. ASSUME NEW i \in 1..n PROVE service[i] \in Costs /\ response[i] \in Nat /\ queueing[i] \in Nat
    BY <1>1, <1>2, <1>3, ElementOfSeq
  <2>2. QED
    BY <1>1, <2>1
<1>6. DOMAIN service = 1..n /\ DOMAIN response = 1..n
  BY <1>1, <1>3
<1>7. service \in Seq(Nat)
  <2>1. service \in [1..n -> Nat]
    BY <1>1, <1>5, <1>6
  <2>2. QED
    BY <1>2, <2>1, SeqDef
<1>8. IsFiniteSet(1..n) /\ Cardinality(1..n) = n
  <2>1. n \in Int /\ 1 \in Int
    BY <1>2
  <2>2. IsFiniteSet(1..n) /\ Cardinality(1..n) = IF 1 > n THEN 0 ELSE n - 1 + 1
    BY <2>1, FS_Interval
  <2>3. QED
    BY <1>2, <2>2
<1>9. QED
  BY <1>1, <1>2, <1>3, <1>4, <1>5, <1>6, <1>7, <1>8 DEF n

\* On uniform arrivals, and once the handler has caught up, the correction owes no more
\* than the ticks have shown.
LEMMA TailIsPaid ==
  ASSUME Stages!ScheduleAssumption, TimesInv, Stages!Done > 0, Stages!Done < N,
         NEW g, g = Stages!ExpectedInterval(recorded),
         \A i \in 1..(N - 1) : When(i + 1) - When(i) = g,
         now <= When(Stages!Done + 1), NEW x \in Nat, x >= g
  PROVE  Stages!CorrectedTail(x) <= Stages!AtOrAbove(response, x)
<1> DEFINE n == Stages!Done
<1>1. /\ n \in Nat \ {0} /\ DOMAIN service = 1..n /\ DOMAIN response = 1..n /\ IsFiniteSet(1..n)
      /\ \A i \in 1..n : /\ service[i] \in Nat \ {0} /\ response[i] \in Nat /\ queueing[i] \in Nat
                         /\ response[i] = queueing[i] + service[i]
  BY Measured
<1>2. N \in Nat /\ n < N /\ n \in 1..(N - 1)
  BY <1>1 DEF Stages!ScheduleAssumption
<1>3. \A i \in 1..N : When(i) \in Int
  BY DueIs DEF TimesInv, When
<1>4. g \in Nat
  BY IntervalIs DEF TimesInv
<1>5. /\ now = When(n) + response[n] /\ now <= When(n + 1) /\ now \in Nat
      /\ \A i \in 1..(n - 1) : queueing[i + 1] >= When(i) + response[i] - When(i + 1)
  BY <1>1 DEF TimesInv
<1> HIDE DEF n
<1>6. response[n] <= g
  <2> DEFINE a == When(n)
             b == When(n + 1)
             r == response[n]
  <2>1. n \in 1..n /\ n \in 1..N /\ n + 1 \in 1..N
    BY <1>1, <1>2
  <2>2. a \in Int /\ b \in Int /\ r \in Nat /\ b - a = g /\ now = a + r /\ now <= b
    BY <1>1, <1>2, <1>3, <1>5, <2>1
  <2> HIDE DEF a, b
  <2>3. r <= g
    BY <1>5, <2>2
  <2>4. QED
    BY <2>3
<1>7. g \in Nat \ {0}
  <2>1. n \in 1..n
    BY <1>1
  <2>2. service[n] \in Nat \ {0} /\ queueing[n] \in Nat /\ response[n] = queueing[n] + service[n]
    BY <1>1, <2>1
  <2>3. QED
    BY <1>4, <1>6, <2>2
<1>8. ASSUME NEW i \in 1..(n - 1) PROVE response[i + 1] >= (response[i] - g) + service[i + 1]
  <2>1. i \in 1..n /\ i + 1 \in 1..n /\ i \in 1..N /\ i + 1 \in 1..N /\ i \in 1..(N - 1)
    BY <1>1, <1>2
  <2> DEFINE a == When(i)
             b == When(i + 1)
             r == response[i]
             z == response[i + 1]
             q == queueing[i + 1]
             s == service[i + 1]
  <2>2. a \in Int /\ b \in Int /\ b - a = g /\ r \in Nat /\ z \in Nat /\ q \in Nat /\ s \in Nat
        /\ z = q + s /\ q >= a + r - b
    BY <1>1, <1>3, <1>5, <2>1
  <2> HIDE DEF a, b, r, z, q, s
  <2>3. z >= (r - g) + s
    BY <1>4, <2>2
  <2>4. QED
    BY <2>3 DEF z, r, s
<1> DEFINE S == [i \in 1..n |-> service[i]]
           R == [i \in 1..n |-> response[i]]
           O == [i \in 1..n |-> Owed(S[i], x, g)]
           C == [i \in 1..n |-> Stages!AtOrAbove(Stages!Corrected(service[i], g), x)]
<1>9. S \in [1..n -> Nat] /\ R \in [1..n -> Nat] /\ \A i \in 1..n : S[i] = service[i] /\ R[i] = response[i]
  BY <1>1
<1>10. SumFunctionOnSet(O, 1..n) <= Cardinality(Late(R, n, x))
  <2> HIDE DEF S, R
  <2>1. \A i \in 1..n : R[i] >= S[i]
    <3>1. ASSUME NEW i \in 1..n PROVE R[i] >= S[i]
      <4>1. /\ service[i] \in Nat /\ queueing[i] \in Nat /\ response[i] = queueing[i] + service[i]
            /\ S[i] = service[i] /\ R[i] = response[i]
        BY <1>1, <1>9
      <4>2. QED
        BY <4>1
    <3>2. QED
      BY <3>1
  <2>2. \A i \in 1..(n - 1) : R[i + 1] >= (R[i] - g) + S[i + 1]
    <3>1. ASSUME NEW i \in 1..(n - 1) PROVE R[i + 1] >= (R[i] - g) + S[i + 1]
      <4>1. i \in 1..n /\ i + 1 \in 1..n
        BY <1>1
      <4>2. QED
        BY <1>8, <1>9, <4>1
    <3>2. QED
      BY <3>1
  <2>3. R[n] <= g
    BY <1>1, <1>6, <1>9
  <2>4. QED
    BY <1>1, <1>7, <1>9, <2>1, <2>2, <2>3, TailPaid
<1>11. \A i \in 1..n : O[i] \in Int /\ O[i] = C[i]
  <2>1. ASSUME NEW i \in 1..n PROVE O[i] \in Int /\ O[i] = C[i]
    <3>1. S[i] = service[i] /\ service[i] \in Nat /\ service[i] \in Int
      BY <1>1, <1>9
    <3>2. O[i] = Owed(service[i], x, g) /\ C[i] = Stages!AtOrAbove(Stages!Corrected(service[i], g), x)
      BY <3>1
    <3> HIDE DEF O, C, S
    <3>3. C[i] = Owed(service[i], x, g)
      BY <1>7, <3>1, <3>2, CorrectedOwes
    <3>4. Owed(service[i], x, g) \in Nat
      BY <1>7, <3>1, OwedIs
    <3>5. QED
      BY <3>2, <3>3, <3>4
  <2>2. QED
    BY <2>1
<1>12. Stages!CorrectedTail(x) = SumFunctionOnSet(C, 1..n)
  <2>1. Stages!CorrectedTail(x) = Stages!SumFunctionOnSet(C, 1..n)
    BY DEF Stages!CorrectedTail, n
  <2> HIDE DEF C
  <2>2. QED
    BY <2>1, SameStageSum
<1>13. SumFunctionOnSet(O, 1..n) = SumFunctionOnSet(C, 1..n)
  <2> HIDE DEF O, C
  <2>1. QED
    BY <1>1, <1>11, SumCong
<1>14. Stages!AtOrAbove(response, x) = Cardinality(Late(R, n, x))
  <2>1. {i \in DOMAIN response : response[i] >= x} = Late(R, n, x)
    BY <1>1, <1>9 DEF Late
  <2>2. QED
    BY <2>1, SameMembers DEF Stages!AtOrAbove
<1>15. QED
  BY <1>10, <1>12, <1>13, <1>14

\* No tick waited: what is concluded is not that the correction had something to do.
LEMMA NothingWaited ==
  ASSUME Stages!ScheduleAssumption, TimesInv, Stages!Done > 0, NEW floor99 \in 0..1,
         \A i \in 1..Stages!Done : ~(queueing[i] > 0)
  PROVE  Stages!Conclusion(floor99) \in {"belowFloor", "nothingDeferred"}
<1> DEFINE n == Stages!Done
           p == Stages!Percentile(service, 99)
<1>1. /\ n \in Nat \ {0} /\ Len(service) = n /\ service \in Seq(Nat) /\ response \in Seq(Nat)
      /\ DOMAIN service = 1..n /\ DOMAIN response = 1..n
      /\ \A i \in 1..n : /\ service[i] \in Nat \ {0} /\ response[i] \in Nat /\ queueing[i] \in Nat
                         /\ response[i] = queueing[i] + service[i]
  BY Measured
<1>2. response = service
  <2>1. ASSUME NEW i \in 1..n PROVE response[i] = service[i]
    <3>1. queueing[i] = 0 /\ service[i] \in Nat /\ response[i] = queueing[i] + service[i]
      BY <1>1
    <3>2. QED
      BY <3>1
  <2> HIDE DEF n
  <2>2. QED
    BY <1>1, <2>1
<1>3. p \in Nat
  <2>1. service # <<>> /\ 99 \in {50, 90, 99, 100}
    BY <1>1
  <2>2. Stages!Wanted(Len(service), 99) \in 1..Len(service)
    BY <1>1, <2>1, WantedIs
  <2>3. QED
    BY <1>1, <2>1, <2>2, PercentileIs
<1> DEFINE r == Stages!Percentile(response, 99)
<1>4. r = p
  BY <1>2
<1>5. Stages!Conclusion(floor99) =
        CASE r <= floor99 -> "belowFloor"
          [] r > floor99 /\ 100 * r <= 105 * p -> "nothingDeferred"
          [] OTHER -> IF Stages!SynthesisedBy(service, Stages!ExpectedInterval(recorded)) = 0
                        THEN "nothingMadeUp" ELSE "deferralObserved"
  BY DEF Stages!Conclusion
<1> HIDE DEF p, r
<1>6. 100 * r <= 105 * p /\ (r <= floor99 \/ r > floor99)
  BY <1>3, <1>4
<1>7. CASE r <= floor99
  <2>1. ~(r > floor99)
    BY <1>3, <1>4, <1>7
  <2>2. QED
    BY <1>5, <1>7, <2>1
<1>8. CASE r > floor99
  <2>1. ~(r <= floor99)
    BY <1>3, <1>4, <1>8
  <2>2. QED
    BY <1>5, <1>6, <1>8, <2>1
<1>9. QED
  BY <1>6, <1>7, <1>8

\* The correction made nothing up: no service took two intervals.
LEMMA NothingMadeUp ==
  ASSUME Stages!ScheduleAssumption, TimesInv, NEW g \in Nat \ {0}, Stages!SynthesisedBy(service, g) = 0,
         NEW i \in 1..Stages!Done
  PROVE  service[i] < 2 * g
<1> DEFINE n == Stages!Done
           F == [k \in 1..n |-> Len(Stages!Corrected(service[k], g)) - 1]
<1>1. /\ DOMAIN service = 1..n /\ IsFiniteSet(1..n)
      /\ \A k \in 1..n : service[k] \in Nat \ {0}
  BY Measured
<1>2. Stages!SynthesisedBy(service, g) = SumFunctionOnSet(F, 1..n)
  <2>1. Stages!SynthesisedBy(service, g) = Stages!SumFunctionOnSet(F, 1..n)
    BY <1>1 DEF Stages!SynthesisedBy
  <2> HIDE DEF F
  <2>2. QED
    BY <2>1, SameStageSum
<1>3. ASSUME NEW v \in Nat
      PROVE  /\ Len(Stages!Corrected(v, g)) \in Nat \ {0}
             /\ Len(Stages!Corrected(v, g)) = 1 => v < 2 * g
  <2>1. CASE v <= g
    <3>1. Stages!Corrected(v, g) = <<v>>
      BY <2>1 DEF Stages!Corrected
    <3>2. Len(Stages!Corrected(v, g)) = 1
      BY <3>1
    <3>3. QED
      BY <2>1, <3>2
  <2>2. CASE v > g
    <3> DEFINE q == v \div g
    <3>1. q \in Int /\ g * q <= v /\ v < g * q + g
      BY QuotientBounds
    <3>2. Stages!Corrected(v, g) = [k \in 1..q |-> v - (k - 1) * g]
      BY <2>2 DEF Stages!Corrected
    <3> HIDE DEF q
    <3>3. q >= 1
      <4>1. ASSUME q <= 0 PROVE FALSE
        <5>1. g * q <= g * 0 /\ g * 0 = 0 /\ g * q \in Int
          BY <3>1, <4>1
        <5>2. QED
          BY <2>2, <3>1, <5>1
      <4>2. QED
        BY <3>1, <4>1
    <3>4. Len(Stages!Corrected(v, g)) = q
      BY <3>1, <3>2, <3>3
    <3>5. q = 1 => v < 2 * g
      BY <3>1
    <3>6. QED
      BY <3>1, <3>3, <3>4, <3>5
  <2>3. QED
    BY <2>1, <2>2
<1>4. \A k \in 1..n : F[k] \in Nat
  <2>1. ASSUME NEW k \in 1..n PROVE Len(Stages!Corrected(service[k], g)) - 1 \in Nat
    <3>1. Len(Stages!Corrected(service[k], g)) \in Nat \ {0}
      BY <1>1, <1>3
    <3>2. QED
      BY <3>1
  <2>2. QED
    BY <2>1
<1>5. F[i] <= 0
  <2>1. {i} \in SUBSET (1..n) /\ F[i] \in Nat
    BY <1>4
  <2> HIDE DEF F, n
  <2>2. SumFunctionOnSet(F, {i}) <= SumFunctionOnSet(F, 1..n)
    BY <1>1, <1>4, <2>1, SumOverPart
  <2>3. SumFunctionOnSet(F, {i}) = F[i]
    <3>1. IsFiniteSet({}) /\ i \notin {} /\ {} \cup {i} = {i}
      BY FS_EmptySet
    <3>2. \A y \in {} \cup {i} : F[y] \in Int
      BY <2>1
    <3>3. SumFunctionOnSet(F, {} \cup {i}) = F[i] + SumFunctionOnSet(F, {})
      BY <3>1, <3>2, SumAdd
    <3>4. QED
      BY <2>1, <3>1, <3>3, SumEmpty
  <2>4. QED
    BY <1>2, <2>2, <2>3
<1>6. F[i] = Len(Stages!Corrected(service[i], g)) - 1 /\ service[i] \in Nat
  BY <1>1
<1>7. Len(Stages!Corrected(service[i], g)) = 1
  <2>1. Len(Stages!Corrected(service[i], g)) \in Nat \ {0}
    BY <1>3, <1>6
  <2> HIDE DEF F
  <2>2. QED
    BY <1>5, <1>6, <2>1
<1>8. QED
  BY <1>3, <1>6, <1>7

\* The budget is kept by the percentile: it is kept by that share of the ticks.
LEMMA BudgetIsKept ==
  ASSUME Stages!ScheduleAssumption, TimesInv, Stages!Done > 0, NEW budget \in Costs, ~Stages!Breached(budget)
  PROVE  100 * Stages!AtOrAbove(service, budget + 1) <= Stages!Done
<1> DEFINE n == Stages!Done
           D == 1..n
           w == Stages!Wanted(n, 99)
           e == Stages!Ranked(service, w)
           p == Stages!Percentile(service, 99)
           B == {i \in D : service[i] <= budget}
           A == {i \in D : service[i] >= budget + 1}
<1>1. /\ n \in Nat \ {0} /\ Len(service) = n /\ service \in Seq(Nat) /\ DOMAIN service = D
      /\ \A i \in D : service[i] \in Nat \ {0}
      /\ IsFiniteSet(D) /\ Cardinality(D) = n
  BY Measured
<1>2. budget \in Nat \ {0}
  BY DEF Stages!ScheduleAssumption
<1> HIDE DEF n
<1>3. w \in 1..n /\ 100 * w >= 99 * n
  <2>1. 99 \in {50, 90, 99, 100}
    OBVIOUS
  <2>2. QED
    BY <1>1, <2>1, WantedIs
<1>4. e \in Nat /\ p \in Nat /\ e <= p /\ w <= Cardinality(AtMost(service, e))
  <2>1. service # <<>>
    BY <1>1
  <2>2. QED
    BY <1>1, <1>3, <2>1, PercentileIs
<1>5. p <= budget
  BY <1>2, <1>4 DEF Stages!Breached
<1> HIDE DEF w, e, p, D
<1>6. AtMost(service, e) \subseteq B
  <2>1. ASSUME NEW i \in D, service[i] <= e PROVE service[i] <= budget
    <3>1. service[i] \in Nat
      BY <1>1
    <3>2. QED
      BY <1>2, <1>4, <1>5, <2>1, <3>1
  <2>2. QED
    BY <1>1, <2>1 DEF AtMost
<1>7. IsFiniteSet(B) /\ Cardinality(B) \in Nat /\ B \subseteq D
  <2>1. B \subseteq D
    OBVIOUS
  <2> HIDE DEF B
  <2>2. QED
    BY <1>1, <2>1, FS_Subset, FS_CardinalityType
<1>8. w <= Cardinality(B)
  <2> HIDE DEF B
  <2>1. Cardinality(AtMost(service, e)) <= Cardinality(B) /\ IsFiniteSet(AtMost(service, e))
    BY <1>6, <1>7, FS_Subset
  <2>2. Cardinality(AtMost(service, e)) \in Nat
    BY <2>1, FS_CardinalityType
  <2>3. QED
    BY <1>3, <1>4, <1>7, <2>1, <2>2
<1>9. A = D \ B
  <2>1. ASSUME NEW i \in D PROVE service[i] >= budget + 1 <=> ~(service[i] <= budget)
    <3>1. service[i] \in Nat
      BY <1>1
    <3>2. QED
      BY <1>2, <3>1
  <2>2. QED
    BY <2>1
<1>10. Cardinality(A) = n - Cardinality(B)
  <2> HIDE DEF A, B
  <2>1. D \cap B = B
    BY <1>7
  <2>2. Cardinality(D \ B) = Cardinality(D) - Cardinality(D \cap B)
    BY <1>1, FS_Difference
  <2>3. QED
    BY <1>1, <1>9, <2>1, <2>2
<1>11. Stages!AtOrAbove(service, budget + 1) = Cardinality(A)
  BY <1>1, SameMembers DEF Stages!AtOrAbove
<1> HIDE DEF A, B
<1>12. QED
  BY <1>1, <1>3, <1>7, <1>8, <1>10, <1>11 DEF n

\* What print_end_to_end() says, and the verdict on the budget.
LEMMA ConclusionsHold ==
  ASSUME Stages!ScheduleAssumption, TimesInv, Stages!Done > 0,
         NEW g, g = Stages!ExpectedInterval(recorded), NEW floor99 \in 0..1
  PROVE  /\ Stages!Conclusion(floor99) \in {"nothingMadeUp", "deferralObserved"} =>
              \E i \in 1..Stages!Done : queueing[i] > 0
         /\ Stages!Conclusion(floor99) = "nothingMadeUp" /\ g > 0 =>
              \A i \in 1..Stages!Done : service[i] < 2 * g
<1>1. g \in Nat
  BY IntervalIs DEF TimesInv
<1>2. ASSUME Stages!Conclusion(floor99) \in {"nothingMadeUp", "deferralObserved"}
      PROVE  \E i \in 1..Stages!Done : queueing[i] > 0
  <2>1. Stages!Conclusion(floor99) \notin {"belowFloor", "nothingDeferred"}
    BY <1>2
  <2>2. QED
    BY <2>1, NothingWaited
<1>3. ASSUME Stages!Conclusion(floor99) = "nothingMadeUp", g > 0
      PROVE  \A i \in 1..Stages!Done : service[i] < 2 * g
  <2>1. Stages!SynthesisedBy(service, g) = 0
    BY <1>3 DEF Stages!Conclusion
  <2>2. g \in Nat \ {0}
    BY <1>1, <1>3
  <2>3. QED
    BY <2>1, <2>2, NothingMadeUp
<1>4. QED
  BY <1>2, <1>3

LEMMA TimesAreHonest == ASSUME Stages!ScheduleAssumption, TimesInv PROVE HistogramsHonest
<1> DEFINE n == Stages!Done
           g == Stages!ExpectedInterval(recorded)
<1> SUFFICES ASSUME n > 0
             PROVE  /\ \A p \in {50, 90, 99, 100} :
                         LET exact == Stages!Ranked(response, Stages!Wanted(n, p))
                             shown == Stages!Percentile(response, p)
                         IN  exact <= shown /\ (shown - exact) * HalfCount <= exact
                    /\ (\A i \in 1..(N - 1) : When(i + 1) - When(i) = g) /\ n < N /\ now <= When(n + 1) =>
                         \A x \in g..(now + 1) : Stages!CorrectedTail(x) <= Stages!AtOrAbove(response, x)
                    /\ \A floor99 \in 0..1 :
                         /\ Stages!Conclusion(floor99) \in {"nothingMadeUp", "deferralObserved"} =>
                              \E i \in 1..n : queueing[i] > 0
                         /\ Stages!Conclusion(floor99) = "nothingMadeUp" /\ g > 0 =>
                              \A i \in 1..n : service[i] < 2 * g
                    /\ \A budget \in Costs :
                         ~Stages!Breached(budget) => 100 * Stages!AtOrAbove(service, budget + 1) <= n
  BY DEF HistogramsHonest, Stages!HistogramsHonest, When, HalfCount
<1>1. n \in Nat \ {0} /\ response \in Seq(Nat) /\ DOMAIN response = 1..n
  BY Measured
<1>2. ASSUME NEW p \in {50, 90, 99, 100}
      PROVE  LET exact == Stages!Ranked(response, Stages!Wanted(n, p))
                 shown == Stages!Percentile(response, p)
             IN  exact <= shown /\ (shown - exact) * HalfCount <= exact
  <2>1. Len(response) = n /\ response # <<>>
    <3> HIDE DEF n
    <3>1. QED
      BY <1>1
  <2>2. Stages!Wanted(n, p) \in 1..n
    BY <1>1, WantedIs
  <2> HIDE DEF n
  <2>3. QED
    BY <1>1, <2>1, <2>2, PercentileIs
<1>3. ASSUME \A i \in 1..(N - 1) : When(i + 1) - When(i) = g, n < N, now <= When(n + 1), NEW x \in g..(now + 1)
      PROVE  Stages!CorrectedTail(x) <= Stages!AtOrAbove(response, x)
  <2>1. g \in Nat /\ now \in Nat
    BY IntervalIs DEF TimesInv
  <2> HIDE DEF g
  <2>2. x \in Nat /\ x >= g
    BY <2>1
  <2>3. QED
    BY <1>3, <2>2, TailIsPaid DEF g
<1>4. ASSUME NEW floor99 \in 0..1
      PROVE  /\ Stages!Conclusion(floor99) \in {"nothingMadeUp", "deferralObserved"} =>
                  \E i \in 1..n : queueing[i] > 0
             /\ Stages!Conclusion(floor99) = "nothingMadeUp" /\ g > 0 =>
                  \A i \in 1..n : service[i] < 2 * g
  <2> HIDE DEF g
  <2>1. QED
    BY ConclusionsHold DEF g
<1>5. ASSUME NEW budget \in Costs, ~Stages!Breached(budget)
      PROVE  100 * Stages!AtOrAbove(service, budget + 1) <= n
  BY <1>5, BudgetIsKept
<1> HIDE DEF n, g
<1>6. QED
  BY <1>2, <1>3, <1>4, <1>5

\* The latencies reported are honest (stage_trace.hpp and histogram.hpp): for every tape,
\* every cost and delay and every size of the buckets, a percentile is never reported
\* low nor beyond the relative error, the correction for coordinated omission adds no
\* more to the tail than the ticks have shown, and what the tool concludes of them is so.
THEOREM LatenciesAreHonest == ASSUME Stages!ScheduleAssumption PROVE Stages!Spec => []HistogramsHonest
<1>1. Stages!Init => TimesInv
  BY TimesStart
<1>2. TimesInv /\ [Stages!Next]_(Stages!vars) => TimesInv'
  <2> SUFFICES ASSUME TimesInv, [Stages!Next]_(Stages!vars) PROVE TimesInv'
    OBVIOUS
  <2>1. CASE Stages!Next
    BY <2>1, TimesStep DEF Stages!Next
  <2>2. CASE UNCHANGED Stages!vars
    BY <2>2 DEF Stages!vars, TimesInv, Stages!Done, Stages!Tapes, When, Stages!Due, Stages!Offset, Stages!Cluster
  <2>3. QED
    BY <2>1, <2>2
<1>3. TimesInv => HistogramsHonest
  BY TimesAreHonest
<1>4. QED
  BY <1>1, <1>2, <1>3, PTL DEF Stages!Spec
===============================================================================
