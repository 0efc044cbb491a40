-------------------------- MODULE MCHandover_proofs --------------------------
(***************************************************************************)
(* Proofs about the two machines of MCHandover: the advisory ring for      *)
(* every depth of at least two, any number of attempts, words and readers; *)
(* and the queue for every capacity of at least two, any items and any     *)
(* number of them.                                                         *)
(***************************************************************************)
EXTENDS MCHandover, Lemmas, SequenceTheorems, TLAPS

USE DEF Slot, Whole, WriteSlot

-------------------------------------------------------------------------------
(* The inductive invariant.  Every generation the lap test can still accept *)
(* is whole in its slot; while a publication is in progress the oldest slot *)
(* is being overwritten and the window is one shorter, which is exactly the *)
(* margin NotLapped leaves.                                                 *)
RingHolds ==
  \A g \in 1..generation :
    generation - g < (IF publishing THEN Ring - 1 ELSE Ring) => ring[Slot(g)] = Whole(g)

PartWritten ==
  publishing =>
    /\ generation < MaxGeneration
    /\ \A w \in Words \ toWrite : ring[WriteSlot][w] = generation + 1

CopyCoherent(r) ==
  pc[r] \in {"copy", "check"} =>
    /\ g0[r] \in 1..generation
    /\ generation - g0[r] < Ring - 1 =>
         \A w \in Words \ toRead[r] : tmp[r][w] = g0[r]
    /\ pc[r] = "check" => toRead[r] = {}

OutWhole(r) == \E g \in 0..generation : out[r] = Whole(g)

AttemptsLeft(r) ==
  /\ pc[r] \in {"sample", "copy", "check"} => attempt[r] < MaxReadRetries
  /\ pc[r] = "giveUp" => attempt[r] = MaxReadRetries

IInv ==
  /\ TypeOK
  /\ RingHolds
  /\ PartWritten
  /\ \A r \in Readers : CopyCoherent(r) /\ OutWhole(r) /\ AttemptsLeft(r)

LEMMA InitIInv == Init => IInv
<1> SUFFICES ASSUME Init PROVE IInv
  OBVIOUS
<1> USE RingAssumption, RetriesAssumption, BoundAssumption
<1>1. TypeOK
  <2>1. 0 \in 0..MaxGeneration /\ 0 \in 0..MaxReadRetries
    OBVIOUS
  <2>2. Whole(0) \in [Words -> 0..MaxGeneration]
    BY <2>1
  <2>3. QED
    BY <2>1, <2>2 DEF Init, TypeOK
<1>2. RingHolds /\ PartWritten
  BY DEF Init, RingHolds, PartWritten
<1>3. ASSUME NEW r \in Readers PROVE CopyCoherent(r) /\ OutWhole(r) /\ AttemptsLeft(r)
  BY DEF Init, CopyCoherent, OutWhole, AttemptsLeft
<1>4. QED
  BY <1>1, <1>2, <1>3 DEF IInv

(* A step that leaves the writer's variables alone keeps the ring part.    *)
LEMMA RingKept ==
  ASSUME RingHolds, PartWritten, UNCHANGED writerVars
  PROVE  RingHolds' /\ PartWritten'
BY DEF RingHolds, PartWritten, writerVars

(* A step that leaves the readers' variables alone keeps the reader part,  *)
(* as generation never decreases.                                          *)
LEMMA ReadersKept ==
  ASSUME IInv, generation' \in Nat, generation' >= generation, UNCHANGED readerVars,
         NEW r \in Readers
  PROVE  CopyCoherent(r)' /\ OutWhole(r)' /\ AttemptsLeft(r)'
<1> USE RingAssumption, BoundAssumption
<1>0. /\ pc' = pc /\ attempt' = attempt /\ g0' = g0
      /\ toRead' = toRead /\ tmp' = tmp /\ out' = out
      /\ generation \in Nat
  BY DEF readerVars, IInv, TypeOK
<1>1. CopyCoherent(r)'
  <2> SUFFICES ASSUME pc[r] \in {"copy", "check"} PROVE CopyCoherent(r)'
    BY <1>0 DEF CopyCoherent
  <2>1. CopyCoherent(r) /\ g0[r] \in 1..generation
    BY DEF IInv, CopyCoherent
  <2>2. g0'[r] \in 1..generation'
    BY <1>0, <2>1
  <2>3. generation' - g0[r] < Ring - 1 => generation - g0[r] < Ring - 1
    BY <1>0, <2>1
  <2>4. QED
    BY <1>0, <2>1, <2>2, <2>3 DEF CopyCoherent
<1>2. OutWhole(r)'
  <2>1. PICK g \in 0..generation : out[r] = Whole(g)
    BY DEF IInv, OutWhole
  <2>2. g \in 0..generation'
    BY <1>0
  <2>3. QED
    BY <1>0, <2>1, <2>2 DEF OutWhole
<1>3. AttemptsLeft(r)'
  BY <1>0 DEF IInv, AttemptsLeft
<1>4. QED
  BY <1>1, <1>2, <1>3

(* A step of one reader leaves the others as they were.                    *)
LEMMA OtherReader ==
  ASSUME IInv, UNCHANGED generation, NEW r \in Readers,
         pc'[r] = pc[r], attempt'[r] = attempt[r], g0'[r] = g0[r],
         toRead'[r] = toRead[r], tmp'[r] = tmp[r], out'[r] = out[r]
  PROVE  CopyCoherent(r)' /\ OutWhole(r)' /\ AttemptsLeft(r)'
BY DEF IInv, CopyCoherent, OutWhole, AttemptsLeft

LEMMA WriterStep == IInv /\ Writer => IInv'
<1> SUFFICES ASSUME IInv, Writer PROVE IInv'
  OBVIOUS
<1> USE RingAssumption, RetriesAssumption, BoundAssumption
<1>1. CASE BeginPublish
  <2>1. TypeOK'
    BY <1>1 DEF IInv, TypeOK, BeginPublish, readerVars
  <2>2. RingHolds' /\ PartWritten'
    <3>1. /\ generation' = generation /\ ring' = ring /\ toWrite' = Words
          /\ publishing' = TRUE /\ publishing = FALSE /\ generation \in Nat
          /\ generation < MaxGeneration
      BY <1>1 DEF IInv, TypeOK, BeginPublish
    <3>2. ASSUME NEW g \in 1..generation, generation - g < Ring - 1
          PROVE  ring[Slot(g)] = Whole(g)
      <4>1. generation - g < Ring
        BY <3>1, <3>2
      <4>2. QED
        BY <3>1, <4>1 DEF IInv, RingHolds
    <3>3. QED
      BY <3>1, <3>2 DEF RingHolds, PartWritten
  <2>3. ASSUME NEW r \in Readers PROVE CopyCoherent(r)' /\ OutWhole(r)' /\ AttemptsLeft(r)'
    BY <1>1, ReadersKept DEF IInv, TypeOK, BeginPublish
  <2>4. QED
    BY <2>1, <2>2, <2>3 DEF IInv
<1>2. ASSUME NEW w \in Words, WriteWord(w) PROVE IInv'
  <2> DEFINE s == (generation + 1) % Ring
  <2>0. s \in 0..Ring-1 /\ generation + 1 \in 0..MaxGeneration
    BY <1>2, SlotInRange DEF IInv, TypeOK, PartWritten, WriteWord
  <2>1. TypeOK'
    BY <1>2, <2>0 DEF IInv, TypeOK, WriteWord, readerVars
  <2>2. RingHolds'
    <3> SUFFICES ASSUME NEW g \in 1..generation, generation - g < Ring - 1
                 PROVE  ring'[Slot(g)] = Whole(g)
      BY <1>2 DEF WriteWord, RingHolds
    <3>1. g \in Nat /\ generation + 1 \in Nat /\ g < generation + 1 /\ (generation + 1) - g < Ring
      BY DEF IInv, TypeOK
    <3>2. g % Ring # s
      BY <3>1, SlotsDiffer
    <3>3. ring[Slot(g)] = Whole(g)
      BY <1>2 DEF IInv, RingHolds, WriteWord
    <3>4. g % Ring \in 0..Ring-1
      BY <3>1, SlotInRange
    <3>5. QED
      BY <1>2, <2>0, <3>2, <3>3, <3>4 DEF IInv, TypeOK, WriteWord
  <2>3. PartWritten'
    BY <1>2, <2>0 DEF IInv, TypeOK, PartWritten, WriteWord
  <2>4. ASSUME NEW r \in Readers PROVE CopyCoherent(r)' /\ OutWhole(r)' /\ AttemptsLeft(r)'
    BY <1>2, ReadersKept DEF IInv, TypeOK, WriteWord
  <2>5. QED
    BY <2>1, <2>2, <2>3, <2>4 DEF IInv
<1>3. CASE StoreGeneration
  <2>0. generation + 1 \in 0..MaxGeneration /\ (generation + 1) % Ring \in 0..Ring-1
    BY <1>3, SlotInRange DEF IInv, TypeOK, PartWritten, StoreGeneration
  <2>1. TypeOK'
    BY <1>3, <2>0 DEF IInv, TypeOK, StoreGeneration, readerVars
  <2>2. RingHolds'
    <3>0. generation \in Nat /\ generation' = generation + 1 /\ ring' = ring /\ publishing
          /\ ~publishing'
      BY <1>3 DEF IInv, TypeOK, StoreGeneration
    <3>1. ASSUME NEW g \in 1..generation+1, generation + 1 - g < Ring
          PROVE  ring[Slot(g)] = Whole(g)
      <4>1. CASE g = generation + 1
        <5>1. ring[WriteSlot] \in [Words -> 0..MaxGeneration]
          BY <2>0 DEF IInv, TypeOK
        <5>2. \A v \in Words : ring[WriteSlot][v] = generation + 1
          BY <1>3 DEF IInv, PartWritten, StoreGeneration
        <5>3. QED
          BY <4>1, <5>1, <5>2
      <4>2. CASE g # generation + 1
        <5>1. g \in 1..generation /\ generation - g < Ring - 1
          BY <3>0, <3>1, <4>2
        <5>2. QED
          BY <3>0, <5>1 DEF IInv, RingHolds
      <4>3. QED
        BY <4>1, <4>2
    <3>2. \A g \in 1..generation+1 : generation + 1 - g < Ring => ring[Slot(g)] = Whole(g)
      BY <3>1
    <3>3. \A g \in 1..generation' : 
            generation' - g < (IF publishing' THEN Ring - 1 ELSE Ring) => ring'[Slot(g)] = Whole(g)
      <4> HIDE DEF Slot, Whole
      <4>1. QED BY <3>0, <3>2
    <3>4. QED
      BY <3>3 DEF RingHolds
  <2>3. PartWritten'
    BY <1>3 DEF PartWritten, StoreGeneration
  <2>4. ASSUME NEW r \in Readers PROVE CopyCoherent(r)' /\ OutWhole(r)' /\ AttemptsLeft(r)'
    BY <1>3, ReadersKept DEF IInv, TypeOK, StoreGeneration
  <2>5. QED
    BY <2>1, <2>2, <2>3, <2>4 DEF IInv
<1>4. QED
  BY <1>1, <1>2, <1>3 DEF Writer

LEMMA ReaderStep ==
  ASSUME IInv, NEW r \in Readers, BeginRead(r) \/ ReadStep(r)
  PROVE  IInv'
<1> USE RingAssumption, RetriesAssumption, BoundAssumption
<1> DEFINE Part(x) == CopyCoherent(x) /\ OutWhole(x) /\ AttemptsLeft(x)
<1>1. UNCHANGED writerVars
  BY DEF BeginRead, ReadStep, NothingPublished, SampleGeneration, ReadWord,
         Accept, Lapped, GiveUp
<1>2. UNCHANGED generation /\ generation \in Nat
  BY <1>1 DEF writerVars, IInv, TypeOK
<1>3. RingHolds' /\ PartWritten'
  BY <1>1, RingKept DEF IInv
<1>4. ASSUME NEW x \in Readers, x # r PROVE Part(x)'
  <2>1. /\ pc'[x] = pc[x] /\ attempt'[x] = attempt[x] /\ g0'[x] = g0[x]
        /\ toRead'[x] = toRead[x] /\ tmp'[x] = tmp[x] /\ out'[x] = out[x]
    BY <1>4 DEF IInv, TypeOK, BeginRead, ReadStep, NothingPublished,
                SampleGeneration, ReadWord, Accept, Lapped, GiveUp
  <2>2. QED
    BY <1>2, <2>1, OtherReader
<1>5. CASE BeginRead(r)
  <2>1. TypeOK'
    BY <1>1, <1>5 DEF IInv, TypeOK, BeginRead, writerVars
  <2>2. Part(r)'
    BY <1>2, <1>5 DEF IInv, TypeOK, BeginRead, CopyCoherent, OutWhole, AttemptsLeft
  <2>3. QED
    BY <1>3, <1>4, <2>1, <2>2 DEF IInv
<1>6. CASE NothingPublished(r)
  <2>1. TypeOK'
    BY <1>1, <1>6 DEF IInv, TypeOK, NothingPublished, writerVars
  <2>2. Part(r)'
    BY <1>2, <1>6 DEF IInv, TypeOK, NothingPublished, CopyCoherent, OutWhole, AttemptsLeft
  <2>3. QED
    BY <1>3, <1>4, <2>1, <2>2 DEF IInv
<1>7. CASE SampleGeneration(r)
  <2>1. TypeOK'
    BY <1>1, <1>7 DEF IInv, TypeOK, SampleGeneration, writerVars
  <2>2. Part(r)'
    BY <1>2, <1>7 DEF IInv, TypeOK, SampleGeneration, CopyCoherent, OutWhole, AttemptsLeft
  <2>3. QED
    BY <1>3, <1>4, <2>1, <2>2 DEF IInv
<1>8. ASSUME NEW w \in Words, ReadWord(r, w) PROVE IInv'
  <2>0. g0[r] \in 1..generation /\ Slot(g0[r]) \in 0..Ring-1
    <3>1. g0[r] \in 1..generation /\ generation \in Nat
      BY <1>8 DEF IInv, TypeOK, CopyCoherent, ReadWord
    <3>2. g0[r] \in Nat /\ Ring \in Nat \ {0}
      BY <3>1
    <3>3. QED
      BY <3>1, <3>2, SlotInRange
  <2>1. TypeOK'
    <3>1. ring[Slot(g0[r])][w] \in 0..MaxGeneration
      BY <2>0 DEF IInv, TypeOK
    <3>2. tmp' \in [Readers -> [Words -> 0..MaxGeneration]]
      BY <1>8, <3>1 DEF IInv, TypeOK, ReadWord
    <3>3. /\ pc' \in [Readers -> {"idle", "sample", "copy", "check", "giveUp"}]
          /\ toRead' \in [Readers -> SUBSET Words]
      BY <1>8 DEF IInv, TypeOK, ReadWord
    <3>4. QED
      BY <1>1, <1>8, <3>2, <3>3 DEF IInv, TypeOK, ReadWord, writerVars
  <2>2. ASSUME generation - g0[r] < Ring - 1 PROVE tmp'[r][w] = g0[r]
    <3>1. ring[Slot(g0[r])] = Whole(g0[r])
      <4>1. generation - g0[r] < Ring
        BY <1>2, <2>0, <2>2
      <4>2. QED
        BY <2>0, <2>2, <4>1 DEF IInv, RingHolds
    <3>2. QED
      BY <1>8, <3>1 DEF IInv, TypeOK, ReadWord
  <2>3. CopyCoherent(r)'
    BY <1>2, <1>8, <2>0, <2>2 DEF IInv, TypeOK, ReadWord, CopyCoherent
  <2>4. OutWhole(r)' /\ AttemptsLeft(r)'
    BY <1>2, <1>8 DEF IInv, TypeOK, ReadWord, OutWhole, AttemptsLeft
  <2>5. QED
    BY <1>3, <1>4, <2>1, <2>3, <2>4 DEF IInv
<1>9. CASE Accept(r)
  <2>1. TypeOK'
    BY <1>1, <1>9 DEF IInv, TypeOK, Accept, writerVars
  <2>2. tmp[r] = Whole(g0[r]) /\ g0[r] \in 0..generation
    BY <1>2, <1>9 DEF IInv, TypeOK, Accept, NotLapped, CopyCoherent
  <2>3. OutWhole(r)'
    BY <1>2, <1>9, <2>2 DEF IInv, TypeOK, Accept, OutWhole
  <2>4. CopyCoherent(r)' /\ AttemptsLeft(r)'
    BY <1>2, <1>9 DEF IInv, TypeOK, Accept, CopyCoherent, AttemptsLeft
  <2>5. QED
    BY <1>3, <1>4, <2>1, <2>3, <2>4 DEF IInv
<1>10. CASE Lapped(r)
  <2>1. TypeOK'
    BY <1>1, <1>10 DEF IInv, TypeOK, Lapped, AttemptsLeft, writerVars
  <2>2. Part(r)'
    BY <1>2, <1>10 DEF IInv, TypeOK, Lapped, CopyCoherent, OutWhole, AttemptsLeft
  <2>3. QED
    BY <1>3, <1>4, <2>1, <2>2 DEF IInv
<1>11. CASE GiveUp(r)
  <2>1. TypeOK'
    BY <1>1, <1>11 DEF IInv, TypeOK, GiveUp, writerVars
  <2>2. Part(r)'
    BY <1>2, <1>11 DEF IInv, TypeOK, GiveUp, CopyCoherent, OutWhole, AttemptsLeft
  <2>3. QED
    BY <1>3, <1>4, <2>1, <2>2 DEF IInv
<1>12. QED
  BY <1>5, <1>6, <1>7, <1>8, <1>9, <1>10, <1>11 DEF ReadStep

(* The types hold in every reachable state, and in particular no call uses *)
(* more than MaxReadRetries attempts.                                      *)
LEMMA Invariance == Spec => []IInv
<1>1. IInv /\ [Next]_vars => IInv'
  <2> SUFFICES ASSUME IInv, [Next]_vars PROVE IInv'
    OBVIOUS
  <2>1. CASE Writer
    BY <2>1, WriterStep
  <2>2. ASSUME NEW r \in Readers, BeginRead(r) \/ ReadStep(r) PROVE IInv'
    BY <2>2, ReaderStep
  <2>3. CASE UNCHANGED vars
    <3>1. TypeOK' /\ RingHolds' /\ PartWritten'
      BY <2>3 DEF vars, IInv, TypeOK, RingHolds, PartWritten
    <3>2. ASSUME NEW r \in Readers PROVE CopyCoherent(r)' /\ OutWhole(r)' /\ AttemptsLeft(r)'
      BY <2>3 DEF vars, IInv, CopyCoherent, OutWhole, AttemptsLeft
    <3>3. QED
      BY <3>1, <3>2 DEF IInv
  <2>4. QED
    BY <2>1, <2>2, <2>3 DEF Next
<1>2. QED
  BY <1>1, InitIInv, PTL DEF Spec

(* Every variable of the slot keeps its type: in particular no call of     *)
(* try_read() makes more than MaxReadRetries attempts.                     *)
THEOREM TypeCorrect == Spec => []TypeOK
<1>1. IInv => TypeOK
  BY DEF IInv
<1>2. QED
  BY <1>1, Invariance, PTL

(* try_read() never hands back words of two different publications, for    *)
(* any ring depth, struct size and number of readers.                      *)
THEOREM NoTornReads == Spec => []NoTornRead
<1>1. IInv => NoTornRead
  BY DEF IInv, NoTornRead, OutWhole
<1>2. QED
  BY <1>1, Invariance, PTL

-------------------------------------------------------------------------------
(* Each step of the ring is a step of the register, or changes nothing     *)
(* that the register shows.                                                *)
LEMMA WriterRefines ==
  ASSUME IInv, Writer PROVE [Register!Next]_(Register!vars)
<1>1. UNCHANGED <<Sampled, out>>
  BY DEF Writer, BeginPublish, WriteWord, StoreGeneration, readerVars, Sampled
<1>2. CASE StoreGeneration
  <2>1. generation < MaxGeneration /\ generation' = generation + 1
    BY <1>2 DEF IInv, PartWritten, StoreGeneration
  <2>2. QED
    BY <1>1, <2>1 DEF Register!Next, Register!Publish
<1>3. CASE ~StoreGeneration
  <2>1. UNCHANGED generation
    BY <1>3 DEF Writer, BeginPublish, WriteWord
  <2>2. QED
    BY <1>1, <2>1 DEF Register!vars
<1>4. QED
  BY <1>2, <1>3

LEMMA ReaderRefines ==
  ASSUME IInv, NEW r \in Readers, BeginRead(r) \/ ReadStep(r)
  PROVE  [Register!Next]_(Register!vars)
<1>1. UNCHANGED generation
  BY DEF BeginRead, ReadStep, NothingPublished, SampleGeneration, ReadWord,
         Accept, Lapped, GiveUp, writerVars
<1>2. /\ pc \in [Readers -> {"idle", "sample", "copy", "check", "giveUp"}]
      /\ g0 \in [Readers -> 0..MaxGeneration]
  BY DEF IInv, TypeOK
<1>3. CASE BeginRead(r) \/ NothingPublished(r) \/ GiveUp(r)
  <2>1. Sampled' = Sampled /\ out' = out
    BY <1>2, <1>3 DEF BeginRead, NothingPublished, GiveUp, Sampled
  <2>2. QED
    BY <1>1, <2>1 DEF Register!vars
<1>4. CASE SampleGeneration(r)
  <2>1. Sampled[r] = 0 /\ generation > 0 /\ out' = out
    BY <1>4 DEF SampleGeneration, Sampled
  <2>2. Sampled' = [Sampled EXCEPT ![r] = generation]
    BY <1>2, <1>4 DEF SampleGeneration, Sampled
  <2>3. Register!Sample(r)
    BY <1>1, <2>1, <2>2 DEF Register!Sample
  <2>4. QED
    BY <2>3 DEF Register!Next
<1>5. ASSUME NEW w \in Words, ReadWord(r, w) PROVE [Register!Next]_(Register!vars)
  <2>1. Sampled' = Sampled /\ out' = out
    BY <1>2, <1>5 DEF ReadWord, Sampled
  <2>2. QED
    BY <1>1, <2>1 DEF Register!vars
<1>6. CASE Accept(r)
  <2>1. g0[r] \in 1..generation /\ tmp[r] = Whole(g0[r])
    <3>1. CopyCoherent(r) /\ generation - g0[r] < Ring - 1 /\ pc[r] = "check"
      BY <1>6 DEF IInv, Accept, NotLapped
    <3>2. g0[r] \in 1..generation /\ \A w \in Words : tmp[r][w] = g0[r]
      BY <3>1 DEF CopyCoherent
    <3>3. tmp[r] \in [Words -> 0..MaxGeneration]
      BY DEF IInv, TypeOK
    <3>4. QED
      BY <3>2, <3>3
  <2>2. Sampled[r] = g0[r] /\ Sampled[r] > 0
    BY <1>6, <2>1 DEF Accept, Sampled, IInv, TypeOK
  <2>3. out' = [out EXCEPT ![r] = Whole(Sampled[r])]
    BY <1>6, <2>1, <2>2 DEF Accept
  <2>4. Sampled' = [Sampled EXCEPT ![r] = 0]
    BY <1>2, <1>6 DEF Accept, Sampled
  <2>5. Register!Take(r)
    BY <1>1, <2>2, <2>3, <2>4 DEF Register!Take, Register!Whole
  <2>6. QED
    BY <2>5 DEF Register!Next
<1>7. CASE Lapped(r)
  <2>1. Sampled[r] > 0 /\ out' = out
    BY <1>7 DEF Lapped, Sampled, IInv, CopyCoherent, TypeOK
  <2>2. Sampled' = [Sampled EXCEPT ![r] = 0]
    BY <1>2, <1>7 DEF Lapped, Sampled
  <2>3. Register!Abandon(r)
    BY <1>1, <2>1, <2>2 DEF Register!Abandon
  <2>4. QED
    BY <2>3 DEF Register!Next
<1>8. QED
  BY <1>3, <1>4, <1>5, <1>6, <1>7 DEF ReadStep

(* The ring with its word-by-word copies implements the register that a    *)
(* slow lane replaces, and a fast lane samples, in one step.               *)
THEOREM SlotImplementsRegister == Spec => ImplementsLatestAdvisory
<1>1. Init => Register!Init
  BY DEF Init, Register!Init, Register!Whole, Sampled
<1>2. IInv /\ [Next]_vars => [Register!Next]_(Register!vars)
  <2> SUFFICES ASSUME IInv, [Next]_vars PROVE [Register!Next]_(Register!vars)
    OBVIOUS
  <2>1. CASE Writer
    BY <2>1, WriterRefines
  <2>2. ASSUME NEW r \in Readers, BeginRead(r) \/ ReadStep(r)
        PROVE  [Register!Next]_(Register!vars)
    BY <2>2, ReaderRefines
  <2>3. CASE UNCHANGED vars
    BY <2>3 DEF vars, Register!vars, Sampled
  <2>4. QED
    BY <2>1, <2>2, <2>3 DEF Next
<1>3. QED
  BY <1>1, <1>2, Invariance, PTL DEF Spec, ImplementsLatestAdvisory, Register!Spec

-------------------------------------------------------------------------------
(* The queue of one producer and one consumer.                             *)

USE QueueAssumption DEF Spsc!QueueAssumption

(* Items published and items released, counting a store already made whose *)
(* position counter has not been advanced yet.                             *)
Sent == IF ppc = "advance" THEN tail + 1 ELSE tail
Taken == IF cpc = "advance" THEN head + 1 ELSE head

(* The inductive invariant.  The positions Taken .. Taken+Capacity-1 own   *)
(* one slot each: those below Sent are filled and carry the next ticket,   *)
(* the others are free and carry their own.                                *)
Counts ==
  /\ Len(pushed) = Sent /\ Len(popped) = Taken
  /\ Taken <= Sent /\ Sent <= Taken + Capacity

Filled ==
  \A p \in Nat : Taken <= p /\ p < Sent =>
    seq[Spsc!Slot(p)] = p + 1 /\ data[Spsc!Slot(p)] = pushed[p + 1]

Free == \A p \in Nat : Sent <= p /\ p < Taken + Capacity => seq[Spsc!Slot(p)] = p

InProducer ==
  /\ ppc \in {"construct", "publish"} => Sent < Taken + Capacity
  /\ ppc = "publish" => data[Spsc!Slot(tail)] = item

InConsumer ==
  /\ cpc \in {"move", "release"} => Taken < Sent
  /\ cpc = "release" => got = pushed[head + 1]

QueueInv == Spsc!TypeOK /\ Counts /\ Filled /\ Free /\ InProducer /\ InConsumer

LEMMA InitQueueInv == Spsc!Init => QueueInv
<1> SUFFICES ASSUME Spsc!Init PROVE QueueInv
  OBVIOUS
<1>0. Sent = 0 /\ Taken = 0 /\ Len(<<>>) = 0 /\ <<>> \in Seq(Items)
  BY DEF Spsc!Init, Sent, Taken
<1>1. Spsc!TypeOK
  BY <1>0 DEF Spsc!Init, Spsc!TypeOK
<1>2. Counts /\ Filled
  <2>1. pushed = <<>> /\ popped = <<>>
    BY DEF Spsc!Init
  <2>2. Len(pushed) = 0 /\ Len(popped) = 0
    BY <1>0, <2>1
  <2>3. Counts
    BY <1>0, <2>2 DEF Counts
  <2>4. Filled
    BY <1>0 DEF Filled
  <2>5. QED
    BY <2>3, <2>4
<1>3. Free
  BY <1>0 DEF Spsc!Init, Free, Spsc!Slot
<1>4. InProducer /\ InConsumer
  BY DEF Spsc!Init, InProducer, InConsumer
<1>5. QED
  BY <1>1, <1>2, <1>3, <1>4 DEF QueueInv

LEMMA SlotRange == ASSUME NEW p \in Nat PROVE Spsc!Slot(p) \in 0..Capacity-1
BY SlotInRange DEF Spsc!Slot

LEMMA SlotsApart ==
  ASSUME NEW p \in Nat, NEW q \in Nat, p < q, q - p < Capacity
  PROVE  Spsc!Slot(p) # Spsc!Slot(q)
BY SlotsDiffer DEF Spsc!Slot

LEMMA CountTypes == ASSUME QueueInv PROVE Sent \in Nat /\ Taken \in Nat
BY DEF QueueInv, Spsc!TypeOK, Sent, Taken

LEMMA ConstructStep == QueueInv /\ Spsc!Construct => QueueInv'
<1> SUFFICES ASSUME QueueInv, Spsc!Construct PROVE QueueInv'
  OBVIOUS
<1>1. /\ UNCHANGED <<seq, tail, head, item, got, cpc, pushed, popped, pushResult, popResult>>
      /\ ppc = "construct" /\ ppc' = "publish"
      /\ data' = [data EXCEPT ![Spsc!Slot(tail)] = item]
      /\ Sent' = Sent /\ Taken' = Taken /\ Sent = tail
  BY DEF Spsc!Construct, Spsc!consumerVars, Sent, Taken
<1>2. Spsc!TypeOK'
  BY <1>1, SlotRange DEF QueueInv, Spsc!TypeOK
<1>3. Sent \in Nat /\ Taken \in Nat /\ Sent < Taken + Capacity /\ Taken <= Sent
  BY <1>1, CountTypes DEF QueueInv, InProducer, Counts
<1>4. ASSUME NEW p \in Nat, Taken <= p, p < Sent
      PROVE  seq[Spsc!Slot(p)] = p + 1 /\ data'[Spsc!Slot(p)] = pushed[p + 1]
  <2>1. Spsc!Slot(p) # Spsc!Slot(tail)
    BY <1>1, <1>3, <1>4, SlotsApart
  <2>2. seq[Spsc!Slot(p)] = p + 1 /\ data[Spsc!Slot(p)] = pushed[p + 1]
    BY <1>4 DEF QueueInv, Filled
  <2>3. Spsc!Slot(p) \in 0..Capacity-1
    BY SlotRange
  <2>4. QED
    BY <1>1, <2>1, <2>2, <2>3 DEF QueueInv, Spsc!TypeOK
<1>5. Filled'
  BY <1>1, <1>4 DEF Filled, Spsc!Slot
<1>6. Counts' /\ Free'
  BY <1>1 DEF QueueInv, Counts, Free, Spsc!Slot
<1>7. data'[Spsc!Slot(tail)] = item
  BY <1>1, <1>3, SlotRange DEF QueueInv, Spsc!TypeOK
<1>8. InProducer' /\ InConsumer'
  BY <1>1, <1>3, <1>7 DEF QueueInv, InProducer, InConsumer, Spsc!Slot
<1>9. QED
  BY <1>2, <1>5, <1>6, <1>8 DEF QueueInv

LEMMA StoreFilledStep == QueueInv /\ Spsc!StoreFilled => QueueInv'
<1> SUFFICES ASSUME QueueInv, Spsc!StoreFilled PROVE QueueInv'
  OBVIOUS
<1>1. /\ UNCHANGED <<data, tail, head, item, got, cpc, popped, popResult>>
      /\ ppc = "publish" /\ ppc' = "advance"
      /\ seq' = [seq EXCEPT ![Spsc!Slot(tail)] = tail + 1]
      /\ pushed' = Append(pushed, item) /\ pushResult' = "ok"
      /\ Sent' = Sent + 1 /\ Taken' = Taken /\ Sent = tail
  BY DEF Spsc!StoreFilled, Spsc!consumerVars, Sent, Taken
<1>2. Sent \in Nat /\ Taken \in Nat /\ Sent < Taken + Capacity /\ Taken <= Sent
  BY <1>1, CountTypes DEF QueueInv, InProducer, Counts
<1>3. Spsc!TypeOK'
  <2>1. seq' \in [0..Capacity-1 -> Nat]
    <3>1. tail + 1 \in Nat /\ seq \in [0..Capacity-1 -> Nat]
      BY DEF QueueInv, Spsc!TypeOK
    <3>2. QED
      BY <1>1, <3>1
  <2>2. pushed' \in Seq(Items)
    BY <1>1 DEF QueueInv, Spsc!TypeOK
  <2>3. QED
    BY <1>1, <2>1, <2>2 DEF QueueInv, Spsc!TypeOK
<1>4. /\ pushed \in Seq(Items) /\ Len(pushed) = Sent /\ item \in Items
      /\ Len(pushed') = Sent + 1 /\ pushed'[Sent + 1] = item
      /\ \A i \in 1..Sent : pushed'[i] = pushed[i]
  BY <1>1 DEF QueueInv, Spsc!TypeOK, Counts
<1>5. Counts'
  BY <1>1, <1>2, <1>4 DEF QueueInv, Counts
<1>6. ASSUME NEW p \in Nat, Taken <= p, p < Sent + 1
      PROVE  seq'[Spsc!Slot(p)] = p + 1 /\ data[Spsc!Slot(p)] = pushed'[p + 1]
  <2>0. Spsc!Slot(p) \in 0..Capacity-1
    BY SlotRange
  <2>1. CASE p = Sent
    BY <1>1, <1>4, <2>0, <2>1 DEF QueueInv, Spsc!TypeOK, InProducer
  <2>2. CASE p # Sent
    <3>1. p < Sent
      BY <1>2, <1>6, <2>2
    <3>2. Spsc!Slot(p) # Spsc!Slot(tail)
      BY <1>1, <1>2, <1>6, <3>1, SlotsApart
    <3>3. seq[Spsc!Slot(p)] = p + 1 /\ data[Spsc!Slot(p)] = pushed[p + 1]
      BY <1>6, <3>1 DEF QueueInv, Filled
    <3>4. p + 1 \in 1..Sent
      BY <1>2, <3>1
    <3>5. QED
      BY <1>1, <1>4, <2>0, <3>2, <3>3, <3>4 DEF QueueInv, Spsc!TypeOK
  <2>3. QED
    BY <2>1, <2>2
<1>7. Filled'
  BY <1>1, <1>6 DEF Filled, Spsc!Slot
<1>8. ASSUME NEW p \in Nat, Sent + 1 <= p, p < Taken + Capacity
      PROVE  seq'[Spsc!Slot(p)] = p
  <2>1. Spsc!Slot(p) # Spsc!Slot(tail)
    BY <1>1, <1>2, <1>8, SlotsApart
  <2>2. seq[Spsc!Slot(p)] = p
    BY <1>2, <1>8 DEF QueueInv, Free
  <2>3. QED
    BY <1>1, <2>1, <2>2, SlotRange DEF QueueInv, Spsc!TypeOK
<1>9. Free'
  BY <1>1, <1>8 DEF Free, Spsc!Slot
<1>10. InProducer'
  BY <1>1 DEF InProducer
<1>11. InConsumer'
  <2>1. cpc \in {"move", "release"} => Taken' < Sent'
    BY <1>1, <1>2 DEF QueueInv, InConsumer
  <2>2. cpc = "release" => head + 1 \in 1..Sent
    BY <1>2 DEF QueueInv, Spsc!TypeOK, InConsumer, Taken
  <2>3. QED
    BY <1>1, <1>4, <2>1, <2>2 DEF QueueInv, InConsumer
<1>12. QED
  BY <1>3, <1>5, <1>7, <1>9, <1>10, <1>11 DEF QueueInv

LEMMA StoreFreeStep ==
  ASSUME QueueInv, Spsc!StoreFree PROVE QueueInv'
<1>1. /\ UNCHANGED <<data, tail, head, item, got, ppc, pushed, pushResult>>
      /\ cpc = "release" /\ cpc' = "advance"
      /\ seq' = [seq EXCEPT ![Spsc!Slot(head)] = head + Capacity]
      /\ popped' = Append(popped, got) /\ popResult' = "ok"
      /\ Sent' = Sent /\ Taken' = Taken + 1 /\ Taken = head
  BY DEF Spsc!StoreFree, Spsc!producerVars, Sent, Taken
<1>2. Sent \in Nat /\ Taken \in Nat /\ Taken < Sent /\ Sent <= Taken + Capacity
  BY <1>1, CountTypes DEF QueueInv, InConsumer, Counts
<1>3. Spsc!TypeOK'
  <2>1. seq' \in [0..Capacity-1 -> Nat]
    <3>1. head + Capacity \in Nat /\ seq \in [0..Capacity-1 -> Nat]
      BY DEF QueueInv, Spsc!TypeOK
    <3>2. QED
      BY <1>1, <3>1
  <2>2. popped' \in Seq(Items)
    BY <1>1 DEF QueueInv, Spsc!TypeOK
  <2>3. QED
    BY <1>1, <2>1, <2>2 DEF QueueInv, Spsc!TypeOK
<1>4. Len(popped') = Taken + 1
  BY <1>1 DEF QueueInv, Spsc!TypeOK, Counts
<1>5. Counts'
  BY <1>1, <1>2, <1>4 DEF QueueInv, Counts
<1>6. ASSUME NEW p \in Nat, Taken + 1 <= p, p < Sent
      PROVE  seq'[Spsc!Slot(p)] = p + 1 /\ data[Spsc!Slot(p)] = pushed[p + 1]
  <2>1. Spsc!Slot(p) # Spsc!Slot(head)
    BY <1>1, <1>2, <1>6, SlotsApart
  <2>2. seq[Spsc!Slot(p)] = p + 1 /\ data[Spsc!Slot(p)] = pushed[p + 1]
    BY <1>2, <1>6 DEF QueueInv, Filled
  <2>3. QED
    BY <1>1, <2>1, <2>2, SlotRange DEF QueueInv, Spsc!TypeOK
<1>7. Filled'
  BY <1>1, <1>6 DEF Filled, Spsc!Slot
<1>8. ASSUME NEW p \in Nat, Sent <= p, p < Taken + 1 + Capacity
      PROVE  seq'[Spsc!Slot(p)] = p
  <2>1. CASE p = Taken + Capacity
    <3>1. Spsc!Slot(p) = Spsc!Slot(head)
      BY <1>1, <1>2, <2>1, SlotWraps DEF Spsc!Slot
    <3>2. QED
      BY <1>1, <1>2, <2>1, <3>1, SlotRange DEF QueueInv, Spsc!TypeOK
  <2>2. CASE p # Taken + Capacity
    <3>1. p < Taken + Capacity
      BY <1>2, <1>8, <2>2
    <3>2. Spsc!Slot(p) # Spsc!Slot(head)
      BY <1>1, <1>2, <1>8, <3>1, SlotsApart
    <3>3. seq[Spsc!Slot(p)] = p
      BY <1>8, <3>1 DEF QueueInv, Free
    <3>4. QED
      BY <1>1, <3>2, <3>3, SlotRange DEF QueueInv, Spsc!TypeOK
  <2>3. QED
    BY <2>1, <2>2
<1>9. Free'
  BY <1>1, <1>8 DEF Free, Spsc!Slot
<1>10. InProducer'
  BY <1>1, <1>2 DEF QueueInv, InProducer, Spsc!Slot
<1>11. InConsumer'
  BY <1>1 DEF InConsumer
<1>12. QED
  BY <1>3, <1>5, <1>7, <1>9, <1>10, <1>11 DEF QueueInv

LEMMA MoveOutStep ==
  ASSUME QueueInv, Spsc!MoveOut PROVE QueueInv'
<1>1. /\ UNCHANGED <<seq, data, tail, head, item, ppc, pushed, popped, pushResult, popResult>>
      /\ cpc = "move" /\ cpc' = "release" /\ got' = data[Spsc!Slot(head)]
      /\ Sent' = Sent /\ Taken' = Taken /\ Taken = head
  BY DEF Spsc!MoveOut, Spsc!producerVars, Sent, Taken
<1>2. Taken < Sent /\ Taken \in Nat
  BY <1>1, CountTypes DEF QueueInv, InConsumer
<1>3. Spsc!TypeOK'
  <2>1. got' \in Items
    BY <1>1, <1>2, SlotRange DEF QueueInv, Spsc!TypeOK
  <2>2. QED
    BY <1>1, <2>1 DEF QueueInv, Spsc!TypeOK
<1>4. got' = pushed[head + 1]
  BY <1>1, <1>2 DEF QueueInv, Filled
<1>5. Counts' /\ Filled' /\ Free' /\ InProducer'
  BY <1>1 DEF QueueInv, Counts, Filled, Free, InProducer, Spsc!Slot
<1>6. InConsumer'
  BY <1>1, <1>2, <1>4 DEF InConsumer
<1>7. QED
  BY <1>3, <1>5, <1>6 DEF QueueInv

(* The remaining steps touch neither a slot nor a history.                 *)
LEMMA ProducerRest ==
  ASSUME Capacity >= 2, QueueInv, Spsc!PushFull \/ (\E v \in Items : Spsc!PushClaim(v)) \/ Spsc!AdvanceTail
  PROVE  QueueInv'
<1>1. UNCHANGED <<seq, data, head, cpc, got, pushed, popped, popResult>>
  BY DEF Spsc!PushFull, Spsc!PushClaim, Spsc!AdvanceTail, Spsc!consumerVars
<1>2. Spsc!TypeOK'
  BY <1>1 DEF QueueInv, Spsc!TypeOK, Spsc!PushFull, Spsc!PushClaim, Spsc!AdvanceTail
<1>3. Sent' = Sent /\ Taken' = Taken
  BY <1>1 DEF Spsc!PushFull, Spsc!PushClaim, Spsc!AdvanceTail, Sent, Taken
<1>4. Counts' /\ Filled' /\ Free' /\ InConsumer'
  BY <1>1, <1>3 DEF QueueInv, Counts, Filled, Free, InConsumer, Spsc!Slot
<1>5. InProducer'
  <2>1. ASSUME NEW v \in Items, Spsc!PushClaim(v) PROVE Sent < Taken + Capacity
    <3>1. Sent = tail /\ ~(seq[Spsc!Slot(tail)] - tail < 0)
      BY <2>1 DEF Spsc!PushClaim, Sent, Spsc!SlotBusy
    <3>2. Sent \in Nat /\ Taken \in Nat /\ Taken <= Sent /\ Sent <= Taken + Capacity
      BY CountTypes DEF QueueInv, Counts
    <3>3. CASE Sent = Taken + Capacity
      <4>1. Spsc!Slot(tail) = Spsc!Slot(Taken)
        BY <3>1, <3>2, <3>3, SlotWraps DEF Spsc!Slot
      <4>2. seq[Spsc!Slot(Taken)] = Taken + 1
        BY <3>2, <3>3 DEF QueueInv, Filled
      <4>3. Capacity = 1
        BY <3>1, <3>2, <3>3, <4>1, <4>2
      <4>4. QED
        BY <4>3
    <3>4. QED
      BY <3>2, <3>3
  <2>2. QED
    BY <1>1, <1>3, <2>1 DEF QueueInv, InProducer, Spsc!PushFull, Spsc!PushClaim, Spsc!AdvanceTail
<1>6. QED
  BY <1>2, <1>4, <1>5 DEF QueueInv

LEMMA ConsumerRest ==
  ASSUME QueueInv, Spsc!PopEmpty \/ Spsc!PopClaim \/ Spsc!AdvanceHead
  PROVE  QueueInv'
<1>1. UNCHANGED <<seq, data, tail, ppc, item, got, pushed, popped, pushResult>>
  BY DEF Spsc!PopEmpty, Spsc!PopClaim, Spsc!AdvanceHead, Spsc!producerVars
<1>2. Spsc!TypeOK'
  BY <1>1 DEF QueueInv, Spsc!TypeOK, Spsc!PopEmpty, Spsc!PopClaim, Spsc!AdvanceHead
<1>3. Sent' = Sent /\ Taken' = Taken
  BY <1>1 DEF Spsc!PopEmpty, Spsc!PopClaim, Spsc!AdvanceHead, Sent, Taken
<1>4. Counts' /\ Filled' /\ Free' /\ InProducer'
  BY <1>1, <1>3 DEF QueueInv, Counts, Filled, Free, InProducer, Spsc!Slot
<1>5. InConsumer'
  <2>1. ASSUME Spsc!PopClaim PROVE Taken < Sent
    <3>1. Taken = head /\ ~(seq[Spsc!Slot(head)] - (head + 1) < 0)
      BY <2>1 DEF Spsc!PopClaim, Taken, Spsc!SlotEmpty
    <3>2. Sent \in Nat /\ Taken \in Nat /\ Taken <= Sent
      BY CountTypes DEF QueueInv, Counts
    <3>3. CASE Sent = Taken
      <4>1. seq[Spsc!Slot(Taken)] = Taken
        BY <3>2, <3>3 DEF QueueInv, Free
      <4>2. QED
        BY <3>1, <3>2, <4>1
    <3>4. QED
      BY <3>2, <3>3
  <2>2. QED
    BY <1>1, <1>3, <2>1 DEF QueueInv, InConsumer, Spsc!PopEmpty, Spsc!PopClaim, Spsc!AdvanceHead
<1>6. QED
  BY <1>2, <1>4, <1>5 DEF QueueInv

LEMMA QueueInvariance == ASSUME Capacity >= 2 PROVE Spsc!Spec => []QueueInv
<1>1. QueueInv /\ [Spsc!Next]_(Spsc!vars) => QueueInv'
  <2> SUFFICES ASSUME QueueInv, [Spsc!Next]_(Spsc!vars) PROVE QueueInv'
    OBVIOUS
  <2>1. CASE Spsc!Producer
    BY <2>1, ConstructStep, StoreFilledStep, ProducerRest DEF Spsc!Producer
  <2>2. CASE Spsc!Consumer
    BY <2>2, StoreFreeStep, MoveOutStep, ConsumerRest DEF Spsc!Consumer
  <2>3. CASE UNCHANGED Spsc!vars
    BY <2>3 DEF Spsc!vars, QueueInv, Spsc!TypeOK, Counts, Filled, Free, InProducer, InConsumer,
                Sent, Taken, Spsc!Slot
  <2>4. QED
    BY <2>1, <2>2, <2>3 DEF Spsc!Next
<1>2. QED
  BY <1>1, InitQueueInv, PTL DEF Spsc!Spec

-------------------------------------------------------------------------------
(* The producer and the consumer are never inside the same slot, so the    *)
(* unsynchronised copies of items never race.                              *)
THEOREM SlotsNeverRace == ASSUME Capacity >= 2 PROVE Spsc!Spec => []NoSlotRace
<1>1. QueueInv => NoSlotRace
  <2> SUFFICES ASSUME QueueInv, ppc = "construct", cpc = "move" PROVE Spsc!Slot(head) # Spsc!Slot(tail)
    BY DEF NoSlotRace, Spsc!NoSlotRace
  <2>1. Sent = tail /\ Taken = head
    BY DEF Sent, Taken
  <2>2. head \in Nat /\ tail \in Nat /\ head < tail /\ tail - head < Capacity
    BY <2>1 DEF QueueInv, Spsc!TypeOK, InProducer, InConsumer
  <2>3. QED
    BY <2>2, SlotsApart
<1>2. QED
  BY <1>1, QueueInvariance, PTL

(* The type invariant, a part of the inductive one.                        *)
THEOREM QueueTypeCorrect == ASSUME Capacity >= 2 PROVE Spsc!Spec => []Spsc!TypeOK
<1>1. QueueInv => Spsc!TypeOK
  BY DEF QueueInv
<1>2. QED
  BY <1>1, QueueInvariance, PTL

(* No more than Capacity items are ever outstanding.                       *)
THEOREM QueueBounded == ASSUME Capacity >= 2 PROVE Spsc!Spec => []Spsc!NeverOverfull
<1>1. QueueInv => Spsc!NeverOverfull
  BY CountTypes DEF QueueInv, Counts, Spsc!NeverOverfull
<1>2. QED
  BY <1>1, QueueInvariance, PTL

(* The ring of tickets implements the one-step bounded FIFO queue.         *)
THEOREM QueueImplementsFifo == ASSUME Capacity >= 2 PROVE Spsc!Spec => ImplementsFifo
<1>1. Spsc!Init => Spsc!Fifo!Init
  BY DEF Spsc!Init, Spsc!Fifo!Init
<1>2. ASSUME QueueInv, [Spsc!Next]_(Spsc!vars) PROVE [Spsc!Fifo!Next]_(Spsc!Fifo!vars)
  <2>1. /\ Spsc!Fifo!Length = Sent - Taken /\ Len(popped) = Taken
        /\ Sent \in Nat /\ Taken \in Nat /\ Taken <= Sent /\ Sent <= Taken + Capacity
    BY <1>2, CountTypes DEF QueueInv, Counts, Spsc!Fifo!Length
  <2>2. CASE Spsc!PushFull
    <3>1. Sent = tail /\ seq[Spsc!Slot(tail)] - tail < 0
      BY <2>2 DEF Spsc!PushFull, Spsc!SlotBusy, Sent
    <3>2. Sent = Taken + Capacity
      <4>1. CASE Sent < Taken + Capacity
        <5>1. seq[Spsc!Slot(tail)] = tail
          BY <1>2, <2>1, <3>1, <4>1 DEF QueueInv, Free
        <5>2. QED
          BY <2>1, <3>1, <5>1
      <4>2. QED
        BY <2>1, <4>1
    <3>3. Spsc!Fifo!RefusePush
      BY <2>1, <2>2, <3>2 DEF Spsc!PushFull, Spsc!Fifo!RefusePush, Spsc!consumerVars
    <3>4. QED
      BY <3>3 DEF Spsc!Fifo!Next
  <2>3. CASE Spsc!StoreFilled
    <3>1. Sent < Taken + Capacity /\ item \in Items
      BY <1>2, <2>3 DEF QueueInv, InProducer, Spsc!StoreFilled, Spsc!TypeOK
    <3>2. Spsc!Fifo!Push(item)
      BY <2>1, <2>3, <3>1 DEF Spsc!StoreFilled, Spsc!Fifo!Push, Spsc!consumerVars
    <3>3. QED
      BY <3>1, <3>2 DEF Spsc!Fifo!Next
  <2>4. CASE Spsc!PopEmpty
    <3>1. Taken = head /\ seq[Spsc!Slot(head)] - (head + 1) < 0
      BY <2>4 DEF Spsc!PopEmpty, Spsc!SlotEmpty, Taken
    <3>2. Sent = Taken
      <4>1. CASE Taken < Sent
        <5>1. seq[Spsc!Slot(head)] = head + 1
          BY <1>2, <2>1, <3>1, <4>1 DEF QueueInv, Filled
        <5>2. QED
          BY <2>1, <3>1, <5>1
      <4>2. QED
        BY <2>1, <4>1
    <3>3. Spsc!Fifo!RefusePop
      BY <2>1, <2>4, <3>2 DEF Spsc!PopEmpty, Spsc!Fifo!RefusePop, Spsc!producerVars
    <3>4. QED
      BY <3>3 DEF Spsc!Fifo!Next
  <2>5. CASE Spsc!StoreFree
    <3>1. Taken = head /\ Taken < Sent /\ got = pushed[head + 1]
      BY <1>2, <2>5 DEF QueueInv, InConsumer, Spsc!StoreFree, Taken
    <3>2. Spsc!Fifo!Pop
      BY <2>1, <2>5, <3>1 DEF Spsc!StoreFree, Spsc!Fifo!Pop, Spsc!producerVars
    <3>3. QED
      BY <3>2 DEF Spsc!Fifo!Next
  <2>6. CASE \/ \E v \in Items : Spsc!PushClaim(v)
             \/ Spsc!Construct \/ Spsc!AdvanceTail \/ Spsc!PopClaim \/ Spsc!MoveOut \/ Spsc!AdvanceHead
             \/ UNCHANGED Spsc!vars
    <3>1. UNCHANGED <<pushed, popped, pushResult, popResult>>
      BY <2>6 DEF Spsc!PushClaim, Spsc!Construct, Spsc!AdvanceTail, Spsc!PopClaim, Spsc!MoveOut, Spsc!AdvanceHead,
                  Spsc!producerVars, Spsc!consumerVars, Spsc!vars
    <3>2. QED
      BY <3>1 DEF Spsc!Fifo!vars
  <2>7. QED
    BY <1>2, <2>2, <2>3, <2>4, <2>5, <2>6 DEF Spsc!Next, Spsc!Producer, Spsc!Consumer
<1>3. QED
  BY <1>1, <1>2, QueueInvariance, PTL DEF Spsc!Spec, ImplementsFifo, Spsc!ImplementsFifo, Spsc!Fifo!Spec
===============================================================================
