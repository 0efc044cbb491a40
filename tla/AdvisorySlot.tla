----------------------------- MODULE AdvisorySlot -----------------------------
(***************************************************************************)
(* lanes/advisory.hpp, class AdvisorySlot: the single-writer, many-reader  *)
(* slot through which the slow lane hands its newest advisory to the fast  *)
(* lanes.  A ring of Ring advisories and a counter of publications; no     *)
(* lock, and nobody waits.                                                 *)
(*                                                                         *)
(* The Advisory struct is many machine words and is copied with a plain    *)
(* assignment, so both copies are modelled word by word, in any order, and *)
(* interleave.  A word holds the number of the publication that wrote it.  *)
(* Steps of a thread take effect in program order, as on x86-64, where     *)
(* the project is built and measured.                                      *)
(***************************************************************************)
EXTENDS Integers, FiniteSets

CONSTANTS
  Ring,             \* kRing, the depth of the ring
  MaxReadRetries,   \* kMaxReadRetries, the attempts of one try_read
  Words,            \* the machine words of the Advisory struct
  Readers,          \* the threads that call try_read
  MaxGeneration     \* bound on the number of publications

ASSUME RingAssumption == Ring \in Nat /\ Ring >= 2
ASSUME RetriesAssumption == MaxReadRetries \in Nat \ {0}
ASSUME WordsAssumption == Words # {}
ASSUME BoundAssumption == MaxGeneration \in Nat

VARIABLES
  generation,   \* generation_: publications completed
  ring,         \* ring_: one advisory per slot
  publishing,   \* the writer is between its load and its store of generation_
  toWrite,      \* words publish() has still to assign
  pc,           \* pc[r]: where reader r is in try_read
  attempt,      \* attempt[r]: the loop variable of try_read
  g0,           \* g0[r]: the generation sampled before the copy
  toRead,       \* toRead[r]: words the copy has still to load
  tmp,          \* tmp[r]: the copy
  out,          \* out[r]: the caller's advisory, AdvisoryView::cached_
  startedAt,    \* history: generation_ when reader r's current call began
  exhausted     \* read_retry_exhausted_

writerVars == <<generation, ring, publishing, toWrite>>
readerVars == <<pc, attempt, g0, toRead, tmp, out, startedAt, exhausted>>
vars == <<generation, ring, publishing, toWrite,
          pc, attempt, g0, toRead, tmp, out, startedAt, exhausted>>

Slot(g) == g % Ring
Whole(g) == [w \in Words |-> g]

TypeOK ==
  /\ generation \in 0..MaxGeneration
  /\ ring \in [0..Ring-1 -> [Words -> 0..MaxGeneration]]
  /\ publishing \in BOOLEAN
  /\ toWrite \in SUBSET Words
  /\ pc \in [Readers -> {"idle", "sample", "copy", "check", "giveUp"}]
  /\ attempt \in [Readers -> 0..MaxReadRetries]
  /\ g0 \in [Readers -> 0..MaxGeneration]
  /\ toRead \in [Readers -> SUBSET Words]
  /\ tmp \in [Readers -> [Words -> 0..MaxGeneration]]
  /\ out \in [Readers -> [Words -> 0..MaxGeneration]]
  /\ startedAt \in [Readers -> 0..MaxGeneration]
  /\ exhausted \in Nat

Init ==
  /\ generation = 0
  /\ ring = [s \in 0..Ring-1 |-> Whole(0)]
  /\ publishing = FALSE
  /\ toWrite = {}
  /\ pc = [r \in Readers |-> "idle"]
  /\ attempt = [r \in Readers |-> 0]
  /\ g0 = [r \in Readers |-> 0]
  /\ toRead = [r \in Readers |-> {}]
  /\ tmp = [r \in Readers |-> Whole(0)]
  /\ out = [r \in Readers |-> Whole(0)]
  /\ startedAt = [r \in Readers |-> 0]
  /\ exhausted = 0

-------------------------------------------------------------------------------
(* publish(): load generation_, assign the next slot, store generation_.   *)

BeginPublish ==
  /\ ~publishing
  /\ generation < MaxGeneration
  /\ publishing' = TRUE
  /\ toWrite' = Words
  /\ UNCHANGED <<generation, ring, readerVars>>

WriteSlot == Slot(generation + 1)

WriteWord(w) ==
  /\ publishing
  /\ w \in toWrite
  /\ ring' = [ring EXCEPT ![WriteSlot][w] = generation + 1]
  /\ toWrite' = toWrite \ {w}
  /\ UNCHANGED <<generation, publishing, readerVars>>

\* Mutant: generation_ is stored before the assignment has finished.
StoreGeneration_Early ==
  /\ publishing
  /\ Cardinality(toWrite) <= 1
  /\ generation' = generation + 1
  /\ publishing' = FALSE
  /\ toWrite' = {}
  /\ UNCHANGED <<ring, readerVars>>

StoreGeneration ==
  /\ publishing
  /\ toWrite = {}
  /\ generation' = generation + 1
  /\ publishing' = FALSE
  /\ UNCHANGED <<ring, toWrite, readerVars>>

Writer == BeginPublish \/ (\E w \in Words : WriteWord(w)) \/ StoreGeneration

-------------------------------------------------------------------------------
(* try_read(): at most MaxReadRetries rounds of sample, copy and check.    *)

BeginRead(r) ==
  /\ pc[r] = "idle"
  /\ pc' = [pc EXCEPT ![r] = "sample"]
  /\ attempt' = [attempt EXCEPT ![r] = 0]
  /\ startedAt' = [startedAt EXCEPT ![r] = generation]
  /\ UNCHANGED <<writerVars, g0, toRead, tmp, out, exhausted>>

\* Nothing was ever published: the call fails and is not counted.
NothingPublished(r) ==
  /\ pc[r] = "sample"
  /\ generation = 0
  /\ pc' = [pc EXCEPT ![r] = "idle"]
  /\ UNCHANGED <<writerVars, attempt, g0, toRead, tmp, out, startedAt, exhausted>>

\* Mutant: a seqlock reader, which waits for a publication in progress.
SampleGeneration_Waits(r) ==
  /\ pc[r] = "sample"
  /\ generation > 0 /\ ~publishing
  /\ g0' = [g0 EXCEPT ![r] = generation]
  /\ toRead' = [toRead EXCEPT ![r] = Words]
  /\ pc' = [pc EXCEPT ![r] = "copy"]
  /\ UNCHANGED <<writerVars, attempt, tmp, out, startedAt, exhausted>>

SampleGeneration(r) ==
  /\ pc[r] = "sample"
  /\ generation > 0
  /\ g0' = [g0 EXCEPT ![r] = generation]
  /\ toRead' = [toRead EXCEPT ![r] = Words]
  /\ pc' = [pc EXCEPT ![r] = "copy"]
  /\ UNCHANGED <<writerVars, attempt, tmp, out, startedAt, exhausted>>

ReadWord(r, w) ==
  /\ pc[r] = "copy"
  /\ w \in toRead[r]
  /\ tmp' = [tmp EXCEPT ![r][w] = ring[Slot(g0[r])][w]]
  /\ toRead' = [toRead EXCEPT ![r] = @ \ {w}]
  /\ pc' = [pc EXCEPT ![r] = IF toRead[r] = {w} THEN "check" ELSE "copy"]
  /\ UNCHANGED <<writerVars, attempt, g0, out, startedAt, exhausted>>

\* Mutant: the lap test allows one generation too many.
NotLapped_OffByOne(r) == generation - g0[r] < Ring
NotLapped(r) == generation - g0[r] < Ring - 1

Accept(r) ==
  /\ pc[r] = "check"
  /\ NotLapped(r)
  /\ out' = [out EXCEPT ![r] = tmp[r]]
  /\ pc' = [pc EXCEPT ![r] = "idle"]
  /\ UNCHANGED <<writerVars, attempt, g0, toRead, tmp, startedAt, exhausted>>

Lapped(r) ==
  /\ pc[r] = "check"
  /\ ~NotLapped(r)
  /\ attempt' = [attempt EXCEPT ![r] = @ + 1]
  /\ pc' = [pc EXCEPT ![r] = IF attempt[r] + 1 < MaxReadRetries THEN "sample" ELSE "giveUp"]
  /\ UNCHANGED <<writerVars, g0, toRead, tmp, out, startedAt, exhausted>>

GiveUp(r) ==
  /\ pc[r] = "giveUp"
  /\ exhausted' = exhausted + 1
  /\ pc' = [pc EXCEPT ![r] = "idle"]
  /\ UNCHANGED <<writerVars, attempt, g0, toRead, tmp, out, startedAt>>

\* One step of a call in progress; starting a call is the caller's choice.
ReadStep(r) ==
  \/ NothingPublished(r)
  \/ SampleGeneration(r)
  \/ \E w \in Words : ReadWord(r, w)
  \/ Accept(r)
  \/ Lapped(r)
  \/ GiveUp(r)

Next == Writer \/ \E r \in Readers : BeginRead(r) \/ ReadStep(r)

Spec == Init /\ [][Next]_vars

(* A call in progress keeps running: the fast lane is pinned to its own    *)
(* core.  Nothing is assumed of the writer, which may hang or die anywhere *)
(* in publish(), nor of how often anyone publishes or reads.               *)
ReaderFairSpec == Spec /\ \A r \in Readers : WF_vars(ReadStep(r))

-------------------------------------------------------------------------------
(* NoTornRead: the advisory a caller works with was written whole by one   *)
(* publish(), however publications and the word-by-word copy interleaved.  *)
NoTornRead == \A r \in Readers : \E g \in 0..generation : out[r] = Whole(g)

(* ReadTerminates: a call that began ends, whatever the writer does, even  *)
(* one that hangs or dies in the middle of publish(); and it gives up only *)
(* if the writer published a full ring minus one during each attempt.      *)
LapsExplainFailure ==
  \A r \in Readers :
    pc[r] = "giveUp" => generation - startedAt[r] >= MaxReadRetries * (Ring - 1)
ReadTerminates ==
  /\ []LapsExplainFailure
  /\ \A r \in Readers : pc[r] # "idle" ~> pc[r] = "idle"

(* ImplementsLatestAdvisory: to its users the ring is a register holding   *)
(* the newest advisory, sampled in one step.                               *)
Sampled == [r \in Readers |-> IF pc[r] \in {"copy", "check"} THEN g0[r] ELSE 0]
Register == INSTANCE LatestAdvisory WITH
  latest <- generation, sample <- Sampled, taken <- out
ImplementsLatestAdvisory == Register!Spec
===============================================================================
