---------------------------- MODULE LatestAdvisory ----------------------------
(***************************************************************************)
(* What the advisory slot promises its users, with no ring and no copying: *)
(* a register that holds the newest advisory.  The slow lane replaces it in *)
(* one step.  A fast lane samples it in one step and later either takes    *)
(* the sample or gives it up and keeps the advisory it already had.        *)
(*                                                                         *)
(* An advisory is a function from the words of the struct to the number of *)
(* the publication that wrote the word, 0 for a default-constructed one.   *)
(***************************************************************************)
EXTENDS Naturals

CONSTANTS
  Words,          \* the machine words of the Advisory struct
  Readers,        \* the fast lanes
  MaxGeneration   \* bound on the number of publications

VARIABLES
  latest,         \* number of the newest publication
  sample,         \* sample[r]: what reader r sampled, 0 when it holds no sample
  taken           \* taken[r]: the advisory reader r works with

vars == <<latest, sample, taken>>

Whole(g) == [w \in Words |-> g]

Init ==
  /\ latest = 0
  /\ sample = [r \in Readers |-> 0]
  /\ taken = [r \in Readers |-> Whole(0)]

Publish ==
  /\ latest < MaxGeneration
  /\ latest' = latest + 1
  /\ UNCHANGED <<sample, taken>>

Sample(r) ==
  /\ sample[r] = 0
  /\ latest > 0
  /\ sample' = [sample EXCEPT ![r] = latest]
  /\ UNCHANGED <<latest, taken>>

Take(r) ==
  /\ sample[r] > 0
  /\ taken' = [taken EXCEPT ![r] = Whole(sample[r])]
  /\ sample' = [sample EXCEPT ![r] = 0]
  /\ UNCHANGED latest

Abandon(r) ==
  /\ sample[r] > 0
  /\ sample' = [sample EXCEPT ![r] = 0]
  /\ UNCHANGED <<latest, taken>>

Next ==
  \/ Publish
  \/ \E r \in Readers : Sample(r) \/ Take(r) \/ Abandon(r)

Spec == Init /\ [][Next]_vars
===============================================================================
