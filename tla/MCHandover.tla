------------------------------ MODULE MCHandover ------------------------------
(***************************************************************************)
(* Two machines in one run, the two lock-free ways between the lanes: the  *)
(* ring of advisories and the queue of one producer and one consumer.      *)
(* "part" says which of the two moves.                                     *)
(***************************************************************************)
EXTENDS AdvisorySlot

CONSTANTS Capacity, Items, MaxItems
VARIABLES part, head, tail, seq, data, ppc, item, cpc, got, pushed, popped, pushResult, popResult

Spsc == INSTANCE SPSCQueue
queueMachine == <<head, tail, seq, data, ppc, item, cpc, got, pushed, popped, pushResult, popResult>>

ASSUME QueueAssumption == Spsc!QueueAssumption

First == CHOOSE v \in Items : TRUE
MCInit ==
  /\ Init /\ Spsc!Init /\ part \in {"slot", "queue"}
  /\ part = "slot" => got = First
MCNext ==
  /\ \/ part = "slot" /\ Next /\ UNCHANGED queueMachine
     \/ part = "queue" /\ Spsc!Next /\ UNCHANGED vars
  /\ UNCHANGED part
\* The fairness of each machine, for as long as it is the one that moves.
MCSpec ==
  /\ MCInit /\ [][MCNext]_<<vars, queueMachine, part>>
  /\ \A r \in Readers : WF_vars(part = "slot" /\ ReadStep(r))
  /\ WF_queueMachine(part = "queue" /\ Spsc!Producer)
  /\ WF_queueMachine(part = "queue" /\ Spsc!Consumer)

\* The properties of the queue.
NoSlotRace == Spsc!NoSlotRace
ImplementsFifo == Spsc!ImplementsFifo
EveryPushSucceeds == part = "queue" => Spsc!EveryPushSucceeds
===============================================================================
