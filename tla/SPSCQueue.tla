------------------------------- MODULE SPSCQueue -------------------------------
(***************************************************************************)
(* core/spsc_queue.hpp, class SPSCQueue: the bounded lock-free queue of    *)
(* one producer thread and one consumer thread, under LaneBridge and the   *)
(* outbound order path.  Each slot carries a ticket, seq, that tells the   *)
(* producer the slot is free and the consumer that it is filled; head_ and *)
(* tail_ are each written by one side only.                                *)
(*                                                                         *)
(* One action per access to shared memory.  Constructing an item and       *)
(* moving it out take time: the producer is inside the slot's data while   *)
(* its pc is "construct", the consumer while its pc is "move".             *)
(***************************************************************************)
EXTENDS Integers, Sequences

CONSTANTS
  Capacity,     \* slots of the queue, a power of two
  Items,        \* what callers push
  MaxItems      \* bound on the number of items accepted

\* What the constants have to be; the run that instantiates the module assumes it.
QueueAssumption == Capacity \in Nat \ {0} /\ MaxItems \in Nat

VARIABLES
  head,         \* head_: next position to pop
  tail,         \* tail_: next position to push
  seq,          \* slots_[i].seq
  data,         \* slots_[i].data
  ppc,          \* where the producer is in try_push
  item,         \* the argument of the try_push in progress
  cpc,          \* where the consumer is in try_pop
  got,          \* the result the try_pop in progress has moved out
  pushed,       \* history: the items accepted, in order
  popped,       \* history: the items handed out, in order
  pushResult,   \* result of the latest try_push
  popResult     \* result of the latest try_pop

producerVars == <<tail, ppc, item, pushed, pushResult>>
consumerVars == <<head, cpc, got, popped, popResult>>
vars == <<head, tail, seq, data, ppc, item, cpc, got,
          pushed, popped, pushResult, popResult>>

Slot(pos) == pos % Capacity

TypeOK ==
  /\ head \in Nat /\ tail \in Nat
  /\ seq \in [0..Capacity-1 -> Nat]
  /\ data \in [0..Capacity-1 -> Items]
  /\ ppc \in {"idle", "construct", "publish", "advance"}
  /\ item \in Items /\ got \in Items
  /\ cpc \in {"idle", "move", "release", "advance"}
  /\ pushed \in Seq(Items)
  /\ popped \in Seq(Items)
  /\ pushResult \in {"none", "ok", "full"}
  /\ popResult \in {"none", "ok", "empty"}

\* The data of a slot never filled is uninitialised: some arbitrary item.
Init ==
  /\ head = 0 /\ tail = 0
  /\ seq = [s \in 0..Capacity-1 |-> s]
  /\ \E v \in Items : data = [s \in 0..Capacity-1 |-> v] /\ item = v /\ got = v
  /\ ppc = "idle" /\ cpc = "idle"
  /\ pushed = <<>> /\ popped = <<>>
  /\ pushResult = "none" /\ popResult = "none"

-------------------------------------------------------------------------------
(* try_push(), and push(), which repeats it until it succeeds.             *)

\* Mutant: the slot counts as free as soon as it is at most one lap behind.
SlotBusy_OffByOne == seq[Slot(tail)] - tail < 1 - Capacity
SlotBusy == seq[Slot(tail)] - tail < 0

PushFull ==
  /\ ppc = "idle" /\ Len(pushed) < MaxItems
  /\ SlotBusy
  /\ pushResult' = "full"
  /\ UNCHANGED <<seq, data, tail, ppc, item, pushed, consumerVars>>

PushClaim(v) ==
  /\ ppc = "idle" /\ Len(pushed) < MaxItems
  /\ ~SlotBusy
  /\ item' = v
  /\ ppc' = "construct"
  /\ UNCHANGED <<seq, data, tail, pushed, pushResult, consumerVars>>

Construct ==
  /\ ppc = "construct"
  /\ data' = [data EXCEPT ![Slot(tail)] = item]
  /\ ppc' = "publish"
  /\ UNCHANGED <<seq, tail, item, pushed, pushResult, consumerVars>>

StoreFilled ==
  /\ ppc = "publish"
  /\ seq' = [seq EXCEPT ![Slot(tail)] = tail + 1]
  /\ pushed' = Append(pushed, item)
  /\ pushResult' = "ok"
  /\ ppc' = "advance"
  /\ UNCHANGED <<data, tail, item, consumerVars>>

AdvanceTail ==
  /\ ppc = "advance"
  /\ tail' = tail + 1
  /\ ppc' = "idle"
  /\ UNCHANGED <<seq, data, item, pushed, pushResult, consumerVars>>

Producer == PushFull \/ (\E v \in Items : PushClaim(v)) \/ Construct \/ StoreFilled \/ AdvanceTail

-------------------------------------------------------------------------------
(* try_pop(), both overloads; pop_bulk() repeats it.                       *)

SlotEmpty == seq[Slot(head)] - (head + 1) < 0

PopEmpty ==
  /\ cpc = "idle"
  /\ SlotEmpty
  /\ popResult' = "empty"
  /\ UNCHANGED <<seq, data, head, cpc, got, popped, producerVars>>

\* Mutant: the slot is handed back before its item has been moved out.
PopClaim_ReleaseFirst ==
  /\ cpc = "idle"
  /\ ~SlotEmpty
  /\ seq' = [seq EXCEPT ![Slot(head)] = head + Capacity]
  /\ cpc' = "move"
  /\ UNCHANGED <<data, head, got, popped, popResult, producerVars>>

PopClaim ==
  /\ cpc = "idle"
  /\ ~SlotEmpty
  /\ cpc' = "move"
  /\ UNCHANGED <<seq, data, head, got, popped, popResult, producerVars>>

MoveOut ==
  /\ cpc = "move"
  /\ got' = data[Slot(head)]
  /\ cpc' = "release"
  /\ UNCHANGED <<seq, data, head, popped, popResult, producerVars>>

\* Mutant: the slot's ticket is left one lap short, so it never comes free.
StoreFree_OneShort ==
  /\ cpc = "release"
  /\ seq' = [seq EXCEPT ![Slot(head)] = head + Capacity - 1]
  /\ popped' = Append(popped, got)
  /\ popResult' = "ok"
  /\ cpc' = "advance"
  /\ UNCHANGED <<data, head, got, producerVars>>

StoreFree ==
  /\ cpc = "release"
  /\ seq' = [seq EXCEPT ![Slot(head)] = head + Capacity]
  /\ popped' = Append(popped, got)
  /\ popResult' = "ok"
  /\ cpc' = "advance"
  /\ UNCHANGED <<data, head, got, producerVars>>

AdvanceHead ==
  /\ cpc = "advance"
  /\ head' = head + 1
  /\ cpc' = "idle"
  /\ UNCHANGED <<seq, data, got, popped, popResult, producerVars>>

Consumer == PopEmpty \/ PopClaim \/ MoveOut \/ StoreFree \/ AdvanceHead

Next == Producer \/ Consumer

Spec == Init /\ [][Next]_vars

(* push() spins until it succeeds and the consumer polls in a loop; each   *)
(* thread keeps running.                                                   *)
FairSpec == Spec /\ WF_vars(Producer) /\ WF_vars(Consumer)

-------------------------------------------------------------------------------
(* NoSlotRace: the two threads are never inside the same slot's data.      *)
NoSlotRace == ~(ppc = "construct" /\ cpc = "move" /\ Slot(head) = Slot(tail))

(* ImplementsFifo: the queue hands out exactly the items accepted, once    *)
(* each and in order, refuses a push only when full and a pop only when    *)
(* empty.                                                                  *)
Fifo == INSTANCE FifoQueue
ImplementsFifo == Fifo!Spec

(* NeverOverfull: a push is refused when the queue is full, so no more     *)
(* items than slots are ever outstanding.                                  *)
NeverOverfull == Len(pushed) - Len(popped) <= Capacity

(* EveryPushSucceeds: a producer that finds the queue full and spins, as   *)
(* push() does, gets its item in, and every item gets out, round after     *)
(* round of the ring.                                                      *)
EveryPushSucceeds == <>(Len(popped) = MaxItems)
===============================================================================
