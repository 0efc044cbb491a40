------------------------------- MODULE MPSCQueue -------------------------------
(***************************************************************************)
(* core/spsc_queue.hpp, class MPSCQueue: the bounded lock-free queue with  *)
(* any number of producers and one consumer, under EventBus::queue().      *)
(* Producers compete for tail_ with compare-and-swap; the winner owns the  *)
(* slot until it stores the slot's ticket, seq.                            *)
(*                                                                         *)
(* One action per access to shared memory, taken one at a time.  A         *)
(* compare_exchange_weak may fail for no reason, and then the loop starts  *)
(* over as when it fails because another producer came first.              *)
(***************************************************************************)
EXTENDS Integers, Sequences

CONSTANTS
  Capacity,     \* slots of the queue, a power of two
  Producers,    \* the threads that push
  Items,        \* what they push
  MaxItems,     \* bound on the number of positions claimed
  MaxRefused    \* bound on the refused pushes of each producer

\* With one slot the ticket of a filled slot is that of a free one, and a push
\* overwrites what was never popped; the static_assert lets it through.
\* What the constants have to be; the runs that instantiate the module assume it.
CapacityAssumption == Capacity \in Nat \ {0, 1}
BoundsAssumption == MaxItems \in Nat /\ MaxRefused \in Nat

VARIABLES
  head,         \* head_: next position to pop
  tail,         \* tail_: next position to claim
  seq,          \* slots_[i].seq
  data,         \* slots_[i].data
  ppc,          \* ppc[p]: where producer p is in try_push
  pos,          \* pos[p]: what p loaded from tail_
  item,         \* item[p]: the argument of p's try_push
  cpc,          \* where the consumer is in try_pop
  got,          \* the result the try_pop in progress has moved out
  claimed,      \* history: the items of the positions claimed, in order
  popped,       \* history: the items handed out, in order
  refused       \* history: the refused pushes of each producer

producerVars == <<ppc, pos, item>>
consumerVars == <<head, cpc, got, popped>>
vars == <<head, tail, seq, data, producerVars, cpc, got, claimed, popped, refused>>

Slot(n) == n % Capacity

TypeOK ==
  /\ head \in Nat /\ tail \in Nat
  /\ seq \in [0..Capacity-1 -> Nat] /\ data \in [0..Capacity-1 -> Items]
  /\ ppc \in [Producers -> {"idle", "load", "test", "swap", "construct", "publish"}]
  /\ pos \in [Producers -> Nat] /\ item \in [Producers -> Items]
  /\ cpc \in {"idle", "move", "release", "advance"} /\ got \in Items
  /\ claimed \in Seq(Items) /\ popped \in Seq(Items)
  /\ refused \in [Producers -> 0..MaxRefused]

\* A slot never filled holds a default-constructed item, which nothing reads:
\* any item stands for it.
Init ==
  /\ head = 0 /\ tail = 0
  /\ seq = [s \in 0..Capacity-1 |-> s]
  /\ \E v \in Items :
       /\ data = [s \in 0..Capacity-1 |-> v]
       /\ item = [p \in Producers |-> v] /\ got = v
  /\ ppc = [p \in Producers |-> "idle"] /\ pos = [p \in Producers |-> 0]
  /\ cpc = "idle"
  /\ claimed = <<>> /\ popped = <<>> /\ refused = [p \in Producers |-> 0]

-------------------------------------------------------------------------------
(* try_push()                                                              *)

BeginPush(p, v) ==
  /\ ppc[p] = "idle"
  /\ item' = [item EXCEPT ![p] = v]
  /\ ppc' = [ppc EXCEPT ![p] = "load"]
  /\ UNCHANGED <<tail, seq, data, pos, claimed, refused, consumerVars>>

LoadTail(p) ==
  /\ ppc[p] = "load" /\ tail < MaxItems
  /\ pos' = [pos EXCEPT ![p] = tail]
  /\ ppc' = [ppc EXCEPT ![p] = "test"]
  /\ UNCHANGED <<tail, seq, data, item, claimed, refused, consumerVars>>

\* The slot's ticket behind the position, at it, or ahead of it: the queue is
\* full, the position may be claimed, or the load of tail_ is out of date.
Refuse(p) ==
  /\ ppc[p] = "test" /\ refused[p] < MaxRefused
  /\ seq[Slot(pos[p])] < pos[p]
  /\ refused' = [refused EXCEPT ![p] = @ + 1]
  /\ ppc' = [ppc EXCEPT ![p] = "idle"]
  /\ UNCHANGED <<tail, seq, data, pos, item, claimed, consumerVars>>

SlotFree(p) ==
  /\ ppc[p] = "test"
  /\ seq[Slot(pos[p])] = pos[p]
  /\ ppc' = [ppc EXCEPT ![p] = "swap"]
  /\ UNCHANGED <<tail, seq, data, pos, item, claimed, refused, consumerVars>>

SlotTaken(p) ==
  /\ ppc[p] = "test"
  /\ seq[Slot(pos[p])] > pos[p]
  /\ ppc' = [ppc EXCEPT ![p] = "load"]
  /\ UNCHANGED <<tail, seq, data, pos, item, claimed, refused, consumerVars>>

\* Mutant: tail_ is stored without being compared.
Swap_Unchecked(p) ==
  /\ ppc[p] = "swap"
  /\ tail' = pos[p] + 1
  /\ claimed' = Append(claimed, item[p])
  /\ ppc' = [ppc EXCEPT ![p] = "construct"]
  /\ UNCHANGED <<seq, data, pos, item, refused, consumerVars>>
Swap(p) ==
  /\ ppc[p] = "swap"
  /\ tail = pos[p]
  /\ tail' = tail + 1
  /\ claimed' = Append(claimed, item[p])
  /\ ppc' = [ppc EXCEPT ![p] = "construct"]
  /\ UNCHANGED <<seq, data, pos, item, refused, consumerVars>>

SwapFails(p) ==
  /\ ppc[p] = "swap"
  /\ ppc' = [ppc EXCEPT ![p] = "load"]
  /\ UNCHANGED <<tail, seq, data, pos, item, claimed, refused, consumerVars>>

Construct(p) ==
  /\ ppc[p] = "construct"
  /\ data' = [data EXCEPT ![Slot(pos[p])] = item[p]]
  /\ ppc' = [ppc EXCEPT ![p] = "publish"]
  /\ UNCHANGED <<tail, seq, pos, item, claimed, refused, consumerVars>>

StoreFilled(p) ==
  /\ ppc[p] = "publish"
  /\ seq' = [seq EXCEPT ![Slot(pos[p])] = pos[p] + 1]
  /\ ppc' = [ppc EXCEPT ![p] = "idle"]
  /\ UNCHANGED <<tail, data, pos, item, claimed, refused, consumerVars>>

\* One step of a push that goes on by itself.
PushStep(p) ==
  LoadTail(p) \/ Refuse(p) \/ SlotFree(p) \/ SlotTaken(p) \/ Swap(p) \/ Construct(p) \/ StoreFilled(p)

Producer(p) == (\E v \in Items : BeginPush(p, v)) \/ PushStep(p) \/ SwapFails(p)

-------------------------------------------------------------------------------
(* try_pop()                                                               *)

SlotEmpty == seq[Slot(head)] < head + 1

PopClaim ==
  /\ cpc = "idle"
  /\ ~SlotEmpty
  /\ cpc' = "move"
  /\ UNCHANGED <<tail, seq, data, head, got, claimed, popped, refused, producerVars>>

MoveOut ==
  /\ cpc = "move"
  /\ got' = data[Slot(head)]
  /\ cpc' = "release"
  /\ UNCHANGED <<tail, seq, data, head, claimed, popped, refused, producerVars>>

\* Mutant: the slot is handed back one position late.
StoreFree_OneShort ==
  /\ cpc = "release"
  /\ seq' = [seq EXCEPT ![Slot(head)] = head + Capacity - 1]
  /\ popped' = Append(popped, got)
  /\ cpc' = "advance"
  /\ UNCHANGED <<tail, data, head, got, claimed, refused, producerVars>>
StoreFree ==
  /\ cpc = "release"
  /\ seq' = [seq EXCEPT ![Slot(head)] = head + Capacity]
  /\ popped' = Append(popped, got)
  /\ cpc' = "advance"
  /\ UNCHANGED <<tail, data, head, got, claimed, refused, producerVars>>

AdvanceHead ==
  /\ cpc = "advance"
  /\ head' = head + 1
  /\ cpc' = "idle"
  /\ UNCHANGED <<tail, seq, data, got, claimed, popped, refused, producerVars>>

Consumer == PopClaim \/ MoveOut \/ StoreFree \/ AdvanceHead

Next == Consumer \/ \E p \in Producers : Producer(p)

\* Every thread that has begun a push goes on with it, and the consumer calls
\* try_pop again and again.
Spec == Init /\ [][Next]_vars /\ WF_vars(Consumer) /\ \A p \in Producers : WF_vars(PushStep(p))

-------------------------------------------------------------------------------
Inside(p) == ppc[p] \in {"construct", "publish"}

(* ImplementsClaimQueue: with producers overtaking each other anywhere in  *)
(* try_push and the consumer running beside them, items come out once each *)
(* and in the order in which positions were claimed, and a push is refused *)
(* only when every slot is claimed.                                        *)
Claimed == INSTANCE ClaimQueue WITH
  filled  <- {n \in 1..Len(claimed) : ~\E p \in Producers : Inside(p) /\ pos[p] + 1 = n},
  filling <- [p \in Producers |-> IF Inside(p) THEN {pos[p] + 1} ELSE {}]
ImplementsClaimQueue == Claimed!Spec
===============================================================================
