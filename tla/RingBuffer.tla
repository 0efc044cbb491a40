------------------------------ MODULE RingBuffer ------------------------------
(***************************************************************************)
(* core/memory_pool.hpp, class RingBuffer: a ring between one pushing and  *)
(* one popping thread that keeps a slot empty to tell full from empty.     *)
(* One action for each access to what the threads share.                   *)
(***************************************************************************)
EXTENDS Integers, Sequences

CONSTANTS
  Capacity,    \* slots of the ring, a power of two
  Items,
  MaxItems     \* bound on the number of items accepted

\* What the constants have to be; the runs that instantiate the module assume it.
CapacityAssumption == Capacity \in Nat \ {0, 1} /\ MaxItems \in Nat

VARIABLES
  head, tail, buffer,
  ppc, item,                     \* push(): where it is, and its argument
  cpc, got,                      \* pop(): where it is, and what it has read
  pushed, popped, pushResult, popResult  \* history, as in FifoQueue

vars == <<head, tail, buffer, ppc, item, cpc, got, pushed, popped, pushResult, popResult>>

Following(i) == (i + 1) % Capacity

Init ==
  /\ head = 0 /\ tail = 0
  /\ \E v \in Items : buffer = [i \in 0..(Capacity - 1) |-> v] /\ item = v /\ got = v
  /\ ppc = "idle" /\ cpc = "idle"
  /\ pushed = <<>> /\ popped = <<>> /\ pushResult = "none" /\ popResult = "none"

\* Mutant: no slot is kept empty.
Full_Whole == FALSE
Full == Following(tail) = head

PushFull ==
  /\ ppc = "idle" /\ Full
  /\ pushResult' = "full"
  /\ UNCHANGED <<head, tail, buffer, ppc, item, cpc, got, pushed, popped, popResult>>

BeginPush(v) ==
  /\ ppc = "idle" /\ Len(pushed) < MaxItems /\ ~Full
  /\ item' = v
  /\ ppc' = "write"
  /\ UNCHANGED <<head, tail, buffer, cpc, got, pushed, popped, pushResult, popResult>>

Write ==
  /\ ppc = "write"
  /\ buffer' = [buffer EXCEPT ![tail] = item]
  /\ ppc' = "store"
  /\ UNCHANGED <<head, tail, item, cpc, got, pushed, popped, pushResult, popResult>>

StoreTail ==
  /\ ppc = "store"
  /\ tail' = Following(tail)
  /\ pushed' = Append(pushed, item)
  /\ pushResult' = "ok"
  /\ ppc' = "idle"
  /\ UNCHANGED <<head, buffer, item, cpc, got, popped, popResult>>

PopEmpty ==
  /\ cpc = "idle" /\ head = tail
  /\ popResult' = "empty"
  /\ UNCHANGED <<head, tail, buffer, ppc, item, cpc, got, pushed, popped, pushResult>>

BeginPop ==
  /\ cpc = "idle" /\ head # tail
  /\ cpc' = "read"
  /\ UNCHANGED <<head, tail, buffer, ppc, item, got, pushed, popped, pushResult, popResult>>

Read ==
  /\ cpc = "read"
  /\ got' = buffer[head]
  /\ cpc' = "store"
  /\ UNCHANGED <<head, tail, buffer, ppc, item, pushed, popped, pushResult, popResult>>

StoreHead ==
  /\ cpc = "store"
  /\ head' = Following(head)
  /\ popped' = Append(popped, got)
  /\ popResult' = "ok"
  /\ cpc' = "idle"
  /\ UNCHANGED <<tail, buffer, ppc, item, got, pushed, pushResult>>

Next ==
  \/ PushFull \/ (\E v \in Items : BeginPush(v)) \/ Write \/ StoreTail
  \/ PopEmpty \/ BeginPop \/ Read \/ StoreHead

Spec == Init /\ [][Next]_vars

-------------------------------------------------------------------------------

\* size()
Size == (tail - head) % Capacity

\* The ring is a FifoQueue of one slot less.
Fifo == INSTANCE FifoQueue WITH Capacity <- Capacity - 1
ImplementsFifo == Fifo!Spec
===============================================================================
