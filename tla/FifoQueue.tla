------------------------------- MODULE FifoQueue -------------------------------
(***************************************************************************)
(* What SPSCQueue promises: a bounded first-in-first-out queue whose       *)
(* operations each happen in one step.  The queue's contents are the items *)
(* pushed and not yet popped; a push fails only on a full queue and a pop  *)
(* only on an empty one.                                                   *)
(***************************************************************************)
EXTENDS Naturals, Sequences

CONSTANTS
  Capacity,     \* slots of the queue
  Items         \* what callers push

VARIABLES
  pushed,       \* every item accepted so far, in order
  popped,       \* every item handed out so far, in order
  pushResult,   \* result of the latest push
  popResult     \* result of the latest pop

vars == <<pushed, popped, pushResult, popResult>>

Length == Len(pushed) - Len(popped)

Init ==
  /\ pushed = <<>>
  /\ popped = <<>>
  /\ pushResult = "none"
  /\ popResult = "none"

Push(v) ==
  /\ Length < Capacity
  /\ pushed' = Append(pushed, v)
  /\ pushResult' = "ok"
  /\ UNCHANGED <<popped, popResult>>

RefusePush ==
  /\ Length = Capacity
  /\ pushResult' = "full"
  /\ UNCHANGED <<pushed, popped, popResult>>

Pop ==
  /\ Length > 0
  /\ popped' = Append(popped, pushed[Len(popped) + 1])
  /\ popResult' = "ok"
  /\ UNCHANGED <<pushed, pushResult>>

RefusePop ==
  /\ Length = 0
  /\ popResult' = "empty"
  /\ UNCHANGED <<pushed, popped, pushResult>>

Next == (\E v \in Items : Push(v)) \/ RefusePush \/ Pop \/ RefusePop

Spec == Init /\ [][Next]_vars
===============================================================================
