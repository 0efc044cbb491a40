------------------------------ MODULE ClaimQueue ------------------------------
(***************************************************************************)
(* What MPSCQueue promises: a bounded queue in which a push takes effect   *)
(* in two steps.  A producer first claims the next position, and so fixes  *)
(* the order, and fills it later.  Items come out in the order of claims,  *)
(* once each; a position that is claimed and not filled holds up           *)
(* everything behind it, and counts against the capacity.                  *)
(***************************************************************************)
EXTENDS Naturals, Sequences

CONSTANTS
  Capacity,     \* slots of the queue
  Producers,    \* the threads that push
  Items         \* what they push

VARIABLES
  claimed,      \* the items whose positions have been claimed, in that order
  filled,       \* the positions that are filled
  popped,       \* the items handed out, in order
  refused,      \* refused[p]: pushes of producer p that found the queue full
  filling       \* filling[p]: the position producer p has yet to fill, as a set

vars == <<claimed, filled, popped, refused, filling>>

Init ==
  /\ claimed = <<>> /\ filled = {} /\ popped = <<>>
  /\ refused = [p \in Producers |-> 0]
  /\ filling = [p \in Producers |-> {}]

Outstanding == Len(claimed) - Len(popped)

Claim(p, v) ==
  /\ filling[p] = {}
  /\ Outstanding < Capacity
  /\ claimed' = Append(claimed, v)
  /\ filling' = [filling EXCEPT ![p] = {Len(claimed) + 1}]
  /\ UNCHANGED <<filled, popped, refused>>

Fill(p) ==
  /\ filling[p] # {}
  /\ filled' = filled \cup filling[p]
  /\ filling' = [filling EXCEPT ![p] = {}]
  /\ UNCHANGED <<claimed, popped, refused>>

Refuse(p) ==
  /\ filling[p] = {}
  /\ Outstanding = Capacity
  /\ refused' = [refused EXCEPT ![p] = @ + 1]
  /\ UNCHANGED <<claimed, filled, popped, filling>>

Pop ==
  /\ Len(popped) + 1 \in filled
  /\ popped' = Append(popped, claimed[Len(popped) + 1])
  /\ UNCHANGED <<claimed, filled, refused, filling>>

Next == Pop \/ \E p \in Producers : Fill(p) \/ Refuse(p) \/ \E v \in Items : Claim(p, v)

Spec == Init /\ [][Next]_vars
===============================================================================
