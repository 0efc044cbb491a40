----------------------------- MODULE MCBuffers_proofs -----------------------------
(***************************************************************************)
(* Proofs about the places where data waits: the queue of many producers,  *)
(* the ring buffer, the object pools, the arena, the binary log and the    *)
(* event bus, for every size, number of threads and sequence of calls.     *)
(***************************************************************************)
EXTENDS MCBuffers, Lemmas, SequenceTheorems, FiniteSetTheorems, TLAPS

(* The queue of many producers, MPSCQueue.                                 *)

(* Items released, counting a store whose counter has not been advanced.   *)
Taken == IF cpc = "advance" THEN head + 1 ELSE head

(* Position n has been claimed by a producer that has yet to fill it.      *)
Unfilled(n) == \E q \in Producers : Inside(q) /\ pos[q] = n

(* The inductive invariant.  The positions Taken .. Taken+Capacity-1 own   *)
(* one slot each: those claimed and filled carry the next ticket and their *)
(* item, all others their own ticket.  No ticket ever goes back, so that   *)
(* one that is behind a position loaded long ago means a full queue.       *)
Counts ==
  /\ Len(claimed) = tail /\ Len(popped) = Taken
  /\ Taken <= tail /\ tail <= Taken + Capacity

Tickets ==
  \A n \in Nat : Taken <= n /\ n < Taken + Capacity =>
    seq[Slot(n)] = IF n < tail /\ ~Unfilled(n) THEN n + 1 ELSE n

Contents ==
  \A n \in Nat : Taken <= n /\ n < tail /\ ~Unfilled(n) => data[Slot(n)] = claimed[n + 1]

Passed == \A n \in Nat : n < Taken + Capacity => seq[Slot(n)] >= n

InProducer(q) ==
  /\ ppc[q] \in {"test", "swap"} => pos[q] <= tail
  /\ ppc[q] = "swap" => pos[q] < Taken + Capacity
  /\ Inside(q) => Taken <= pos[q] /\ pos[q] < tail /\ item[q] = claimed[pos[q] + 1]
  /\ ppc[q] = "publish" => data[Slot(pos[q])] = item[q]

Apart == \A q, r \in Producers : Inside(q) /\ Inside(r) /\ pos[q] = pos[r] => q = r

InConsumer ==
  /\ cpc \in {"move", "release"} => head < tail /\ ~Unfilled(head)
  /\ cpc = "release" => got = claimed[head + 1]

IInv ==
  /\ TypeOK /\ Counts /\ Tickets /\ Contents /\ Passed
  /\ \A q \in Producers : InProducer(q)
  /\ Apart /\ InConsumer

-------------------------------------------------------------------------------
LEMMA SlotRange == ASSUME CapacityAssumption, NEW n \in Nat PROVE Slot(n) \in 0..Capacity-1
BY SlotInRange DEF Slot, CapacityAssumption

LEMMA SlotsApart ==
  ASSUME CapacityAssumption, NEW m \in Nat, NEW n \in Nat, m # n, m - n < Capacity, n - m < Capacity
  PROVE  Slot(m) # Slot(n)
<1>1. CASE m < n
  BY <1>1, SlotsDiffer DEF Slot, CapacityAssumption
<1>2. CASE n < m
  BY <1>2, SlotsDiffer DEF Slot, CapacityAssumption
<1>3. QED
  BY <1>1, <1>2

LEMMA SlotAgain ==
  ASSUME CapacityAssumption, NEW n \in Nat PROVE Slot(n + Capacity) = Slot(n)
BY SlotWraps DEF Slot, CapacityAssumption

LEMMA Numbers ==
  ASSUME CapacityAssumption, IInv
  PROVE  /\ Capacity \in Nat /\ Capacity >= 2
         /\ head \in Nat /\ tail \in Nat /\ Taken \in Nat /\ Taken <= tail /\ tail <= Taken + Capacity
         /\ \A q \in Producers : pos[q] \in Nat /\ item[q] \in Items
         /\ \A n \in Nat : seq[Slot(n)] \in Nat /\ data[Slot(n)] \in Items
<1>1. Capacity \in Nat /\ Capacity >= 2
  BY DEF CapacityAssumption
<1>2. head \in Nat /\ tail \in Nat /\ Taken \in Nat /\ Taken <= tail /\ tail <= Taken + Capacity
  BY DEF IInv, TypeOK, Counts, Taken
<1>3. \A q \in Producers : pos[q] \in Nat /\ item[q] \in Items
  BY DEF IInv, TypeOK
<1>4. \A n \in Nat : seq[Slot(n)] \in Nat /\ data[Slot(n)] \in Items
  BY SlotRange DEF IInv, TypeOK
<1>5. QED
  BY <1>1, <1>2, <1>3, <1>4

LEMMA InitIInv == ASSUME CapacityAssumption, BoundsAssumption, Init PROVE IInv
<1>0. Capacity \in Nat /\ Capacity >= 2 /\ Taken = 0 /\ Len(<<>>) = 0 /\ <<>> \in Seq(Items)
  BY DEF CapacityAssumption, Init, Taken
<1>1. TypeOK
  BY <1>0 DEF Init, TypeOK, BoundsAssumption
<1>2. \A q \in Producers : ~Inside(q) /\ ppc[q] = "idle"
  BY DEF Init, Inside
<1>3. Counts
  <2>1. claimed = <<>> /\ popped = <<>> /\ tail = 0
    BY DEF Init
  <2>2. QED
    BY <1>0, <2>1 DEF Counts
<1>4. \A n \in Nat : n < Capacity => Slot(n) = n /\ seq[Slot(n)] = n
  BY SMTT(60), <1>0 DEF Init, Slot
<1>5. Tickets /\ Passed
  <2>1. \A n \in Nat : ~(n < tail)
    BY DEF Init
  <2>2. QED
    BY <1>0, <1>4, <2>1 DEF Tickets, Passed
<1>6. Contents
  BY <1>0 DEF Contents, Init
<1>7. \A q \in Producers : InProducer(q)
  BY <1>2 DEF InProducer
<1>8. Apart /\ InConsumer
  BY <1>2 DEF Apart, InConsumer, Init
<1>9. QED
  BY <1>1, <1>3, <1>5, <1>6, <1>7, <1>8 DEF IInv
-------------------------------------------------------------------------------
(* One lemma per step.  Construct writes a slot no other thread may look   *)
(* at: its position is claimed, and filled by nobody else.                 *)
LEMMA ConstructStep ==
  ASSUME CapacityAssumption, IInv, NEW p \in Producers, Construct(p) PROVE IInv'
<1>1. /\ UNCHANGED <<head, tail, seq, cpc, got, claimed, popped, refused, pos, item>>
      /\ ppc[p] = "construct" /\ ppc' = [ppc EXCEPT ![p] = "publish"]
      /\ data' = [data EXCEPT ![Slot(pos[p])] = item[p]]
      /\ ppc \in [Producers -> {"idle", "load", "test", "swap", "construct", "publish"}]
      /\ data \in [0..Capacity-1 -> Items]
  BY DEF Construct, consumerVars, IInv, TypeOK
<1>2. Taken' = Taken /\ Inside(p)
  BY <1>1 DEF Taken, Inside
<1>3. \A q \in Producers : Inside(q)' = Inside(q) /\ (q # p => ppc'[q] = ppc[q]) /\ ppc'[p] = "publish"
  BY <1>1 DEF Inside
<1>4. /\ Taken <= pos[p] /\ pos[p] < tail /\ tail <= Taken + Capacity /\ pos[p] \in Nat /\ Taken \in Nat
      /\ tail \in Nat /\ Capacity \in Nat /\ item[p] \in Items
  BY <1>2, Numbers DEF IInv, InProducer
<1>5. \A n : Unfilled(n)' = Unfilled(n)
  BY <1>1, <1>3 DEF Unfilled
<1>6. ASSUME NEW n \in Nat, Taken <= n, n < tail, n # pos[p] PROVE data'[Slot(n)] = data[Slot(n)]
  <2>1. Slot(n) # Slot(pos[p])
    BY <1>4, <1>6, SlotsApart
  <2>2. QED
    BY <1>1, <1>4, <2>1, SlotRange
<1>7. TypeOK'
  BY <1>1, <1>4 DEF IInv, TypeOK
<1>8. Counts' /\ Tickets' /\ Passed'
  BY <1>1, <1>2, <1>5 DEF IInv, Counts, Tickets, Passed, Slot
<1>9. Contents'
  <2>1. ASSUME NEW n \in Nat, Taken <= n, n < tail, ~Unfilled(n) PROVE data'[Slot(n)] = claimed[n + 1]
    <3>1. n # pos[p]
      BY <1>2, <2>1 DEF Unfilled
    <3>2. QED
      BY <1>6, <2>1, <3>1 DEF IInv, Contents
  <2>2. QED
    BY <1>1, <1>2, <1>5, <2>1 DEF Contents, Slot
<1>10. ASSUME NEW q \in Producers PROVE InProducer(q)'
  <2>1. CASE q = p
    <3>1. data'[Slot(pos[p])] = item[p]
      BY <1>1, <1>4, SlotRange
    <3>2. QED
      BY <1>1, <1>2, <1>3, <2>1, <3>1 DEF IInv, InProducer, Slot
  <2>2. CASE q # p
    <3>1. ppc[q] = "publish" => data'[Slot(pos[q])] = data[Slot(pos[q])]
      <4>1. SUFFICES ASSUME ppc[q] = "publish" PROVE data'[Slot(pos[q])] = data[Slot(pos[q])]
        OBVIOUS
      <4>2. Inside(q) /\ pos[q] \in Nat
        BY <4>1, Numbers DEF Inside
      <4>3. pos[q] # pos[p] /\ Taken <= pos[q] /\ pos[q] < tail
        BY <1>2, <2>2, <4>2 DEF IInv, Apart, InProducer
      <4>4. QED
        BY <1>6, <4>2, <4>3
    <3>2. QED
      BY <1>1, <1>2, <1>3, <2>2, <3>1 DEF IInv, InProducer, Slot
  <2>3. QED
    BY <2>1, <2>2
<1>11. Apart' /\ InConsumer'
  BY <1>1, <1>3, <1>5 DEF IInv, Apart, InConsumer
<1>12. QED
  BY <1>7, <1>8, <1>9, <1>10, <1>11 DEF IInv

(* The ticket is stored: the position is filled, and the producer leaves.  *)
LEMMA StoreFilledStep ==
  ASSUME CapacityAssumption, IInv, NEW p \in Producers, StoreFilled(p) PROVE IInv'
<1>1. /\ UNCHANGED <<head, tail, data, cpc, got, claimed, popped, refused, pos, item>>
      /\ ppc[p] = "publish" /\ ppc' = [ppc EXCEPT ![p] = "idle"]
      /\ seq' = [seq EXCEPT ![Slot(pos[p])] = pos[p] + 1]
      /\ ppc \in [Producers -> {"idle", "load", "test", "swap", "construct", "publish"}]
      /\ seq \in [0..Capacity-1 -> Nat]
  BY DEF StoreFilled, consumerVars, IInv, TypeOK
<1>2. Taken' = Taken /\ Inside(p)
  BY <1>1 DEF Taken, Inside
<1>3. /\ \A q \in Producers : q # p => Inside(q)' = Inside(q) /\ ppc'[q] = ppc[q]
      /\ ~Inside(p)' /\ ppc'[p] = "idle"
  BY <1>1 DEF Inside
<1>4. /\ Taken <= pos[p] /\ pos[p] < tail /\ tail <= Taken + Capacity /\ pos[p] \in Nat /\ Taken \in Nat
      /\ tail \in Nat /\ Capacity \in Nat
  BY <1>2, Numbers DEF IInv, InProducer
<1>5. \A n \in Nat : Unfilled(n)' = (Unfilled(n) /\ n # pos[p])
  BY <1>1, <1>2, <1>3 DEF Unfilled, IInv, Apart
<1>6. ASSUME NEW n \in Nat, Taken <= n, n < Taken + Capacity, n # pos[p] PROVE seq'[Slot(n)] = seq[Slot(n)]
  <2>1. Slot(n) # Slot(pos[p])
    BY <1>4, <1>6, SlotsApart
  <2>2. QED
    BY <1>1, <1>4, <2>1, SlotRange
<1>7. seq'[Slot(pos[p])] = pos[p] + 1
  BY <1>1, <1>4, SlotRange
<1>8. TypeOK'
  <2>1. seq' \in [0..Capacity-1 -> Nat]
    <3>1. pos[p] + 1 \in Nat
      BY <1>4
    <3>2. QED
      BY <1>1, <3>1
  <2>2. QED
    BY <1>1, <2>1 DEF IInv, TypeOK
<1>9. Counts'
  BY <1>1, <1>2 DEF IInv, Counts
<1>10. Tickets'
  <2>1. ASSUME NEW n \in Nat, Taken <= n, n < Taken + Capacity
        PROVE  seq'[Slot(n)] = IF n < tail /\ ~Unfilled(n)' THEN n + 1 ELSE n
    <3>1. CASE n = pos[p]
      BY <1>4, <1>5, <1>7, <3>1
    <3>2. CASE n # pos[p]
      <4>1. seq[Slot(n)] = IF n < tail /\ ~Unfilled(n) THEN n + 1 ELSE n
        BY <2>1 DEF IInv, Tickets
      <4>2. QED
        BY <1>5, <1>6, <2>1, <3>2, <4>1
    <3>3. QED
      BY <3>1, <3>2
  <2>2. QED
    BY <1>1, <1>2, <2>1 DEF Tickets, Slot
<1>11. Contents'
  <2>1. ASSUME NEW n \in Nat, Taken <= n, n < tail, ~Unfilled(n)' PROVE data[Slot(n)] = claimed[n + 1]
    <3>1. CASE n = pos[p]
      BY <1>1, <1>2, <3>1 DEF IInv, InProducer
    <3>2. CASE n # pos[p]
      BY <1>5, <2>1, <3>2 DEF IInv, Contents
    <3>3. QED
      BY <3>1, <3>2
  <2>2. QED
    BY <1>1, <1>2, <2>1 DEF Contents, Slot
<1>12. Passed'
  <2>1. ASSUME NEW n \in Nat, n < Taken + Capacity PROVE seq'[Slot(n)] >= n
    <3>1. seq[Slot(n)] >= n /\ seq[Slot(pos[p])] = pos[p] /\ Slot(n) \in 0..Capacity-1 /\ seq[Slot(n)] \in Nat
      BY <1>2, <1>4, <2>1, SlotRange, Numbers DEF IInv, Passed, Tickets, Unfilled
    <3>2. CASE Slot(n) = Slot(pos[p])
      BY <1>4, <1>7, <3>1, <3>2
    <3>3. CASE Slot(n) # Slot(pos[p])
      BY <1>1, <3>1, <3>3
    <3>4. QED
      BY <3>2, <3>3
  <2>2. QED
    BY <1>1, <1>2, <2>1 DEF Passed, Slot
<1>13. ASSUME NEW q \in Producers PROVE InProducer(q)'
  <2>1. CASE q = p
    BY <1>3, <2>1 DEF InProducer
  <2>2. CASE q # p
    BY <1>1, <1>2, <1>3, <2>2 DEF IInv, InProducer, Slot
  <2>3. QED
    BY <2>1, <2>2
<1>14. Apart' /\ InConsumer'
  <2>1. Apart'
    BY <1>1, <1>3 DEF IInv, Apart
  <2>2. head \in Nat
    BY Numbers
  <2>3. InConsumer'
    BY <1>1, <1>5, <2>2 DEF IInv, InConsumer
  <2>4. QED
    BY <2>1, <2>3
<1>15. QED
  BY <1>8, <1>9, <1>10, <1>11, <1>12, <1>13, <1>14 DEF IInv

(* The compare-and-swap succeeds: the position found free is still free,   *)
(* as nobody has claimed it meanwhile, and it is within the window.        *)
LEMMA SwapStep ==
  ASSUME CapacityAssumption, IInv, NEW p \in Producers, Swap(p) PROVE IInv'
<1>1. /\ UNCHANGED <<head, seq, data, cpc, got, popped, refused, pos, item>>
      /\ ppc[p] = "swap" /\ ppc' = [ppc EXCEPT ![p] = "construct"]
      /\ tail = pos[p] /\ tail' = tail + 1 /\ claimed' = Append(claimed, item[p])
      /\ ppc \in [Producers -> {"idle", "load", "test", "swap", "construct", "publish"}]
      /\ claimed \in Seq(Items)
  BY DEF Swap, consumerVars, IInv, TypeOK
<1>2. Taken' = Taken /\ ~Inside(p)
  BY <1>1 DEF Taken, Inside
<1>3. /\ \A q \in Producers : q # p => Inside(q)' = Inside(q) /\ ppc'[q] = ppc[q]
      /\ Inside(p)' /\ ppc'[p] = "construct"
  BY <1>1 DEF Inside
<1>4. /\ tail < Taken + Capacity /\ Taken <= tail /\ Taken \in Nat /\ tail \in Nat /\ Capacity \in Nat
      /\ item[p] \in Items /\ Len(claimed) = tail
  BY <1>1, Numbers DEF IInv, InProducer, Counts
<1>5. /\ claimed' \in Seq(Items) /\ Len(claimed') = tail + 1 /\ claimed'[tail + 1] = item[p]
      /\ \A i \in 1..tail : claimed'[i] = claimed[i]
  BY <1>1, <1>4
<1>6. \A n \in Nat : Unfilled(n)' <=> Unfilled(n) \/ n = tail
  BY <1>1, <1>2, <1>3 DEF Unfilled
<1>7. \A q \in Producers : Inside(q) => pos[q] < tail /\ pos[q] \in Nat
  BY Numbers DEF IInv, InProducer
<1>8. TypeOK'
  BY <1>1, <1>4, <1>5 DEF IInv, TypeOK
<1>9. Counts'
  BY <1>1, <1>2, <1>4, <1>5 DEF IInv, Counts
<1>10. Tickets'
  <2>1. ASSUME NEW n \in Nat, Taken <= n, n < Taken + Capacity
        PROVE  seq[Slot(n)] = IF n < tail + 1 /\ ~Unfilled(n)' THEN n + 1 ELSE n
    <3>1. seq[Slot(n)] = IF n < tail /\ ~Unfilled(n) THEN n + 1 ELSE n
      BY <2>1 DEF IInv, Tickets
    <3>2. CASE n = tail
      BY <1>4, <1>6, <3>1, <3>2
    <3>3. CASE n # tail
      <4>1. (n < tail + 1) <=> (n < tail)
        BY <1>4, <3>3
      <4>2. Unfilled(n)' <=> Unfilled(n)
        BY <1>6, <3>3
      <4>3. QED
        BY <3>1, <4>1, <4>2
    <3>4. QED
      BY <3>2, <3>3
  <2>2. QED
    BY <1>1, <1>2, <2>1 DEF Tickets, Slot
<1>11. Contents'
  <2>1. ASSUME NEW n \in Nat, Taken <= n, n < tail + 1, ~Unfilled(n)' PROVE data[Slot(n)] = claimed'[n + 1]
    <3>1. n # tail /\ ~Unfilled(n)
      BY <1>6, <2>1
    <3>2. n < tail /\ n + 1 \in 1..tail
      BY <1>4, <2>1, <3>1
    <3>3. data[Slot(n)] = claimed[n + 1]
      BY <2>1, <3>1, <3>2 DEF IInv, Contents
    <3>4. QED
      BY <1>5, <3>2, <3>3
  <2>2. QED
    BY <1>1, <1>2, <2>1 DEF Contents, Slot
<1>12. Passed'
  BY <1>1, <1>2 DEF IInv, Passed, Slot
<1>13. ASSUME NEW q \in Producers PROVE InProducer(q)'
  <2>1. CASE q = p
    BY <1>1, <1>2, <1>3, <1>4, <1>5, <2>1 DEF InProducer
  <2>2. CASE q # p
    <3>1. Inside(q) => pos[q] + 1 \in 1..tail
      BY <1>4, <1>7
    <3>2. pos[q] \in Nat
      BY Numbers
    <3>3. InProducer(q)
      BY DEF IInv
    <3>4. (ppc[q] \in {"test", "swap"} => pos[q] <= tail + 1) /\ (Inside(q) => pos[q] < tail + 1)
      BY <1>4, <3>2, <3>3 DEF InProducer
    <3>5. Inside(q) => item[q] = claimed'[pos[q] + 1]
      BY <1>5, <3>1, <3>3 DEF InProducer
    <3>6. QED
      BY <1>1, <1>2, <1>3, <2>2, <3>3, <3>4, <3>5 DEF InProducer, Slot
  <2>3. QED
    BY <2>1, <2>2
<1>14. Apart'
  <2>1. \A q \in Producers : Inside(q) => pos[q] # pos[p]
    BY <1>1, <1>4, <1>7
  <2>2. ASSUME NEW q \in Producers, NEW r \in Producers, Inside(q)', Inside(r)', pos[q] = pos[r] PROVE q = r
    BY <1>3, <2>1, <2>2 DEF IInv, Apart
  <2>3. QED
    BY <1>1, <2>2 DEF Apart
<1>15. InConsumer'
  <2>1. head \in Nat /\ (head < tail => head < tail + 1 /\ head # tail /\ head + 1 \in 1..tail)
    BY <1>4, Numbers
  <2>2. InConsumer
    BY DEF IInv
  <2>3. cpc \in {"move", "release"} => head < tail /\ head < tail + 1 /\ ~Unfilled(head)'
    <3>1. SUFFICES ASSUME cpc \in {"move", "release"}
                   PROVE  head < tail /\ head < tail + 1 /\ ~Unfilled(head)'
      OBVIOUS
    <3>2. head < tail /\ ~Unfilled(head)
      BY <2>2, <3>1 DEF InConsumer
    <3>3. head < tail + 1 /\ head # tail
      BY <2>1, <3>2
    <3>4. head' = head /\ ~Unfilled(head)'
      BY <1>1, <1>6, <2>1, <3>2, <3>3
    <3>5. QED
      BY <3>2, <3>3, <3>4
  <2>4. cpc = "release" => got = claimed'[head + 1]
    BY <1>5, <2>1, <2>2, <2>3 DEF InConsumer
  <2>5. QED
    BY <1>1, <2>3, <2>4 DEF InConsumer
<1>16. QED
  BY <1>8, <1>9, <1>10, <1>11, <1>12, <1>13, <1>14, <1>15 DEF IInv

(* The other steps of a push change where the producer is and what it has  *)
(* loaded, and it is outside of every slot.                                *)
LEMMA ProducerRest ==
  ASSUME CapacityAssumption, BoundsAssumption, IInv, NEW p \in Producers,
         \/ \E v \in Items : BeginPush(p, v)
         \/ LoadTail(p) \/ Refuse(p) \/ SlotFree(p) \/ SlotTaken(p) \/ SwapFails(p)
  PROVE  IInv'
<1>1. /\ UNCHANGED <<head, tail, seq, data, cpc, got, claimed, popped>>
      /\ ppc' = [ppc EXCEPT ![p] = ppc'[p]] /\ ppc'[p] \in {"idle", "load", "test", "swap"}
      /\ ppc[p] \in {"idle", "load", "test", "swap"}
      /\ pos' = [pos EXCEPT ![p] = pos'[p]] /\ item' = [item EXCEPT ![p] = item'[p]]
  BY DEF BeginPush, LoadTail, Refuse, SlotFree, SlotTaken, SwapFails, consumerVars, IInv, TypeOK
<1>2. /\ pos'[p] \in Nat /\ item'[p] \in Items
      /\ ppc'[p] \in {"test", "swap"} => pos'[p] <= tail
      /\ refused' \in [Producers -> 0..MaxRefused]
  <2>1. /\ tail \in Nat /\ tail <= tail /\ refused \in [Producers -> 0..MaxRefused] /\ MaxRefused \in Nat
        /\ ppc \in [Producers -> {"idle", "load", "test", "swap", "construct", "publish"}]
        /\ pos \in [Producers -> Nat] /\ item \in [Producers -> Items]
        /\ (ppc[p] \in {"test", "swap"} => pos[p] <= tail)
    BY DEF IInv, TypeOK, InProducer, BoundsAssumption
  <2>2. CASE \E v \in Items : BeginPush(p, v)
    BY <2>1, <2>2 DEF BeginPush
  <2>3. CASE LoadTail(p)
    BY <2>1, <2>3 DEF LoadTail
  <2>4. CASE Refuse(p)
    BY <2>1, <2>4 DEF Refuse
  <2>5. CASE SlotFree(p) \/ SlotTaken(p) \/ SwapFails(p)
    BY <2>1, <2>5 DEF SlotFree, SlotTaken, SwapFails
  <2>6. QED
    BY <2>2, <2>3, <2>4, <2>5
<1>3. TypeOK'
  BY <1>1, <1>2 DEF IInv, TypeOK
<1>4. Taken' = Taken
  BY <1>1 DEF Taken
<1>5. /\ \A q \in Producers : q # p => ppc'[q] = ppc[q] /\ pos'[q] = pos[q] /\ item'[q] = item[q]
      /\ \A q \in Producers : Inside(q)' = Inside(q)
      /\ ~Inside(p)
  BY <1>1 DEF Inside, IInv, TypeOK
<1>6. \A n : Unfilled(n)' = Unfilled(n)
  BY <1>5 DEF Unfilled
<1>7. Counts' /\ Tickets' /\ Contents' /\ Passed'
  BY <1>1, <1>4, <1>6 DEF IInv, Counts, Tickets, Contents, Passed, Slot
<1>8. ppc'[p] = "swap" => pos'[p] < Taken + Capacity
  <2>1. ASSUME SlotFree(p) PROVE pos[p] < Taken + Capacity
    <3>1. seq[Slot(pos[p])] = pos[p] /\ pos[p] <= tail /\ pos[p] \in Nat
      BY <2>1, Numbers DEF SlotFree, IInv, InProducer
    <3>2. ASSUME pos[p] >= Taken + Capacity PROVE FALSE
      <4>1. pos[p] = Taken + Capacity /\ Taken \in Nat /\ Capacity \in Nat /\ Capacity >= 2 /\ Taken < Taken + Capacity
        BY <3>1, <3>2, Numbers
      <4>2. Slot(pos[p]) = Slot(Taken)
        BY <4>1, SlotAgain
      <4>3. seq[Slot(Taken)] \in {Taken, Taken + 1}
        BY <4>1, Numbers DEF IInv, Tickets
      <4>4. QED
        BY <3>1, <4>1, <4>2, <4>3
    <3>3. QED
      BY <3>1, <3>2, Numbers
  <2>2. ppc'[p] = "swap" => SlotFree(p)
    BY <1>1 DEF BeginPush, LoadTail, Refuse, SlotTaken, SwapFails, IInv, TypeOK
  <2>3. SlotFree(p) => pos'[p] = pos[p]
    BY DEF SlotFree
  <2>4. QED
    BY <2>1, <2>2, <2>3
<1>9. ASSUME NEW q \in Producers PROVE InProducer(q)'
  <2>1. CASE q = p
    BY <1>1, <1>2, <1>4, <1>5, <1>8, <2>1 DEF InProducer
  <2>2. CASE q # p
    BY <1>1, <1>4, <1>5, <2>2 DEF IInv, InProducer, Slot
  <2>3. QED
    BY <2>1, <2>2
<1>10. Apart' /\ InConsumer'
  BY <1>1, <1>5, <1>6 DEF IInv, Apart, InConsumer
<1>11. QED
  BY <1>3, <1>7, <1>9, <1>10 DEF IInv

(* The consumer: the item it moves out is the one claimed for its          *)
(* position, and the slot it hands back becomes that of the position one   *)
(* lap later.                                                              *)
LEMMA MoveOutStep == ASSUME CapacityAssumption, IInv, MoveOut PROVE IInv'
<1>1. /\ UNCHANGED <<head, tail, seq, data, claimed, popped, refused, ppc, pos, item>>
      /\ cpc = "move" /\ cpc' = "release" /\ got' = data[Slot(head)]
  BY DEF MoveOut, producerVars
<1>2. Taken' = Taken /\ Taken = head
  BY <1>1 DEF Taken
<1>3. head < tail /\ ~Unfilled(head) /\ head \in Nat /\ got' \in Items
  BY <1>1, Numbers DEF IInv, InConsumer
<1>4. got' = claimed[head + 1]
  BY <1>1, <1>2, <1>3 DEF IInv, Contents
<1>5. \A n : Unfilled(n)' = Unfilled(n)
  BY <1>1 DEF Unfilled, Inside
<1>6. TypeOK'
  BY <1>1, <1>3 DEF IInv, TypeOK
<1>7. Counts' /\ Tickets' /\ Contents' /\ Passed'
  BY <1>1, <1>2, <1>5 DEF IInv, Counts, Tickets, Contents, Passed, Slot
<1>8. (\A q \in Producers : InProducer(q)') /\ Apart'
  BY <1>1, <1>2 DEF IInv, InProducer, Apart, Inside, Slot
<1>9. InConsumer'
  BY <1>1, <1>3, <1>4, <1>5 DEF InConsumer
<1>10. QED
  BY <1>6, <1>7, <1>8, <1>9 DEF IInv

LEMMA StoreFreeStep == ASSUME CapacityAssumption, IInv, StoreFree PROVE IInv'
<1>1. /\ UNCHANGED <<head, tail, data, got, claimed, refused, ppc, pos, item>>
      /\ cpc = "release" /\ cpc' = "advance" /\ popped' = Append(popped, got)
      /\ seq' = [seq EXCEPT ![Slot(head)] = head + Capacity]
      /\ seq \in [0..Capacity-1 -> Nat]
  BY DEF StoreFree, producerVars, IInv, TypeOK
<1>2. Taken' = Taken + 1 /\ Taken = head
  BY <1>1 DEF Taken
<1>3. /\ head < tail /\ ~Unfilled(head) /\ head \in Nat /\ tail \in Nat /\ tail <= head + Capacity
      /\ Capacity \in Nat /\ Capacity >= 2
  BY <1>1, <1>2, Numbers DEF IInv, InConsumer
<1>4. \A n : Unfilled(n)' = Unfilled(n)
  BY <1>1 DEF Unfilled, Inside
<1>5. ASSUME NEW n \in Nat, head + 1 <= n, n < head + Capacity PROVE seq'[Slot(n)] = seq[Slot(n)]
  <2>1. Slot(n) # Slot(head)
    BY <1>3, <1>5, SlotsApart
  <2>2. QED
    BY <1>1, <1>3, <2>1, SlotRange
<1>6. seq'[Slot(head)] = head + Capacity /\ Slot(head + Capacity) = Slot(head)
  BY <1>1, <1>3, SlotRange, SlotAgain
<1>7. TypeOK'
  <2>1. seq' \in [0..Capacity-1 -> Nat]
    <3>1. head + Capacity \in Nat
      BY <1>3
    <3>2. QED
      BY <1>1, <3>1
  <2>2. popped' \in Seq(Items)
    BY <1>1 DEF IInv, TypeOK
  <2>3. QED
    BY <1>1, <2>1, <2>2 DEF IInv, TypeOK
<1>8. Counts'
  <2>1. Len(popped') = head + 1
    BY <1>1, <1>2 DEF IInv, TypeOK, Counts
  <2>2. Len(claimed) = tail
    BY DEF IInv, Counts
  <2>3. QED
    BY <1>1, <1>2, <1>3, <2>1, <2>2 DEF Counts
<1>9. Tickets'
  <2>1. ASSUME NEW n \in Nat, head + 1 <= n, n < head + 1 + Capacity
        PROVE  seq'[Slot(n)] = IF n < tail /\ ~Unfilled(n) THEN n + 1 ELSE n
    <3>1. CASE n = head + Capacity
      BY <1>3, <1>6, <3>1
    <3>2. CASE n # head + Capacity
      <4>1. head <= n /\ n < head + Capacity
        BY <1>3, <2>1, <3>2
      <4>2. seq[Slot(n)] = IF n < tail /\ ~Unfilled(n) THEN n + 1 ELSE n
        BY <1>2, <4>1 DEF IInv, Tickets
      <4>3. QED
        BY <1>5, <2>1, <4>1, <4>2
    <3>3. QED
      BY <3>1, <3>2
  <2>2. QED
    BY <1>1, <1>2, <1>4, <2>1 DEF Tickets, Slot
<1>10. Contents'
  <2>1. \A n \in Nat : head + 1 <= n => head <= n
    BY <1>3
  <2>2. QED
    BY <1>1, <1>2, <1>4, <2>1 DEF IInv, Contents, Slot
<1>11. Passed'
  <2>1. ASSUME NEW n \in Nat, n < head + 1 + Capacity PROVE seq'[Slot(n)] >= n
    <3>1. CASE Slot(n) = Slot(head)
      BY <1>3, <1>6, <2>1, <3>1
    <3>2. CASE Slot(n) # Slot(head)
      <4>1. n # head + Capacity
        BY <1>6, <3>2
      <4>2. n < head + Capacity
        BY <1>3, <2>1, <4>1
      <4>3. seq[Slot(n)] >= n
        BY <1>2, <4>2 DEF IInv, Passed
      <4>4. QED
        BY <1>1, <3>2, <4>3, SlotRange
    <3>3. QED
      BY <3>1, <3>2
  <2>2. QED
    BY <1>1, <1>2, <2>1 DEF Passed, Slot
<1>12. ASSUME NEW q \in Producers PROVE InProducer(q)'
  <2>1. InProducer(q) /\ pos[q] \in Nat
    BY Numbers DEF IInv
  <2>2. Inside(q) => pos[q] # head
    BY <1>3 DEF Unfilled
  <2>3. Inside(q) => head + 1 <= pos[q]
    BY <1>2, <1>3, <2>1, <2>2 DEF InProducer
  <2>4. pos[q] < head + Capacity => pos[q] < head + 1 + Capacity
    BY <1>3, <2>1
  <2>5. QED
    BY <1>1, <1>2, <2>1, <2>3, <2>4 DEF InProducer, Inside, Slot
<1>13. Apart' /\ InConsumer'
  BY <1>1 DEF IInv, Apart, InConsumer, Inside
<1>14. QED
  BY <1>7, <1>8, <1>9, <1>10, <1>11, <1>12, <1>13 DEF IInv

LEMMA ConsumerRest == ASSUME CapacityAssumption, IInv, PopClaim \/ AdvanceHead PROVE IInv'
<1>1. UNCHANGED <<tail, seq, data, got, claimed, popped, refused, ppc, pos, item>>
  BY DEF PopClaim, AdvanceHead, producerVars
<1>2. Taken' = Taken
  BY DEF PopClaim, AdvanceHead, Taken
<1>3. TypeOK'
  BY <1>1 DEF IInv, TypeOK, PopClaim, AdvanceHead
<1>4. \A n : Unfilled(n)' = Unfilled(n)
  BY <1>1 DEF Unfilled, Inside
<1>5. Counts' /\ Tickets' /\ Contents' /\ Passed'
  BY <1>1, <1>2, <1>4 DEF IInv, Counts, Tickets, Contents, Passed, Slot
<1>6. (\A q \in Producers : InProducer(q)') /\ Apart'
  BY <1>1, <1>2 DEF IInv, InProducer, Apart, Inside, Slot
<1>7. InConsumer'
  <2>1. CASE PopClaim
    <3>1. Taken = head /\ ~(seq[Slot(head)] < head + 1) /\ head' = head /\ cpc' = "move"
      BY <2>1 DEF PopClaim, Taken, SlotEmpty
    <3>2. /\ head \in Nat /\ Capacity \in Nat /\ Capacity >= 2 /\ tail \in Nat
          /\ head < head + Capacity /\ head <= head /\ head < head + 1
      BY <3>1, Numbers
    <3>3. seq[Slot(head)] = IF head < tail /\ ~Unfilled(head) THEN head + 1 ELSE head
      BY <3>1, <3>2 DEF IInv, Tickets
    <3>4. head < tail /\ ~Unfilled(head)
      BY <3>1, <3>2, <3>3
    <3>5. QED
      BY <1>1, <1>4, <3>1, <3>4 DEF InConsumer
  <2>2. CASE AdvanceHead
    BY <2>2 DEF AdvanceHead, InConsumer
  <2>3. QED
    BY <2>1, <2>2
<1>8. QED
  BY <1>3, <1>5, <1>6, <1>7 DEF IInv

LEMMA StutterStep == ASSUME IInv, UNCHANGED vars PROVE IInv'
<1>1. UNCHANGED <<head, tail, seq, data, ppc, pos, item, cpc, got, claimed, popped, refused>>
  BY DEF vars, producerVars
<1>2. Taken' = Taken /\ (\A q \in Producers : Inside(q)' = Inside(q)) /\ \A n : Unfilled(n)' = Unfilled(n)
  BY <1>1 DEF Taken, Inside, Unfilled
<1>3. TypeOK' /\ Counts' /\ Tickets' /\ Contents' /\ Passed'
  BY <1>1, <1>2 DEF IInv, TypeOK, Counts, Tickets, Contents, Passed, Slot
<1>4. (\A q \in Producers : InProducer(q)') /\ Apart' /\ InConsumer'
  BY <1>1, <1>2 DEF IInv, InProducer, Apart, InConsumer, Slot
<1>5. QED
  BY <1>3, <1>4 DEF IInv

LEMMA Invariance == ASSUME CapacityAssumption, BoundsAssumption PROVE Spec => []IInv
<1>1. Init => IInv
  BY InitIInv
<1>2. IInv /\ [Next]_vars => IInv'
  <2> SUFFICES ASSUME IInv, [Next]_vars PROVE IInv'
    OBVIOUS
  <2>1. CASE Consumer
    BY <2>1, MoveOutStep, StoreFreeStep, ConsumerRest DEF Consumer
  <2>2. ASSUME NEW p \in Producers, Producer(p) PROVE IInv'
    BY <2>2, ConstructStep, StoreFilledStep, SwapStep, ProducerRest DEF Producer, PushStep
  <2>3. CASE UNCHANGED vars
    BY <2>3, StutterStep
  <2>4. QED
    BY <2>1, <2>2, <2>3 DEF Next
<1>3. QED
  BY <1>1, <1>2, PTL DEF Spec

-------------------------------------------------------------------------------
(* The refinement.  A push is claimed by its swap and filled by the store  *)
(* of its ticket; a pop is the store that frees the slot.                  *)
FilledPositions == {n \in 1..Len(claimed) : ~\E p \in Producers : Inside(p) /\ pos[p] + 1 = n}
FillingOf == [p \in Producers |-> IF Inside(p) THEN {pos[p] + 1} ELSE {}]

LEMMA SwapClaims ==
  ASSUME CapacityAssumption, IInv, NEW p \in Producers, Swap(p) PROVE Claimed!Claim(p, item[p])
<1>1. /\ UNCHANGED <<popped, refused, pos, item>> /\ ppc[p] = "swap" /\ ppc' = [ppc EXCEPT ![p] = "construct"]
      /\ tail = pos[p] /\ claimed' = Append(claimed, item[p])
      /\ ppc \in [Producers -> {"idle", "load", "test", "swap", "construct", "publish"}]
      /\ claimed \in Seq(Items)
  BY DEF Swap, consumerVars, IInv, TypeOK
<1>2. /\ tail < Taken + Capacity /\ Taken \in Nat /\ tail \in Nat /\ Capacity \in Nat /\ item[p] \in Items
      /\ Len(claimed) = tail /\ Len(popped) = Taken
  BY <1>1, Numbers DEF IInv, InProducer, Counts
<1>3. /\ \A q \in Producers : q # p => (Inside(q)' <=> Inside(q))
      /\ Inside(p)' /\ ~Inside(p)
  BY <1>1 DEF Inside
<1>4. Len(claimed') = tail + 1
  BY <1>1, <1>2
<1>5. \A q \in Producers : Inside(q) => pos[q] \in Nat /\ pos[q] < tail
  BY Numbers DEF IInv, InProducer
<1>6. FilledPositions' = FilledPositions
  <2>1. ASSUME NEW n \in 1..(tail + 1)
        PROVE  (\E q \in Producers : Inside(q)' /\ pos'[q] + 1 = n)
                 <=> n = tail + 1 \/ \E q \in Producers : Inside(q) /\ pos[q] + 1 = n
    BY <1>1, <1>2, <1>3, <2>1
  <2>2. ~\E q \in Producers : Inside(q) /\ pos[q] + 1 = tail + 1
    BY <1>2, <1>5
  <2>3. 1..tail = (1..(tail + 1)) \ {tail + 1}
    BY <1>2
  <2>4. \A n : n \in FilledPositions' <=> n \in FilledPositions
    BY <1>2, <1>4, <2>1, <2>2, <2>3 DEF FilledPositions
  <2>5. QED
    BY <2>4 DEF FilledPositions
<1>7. FillingOf' = [FillingOf EXCEPT ![p] = {Len(claimed) + 1}] /\ FillingOf[p] = {}
  BY <1>1, <1>2, <1>3 DEF FillingOf
<1>8. Len(claimed) - Len(popped) < Capacity
  BY <1>2
<1>9. QED
  BY <1>1, <1>6, <1>7, <1>8 DEF Claimed!Claim, Claimed!Outstanding, FilledPositions, FillingOf

LEMMA StoreFills ==
  ASSUME CapacityAssumption, IInv, NEW p \in Producers, StoreFilled(p) PROVE Claimed!Fill(p)
<1>1. /\ UNCHANGED <<claimed, popped, refused, pos>> /\ ppc[p] = "publish" /\ ppc' = [ppc EXCEPT ![p] = "idle"]
      /\ ppc \in [Producers -> {"idle", "load", "test", "swap", "construct", "publish"}]
  BY DEF StoreFilled, consumerVars, IInv, TypeOK
<1>2. /\ pos[p] < tail /\ pos[p] \in Nat /\ tail \in Nat /\ Len(claimed) = tail
  BY <1>1, Numbers DEF IInv, InProducer, Inside, Counts
<1>3. /\ \A q \in Producers : q # p => (Inside(q)' <=> Inside(q))
      /\ ~Inside(p)' /\ Inside(p)
  BY <1>1 DEF Inside
<1>4. \A q \in Producers : Inside(q) /\ pos[q] + 1 = pos[p] + 1 => q = p
  BY <1>2, <1>3, Numbers DEF IInv, Apart
<1>5. FilledPositions' = FilledPositions \cup {pos[p] + 1}
  BY <1>1, <1>2, <1>3, <1>4 DEF FilledPositions
<1>6. FillingOf' = [FillingOf EXCEPT ![p] = {}] /\ FillingOf[p] = {pos[p] + 1}
  BY <1>1, <1>3 DEF FillingOf
<1>7. QED
  BY <1>1, <1>5, <1>6 DEF Claimed!Fill, FilledPositions, FillingOf

LEMMA RefusedWhenFull ==
  ASSUME CapacityAssumption, IInv, NEW p \in Producers, Refuse(p) PROVE Claimed!Refuse(p)
<1>1. /\ UNCHANGED <<claimed, popped, pos>> /\ ppc[p] = "test" /\ ppc' = [ppc EXCEPT ![p] = "idle"]
      /\ seq[Slot(pos[p])] < pos[p] /\ refused' = [refused EXCEPT ![p] = @ + 1]
      /\ ppc \in [Producers -> {"idle", "load", "test", "swap", "construct", "publish"}]
  BY DEF Refuse, consumerVars, IInv, TypeOK
<1>2. /\ pos[p] <= tail /\ pos[p] \in Nat /\ tail <= Taken + Capacity /\ tail \in Nat /\ Taken \in Nat
      /\ Capacity \in Nat /\ Len(claimed) = tail /\ Len(popped) = Taken /\ seq[Slot(pos[p])] \in Nat
  BY <1>1, Numbers DEF IInv, InProducer, Counts
<1>3. ~(pos[p] < Taken + Capacity)
  BY <1>1, <1>2 DEF IInv, Passed
<1>4. Len(claimed) - Len(popped) = Capacity
  BY <1>2, <1>3
<1>5. \A q \in Producers : (Inside(q)' <=> Inside(q)) /\ pos'[q] = pos[q]
  BY <1>1 DEF Inside
<1>6. FilledPositions' = FilledPositions /\ FillingOf' = FillingOf /\ FillingOf[p] = {}
  BY <1>1, <1>5 DEF FilledPositions, FillingOf, Inside
<1>7. QED
  BY <1>1, <1>4, <1>6 DEF Claimed!Refuse, Claimed!Outstanding, FilledPositions, FillingOf

LEMMA StorePops ==
  ASSUME CapacityAssumption, IInv, StoreFree PROVE Claimed!Pop
<1>1. /\ UNCHANGED <<claimed, refused, pos, ppc>> /\ cpc = "release" /\ popped' = Append(popped, got)
  BY DEF StoreFree, producerVars
<1>2. /\ Taken = head /\ head \in Nat /\ head < tail /\ tail \in Nat /\ Len(claimed) = tail /\ Len(popped) = head
      /\ ~Unfilled(head) /\ got = claimed[head + 1]
  BY <1>1, Numbers DEF IInv, InConsumer, Counts, Taken
<1>3. \A q \in Producers : Inside(q) /\ pos[q] + 1 = head + 1 => FALSE
  BY <1>2, Numbers DEF Unfilled
<1>4. Len(popped) + 1 \in FilledPositions
  BY <1>2, <1>3 DEF FilledPositions
<1>5. FilledPositions' = FilledPositions /\ FillingOf' = FillingOf
  BY <1>1 DEF FilledPositions, FillingOf, Inside
<1>6. QED
  BY <1>1, <1>2, <1>4, <1>5 DEF Claimed!Pop, FilledPositions, FillingOf

LEMMA OthersStutter ==
  ASSUME IInv,
         \/ PopClaim \/ MoveOut \/ AdvanceHead \/ UNCHANGED vars
         \/ \E p \in Producers : \/ \E v \in Items : BeginPush(p, v)
                                 \/ LoadTail(p) \/ SlotFree(p) \/ SlotTaken(p) \/ SwapFails(p) \/ Construct(p)
  PROVE  UNCHANGED Claimed!vars
<1>1. UNCHANGED <<claimed, popped, refused>>
  BY DEF PopClaim, MoveOut, AdvanceHead, BeginPush, LoadTail, SlotFree, SlotTaken, SwapFails, Construct,
         producerVars, consumerVars, vars
<1>2. \A q \in Producers : (Inside(q)' <=> Inside(q)) /\ (Inside(q) => pos'[q] = pos[q])
  <2>1. CASE PopClaim \/ MoveOut \/ AdvanceHead \/ UNCHANGED vars
    BY <2>1 DEF PopClaim, MoveOut, AdvanceHead, producerVars, vars, Inside
  <2>2. ASSUME NEW p \in Producers,
               \/ \E v \in Items : BeginPush(p, v)
               \/ LoadTail(p) \/ SlotFree(p) \/ SlotTaken(p) \/ SwapFails(p) \/ Construct(p)
        PROVE  \A q \in Producers : (Inside(q)' <=> Inside(q)) /\ (Inside(q) => pos'[q] = pos[q])
    BY <2>2 DEF BeginPush, LoadTail, SlotFree, SlotTaken, SwapFails, Construct, Inside, IInv, TypeOK
  <2>3. QED
    BY <2>1, <2>2
<1>3. FilledPositions' = FilledPositions /\ FillingOf' = FillingOf
  BY <1>1, <1>2 DEF FilledPositions, FillingOf
<1>4. QED
  BY <1>1, <1>3 DEF Claimed!vars, FilledPositions, FillingOf

(* The queue of many producers implements the queue of claims, on which    *)
(* the event bus is built: items come out once each and in the order in    *)
(* which positions were claimed, and a push is refused only when all are.  *)
THEOREM QueueImplementsClaims ==
  ASSUME CapacityAssumption, BoundsAssumption PROVE Spec => ImplementsClaimQueue
<1>1. Init => Claimed!Init
  <2> SUFFICES ASSUME Init PROVE Claimed!Init
    OBVIOUS
  <2>1. \A q \in Producers : ~Inside(q)
    BY DEF Init, Inside
  <2>2. claimed = <<>> /\ popped = <<>> /\ refused = [p \in Producers |-> 0] /\ Len(<<>>) = 0
    BY DEF Init
  <2>3. FilledPositions = {} /\ FillingOf = [p \in Producers |-> {}]
    BY <2>1, <2>2 DEF FilledPositions, FillingOf
  <2>4. QED
    BY <2>2, <2>3 DEF Claimed!Init, FilledPositions, FillingOf
<1>2. IInv /\ [Next]_vars => [Claimed!Next]_(Claimed!vars)
  <2> SUFFICES ASSUME IInv, [Next]_vars PROVE [Claimed!Next]_(Claimed!vars)
    OBVIOUS
  <2>1. ASSUME NEW p \in Producers, Producer(p) PROVE [Claimed!Next]_(Claimed!vars)
    <3>1. CASE Swap(p)
      <4>1. Claimed!Claim(p, item[p]) /\ item[p] \in Items
        BY <3>1, SwapClaims, Numbers
      <4>2. \E v \in Items : Claimed!Claim(p, v)
        BY <4>1 DEF Claimed!Claim
      <4>3. QED
        BY <4>2 DEF Claimed!Next
    <3>2. CASE StoreFilled(p)
      BY <3>2, StoreFills DEF Claimed!Next
    <3>3. CASE Refuse(p)
      BY <3>3, RefusedWhenFull DEF Claimed!Next
    <3>4. QED
      BY <2>1, <3>1, <3>2, <3>3, OthersStutter DEF Producer, PushStep
  <2>2. CASE StoreFree
    BY <2>2, StorePops DEF Claimed!Next
  <2>3. QED
    BY <2>1, <2>2, OthersStutter DEF Next, Consumer
<1>3. QED
  BY <1>1, <1>2, Invariance, PTL DEF Spec, ImplementsClaimQueue, Claimed!Spec

-------------------------------------------------------------------------------
(* The ring buffer, RingBuffer.                                            *)

RingIn == Len(rPushed)
RingOut == Len(rPopped)

RingTypes ==
  /\ rHead \in Int /\ rTail \in Int
  /\ rBuffer \in [0..(RingSlots - 1) -> Items]
  /\ rPpc \in {"idle", "write", "store"} /\ rCpc \in {"idle", "read", "store"}
  /\ rItem \in Items /\ rGot \in Items
  /\ rPushed \in Seq(Items) /\ rPopped \in Seq(Items)

\* The two indices are those of the counts of items, which differ by less than
\* the number of slots, and by less than that while the producer writes.
RingIndices ==
  /\ rHead = RingOut % RingSlots /\ rTail = RingIn % RingSlots
  /\ RingOut <= RingIn /\ RingIn - RingOut <= RingSlots - 1
  /\ rPpc # "idle" => RingIn - RingOut < RingSlots - 1
  /\ rCpc # "idle" => RingOut < RingIn

RingContents ==
  /\ \A n \in Nat : RingOut <= n /\ n < RingIn => rBuffer[n % RingSlots] = rPushed[n + 1]
  /\ rPpc = "store" => rBuffer[RingIn % RingSlots] = rItem
  /\ rCpc = "store" => rGot = rPushed[RingOut + 1]

RingInv == RingTypes /\ RingIndices /\ RingContents

LEMMA RingNumbers ==
  ASSUME Ring!CapacityAssumption, RingTypes
  PROVE  /\ RingIn \in Nat /\ RingOut \in Nat /\ RingSlots \in Nat \ {0} /\ RingSlots > 1
         /\ \A n \in Nat : n % RingSlots \in 0..(RingSlots - 1)
BY DEF Ring!CapacityAssumption, RingTypes, RingIn, RingOut

LEMMA RingStarts == ASSUME Ring!CapacityAssumption PROVE Ring!Init => RingInv
<1> SUFFICES ASSUME Ring!Init PROVE RingInv
  OBVIOUS
<1>1. RingIn = 0 /\ RingOut = 0 /\ rPushed = <<>> /\ rPopped = <<>>
  BY DEF Ring!Init, RingIn, RingOut
<1>2. RingTypes
  BY <1>1 DEF Ring!Init, RingTypes
<1>3. RingIndices
  BY <1>1, <1>2, RingNumbers DEF Ring!Init, RingIndices
<1>4. RingContents
  BY <1>1 DEF Ring!Init, RingContents
<1>5. QED
  BY <1>2, <1>3, <1>4 DEF RingInv

\* The tests of the two operations compare what they are meant to.
LEMMA FullMeansFull ==
  ASSUME Ring!CapacityAssumption, RingInv
  PROVE  /\ Ring!Full <=> RingIn - RingOut = RingSlots - 1
         /\ rHead = rTail <=> RingIn = RingOut
<1>1. /\ RingIn \in Nat /\ RingOut \in Nat /\ RingSlots \in Nat \ {0} /\ RingSlots > 1
      /\ RingOut <= RingIn /\ RingIn - RingOut <= RingSlots - 1
  BY RingNumbers DEF RingInv, RingIndices
<1>2. rHead = RingOut % RingSlots /\ rTail = RingIn % RingSlots
  BY DEF RingInv, RingIndices
<1>3. Ring!Following(rTail) = (RingIn + 1) % RingSlots
  BY <1>1, <1>2, SlotFollows DEF Ring!Following
<1>4. CASE RingIn - RingOut = RingSlots - 1
  <2>1. RingIn + 1 = RingOut + RingSlots /\ RingOut # RingIn
    BY <1>1, <1>4
  <2>2. (RingIn + 1) % RingSlots = RingOut % RingSlots
    BY <1>1, <2>1, SlotWraps
  <2>3. RingOut % RingSlots # RingIn % RingSlots
    <3>1. RingOut < RingIn /\ RingIn - RingOut < RingSlots
      BY <1>1, <1>4
    <3>2. QED
      BY <1>1, <3>1, SlotsDiffer
  <2>4. QED
    BY <1>2, <1>3, <1>4, <2>1, <2>2, <2>3 DEF Ring!Full
<1>5. CASE RingIn - RingOut # RingSlots - 1
  <2>1. RingOut < RingIn + 1 /\ RingIn + 1 - RingOut < RingSlots /\ RingIn + 1 \in Nat
    BY <1>1, <1>5
  <2>2. RingOut % RingSlots # (RingIn + 1) % RingSlots
    <3>1. \A b \in Nat : RingOut < b /\ b - RingOut < RingSlots => RingOut % RingSlots # b % RingSlots
      BY <1>1, SlotsDiffer
    <3>2. PICK b \in Nat : b = RingIn + 1
      BY <2>1
    <3>3. RingOut % RingSlots # b % RingSlots
      BY <1>1, <2>1, <3>1, <3>2
    <3>4. QED
      BY <3>2, <3>3
  <2>3. RingIn # RingOut => RingOut % RingSlots # RingIn % RingSlots
    <3>1. RingIn # RingOut => RingOut < RingIn /\ RingIn - RingOut < RingSlots
      BY <1>1
    <3>2. QED
      BY <1>1, <3>1, SlotsDiffer
  <2>4. QED
    BY <1>2, <1>3, <1>5, <2>2, <2>3 DEF Ring!Full
<1>6. QED
  BY <1>4, <1>5

-------------------------------------------------------------------------------
LEMMA RingPushKeeps ==
  ASSUME Ring!CapacityAssumption, RingInv,
         Ring!PushFull \/ (\E v \in Items : Ring!BeginPush(v)) \/ Ring!Write
  PROVE  RingInv'
<1>1. /\ rHead' = rHead /\ rTail' = rTail /\ rCpc' = rCpc /\ rGot' = rGot
      /\ rPushed' = rPushed /\ rPopped' = rPopped /\ RingIn' = RingIn /\ RingOut' = RingOut
  BY DEF Ring!PushFull, Ring!BeginPush, Ring!Write, RingIn, RingOut
<1>2. /\ RingIn \in Nat /\ RingOut \in Nat /\ RingSlots \in Nat \ {0} /\ RingSlots > 1
      /\ RingIn % RingSlots \in 0..(RingSlots - 1) /\ RingOut <= RingIn /\ RingIn - RingOut <= RingSlots - 1
  BY RingNumbers DEF RingInv, RingIndices
<1>3. CASE Ring!PushFull
  <2>1. rBuffer' = rBuffer /\ rPpc' = rPpc /\ rItem' = rItem
    BY <1>3 DEF Ring!PushFull
  <2>2. QED
    BY <1>1, <2>1 DEF RingInv, RingTypes, RingIndices, RingContents
<1>4. CASE \E v \in Items : Ring!BeginPush(v)
  <2>1. /\ rBuffer' = rBuffer /\ rPpc' = "write" /\ rItem' \in Items /\ ~Ring!Full
    BY <1>4 DEF Ring!BeginPush
  <2>2. RingIn - RingOut < RingSlots - 1
    BY <1>2, <2>1, FullMeansFull
  <2>3. QED
    BY <1>1, <2>1, <2>2 DEF RingInv, RingTypes, RingIndices, RingContents
<1>5. CASE Ring!Write
  <2>1. /\ rPpc = "write" /\ rPpc' = "store" /\ rItem' = rItem
        /\ rBuffer' = [rBuffer EXCEPT ![RingIn % RingSlots] = rItem]
    BY <1>5 DEF Ring!Write, RingInv, RingIndices
  <2>2. rBuffer \in [0..(RingSlots - 1) -> Items] /\ rItem \in Items /\ RingIn - RingOut < RingSlots - 1
    BY <2>1 DEF RingInv, RingTypes, RingIndices
  <2>3. ASSUME NEW n \in Nat, RingOut <= n, n < RingIn
        PROVE  rBuffer'[n % RingSlots] = rBuffer[n % RingSlots]
    <3>1. n % RingSlots # RingIn % RingSlots
      <4>1. RingIn - n < RingSlots
        BY <1>2, <2>2, <2>3
      <4>2. QED
        BY <1>2, <2>3, <4>1, SlotsDiffer
    <3>2. n % RingSlots \in 0..(RingSlots - 1)
      BY RingNumbers DEF RingInv
    <3>3. QED
      BY <2>1, <2>2, <3>1, <3>2
  <2>4. rBuffer' \in [0..(RingSlots - 1) -> Items] /\ rBuffer'[RingIn % RingSlots] = rItem
    BY <1>2, <2>1, <2>2
  <2>5. RingTypes'
    BY <1>1, <2>1, <2>4 DEF RingInv, RingTypes
  <2>6. RingIndices'
    BY <1>1, <2>1 DEF RingInv, RingIndices
  <2>7. RingContents'
    BY <1>1, <2>1, <2>3, <2>4 DEF RingInv, RingContents
  <2>8. QED
    BY <2>5, <2>6, <2>7 DEF RingInv
<1>6. QED
  BY <1>3, <1>4, <1>5

LEMMA StoreTailKeeps ==
  ASSUME Ring!CapacityAssumption, RingInv, Ring!StoreTail
  PROVE  RingInv'
<1>1. /\ rPpc = "store" /\ rPpc' = "idle" /\ rTail' = Ring!Following(rTail) /\ rPushed' = Append(rPushed, rItem)
      /\ rHead' = rHead /\ rBuffer' = rBuffer /\ rItem' = rItem /\ rCpc' = rCpc /\ rGot' = rGot /\ rPopped' = rPopped
      /\ RingOut' = RingOut
  BY DEF Ring!StoreTail, RingOut
<1>2. /\ RingIn \in Nat /\ RingOut \in Nat /\ RingSlots \in Nat \ {0} /\ RingSlots > 1
      /\ RingIn % RingSlots \in 0..(RingSlots - 1) /\ RingOut <= RingIn /\ RingIn - RingOut < RingSlots - 1
      /\ rPushed \in Seq(Items) /\ rItem \in Items
  BY <1>1, RingNumbers DEF RingInv, RingTypes, RingIndices
<1>3. /\ rPushed' \in Seq(Items) /\ RingIn' = RingIn + 1 /\ rPushed'[RingIn + 1] = rItem
      /\ \A i \in 1..RingIn : rPushed'[i] = rPushed[i]
  BY <1>1, <1>2 DEF RingIn
<1>4. rTail' = RingIn' % RingSlots
  BY <1>1, <1>2, <1>3, SlotFollows DEF Ring!Following, RingInv, RingIndices
<1>5. RingTypes'
  BY <1>1, <1>2, <1>3, <1>4 DEF RingInv, RingTypes, Ring!Following
<1>6. RingIndices'
  BY <1>1, <1>2, <1>3, <1>4 DEF RingInv, RingIndices
<1>7. RingContents'
  <2>1. ASSUME NEW n \in Nat, RingOut <= n, n < RingIn + 1
        PROVE  rBuffer[n % RingSlots] = rPushed'[n + 1]
    <3>1. CASE n = RingIn
      BY <1>1, <1>3, <3>1 DEF RingInv, RingContents
    <3>2. CASE n < RingIn
      <4>1. rBuffer[n % RingSlots] = rPushed[n + 1]
        BY <2>1, <3>2 DEF RingInv, RingContents
      <4>2. n + 1 \in 1..RingIn
        BY <1>2, <3>2
      <4>3. QED
        BY <1>3, <4>1, <4>2
    <3>3. QED
      BY <1>2, <2>1, <3>1, <3>2
  <2>2. rCpc = "store" => rGot = rPushed'[RingOut + 1]
    <3>1. rCpc = "store" => RingOut + 1 \in 1..RingIn
      BY <1>2 DEF RingInv, RingIndices
    <3>2. QED
      BY <1>3, <3>1 DEF RingInv, RingContents
  <2>3. QED
    BY <1>1, <1>3, <2>1, <2>2 DEF RingContents
<1>8. QED
  BY <1>5, <1>6, <1>7 DEF RingInv

LEMMA RingPopKeeps ==
  ASSUME Ring!CapacityAssumption, RingInv, Ring!PopEmpty \/ Ring!BeginPop \/ Ring!Read
  PROVE  RingInv'
<1>1. /\ rHead' = rHead /\ rTail' = rTail /\ rBuffer' = rBuffer /\ rPpc' = rPpc /\ rItem' = rItem
      /\ rPushed' = rPushed /\ rPopped' = rPopped /\ RingIn' = RingIn /\ RingOut' = RingOut
  BY DEF Ring!PopEmpty, Ring!BeginPop, Ring!Read, RingIn, RingOut
<1>2. /\ RingIn \in Nat /\ RingOut \in Nat /\ RingSlots \in Nat \ {0}
      /\ RingOut % RingSlots \in 0..(RingSlots - 1) /\ RingOut <= RingIn
  BY RingNumbers DEF RingInv, RingIndices
<1>3. CASE Ring!PopEmpty
  <2>1. rCpc' = rCpc /\ rGot' = rGot
    BY <1>3 DEF Ring!PopEmpty
  <2>2. QED
    BY <1>1, <2>1 DEF RingInv, RingTypes, RingIndices, RingContents
<1>4. CASE Ring!BeginPop
  <2>1. rCpc' = "read" /\ rGot' = rGot /\ rHead # rTail
    BY <1>4 DEF Ring!BeginPop
  <2>2. RingOut < RingIn
    BY <1>2, <2>1, FullMeansFull
  <2>3. QED
    BY <1>1, <2>1, <2>2 DEF RingInv, RingTypes, RingIndices, RingContents
<1>5. CASE Ring!Read
  <2>1. rCpc = "read" /\ rCpc' = "store" /\ rGot' = rBuffer[RingOut % RingSlots]
    BY <1>5 DEF Ring!Read, RingInv, RingIndices
  <2>2. RingOut < RingIn /\ rBuffer \in [0..(RingSlots - 1) -> Items]
    BY <2>1 DEF RingInv, RingTypes, RingIndices
  <2>3. rGot' \in Items /\ rGot' = rPushed[RingOut + 1]
    <3>1. rBuffer[RingOut % RingSlots] = rPushed[RingOut + 1]
      <4>1. \A n \in Nat : RingOut <= n /\ n < RingIn => rBuffer[n % RingSlots] = rPushed[n + 1]
        BY DEF RingInv, RingContents
      <4>2. RingOut \in Nat /\ RingOut <= RingOut /\ RingOut < RingIn
        BY <1>2, <2>2
      <4>3. QED
        BY <4>1, <4>2
    <3>2. QED
      BY <1>2, <2>1, <2>2, <3>1
  <2>4. QED
    BY <1>1, <2>1, <2>2, <2>3 DEF RingInv, RingTypes, RingIndices, RingContents
<1>6. QED
  BY <1>3, <1>4, <1>5

LEMMA StoreHeadKeeps ==
  ASSUME Ring!CapacityAssumption, RingInv, Ring!StoreHead
  PROVE  RingInv'
<1>1. /\ rCpc = "store" /\ rCpc' = "idle" /\ rHead' = Ring!Following(rHead) /\ rPopped' = Append(rPopped, rGot)
      /\ rTail' = rTail /\ rBuffer' = rBuffer /\ rPpc' = rPpc /\ rItem' = rItem /\ rGot' = rGot /\ rPushed' = rPushed
      /\ RingIn' = RingIn
  BY DEF Ring!StoreHead, RingIn
<1>2. /\ RingIn \in Nat /\ RingOut \in Nat /\ RingSlots \in Nat \ {0} /\ RingSlots > 1
      /\ RingOut < RingIn /\ RingIn - RingOut <= RingSlots - 1 /\ rPopped \in Seq(Items) /\ rGot \in Items
  BY <1>1, RingNumbers DEF RingInv, RingTypes, RingIndices
<1>3. rPopped' \in Seq(Items) /\ RingOut' = RingOut + 1
  BY <1>1, <1>2 DEF RingOut
<1>4. rHead' = RingOut' % RingSlots
  BY <1>1, <1>2, <1>3, SlotFollows DEF Ring!Following, RingInv, RingIndices
<1>5. RingTypes'
  <2>1. rHead' \in Int
    BY <1>2, <1>3, <1>4
  <2>2. QED
    BY <1>1, <1>2, <1>3, <2>1 DEF RingInv, RingTypes
<1>6. RingIndices'
  BY <1>1, <1>2, <1>3, <1>4 DEF RingInv, RingIndices
<1>7. RingContents'
  <2>1. ASSUME NEW n \in Nat, RingOut + 1 <= n, n < RingIn
        PROVE  rBuffer[n % RingSlots] = rPushed[n + 1]
    <3>1. RingOut <= n
      BY <1>2, <2>1
    <3>2. QED
      BY <2>1, <3>1 DEF RingInv, RingContents
  <2>2. QED
    BY <1>1, <1>3, <2>1 DEF RingInv, RingContents
<1>8. QED
  BY <1>5, <1>6, <1>7 DEF RingInv

LEMMA RingInvariance == ASSUME Ring!CapacityAssumption PROVE Ring!Spec => []RingInv
<1>1. Ring!Init => RingInv
  BY RingStarts
<1>2. RingInv /\ [Ring!Next]_(Ring!vars) => RingInv'
  <2>1. RingInv /\ UNCHANGED Ring!vars => RingInv'
    BY DEF Ring!vars, RingInv, RingTypes, RingIndices, RingContents, RingIn, RingOut
  <2>2. QED
    BY <2>1, RingPushKeeps, StoreTailKeeps, RingPopKeeps, StoreHeadKeeps DEF Ring!Next
<1>3. QED
  BY <1>1, <1>2, PTL DEF Ring!Spec

-------------------------------------------------------------------------------
(* The ring buffer is a first-in-first-out queue: every item pushed comes  *)
(* out once and in order, a push is refused only when all slots but one    *)
(* are taken, and a pop only when nothing is waiting.                      *)
THEOREM RingIsFifo == ASSUME Ring!CapacityAssumption PROVE Ring!Spec => ImplementsFifo
<1>1. Ring!Init => Ring!Fifo!Init
  BY DEF Ring!Init, Ring!Fifo!Init
<1>2. RingInv /\ [Ring!Next]_(Ring!vars) => [Ring!Fifo!Next]_(Ring!Fifo!vars)
  <2> SUFFICES ASSUME RingInv, [Ring!Next]_(Ring!vars) PROVE [Ring!Fifo!Next]_(Ring!Fifo!vars)
    OBVIOUS
  <2>1. /\ RingIn \in Nat /\ RingOut \in Nat /\ RingSlots \in Nat \ {0} /\ RingSlots > 1
        /\ Ring!Fifo!Length = RingIn - RingOut
    BY RingNumbers DEF RingInv, Ring!Fifo!Length, RingIn, RingOut
  <2>2. CASE Ring!PushFull
    <3>1. Ring!Fifo!Length = RingSlots - 1
      BY <2>1, <2>2, FullMeansFull DEF Ring!PushFull
    <3>2. Ring!Fifo!RefusePush
      BY <2>2, <3>1 DEF Ring!PushFull, Ring!Fifo!RefusePush
    <3>3. QED
      BY <3>2 DEF Ring!Fifo!Next
  <2>3. CASE Ring!StoreTail
    <3>1. Ring!Fifo!Length < RingSlots - 1 /\ rItem \in Items
      BY <2>1, <2>3 DEF Ring!StoreTail, RingInv, RingTypes, RingIndices
    <3>2. \E v \in Items : Ring!Fifo!Push(v)
      BY <2>3, <3>1 DEF Ring!StoreTail, Ring!Fifo!Push
    <3>3. QED
      BY <3>2 DEF Ring!Fifo!Next
  <2>4. CASE Ring!PopEmpty
    <3>1. Ring!Fifo!Length = 0
      BY <2>1, <2>4, FullMeansFull DEF Ring!PopEmpty
    <3>2. Ring!Fifo!RefusePop
      BY <2>4, <3>1 DEF Ring!PopEmpty, Ring!Fifo!RefusePop
    <3>3. QED
      BY <3>2 DEF Ring!Fifo!Next
  <2>5. CASE Ring!StoreHead
    <3>1. Ring!Fifo!Length > 0 /\ rGot = rPushed[Len(rPopped) + 1]
      BY <2>1, <2>5 DEF Ring!StoreHead, RingInv, RingIndices, RingContents, RingOut
    <3>2. Ring!Fifo!Pop
      BY <2>5, <3>1 DEF Ring!StoreHead, Ring!Fifo!Pop
    <3>3. QED
      BY <3>2 DEF Ring!Fifo!Next
  <2>6. CASE (\E v \in Items : Ring!BeginPush(v)) \/ Ring!Write \/ Ring!BeginPop \/ Ring!Read \/ UNCHANGED Ring!vars
    BY <2>6 DEF Ring!BeginPush, Ring!Write, Ring!BeginPop, Ring!Read, Ring!vars, Ring!Fifo!vars
  <2>7. QED
    BY <2>2, <2>3, <2>4, <2>5, <2>6 DEF Ring!Next
<1>3. QED
  BY <1>1, <1>2, RingInvariance, PTL DEF ImplementsFifo, Ring!ImplementsFifo, Ring!Spec, Ring!Fifo!Spec

-------------------------------------------------------------------------------
(* The object pools, ObjectPool.                                           *)

(* What the provers need to know of lists without repetition.              *)
LEMMA TailSet ==
  ASSUME NEW S, NEW s \in Seq(S), s # <<>>, Pool!IsInjective(s)
  PROVE  /\ Tail(s) \in Seq(S) /\ Len(Tail(s)) = Len(s) - 1 /\ Len(s) \in Nat \ {0}
         /\ Head(s) \in S /\ Head(s) \in Pool!ToSet(s)
         /\ Pool!IsInjective(Tail(s)) /\ Pool!ToSet(Tail(s)) = Pool!ToSet(s) \ {Head(s)}
<1>1. /\ Head(s) \in S /\ Tail(s) \in Seq(S) /\ Len(Tail(s)) = Len(s) - 1
      /\ \A i \in 1..Len(Tail(s)) : Tail(s)[i] = s[i + 1]
  BY HeadTailProperties
<1>2. Len(s) \in Nat \ {0} /\ DOMAIN s = 1..Len(s) /\ DOMAIN Tail(s) = 1..Len(Tail(s)) /\ Head(s) = s[1]
  BY <1>1, EmptySeq, LenProperties
<1>3. \A i, j \in 1..Len(s) : s[i] = s[j] => i = j
  BY <1>2 DEF Pool!IsInjective
<1>4. Head(s) \in Pool!ToSet(s)
  BY <1>2 DEF Pool!ToSet
<1>5. Pool!IsInjective(Tail(s))
  <2>1. ASSUME NEW i \in 1..Len(Tail(s)), NEW j \in 1..Len(Tail(s)), Tail(s)[i] = Tail(s)[j] PROVE i = j
    <3>1. i + 1 \in 1..Len(s) /\ j + 1 \in 1..Len(s)
      BY <1>1, <1>2
    <3>2. s[i + 1] = s[j + 1]
      BY <1>1, <2>1
    <3>3. i + 1 = j + 1
      BY <1>3, <3>1, <3>2
    <3>4. QED
      BY <3>3
  <2>2. QED
    BY <1>2, <2>1 DEF Pool!IsInjective
<1>6. ASSUME NEW x PROVE x \in Pool!ToSet(Tail(s)) <=> x \in Pool!ToSet(s) /\ x # Head(s)
  <2>1. ASSUME NEW i \in 1..Len(Tail(s)), Tail(s)[i] = x PROVE x \in Pool!ToSet(s) /\ x # Head(s)
    <3>1. i + 1 \in 1..Len(s) /\ i + 1 # 1 /\ 1 \in 1..Len(s) /\ s[i + 1] = x
      BY <1>1, <1>2, <2>1
    <3>2. s[i + 1] # s[1]
      BY <1>3, <3>1
    <3>3. QED
      BY <1>2, <3>1, <3>2 DEF Pool!ToSet
  <2>2. ASSUME NEW i \in 1..Len(s), s[i] = x, x # Head(s) PROVE x \in Pool!ToSet(Tail(s))
    <3>1. i # 1
      BY <1>2, <2>2
    <3>2. i - 1 \in 1..Len(Tail(s)) /\ (i - 1) + 1 = i
      BY <1>1, <1>2, <3>1
    <3>3. Tail(s)[i - 1] = x
      BY <1>1, <2>2, <3>2
    <3>4. QED
      BY <1>2, <3>2, <3>3 DEF Pool!ToSet
  <2>3. QED
    BY <1>2, <2>1, <2>2 DEF Pool!ToSet
<1>7. QED
  BY <1>1, <1>2, <1>4, <1>5, <1>6

LEMMA ConcatSet ==
  ASSUME NEW S, NEW s \in Seq(S), NEW u \in Seq(S), Pool!IsInjective(s), Pool!IsInjective(u),
         Pool!ToSet(s) \cap Pool!ToSet(u) = {}
  PROVE  /\ s \o u \in Seq(S) /\ Len(s \o u) = Len(s) + Len(u)
         /\ Pool!IsInjective(s \o u) /\ Pool!ToSet(s \o u) = Pool!ToSet(s) \cup Pool!ToSet(u)
<1> DEFINE w == s \o u
<1>1. /\ w \in Seq(S) /\ Len(w) = Len(s) + Len(u)
      /\ \A i \in 1..(Len(s) + Len(u)) : w[i] = IF i <= Len(s) THEN s[i] ELSE u[i - Len(s)]
  BY ConcatProperties
<1>2. /\ Len(s) \in Nat /\ DOMAIN s = 1..Len(s) /\ Len(u) \in Nat /\ DOMAIN u = 1..Len(u)
      /\ DOMAIN w = 1..(Len(s) + Len(u))
  BY <1>1, LenProperties
<1> HIDE DEF w
<1>3. /\ \A i \in 1..Len(s) : i \in DOMAIN w /\ w[i] = s[i] /\ s[i] \in Pool!ToSet(s)
      /\ \A i \in 1..Len(u) : Len(s) + i \in DOMAIN w /\ w[Len(s) + i] = u[i] /\ u[i] \in Pool!ToSet(u)
  <2>1. \A i \in 1..Len(s) : i \in 1..(Len(s) + Len(u)) /\ i <= Len(s)
    BY <1>2
  <2>2. \A i \in 1..Len(u) : Len(s) + i \in 1..(Len(s) + Len(u)) /\ ~(Len(s) + i <= Len(s)) /\ (Len(s) + i) - Len(s) = i
    BY <1>2
  <2>3. QED
    BY <1>1, <1>2, <2>1, <2>2 DEF Pool!ToSet
<1>4. \A i \in DOMAIN w : i \in 1..Len(s) \/ \E j \in 1..Len(u) : i = Len(s) + j
  <2>1. ASSUME NEW i \in 1..(Len(s) + Len(u)), i \notin 1..Len(s) PROVE \E j \in 1..Len(u) : i = Len(s) + j
    <3>1. i - Len(s) \in 1..Len(u) /\ i = Len(s) + (i - Len(s))
      BY <1>2, <2>1
    <3>2. QED
      BY <3>1
  <2>2. QED
    BY <1>2, <2>1
<1>5. Pool!IsInjective(w)
  <2>1. ASSUME NEW i \in DOMAIN w, NEW j \in DOMAIN w, w[i] = w[j] PROVE i = j
    <3>1. CASE i \in 1..Len(s) /\ j \in 1..Len(s)
      BY <1>2, <1>3, <2>1, <3>1 DEF Pool!IsInjective
    <3>2. CASE i \in 1..Len(s) /\ j \notin 1..Len(s)
      BY <1>3, <1>4, <2>1, <3>2
    <3>3. CASE i \notin 1..Len(s) /\ j \in 1..Len(s)
      BY <1>3, <1>4, <2>1, <3>3
    <3>4. CASE i \notin 1..Len(s) /\ j \notin 1..Len(s)
      <4>1. PICK k \in 1..Len(u) : i = Len(s) + k
        BY <1>4, <3>4
      <4>2. PICK l \in 1..Len(u) : j = Len(s) + l
        BY <1>4, <3>4
      <4>3. u[k] = u[l]
        BY <1>3, <2>1, <4>1, <4>2
      <4>4. QED
        BY <1>2, <4>1, <4>2, <4>3 DEF Pool!IsInjective
    <3>5. QED
      BY <3>1, <3>2, <3>3, <3>4
  <2>2. QED
    BY <2>1 DEF Pool!IsInjective
<1>6. Pool!ToSet(w) = Pool!ToSet(s) \cup Pool!ToSet(u)
  <2>1. Pool!ToSet(w) \subseteq Pool!ToSet(s) \cup Pool!ToSet(u)
    <3>1. \A i \in DOMAIN w : w[i] \in Pool!ToSet(s) \cup Pool!ToSet(u)
      BY <1>3, <1>4
    <3>2. QED
      BY <3>1 DEF Pool!ToSet
  <2>2. Pool!ToSet(s) \subseteq Pool!ToSet(w)
    BY <1>2, <1>3 DEF Pool!ToSet
  <2>3. Pool!ToSet(u) \subseteq Pool!ToSet(w)
    BY <1>2, <1>3 DEF Pool!ToSet
  <2>4. QED
    BY <2>1, <2>2, <2>3
<1>7. QED
  BY <1>1, <1>5, <1>6 DEF w

LEMMA OneSet ==
  ASSUME NEW S, NEW x \in S
  PROVE  /\ <<x>> \in Seq(S) /\ Len(<<x>>) = 1
         /\ Pool!IsInjective(<<x>>) /\ Pool!ToSet(<<x>>) = {x}
BY DEF Pool!IsInjective, Pool!ToSet

LEMMA InjectiveLen ==
  ASSUME NEW N \in Nat, NEW s \in Seq(Nat), Pool!IsInjective(s), Pool!ToSet(s) \subseteq 1..N
  PROVE  Len(s) <= N
<1>1. Len(s) \in Nat /\ DOMAIN s = 1..Len(s) /\ s \in [1..Len(s) -> 1..N]
  BY LenProperties DEF Pool!ToSet
<1>2. 1 \in Int /\ N \in Int /\ Len(s) \in Int
  BY <1>1
<1>3. /\ IsFiniteSet(1..N) /\ Cardinality(1..N) = IF 1 > N THEN 0 ELSE N - 1 + 1
      /\ IsFiniteSet(1..Len(s)) /\ Cardinality(1..Len(s)) = IF 1 > Len(s) THEN 0 ELSE Len(s) - 1 + 1
  BY <1>2, FS_Interval
<1>4. Cardinality(1..N) = N /\ Cardinality(1..Len(s)) = Len(s)
  BY <1>1, <1>3
<1>5. ASSUME N < Len(s) PROVE FALSE
  <2>1. \E i, j \in 1..Len(s) : i # j /\ s[i] = s[j]
    BY <1>1, <1>3, <1>4, <1>5, FS_PigeonHole
  <2>2. QED
    BY <1>1, <2>1 DEF Pool!IsInjective
<1>6. QED
  BY <1>1, <1>5

(* The number of objects in n blocks.                                      *)
Objects(n) == n * PoolBlock

(* The list of the objects of new blocks: those numbers, each once.        *)
LEMMA BlocksAfterSet ==
  ASSUME Pool!PoolAssumption, NEW m \in Nat, NEW n \in Nat
  PROVE  /\ Objects(m) \in Nat /\ Objects(n) \in Nat /\ Objects(m + n) = Objects(m) + Objects(n)
         /\ Pool!BlocksAfter(m, n) \in Seq(Nat) /\ Len(Pool!BlocksAfter(m, n)) = Objects(n)
         /\ Pool!IsInjective(Pool!BlocksAfter(m, n))
         /\ Pool!ToSet(Pool!BlocksAfter(m, n)) = (Objects(m) + 1)..Objects(m + n)
<1> DEFINE r == Pool!BlocksAfter(m, n)
           a == Objects(m)
           b == Objects(n)
<1>1. PoolBlock \in Nat
  BY DEF Pool!PoolAssumption
<1>2. a \in Nat /\ b \in Nat /\ Objects(m + n) = a + b
  BY <1>1 DEF Objects
<1>3. r = [i \in 1..b |-> a + b - i + 1]
  BY <1>2 DEF Pool!BlocksAfter, Objects
<1> HIDE DEF r, a, b
<1>4. r \in Seq(Nat) /\ Len(r) = b
  BY <1>2, <1>3
<1>5. Pool!IsInjective(r)
  <2>1. \A i, j \in 1..b : a + b - i + 1 = a + b - j + 1 => i = j
    BY <1>2
  <2>2. QED
    BY <1>3, <2>1 DEF Pool!IsInjective
<1>6. Pool!ToSet(r) = (a + 1)..(a + b)
  <2>1. \A i \in 1..b : a + b - i + 1 \in (a + 1)..(a + b)
    BY <1>2
  <2>2. \A x \in (a + 1)..(a + b) : a + b - x + 1 \in 1..b /\ a + b - (a + b - x + 1) + 1 = x
    BY <1>2
  <2>3. Pool!ToSet(r) \subseteq (a + 1)..(a + b)
    BY <1>3, <2>1 DEF Pool!ToSet
  <2>4. (a + 1)..(a + b) \subseteq Pool!ToSet(r)
    BY <1>3, <2>2 DEF Pool!ToSet
  <2>5. QED
    BY <2>3, <2>4
<1>7. QED
  BY <1>2, <1>4, <1>5, <1>6 DEF r, a, b

(* Each of the objects 1..N is in one place: held, or once in one list.    *)
Placed(f, taken, N) ==
  /\ f \in [Threads -> Seq(Nat)]
  /\ \A t \in Threads : Pool!IsInjective(f[t])
  /\ \A t, u \in Threads : t # u => Pool!ToSet(f[t]) \cap Pool!ToSet(f[u]) = {}
  /\ \A t \in Threads : Pool!ToSet(f[t]) \cap taken = {}
  /\ \A x : x \in 1..N <=> x \in taken \/ \E t \in Threads : x \in Pool!ToSet(f[t])

(* r put in front of the list of t.                                        *)
Pushed(g, f, t, r) == g = [f EXCEPT ![t] = r \o f[t]]

LEMMA GrowKeepsPlaces ==
  ASSUME NEW f, NEW l, NEW a \in Nat, NEW b \in Nat, NEW t \in Threads, Placed(f, l, a),
         NEW r \in Seq(Nat), Len(r) = b, Pool!IsInjective(r), Pool!ToSet(r) = (a + 1)..(a + b),
         NEW g, Pushed(g, f, t, r)
  PROVE  Placed(g, l, a + b) /\ Len(g[t]) = Len(f[t]) + b
<1>1. /\ a \in Nat /\ b \in Nat
      /\ r \in Seq(Nat) /\ Len(r) = b /\ Pool!IsInjective(r) /\ Pool!ToSet(r) = (a + 1)..(a + b)
  OBVIOUS
<1>2. /\ f \in [Threads -> Seq(Nat)] /\ g = [f EXCEPT ![t] = r \o f[t]]
      /\ \A u \in Threads : Pool!IsInjective(f[u])
      /\ \A u, v \in Threads : u # v => Pool!ToSet(f[u]) \cap Pool!ToSet(f[v]) = {}
      /\ \A u \in Threads : Pool!ToSet(f[u]) \cap l = {}
      /\ \A x : x \in 1..a <=> x \in l \/ \E u \in Threads : x \in Pool!ToSet(f[u])
  BY DEF Placed, Pushed
<1>4. \A x : x \in (a + 1)..(a + b) => x \notin 1..a
  BY <1>1
<1>5. \A x : x \in 1..(a + b) <=> x \in 1..a \/ x \in (a + 1)..(a + b)
  BY <1>1
<1>6. \A u \in Threads : Pool!ToSet(r) \cap Pool!ToSet(f[u]) = {}
  BY <1>1, <1>2, <1>4
<1>7. /\ r \o f[t] \in Seq(Nat) /\ Len(r \o f[t]) = b + Len(f[t])
      /\ Pool!IsInjective(r \o f[t]) /\ Pool!ToSet(r \o f[t]) = Pool!ToSet(r) \cup Pool!ToSet(f[t])
  <2>1. /\ r \in Seq(Nat) /\ Pool!IsInjective(r) /\ f[t] \in Seq(Nat) /\ Pool!IsInjective(f[t])
        /\ Pool!ToSet(r) \cap Pool!ToSet(f[t]) = {} /\ Len(r) = b
    BY <1>1, <1>2, <1>6
  <2>2. QED
    BY ZenonT(60), <2>1, ConcatSet
<1>8. g \in [Threads -> Seq(Nat)] /\ g[t] = r \o f[t] /\ \A u \in Threads \ {t} : g[u] = f[u]
  <2>1. f \in [Threads -> Seq(Nat)] /\ g = [f EXCEPT ![t] = r \o f[t]] /\ r \o f[t] \in Seq(Nat)
    BY <1>2, <1>7
  <2> HIDE DEF Placed
  <2>2. QED
    BY <2>1
<1>9. \A u \in Threads : Pool!ToSet(g[u]) = IF u = t THEN Pool!ToSet(r) \cup Pool!ToSet(f[t]) ELSE Pool!ToSet(f[u])
  BY <1>7, <1>8
<1>10. \A u \in Threads : Pool!IsInjective(g[u])
  BY <1>2, <1>7, <1>8
<1>11. \A u, v \in Threads : u # v => Pool!ToSet(g[u]) \cap Pool!ToSet(g[v]) = {}
  <2>1. ASSUME NEW u \in Threads, NEW v \in Threads, u # v PROVE Pool!ToSet(g[u]) \cap Pool!ToSet(g[v]) = {}
    <3>1. CASE u # t /\ v # t
      BY <1>2, <1>9, <2>1, <3>1
    <3>2. CASE u = t
      BY <1>2, <1>6, <1>9, <2>1, <3>2
    <3>3. CASE v = t
      BY <1>2, <1>6, <1>9, <2>1, <3>3
    <3>4. QED
      BY <3>1, <3>2, <3>3
  <2>2. QED
    BY <2>1
<1>12. \A u \in Threads : Pool!ToSet(g[u]) \cap l = {}
  <2>1. Pool!ToSet(r) \cap l = {}
    BY <1>1, <1>2, <1>4
  <2>2. QED
    BY <1>2, <1>9, <2>1
<1>13. \A x : x \in 1..(a + b) <=> x \in l \/ \E u \in Threads : x \in Pool!ToSet(g[u])
  BY <1>1, <1>2, <1>5, <1>9
<1>14. Len(f[t]) \in Nat
  BY <1>2, LenProperties
<1>15. Len(g[t]) = Len(f[t]) + b
  BY <1>1, <1>7, <1>8, <1>14
<1>16. Placed(g, l, a + b)
  BY <1>8, <1>10, <1>11, <1>12, <1>13 DEF Placed
<1>17. QED
  BY <1>15, <1>16 

(* The list of t grew by n.                                                 *)
Longer(g, f, t, n) == Len(g[t]) = Len(f[t]) + n

LEMMA BlocksArePlaced ==
  ASSUME Pool!PoolAssumption, NEW f, NEW l, NEW t \in Threads, NEW m \in Nat, NEW n \in Nat, Placed(f, l, Objects(m)),
         NEW g, Pushed(g, f, t, Pool!BlocksAfter(m, n))
  PROVE  Placed(g, l, Objects(m + n)) /\ Longer(g, f, t, Objects(n))
<1> DEFINE r == Pool!BlocksAfter(m, n)
           a == Objects(m)
           b == Objects(n)
<1>1. /\ a \in Nat /\ b \in Nat /\ Objects(m + n) = a + b
      /\ r \in Seq(Nat) /\ Len(r) = b /\ Pool!IsInjective(r) /\ Pool!ToSet(r) = (a + 1)..Objects(m + n)
      /\ Placed(f, l, a) /\ Pushed(g, f, t, r)
  BY BlocksAfterSet
<1> HIDE DEF r, a, b
<1>2. Pool!ToSet(r) = (a + 1)..(a + b)
  BY <1>1
<1>3. Placed(g, l, a + b) /\ Len(g[t]) = Len(f[t]) + b
  BY <1>1, <1>2, GrowKeepsPlaces
<1>4. QED
  BY <1>1, <1>3 DEF b, Longer

LEMMA TakeKeepsPlaces ==
  ASSUME NEW f, NEW l, NEW N, NEW t \in Threads, Placed(f, l, N), f[t] # <<>>
  PROVE  LET g == [f EXCEPT ![t] = Tail(f[t])] IN
         Placed(g, l \cup {Head(f[t])}, N) /\ Len(g[t]) = Len(f[t]) - 1
<1> DEFINE g == [f EXCEPT ![t] = Tail(f[t])]
<1>1. /\ f \in [Threads -> Seq(Nat)]
      /\ \A u \in Threads : Pool!IsInjective(f[u])
      /\ \A u, v \in Threads : u # v => Pool!ToSet(f[u]) \cap Pool!ToSet(f[v]) = {}
      /\ \A u \in Threads : Pool!ToSet(f[u]) \cap l = {}
      /\ \A x : x \in 1..N <=> x \in l \/ \E u \in Threads : x \in Pool!ToSet(f[u])
  BY DEF Placed
<1>2. /\ Tail(f[t]) \in Seq(Nat) /\ Len(Tail(f[t])) = Len(f[t]) - 1
      /\ Head(f[t]) \in Pool!ToSet(f[t])
      /\ Pool!IsInjective(Tail(f[t])) /\ Pool!ToSet(Tail(f[t])) = Pool!ToSet(f[t]) \ {Head(f[t])}
  BY <1>1, TailSet
<1>3. g \in [Threads -> Seq(Nat)] /\ g[t] = Tail(f[t]) /\ \A u \in Threads \ {t} : g[u] = f[u]
  BY <1>1, <1>2
<1> DEFINE h == Head(f[t])
<1> HIDE DEF g, h
<1>4. \A u \in Threads : Pool!ToSet(g[u]) = IF u = t THEN Pool!ToSet(f[t]) \ {h} ELSE Pool!ToSet(f[u])
  BY <1>2, <1>3 DEF h
<1>5. h \in Pool!ToSet(f[t])
  BY <1>2 DEF h
<1>6. \A u \in Threads : Pool!IsInjective(g[u])
  BY <1>1, <1>2, <1>3
<1>7. \A u, v \in Threads : u # v => Pool!ToSet(g[u]) \cap Pool!ToSet(g[v]) = {}
  <2>1. \A u \in Threads : Pool!ToSet(g[u]) \subseteq Pool!ToSet(f[u])
    BY <1>4
  <2>2. QED
    BY <1>1, <2>1
<1>8. \A u \in Threads : Pool!ToSet(g[u]) \cap (l \cup {h}) = {}
  BY <1>1, <1>4, <1>5
<1>9. \A x : x \in 1..N <=> x \in l \cup {h} \/ \E u \in Threads : x \in Pool!ToSet(g[u])
  BY <1>1, <1>4, <1>5
<1>10. QED
  BY <1>2, <1>3, <1>6, <1>7, <1>8, <1>9 DEF Placed, g, h

LEMMA GiveKeepsPlaces ==
  ASSUME NEW f, NEW l, NEW N \in Nat, NEW t \in Threads, Placed(f, l, N), NEW x \in l,
         NEW g, Pushed(g, f, t, <<x>>)
  PROVE  Placed(g, l \ {x}, N) /\ Len(g[t]) = Len(f[t]) + 1
<1>1. /\ f \in [Threads -> Seq(Nat)]
      /\ \A u \in Threads : Pool!IsInjective(f[u])
      /\ \A u, v \in Threads : u # v => Pool!ToSet(f[u]) \cap Pool!ToSet(f[v]) = {}
      /\ \A u \in Threads : Pool!ToSet(f[u]) \cap l = {}
      /\ \A y : y \in 1..N <=> y \in l \/ \E u \in Threads : y \in Pool!ToSet(f[u])
  BY DEF Placed
<1>2. x \in 1..N /\ x \in Nat
  BY <1>1
<1> DEFINE w == <<x>>
<1>3. /\ w \in Seq(Nat) /\ Len(w) = 1
      /\ Pool!IsInjective(w) /\ Pool!ToSet(w) = {x}
  BY <1>2, OneSet
<1> HIDE DEF w
<1>4. \A u \in Threads : x \notin Pool!ToSet(f[u])
  BY <1>1
<1>5. /\ w \o f[t] \in Seq(Nat) /\ Len(w \o f[t]) = 1 + Len(f[t])
      /\ Pool!IsInjective(w \o f[t]) /\ Pool!ToSet(w \o f[t]) = {x} \cup Pool!ToSet(f[t])
  <2>1. /\ w \in Seq(Nat) /\ Pool!IsInjective(w) /\ f[t] \in Seq(Nat) /\ Pool!IsInjective(f[t])
        /\ Pool!ToSet(w) \cap Pool!ToSet(f[t]) = {}
    BY <1>1, <1>3, <1>4
  <2>2. QED
    <3>1. /\ w \o f[t] \in Seq(Nat) /\ Len(w \o f[t]) = Len(w) + Len(f[t])
          /\ Pool!IsInjective(w \o f[t]) /\ Pool!ToSet(w \o f[t]) = Pool!ToSet(w) \cup Pool!ToSet(f[t])
      BY <2>1, ConcatSet
    <3>2. QED
      BY <1>3, <3>1
<1>6. g \in [Threads -> Seq(Nat)] /\ g[t] = w \o f[t] /\ \A u \in Threads \ {t} : g[u] = f[u]
  BY <1>1, <1>5 DEF w, Pushed
<1>7. \A u \in Threads : Pool!ToSet(g[u]) = IF u = t THEN {x} \cup Pool!ToSet(f[t]) ELSE Pool!ToSet(f[u])
  BY <1>5, <1>6
<1>8. \A u \in Threads : Pool!IsInjective(g[u])
  BY <1>1, <1>5, <1>6
<1>9. \A u, v \in Threads : u # v => Pool!ToSet(g[u]) \cap Pool!ToSet(g[v]) = {}
  <2>1. ASSUME NEW u \in Threads, NEW v \in Threads, u # v PROVE Pool!ToSet(g[u]) \cap Pool!ToSet(g[v]) = {}
    <3>1. Pool!ToSet(f[u]) \cap Pool!ToSet(f[v]) = {} /\ x \notin Pool!ToSet(f[u]) /\ x \notin Pool!ToSet(f[v])
      BY <1>1, <1>4, <2>1
    <3>2. QED
      BY <1>7, <2>1, <3>1
  <2>2. QED
    BY <2>1
<1>10. \A u \in Threads : Pool!ToSet(g[u]) \cap (l \ {x}) = {}
  BY <1>1, <1>7
<1>11. \A y : y \in 1..N <=> y \in l \ {x} \/ \E u \in Threads : y \in Pool!ToSet(g[u])
  BY <1>1, <1>7
<1>12. Len(f[t]) \in Nat
  BY <1>1, LenProperties
<1>13. Len(g[t]) = Len(f[t]) + 1
  BY <1>5, <1>6, <1>12
<1>14. QED
  BY <1>6, <1>8, <1>9, <1>10, <1>11, <1>13 DEF Placed

(* The count of allocated objects and the length of the list agree, but    *)
(* for whole turns of the counter, which objects given back to a pool that *)
(* did not make them cause.                                                *)
Counted(c, a, n) == \E k \in Int : c - a = n + k * SizeValues

LEMMA WrapMoves ==
  ASSUME Pool!PoolAssumption, NEW n \in Int
  PROVE  /\ Pool!Wrap(n) \in 0..(SizeValues - 1)
         /\ \E k \in Int : n = Pool!Wrap(n) + k * SizeValues
<1>1. SizeValues \in Nat \ {0}
  BY DEF Pool!PoolAssumption
<1>2. n % SizeValues \in 0..(SizeValues - 1) /\ n \div SizeValues \in Int
      /\ n = (n \div SizeValues) * SizeValues + (n % SizeValues)
  BY <1>1, DivMod
<1> DEFINE q == n \div SizeValues
           r == n % SizeValues
           x == q * SizeValues
<1>3. x \in Int /\ r \in Int /\ q \in Int /\ n = x + r
  BY <1>1, <1>2
<1>4. Pool!Wrap(n) = r
  BY DEF Pool!Wrap
<1> HIDE DEF q, r, x
<1>5. n = Pool!Wrap(n) + q * SizeValues
  BY <1>3, <1>4 DEF x
<1>6. QED
  BY <1>2, <1>3, <1>4, <1>5 DEF r

LEMMA CountedMoves ==
  ASSUME Pool!PoolAssumption, NEW c \in Int, NEW a \in Int, NEW n \in Int, Counted(c, a, n),
         NEW d \in Int, NEW e \in Int
  PROVE  /\ Counted(c + d, a, n + d)
         /\ Counted(c + d, Pool!Wrap(a + e), n + d - e)
<1>1. SizeValues \in Nat \ {0}
  BY DEF Pool!PoolAssumption
<1>2. PICK k \in Int : c - a = n + k * SizeValues
  BY DEF Counted
<1>3. (c + d) - a = (n + d) + k * SizeValues
  <2>1. k * SizeValues \in Int
    BY <1>1
  <2>2. QED
    BY <1>2, <2>1
<1>4. a + e \in Int
  OBVIOUS
<1>5. PICK j \in Int : a + e = Pool!Wrap(a + e) + j * SizeValues
  BY <1>4, WrapMoves
<1>6. Pool!Wrap(a + e) \in Int
  BY <1>4, WrapMoves
<1>7. (k + j) * SizeValues = k * SizeValues + j * SizeValues /\ k * SizeValues \in Int /\ j * SizeValues \in Int
  BY <1>1
<1>8. (c + d) - Pool!Wrap(a + e) = (n + d - e) + (k + j) * SizeValues
  <2> DEFINE w == Pool!Wrap(a + e)
             x == k * SizeValues
             y == j * SizeValues
             z == (k + j) * SizeValues
  <2>1. w \in Int /\ x \in Int /\ y \in Int /\ z = x + y /\ c - a = n + x /\ a + e = w + y
    BY <1>2, <1>5, <1>6, <1>7
  <2> HIDE DEF w, x, y, z
  <2>2. (c + d) - w = (n + d - e) + z
    BY <2>1
  <2>3. QED
    BY <2>2 DEF w, z
<1>9. QED
  BY <1>3, <1>8 DEF Counted

LEMMA CountedExact ==
  ASSUME Pool!PoolAssumption, NEW c \in Int, NEW a \in Int, NEW n \in Nat, n < SizeValues, Counted(c, a, n)
  PROVE  Pool!Wrap(c - a) = n
<1>1. SizeValues \in Nat \ {0}
  BY DEF Pool!PoolAssumption
<1>2. PICK k \in Int : c - a = n + k * SizeValues
  BY DEF Counted
<1>3. Pool!Wrap(c - a) \in 0..(SizeValues - 1) /\ c - a \in Int
  BY WrapMoves
<1>4. PICK j \in Int : c - a = Pool!Wrap(c - a) + j * SizeValues
  BY <1>3, WrapMoves
<1> DEFINE w == Pool!Wrap(c - a)
<1>5. w \in 0..(SizeValues - 1) /\ n + k * SizeValues = w + j * SizeValues
  BY <1>2, <1>3, <1>4
<1> HIDE DEF w
<1>6. (k - j) * SizeValues = k * SizeValues - j * SizeValues /\ k * SizeValues \in Int /\ j * SizeValues \in Int
  BY <1>1
<1>7. (k - j) * SizeValues = w - n
  BY <1>5, <1>6
<1>8. k = j
  <2>1. CASE k - j >= 1
    <3>1. (k - j) * SizeValues >= SizeValues
      BY <1>1, <2>1
    <3>2. QED
      BY <1>1, <1>5, <1>7, <3>1
  <2>2. CASE k - j <= -1
    <3>1. (k - j) * SizeValues <= -SizeValues
      BY <1>1, <2>2
    <3>2. QED
      BY <1>1, <1>5, <1>7, <3>1
  <2>3. QED
    BY <2>1, <2>2
<1>9. w = n
  BY <1>5, <1>6, <1>8
<1>10. QED
  BY <1>9 DEF w

(* The inductive invariant of the pools.                                   *)
PoolInv ==
  /\ blocks \in 0..MaxBlocks
  /\ capacity \in [Threads -> Nat] /\ allocated \in [Threads -> Nat]
  /\ Placed(free, live, Objects(blocks))
  /\ \A t \in Threads : Counted(capacity[t], allocated[t], Len(free[t]))

LEMMA PoolStarts == ASSUME Pool!PoolAssumption, Pool!Init PROVE PoolInv
<1>1. /\ free = [t \in Threads |-> <<>>] /\ capacity = [t \in Threads |-> 0] /\ allocated = [t \in Threads |-> 0]
      /\ blocks = 0 /\ live = {} /\ MaxBlocks \in Nat /\ PoolBlock \in Nat /\ SizeValues \in Nat
  BY DEF Pool!Init, Pool!PoolAssumption
<1>2. <<>> \in Seq(Nat) /\ Len(<<>>) = 0 /\ Pool!IsInjective(<<>>) /\ Pool!ToSet(<<>>) = {}
  BY DEF Pool!IsInjective, Pool!ToSet
<1>3. Objects(blocks) = 0 /\ \A x : x \notin 1..0
  BY <1>1 DEF Objects
<1>4. Placed(free, live, Objects(blocks))
  BY <1>1, <1>2, <1>3 DEF Placed
<1>5. Counted(0, 0, 0)
  <2>1. 0 - 0 = 0 + 0 * SizeValues
    BY <1>1
  <2>2. QED
    BY <2>1 DEF Counted
<1>6. QED
  BY <1>1, <1>2, <1>4, <1>5 DEF PoolInv

LEMMA PoolReserveKeeps ==
  ASSUME Pool!PoolAssumption, PoolInv, NEW t \in Threads, NEW count \in Nat, Pool!Reserve(t, count)
  PROVE  PoolInv'
<1>1. /\ blocks \in 0..MaxBlocks /\ blocks \in Nat /\ MaxBlocks \in Nat /\ PoolBlock \in Nat \ {0}
      /\ capacity \in [Threads -> Nat] /\ allocated \in [Threads -> Nat] /\ free \in [Threads -> Seq(Nat)]
      /\ Placed(free, live, Objects(blocks))
      /\ \A u \in Threads : Counted(capacity[u], allocated[u], Len(free[u]))
  BY DEF PoolInv, Pool!PoolAssumption, Placed
<1>2. PICK missing \in Nat :
        /\ blocks + missing <= MaxBlocks
        /\ free' = [free EXCEPT ![t] = Pool!BlocksAfter(blocks, missing) \o free[t]]
        /\ capacity' = [capacity EXCEPT ![t] = capacity[t] + Objects(missing)]
        /\ blocks' = blocks + missing /\ allocated' = allocated /\ live' = live
  <2> DEFINE n == count - capacity[t] + PoolBlock - 1
             missing == n \div PoolBlock
  <2>1. /\ capacity[t] < count /\ blocks + missing <= MaxBlocks
        /\ free' = [free EXCEPT ![t] = Pool!BlocksAfter(blocks, missing) \o free[t]]
        /\ capacity' = [capacity EXCEPT ![t] = capacity[t] + Objects(missing)]
        /\ blocks' = blocks + missing /\ allocated' = allocated /\ live' = live
    BY DEF Pool!Reserve, Objects
  <2>2. n \in Nat
    <3>1. capacity[t] \in Nat /\ capacity[t] < count
      BY <1>1, <2>1
    <3>2. QED
      BY <1>1, <3>1
  <2> HIDE DEF n
  <2>3. missing \in Nat
    <3>1. PoolBlock \in Nat \ {0} /\ n \in Int
      BY <1>1, <2>2
    <3>2. n \in Nat => n \div PoolBlock \in Nat
      BY <3>1, DivMod
    <3>3. QED
      BY <2>2, <3>2
  <2> HIDE DEF missing
  <2>4. QED
    BY <2>1, <2>3
<1>3. missing \in Nat
  OBVIOUS
<1>4. Objects(missing) \in Nat
  BY <1>1, <1>3 DEF Objects
<1>5. Placed(free', live, Objects(blocks + missing)) /\ Len(free'[t]) = Len(free[t]) + Objects(missing)
  <2>1. /\ blocks \in Nat /\ Placed(free, live, Objects(blocks))
        /\ Pushed(free', free, t, Pool!BlocksAfter(blocks, missing))
    BY <1>2, <1>1 DEF Pushed
  <2>2. Placed(free', live, Objects(blocks + missing)) /\ Longer(free', free, t, Objects(missing))
    BY <1>3, <2>1, BlocksArePlaced
  <2>3. QED
    BY <2>2 DEF Longer
<1>6. Placed(free', live', Objects(blocks'))
  BY <1>2, <1>5
<1>7. \A u \in Threads : Counted(capacity'[u], allocated'[u], Len(free'[u]))
  <2>1. ASSUME NEW u \in Threads PROVE Counted(capacity'[u], allocated'[u], Len(free'[u]))
    <3>1. capacity[u] \in Int /\ allocated[u] \in Int /\ Len(free[u]) \in Int /\ Counted(capacity[u], allocated[u], Len(free[u]))
      BY <1>1, LenProperties
    <3>2. CASE u = t
      <4>1. Counted(capacity[t] + Objects(missing), allocated[t], Len(free[t]) + Objects(missing))
        <5>1. Objects(missing) \in Int /\ 0 \in Int
          BY <1>4
        <5>2. Counted(capacity[u] + Objects(missing), allocated[u], Len(free[u]) + Objects(missing))
          BY <3>1, <5>1, CountedMoves
        <5>3. QED
          BY <3>2, <5>2
      <4>2. QED
        BY <1>2, <1>1, <1>5, <3>2, <4>1
    <3>3. CASE u # t
      BY <1>2, <1>1, <3>1, <3>3
    <3>4. QED
      BY <3>2, <3>3
  <2>2. QED
    BY <2>1
<1>8. blocks' \in 0..MaxBlocks
  BY <1>2, <1>1, <1>3
<1>9. capacity' \in [Threads -> Nat] /\ allocated' \in [Threads -> Nat]
  BY <1>2, <1>1, <1>4
<1>10. QED
  BY <1>6, <1>7, <1>8, <1>9 DEF PoolInv

LEMMA PoolAllocateKeeps ==
  ASSUME Pool!PoolAssumption, PoolInv, NEW t \in Threads, Pool!Allocate(t)
  PROVE  PoolInv'
<1> DEFINE n == IF free[t] = <<>> THEN 1 ELSE 0
           f == IF free[t] = <<>> THEN Pool!BlocksAfter(blocks, 1) ELSE free[t]
           g == [free EXCEPT ![t] = f]
<1>1. /\ free[t] = <<>> => blocks < MaxBlocks
      /\ blocks' = blocks + n
      /\ capacity' = [capacity EXCEPT ![t] = capacity[t] + (IF free[t] = <<>> THEN PoolBlock ELSE 0)]
      /\ free' = [free EXCEPT ![t] = Tail(f)]
      /\ allocated' = [allocated EXCEPT ![t] = Pool!Wrap(allocated[t] + 1)]
      /\ live' = live \cup {Head(f)}
  BY DEF Pool!Allocate
<1>2. /\ blocks \in 0..MaxBlocks /\ blocks \in Nat /\ MaxBlocks \in Nat /\ PoolBlock \in Nat \ {0}
      /\ capacity \in [Threads -> Nat] /\ allocated \in [Threads -> Nat] /\ free \in [Threads -> Seq(Nat)]
      /\ Placed(free, live, Objects(blocks))
      /\ \A u \in Threads : Counted(capacity[u], allocated[u], Len(free[u]))
  BY DEF PoolInv, Pool!PoolAssumption, Placed
<1>3. n \in Nat /\ Objects(n) = (IF free[t] = <<>> THEN PoolBlock ELSE 0)
  BY <1>2 DEF Objects
<1>4. Placed(g, live, Objects(blocks + n)) /\ Len(g[t]) = Len(free[t]) + Objects(n) /\ g[t] = f /\ f # <<>>
  <2>1. CASE free[t] = <<>>
    <3>1. 1 \in Nat /\ f = Pool!BlocksAfter(blocks, 1)
      BY <2>1
    <3>2. f \in Seq(Nat) /\ Len(f) = Objects(1) /\ Objects(1) = PoolBlock
      <4>1. Pool!BlocksAfter(blocks, 1) \in Seq(Nat) /\ Len(Pool!BlocksAfter(blocks, 1)) = Objects(1)
        BY <1>2, <3>1, BlocksAfterSet
      <4>2. Objects(1) = PoolBlock
        BY <1>2 DEF Objects
      <4>3. QED
        BY <3>1, <4>1, <4>2
    <3>3. f \o free[t] = f
      BY <2>1, <3>2, ConcatEmptySeq
    <3>4. Pushed(g, free, t, Pool!BlocksAfter(blocks, 1))
      BY <3>1, <3>3 DEF Pushed
    <3>5. g[t] = f
      BY <1>2
    <3> HIDE DEF f, g
    <3>6. Placed(g, live, Objects(blocks + 1)) /\ Len(g[t]) = Len(free[t]) + Objects(1)
      <4>1. blocks \in Nat /\ 1 \in Nat /\ Placed(free, live, Objects(blocks))
        BY <1>2
      <4>2. Placed(g, live, Objects(blocks + 1)) /\ Longer(g, free, t, Objects(1))
        BY <3>1, <3>4, <4>1, BlocksArePlaced
      <4>3. QED
        BY <4>2 DEF Longer
    <3>7. f # <<>>
      <4>1. Len(<<>>) = 0 /\ PoolBlock # 0
        BY <1>2
      <4>2. QED
        BY <3>2, <4>1
    <3>8. QED
      BY <2>1, <3>5, <3>6, <3>7
  <2>2. CASE free[t] # <<>>
    <3>1. g = free /\ f = free[t] /\ blocks + n = blocks /\ Objects(n) = 0 /\ Len(free[t]) \in Nat
      BY <1>2, <1>3, <2>2, LenProperties
    <3>2. Placed(free, live, Objects(blocks)) /\ Len(free[t]) = Len(free[t]) + 0
      BY <1>2, <3>1
    <3> HIDE DEF n, f, g
    <3>3. QED
      BY <2>2, <3>1, <3>2
  <2>3. QED
    BY <2>1, <2>2
<1>5. free' = [g EXCEPT ![t] = Tail(g[t])] /\ live' = live \cup {Head(g[t])}
  <2>1. free' = [free EXCEPT ![t] = Tail(f)] /\ g[t] = f
    BY <1>1, <1>4
  <2> HIDE DEF f
  <2>2. QED
    BY <1>1, <1>2, <2>1
<1> HIDE DEF f, g, n
<1>6. Placed(free', live', Objects(blocks + n)) /\ Len(free'[t]) = Len(g[t]) - 1
  <2>1. /\ Placed(g, live, Objects(blocks + n)) /\ g[t] # <<>> /\ free' = [g EXCEPT ![t] = Tail(g[t])]
        /\ live' = live \cup {Head(g[t])}
    BY <1>4, <1>5
  <2>2. Placed(free', live \cup {Head(g[t])}, Objects(blocks + n)) /\ Len(free'[t]) = Len(g[t]) - 1
    <3>1. /\ Placed([g EXCEPT ![t] = Tail(g[t])], live \cup {Head(g[t])}, Objects(blocks + n))
          /\ Len([g EXCEPT ![t] = Tail(g[t])][t]) = Len(g[t]) - 1
      BY <2>1, TakeKeepsPlaces
    <3>2. QED
      BY <2>1, <3>1
  <2>3. QED
    BY <2>1, <2>2
<1>7. Placed(free', live', Objects(blocks'))
  BY <1>1, <1>6
<1>8. blocks' \in 0..MaxBlocks
  BY <1>1, <1>2 DEF n
<1> DEFINE d == Objects(n)
<1>9. d \in Nat /\ capacity' = [capacity EXCEPT ![t] = capacity[t] + d]
  <2>1. d = (IF free[t] = <<>> THEN PoolBlock ELSE 0)
    BY <1>3
  <2> HIDE DEF d
  <2>2. QED
    BY <1>1, <1>2, <2>1
<1>10. Len(free'[t]) = Len(free[t]) + d - 1
  <2>1. Len(g[t]) = Len(free[t]) + d /\ Len(free[t]) \in Nat
    BY <1>2, <1>4, LenProperties
  <2>2. QED
    BY <1>6, <1>9, <2>1
<1> HIDE DEF d
<1>11. Pool!Wrap(allocated[t] + 1) \in Nat
  <2>1. allocated[t] + 1 \in Int
    BY <1>2
  <2>2. Pool!Wrap(allocated[t] + 1) \in 0..(SizeValues - 1)
    BY <2>1, WrapMoves
  <2>3. QED
    BY <2>2
<1>12. capacity' \in [Threads -> Nat] /\ allocated' \in [Threads -> Nat]
  BY <1>1, <1>2, <1>9, <1>11
<1>13. \A u \in Threads : Counted(capacity'[u], allocated'[u], Len(free'[u]))
  <2>1. ASSUME NEW u \in Threads PROVE Counted(capacity'[u], allocated'[u], Len(free'[u]))
    <3>1. capacity[u] \in Int /\ allocated[u] \in Int /\ Len(free[u]) \in Int /\ Counted(capacity[u], allocated[u], Len(free[u]))
      BY <1>2, LenProperties
    <3>2. CASE u = t
      <4>1. Counted(capacity[t] + d, Pool!Wrap(allocated[t] + 1), Len(free[t]) + d - 1)
        <5>1. d \in Int /\ 1 \in Int
          BY <1>9
        <5>2. Counted(capacity[u] + d, Pool!Wrap(allocated[u] + 1), Len(free[u]) + d - 1)
          BY <3>1, <5>1, CountedMoves
        <5>3. QED
          BY <3>2, <5>2
      <4>2. capacity'[t] = capacity[t] + d /\ allocated'[t] = Pool!Wrap(allocated[t] + 1)
        BY <1>1, <1>2, <1>9
      <4>3. QED
        BY <1>10, <3>2, <4>1, <4>2
    <3>3. CASE u # t
      BY <1>1, <1>2, <1>9, <3>1, <3>3
    <3>4. QED
      BY <3>2, <3>3
  <2>2. QED
    BY <2>1
<1>14. QED
  BY <1>7, <1>8, <1>12, <1>13 DEF PoolInv

LEMMA PoolDeallocateKeeps ==
  ASSUME Pool!PoolAssumption, PoolInv, NEW t \in Threads, NEW object \in live, Pool!Deallocate(t, object)
  PROVE  PoolInv'
<1>1. /\ live' = live \ {object}
      /\ free' = [free EXCEPT ![t] = <<object>> \o free[t]]
      /\ allocated' = [allocated EXCEPT ![t] = Pool!Wrap(allocated[t] - 1)]
      /\ capacity' = capacity /\ blocks' = blocks
  BY DEF Pool!Deallocate
<1>2. /\ blocks \in 0..MaxBlocks /\ blocks \in Nat /\ PoolBlock \in Nat
      /\ capacity \in [Threads -> Nat] /\ allocated \in [Threads -> Nat] /\ free \in [Threads -> Seq(Nat)]
      /\ Placed(free, live, Objects(blocks))
      /\ \A u \in Threads : Counted(capacity[u], allocated[u], Len(free[u]))
  BY DEF PoolInv, Pool!PoolAssumption, Placed
<1>3. Objects(blocks) \in Nat
  BY <1>2 DEF Objects
<1>4. Placed(free', live', Objects(blocks')) /\ Len(free'[t]) = Len(free[t]) + 1
  <2>1. Placed(free, live, Objects(blocks)) /\ Pushed(free', free, t, <<object>>)
    BY <1>1, <1>2 DEF Pushed
  <2>2. Placed(free', live \ {object}, Objects(blocks)) /\ Len(free'[t]) = Len(free[t]) + 1
    BY <1>3, <2>1, GiveKeepsPlaces
  <2>3. QED
    BY <1>1, <2>2
<1>5. Pool!Wrap(allocated[t] - 1) \in Nat
  <2>1. allocated[t] - 1 \in Int
    BY <1>2
  <2>2. Pool!Wrap(allocated[t] - 1) \in 0..(SizeValues - 1)
    BY <2>1, WrapMoves
  <2>3. QED
    BY <2>2
<1>6. capacity' \in [Threads -> Nat] /\ allocated' \in [Threads -> Nat]
  BY <1>1, <1>2, <1>5
<1>7. \A u \in Threads : Counted(capacity'[u], allocated'[u], Len(free'[u]))
  <2>1. ASSUME NEW u \in Threads PROVE Counted(capacity'[u], allocated'[u], Len(free'[u]))
    <3>1. capacity[u] \in Int /\ allocated[u] \in Int /\ Len(free[u]) \in Int /\ Counted(capacity[u], allocated[u], Len(free[u]))
      BY <1>2, LenProperties
    <3>2. CASE u = t
      <4>1. 0 \in Int /\ -1 \in Int
        OBVIOUS
      <4>2. Counted(capacity[t] + 0, Pool!Wrap(allocated[t] + (-1)), Len(free[t]) + 0 - (-1))
        BY <3>1, <3>2, <4>1, CountedMoves
      <4>3. capacity[t] + 0 = capacity[t] /\ allocated[t] + (-1) = allocated[t] - 1 /\ Len(free[t]) + 0 - (-1) = Len(free[t]) + 1
        BY <3>1, <3>2
      <4>4. Counted(capacity[t], Pool!Wrap(allocated[t] - 1), Len(free[t]) + 1)
        BY <4>2, <4>3
      <4>5. capacity'[t] = capacity[t] /\ allocated'[t] = Pool!Wrap(allocated[t] - 1)
        BY <1>1, <1>2
      <4>6. QED
        BY <1>4, <3>2, <4>4, <4>5
    <3>3. CASE u # t
      BY <1>1, <1>2, <3>1, <3>3
    <3>4. QED
      BY <3>2, <3>3
  <2>2. QED
    BY <2>1
<1>8. QED
  BY <1>1, <1>2, <1>4, <1>6, <1>7 DEF PoolInv

LEMMA PoolCounts == ASSUME Pool!PoolAssumption, PoolInv PROVE Pool!ObjectsAccountedFor
<1>1. /\ blocks \in 0..MaxBlocks /\ blocks \in Nat /\ MaxBlocks \in Nat
      /\ PoolBlock \in Nat \ {0} /\ SizeValues \in Nat /\ MaxBlocks * PoolBlock < SizeValues
      /\ capacity \in [Threads -> Nat] /\ allocated \in [Threads -> Nat] /\ free \in [Threads -> Seq(Nat)]
      /\ Placed(free, live, Objects(blocks))
      /\ \A u \in Threads : Counted(capacity[u], allocated[u], Len(free[u]))
  BY DEF PoolInv, Pool!PoolAssumption, Placed
<1>2. Objects(blocks) \in Nat /\ Objects(blocks) <= MaxBlocks * PoolBlock /\ MaxBlocks * PoolBlock \in Nat
  BY <1>1 DEF Objects
<1>3. \A t \in Threads : Pool!Available(t) = Len(free[t])
  <2>1. ASSUME NEW t \in Threads PROVE Pool!Available(t) = Len(free[t])
    <3>1. free[t] \in Seq(Nat) /\ Pool!IsInjective(free[t]) /\ Pool!ToSet(free[t]) \subseteq 1..Objects(blocks)
      BY <1>1 DEF Placed
    <3>2. Len(free[t]) <= Objects(blocks) /\ Len(free[t]) \in Nat
      BY <1>2, <3>1, InjectiveLen, LenProperties
    <3>3. Len(free[t]) < SizeValues
      BY <1>1, <1>2, <3>2
    <3>4. QED
      BY <1>1, <3>2, <3>3, CountedExact DEF Pool!Available
  <2>2. QED
    BY <2>1
<1>4. live \cup (UNION {Pool!ToSet(free[t]) : t \in Threads}) = 1..Objects(blocks)
  BY <1>1 DEF Placed
<1>5. QED
  BY <1>1, <1>3, <1>4 DEF Placed, Objects, Pool!ObjectsAccountedFor

-------------------------------------------------------------------------------
(* However objects wander between threads, each is in one place, held by a *)
(* caller or once in one free list, and available() tells the length of    *)
(* the list although its counter wraps: for any number of threads, any     *)
(* size of block and any width of counter that can count the objects.      *)
THEOREM NoObjectIsLost == ASSUME Pool!PoolAssumption PROVE Pool!Spec => []ObjectsAccountedFor
<1>1. Pool!Init => PoolInv
  BY PoolStarts
<1>2. PoolInv /\ [Pool!Next]_(Pool!vars) => PoolInv'
  <2> SUFFICES ASSUME PoolInv, [Pool!Next]_(Pool!vars) PROVE PoolInv'
    OBVIOUS
  <2>1. CASE UNCHANGED Pool!vars
    BY <2>1 DEF Pool!vars, PoolInv, Placed
  <2>2. ASSUME NEW t \in Threads, NEW count \in 1..(PoolBlock + 1), Pool!Reserve(t, count) PROVE PoolInv'
    <3>1. count \in Nat
      BY DEF Pool!PoolAssumption
    <3>2. QED
      BY <2>2, <3>1, PoolReserveKeeps
  <2>3. ASSUME NEW t \in Threads, Pool!Allocate(t) PROVE PoolInv'
    BY <2>3, PoolAllocateKeeps
  <2>4. ASSUME NEW t \in Threads, NEW object \in live, Pool!Deallocate(t, object) PROVE PoolInv'
    BY <2>4, PoolDeallocateKeeps
  <2>5. QED
    BY <2>1, <2>2, <2>3, <2>4 DEF Pool!Next
<1>3. PoolInv => ObjectsAccountedFor
  BY PoolCounts DEF ObjectsAccountedFor
<1>4. QED
  BY <1>1, <1>2, <1>3, PTL DEF Pool!Spec

-------------------------------------------------------------------------------
(* The arena, Arena.                                                       *)

LEMMA AlignedUp ==
  ASSUME NEW p \in Nat, NEW n \in Nat \ {0}
  PROVE  /\ Area!Aligned(p, n) \in Nat /\ p <= Area!Aligned(p, n) /\ Area!Aligned(p, n) <= p + n - 1
         /\ Area!Aligned(p, n) % n = 0
<1> DEFINE a == p + n - 1
           q == a \div n
           x == q * n
<1>1. a \in Nat /\ a \in Int /\ a = p + n - 1
  OBVIOUS
<1> HIDE DEF a
<1>2. q \in Int /\ a % n \in 0..(n - 1) /\ a = q * n + (a % n) /\ q \in Nat
  BY <1>1, DivMod
<1>3. Area!Aligned(p, n) = x
  BY DEF Area!Aligned, a
<1> HIDE DEF q
<1>4. x \in Int /\ x >= 0
  BY <1>2
<1>5. x % n = 0
  <2> DEFINE k == x \div n
             r == x % n
  <2>1. k \in Int /\ r \in 0..(n - 1) /\ x = k * n + r
    BY <1>4, DivMod
  <2> HIDE DEF k, r
  <2>2. (q - k) * n = q * n - k * n /\ k * n \in Int /\ q * n \in Int
    BY <1>2, <2>1
  <2>3. (q - k) * n = r
    BY <2>1, <2>2
  <2>4. CASE q - k >= 1
    <3>1. (q - k) * n >= n
      BY <1>2, <2>1, <2>4
    <3>2. QED
      BY <2>1, <2>3, <3>1
  <2>5. CASE q - k <= -1
    <3>1. (q - k) * n <= -n
      BY <1>2, <2>1, <2>5
    <3>2. QED
      BY <2>1, <2>3, <3>1
  <2>6. CASE q - k = 0
    <3>1. (q - k) * n = 0
      BY <2>6
    <3>2. QED
      BY <2>3, <3>1 DEF r
  <2>7. QED
    BY <1>2, <2>1, <2>4, <2>5, <2>6
<1> HIDE DEF x
<1>6. p <= x /\ x <= p + n - 1
  BY <1>1, <1>2, <1>4 DEF x
<1>7. QED
  BY <1>3, <1>4, <1>5, <1>6

LEMMA LargestOfTwo ==
  ASSUME NEW m \in Nat, NEW n \in Nat
  PROVE  Area!Max({m, n}) \in Nat /\ Area!Max({m, n}) >= m /\ Area!Max({m, n}) >= n
<1>1. \E x \in {m, n} : \A y \in {m, n} : x >= y
  <2>1. CASE m >= n
    BY <2>1
  <2>2. CASE n >= m
    BY <2>2
  <2>3. QED
    BY <2>1, <2>2
<1>2. Area!Max({m, n}) \in {m, n} /\ \A y \in {m, n} : Area!Max({m, n}) >= y
  BY <1>1 DEF Area!Max
<1>3. QED
  BY <1>2

LEMMA LeastOfSet ==
  ASSUME NEW T \in SUBSET Nat, T # {}
  PROVE  Area!Min(T) \in T /\ \A n \in T : Area!Min(T) <= n
<1>1. \E m \in T : \A n \in T : m <= n
  BY NatLeast
<1>2. QED
  BY <1>1 DEF Area!Min

LEMMA SameSum == ASSUME NEW f, NEW S PROVE Area!SumFunctionOnSet(f, S) = SumFunctionOnSet(f, S)
BY DEF Area!SumFunctionOnSet, Area!FoldFunctionOnSet, Area!MapThenFoldSet, SumFunctionOnSet, FoldFunctionOnSet, MapThenFoldSet

LEMMA PrefixMeans ==
  ASSUME NEW S, NEW s \in Seq(S), NEW t \in Seq(S)
  PROVE  Area!IsPrefix(s, t) <=> Len(s) <= Len(t) /\ \A k \in 1..Len(s) : s[k] = t[k]
<1>1. Len(s) \in Nat /\ Len(t) \in Nat
  BY LenProperties
<1>2. Area!IsPrefix(s, t) <=> Len(s) <= Len(t) /\ SubSeq(s, 1, Len(s)) = SubSeq(t, 1, Len(s))
  BY DEF Area!IsPrefix
<1>3. ASSUME Len(s) <= Len(t)
      PROVE  SubSeq(s, 1, Len(s)) = SubSeq(t, 1, Len(s)) <=> \A k \in 1..Len(s) : s[k] = t[k]
  <2> DEFINE m == Len(s)
             u == SubSeq(t, 1, m)
  <2>1. \A k \in 1..m : k \in 1..Len(t) /\ t[k] \in S
    BY <1>1, <1>3, ElementOfSeq
  <2>2. u \in Seq(S) /\ Len(u) = (IF 1 <= m THEN m - 1 + 1 ELSE 0) /\ \A k \in 1..(m - 1 + 1) : u[k] = t[1 + k - 1]
    <3>1. 1 \in Int /\ m \in Int
      BY <1>1
    <3>2. QED
      BY <2>1, <3>1, SubSeqProperties
  <2> HIDE DEF u
  <2>3. Len(u) = m /\ \A k \in 1..m : u[k] = t[k]
    <3>1. m - 1 + 1 = m /\ \A k \in 1..m : 1 + k - 1 = k
      BY <1>1
    <3>2. QED
      BY <1>1, <2>2, <3>1
  <2>4. SubSeq(s, 1, m) = s
    BY SubSeqFull
  <2>5. (\A k \in 1..m : s[k] = u[k]) => s = u
    BY <2>2, <2>3, SeqEqual
  <2>6. s = u <=> \A k \in 1..m : s[k] = t[k]
    BY <2>3, <2>5
  <2>7. QED
    BY <2>4, <2>6 DEF u
<1>4. QED
  BY <1>2, <1>3

(* A block of memory, and the sum of what is held.                         *)
Block == [base : Nat, size : Nat]
Sizes(l) == [a \in l |-> a.size]

AreaTypes ==
  /\ aBlocks \in Seq(Block) /\ asked \in Seq(Requests) /\ before \in Seq(Requests)
  /\ index \in 0..Len(aBlocks) /\ current \in Nat /\ held \in Nat /\ held <= Len(aBlocks)
  /\ index > 0 => aBlocks[index].base <= current /\ current <= aBlocks[index].base + aBlocks[index].size
  /\ index = 0 => aBlocks = <<>> /\ asked = <<>> /\ before = <<>> /\ aLive = {}

(* What is held lies in the blocks up to the current one, and before the   *)
(* current position in that one.                                           *)
AreaCut ==
  /\ IsFiniteSet(aLive) /\ aLive \subseteq [block : Nat, from : Nat, size : Nat \ {0}, alignment : Nat \ {0}]
  /\ \A a \in aLive :
       /\ a.block \in 1..index /\ a.from % a.alignment = 0
       /\ aBlocks[a.block].base <= a.from
       /\ a.from + a.size <= aBlocks[a.block].base + aBlocks[a.block].size
       /\ a.block = index => a.from + a.size <= current
  /\ \A a, b \in aLive : a # b /\ a.block = b.block => a.from + a.size <= b.from \/ b.from + b.size <= a.from
  /\ total = SumFunctionOnSet(Sizes(aLive), aLive)

(* In the first n blocks B, the request r made at position p of block i is *)
(* served from block j and leaves q as the position.                       *)
Serves(B, n, i, p, r, j, q) ==
  /\ j \in 1..n
  /\ \/ Area!Fits(B[i], p, r) /\ j = i /\ q = Area!Aligned(p, r.alignment) + r.size
     \/ /\ ~Area!Fits(B[i], p, r) /\ i < j /\ Area!Fits(B[j], B[j].base, r)
        /\ \A k \in (i + 1)..(j - 1) : ~Area!Fits(B[k], B[k].base, r)
        /\ q = Area!Aligned(B[j].base, r.alignment) + r.size

(* The blocks at and positions ps that the requests s lead through from    *)
(* the front of the first of the n blocks B.                               *)
Leads(B, n, s, at, ps) ==
  /\ at[0] = 1 /\ ps[0] = B[1].base
  /\ \A k \in 1..Len(s) : Serves(B, n, at[k - 1], ps[k - 1], s[k], at[k], ps[k])

(* The requests s end at position q of block j.                            *)
Reaches(B, n, s, j, q) ==
  \E at, ps : Leads(B, n, s, at, ps) /\ at[Len(s)] = j /\ ps[Len(s)] = q

(* The requests since the last reset, and those of the round before, are   *)
(* explained by the blocks there are now; while the former repeat the      *)
(* latter, they have led to the same position.                             *)
AreaAgain ==
  index > 0 =>
    /\ Reaches(aBlocks, Len(aBlocks), asked, index, current)
    /\ \E at, ps :
         /\ Leads(aBlocks, held, before, at, ps)
         /\ Area!IsPrefix(asked, before) =>
              Len(aBlocks) = held /\ at[Len(asked)] = index /\ ps[Len(asked)] = current

AreaInv == AreaTypes /\ AreaCut /\ AreaAgain

LEMMA AreaStarts == ASSUME Area!Init PROVE AreaInv
<1>1. /\ aBlocks = <<>> /\ index = 0 /\ current = 0 /\ total = 0
      /\ aLive = {} /\ asked = <<>> /\ before = <<>> /\ held = 0
  BY DEF Area!Init
<1>2. Len(aBlocks) = 0 /\ aBlocks \in Seq(Block) /\ asked \in Seq(Requests) /\ before \in Seq(Requests)
  BY <1>1
<1>3. IsFiniteSet(aLive) /\ SumFunctionOnSet(Sizes(aLive), aLive) = 0
  BY <1>1, FS_EmptySet, SumEmpty
<1>4. QED
  BY <1>1, <1>2, <1>3 DEF AreaInv, AreaTypes, AreaCut, AreaAgain

(* B keeps the blocks there are, and may have one more.                    *)
Extends(B) ==
  B \in Seq(Block) /\ Len(aBlocks) <= Len(B) /\ \A k \in 1..Len(aBlocks) : B[k] = aBlocks[k]

LEMMA AreaTakeCuts ==
  ASSUME Area!ArenaAssumption, AreaTypes, AreaCut, NEW request \in Requests,
         NEW B, Extends(B), NEW i \in 1..Len(B), NEW p \in Nat,
         (i = index /\ p = current) \/ (i > index /\ p = B[i].base),
         Area!Fits(B[i], p, request), Area!Take(request, B, i, p)
  PROVE  AreaTypes' /\ AreaCut'
<1> DEFINE from == Area!Aligned(p, request.alignment)
           x == [block |-> i, from |-> from, size |-> request.size, alignment |-> request.alignment]
<1>1. /\ aBlocks' = B /\ index' = i /\ current' = from + request.size /\ total' = total + request.size
      /\ aLive' = aLive \cup {x} /\ asked' = Append(asked, request) /\ before' = before /\ held' = held
  BY DEF Area!Take
<1>2. request.size \in Nat \ {0} /\ request.alignment \in Nat \ {0}
  BY DEF Area!ArenaAssumption
<1>3. /\ from \in Nat /\ p <= from /\ from % request.alignment = 0
      /\ from + request.size <= B[i].base + B[i].size
  BY <1>2, AlignedUp DEF Area!Fits
<1>4. /\ aBlocks \in Seq(Block) /\ asked \in Seq(Requests) /\ before \in Seq(Requests) /\ Len(aBlocks) \in Nat
      /\ B \in Seq(Block) /\ Len(B) \in Nat /\ Len(aBlocks) <= Len(B) /\ \A k \in 1..Len(aBlocks) : B[k] = aBlocks[k]
      /\ index \in 0..Len(aBlocks) /\ current \in Nat /\ held \in Nat /\ held <= Len(aBlocks)
      /\ index > 0 => aBlocks[index].base <= current /\ current <= aBlocks[index].base + aBlocks[index].size
  BY LenProperties DEF AreaTypes, Extends
<1>5. B[i] \in Block /\ B[i].base \in Nat /\ B[i].size \in Nat
  <2>1. B[i] \in Block
    BY <1>4, ElementOfSeq
  <2>2. QED
    BY <2>1 DEF Block
<1>6. i >= index /\ B[i].base <= p /\ (i = index => p = current)
  <2>1. CASE i = index /\ p = current
    BY <1>4, <2>1
  <2>2. CASE i > index /\ p = B[i].base
    BY <1>4, <1>5, <2>2
  <2>3. QED
    BY <2>1, <2>2
<1>7. /\ x.block = i /\ x.from = from /\ x.size = request.size /\ x.alignment = request.alignment
      /\ x \in [block : Nat, from : Nat, size : Nat \ {0}, alignment : Nat \ {0}]
  BY <1>2, <1>3
<1> HIDE DEF x, from
<1>8. AreaTypes'
  <2>1. asked' \in Seq(Requests)
    BY <1>1, <1>4
  <2>2. current' \in Nat /\ index' \in 0..Len(aBlocks') /\ index' > 0 /\ held' \in Nat /\ held' <= Len(aBlocks')
    BY <1>1, <1>2, <1>3, <1>4
  <2>3. aBlocks'[index'].base <= current' /\ current' <= aBlocks'[index'].base + aBlocks'[index'].size
    <3>1. B[i].base <= from + request.size
      BY <1>2, <1>3, <1>5, <1>6
    <3>2. QED
      BY <1>1, <1>3, <3>1
  <2>4. aBlocks' \in Seq(Block) /\ before' \in Seq(Requests)
    BY <1>1, <1>4
  <2>5. ~(index' = 0)
    BY <2>2
  <2>6. QED
    BY <2>1, <2>2, <2>3, <2>4, <2>5 DEF AreaTypes
<1>9. /\ IsFiniteSet(aLive) /\ aLive \subseteq [block : Nat, from : Nat, size : Nat \ {0}, alignment : Nat \ {0}]
      /\ \A a \in aLive :
           /\ a.block \in 1..index /\ a.from % a.alignment = 0
           /\ aBlocks[a.block].base <= a.from
           /\ a.from + a.size <= aBlocks[a.block].base + aBlocks[a.block].size
           /\ a.block = index => a.from + a.size <= current
      /\ \A a, b \in aLive : a # b /\ a.block = b.block => a.from + a.size <= b.from \/ b.from + b.size <= a.from
      /\ total = SumFunctionOnSet(Sizes(aLive), aLive)
  BY DEF AreaCut
<1>10. ASSUME NEW a \in aLive
       PROVE  /\ a.block \in 1..i /\ a.from % a.alignment = 0
              /\ B[a.block].base <= a.from
              /\ a.from + a.size <= B[a.block].base + B[a.block].size
              /\ a.block = i => a.from + a.size <= from
              /\ a.from \in Nat /\ a.size \in Nat \ {0}
  <2>1. a.block \in 1..Len(aBlocks) /\ a.from \in Nat /\ a.size \in Nat \ {0} /\ a.block \in 1..i
    BY <1>4, <1>6, <1>9
  <2>2. B[a.block] = aBlocks[a.block]
    BY <1>4, <2>1
  <2>3. a.block = i => a.from + a.size <= from
    <3>1. ASSUME a.block = i PROVE i = index
      BY <1>4, <1>6, <1>9, <3>1
    <3>2. ASSUME a.block = i PROVE a.from + a.size <= current /\ current <= from
      BY <1>3, <1>6, <1>9, <3>1, <3>2
    <3>3. QED
      BY <1>3, <1>4, <2>1, <3>2
  <2>4. QED
    BY <1>9, <2>1, <2>2, <2>3
<1>11. x \notin aLive
  <2>1. ASSUME x \in aLive PROVE FALSE
    <3>1. from + request.size <= from
      BY <1>7, <1>10, <2>1
    <3>2. QED
      BY <1>2, <1>3, <3>1
  <2>2. QED
    BY <2>1
<1>12. total' = SumFunctionOnSet(Sizes(aLive'), aLive')
  <2> DEFINE f == Sizes(aLive')
  <2>1. \A a \in aLive \cup {x} : f[a] = a.size /\ f[a] \in Int
    BY <1>1, <1>2, <1>7, <1>9 DEF Sizes
  <2>2. \A a \in aLive : Sizes(aLive)[a] = a.size
    BY DEF Sizes
  <2> HIDE DEF f
  <2>3. SumFunctionOnSet(f, aLive \cup {x}) = f[x] + SumFunctionOnSet(f, aLive)
    BY <1>9, <1>11, <2>1, SumAdd
  <2>4. SumFunctionOnSet(f, aLive) = SumFunctionOnSet(Sizes(aLive), aLive) /\ SumFunctionOnSet(f, aLive) \in Int
    BY <1>9, <2>1, <2>2, SumCong, SumType
  <2>5. f[x] = request.size
    BY <1>7, <2>1
  <2>6. QED
    BY <1>1, <1>2, <1>9, <2>3, <2>4, <2>5 DEF f
<1>13. IsFiniteSet(aLive')
  BY <1>1, <1>9, FS_AddElement
<1>14. aLive' \subseteq [block : Nat, from : Nat, size : Nat \ {0}, alignment : Nat \ {0}]
  BY <1>1, <1>7, <1>9
<1>15. ASSUME NEW a \in aLive'
       PROVE  /\ a.block \in 1..index' /\ a.from % a.alignment = 0
              /\ aBlocks'[a.block].base <= a.from
              /\ a.from + a.size <= aBlocks'[a.block].base + aBlocks'[a.block].size
              /\ a.block = index' => a.from + a.size <= current'
  <2>1. CASE a \in aLive
    <3>1. a.block = i => a.from + a.size <= from + request.size
      BY <1>2, <1>3, <1>10, <2>1
    <3>2. QED
      BY <1>1, <1>10, <2>1, <3>1
  <2>2. CASE a = x
    <3>1. B[i].base <= from /\ i \in 1..i /\ from + request.size <= from + request.size
      BY <1>2, <1>3, <1>4, <1>5, <1>6
    <3>2. QED
      BY <1>1, <1>3, <1>7, <2>2, <3>1
  <2>3. QED
    BY <1>1, <2>1, <2>2
<1>16. ASSUME NEW a \in aLive', NEW b \in aLive', a # b, a.block = b.block
       PROVE  a.from + a.size <= b.from \/ b.from + b.size <= a.from
  <2>1. CASE a \in aLive /\ b \in aLive
    BY <1>9, <1>16, <2>1
  <2>2. CASE a = x /\ b \in aLive
    BY <1>7, <1>10, <1>16, <2>2
  <2>3. CASE a \in aLive /\ b = x
    BY <1>7, <1>10, <1>16, <2>3
  <2>4. QED
    BY <1>1, <1>16, <2>1, <2>2, <2>3
<1>17. AreaCut'
  BY <1>12, <1>13, <1>14, <1>15, <1>16 DEF AreaCut
<1>18. QED
  BY <1>8, <1>17

(* Blocks that are added change nothing for a request served before.       *)
LEMMA ServesStill ==
  ASSUME NEW B, Extends(B), aBlocks \in Seq(Block), NEW m \in Nat, m <= Len(aBlocks), NEW n \in Nat, m <= n,
         NEW i \in 1..m, NEW p, NEW r, NEW j, NEW q, Serves(aBlocks, m, i, p, r, j, q)
  PROVE  Serves(B, n, i, p, r, j, q)
<1>1. Len(aBlocks) \in Nat /\ \A k \in 1..Len(aBlocks) : B[k] = aBlocks[k]
  BY LenProperties DEF Extends
<1>2. \A k \in 1..m : B[k] = aBlocks[k]
  BY <1>1
<1>3. j \in 1..m /\ j \in 1..n /\ \A k \in (i + 1)..(j - 1) : k \in 1..m
  BY DEF Serves
<1>4. QED
  BY <1>2, <1>3 DEF Serves

LEMMA LeadsStill ==
  ASSUME NEW B, Extends(B), aBlocks \in Seq(Block), Len(aBlocks) > 0, NEW m \in Nat, m <= Len(aBlocks), NEW n \in Nat, m <= n,
         NEW s \in Seq(Requests), NEW at, NEW ps, Leads(aBlocks, m, s, at, ps)
  PROVE  Leads(B, n, s, at, ps) /\ \A k \in 0..Len(s) : k > 0 => at[k] \in 1..m
<1>1. Len(aBlocks) \in Nat /\ B[1] = aBlocks[1] /\ Len(s) \in Nat
  BY LenProperties DEF Extends
<1>2. /\ at[0] = 1 /\ ps[0] = aBlocks[1].base
      /\ \A k \in 1..Len(s) : Serves(aBlocks, m, at[k - 1], ps[k - 1], s[k], at[k], ps[k])
  BY DEF Leads
<1>3. \A k \in 1..Len(s) : at[k] \in 1..m
  BY <1>2 DEF Serves
<1>4. ASSUME NEW k \in 1..Len(s) PROVE Serves(B, n, at[k - 1], ps[k - 1], s[k], at[k], ps[k])
  <2>1. at[k - 1] \in 1..m
    <3>1. CASE k = 1
      BY <1>2, <1>3, <3>1
    <3>2. CASE k # 1
      <4>1. k - 1 \in 1..Len(s)
        BY <1>1, <3>2
      <4>2. QED
        BY <1>3, <4>1
    <3>3. QED
      BY <3>1, <3>2
  <2>2. Serves(aBlocks, m, at[k - 1], ps[k - 1], s[k], at[k], ps[k])
    BY <1>2
  <2>3. QED
    BY <2>1, <2>2, ServesStill
<1>5. QED
  BY <1>1, <1>2, <1>3, <1>4 DEF Leads

LEMMA ReachesOn ==
  ASSUME NEW B, NEW n \in Nat, NEW s \in Seq(Requests), NEW r \in Requests, NEW i, NEW p, Reaches(B, n, s, i, p),
         NEW j, NEW q, Serves(B, n, i, p, r, j, q)
  PROVE  Reaches(B, n, Append(s, r), j, q)
<1>0. PICK at, ps : Leads(B, n, s, at, ps) /\ at[Len(s)] = i /\ ps[Len(s)] = p
  BY DEF Reaches
<1>1. Len(s) \in Nat /\ Len(Append(s, r)) = Len(s) + 1
  BY LenProperties
<1> DEFINE l == Len(s)
           at2 == [k \in 0..(l + 1) |-> IF k = l + 1 THEN j ELSE at[k]]
           ps2 == [k \in 0..(l + 1) |-> IF k = l + 1 THEN q ELSE ps[k]]
<1>2. /\ at[0] = 1 /\ ps[0] = B[1].base /\ at[l] = i /\ ps[l] = p
      /\ \A k \in 1..l : Serves(B, n, at[k - 1], ps[k - 1], s[k], at[k], ps[k])
  BY <1>0 DEF Leads
<1>3. l \in Nat /\ \A k \in 1..l : Append(s, r)[k] = s[k]
  BY <1>1
<1>4. Append(s, r)[l + 1] = r
  BY <1>1
<1>5. /\ \A k \in 0..l : at2[k] = at[k] /\ ps2[k] = ps[k]
      /\ at2[l + 1] = j /\ ps2[l + 1] = q
  BY <1>3
<1> HIDE DEF at2, ps2
<1>6. ASSUME NEW k \in 1..(l + 1) PROVE Serves(B, n, at2[k - 1], ps2[k - 1], Append(s, r)[k], at2[k], ps2[k])
  <2>1. CASE k = l + 1
    <3>1. k - 1 = l /\ l \in 0..l
      BY <1>3, <2>1
    <3>2. QED
      BY <1>2, <1>4, <1>5, <2>1, <3>1
  <2>2. CASE k # l + 1
    <3>1. k \in 1..l /\ k \in 0..l /\ k - 1 \in 0..l
      BY <1>3, <2>2
    <3>2. QED
      BY <1>2, <1>3, <1>5, <3>1
  <2>3. QED
    BY <2>1, <2>2
<1>7. at2[0] = 1 /\ ps2[0] = B[1].base
  BY <1>2, <1>3, <1>5
<1>8. Leads(B, n, Append(s, r), at2, ps2)
  BY <1>1, <1>6, <1>7 DEF Leads
<1>9. QED
  BY <1>1, <1>5, <1>8 DEF Reaches

(* A request is served in one way.                                         *)
LEMMA ServesOnce ==
  ASSUME NEW B, NEW n \in Nat, NEW i \in Nat, NEW p, NEW r, NEW j, NEW q, NEW k, NEW o,
         Serves(B, n, i, p, r, j, q), Serves(B, n, i, p, r, k, o)
  PROVE  j = k /\ q = o
<1>1. CASE Area!Fits(B[i], p, r)
  BY <1>1 DEF Serves
<1>2. CASE ~Area!Fits(B[i], p, r)
  <2>1. /\ j \in 1..n /\ i < j /\ Area!Fits(B[j], B[j].base, r)
        /\ \A l \in (i + 1)..(j - 1) : ~Area!Fits(B[l], B[l].base, r)
        /\ q = Area!Aligned(B[j].base, r.alignment) + r.size
    BY <1>2 DEF Serves
  <2>2. /\ k \in 1..n /\ i < k /\ Area!Fits(B[k], B[k].base, r)
        /\ \A l \in (i + 1)..(k - 1) : ~Area!Fits(B[l], B[l].base, r)
        /\ o = Area!Aligned(B[k].base, r.alignment) + r.size
    BY <1>2 DEF Serves
  <2>3. ~(j < k)
    <3>1. j < k => j \in (i + 1)..(k - 1)
      BY <2>1, <2>2
    <3>2. QED
      BY <2>1, <2>2, <3>1
  <2>4. ~(k < j)
    <3>1. k < j => k \in (i + 1)..(j - 1)
      BY <2>1, <2>2
    <3>2. QED
      BY <2>1, <2>2, <3>1
  <2>5. j = k
    BY <2>1, <2>2, <2>3, <2>4
  <2>6. QED
    BY <2>1, <2>2, <2>5
<1>3. QED
  BY <1>1, <1>2

(* The first request is served as if the first block had been there.       *)
Front(B) == IF index = 0 THEN 1 ELSE index
Place(B) == IF index = 0 THEN B[1].base ELSE current

LEMMA AreaTakeLeads ==
  ASSUME AreaTypes, AreaAgain, NEW request \in Requests,
         NEW B, Extends(B), NEW i \in 1..Len(B), NEW p, Area!Take(request, B, i, p),
         Serves(B, Len(B), Front(B), Place(B), request, i, Area!Aligned(p, request.alignment) + request.size),
         Len(aBlocks) < Len(B) => Len(aBlocks) < i
  PROVE  AreaAgain'
<1> DEFINE c == Area!Aligned(p, request.alignment) + request.size
<1>1. /\ aBlocks' = B /\ index' = i /\ current' = c
      /\ asked' = Append(asked, request) /\ before' = before /\ held' = held
  BY DEF Area!Take
<1>2. /\ aBlocks \in Seq(Block) /\ Len(aBlocks) \in Nat /\ B \in Seq(Block) /\ Len(B) \in Nat /\ Len(aBlocks) <= Len(B)
      /\ asked \in Seq(Requests) /\ before \in Seq(Requests) /\ Len(asked) \in Nat /\ Len(before) \in Nat
      /\ index \in 0..Len(aBlocks) /\ held \in Nat /\ held <= Len(aBlocks)
      /\ index = 0 => asked = <<>> /\ before = <<>>
  BY LenProperties DEF AreaTypes, Extends
<1>3. Serves(B, Len(B), Front(B), Place(B), request, i, c)
  OBVIOUS
<1> HIDE DEF c
<1>4. asked' \in Seq(Requests) /\ Len(asked') = Len(asked) + 1 /\ asked'[Len(asked) + 1] = request
      /\ \A k \in 1..Len(asked) : asked'[k] = asked[k]
  BY <1>1, <1>2
<1>5. Reaches(B, Len(B), asked, Front(B), Place(B))
  <2>1. CASE index = 0
    <3> DEFINE at == [k \in {0} |-> 1]
               ps == [k \in {0} |-> B[1].base]
    <3>1. asked = <<>> /\ Len(asked) = 0
      BY <1>2, <2>1
    <3>2. Leads(B, Len(B), asked, at, ps)
      BY <3>1 DEF Leads
    <3>3. at[Len(asked)] = Front(B) /\ ps[Len(asked)] = Place(B)
      BY <2>1, <3>1 DEF Front, Place
    <3> HIDE DEF at, ps
    <3>4. QED
      BY <3>2, <3>3 DEF Reaches
  <2>2. CASE index > 0
    <3>1. PICK at, ps : Leads(aBlocks, Len(aBlocks), asked, at, ps) /\ at[Len(asked)] = index /\ ps[Len(asked)] = current
      BY <2>2 DEF AreaAgain, Reaches
    <3>2. Leads(B, Len(B), asked, at, ps)
      <4>1. Len(aBlocks) > 0 /\ Len(aBlocks) <= Len(aBlocks)
        BY <1>2, <2>2
      <4>2. QED
        BY <1>2, <3>1, <4>1, LeadsStill
    <3>3. Front(B) = index /\ Place(B) = current
      BY <2>2 DEF Front, Place
    <3>4. QED
      BY <3>1, <3>2, <3>3 DEF Reaches
  <2>3. QED
    BY <1>2, <2>1, <2>2
<1>6. Reaches(B, Len(B), asked', i, c)
  <2>1. Reaches(B, Len(B), Append(asked, request), i, c)
    BY <1>2, <1>3, <1>5, ReachesOn
  <2>2. QED
    BY <1>1, <2>1
<1>7. \E at, ps :
        /\ Leads(B, held, before, at, ps)
        /\ Area!IsPrefix(asked', before) => Len(B) = held /\ at[Len(asked')] = i /\ ps[Len(asked')] = c
  <2>1. CASE index = 0
    <3> DEFINE at == [k \in {0} |-> 1]
               ps == [k \in {0} |-> B[1].base]
    <3>1. before = <<>> /\ Len(before) = 0 /\ Len(asked') = 1
      BY <1>2, <1>4, <2>1
    <3>2. Leads(B, held, before, at, ps)
      BY <3>1 DEF Leads
    <3>3. ~Area!IsPrefix(asked', before)
      BY <1>2, <1>4, <3>1, PrefixMeans
    <3> HIDE DEF at, ps
    <3>4. QED
      BY <3>2, <3>3
  <2>2. CASE index > 0
    <3>1. PICK at, ps :
            /\ Leads(aBlocks, held, before, at, ps)
            /\ Area!IsPrefix(asked, before) =>
                 Len(aBlocks) = held /\ at[Len(asked)] = index /\ ps[Len(asked)] = current
      BY <2>2 DEF AreaAgain
    <3>2. Leads(B, held, before, at, ps)
      <4>1. Len(aBlocks) > 0 /\ held <= held
        BY <1>2, <2>2
      <4>2. QED
        BY <1>2, <3>1, <4>1, LeadsStill
    <3>3. ASSUME Area!IsPrefix(asked', before)
          PROVE  Len(B) = held /\ at[Len(asked')] = i /\ ps[Len(asked')] = c
      <4>1. Len(asked') <= Len(before) /\ \A k \in 1..Len(asked') : asked'[k] = before[k]
        BY SMTT(60), <1>2, <1>4, <3>3, PrefixMeans
      <4>2. Area!IsPrefix(asked, before)
        <5>1. Len(asked) <= Len(before) /\ \A k \in 1..Len(asked) : k \in 1..Len(asked')
          BY <1>2, <1>4, <4>1
        <5>2. \A k \in 1..Len(asked) : asked[k] = before[k]
          BY <1>4, <4>1, <5>1
        <5>3. QED
          BY <1>2, <5>1, <5>2, PrefixMeans
      <4>3. Len(aBlocks) = held /\ at[Len(asked)] = index /\ ps[Len(asked)] = current
        BY <3>1, <4>2
      <4> DEFINE k == Len(asked) + 1
      <4>4. k \in 1..Len(before) /\ k - 1 = Len(asked) /\ before[k] = request /\ Len(asked') = k
        BY <1>2, <1>4, <4>1
      <4> HIDE DEF k
      <4>5. Serves(aBlocks, held, index, current, request, at[k], ps[k])
        <5>1. Serves(aBlocks, held, at[k - 1], ps[k - 1], before[k], at[k], ps[k])
          BY <3>1, <4>4 DEF Leads
        <5>2. QED
          BY <4>3, <4>4, <5>1
      <4>6. Serves(B, Len(B), index, current, request, at[k], ps[k])
        <5>1. index \in 1..held /\ held <= Len(B)
          BY <1>2, <2>2, <4>3
        <5>2. QED
          BY <1>2, <4>5, <5>1, ServesStill
      <4>7. Serves(B, Len(B), index, current, request, i, c)
        BY <1>3, <2>2 DEF Front, Place
      <4>8. at[k] = i /\ ps[k] = c
        <5>1. index \in Nat
          BY <1>2
        <5>2. QED
          BY <1>2, <4>6, <4>7, <5>1, ServesOnce
      <4>9. i <= Len(aBlocks)
        BY <4>3, <4>5, <4>8 DEF Serves
      <4>10. Len(B) = held
        BY <1>2, <4>3, <4>9
      <4>11. QED
        BY <4>4, <4>8, <4>10
    <3>4. QED
      BY <3>2, <3>3
  <2>3. QED
    BY <1>2, <2>1, <2>2
<1>8. QED
  BY <1>1, <1>6, <1>7 DEF AreaAgain

LEMMA AreaCurrentKeeps ==
  ASSUME Area!ArenaAssumption, AreaInv, NEW request \in Requests, Area!InCurrent(request)
  PROVE  AreaInv'
<1>1. /\ index > 0 /\ Area!Fits(aBlocks[index], current, request) /\ Area!Take(request, aBlocks, index, current)
      /\ AreaTypes /\ AreaCut /\ AreaAgain
  BY DEF Area!InCurrent, Area!FitsCurrent, AreaInv
<1>2. index \in 1..Len(aBlocks) /\ current \in Nat /\ Len(aBlocks) \in Nat
  BY <1>1, LenProperties DEF AreaTypes
<1>3. Extends(aBlocks)
  BY <1>1, <1>2 DEF Extends, AreaTypes
<1>4. AreaTypes' /\ AreaCut'
  BY <1>1, <1>2, <1>3, AreaTakeCuts
<1>5. Serves(aBlocks, Len(aBlocks), Front(aBlocks), Place(aBlocks), request, index,
        Area!Aligned(current, request.alignment) + request.size)
  BY <1>1, <1>2 DEF Serves, Front, Place
<1>6. ~(Len(aBlocks) < Len(aBlocks))
  BY <1>2
<1>7. AreaAgain'
  BY <1>1, <1>2, <1>3, <1>5, <1>6, AreaTakeLeads
<1>8. QED
  BY <1>4, <1>7 DEF AreaInv

LEMMA AreaLaterKeeps ==
  ASSUME Area!ArenaAssumption, AreaInv, NEW request \in Requests, Area!InLater(request)
  PROVE  AreaInv'
<1> DEFINE T == Area!LaterBlocks(request)
           i == Area!Min(T)
           p == aBlocks[i].base
<1>1. ~Area!FitsCurrent(request) /\ T # {} /\ Area!Take(request, aBlocks, i, p) /\ AreaTypes /\ AreaCut /\ AreaAgain
  BY DEF Area!InLater, AreaInv
<1>2. Len(aBlocks) \in Nat /\ index \in 0..Len(aBlocks) /\ aBlocks \in Seq(Block)
  BY <1>1, LenProperties DEF AreaTypes
<1>3. \A k : k \in T <=> k \in (index + 1)..Len(aBlocks) /\ Area!Fits(aBlocks[k], aBlocks[k].base, request)
  BY DEF Area!LaterBlocks
<1>4. T \in SUBSET Nat
  BY <1>2, <1>3
<1> HIDE DEF T
<1>5. i \in T /\ \A n \in T : i <= n
  BY <1>1, <1>4, LeastOfSet
<1> HIDE DEF i
<1>6. i \in (index + 1)..Len(aBlocks) /\ Area!Fits(aBlocks[i], p, request) /\ i \in 1..Len(aBlocks) /\ i > index /\ index > 0
  <2>1. i \in (index + 1)..Len(aBlocks) /\ Area!Fits(aBlocks[i], p, request)
    BY <1>3, <1>5
  <2>2. index > 0
    <3>1. index # 0
      BY <1>1, <1>2, <2>1 DEF AreaTypes
    <3>2. QED
      BY <1>2, <3>1
  <2>3. QED
    BY <1>2, <2>1, <2>2
<1>7. \A k \in (index + 1)..(i - 1) : ~Area!Fits(aBlocks[k], aBlocks[k].base, request)
  <2>1. \A k \in (index + 1)..(i - 1) : k \in (index + 1)..Len(aBlocks) /\ ~(i <= k)
    BY <1>2, <1>6
  <2>2. QED
    BY <1>3, <1>5, <2>1
<1>8. ~Area!Fits(aBlocks[index], current, request)
  BY <1>1, <1>6 DEF Area!FitsCurrent
<1>9. Extends(aBlocks)
  BY <1>1, <1>2 DEF Extends
<1>10. p \in Nat
  <2>1. aBlocks[i] \in Block
    BY <1>2, <1>6, ElementOfSeq
  <2>2. QED
    BY <2>1 DEF Block
<1>11. AreaTypes' /\ AreaCut'
  BY <1>1, <1>6, <1>9, <1>10, AreaTakeCuts
<1>12. Serves(aBlocks, Len(aBlocks), Front(aBlocks), Place(aBlocks), request, i,
         Area!Aligned(p, request.alignment) + request.size)
  <2>1. Front(aBlocks) = index /\ Place(aBlocks) = current
    BY <1>6 DEF Front, Place
  <2>2. index < i
    BY <1>2, <1>6
  <2>3. QED
    BY <1>6, <1>7, <1>8, <2>1, <2>2 DEF Serves
<1>13. ~(Len(aBlocks) < Len(aBlocks))
  BY <1>2
<1>14. AreaAgain'
  BY <1>1, <1>6, <1>9, <1>12, <1>13, AreaTakeLeads
<1>15. QED
  BY <1>11, <1>14 DEF AreaInv

LEMMA AreaNewKeeps ==
  ASSUME Area!ArenaAssumption, AreaInv, NEW request \in Requests, NEW base \in Bases, Area!InNew(request, base)
  PROVE  AreaInv'
<1> DEFINE size == Area!Max({AreaBlock, request.size + request.alignment})
           b == [base |-> base, size |-> size]
           B == Append(aBlocks, b)
           i == Len(aBlocks) + 1
<1>1. /\ ~Area!FitsCurrent(request) /\ Area!LaterBlocks(request) = {} /\ Area!Take(request, B, i, base)
      /\ AreaTypes /\ AreaCut /\ AreaAgain
  BY DEF Area!InNew, AreaInv
<1>2. /\ request.size \in Nat \ {0} /\ request.alignment \in Nat \ {0} /\ base \in Nat /\ AreaBlock \in Nat
      /\ request.size + request.alignment \in Nat
  BY DEF Area!ArenaAssumption
<1>3. size \in Nat /\ size >= request.size + request.alignment
  BY <1>2, LargestOfTwo
<1> HIDE DEF size
<1>4. b \in Block /\ b.base = base /\ b.size = size
  BY <1>2, <1>3 DEF Block
<1> HIDE DEF b
<1>5. /\ Len(aBlocks) \in Nat /\ index \in 0..Len(aBlocks) /\ aBlocks \in Seq(Block)
      /\ index = 0 => aBlocks = <<>>
  BY <1>1, LenProperties DEF AreaTypes
<1>6. /\ B \in Seq(Block) /\ Len(B) = i /\ B[i] = b /\ \A k \in 1..Len(aBlocks) : B[k] = aBlocks[k]
  BY <1>4, <1>5
<1>7. Len(B) \in Nat /\ i \in 1..Len(B) /\ Len(aBlocks) <= Len(B) /\ i > index /\ Len(aBlocks) < i
  BY <1>5, <1>6
<1> HIDE DEF B, i
<1>8. Extends(B)
  BY <1>6, <1>7 DEF Extends
<1>9. base = B[i].base /\ Area!Fits(B[i], base, request)
  <2>1. Area!Aligned(base, request.alignment) \in Nat /\ Area!Aligned(base, request.alignment) <= base + request.alignment - 1
    BY <1>2, AlignedUp
  <2>2. Area!Aligned(base, request.alignment) + request.size <= base + size
    BY <1>2, <1>3, <2>1
  <2>3. QED
    BY <1>4, <1>6, <2>2 DEF Area!Fits
<1>10. AreaTypes' /\ AreaCut'
  BY <1>1, <1>2, <1>7, <1>8, <1>9, AreaTakeCuts
<1>11. Serves(B, Len(B), Front(B), Place(B), request, i, Area!Aligned(base, request.alignment) + request.size)
  <2>1. CASE index = 0
    <3>1. i = 1
      BY <1>5, <2>1 DEF i
    <3>2. Front(B) = i /\ Place(B) = base
      BY <1>9, <2>1, <3>1 DEF Front, Place
    <3>3. QED
      BY <1>7, <1>9, <3>2 DEF Serves
  <2>2. CASE index > 0
    <3>1. Front(B) = index /\ Place(B) = current /\ index \in 1..Len(aBlocks)
      BY <1>5, <2>2 DEF Front, Place
    <3>2. ~Area!Fits(B[index], current, request)
      BY <1>1, <1>6, <2>2, <3>1 DEF Area!FitsCurrent
    <3>3. \A k \in (index + 1)..(i - 1) : k \in (index + 1)..Len(aBlocks) /\ k \in 1..Len(aBlocks)
      BY <1>5, <3>1 DEF i
    <3>4. \A k \in (index + 1)..(i - 1) : ~Area!Fits(B[k], B[k].base, request)
      BY <1>1, <1>6, <3>3 DEF Area!LaterBlocks
    <3>5. index < i
      BY <1>5, <1>7
    <3>6. QED
      BY <1>7, <1>9, <3>1, <3>2, <3>4, <3>5 DEF Serves
  <2>3. QED
    BY <1>5, <2>1, <2>2
<1>12. AreaAgain'
  BY <1>1, <1>7, <1>8, <1>11, AreaTakeLeads
<1>13. QED
  BY <1>10, <1>12 DEF AreaInv

LEMMA AreaEmptyKeeps ==
  ASSUME AreaInv, Area!Reset \/ Area!Clear
  PROVE  AreaInv'
<1>1. /\ aBlocks \in Seq(Block) /\ Len(aBlocks) \in Nat /\ asked \in Seq(Requests) /\ Len(asked) \in Nat
      /\ index \in 0..Len(aBlocks) /\ current \in Nat
      /\ index = 0 => aBlocks = <<>> /\ asked = <<>> /\ before = <<>> /\ aLive = {}
  BY LenProperties DEF AreaInv, AreaTypes
<1>2. total' = 0 /\ aLive' = {} /\ asked' = <<>>
  BY DEF Area!Reset, Area!Clear
<1>3. AreaCut'
  <2>1. IsFiniteSet({}) /\ SumFunctionOnSet(Sizes({}), {}) = 0
    BY FS_EmptySet, SumEmpty
  <2>2. QED
    BY <1>2, <2>1 DEF AreaCut
<1>4. asked' \in Seq(Requests) /\ Len(asked') = 0
  BY <1>2
<1>5. CASE Area!Clear
  <2>1. aBlocks' = <<>> /\ index' = 0 /\ current' = 0 /\ before' = <<>> /\ held' = 0
    BY <1>5 DEF Area!Clear
  <2>2. aBlocks' \in Seq(Block) /\ before' \in Seq(Requests) /\ Len(aBlocks') = 0
    BY <2>1
  <2>3. QED
    BY <1>2, <1>3, <1>4, <2>1, <2>2 DEF AreaInv, AreaTypes, AreaAgain
<1>6. CASE Area!Reset /\ aBlocks = <<>>
  <2>1. aBlocks' = <<>> /\ index' = 0 /\ current' = current /\ before' = asked /\ held' = 0 /\ index = 0
    BY <1>1, <1>6 DEF Area!Reset
  <2>2. before' = <<>> /\ Len(aBlocks') = 0 /\ aBlocks' \in Seq(Block) /\ before' \in Seq(Requests)
    BY <1>1, <2>1
  <2>3. QED
    BY <1>1, <1>2, <1>3, <1>4, <2>1, <2>2 DEF AreaInv, AreaTypes, AreaAgain
<1>7. CASE Area!Reset /\ aBlocks # <<>>
  <2>1. aBlocks' = aBlocks /\ index' = 1 /\ current' = aBlocks[1].base /\ before' = asked /\ held' = Len(aBlocks)
    BY <1>7 DEF Area!Reset
  <2>2. Len(aBlocks) > 0 /\ index > 0 /\ 1 \in 1..Len(aBlocks)
    BY <1>1, <1>7, EmptySeq
  <2>3. aBlocks[1].base \in Nat /\ aBlocks[1].base <= aBlocks[1].base + aBlocks[1].size
    <3>1. aBlocks[1] \in Block
      BY <1>1, <2>2, ElementOfSeq
    <3>2. QED
      BY <3>1 DEF Block
  <2>4. AreaTypes'
    BY <1>1, <1>4, <2>1, <2>2, <2>3 DEF AreaTypes
  <2>5. PICK at, ps : Leads(aBlocks, Len(aBlocks), asked, at, ps)
    BY <2>2 DEF AreaInv, AreaAgain, Reaches
  <2>6. at[0] = 1 /\ ps[0] = aBlocks[1].base
    BY <2>5 DEF Leads
  <2>7. Leads(aBlocks, Len(aBlocks), asked', at, ps)
    BY <1>4, <2>6 DEF Leads
  <2>8. Reaches(aBlocks', Len(aBlocks'), asked', index', current')
    BY <1>4, <2>1, <2>6, <2>7 DEF Reaches
  <2>9. \E a, q : /\ Leads(aBlocks', held', before', a, q)
                  /\ Area!IsPrefix(asked', before') =>
                       Len(aBlocks') = held' /\ a[Len(asked')] = index' /\ q[Len(asked')] = current'
    BY <1>4, <2>1, <2>5, <2>6
  <2>10. QED
    BY <1>3, <2>4, <2>8, <2>9 DEF AreaInv, AreaAgain
<1>8. QED
  BY <1>5, <1>6, <1>7

LEMMA AreaReuses == ASSUME AreaInv PROVE Area!ArenaReusesSafely
<1>1. /\ \A a \in aLive :
           /\ a.from % a.alignment = 0
           /\ aBlocks[a.block].base <= a.from
           /\ a.from + a.size <= aBlocks[a.block].base + aBlocks[a.block].size
           /\ \A b \in aLive \ {a} :
                a.block = b.block => a.from + a.size <= b.from \/ b.from + b.size <= a.from
  BY DEF AreaInv, AreaCut
<1>2. total = Area!SumFunctionOnSet([a \in aLive |-> a.size], aLive)
  BY SameSum DEF AreaInv, AreaCut, Sizes
<1>3. Area!IsPrefix(asked, before) => Len(aBlocks) = held
  <2>1. CASE index > 0
    BY <2>1 DEF AreaInv, AreaAgain
  <2>2. CASE index = 0
    <3>1. aBlocks = <<>> /\ Len(aBlocks) = 0 /\ held \in Nat /\ held <= Len(aBlocks)
      BY <2>2 DEF AreaInv, AreaTypes
    <3>2. QED
      BY <3>1
  <2>3. index = 0 \/ index > 0
    <3>1. index \in 0..Len(aBlocks) /\ Len(aBlocks) \in Nat
      BY LenProperties DEF AreaInv, AreaTypes
    <3>2. QED
      BY <3>1
  <2>4. QED
    BY <2>1, <2>2, <2>3
<1>4. QED
  BY <1>1, <1>2, <1>3 DEF Area!ArenaReusesSafely

-------------------------------------------------------------------------------
(* What callers of the arena hold never overlaps, is aligned and lies in a *)
(* block, the total is its sum, and a round of requests that repeats the   *)
(* round before the reset needs no further block: for any block size, any  *)
(* requests and any places where the blocks begin.                         *)
THEOREM ArenaIsSafe == ASSUME Area!ArenaAssumption PROVE Area!Spec => []ArenaReusesSafely
<1>1. Area!Init => AreaInv
  BY AreaStarts
<1>2. AreaInv /\ [Area!Next]_(Area!vars) => AreaInv'
  <2> SUFFICES ASSUME AreaInv, [Area!Next]_(Area!vars) PROVE AreaInv'
    OBVIOUS
  <2>1. CASE UNCHANGED Area!vars
    BY <2>1 DEF Area!vars, AreaInv, AreaTypes, AreaCut, AreaAgain, Reaches
  <2>2. CASE Area!Allocate
    BY <2>2, AreaCurrentKeeps, AreaLaterKeeps, AreaNewKeeps DEF Area!Allocate
  <2>3. CASE Area!Reset \/ Area!Clear
    BY <2>3, AreaEmptyKeeps
  <2>4. QED
    BY <2>1, <2>2, <2>3 DEF Area!Next
<1>3. AreaInv => ArenaReusesSafely
  BY AreaReuses DEF ArenaReusesSafely
<1>4. QED
  BY <1>1, <1>2, <1>3, PTL DEF Area!Spec

-------------------------------------------------------------------------------
(* The binary log.                                                         *)

(* Reading: a function on positions, f[p] is nothing where c fails and else*)
(* x[p] and what is read from d[p] places on.  There is one, since c fails *)
(* after the last position N: it is made from the end, for k more places   *)
(* at a time.                                                              *)
ReadsOn(f, c, x, d) == f = [p \in Nat \ {0} |-> IF ~c[p] THEN <<>> ELSE x[p] \o f[p + d[p]]]
OnePlace(g, c, x, d, p) == IF ~c[p] THEN <<>> ELSE x[p] \o g[p + d[p]]
ReadsFrom(g, c, x, d, N, k) ==
  /\ g = [p \in Nat \ {0} |-> g[p]]
  /\ \A p \in Nat \ {0} : p + k > N => g[p] = OnePlace(g, c, x, d, p)

LEMMA ReadingExtends ==
  ASSUME NEW N \in Nat, NEW c, NEW x, NEW d, \A p \in Nat \ {0} : d[p] \in Nat \ {0},
         NEW k \in Nat, NEW g, ReadsFrom(g, c, x, d, N, k)
  PROVE  \E h : ReadsFrom(h, c, x, d, N, k + 1)
<1> DEFINE h == [p \in Nat \ {0} |-> IF p + k = N THEN OnePlace(g, c, x, d, p) ELSE g[p]]
<1>1. \A p \in Nat \ {0} : p + k > N => h[p] = g[p]
  OBVIOUS
<1>2. ASSUME NEW p \in Nat \ {0}, p + (k + 1) > N PROVE h[p] = OnePlace(g, c, x, d, p)
  BY <1>2 DEF ReadsFrom
<1>3. ASSUME NEW p \in Nat \ {0}, p + (k + 1) > N PROVE OnePlace(h, c, x, d, p) = OnePlace(g, c, x, d, p)
  <2>1. p + d[p] \in Nat \ {0} /\ (p + d[p]) + k > N
    BY <1>3
  <2>2. h[p + d[p]] = g[p + d[p]]
    BY <1>1, <2>1
  <2>3. QED
    BY <2>2 DEF OnePlace
<1>4. h = [p \in Nat \ {0} |-> h[p]]
  OBVIOUS
<1> HIDE DEF h
<1>5. QED
  BY <1>2, <1>3, <1>4 DEF ReadsFrom

LEMMA ReadingExists ==
  ASSUME NEW N \in Nat, NEW c, NEW x, NEW d, \A p \in Nat \ {0} : d[p] \in Nat \ {0},
         \A p \in Nat \ {0} : c[p] => p <= N
  PROVE  \E f : ReadsOn(f, c, x, d)
<1> DEFINE T == {k \in Nat : ~ \E g : ReadsFrom(g, c, x, d, N, k)}
<1>1. 0 \notin T
  <2> DEFINE z == [p \in Nat \ {0} |-> <<>>]
  <2>1. ASSUME NEW p \in Nat \ {0}, p + 0 > N PROVE z[p] = OnePlace(z, c, x, d, p)
    <3>1. ~(p <= N) /\ z[p] = <<>>
      BY <2>1
    <3>2. ~c[p]
      BY <3>1
    <3> HIDE DEF z
    <3>3. QED
      BY <3>1, <3>2, Zenon DEF OnePlace
  <2>2. z = [p \in Nat \ {0} |-> z[p]]
    OBVIOUS
  <2> HIDE DEF z
  <2>3. ReadsFrom(z, c, x, d, N, 0)
    BY <2>1, <2>2 DEF ReadsFrom
  <2>4. QED
    BY <2>3
<1>2. ASSUME T # {} PROVE FALSE
  <2>1. T \in SUBSET Nat
    OBVIOUS
  <2>2. PICK m \in T : \A n \in T : m <= n
    BY <1>2, <2>1, NatLeast
  <2>3. m \in Nat /\ m - 1 \in Nat /\ m - 1 \notin T
    BY <1>1, <2>1, <2>2
  <2>4. PICK g : ReadsFrom(g, c, x, d, N, m - 1)
    BY <2>3
  <2>5. \E h : ReadsFrom(h, c, x, d, N, (m - 1) + 1)
    BY <2>3, <2>4, ReadingExtends
  <2>6. (m - 1) + 1 = m
    BY <2>3
  <2>7. QED
    BY <2>2, <2>5, <2>6
<1>3. PICK f : ReadsFrom(f, c, x, d, N, N + 1)
  <2> HIDE DEF T
  <2>1. N + 1 \in Nat /\ N + 1 \notin T
    BY <1>2
  <2> USE DEF T
  <2>2. QED
    BY <2>1
<1>4. \A p \in Nat \ {0} : p + (N + 1) > N
  OBVIOUS
<1>5. \A p \in Nat \ {0} : f[p] = OnePlace(f, c, x, d, p)
  BY <1>3, <1>4 DEF ReadsFrom
<1>6. f = [p \in Nat \ {0} |-> OnePlace(f, c, x, d, p)]
  BY <1>3, <1>5 DEF ReadsFrom
<1>7. QED
  BY <1>6 DEF ReadsOn, OnePlace

-------------------------------------------------------------------------------
(* What a file holds.                                                      *)

\* Record k of L begins at st[k].
Starts(L, st) ==
  /\ st \in [1..(Len(L) + 1) -> Nat] /\ st[1] = 2
  /\ \A k \in 1..Len(L) : st[k + 1] - st[k] \in RecordSizes
CellAt(L, st, c, x) ==
  \/ c = 1 /\ x = [rec |-> 0, part |-> 1, of |-> 1]
  \/ \E k \in 1..Len(L) :
       /\ st[k] <= c /\ c < st[k + 1]
       /\ x = [rec |-> L[k], part |-> (c - st[k]) + 1, of |-> st[k + 1] - st[k]]
\* The cells are those of the records L, up to some cell.
Laid(cells, L, st) ==
  /\ cells \in Seq(Log!Cell) /\ L \in Seq(Nat) /\ Starts(L, st)
  /\ Len(cells) < st[Len(L) + 1]
  /\ \A c \in 1..Len(cells) : CellAt(L, st, c, cells[c])
Complete(cells, L, st) == Len(cells) + 1 = st[Len(L) + 1]

LEMMA StartsTypes ==
  ASSUME Log!LogAssumption, NEW L \in Seq(Nat), NEW st, Starts(L, st)
  PROVE  /\ \A k \in 1..(Len(L) + 1) : st[k] \in Nat
         /\ \A k \in 1..Len(L) : st[k] < st[k + 1] /\ st[k + 1] - st[k] \in RecordSizes
<1>1. Len(L) \in Nat /\ RecordSizes \subseteq Nat \ {0}
  BY DEF Log!LogAssumption
<1>2. \A k \in 1..(Len(L) + 1) : st[k] \in Nat
  BY DEF Starts
<1>3. \A k \in 1..Len(L) : k \in 1..(Len(L) + 1) /\ k + 1 \in 1..(Len(L) + 1)
  BY <1>1
<1>4. \A k \in 1..Len(L) : st[k + 1] - st[k] \in Nat \ {0} /\ st[k + 1] - st[k] \in RecordSizes
  BY <1>1 DEF Starts
<1>5. QED
  BY <1>2, <1>3, <1>4

LEMMA StartsGrow ==
  ASSUME Log!LogAssumption, NEW L \in Seq(Nat), NEW st, Starts(L, st)
  PROVE  \A j, k \in 1..(Len(L) + 1) : j < k => st[j] < st[k]
<1> SUFFICES ASSUME NEW j \in 1..(Len(L) + 1) PROVE \A k \in 1..(Len(L) + 1) : j < k => st[j] < st[k]
  OBVIOUS
<1> DEFINE T == {k \in 1..(Len(L) + 1) : j < k /\ ~(st[j] < st[k])}
<1>1. Len(L) \in Nat
  OBVIOUS
<1>2. ASSUME T # {} PROVE FALSE
  <2>1. T \in SUBSET Nat
    BY <1>1
  <2>2. PICK k \in T : \A n \in T : k <= n
    BY <1>2, <2>1, NatLeast
  <2>3. k - 1 \in 1..Len(L) /\ k - 1 \in 1..(Len(L) + 1) /\ (k - 1) + 1 = k /\ j < k /\ ~(st[j] < st[k])
    BY <1>1, <2>2
  <2>4. st[k - 1] < st[k] /\ st[k - 1] \in Nat /\ st[k] \in Nat /\ st[j] \in Nat
    BY <1>1, <2>3, StartsTypes
  <2>5. CASE j = k - 1
    BY <2>3, <2>4, <2>5
  <2>6. CASE j < k - 1
    <3>1. k - 1 \notin T
      BY <2>2, <2>3
    <3>2. st[j] < st[k - 1]
      BY <2>3, <2>6, <3>1
    <3>3. QED
      BY <2>3, <2>4, <3>2
  <2>7. QED
    BY <1>1, <2>3, <2>5, <2>6
<1>3. QED
  BY <1>2

LEMMA CellsOfRecord ==
  ASSUME Log!LogAssumption, NEW cells, NEW L, NEW st, Laid(cells, L, st),
         NEW k \in 1..Len(L), NEW c \in 1..Len(cells), st[k] <= c, c < st[k + 1]
  PROVE  cells[c] = [rec |-> L[k], part |-> (c - st[k]) + 1, of |-> st[k + 1] - st[k]]
<1>1. L \in Seq(Nat) /\ Starts(L, st) /\ Len(L) \in Nat /\ CellAt(L, st, c, cells[c])
  BY DEF Laid
<1>2. /\ 1 \in 1..(Len(L) + 1) /\ k \in 1..(Len(L) + 1) /\ k + 1 \in 1..(Len(L) + 1)
      /\ \A i \in 1..Len(L) : i \in 1..(Len(L) + 1) /\ i + 1 \in 1..(Len(L) + 1)
  BY <1>1
<1>3. /\ \A i \in 1..(Len(L) + 1) : st[i] \in Nat
      /\ \A i, j \in 1..(Len(L) + 1) : i < j => st[i] < st[j]
      /\ st[1] = 2
  BY <1>1, StartsTypes, StartsGrow DEF Starts
<1>4. c # 1
  BY <1>2, <1>3
<1>5. ASSUME NEW i \in 1..Len(L), st[i] <= c, c < st[i + 1] PROVE i = k
  <2>1. ~(i < k)
    <3>1. SUFFICES ASSUME i < k PROVE FALSE
      OBVIOUS
    <3>2. st[i + 1] <= st[k]
      BY <1>2, <1>3, <3>1
    <3>3. QED
      BY <1>2, <1>3, <1>5, <3>2
  <2>2. ~(k < i)
    <3>1. SUFFICES ASSUME k < i PROVE FALSE
      OBVIOUS
    <3>2. st[k + 1] <= st[i]
      BY <1>2, <1>3, <3>1
    <3>3. QED
      BY <1>2, <1>3, <1>5, <3>2
  <2>3. QED
    BY <1>1, <2>1, <2>2
<1>6. QED
  BY <1>1, <1>4, <1>5 DEF CellAt

(* The first cells of a file are laid as well.                             *)
LEMMA LaidFirst ==
  ASSUME NEW a \in Seq(Log!Cell), NEW b \in Seq(Log!Cell), NEW L, NEW st, Laid(a \o b, L, st), Log!LogAssumption
  PROVE  Laid(a, L, st)
<1>1. Len(a) <= Len(a \o b) /\ \A c \in 1..Len(a) : c \in 1..Len(a \o b) /\ (a \o b)[c] = a[c]
  OBVIOUS
<1>2. L \in Seq(Nat) /\ Starts(L, st) /\ Len(L) + 1 \in 1..(Len(L) + 1) /\ st[Len(L) + 1] \in Nat
  BY DEF Laid, Starts
<1>3. Len(a) < st[Len(L) + 1]
  BY <1>1, <1>2 DEF Laid
<1>4. QED
  BY <1>1, <1>2, <1>3 DEF Laid

-------------------------------------------------------------------------------
(* What is replayed.                                                       *)

IsReplay(f, cells) ==
  f = [p \in Nat \ {0} |-> IF ~Log!Whole(cells, p) THEN <<>> ELSE <<cells[p].rec>> \o f[p + cells[p].of]]
IsRange(f, cells, s, e) ==
  f = [p \in Nat \ {0} |->
         IF ~Log!Whole(cells, p) \/ stamps[cells[p].rec] > e THEN <<>>
         ELSE (IF stamps[cells[p].rec] >= s THEN <<cells[p].rec>> ELSE <<>>) \o f[p + cells[p].of]]

LEMMA ReplayUnfolds ==
  ASSUME NEW cells, NEW s, NEW e
  PROVE  /\ Log!Replay(cells) = IF Log!Opens(cells) THEN (CHOOSE f : IsReplay(f, cells))[2] ELSE <<>>
         /\ Log!ReplayRange(cells, s, e) = IF Log!Opens(cells) THEN (CHOOSE f : IsRange(f, cells, s, e))[2] ELSE <<>>
BY DEF Log!Replay, Log!ReplayRange, IsReplay, IsRange

LEMMA SizeOfRecord ==
  ASSUME Log!LogAssumption, NEW cells \in Seq(Log!Cell), NEW p \in Nat \ {0}, Log!Whole(cells, p)
  PROVE  cells[p].of \in Nat \ {0} /\ p <= Len(cells)
<1>1. p \in 1..Len(cells)
  BY DEF Log!Whole
<1>2. cells[p] \in Log!Cell
  BY <1>1
<1>3. cells[p].of \in RecordSizes \cup {1} /\ RecordSizes \subseteq Nat \ {0}
  BY <1>2 DEF Log!Cell, Log!LogAssumption
<1>4. RecordSizes \subseteq Nat \ {0}
  BY <1>3
<1>5. cells[p].of \in Nat \ {0}
  <2>1. CASE cells[p].of \in RecordSizes
    BY <1>4, <2>1
  <2>2. CASE cells[p].of = 1
    BY <2>2
  <2>3. QED
    BY <1>3, <2>1, <2>2
<1>6. QED
  BY <1>1, <1>5

LEMMA ReplayReads ==
  ASSUME Log!LogAssumption, NEW cells \in Seq(Log!Cell), NEW s, NEW e
  PROVE  (\E f : IsReplay(f, cells)) /\ (\E f : IsRange(f, cells, s, e))
<1> DEFINE d == [p \in Nat \ {0} |-> IF Log!Whole(cells, p) THEN cells[p].of ELSE 1]
<1>1. \A p \in Nat \ {0} : d[p] \in Nat \ {0} /\ (Log!Whole(cells, p) => p <= Len(cells) /\ d[p] = cells[p].of)
  BY SizeOfRecord
<1>2. Len(cells) \in Nat
  OBVIOUS
<1> HIDE DEF d
<1>3. \E f : IsReplay(f, cells)
  <2> DEFINE c == [p \in Nat \ {0} |-> Log!Whole(cells, p)]
             x == [p \in Nat \ {0} |-> <<cells[p].rec>>]
  <2>1. \A p \in Nat \ {0} : c[p] = Log!Whole(cells, p) /\ x[p] = <<cells[p].rec>>
    OBVIOUS
  <2>2. \A p \in Nat \ {0} : c[p] => p <= Len(cells)
    BY <1>1, <2>1
  <2> HIDE DEF c, x
  <2>3. PICK f : ReadsOn(f, c, x, d)
    BY <1>1, <1>2, <2>2, ReadingExists
  <2>4. IsReplay(f, cells)
    BY <1>1, <2>1, <2>3 DEF ReadsOn, IsReplay
  <2>5. QED
    BY <2>4
<1>4. \E f : IsRange(f, cells, s, e)
  <2> DEFINE c == [p \in Nat \ {0} |-> ~(~Log!Whole(cells, p) \/ stamps[cells[p].rec] > e)]
             x == [p \in Nat \ {0} |-> IF stamps[cells[p].rec] >= s THEN <<cells[p].rec>> ELSE <<>>]
  <2>1. \A p \in Nat \ {0} : /\ c[p] = ~(~Log!Whole(cells, p) \/ stamps[cells[p].rec] > e)
                       /\ x[p] = IF stamps[cells[p].rec] >= s THEN <<cells[p].rec>> ELSE <<>>
    OBVIOUS
  <2>2. \A p \in Nat \ {0} : c[p] => p <= Len(cells)
    BY <1>1, <2>1
  <2> HIDE DEF c, x
  <2>3. PICK f : ReadsOn(f, c, x, d)
    BY <1>1, <1>2, <2>2, ReadingExists
  <2>4. IsRange(f, cells, s, e)
    BY <1>1, <2>1, <2>3 DEF ReadsOn, IsRange
  <2>5. QED
    BY <2>4
<1>5. QED
  BY <1>3, <1>4

\* The first m records are there to their last cell.
Ends(cells, L, st, m) ==
  /\ m \in 0..Len(L)
  /\ \A k \in 1..m : st[k + 1] <= Len(cells) + 1
  /\ m < Len(L) => st[m + 2] > Len(cells) + 1

LEMMA SomeAreWhole ==
  ASSUME Log!LogAssumption, NEW cells, NEW L, NEW st, Laid(cells, L, st)
  PROVE  \E m : Ends(cells, L, st, m)
<1>1. Len(L) \in Nat /\ Len(cells) \in Nat /\ L \in Seq(Nat) /\ Starts(L, st)
  BY DEF Laid
<1> DEFINE T == {k \in 0..Len(L) : k < Len(L) => st[k + 2] > Len(cells) + 1}
<1>2. Len(L) \in T /\ T \in SUBSET Nat
  BY <1>1
<1>3. PICK m \in T : \A n \in T : m <= n
  BY <1>2, NatLeast
<1>4. ASSUME NEW k \in 1..m PROVE st[k + 1] <= Len(cells) + 1
  <2>1. k - 1 \in 0..Len(L) /\ k - 1 < Len(L) /\ k - 1 < m /\ (k - 1) + 2 = k + 1 /\ k + 1 \in 1..(Len(L) + 1)
    BY <1>1, <1>3
  <2>2. k - 1 \notin T
    BY <1>1, <1>3, <2>1
  <2>3. ~(st[k + 1] > Len(cells) + 1)
    BY <2>1, <2>2
  <2>4. st[k + 1] \in Nat
    BY <1>1, <2>1, StartsTypes
  <2>5. QED
    BY <1>1, <2>3, <2>4
<1>5. QED
  BY <1>3, <1>4 DEF Ends

LEMMA AtRecord ==
  ASSUME Log!LogAssumption, NEW cells, NEW L, NEW st, Laid(cells, L, st), NEW m, Ends(cells, L, st, m)
  PROVE  /\ m \in Nat /\ m <= Len(L) /\ Len(L) \in Nat
         /\ \A k \in 1..(m + 1) : st[k] \in Nat \ {0}
         /\ \A k \in 1..m : /\ Log!Whole(cells, st[k])
                            /\ cells[st[k]].rec = L[k] /\ st[k] + cells[st[k]].of = st[k + 1]
         /\ ~Log!Whole(cells, st[m + 1])
<1>1. /\ Len(L) \in Nat /\ Len(cells) \in Nat /\ L \in Seq(Nat) /\ Starts(L, st) /\ Len(cells) < st[Len(L) + 1]
      /\ m \in Nat /\ m <= Len(L)
  BY DEF Laid, Ends
<1>2. /\ \A k \in 1..(Len(L) + 1) : st[k] \in Nat
      /\ \A j, k \in 1..(Len(L) + 1) : j < k => st[j] < st[k]
      /\ st[1] = 2
  BY <1>1, StartsTypes, StartsGrow DEF Starts
<1>3. \A k \in 1..(Len(L) + 1) : st[k] >= 2
  <2>1. 1 \in 1..(Len(L) + 1)
    BY <1>1
  <2>2. QED
    BY <1>1, <1>2, <2>1
<1>4. ASSUME NEW k \in 1..Len(L), st[k] <= Len(cells)
      PROVE  cells[st[k]].rec = L[k] /\ cells[st[k]].of = st[k + 1] - st[k]
  <2>1. k \in 1..(Len(L) + 1) /\ k + 1 \in 1..(Len(L) + 1)
    BY <1>1
  <2>2. st[k] \in 1..Len(cells) /\ st[k] < st[k + 1]
    BY <1>1, <1>2, <1>3, <1>4, <2>1
  <2>3. ASSUME NEW c \in 1..Len(cells), c = st[k]
        PROVE  cells[c] = [rec |-> L[k], part |-> (c - st[k]) + 1, of |-> st[k + 1] - st[k]]
    <3>1. st[k] <= c /\ c < st[k + 1]
      BY <1>2, <2>1, <2>2, <2>3
    <3>2. QED
      BY <3>1, CellsOfRecord
  <2>4. cells[st[k]] = [rec |-> L[k], part |-> (st[k] - st[k]) + 1, of |-> st[k + 1] - st[k]]
    BY <2>2, <2>3
  <2>5. QED
    BY <2>4
<1>5. ASSUME NEW k \in 1..m
      PROVE  /\ Log!Whole(cells, st[k])
             /\ cells[st[k]].rec = L[k] /\ st[k] + cells[st[k]].of = st[k + 1]
  <2>1. k \in 1..Len(L) /\ k \in 1..(Len(L) + 1) /\ k + 1 \in 1..(Len(L) + 1)
    BY <1>1
  <2>2. st[k] \in Nat /\ st[k + 1] \in Nat /\ st[k] < st[k + 1] /\ st[k + 1] <= Len(cells) + 1
    BY <1>1, <1>2, <2>1 DEF Ends
  <2>3. cells[st[k]].rec = L[k] /\ cells[st[k]].of = st[k + 1] - st[k]
    BY <1>1, <1>4, <2>1, <2>2
  <2>4. st[k] + (st[k + 1] - st[k]) = st[k + 1]
    BY <2>2
  <2>5. st[k] <= Len(cells) /\ st[k] + cells[st[k]].of - 1 <= Len(cells)
    BY <1>1, <2>2, <2>3, <2>4
  <2>6. QED
    BY <2>2, <2>3, <2>4, <2>5 DEF Log!Whole
<1>6. m + 1 \in 1..(Len(L) + 1)
  BY <1>1
<1>7. ~Log!Whole(cells, st[m + 1])
  <2>1. SUFFICES ASSUME st[m + 1] <= Len(cells) PROVE ~Log!Whole(cells, st[m + 1])
    BY DEF Log!Whole
  <2>2. m < Len(L)
    <3>1. SUFFICES ASSUME m = Len(L) PROVE FALSE
      BY <1>1
    <3>2. QED
      BY <1>1, <1>2, <1>6, <2>1, <3>1
  <2>3. m + 1 \in 1..Len(L) /\ m + 2 \in 1..(Len(L) + 1) /\ (m + 1) + 1 = m + 2
    BY <1>1, <2>2
  <2>4. st[m + 2] > Len(cells) + 1 /\ st[m + 2] \in Nat /\ st[m + 1] \in Nat
    BY <1>2, <1>6, <2>2, <2>3 DEF Ends
  <2>5. cells[st[m + 1]].of = st[m + 2] - st[m + 1]
    BY <1>4, <2>1, <2>3
  <2>6. QED
    BY <1>1, <2>4, <2>5 DEF Log!Whole
<1>8. \A k \in 1..(m + 1) : st[k] \in Nat \ {0}
  BY <1>1, <1>2, <1>3
<1>9. QED
  BY <1>1, <1>5, <1>7, <1>8

LEMMA ReplayFrom ==
  ASSUME Log!LogAssumption, NEW cells, NEW L, NEW st, Laid(cells, L, st), NEW m, Ends(cells, L, st, m),
         NEW f, IsReplay(f, cells)
  PROVE  \A k \in 1..(m + 1) : f[st[k]] = SubSeq(L, k, m)
<1> DEFINE T == {d \in 0..m : f[st[m + 1 - d]] # SubSeq(L, m + 1 - d, m)}
<1>1. /\ m \in Nat /\ m <= Len(L) /\ Len(L) \in Nat /\ L \in Seq(Nat)
      /\ \A k \in 1..(m + 1) : st[k] \in Nat \ {0}
      /\ \A k \in 1..m : /\ Log!Whole(cells, st[k])
                         /\ cells[st[k]].rec = L[k] /\ st[k] + cells[st[k]].of = st[k + 1]
      /\ ~Log!Whole(cells, st[m + 1])
  BY AtRecord DEF Laid
<1>2. \A p \in Nat \ {0} : f[p] = IF ~Log!Whole(cells, p) THEN <<>> ELSE <<cells[p].rec>> \o f[p + cells[p].of]
  BY DEF IsReplay
<1>3. f[st[m + 1]] = SubSeq(L, m + 1, m)
  <2>1. f[st[m + 1]] = <<>>
    <3>1. m + 1 \in 1..(m + 1)
      BY <1>1
    <3>2. QED
      BY <1>1, <1>2, <3>1
  <2>2. SubSeq(L, m + 1, m) = <<>>
    BY <1>1
  <2>3. QED
    BY <2>1, <2>2
<1>4. ASSUME T # {} PROVE FALSE
  <2>1. T \in SUBSET Nat
    BY <1>1
  <2>2. PICK d \in T : \A n \in T : d <= n
    BY <1>4, <2>1, NatLeast
  <2>3. d # 0
    <3>1. m + 1 - 0 = m + 1 /\ f[st[m + 1 - d]] # SubSeq(L, m + 1 - d, m)
      BY <1>1, <2>2
    <3>2. SUFFICES ASSUME d = 0 PROVE FALSE
      OBVIOUS
    <3>3. m + 1 - d = m + 1
      BY <1>1, <3>2
    <3>4. QED
      BY <1>3, <3>1, <3>3
  <2>4. d - 1 \in 0..m /\ d - 1 \notin T /\ d \in 1..m
    <3>1. d \in 0..m /\ \A n \in T : d <= n
      BY <2>2
    <3> HIDE DEF T
    <3>2. QED
      BY <1>1, <2>3, <3>1
  <2>5. f[st[m + 1 - (d - 1)]] = SubSeq(L, m + 1 - (d - 1), m)
    BY <2>4
  <2> DEFINE k == m + 1 - d
  <2>6. k \in 1..m /\ m + 1 - (d - 1) = k + 1 /\ k \in 1..(m + 1)
    BY <1>1, <2>4
  <2>7. f[st[k]] # SubSeq(L, k, m)
    BY <2>2
  <2> HIDE DEF k, T
  <2>8. f[st[k + 1]] = SubSeq(L, k + 1, m)
    BY <2>5, <2>6
  <2>9. f[st[k]] = <<L[k]>> \o f[st[k + 1]]
    BY <1>1, <1>2, <2>6
  <2>10. m \in 0..Len(L)
    BY <1>1
  <2>11. <<L[k]>> \o SubSeq(L, k + 1, m) = SubSeq(L, k, m)
    <3>1. k \in 1..Len(L) /\ m \in k..Len(L)
      BY <1>1, <2>6, <2>10
    <3>2. QED
      BY <1>1, <3>1, SubSeqRecursiveFirst
  <2>12. QED
    BY <2>7, <2>8, <2>9, <2>11
<1>5. SUFFICES ASSUME NEW k \in 1..(m + 1) PROVE f[st[k]] = SubSeq(L, k, m)
  OBVIOUS
<1>6. m + 1 - k \in 0..m /\ m + 1 - (m + 1 - k) = k
  BY <1>1
<1>7. QED
  BY <1>4, <1>6

LEMMA WhatOpens ==
  ASSUME Log!LogAssumption, NEW cells, NEW L, NEW st, Laid(cells, L, st), NEW m, Ends(cells, L, st, m)
  PROVE  /\ Log!Opens(cells) <=> cells # <<>>
         /\ cells = <<>> => m = 0
         /\ st[1] = 2
<1>1. /\ Len(L) \in Nat /\ L \in Seq(Nat) /\ Starts(L, st) /\ m \in 0..Len(L) /\ cells \in Seq(Log!Cell)
  BY DEF Laid, Ends
<1>2. /\ st[1] = 2
      /\ \A k \in 1..Len(L) : st[k] \in Nat /\ st[k + 1] \in Nat /\ ~(st[k] <= 1) /\ ~(st[k + 1] <= 1)
  <2>1. /\ \A k \in 1..(Len(L) + 1) : st[k] \in Nat
        /\ \A j, k \in 1..(Len(L) + 1) : j < k => st[j] < st[k]
        /\ st[1] = 2
    BY <1>1, StartsTypes, StartsGrow DEF Starts
  <2>2. \A k \in 1..(Len(L) + 1) : st[k] >= 2
    <3>1. 1 \in 1..(Len(L) + 1)
      BY <1>1
    <3>2. QED
      BY <1>1, <2>1, <3>1
  <2>3. QED
    BY <1>1, <2>1, <2>2
<1>3. ASSUME cells # <<>> PROVE cells[1].rec = 0
  <2>1. 1 \in 1..Len(cells)
    BY <1>1, <1>3
  <2>2. CellAt(L, st, 1, cells[1])
    BY <2>1 DEF Laid
  <2>3. cells[1] = [rec |-> 0, part |-> 1, of |-> 1]
    BY <1>2, <2>2, Zenon DEF CellAt
  <2>4. QED
    BY <2>3
<1>4. ASSUME cells = <<>> PROVE m = 0
  <2>1. SUFFICES ASSUME m >= 1 PROVE FALSE
    BY <1>1
  <2>2. st[1 + 1] <= Len(cells) + 1 /\ Len(cells) + 1 = 1 /\ 1 \in 1..Len(L)
    BY <1>1, <1>4, <2>1 DEF Ends
  <2>3. QED
    BY <1>2, <2>2
<1>5. QED
  BY <1>2, <1>3, <1>4 DEF Log!Opens

LEMMA ReplayGives ==
  ASSUME Log!LogAssumption, NEW cells, NEW L, NEW st, Laid(cells, L, st), NEW m, Ends(cells, L, st, m)
  PROVE  Log!Replay(cells) = SubSeq(L, 1, m)
<1> DEFINE f == CHOOSE g : IsReplay(g, cells)
<1>1. cells \in Seq(Log!Cell) /\ m \in Nat /\ L \in Seq(Nat)
  BY DEF Laid, Ends
<1>2. IsReplay(f, cells)
  BY <1>1, ReplayReads
<1>3. Log!Replay(cells) = IF Log!Opens(cells) THEN f[2] ELSE <<>>
  BY ReplayUnfolds
<1> HIDE DEF f
<1>4. 1 \in 1..(m + 1)
  BY <1>1
<1>5. f[st[1]] = SubSeq(L, 1, m)
  BY <1>2, <1>4, ReplayFrom
<1>6. CASE cells = <<>>
  <2>1. m = 0 /\ ~Log!Opens(cells)
    BY <1>6, WhatOpens
  <2>2. SubSeq(L, 1, 0) = <<>>
    BY <1>1
  <2>3. QED
    BY <1>3, <2>1, <2>2
<1>7. CASE cells # <<>>
  BY <1>3, <1>5, <1>7, WhatOpens
<1>8. QED
  BY <1>6, <1>7

-------------------------------------------------------------------------------
(* What is dispatched of a range of times.                                 *)

InOrder(q) == \A i, j \in DOMAIN q : i < j => q[i] < q[j]
StampsInOrder(L, m) == \A i, j \in 1..m : i < j => stamps[L[i]] <= stamps[L[j]]
\* q is what replay_range() dispatches of the records k to m of L.
Dispatched(q, L, k, m, s, e) ==
  /\ q \in Seq(Nat) /\ InOrder(q)
  /\ \A i \in DOMAIN q : \E j \in k..m : q[i] = L[j] /\ stamps[L[j]] \in s..e
  /\ StampsInOrder(L, m) =>
       \A j \in k..m : stamps[L[j]] \in s..e => \E i \in DOMAIN q : q[i] = L[j]

LEMMA DispatchOne ==
  ASSUME NEW L \in Seq(Nat), NEW m \in 0..Len(L), NEW k \in 1..m, NEW s \in Nat, NEW e \in Nat,
         \A i, j \in 1..Len(L) : i < j => L[i] < L[j],
         stamps[L[k]] \in s..e,
         NEW q, Dispatched(q, L, k + 1, m, s, e)
  PROVE  Dispatched(<<L[k]>> \o q, L, k, m, s, e)
<1> DEFINE r == <<L[k]>> \o q
<1>1. q \in Seq(Nat) /\ InOrder(q) /\ L[k] \in Nat
  BY DEF Dispatched
<1>2. /\ r \in Seq(Nat) /\ Len(r) = Len(q) + 1 /\ r[1] = L[k]
      /\ \A i \in 2..Len(r) : r[i] = q[i - 1] /\ i - 1 \in DOMAIN q
      /\ \A i \in DOMAIN q : i + 1 \in 2..Len(r) /\ (i + 1) - 1 = i
      /\ DOMAIN r = 1..Len(r) /\ DOMAIN q = 1..Len(q) /\ Len(q) \in Nat
  BY <1>1
<1> HIDE DEF r
<1>3. \A i \in DOMAIN q : \E j \in (k + 1)..m : q[i] = L[j] /\ stamps[L[j]] \in s..e
  BY DEF Dispatched
<1>4. \A j \in (k + 1)..m : L[k] < L[j] /\ j \in k..m /\ j \in 1..Len(L)
  <2>1. SUFFICES ASSUME NEW j \in (k + 1)..m PROVE L[k] < L[j] /\ j \in k..m /\ j \in 1..Len(L)
    OBVIOUS
  <2>2. j \in k..m /\ j \in 1..Len(L) /\ k \in 1..Len(L) /\ k < j
    BY <2>1
  <2>3. QED
    BY <2>2
<1>5. \A i \in DOMAIN q : L[k] < q[i]
  BY <1>3, <1>4
<1>6. InOrder(r)
  <2>1. SUFFICES ASSUME NEW i \in 1..Len(r), NEW j \in 1..Len(r), i < j PROVE r[i] < r[j]
    BY <1>2 DEF InOrder
  <2>2. j \in 2..Len(r) /\ r[j] = q[j - 1] /\ j - 1 \in DOMAIN q
    BY <1>2, <2>1
  <2>3. CASE i = 1
    BY <1>2, <1>5, <2>2, <2>3
  <2>4. CASE i > 1
    <3>1. i \in 2..Len(r) /\ i - 1 < j - 1
      BY <1>2, <2>1, <2>4
    <3>2. r[i] = q[i - 1] /\ i - 1 \in DOMAIN q
      BY <1>2, <3>1
    <3>3. QED
      BY <1>1, <2>2, <3>1, <3>2 DEF InOrder
  <2>5. QED
    BY <1>2, <2>3, <2>4
<1>7. ASSUME NEW i \in DOMAIN r PROVE \E j \in k..m : r[i] = L[j] /\ stamps[L[j]] \in s..e
  <2>1. CASE i = 1
    <3>1. k \in k..m
      OBVIOUS
    <3>2. QED
      BY <1>2, <2>1, <3>1
  <2>2. CASE i # 1
    <3>1. i \in 2..Len(r)
      BY <1>2, <1>7, <2>2
    <3>2. r[i] = q[i - 1] /\ i - 1 \in DOMAIN q
      BY <1>2, <3>1
    <3>3. PICK j \in (k + 1)..m : q[i - 1] = L[j] /\ stamps[L[j]] \in s..e
      BY <1>3, <3>2
    <3>4. QED
      BY <1>4, <3>2, <3>3
  <2>3. QED
    BY <2>1, <2>2
<1>8. ASSUME StampsInOrder(L, m), NEW j \in k..m, stamps[L[j]] \in s..e
      PROVE  \E i \in DOMAIN r : r[i] = L[j]
  <2>1. CASE j = k
    <3>1. 1 \in DOMAIN r
      BY <1>2
    <3>2. QED
      BY <1>2, <2>1, <3>1
  <2>2. CASE j # k
    <3>1. j \in (k + 1)..m
      BY <1>8, <2>2
    <3>2. PICK i \in DOMAIN q : q[i] = L[j]
      BY <1>8, <3>1 DEF Dispatched
    <3>3. i + 1 \in 2..Len(r) /\ r[i + 1] = q[i] /\ i + 1 \in DOMAIN r
      BY <1>2
    <3>4. QED
      BY <3>2, <3>3
  <2>3. QED
    BY <2>1, <2>2
<1>9. Dispatched(r, L, k, m, s, e)
  BY <1>2, <1>6, <1>7, <1>8 DEF Dispatched
<1>10. QED
  BY <1>9 DEF r

\* Records before the range are passed over.
LEMMA DispatchNone ==
  ASSUME NEW L \in Seq(Nat), NEW m \in 0..Len(L), NEW k \in 1..m, NEW s \in Nat, NEW e \in Nat,
         ~(stamps[L[k]] \in s..e),
         NEW q, Dispatched(q, L, k + 1, m, s, e)
  PROVE  Dispatched(q, L, k, m, s, e)
<1>1. \A j \in (k + 1)..m : j \in k..m
  OBVIOUS
<1>2. \A j \in k..m : j = k \/ j \in (k + 1)..m
  OBVIOUS
<1>3. QED
  BY <1>1, <1>2 DEF Dispatched

\* Nothing is dispatched from the first record stamped after the range.
LEMMA DispatchEnds ==
  ASSUME NEW L \in Seq(Nat), NEW m \in 0..Len(L), NEW k \in 1..(m + 1), NEW s \in Nat, NEW e \in Nat,
         \A j \in 1..m : stamps[L[j]] \in Nat,
         k \in 1..m => stamps[L[k]] > e
  PROVE  Dispatched(<<>>, L, k, m, s, e)
<1>1. <<>> \in Seq(Nat) /\ DOMAIN <<>> = {}
  OBVIOUS
<1>2. ASSUME StampsInOrder(L, m), NEW j \in k..m PROVE ~(stamps[L[j]] \in s..e)
  <2>1. k \in 1..m /\ j \in 1..m /\ (k = j \/ k < j)
    OBVIOUS
  <2>2. stamps[L[k]] <= stamps[L[j]] /\ stamps[L[k]] \in Nat /\ stamps[L[j]] \in Nat
    <3>1. stamps[L[k]] \in Nat /\ stamps[L[j]] \in Nat
      BY <2>1
    <3>2. CASE k = j
      BY <3>1, <3>2
    <3>3. CASE k < j
      BY <1>2, <2>1, <3>1, <3>3 DEF StampsInOrder
    <3>4. QED
      BY <2>1, <3>2, <3>3
  <2>3. QED
    BY <2>1, <2>2
<1>3. QED
  BY <1>1, <1>2 DEF Dispatched, InOrder

LEMMA RangeFrom ==
  ASSUME Log!LogAssumption, NEW cells, NEW L, NEW st, Laid(cells, L, st), NEW m, Ends(cells, L, st, m),
         NEW s \in Nat, NEW e \in Nat, NEW f, IsRange(f, cells, s, e),
         \A i, j \in 1..Len(L) : i < j => L[i] < L[j],
         \A j \in 1..Len(L) : stamps[L[j]] \in Nat
  PROVE  \A k \in 1..(m + 1) : Dispatched(f[st[k]], L, k, m, s, e)
<1> DEFINE T == {d \in 0..m : ~Dispatched(f[st[m + 1 - d]], L, m + 1 - d, m, s, e)}
<1>0. m \in 0..Len(L)
  BY DEF Ends
<1>1. /\ m \in Nat /\ m <= Len(L) /\ Len(L) \in Nat /\ L \in Seq(Nat)
      /\ \A k \in 1..(m + 1) : st[k] \in Nat \ {0}
      /\ \A k \in 1..m : /\ Log!Whole(cells, st[k])
                         /\ cells[st[k]].rec = L[k] /\ st[k] + cells[st[k]].of = st[k + 1]
      /\ ~Log!Whole(cells, st[m + 1])
  BY AtRecord DEF Laid
<1>2. \A p \in Nat \ {0} :
        f[p] = IF ~Log!Whole(cells, p) \/ stamps[cells[p].rec] > e THEN <<>>
               ELSE (IF stamps[cells[p].rec] >= s THEN <<cells[p].rec>> ELSE <<>>) \o f[p + cells[p].of]
  BY DEF IsRange
<1>3. \A j \in 1..m : stamps[L[j]] \in Nat
  BY <1>0, <1>1
<1>4. Dispatched(f[st[m + 1]], L, m + 1, m, s, e)
  <2>1. m + 1 \in 1..(m + 1) /\ m + 1 \notin 1..m
    BY <1>1
  <2>2. f[st[m + 1]] = <<>>
    BY <1>1, <1>2, <2>1
  <2>3. Dispatched(<<>>, L, m + 1, m, s, e)
    BY <1>0, <1>1, <1>3, <2>1, DispatchEnds
  <2>4. QED
    BY <2>2, <2>3
<1>5. ASSUME NEW k \in 1..m, Dispatched(f[st[k + 1]], L, k + 1, m, s, e)
      PROVE  Dispatched(f[st[k]], L, k, m, s, e)
  <2>1. k \in 1..(m + 1) /\ stamps[L[k]] \in Nat
    BY <1>1, <1>3
  <2>2. f[st[k]] = IF stamps[L[k]] > e THEN <<>>
                   ELSE (IF stamps[L[k]] >= s THEN <<L[k]>> ELSE <<>>) \o f[st[k + 1]]
    <3> DEFINE p == st[k]
    <3>1. p \in Nat \ {0} /\ Log!Whole(cells, p) /\ cells[p].rec = L[k] /\ p + cells[p].of = st[k + 1]
      BY <1>1, <2>1
    <3>2. f[p] = IF ~Log!Whole(cells, p) \/ stamps[cells[p].rec] > e THEN <<>>
                 ELSE (IF stamps[cells[p].rec] >= s THEN <<cells[p].rec>> ELSE <<>>) \o f[p + cells[p].of]
      BY <1>2, <3>1
    <3> HIDE DEF p
    <3>3. f[p] = IF stamps[cells[p].rec] > e THEN <<>>
                 ELSE (IF stamps[cells[p].rec] >= s THEN <<cells[p].rec>> ELSE <<>>) \o f[p + cells[p].of]
      BY <3>1, <3>2
    <3>4. f[p] = IF stamps[L[k]] > e THEN <<>>
                 ELSE (IF stamps[L[k]] >= s THEN <<L[k]>> ELSE <<>>) \o f[st[k + 1]]
      BY <3>1, <3>3
    <3>5. QED
      BY <3>4 DEF p
  <2>3. CASE stamps[L[k]] > e
    <3>1. Dispatched(<<>>, L, k, m, s, e)
      BY <1>0, <1>1, <1>3, <2>1, <2>3, DispatchEnds
    <3>2. QED
      BY <2>2, <2>3, <3>1
  <2>4. CASE ~(stamps[L[k]] > e) /\ stamps[L[k]] >= s
    <3>1. stamps[L[k]] \in s..e
      BY <2>1, <2>4
    <3>2. Dispatched(<<L[k]>> \o f[st[k + 1]], L, k, m, s, e)
      BY <1>0, <1>1, <1>5, <3>1, DispatchOne
    <3>3. f[st[k]] = <<L[k]>> \o f[st[k + 1]]
      BY <2>2, <2>4
    <3>4. QED
      BY <3>2, <3>3
  <2>5. CASE ~(stamps[L[k]] > e) /\ ~(stamps[L[k]] >= s)
    <3>1. ~(stamps[L[k]] \in s..e)
      BY <2>1, <2>5
    <3>2. Dispatched(f[st[k + 1]], L, k, m, s, e)
      BY <1>0, <1>1, <1>5, <3>1, DispatchNone
    <3>3. f[st[k]] = <<>> \o f[st[k + 1]]
      BY <2>2, <2>5
    <3>4. f[st[k + 1]] \in Seq(Nat)
      BY <1>5 DEF Dispatched
    <3>5. <<>> \o f[st[k + 1]] = f[st[k + 1]]
      BY <3>4
    <3>6. QED
      BY <3>2, <3>3, <3>5
  <2>6. QED
    BY <2>3, <2>4, <2>5
<1>6. ASSUME T # {} PROVE FALSE
  <2>1. T \in SUBSET Nat
    BY <1>1
  <2>2. PICK d \in T : \A n \in T : d <= n
    BY <1>6, <2>1, NatLeast
  <2>3. d # 0
    <3>1. ~Dispatched(f[st[m + 1 - d]], L, m + 1 - d, m, s, e)
      BY <2>2
    <3>2. SUFFICES ASSUME d = 0 PROVE FALSE
      OBVIOUS
    <3>3. m + 1 - d = m + 1
      BY <1>1, <3>2
    <3>4. QED
      BY <1>4, <3>1, <3>3
  <2>4. d - 1 \in 0..m /\ d - 1 \notin T /\ d \in 1..m
    <3>1. d \in 0..m /\ \A n \in T : d <= n
      BY <2>2
    <3> HIDE DEF T
    <3>2. QED
      BY <1>1, <2>3, <3>1
  <2>5. Dispatched(f[st[m + 1 - (d - 1)]], L, m + 1 - (d - 1), m, s, e)
    BY <2>4
  <2> DEFINE k == m + 1 - d
  <2>6. k \in 1..m /\ m + 1 - (d - 1) = k + 1
    BY <1>1, <2>4
  <2>7. ~Dispatched(f[st[k]], L, k, m, s, e)
    BY <2>2
  <2> HIDE DEF k, T
  <2>8. Dispatched(f[st[k + 1]], L, k + 1, m, s, e)
    BY <2>5, <2>6
  <2>9. QED
    BY <1>5, <2>6, <2>7, <2>8
<1>7. SUFFICES ASSUME NEW k \in 1..(m + 1) PROVE Dispatched(f[st[k]], L, k, m, s, e)
  OBVIOUS
<1>8. m + 1 - k \in 0..m /\ m + 1 - (m + 1 - k) = k
  BY <1>1
<1>9. QED
  BY <1>6, <1>8

LEMMA RangeGives ==
  ASSUME Log!LogAssumption, NEW cells, NEW L, NEW st, Laid(cells, L, st), NEW m, Ends(cells, L, st, m),
         NEW s \in Nat, NEW e \in Nat,
         \A i, j \in 1..Len(L) : i < j => L[i] < L[j],
         \A j \in 1..Len(L) : stamps[L[j]] \in Nat
  PROVE  Dispatched(Log!ReplayRange(cells, s, e), L, 1, m, s, e)
<1> DEFINE f == CHOOSE g : IsRange(g, cells, s, e)
<1>1. cells \in Seq(Log!Cell) /\ m \in Nat /\ L \in Seq(Nat) /\ m \in 0..Len(L) /\ Len(L) \in Nat
  BY DEF Laid, Ends
<1>2. IsRange(f, cells, s, e)
  BY <1>1, ReplayReads
<1>3. Log!ReplayRange(cells, s, e) = IF Log!Opens(cells) THEN f[2] ELSE <<>>
  BY ReplayUnfolds
<1> HIDE DEF f
<1>4. 1 \in 1..(m + 1) /\ \A j \in 1..m : stamps[L[j]] \in Nat
  BY <1>1
<1>5. Dispatched(f[st[1]], L, 1, m, s, e)
  BY <1>2, <1>4, RangeFrom
<1>6. CASE cells = <<>>
  <2>1. m = 0 /\ ~Log!Opens(cells)
    BY <1>6, WhatOpens
  <2>2. 1 \notin 1..m
    BY <2>1
  <2>3. Dispatched(<<>>, L, 1, m, s, e)
    BY <1>1, <1>4, <2>2, DispatchEnds
  <2>4. QED
    BY <1>3, <2>1, <2>3
<1>7. CASE cells # <<>>
  BY <1>3, <1>5, <1>7, WhatOpens
<1>8. QED
  BY <1>6, <1>7

\* The records there to their last cell are the first m.
LEMMA LastCells ==
  ASSUME Log!LogAssumption, NEW cells, NEW L, NEW st, Laid(cells, L, st), NEW m, Ends(cells, L, st, m),
         \A i, j \in 1..Len(L) : i < j => L[i] < L[j], \A k \in 1..Len(L) : L[k] >= 1,
         NEW k \in 1..Len(L)
  PROVE  (\E c \in 1..Len(cells) : cells[c].rec = L[k] /\ cells[c].part = cells[c].of) <=> k <= m
<1>1. /\ Len(L) \in Nat /\ Len(cells) \in Nat /\ L \in Seq(Nat) /\ Starts(L, st) /\ Len(cells) < st[Len(L) + 1]
      /\ m \in Nat /\ m <= Len(L)
  BY DEF Laid, Ends
<1>2. /\ \A j \in 1..(Len(L) + 1) : st[j] \in Nat
      /\ \A i, j \in 1..(Len(L) + 1) : i < j => st[i] < st[j]
      /\ st[1] = 2
  BY <1>1, StartsTypes, StartsGrow DEF Starts
<1>3. k \in 1..(Len(L) + 1) /\ k + 1 \in 1..(Len(L) + 1) /\ k < k + 1 /\ 1 \in 1..(Len(L) + 1)
  BY <1>1
<1>4. st[k] \in Nat /\ st[k + 1] \in Nat /\ st[k] < st[k + 1] /\ st[k] >= 2
  BY <1>1, <1>2, <1>3
<1>5. ASSUME k <= m
      PROVE  \E c \in 1..Len(cells) : cells[c].rec = L[k] /\ cells[c].part = cells[c].of
  <2>1. st[k + 1] <= Len(cells) + 1
    BY <1>1, <1>5 DEF Ends
  <2> DEFINE c == st[k + 1] - 1
  <2>2. c \in 1..Len(cells) /\ st[k] <= c /\ c < st[k + 1] /\ (c - st[k]) + 1 = st[k + 1] - st[k]
    BY <1>1, <1>4, <2>1
  <2> HIDE DEF c
  <2>3. cells[c] = [rec |-> L[k], part |-> (c - st[k]) + 1, of |-> st[k + 1] - st[k]]
    BY <2>2, CellsOfRecord
  <2>4. QED
    BY <2>2, <2>3
<1>6. ASSUME NEW c \in 1..Len(cells), cells[c].rec = L[k], cells[c].part = cells[c].of
      PROVE  k <= m
  <2>1. CellAt(L, st, c, cells[c])
    BY DEF Laid
  <2>2. cells[c].rec # 0
    BY <1>1, <1>6
  <2>3. cells[c] # [rec |-> 0, part |-> 1, of |-> 1]
    BY <2>2
  <2>4. PICK i \in 1..Len(L) :
           /\ st[i] <= c /\ c < st[i + 1]
           /\ cells[c] = [rec |-> L[i], part |-> (c - st[i]) + 1, of |-> st[i + 1] - st[i]]
    BY <2>1, <2>3, Zenon DEF CellAt
  <2>5. L[i] = L[k] /\ (c - st[i]) + 1 = st[i + 1] - st[i]
    BY <1>6, <2>4
  <2>6. i = k
    <3>1. L[i] \in Nat /\ L[k] \in Nat
      BY <1>1
    <3>2. QED
      BY <1>1, <2>5, <3>1
  <2>7. st[k + 1] = c + 1
    BY <1>4, <2>5, <2>6
  <2>8. SUFFICES ASSUME m < k PROVE FALSE
    BY <1>1
  <2>9. m < Len(L) /\ m + 2 \in 1..(Len(L) + 1) /\ m + 2 <= k + 1
    BY <1>1, <2>8
  <2>10. st[m + 2] > Len(cells) + 1 /\ st[m + 2] \in Nat
    BY <1>2, <2>9 DEF Ends
  <2>11. st[m + 2] <= st[k + 1]
    <3>1. m + 2 = k + 1 \/ m + 2 < k + 1
      BY <1>1, <2>9
    <3>2. QED
      BY <1>2, <1>3, <1>4, <2>9, <2>10, <3>1
  <2>12. QED
    BY <1>1, <1>4, <2>7, <2>10, <2>11
<1>7. QED
  BY <1>5, <1>6

WholeFile(cells, L) == \E st : Laid(cells, L, st) /\ Complete(cells, L, st)
PartFile(cells, L) == \E st : Laid(cells, L, st)

LEMMA FirstCells ==
  ASSUME Log!LogAssumption, NEW a \in Seq(Log!Cell), NEW b \in Seq(Log!Cell), NEW L, WholeFile(a \o b, L)
  PROVE  PartFile(a, L)
BY LaidFirst DEF WholeFile, PartFile

LEMMA EmptyFiles ==
  ASSUME Log!LogAssumption
  PROVE  /\ PartFile(<<>>, <<>>) /\ WholeFile(Log!FileHeader, <<>>)
         /\ Log!FileHeader \in Seq(Log!Cell) /\ Len(Log!FileHeader) = 1
<1> DEFINE st == [k \in 1..1 |-> 2]
<1>1. MaxRecords \in Nat
  BY DEF Log!LogAssumption
<1>2. Log!FileHeader = [i \in 1..1 |-> [rec |-> 0, part |-> i, of |-> 1]]
  BY DEF Log!FileHeader, Log!Cells
<1>3. /\ Log!FileHeader \in Seq(Log!Cell) /\ Len(Log!FileHeader) = 1
      /\ Log!FileHeader[1] = [rec |-> 0, part |-> 1, of |-> 1]
  <2>1. \A i \in 1..1 : [rec |-> 0, part |-> i, of |-> 1] \in Log!Cell
    BY <1>1 DEF Log!Cell
  <2>2. QED
    BY <1>2, <2>1
<1>4. /\ <<>> \in Seq(Log!Cell) /\ <<>> \in Seq(Nat) /\ Len(<<>>) = 0 /\ Len(<<>>) + 1 = 1
      /\ 1..Len(<<>>) = {}
  OBVIOUS
<1>5. Starts(<<>>, st) /\ st[Len(<<>>) + 1] = 2
  BY <1>4 DEF Starts
<1> HIDE DEF st
<1>6. Laid(<<>>, <<>>, st)
  BY <1>4, <1>5 DEF Laid
<1>7. \A c \in 1..Len(Log!FileHeader) : CellAt(<<>>, st, c, Log!FileHeader[c])
  BY <1>3 DEF CellAt
<1>8. Laid(Log!FileHeader, <<>>, st) /\ Complete(Log!FileHeader, <<>>, st)
  BY <1>3, <1>4, <1>5, <1>7 DEF Laid, Complete
<1>9. QED
  BY <1>3, <1>6, <1>8 DEF PartFile, WholeFile

LEMMA RecordAdded ==
  ASSUME Log!LogAssumption, NEW cells, NEW L, WholeFile(cells, L),
         NEW r \in 1..MaxRecords, NEW size \in RecordSizes
  PROVE  /\ Log!Cells(r, size) \in Seq(Log!Cell)
         /\ WholeFile(cells \o Log!Cells(r, size), Append(L, r))
<1>1. size \in Nat \ {0} /\ MaxRecords \in Nat
  BY DEF Log!LogAssumption
<1> DEFINE x == Log!Cells(r, size)
           M == Append(L, r)
           a == cells \o x
<1>2. /\ x \in Seq(Log!Cell) /\ Len(x) = size
      /\ \A i \in 1..size : x[i] = [rec |-> r, part |-> i, of |-> size]
  <2>1. \A i \in 1..size : [rec |-> r, part |-> i, of |-> size] \in Log!Cell
    BY <1>1 DEF Log!Cell
  <2>2. x = [i \in 1..size |-> [rec |-> r, part |-> i, of |-> size]]
    BY DEF Log!Cells
  <2> HIDE DEF x
  <2>3. QED
    BY <1>1, <2>1, <2>2
<1> HIDE DEF x
<1>3. PICK st : Laid(cells, L, st) /\ Complete(cells, L, st)
  BY DEF WholeFile
<1> DEFINE n == Len(L)
<1>4. /\ L \in Seq(Nat) /\ Starts(L, st) /\ cells \in Seq(Log!Cell) /\ n \in Nat /\ Len(cells) \in Nat
      /\ Len(cells) + 1 = st[n + 1]
      /\ \A c \in 1..Len(cells) : CellAt(L, st, c, cells[c])
  BY <1>3 DEF Laid, Complete
<1>5. st \in [1..(n + 1) -> Nat] /\ st[1] = 2 /\ \A k \in 1..n : st[k + 1] - st[k] \in RecordSizes
  BY <1>4 DEF Starts
<1>6. M \in Seq(Nat) /\ Len(M) = n + 1 /\ M[n + 1] = r /\ \A k \in 1..n : M[k] = L[k]
  BY <1>4
<1>7. /\ a \in Seq(Log!Cell) /\ Len(a) = Len(cells) + size
      /\ \A c \in 1..Len(cells) : a[c] = cells[c]
      /\ \A c \in 1..Len(a) : c > Len(cells) => a[c] = x[c - Len(cells)] /\ c - Len(cells) \in 1..size
  <2>1. a \in Seq(Log!Cell) /\ Len(a) = Len(cells) + size /\ \A c \in 1..Len(cells) : a[c] = cells[c]
    <3>1. x \in Seq(Log!Cell) /\ cells \in Seq(Log!Cell) /\ Len(x) = size
      BY <1>2, <1>4
    <3>2. a \in Seq(Log!Cell) /\ Len(a) = Len(cells) + Len(x)
      BY ONLY <3>1
    <3>3. \A c \in 1..Len(cells) : a[c] = cells[c]
      BY ONLY <3>1
    <3>4. QED
      BY <3>1, <3>2, <3>3
  <2>2. ASSUME NEW c \in 1..Len(a), c > Len(cells)
        PROVE  a[c] = x[c - Len(cells)] /\ c - Len(cells) \in 1..size
    <3>1. c - Len(cells) \in 1..size /\ c \in 1..(Len(cells) + Len(x))
      BY <1>1, <1>2, <1>4, <2>1, <2>2
    <3>2. QED
      BY <1>2, <1>4, <2>2, <3>1
  <2> HIDE DEF a
  <2>3. QED
    BY <2>1, <2>2
<1> DEFINE su == [k \in 1..(n + 2) |-> IF k = n + 2 THEN st[n + 1] + size ELSE st[k]]
<1>8. /\ \A k \in 1..(n + 1) : su[k] = st[k] /\ st[k] \in Nat
      /\ su[n + 2] = st[n + 1] + size /\ DOMAIN su = 1..(n + 2)
      /\ su = [k \in 1..(n + 2) |-> su[k]]
  BY <1>1, <1>4, <1>5
<1> HIDE DEF M, a, su, n
<1>9. Starts(M, su)
  <2>1. su \in [1..(n + 2) -> Nat]
    <3>1. ASSUME NEW k \in 1..(n + 2) PROVE su[k] \in Nat
      <4>1. k \in 1..(n + 1) \/ k = n + 2
        BY <1>4
      <4>2. n + 1 \in 1..(n + 1)
        BY <1>4
      <4>3. st[n + 1] + size \in Nat
        <5>1. st[n + 1] \in Nat
          BY <1>8, <4>2
        <5>2. QED
          BY <1>1, <5>1
      <4>4. QED
        BY <1>8, <4>1, <4>3
    <3>2. QED
      BY <1>8, <3>1
  <2>2. su[1] = 2
    <3>1. 1 \in 1..(n + 1)
      BY <1>4
    <3>2. QED
      BY <1>5, <1>8, <3>1
  <2>3. ASSUME NEW k \in 1..(n + 1) PROVE su[k + 1] - su[k] \in RecordSizes
    <3>1. CASE k \in 1..n
      <4>1. k \in 1..(n + 1) /\ k + 1 \in 1..(n + 1)
        BY <1>4, <3>1
      <4>2. QED
        BY <1>5, <1>8, <3>1, <4>1
    <3>2. CASE k = n + 1
      <4>1. k \in 1..(n + 1) /\ k + 1 = n + 2
        BY <1>4, <3>2
      <4>2. su[k] = st[n + 1] /\ su[k + 1] = st[n + 1] + size /\ st[n + 1] \in Nat
        BY <1>8, <3>2, <4>1
      <4>3. (st[n + 1] + size) - st[n + 1] = size
        BY <1>1, <4>2
      <4>4. QED
        BY <4>2, <4>3
    <3>3. QED
      BY <1>4, <3>1, <3>2
  <2>4. Len(M) + 1 = n + 2
    BY <1>4, <1>6
  <2>5. QED
    BY <1>6, <2>1, <2>2, <2>3, <2>4 DEF Starts
<1>10. n + 1 \in 1..(n + 1) /\ n + 1 \in 1..Len(M) /\ (n + 1) + 1 = n + 2
  BY <1>4, <1>6
<1>11. ASSUME NEW c \in 1..Len(cells) PROVE CellAt(M, su, c, a[c])
  <2>1. CellAt(L, st, c, cells[c]) /\ a[c] = cells[c]
    BY <1>4, <1>7
  <2>2. \A k \in 1..n : /\ k \in 1..Len(M) /\ M[k] = L[k]
                        /\ su[k] = st[k] /\ su[k + 1] = st[k + 1]
    <3>1. \A k \in 1..n : k \in 1..(n + 1) /\ k + 1 \in 1..(n + 1)
      BY <1>4
    <3>2. QED
      BY <1>6, <1>8, <3>1
  <2>3. QED
    BY <2>1, <2>2 DEF CellAt, n
<1>12. ASSUME NEW c \in 1..Len(a), c > Len(cells) PROVE CellAt(M, su, c, a[c])
  <2>1. a[c] = x[c - Len(cells)] /\ c - Len(cells) \in 1..size
    BY <1>7, <1>12
  <2>2. su[n + 1] = Len(cells) + 1 /\ su[n + 2] = (Len(cells) + 1) + size
    BY <1>4, <1>8, <1>10
  <2>3. su[n + 1] <= c /\ c < su[n + 2] /\ (c - su[n + 1]) + 1 = c - Len(cells) /\ su[n + 2] - su[n + 1] = size
    BY <1>1, <1>4, <1>7, <1>12, <2>1, <2>2
  <2>4. a[c] = [rec |-> M[n + 1], part |-> (c - su[n + 1]) + 1, of |-> su[(n + 1) + 1] - su[n + 1]]
    BY <1>2, <1>6, <1>10, <2>1, <2>3
  <2>5. QED
    BY <1>10, <2>3, <2>4 DEF CellAt
<1>13. \A c \in 1..Len(a) : CellAt(M, su, c, a[c])
  <2>1. \A c \in 1..Len(a) : c \in 1..Len(cells) \/ c > Len(cells)
    BY <1>4
  <2>2. QED
    BY <1>11, <1>12, <2>1
<1>14. Len(a) + 1 = su[Len(M) + 1] /\ Len(a) < su[Len(M) + 1]
  <2>1. su[n + 2] = (Len(cells) + 1) + size
    BY <1>4, <1>8, <1>10
  <2>2. Len(M) + 1 = n + 2
    BY <1>4, <1>6
  <2>3. QED
    BY <1>1, <1>4, <1>7, <2>1, <2>2
<1>15. Laid(a, M, su) /\ Complete(a, M, su)
  BY <1>6, <1>7, <1>9, <1>13, <1>14 DEF Laid, Complete
<1>16. QED
  BY <1>2, <1>15 DEF WholeFile, M, a, x

-------------------------------------------------------------------------------

(* The inductive invariant.  A file holds the first cells of the records   *)
(* logged to it, which are numbered in the order of logging; while it is   *)
(* written, what is on disk, in the buffer and still to be copied is all   *)
(* of them; and the count close() writes does not exceed them.             *)
FileInv(n) ==
  /\ \A k \in DOMAIN logged[n] : logged[n][k] \in 1..Len(stamps)
  /\ \A i, j \in DOMAIN logged[n] : i < j => logged[n][i] < logged[n][j]
  /\ PartFile(disk[n], logged[n])
  /\ heads[n] # -1 => WholeFile(disk[n], logged[n])
Writing == pc \in {"idle", "copy", "flush", "rewrite"}
LogInv ==
  /\ Log!TypeOK
  /\ Len(stamps) <= MaxRecords
  /\ numRecords + (IF pc = "copy" THEN 1 ELSE 0) <= Len(stamps)
  /\ pc # "copy" => rest = <<>>
  /\ pc = "rewrite" => buffer = <<>>
  /\ \A n \in DOMAIN disk : FileInv(n)
  /\ Writing => /\ path \in DOMAIN disk /\ heads[path] = -1
                /\ WholeFile(disk[path] \o (buffer \o rest), logged[path])
  /\ pc = "header" => /\ path \in DOMAIN disk /\ disk[path] = <<>> /\ logged[path] = <<>>
                      /\ heads[path] = -1 /\ buffer = <<>>

LEMMA FileIsWhole ==
  ASSUME Log!LogAssumption, Log!TypeOK, NEW n \in DOMAIN disk, FileInv(n)
  PROVE  LET all == Log!Replay(disk[n])
         IN  /\ Log!IsPrefix(all, logged[n])
             /\ \A k \in DOMAIN logged[n] : Log!OnDisk(n, logged[n][k]) <=> k <= Len(all)
             /\ heads[n] # -1 => all = logged[n]
             /\ \A s, e \in Log!Seconds :
                  LET range == Log!ReplayRange(disk[n], s, e)
                      within == {r \in Log!ToSet(all) : stamps[r] \in s..e}
                  IN  /\ \A i, j \in DOMAIN range : i < j => range[i] < range[j]
                      /\ Log!ToSet(range) \subseteq within
                      /\ (\A i, j \in DOMAIN all : i < j => stamps[all[i]] <= stamps[all[j]])
                           => Log!ToSet(range) = within
<1> DEFINE cells == disk[n]
           L == logged[n]
<1>1. /\ cells \in Seq(Log!Cell) /\ stamps \in Seq(Nat) /\ Log!Seconds \subseteq Nat
      /\ L \in Seq(Nat) /\ DOMAIN L = 1..Len(L) /\ Len(L) \in Nat
      /\ DOMAIN cells = 1..Len(cells)
  BY DEF Log!TypeOK, Log!LogAssumption, Log!Seconds
<1>2. /\ \A k \in 1..Len(L) : L[k] \in 1..Len(stamps)
      /\ \A i, j \in 1..Len(L) : i < j => L[i] < L[j]
      /\ PartFile(cells, L)
      /\ heads[n] # -1 => WholeFile(cells, L)
  BY <1>1 DEF FileInv
<1>3. /\ \A k \in 1..Len(L) : L[k] >= 1 /\ stamps[L[k]] \in Nat
  BY <1>1, <1>2
<1>4. ASSUME NEW st, Laid(cells, L, st), NEW m, Ends(cells, L, st, m)
      PROVE  /\ Log!Replay(cells) = SubSeq(L, 1, m) /\ m \in 0..Len(L)
             /\ \A k \in 1..Len(L) : Log!OnDisk(n, L[k]) <=> k <= m
             /\ \A s, e \in Log!Seconds : Dispatched(Log!ReplayRange(cells, s, e), L, 1, m, s, e)
  <2>1. Log!Replay(cells) = SubSeq(L, 1, m) /\ m \in 0..Len(L)
    BY <1>4, ReplayGives DEF Ends
  <2>2. ASSUME NEW k \in 1..Len(L) PROVE Log!OnDisk(n, L[k]) <=> k <= m
    <3>1. (\E c \in 1..Len(cells) : cells[c].rec = L[k] /\ cells[c].part = cells[c].of) <=> k <= m
      <4>1. \A i, j \in 1..Len(L) : i < j => L[i] < L[j]
        BY <1>2
      <4>2. \A j \in 1..Len(L) : L[j] >= 1
        BY <1>3
      <4> HIDE DEF cells, L
      <4>3. QED
        BY <4>1, <4>2, <1>4, LastCells
    <3>2. QED
      BY <1>1, <3>1 DEF Log!OnDisk
  <2>3. ASSUME NEW s \in Log!Seconds, NEW e \in Log!Seconds
        PROVE  Dispatched(Log!ReplayRange(cells, s, e), L, 1, m, s, e)
    <3>1. s \in Nat /\ e \in Nat
      BY <1>1
    <3>2. QED
      BY <1>2, <1>3, <1>4, <3>1, RangeGives
  <2>4. QED
    BY <2>1, <2>2, <2>3
<1>5. PICK st : Laid(cells, L, st) /\ (heads[n] # -1 => Complete(cells, L, st))
  BY <1>2 DEF PartFile, WholeFile
<1>6. PICK m : Ends(cells, L, st, m)
  BY <1>5, SomeAreWhole
<1>7. heads[n] # -1 => m = Len(L)
  <2>1. SUFFICES ASSUME heads[n] # -1, m # Len(L) PROVE FALSE
    OBVIOUS
  <2>2. m \in 0..Len(L) /\ m < Len(L) /\ Starts(L, st)
    BY <1>1, <1>5, <1>6, <2>1 DEF Ends, Laid
  <2>3. st[m + 2] > Len(cells) + 1 /\ Len(cells) + 1 = st[Len(L) + 1]
    BY <1>5, <1>6, <2>1, <2>2 DEF Ends, Complete
  <2>4. m + 2 \in 1..(Len(L) + 1) /\ Len(L) + 1 \in 1..(Len(L) + 1) /\ (m + 2 = Len(L) + 1 \/ m + 2 < Len(L) + 1)
    BY <1>1, <2>2
  <2>5. st[m + 2] \in Nat /\ st[Len(L) + 1] \in Nat /\ st[m + 2] <= st[Len(L) + 1]
    <3>1. /\ \A k \in 1..(Len(L) + 1) : st[k] \in Nat
          /\ \A j, k \in 1..(Len(L) + 1) : j < k => st[j] < st[k]
      BY <1>1, <2>2, StartsTypes, StartsGrow
    <3>2. st[m + 2] \in Nat /\ st[Len(L) + 1] \in Nat
      BY <2>4, <3>1
    <3>3. QED
      BY <2>4, <3>1, <3>2
  <2>6. QED
    BY <2>3, <2>5
<1> DEFINE all == Log!Replay(cells)
<1>8. /\ all = SubSeq(L, 1, m) /\ m \in 0..Len(L)
      /\ \A k \in 1..Len(L) : Log!OnDisk(n, L[k]) <=> k <= m
      /\ \A s, e \in Log!Seconds : Dispatched(Log!ReplayRange(cells, s, e), L, 1, m, s, e)
  BY <1>4, <1>5, <1>6
<1> HIDE DEF cells, L, all
<1>9. /\ all \in Seq(Nat) /\ Len(all) = m /\ DOMAIN all = 1..m
      /\ \A i \in 1..m : all[i] = L[i] /\ i \in 1..Len(L)
  BY <1>1, <1>8
<1>10. Log!IsPrefix(all, L)
  BY <1>1, <1>8, <1>9 DEF Log!IsPrefix
<1>11. \A k \in DOMAIN L : Log!OnDisk(n, L[k]) <=> k <= Len(all)
  BY <1>1, <1>8, <1>9
<1>12. heads[n] # -1 => all = L
  <2>1. SubSeq(L, 1, Len(L)) = L
    BY <1>1
  <2>2. QED
    BY <1>7, <1>8, <2>1
<1>13. ASSUME NEW s \in Log!Seconds, NEW e \in Log!Seconds
       PROVE  LET range == Log!ReplayRange(cells, s, e)
                  within == {r \in Log!ToSet(all) : stamps[r] \in s..e}
              IN  /\ \A i, j \in DOMAIN range : i < j => range[i] < range[j]
                  /\ Log!ToSet(range) \subseteq within
                  /\ (\A i, j \in DOMAIN all : i < j => stamps[all[i]] <= stamps[all[j]])
                       => Log!ToSet(range) = within
  <2> DEFINE range == Log!ReplayRange(cells, s, e)
             within == {r \in Log!ToSet(all) : stamps[r] \in s..e}
  <2>1. Dispatched(range, L, 1, m, s, e)
    BY <1>8
  <2> HIDE DEF range
  <2>2. InOrder(range) /\ range \in Seq(Nat)
    BY <2>1 DEF Dispatched
  <2>3. ASSUME NEW i \in DOMAIN range PROVE range[i] \in within
    <3>1. PICK j \in 1..m : range[i] = L[j] /\ stamps[L[j]] \in s..e
      BY <2>1 DEF Dispatched
    <3>2. j \in DOMAIN all /\ all[j] = range[i]
      BY <1>9, <3>1
    <3>3. range[i] \in Log!ToSet(all)
      BY <3>2 DEF Log!ToSet
    <3>4. QED
      BY <3>1, <3>3
  <2>4. Log!ToSet(range) \subseteq within
    <3> HIDE DEF within
    <3>1. QED
      BY <2>3 DEF Log!ToSet
  <2>5. ASSUME \A i, j \in DOMAIN all : i < j => stamps[all[i]] <= stamps[all[j]],
               NEW r \in within
        PROVE  r \in Log!ToSet(range)
    <3>1. PICK j \in DOMAIN all : r = all[j]
      BY DEF Log!ToSet
    <3>2. j \in 1..m /\ r = L[j] /\ stamps[L[j]] \in s..e
      BY <1>9, <3>1
    <3>3. StampsInOrder(L, m)
      BY <1>9, <2>5 DEF StampsInOrder
    <3>4. PICK i \in DOMAIN range : range[i] = L[j]
      BY <2>1, <3>2, <3>3 DEF Dispatched
    <3>5. QED
      BY <3>2, <3>4 DEF Log!ToSet
  <2> HIDE DEF within
  <2>6. (\A i, j \in DOMAIN all : i < j => stamps[all[i]] <= stamps[all[j]]) => Log!ToSet(range) = within
    BY <2>4, <2>5
  <2>7. QED
    BY <2>2, <2>4, <2>6 DEF range, within, InOrder
<1>14. QED
  BY <1>10, <1>11, <1>12, <1>13 DEF cells, L, all

LEMMA LogTypes ==
  ASSUME Log!LogAssumption, Log!TypeOK
  PROVE  /\ Log!Seconds \subseteq Nat /\ 1 \in Log!Seconds
         /\ \A n \in DOMAIN disk : disk[n] \in Seq(Log!Cell) /\ logged[n] \in Seq(1..MaxRecords) /\ n \in Log!Seconds
         /\ DOMAIN heads = DOMAIN disk /\ DOMAIN logged = DOMAIN disk
         /\ BufferSize \in Nat /\ MaxRecords \in Nat /\ RecordSizes \subseteq Nat \ {0}
BY DEF Log!TypeOK, Log!LogAssumption, Log!Seconds

\* Nothing known of a file depends on more than these.
LEMMA FileStays ==
  ASSUME NEW n, FileInv(n), disk'[n] = disk[n], logged'[n] = logged[n], heads'[n] = heads[n],
         Len(stamps) \in Nat, Len(stamps') \in Nat, Len(stamps) <= Len(stamps')
  PROVE  FileInv(n)'
<1>1. \A i : i \in 1..Len(stamps) => i \in 1..Len(stamps')
  OBVIOUS
<1>2. QED
  BY <1>1 DEF FileInv

LEMMA LogInit ==
  ASSUME Log!LogAssumption, Log!Init
  PROVE  LogInv
<1>1. BufferSize \in Nat /\ BufferSize > 0 /\ MaxRecords \in Nat /\ MaxOpened \in Nat /\ MaxClock \in Nat \ {0}
  BY DEF Log!LogAssumption
<1>2. disk = <<>> /\ heads = <<>> /\ logged = <<>> /\ DOMAIN disk = {} /\ DOMAIN heads = {} /\ DOMAIN logged = {}
  BY DEF Log!Init
<1>3. /\ <<>> \in Seq(Log!Cell) /\ Len(<<>>) = 0 /\ <<>> \in Seq(Log!Seconds) /\ 1 \in Log!Seconds
  BY <1>1 DEF Log!Seconds
<1>4. heads \in [DOMAIN disk -> 0..MaxRecords \cup {-1}] /\ logged \in [DOMAIN disk -> Seq(1..MaxRecords)]
  BY <1>2
<1>5. Log!TypeOK
  <2>1. DOMAIN disk \subseteq Log!Seconds /\ \A n \in DOMAIN disk : disk[n] \in Seq(Log!Cell)
    BY <1>2
  <2>2. /\ buffer \in Seq(Log!Cell) /\ Len(buffer) < BufferSize /\ rest \in Seq(Log!Cell)
        /\ stamps \in Seq(Log!Seconds) /\ path \in Log!Seconds /\ clock \in Log!Seconds
    BY <1>1, <1>3 DEF Log!Init
  <2>3. fileSize \in Nat /\ numRecords \in 0..MaxRecords /\ opened \in 0..MaxOpened
    BY <1>1 DEF Log!Init
  <2>4. pc = "closed" /\ rotating = FALSE
    BY DEF Log!Init
  <2>5. QED
    BY <1>4, <2>1, <2>2, <2>3, <2>4 DEF Log!TypeOK
<1>6. QED
  BY <1>1, <1>2, <1>3, <1>5 DEF Log!Init, LogInv, Writing

\* A step that leaves the files and the records as they are.
LEMMA FilesStay ==
  ASSUME LogInv, UNCHANGED <<disk, heads, stamps, logged>>
  PROVE  \A n \in DOMAIN disk' : FileInv(n)'
BY DEF LogInv, FileInv

LEMMA BeginKeeps == ASSUME Log!LogAssumption, LogInv, Log!Begin PROVE LogInv'
<1>1. opened' \in 0..MaxOpened
  BY DEF LogInv, Log!TypeOK, Log!Begin, Log!LogAssumption
<1>2. Log!TypeOK'
  BY <1>1 DEF LogInv, Log!TypeOK, Log!Begin, Log!Cell
<1>3. \A n \in DOMAIN disk' : FileInv(n)'
  BY FilesStay DEF Log!Begin
<1>4. QED
  BY <1>2, <1>3 DEF LogInv, Log!Begin, Writing

LEMMA OpenFileKeeps == ASSUME Log!LogAssumption, LogInv, Log!OpenFile PROVE LogInv'
<1>1. Log!TypeOK
  BY DEF LogInv
<1>2. /\ disk' = Log!With(disk, clock, <<>>) /\ heads' = Log!With(heads, clock, -1)
      /\ logged' = Log!With(logged, clock, <<>>) /\ clock \in Log!Seconds
      /\ DOMAIN heads = DOMAIN disk /\ DOMAIN logged = DOMAIN disk /\ DOMAIN disk \subseteq Log!Seconds
  BY <1>1 DEF Log!OpenFile, Log!TypeOK
<1>3. /\ DOMAIN disk' = DOMAIN disk \cup {clock} /\ DOMAIN heads' = DOMAIN disk'
      /\ DOMAIN logged' = DOMAIN disk'
      /\ disk'[clock] = <<>> /\ heads'[clock] = -1 /\ logged'[clock] = <<>>
      /\ \A n \in DOMAIN disk' : n # clock =>
           n \in DOMAIN disk /\ disk'[n] = disk[n] /\ heads'[n] = heads[n] /\ logged'[n] = logged[n]
      /\ heads' = [n \in DOMAIN heads' |-> heads'[n]] /\ logged' = [n \in DOMAIN logged' |-> logged'[n]]
  BY <1>2 DEF Log!With
<1>4. <<>> \in Seq(Log!Cell) /\ <<>> \in Seq(1..MaxRecords) /\ Len(<<>>) = 0 /\ DOMAIN <<>> = {}
  OBVIOUS
<1>5. Log!TypeOK'
  <2>1. \A n \in DOMAIN disk' : /\ n \in Log!Seconds /\ disk'[n] \in Seq(Log!Cell)
                                /\ heads'[n] \in 0..MaxRecords \cup {-1}
                                /\ logged'[n] \in Seq(1..MaxRecords)
    BY <1>1, <1>2, <1>3, <1>4 DEF Log!TypeOK
  <2>2. heads' \in [DOMAIN disk' -> 0..MaxRecords \cup {-1}] /\ logged' \in [DOMAIN disk' -> Seq(1..MaxRecords)]
    BY <1>3, <2>1
  <2>3. Len(buffer') < BufferSize /\ buffer' \in Seq(Log!Cell)
    BY <1>4 DEF Log!OpenFile, Log!LogAssumption
  <2>4. QED
    BY <1>1, <1>2, <2>1, <2>2, <2>3 DEF Log!TypeOK, Log!OpenFile, Log!Cell, Log!Seconds
<1>6. ASSUME NEW n \in DOMAIN disk' PROVE FileInv(n)'
  <2>1. CASE n = clock
    <3>1. DOMAIN logged'[n] = {} /\ heads'[n] = -1 /\ disk'[n] = <<>> /\ logged'[n] = <<>>
      BY <1>3, <1>4, <2>1
    <3>2. QED
      BY <3>1, EmptyFiles DEF FileInv
  <2>2. CASE n # clock
    <3>1. n \in DOMAIN disk /\ disk'[n] = disk[n] /\ heads'[n] = heads[n] /\ logged'[n] = logged[n]
      BY <1>3, <2>2
    <3>2. stamps' = stamps /\ FileInv(n)
      BY <3>1 DEF Log!OpenFile, LogInv
    <3>3. QED
      BY <3>1, <3>2 DEF FileInv
  <2>3. QED
    BY <2>1, <2>2
<1>7. QED
  BY <1>3, <1>5, <1>6 DEF LogInv, Log!OpenFile, Writing

LEMMA OpenFailsKeeps == ASSUME Log!LogAssumption, LogInv, Log!OpenFails PROVE LogInv'
<1>1. Log!TypeOK'
  BY DEF LogInv, Log!TypeOK, Log!OpenFails, Log!Cell
<1>2. \A n \in DOMAIN disk' : FileInv(n)'
  BY FilesStay DEF Log!OpenFails
<1>3. QED
  BY <1>1, <1>2 DEF LogInv, Log!OpenFails, Writing

\* The cells of a file and those on the way to it, after a step that appends b to the file.
LEMMA FlushKeepsFiles ==
  ASSUME Log!LogAssumption, LogInv, path \in DOMAIN disk, heads[path] = -1,
         NEW b \in Seq(Log!Cell), NEW r \in Seq(Log!Cell),
         disk' = [disk EXCEPT ![path] = @ \o b], heads' = heads, logged' = logged, stamps' = stamps,
         WholeFile(disk[path] \o (b \o r), logged[path])
  PROVE  /\ DOMAIN disk' = DOMAIN disk /\ disk'[path] = disk[path] \o b
         /\ \A n \in DOMAIN disk' : disk'[n] \in Seq(Log!Cell) /\ FileInv(n)'
         /\ WholeFile(disk'[path] \o r, logged'[path])
<1>1. /\ Log!TypeOK /\ \A n \in DOMAIN disk : FileInv(n)
  BY DEF LogInv
<1>2. \A n \in DOMAIN disk : disk[n] \in Seq(Log!Cell)
  BY <1>1 DEF Log!TypeOK
<1>3. /\ DOMAIN disk' = DOMAIN disk /\ disk'[path] = disk[path] \o b
      /\ \A n \in DOMAIN disk : n # path => disk'[n] = disk[n]
  OBVIOUS
<1>4. disk'[path] \in Seq(Log!Cell) /\ disk'[path] \o r = disk[path] \o (b \o r)
  <2> DEFINE a == disk[path]
  <2>1. a \in Seq(Log!Cell)
    BY <1>2
  <2> HIDE DEF a
  <2>2. a \o b \in Seq(Log!Cell) /\ (a \o b) \o r = a \o (b \o r)
    BY <2>1, ConcatAssociative
  <2>3. QED
    BY <1>3, <2>2 DEF a
<1>5. WholeFile(disk'[path] \o r, logged'[path])
  BY <1>4
<1>6. ASSUME NEW n \in DOMAIN disk PROVE disk'[n] \in Seq(Log!Cell) /\ FileInv(n)'
  <2>1. CASE n = path
    <3>1. PartFile(disk'[path], logged'[path])
      BY <1>4, <1>5, FirstCells
    <3>2. QED
      BY <1>1, <1>4, <2>1, <3>1 DEF FileInv
  <2>2. CASE n # path
    BY <1>1, <1>2, <1>3, <2>2 DEF FileInv
  <2>3. QED
    BY <2>1, <2>2
<1>7. QED
  BY <1>3, <1>5, <1>6

LEMMA WriteHeaderKeeps == ASSUME Log!LogAssumption, LogInv, Log!WriteHeader PROVE LogInv'
<1>1. /\ Log!TypeOK /\ path \in DOMAIN disk /\ disk[path] = <<>> /\ logged[path] = <<>> /\ heads[path] = -1
      /\ rest = <<>> /\ rest' = <<>> /\ pc' = "idle" /\ buffer' = <<>> /\ path' = path
      /\ disk' = [disk EXCEPT ![path] = @ \o Log!FileHeader]
      /\ heads' = heads /\ logged' = logged /\ stamps' = stamps /\ fileSize' = fileSize + Len(Log!FileHeader)
  BY DEF LogInv, Log!WriteHeader, Log!Flush
<1>2. /\ Log!FileHeader \in Seq(Log!Cell) /\ Len(Log!FileHeader) = 1 /\ WholeFile(Log!FileHeader, <<>>)
      /\ <<>> \in Seq(Log!Cell) /\ Len(<<>>) = 0 /\ <<>> \o <<>> = <<>>
  BY EmptyFiles
<1>3. /\ <<>> \o (Log!FileHeader \o <<>>) = Log!FileHeader
      /\ <<>> \o Log!FileHeader = Log!FileHeader /\ Log!FileHeader \o <<>> = Log!FileHeader
  BY <1>2
<1>4. /\ DOMAIN disk' = DOMAIN disk
      /\ \A n \in DOMAIN disk' : disk'[n] \in Seq(Log!Cell) /\ FileInv(n)'
      /\ WholeFile(disk'[path] \o <<>>, logged'[path])
  <2>1. WholeFile(disk[path] \o (Log!FileHeader \o <<>>), logged[path])
    BY <1>1, <1>2, <1>3
  <2>2. QED
    BY <1>1, <1>2, <2>1, FlushKeepsFiles
<1>5. Log!TypeOK'
  <2>1. fileSize' \in Nat /\ Len(buffer') < BufferSize /\ buffer' \in Seq(Log!Cell)
    BY <1>1, <1>2 DEF Log!TypeOK, Log!LogAssumption
  <2>2. QED
    BY <1>1, <1>4, <2>1 DEF Log!TypeOK, Log!WriteHeader, Log!Cell, Log!Seconds
<1>6. buffer' \o rest' = <<>> /\ path' \in DOMAIN disk' /\ heads'[path'] = -1
      /\ WholeFile(disk'[path'] \o (buffer' \o rest'), logged'[path'])
  BY <1>1, <1>2, <1>4
<1>7. QED
  BY <1>1, <1>4, <1>5, <1>6 DEF LogInv, Log!WriteHeader, Writing

LEMMA LogKeeps ==
  ASSUME Log!LogAssumption, LogInv, NEW size \in RecordSizes, NEW ts \in 1..clock, Log!Log(size, ts)
  PROVE  LogInv'
<1> DEFINE r == Len(stamps) + 1
<1>1. /\ Log!TypeOK /\ path \in DOMAIN disk /\ heads[path] = -1
      /\ WholeFile(disk[path] \o (buffer \o rest), logged[path])
      /\ rest = <<>> /\ rest' = Log!Cells(r, size) /\ pc' = "copy" /\ buffer' = buffer /\ path' = path
      /\ disk' = disk /\ heads' = heads /\ stamps' = Append(stamps, ts)
      /\ logged' = [logged EXCEPT ![path] = Append(@, r)]
      /\ Len(stamps) < MaxRecords /\ numRecords + 0 <= Len(stamps) /\ numRecords' = numRecords
      /\ \A n \in DOMAIN disk : FileInv(n)
  BY DEF LogInv, Log!Log, Writing
<1>2. /\ Len(stamps) \in Nat /\ stamps \in Seq(Log!Seconds) /\ ts \in Log!Seconds /\ MaxRecords \in Nat
      /\ r \in 1..MaxRecords /\ buffer \in Seq(Log!Cell) /\ numRecords \in Nat
      /\ \A n \in DOMAIN disk : disk[n] \in Seq(Log!Cell) /\ logged[n] \in Seq(1..MaxRecords)
      /\ DOMAIN logged = DOMAIN disk
  <2>1. Log!Seconds = 1..MaxClock /\ MaxClock \in Nat /\ MaxRecords \in Nat /\ clock \in Log!Seconds
    BY <1>1 DEF Log!TypeOK, Log!Seconds, Log!LogAssumption
  <2>2. ts \in Log!Seconds
    BY <2>1
  <2>3. stamps \in Seq(Log!Seconds) /\ Len(stamps) \in Nat
    BY <1>1 DEF Log!TypeOK
  <2>4. QED
    BY <1>1, <2>1, <2>2, <2>3 DEF Log!TypeOK
<1>3. stamps' \in Seq(Log!Seconds) /\ Len(stamps') = r
  BY <1>1, <1>2
<1> HIDE DEF r
<1>4. r = Len(stamps) + 1
  BY DEF r
<1>5. /\ DOMAIN logged' = DOMAIN disk /\ logged'[path] = Append(logged[path], r)
      /\ \A n \in DOMAIN disk : n # path => logged'[n] = logged[n]
      /\ logged' = [n \in DOMAIN disk |-> logged'[n]]
  BY <1>1, <1>2
<1>6. rest' \in Seq(Log!Cell) /\ WholeFile(disk'[path] \o (buffer' \o rest'), logged'[path])
  <2> DEFINE a == disk[path]
  <2>1. a \in Seq(Log!Cell) /\ buffer \o <<>> = buffer
    BY <1>1, <1>2
  <2> HIDE DEF a
  <2>2. WholeFile(a \o buffer, logged[path])
    BY <1>1, <2>1 DEF a
  <2>3. rest' \in Seq(Log!Cell) /\ WholeFile((a \o buffer) \o rest', Append(logged[path], r))
    BY <1>1, <1>2, <2>2, RecordAdded
  <2>4. (a \o buffer) \o rest' = a \o (buffer \o rest')
    BY <1>2, <2>1, <2>3, ConcatAssociative
  <2>5. QED
    BY <1>1, <1>5, <2>3, <2>4 DEF a
<1>7. ASSUME NEW n \in DOMAIN disk PROVE FileInv(n)'
  <2>1. FileInv(n)
    BY <1>1
  <2>2. CASE n # path
    <3>1. disk'[n] = disk[n] /\ logged'[n] = logged[n] /\ heads'[n] = heads[n]
      BY <1>1, <1>5, <2>2
    <3>2. Len(stamps) \in Nat /\ Len(stamps') \in Nat /\ Len(stamps) <= Len(stamps')
      BY <1>2, <1>3, <1>4
    <3>3. QED
      BY <2>1, <3>1, <3>2, FileStays
  <2>3. CASE n = path
    <3>1. PartFile(disk'[path], logged'[path])
      <4>1. disk'[path] \in Seq(Log!Cell) /\ buffer' \o rest' \in Seq(Log!Cell)
        BY <1>1, <1>2, <1>6
      <4>2. QED
        BY <1>6, <4>1, FirstCells
    <3> DEFINE L == logged[path]
               M == logged'[path]
    <3>2. L \in Seq(1..MaxRecords) /\ Len(L) \in Nat /\ DOMAIN L = 1..Len(L)
      BY <1>1, <1>2
    <3>3. /\ \A k \in 1..Len(L) : L[k] \in 1..Len(stamps)
          /\ \A i, j \in 1..Len(L) : i < j => L[i] < L[j]
      BY <2>1, <2>3, <3>2 DEF FileInv
    <3>4. M = Append(L, r)
      BY <1>5
    <3> HIDE DEF L, M
    <3>5. /\ DOMAIN M = 1..(Len(L) + 1) /\ M[Len(L) + 1] = r
          /\ \A k \in 1..Len(L) : M[k] = L[k]
      BY <3>2, <3>4
    <3>6. \A k \in DOMAIN M : M[k] \in 1..r /\ (k \in 1..Len(L) => M[k] < r)
      <4>1. \A k \in 1..Len(L) : L[k] \in 1..r /\ L[k] < r
        BY <1>2, <1>4, <3>3
      <4>2. \A k \in DOMAIN M : k \in 1..Len(L) \/ k = Len(L) + 1
        BY <3>2, <3>5
      <4>3. r \in 1..r /\ Len(L) + 1 \notin 1..Len(L)
        BY <1>2, <3>2
      <4>4. QED
        BY <3>5, <4>1, <4>2, <4>3
    <3>7. \A i, j \in DOMAIN M : i < j => M[i] < M[j]
      <4>1. SUFFICES ASSUME NEW i \in DOMAIN M, NEW j \in DOMAIN M, i < j PROVE M[i] < M[j]
        OBVIOUS
      <4>2. i \in 1..Len(L) /\ (j \in 1..Len(L) \/ j = Len(L) + 1)
        BY <3>2, <3>5, <4>1
      <4>3. QED
        BY <3>3, <3>5, <3>6, <4>1, <4>2
    <3>8. QED
      BY <1>1, <1>3, <2>3, <3>1, <3>6, <3>7 DEF FileInv, M
  <2>4. QED
    BY <2>2, <2>3
<1>8. Log!TypeOK'
  <2>1. \A n \in DOMAIN disk : logged'[n] \in Seq(1..MaxRecords)
    <3>1. Append(logged[path], r) \in Seq(1..MaxRecords)
      BY <1>1, <1>2
    <3>2. QED
      BY <1>2, <1>5, <3>1
  <2>2. logged' \in [DOMAIN disk -> Seq(1..MaxRecords)]
    BY <1>5, <2>1
  <2>3. QED
    BY <1>1, <1>3, <1>6, <2>2 DEF Log!TypeOK, Log!Log, Log!Cell, Log!Seconds
<1>9. Len(stamps') <= MaxRecords /\ numRecords' + 1 <= Len(stamps')
  BY <1>1, <1>2, <1>3, <1>4
<1>10. QED
  BY <1>1, <1>6, <1>7, <1>8, <1>9 DEF LogInv, Writing

LEMMA CopyChunkKeeps == ASSUME Log!LogAssumption, LogInv, Log!CopyChunk PROVE LogInv'
<1> DEFINE fits == BufferSize - Len(buffer)
<1>1. /\ Log!TypeOK /\ path \in DOMAIN disk /\ heads[path] = -1 /\ pc = "copy" /\ pc' = "copy" /\ path' = path
      /\ WholeFile(disk[path] \o (buffer \o rest), logged[path])
      /\ heads' = heads /\ stamps' = stamps /\ logged' = logged /\ rest # <<>>
      /\ \A n \in DOMAIN disk : FileInv(n)
  BY DEF LogInv, Log!CopyChunk, Writing
<1>2. /\ buffer \in Seq(Log!Cell) /\ rest \in Seq(Log!Cell) /\ Len(buffer) \in Nat /\ Len(rest) \in Nat
      /\ BufferSize \in Nat /\ Len(buffer) < BufferSize /\ fits \in Nat \ {0}
      /\ \A n \in DOMAIN disk : disk[n] \in Seq(Log!Cell)
  BY <1>1 DEF Log!TypeOK, Log!LogAssumption
<1>3. CASE Len(rest) < fits
  <2>1. buffer' = buffer \o rest /\ rest' = <<>> /\ disk' = disk /\ fileSize' = fileSize
    BY <1>3 DEF Log!CopyChunk
  <2>2. /\ buffer' \in Seq(Log!Cell) /\ rest' \in Seq(Log!Cell) /\ Len(buffer') < BufferSize
        /\ buffer' \o rest' = buffer \o rest
    BY <1>2, <1>3, <2>1
  <2>3. Log!TypeOK'
    BY <1>1, <2>1, <2>2 DEF Log!TypeOK, Log!CopyChunk, Log!Cell, Log!Seconds
  <2>4. \A n \in DOMAIN disk' : FileInv(n)'
    BY <1>1, <2>1 DEF FileInv
  <2>5. QED
    BY <1>1, <2>1, <2>2, <2>3, <2>4 DEF LogInv, Log!CopyChunk, Writing
<1>4. CASE ~(Len(rest) < fits)
  <2> DEFINE b == buffer \o SubSeq(rest, 1, fits)
             q == SubSeq(rest, fits + 1, Len(rest))
  <2>1. /\ disk' = [disk EXCEPT ![path] = @ \o b] /\ fileSize' = fileSize + Len(b) /\ buffer' = <<>>
        /\ rest' = q
    BY <1>4 DEF Log!CopyChunk, Log!Flush
  <2> DEFINE x == SubSeq(rest, 1, fits)
  <2>2. x \in Seq(Log!Cell) /\ q \in Seq(Log!Cell) /\ x \o q = rest
    <3>1. fits \in 0..Len(rest) /\ fits \in Nat /\ Len(rest) \in fits..Len(rest) /\ 1 \in 1..(Len(rest) + 1)
      BY <1>2, <1>4
    <3> HIDE DEF fits
    <3>2. x \in Seq(Log!Cell) /\ q \in Seq(Log!Cell)
      BY <1>2, <3>1
    <3>3. x \o q = SubSeq(rest, 1, Len(rest))
      <4>1. /\ rest \in Seq(Log!Cell) /\ 1 \in 1..(Len(rest) + 1)
            /\ fits \in (1 - 1)..Len(rest) /\ Len(rest) \in fits..Len(rest)
        BY <1>2, <3>1
      <4>2. QED
        BY ONLY <4>1, ConcatAdjacentSubSeq DEF x, q
    <3>4. QED
      BY <1>2, <3>2, <3>3, SubSeqFull
  <2>3. b = buffer \o x
    OBVIOUS
  <2> HIDE DEF b, q, x
  <2>4. b \in Seq(Log!Cell) /\ Len(b) \in Nat /\ b \o q = buffer \o rest
    <3>1. b \in Seq(Log!Cell) /\ Len(b) \in Nat
      BY <1>2, <2>2, <2>3
    <3>2. (buffer \o x) \o q = buffer \o (x \o q)
      <4>1. buffer \in Seq(Log!Cell) /\ x \in Seq(Log!Cell) /\ q \in Seq(Log!Cell)
        BY <1>2, <2>2
      <4>2. QED
        BY ONLY <4>1, ConcatAssociative
    <3>3. QED
      BY <2>2, <2>3, <3>1, <3>2
  <2>5. /\ DOMAIN disk' = DOMAIN disk
        /\ \A n \in DOMAIN disk' : disk'[n] \in Seq(Log!Cell) /\ FileInv(n)'
        /\ WholeFile(disk'[path] \o q, logged'[path])
    <3>1. WholeFile(disk[path] \o (b \o q), logged[path])
      BY <1>1, <2>4
    <3>2. QED
      BY <1>1, <2>1, <2>2, <2>4, <3>1, FlushKeepsFiles
  <2>6. buffer' \o rest' = q /\ buffer' \in Seq(Log!Cell) /\ Len(buffer') = 0
    BY <2>1, <2>2
  <2>7. Log!TypeOK'
    <3>1. fileSize' \in Nat /\ Len(buffer') < BufferSize /\ rest' \in Seq(Log!Cell)
      BY <1>1, <1>2, <2>1, <2>2, <2>4, <2>6 DEF Log!TypeOK
    <3>2. QED
      BY <1>1, <2>5, <2>6, <3>1 DEF Log!TypeOK, Log!CopyChunk, Log!Cell, Log!Seconds
  <2>8. QED
    BY <1>1, <2>5, <2>6, <2>7 DEF LogInv, Log!CopyChunk, Writing
<1>5. QED
  BY <1>3, <1>4

LEMMA EndLogKeeps == ASSUME Log!LogAssumption, LogInv, Log!EndLog PROVE LogInv'
<1>1. /\ Log!TypeOK /\ pc = "copy" /\ pc' \in {"idle", "flush"} /\ rest = <<>>
      /\ numRecords + 1 <= Len(stamps) /\ numRecords' = numRecords + 1 /\ Len(stamps) <= MaxRecords
      /\ Len(stamps) \in Nat /\ numRecords \in Nat /\ MaxRecords \in Nat
  BY DEF LogInv, Log!EndLog, Log!TypeOK, Log!LogAssumption
<1>2. numRecords' \in 0..MaxRecords /\ numRecords' + 0 <= Len(stamps)
  BY <1>1
<1>3. rotating' \in BOOLEAN
  BY DEF Log!EndLog
<1>4. Log!TypeOK'
  BY <1>1, <1>2, <1>3 DEF Log!TypeOK, Log!EndLog, Log!Cell, Log!Seconds
<1>5. \A n \in DOMAIN disk' : FileInv(n)'
  BY FilesStay DEF Log!EndLog
<1>6. QED
  BY <1>1, <1>2, <1>4, <1>5 DEF LogInv, Log!EndLog, Writing

\* flush() and the flush of close(): the buffer goes to the file.
LEMMA FlushKeeps ==
  ASSUME Log!LogAssumption, LogInv, Log!FlushCalled \/ Log!CloseFlush
  PROVE  LogInv'
<1>1. /\ Log!TypeOK /\ path \in DOMAIN disk /\ heads[path] = -1 /\ path' = path
      /\ WholeFile(disk[path] \o (buffer \o rest), logged[path])
      /\ pc' \in {"idle", "rewrite"}
      /\ rest = <<>> /\ rest' = <<>> /\ buffer' = <<>>
      /\ disk' = [disk EXCEPT ![path] = @ \o buffer] /\ fileSize' = fileSize + Len(buffer)
      /\ heads' = heads /\ logged' = logged /\ stamps' = stamps
      /\ opened' = opened /\ clock' = clock /\ rotating' = rotating /\ numRecords' = numRecords
      /\ numRecords + 0 <= Len(stamps) /\ Len(stamps) <= MaxRecords
  BY DEF LogInv, Log!FlushCalled, Log!CloseFlush, Log!Flush, Writing
<1>2. buffer \in Seq(Log!Cell) /\ <<>> \in Seq(Log!Cell) /\ Len(<<>>) = 0 /\ <<>> \o <<>> = <<>> /\ Len(buffer) \in Nat
  BY <1>1 DEF Log!TypeOK
<1>3. /\ DOMAIN disk' = DOMAIN disk
      /\ \A n \in DOMAIN disk' : disk'[n] \in Seq(Log!Cell) /\ FileInv(n)'
      /\ WholeFile(disk'[path] \o <<>>, logged'[path])
  <2>1. WholeFile(disk[path] \o (buffer \o <<>>), logged[path])
    BY <1>1
  <2>2. QED
    BY <1>1, <1>2, <2>1, FlushKeepsFiles
<1>4. Log!TypeOK'
  <2>1. fileSize' \in Nat /\ Len(buffer') < BufferSize /\ buffer' \in Seq(Log!Cell) /\ rest' \in Seq(Log!Cell)
    BY <1>1, <1>2 DEF Log!TypeOK, Log!LogAssumption
  <2>2. QED
    BY <1>1, <1>3, <2>1 DEF Log!TypeOK, Log!Cell, Log!Seconds
<1>5. WholeFile(disk'[path'] \o (buffer' \o rest'), logged'[path'])
  BY <1>1, <1>2, <1>3
<1>6. QED
  BY <1>1, <1>3, <1>4, <1>5 DEF LogInv, Writing

LEMMA CloseKeeps == ASSUME Log!LogAssumption, LogInv, Log!Close PROVE LogInv'
<1>1. Log!TypeOK'
  BY DEF LogInv, Log!TypeOK, Log!Close, Log!Cell, Log!Seconds
<1>2. \A n \in DOMAIN disk' : FileInv(n)'
  BY FilesStay DEF Log!Close
<1>3. QED
  BY <1>1, <1>2 DEF LogInv, Log!Close, Writing

LEMMA CloseHeaderKeeps == ASSUME Log!LogAssumption, LogInv, Log!CloseHeader PROVE LogInv'
<1>1. /\ Log!TypeOK /\ path \in DOMAIN disk /\ pc' \in {"open", "closed"}
      /\ WholeFile(disk[path] \o (buffer \o rest), logged[path])
      /\ rest = <<>> /\ buffer = <<>>
      /\ heads' = [heads EXCEPT ![path] = numRecords]
      /\ disk' = disk /\ logged' = logged /\ stamps' = stamps
      /\ \A n \in DOMAIN disk : FileInv(n)
      /\ numRecords + 0 <= Len(stamps) /\ Len(stamps) <= MaxRecords
      /\ UNCHANGED <<rotating, path, buffer, rest, fileSize, numRecords, clock, opened>>
  BY DEF LogInv, Log!CloseHeader, Writing
<1>2. heads \in [DOMAIN disk -> 0..MaxRecords \cup {-1}] /\ numRecords \in 0..MaxRecords /\ disk[path] \in Seq(Log!Cell)
  BY <1>1 DEF Log!TypeOK
<1>3. heads' \in [DOMAIN disk -> 0..MaxRecords \cup {-1}] /\ \A n \in DOMAIN disk : n # path => heads'[n] = heads[n]
  BY <1>1, <1>2
<1>4. Log!TypeOK'
  BY <1>1, <1>3 DEF Log!TypeOK, Log!Cell, Log!Seconds
<1>5. WholeFile(disk[path], logged[path])
  <2>1. <<>> \o <<>> = <<>>
    OBVIOUS
  <2>2. disk[path] \o <<>> = disk[path]
    BY <1>2
  <2>3. QED
    BY <1>1, <2>1, <2>2
<1>6. ASSUME NEW n \in DOMAIN disk PROVE FileInv(n)'
  <2>1. CASE n = path
    BY <1>1, <1>5, <2>1 DEF FileInv
  <2>2. CASE n # path
    BY <1>1, <1>3, <2>2 DEF FileInv
  <2>3. QED
    BY <2>1, <2>2
<1>7. QED
  BY <1>1, <1>2, <1>4, <1>6 DEF LogInv, Writing

LEMMA CrashKeeps == ASSUME Log!LogAssumption, LogInv, Log!Crash PROVE LogInv'
<1>1. Log!TypeOK /\ MaxRecords \in Nat /\ <<>> \in Seq(Log!Cell) /\ Len(<<>>) = 0 /\ Len(stamps) \in Nat
  BY DEF LogInv, Log!LogAssumption, Log!TypeOK
<1>2. /\ Len(buffer') < BufferSize /\ buffer' \in Seq(Log!Cell) /\ rest' \in Seq(Log!Cell)
      /\ fileSize' \in Nat /\ numRecords' \in 0..MaxRecords
  BY <1>1 DEF Log!Crash, Log!LogAssumption
<1>3. Log!TypeOK'
  BY <1>1, <1>2 DEF Log!TypeOK, Log!Crash, Log!Cell, Log!Seconds
<1>4. \A n \in DOMAIN disk' : FileInv(n)'
  BY FilesStay DEF Log!Crash
<1>5. QED
  BY <1>1, <1>3, <1>4 DEF LogInv, Log!Crash, Writing

LEMMA TickKeeps == ASSUME Log!LogAssumption, LogInv, Log!Tick PROVE LogInv'
<1>1. Log!TypeOK /\ clock' \in Log!Seconds
  BY DEF LogInv, Log!TypeOK, Log!Tick, Log!Seconds, Log!LogAssumption
<1>2. Log!TypeOK'
  BY <1>1 DEF Log!TypeOK, Log!Tick, Log!Cell, Log!Seconds
<1>3. \A n \in DOMAIN disk' : FileInv(n)'
  BY FilesStay DEF Log!Tick
<1>4. QED
  BY <1>2, <1>3 DEF LogInv, Log!Tick, Writing

LEMMA StutterKeeps == ASSUME LogInv, UNCHANGED Log!vars PROVE LogInv'
<1>1. Log!TypeOK'
  BY DEF LogInv, Log!TypeOK, Log!vars, Log!Cell, Log!Seconds
<1>2. \A n \in DOMAIN disk' : FileInv(n)'
  BY FilesStay DEF Log!vars
<1>3. QED
  BY <1>1, <1>2 DEF LogInv, Log!vars, Writing

LEMMA LogNext == ASSUME Log!LogAssumption, LogInv, [Log!Next]_(Log!vars) PROVE LogInv'
<1>1. CASE \E size \in RecordSizes, ts \in 1..clock : Log!Log(size, ts)
  BY <1>1, LogKeeps
<1>2. CASE Log!FlushCalled \/ Log!CloseFlush
  BY <1>2, FlushKeeps
<1>3. QED
  BY <1>1, <1>2, BeginKeeps, OpenFileKeeps, OpenFailsKeeps, WriteHeaderKeeps, CopyChunkKeeps, EndLogKeeps,
     CloseKeeps, CloseHeaderKeeps, CrashKeeps, TickKeeps, StutterKeeps DEF Log!Next

LEMMA LogIsWhole == ASSUME Log!LogAssumption, LogInv PROVE Log!ReplayIsWhole
BY FileIsWhole DEF LogInv, Log!ReplayIsWhole

-------------------------------------------------------------------------------
(* Wherever a flush or the end of the process cuts a file, what is         *)
(* replayed from it is the records it holds to their last cell, in order,  *)
(* and a range of times gives those of the range: for any size of the      *)
(* buffer, of records and of files, and any number of them.                *)
THEOREM ReplayIsFaithful == ASSUME Log!LogAssumption PROVE Log!Spec => []ReplayIsWhole
<1>1. Log!Init => LogInv
  BY LogInit
<1>2. LogInv /\ [Log!Next]_(Log!vars) => LogInv'
  BY LogNext
<1>3. LogInv => ReplayIsWhole
  BY LogIsWhole DEF ReplayIsWhole
<1>4. QED
  BY <1>1, <1>2, <1>3, PTL DEF Log!Spec
-------------------------------------------------------------------------------
(* The inductive invariant of the bus.                                     *)

OneIf(b) == IF b THEN 1 ELSE 0

Frames == {stack[i] : i \in DOMAIN stack}
\* Frame f's loop has called h.
CalledBy(h, f) == \E i \in 1..(f.at - 1) : handlers[f.of][i] = h
\* h has been a handler of type t since before event n.
DueTo(h, t, n) == Bus!Subscribed(h, t) /\ since[h] < n

QueueInv ==
  /\ bClaimed \in Seq(EventTypes) /\ bPopped \in Seq(EventTypes)
  /\ bFilled \subseteq DOMAIN bClaimed
  /\ filling \in [BusThreads -> SUBSET DOMAIN bClaimed]

\* A subscription is in one list, once.
ListInv ==
  /\ \A t, u \in EventTypes : \A i \in DOMAIN handlers[t], j \in DOMAIN handlers[u] :
       handlers[t][i] = handlers[u][j] => t = u /\ i = j
  /\ \A h \in Handlers : since[h] <= seqNum

\* While a loop walks a list nothing is added to it; all that was published
\* since its event is published from inside of it.
FrameInv(f) ==
  /\ f \in Bus!Frame /\ f.n \in 1..seqNum
  /\ f.last = Len(handlers[f.of]) /\ f.at \in 1..(f.last + 1)
  /\ f.loop = "wildcard" => f.of = None
  /\ f.loop = "typed" =>
       /\ f.of = published[f.n].type
       /\ \A i \in 1..f.last : since[handlers[f.of][i]] < f.n
  /\ \A m \in (f.n + 1)..seqNum : f.n \in published[m].within

StackInv ==
  /\ Len(published) = seqNum
  /\ \A f \in Frames : FrameInv(f)
  /\ \A i, j \in DOMAIN stack : i < j => stack[i].n < stack[j].n

\* How often h has been called with event n by now, when n's dispatch is in
\* the first loop, in the second, and over.  A handler of all types that came
\* during the first loop is still called in the second.
CallsCounted(h, n) ==
  LET t == published[n].type
  IN  /\ \A f \in Frames : f.n = n =>
           Bus!Times(h, n) = (IF f.loop = "typed" THEN 0 ELSE OneIf(DueTo(h, t, n))) + OneIf(CalledBy(h, f))
      /\ Bus!Dispatched(n) =>
           /\ OneIf(DueTo(h, t, n)) + OneIf(DueTo(h, None, n)) <= Bus!Times(h, n)
           /\ Bus!Times(h, n) <= OneIf(DueTo(h, t, n)) + OneIf(Bus!Subscribed(h, None))

CountInv ==
  /\ \A h \in Handlers : \A i \in DOMAIN seen[h] : seen[h][i] \in 1..seqNum
  /\ \A n \in 1..seqNum, h \in Handlers : CallsCounted(h, n)

OrderInv == \A h \in Handlers : \A i, j \in DOMAIN seen[h] :
  i < j /\ seen[h][i] > seen[h][j] => seen[h][j] \in published[seen[h][i]].within

QueuedInv ==
  /\ Cardinality(Bus!Queued) = Len(bPopped)
  /\ \A n \in Bus!Queued :
       published[n] = [type |-> bPopped[Cardinality({m \in Bus!Queued : m <= n})], queued |-> TRUE, within |-> {}]

BusInv ==
  /\ Bus!BusAssumption
  /\ Bus!TypeOK /\ QueueInv /\ ListInv /\ StackInv /\ CountInv /\ OrderInv /\ QueuedInv

-------------------------------------------------------------------------------
(* Counting.                                                               *)

LEMMA SameCardinality == ASSUME NEW S PROVE Bus!Cardinality(S) = Cardinality(S)
BY DEF Bus!Cardinality, Cardinality

LEMMA FiniteUpto == ASSUME NEW k \in Nat, NEW S, S \subseteq 1..k PROVE IsFiniteSet(S) /\ Cardinality(S) \in Nat
<1>1. IsFiniteSet(1..k)
  BY FS_Interval
<1>2. QED
  BY <1>1, FS_Subset, FS_CardinalityType

Places(s, n) == {i \in DOMAIN s : s[i] = n}

LEMMA PlacesFinite ==
  ASSUME NEW s \in Seq(Nat), NEW n PROVE IsFiniteSet(Places(s, n)) /\ Cardinality(Places(s, n)) \in Nat
<1>1. Len(s) \in Nat /\ Places(s, n) \subseteq 1..Len(s)
  BY DEF Places
<1>2. QED
  BY <1>1, FiniteUpto

\* An element more.
LEMMA PlacesAppend ==
  ASSUME NEW s \in Seq(Nat), NEW m \in Nat, NEW n
  PROVE  Cardinality(Places(Append(s, m), n)) = Cardinality(Places(s, n)) + OneIf(n = m)
<1> DEFINE k == Len(s)
           P == Places(s, n)
           T == Places(Append(s, m), n)
<1>1. k \in Nat /\ DOMAIN s = 1..k /\ DOMAIN Append(s, m) = 1..(k + 1)
  OBVIOUS
<1>2. Append(s, m)[k + 1] = m /\ \A i \in 1..k : Append(s, m)[i] = s[i]
  OBVIOUS
<1>3. T = IF n = m THEN P \cup {k + 1} ELSE P
  BY <1>1, <1>2 DEF Places
<1>4. k + 1 \notin P
  BY <1>1 DEF Places
<1>5. IsFiniteSet(P) /\ Cardinality(P) \in Nat
  BY PlacesFinite
<1> HIDE DEF P, T, k
<1>6. Cardinality(P \cup {k + 1}) = Cardinality(P) + 1
  BY <1>4, <1>5, FS_AddElement
<1>7. Cardinality(T) = Cardinality(P) + OneIf(n = m)
  BY <1>3, <1>5, <1>6 DEF OneIf
<1>8. QED
  BY <1>7 DEF P, T

LEMMA TimesType == ASSUME Bus!TypeOK, NEW h \in Handlers, NEW n PROVE Bus!Times(h, n) \in Nat
<1>1. seen[h] \in Seq(Nat)
  BY DEF Bus!TypeOK
<1>2. QED
  BY <1>1, PlacesFinite, SameCardinality DEF Bus!Times, Places

\* A call more.
LEMMA TimesAppend ==
  ASSUME Bus!TypeOK, NEW g \in Handlers, NEW m \in Nat, seen' = [seen EXCEPT ![g] = Append(@, m)],
         NEW h \in Handlers, NEW n \in Nat
  PROVE  Bus!Times(h, n)' = Bus!Times(h, n) + OneIf(h = g /\ n = m)
<1>1. seen[h] \in Seq(Nat) /\ seen'[h] = IF h = g THEN Append(seen[h], m) ELSE seen[h]
  BY DEF Bus!TypeOK
<1>2. CASE h = g
  <2>1. Bus!Times(h, n) = Cardinality(Places(seen[h], n)) /\ Bus!Times(h, n)' = Cardinality(Places(seen'[h], n))
    BY SameCardinality DEF Bus!Times, Places
  <2>2. OneIf(h = g /\ n = m) = OneIf(n = m)
    BY <1>2 DEF OneIf
  <2>3. QED
    BY <2>1, <2>2, <1>1, <1>2, PlacesAppend
<1>3. CASE h # g
  <2>1. Bus!Times(h, n)' = Bus!Times(h, n)
    BY <1>1, <1>3 DEF Bus!Times
  <2>2. QED
    BY <2>1, <1>3, TimesType DEF OneIf
<1>4. QED
  BY <1>2, <1>3

\* The calls that DispatchExact asks for.
LEMMA DueCount ==
  ASSUME NEW h, NEW t
  PROVE  Cardinality({u \in {<<"typed", t>>, <<"wildcard", None>>} : Bus!Subscribed(h, u[2])})
           = OneIf(Bus!Subscribed(h, t)) + OneIf(Bus!Subscribed(h, None))
<1> DEFINE D == {u \in {<<"typed", t>>, <<"wildcard", None>>} : Bus!Subscribed(h, u[2])}
           a == <<"typed", t>>
           b == <<"wildcard", None>>
           A == IF Bus!Subscribed(h, t) THEN {a} ELSE {}
           B == IF Bus!Subscribed(h, None) THEN {b} ELSE {}
<1>1. D = A \cup B
  OBVIOUS
<1>2. a # b
  OBVIOUS
<1>3. IsFiniteSet(A) /\ Cardinality(A) = OneIf(Bus!Subscribed(h, t))
  BY FS_EmptySet, FS_Singleton DEF OneIf
<1>4. IsFiniteSet(B) /\ Cardinality(B) = OneIf(Bus!Subscribed(h, None))
  BY FS_EmptySet, FS_Singleton DEF OneIf
<1>5. A \cap B = {}
  BY <1>2
<1>6. Cardinality(A \cup B) = Cardinality(A) + Cardinality(B) - Cardinality(A \cap B)
  BY <1>3, <1>4, FS_Union
<1>7. Cardinality(A \cap B) = 0
  BY <1>5, FS_EmptySet
<1> HIDE DEF A, B, D
<1>8. Cardinality(D) = OneIf(Bus!Subscribed(h, t)) + OneIf(Bus!Subscribed(h, None))
  BY <1>1, <1>3, <1>4, <1>6, <1>7 DEF OneIf
<1>9. QED
  BY <1>8 DEF D

\* The numbers of what came through the queue, when one more is published.
LEMMA QueuedAppend ==
  ASSUME Bus!TypeOK, QueuedInv, NEW e \in [type : EventTypes, queued : BOOLEAN, within : SUBSET Nat],
         published' = Append(published, e)
  PROVE  /\ ~e.queued /\ bPopped' = bPopped => QueuedInv'
         /\ e.queued /\ e.within = {} /\ bPopped \in Seq(EventTypes) /\ bPopped' = Append(bPopped, e.type) => QueuedInv'
<1> DEFINE k == Len(published)
           Upto(n) == {m \in Bus!Queued : m <= n}
<1>1. k \in Nat /\ DOMAIN published = 1..k /\ Bus!Queued \subseteq 1..k
  BY DEF Bus!TypeOK, Bus!Queued
<1>2. /\ DOMAIN published' = 1..(k + 1) /\ published'[k + 1] = e
      /\ \A n \in 1..k : published'[n] = published[n]
  BY <1>1 DEF Bus!TypeOK
<1>3. /\ IsFiniteSet(Bus!Queued) /\ Cardinality(Bus!Queued) \in Nat
      /\ \A n \in 1..k : Upto(n) \subseteq Bus!Queued /\ Cardinality(Upto(n)) \in Nat /\ Cardinality(Upto(n)) <= Cardinality(Bus!Queued)
  <2>1. IsFiniteSet(Bus!Queued)
    BY <1>1, FiniteUpto
  <2>2. ASSUME NEW n \in 1..k
        PROVE  Upto(n) \subseteq Bus!Queued /\ Cardinality(Upto(n)) \in Nat /\ Cardinality(Upto(n)) <= Cardinality(Bus!Queued)
    <3>1. Upto(n) \subseteq Bus!Queued
      OBVIOUS
    <3>2. QED
      BY <2>1, <3>1, FS_Subset, FS_CardinalityType
  <2>3. QED
    BY <2>1, <2>2, FS_CardinalityType
<1> HIDE DEF k, Upto
<1>4. ASSUME ~e.queued, bPopped' = bPopped PROVE QueuedInv'
  <2>1. Bus!Queued' = Bus!Queued
    BY <1>1, <1>2, <1>4 DEF Bus!Queued
  <2>2. QED
    BY <2>1, <1>1, <1>2, <1>4 DEF QueuedInv
<1>5. ASSUME e.queued, e.within = {}, bPopped \in Seq(EventTypes), bPopped' = Append(bPopped, e.type) PROVE QueuedInv'
  <2>1. Bus!Queued' = Bus!Queued \cup {k + 1} /\ k + 1 \notin Bus!Queued
    BY <1>1, <1>2, <1>5 DEF Bus!Queued
  <2>2. Cardinality(Bus!Queued') = Cardinality(Bus!Queued) + 1
    BY <2>1, <1>3, FS_AddElement
  <2>3. Len(bPopped') = Len(bPopped) + 1 /\ bPopped'[Len(bPopped) + 1] = e.type /\ \A i \in 1..Len(bPopped) : bPopped'[i] = bPopped[i]
    BY <1>5
  <2>4. Cardinality(Bus!Queued) = Len(bPopped)
    BY DEF QueuedInv
  <2>5. {m \in Bus!Queued' : m <= k + 1} = Bus!Queued'
    <3>1. Bus!Queued' \subseteq 1..(k + 1)
      BY <2>1, <1>1
    <3>2. \A m \in Bus!Queued' : m <= k + 1
      BY <3>1, <1>1
    <3>3. QED
      BY <3>2
  <2>6. published'[k + 1] = [type |-> bPopped'[Cardinality({m \in Bus!Queued' : m <= k + 1})], queued |-> TRUE, within |-> {}]
    <3>1. bPopped'[Cardinality({m \in Bus!Queued' : m <= k + 1})] = e.type
      BY <2>2, <2>3, <2>4, <2>5
    <3>2. e = [type |-> e.type, queued |-> TRUE, within |-> {}]
      BY <1>5
    <3>3. QED
      BY <3>1, <3>2, <1>2
  <2>7. ASSUME NEW n \in Bus!Queued
        PROVE  published'[n] = [type |-> bPopped'[Cardinality({m \in Bus!Queued' : m <= n})], queued |-> TRUE, within |-> {}]
    <3>1. {m \in Bus!Queued' : m <= n} = Upto(n)
      BY <2>1, <1>1 DEF Upto
    <3>2. n \in Upto(n) /\ IsFiniteSet(Upto(n))
      BY <1>1, <1>3, FS_Subset DEF Upto
    <3>3. Cardinality(Upto(n)) # 0
      BY <3>2, FS_EmptySet
    <3>4. Cardinality(Upto(n)) \in 1..Len(bPopped)
      BY <3>3, <1>1, <1>3, <2>4
    <3>5. published[n] = [type |-> bPopped[Cardinality(Upto(n))], queued |-> TRUE, within |-> {}]
      BY DEF QueuedInv, Upto
    <3>6. QED
      BY <3>1, <3>4, <3>5, <2>3, <1>1, <1>2
  <2>8. QED
    BY <2>1, <2>2, <2>3, <2>4, <2>6, <2>7 DEF QueuedInv
<1>6. QED
  BY <1>4, <1>5

-------------------------------------------------------------------------------
(* The steps.                                                              *)

LEMMA BusInitInv == ASSUME Bus!BusAssumption, Bus!Init PROVE BusInv
<1>1. /\ stack = <<>> /\ published = <<>> /\ bPopped = <<>> /\ seqNum = 0 /\ batch = -1 /\ bClaimed = <<>> /\ bFilled = {}
      /\ filling = [p \in BusThreads |-> {}] /\ handlers = [t \in EventTypes |-> <<>>]
      /\ seen = [h \in Handlers |-> <<>>] /\ since = [h \in Handlers |-> 0]
  BY DEF Bus!Init, Bus!Queue!Init
<1>2. Bus!TypeOK /\ QueueInv
  BY <1>1 DEF Bus!TypeOK, QueueInv
<1>3. ListInv /\ StackInv /\ CountInv /\ OrderInv
  BY <1>1 DEF ListInv, StackInv, Frames, CountInv, OrderInv
<1>4. Bus!Queued = {}
  BY <1>1 DEF Bus!Queued
<1>5. QueuedInv
  BY <1>1, <1>4, FS_EmptySet DEF QueuedInv
<1>6. QED
  BY <1>2, <1>3, <1>5 DEF BusInv

LEMMA EventTyped ==
  ASSUME Bus!TypeOK, StackInv, NEW n \in 1..seqNum
  PROVE  n \in DOMAIN published /\ published[n] \in [type : EventTypes, queued : BOOLEAN, within : SUBSET Nat]
<1> DEFINE Events == [type : EventTypes, queued : BOOLEAN, within : SUBSET Nat]
<1>1. published \in Seq(Events) /\ Len(published) = seqNum
  BY DEF Bus!TypeOK, StackInv
<1> HIDE DEF Events
<1>2. n \in DOMAIN published /\ published[n] \in Events
  BY <1>1
<1>3. QED
  BY <1>2 DEF Events

LEMMA SubscribeInv ==
  ASSUME BusInv, NEW g \in Handlers, NEW u \in EventTypes, Bus!Subscribe(g, u)
  PROVE  BusInv'
<1>0. None \in EventTypes /\ Batches \subseteq Nat
  BY DEF BusInv, Bus!BusAssumption
<1> USE <1>0
<1> USE DEF BusInv
<1>1. /\ handlers' = [handlers EXCEPT ![u] = Append(handlers[u], g)] /\ since' = [since EXCEPT ![g] = seqNum]
      /\ \A t \in EventTypes : ~Bus!Subscribed(g, t)
      /\ \A f \in DOMAIN stack : stack[f].of # u
      /\ UNCHANGED <<seqNum, stack, batch, seen, published>>
      /\ UNCHANGED <<bClaimed, bFilled, bPopped, bRefused, filling>>
  BY DEF Bus!Subscribe, Bus!queueVars
<1>2. Bus!TypeOK'
  BY <1>1 DEF Bus!TypeOK
<1>3. QueueInv' /\ OrderInv' /\ QueuedInv'
  BY <1>1 DEF QueueInv, OrderInv, QueuedInv, Bus!Queued
<1>4. /\ \A t \in EventTypes : handlers[t] \in Seq(Handlers) /\ DOMAIN handlers[t] = 1..Len(handlers[t]) /\ Len(handlers[t]) \in Nat
      /\ \A t \in EventTypes : t # u => handlers'[t] = handlers[t]
      /\ DOMAIN handlers'[u] = 1..(Len(handlers[u]) + 1) /\ handlers'[u][Len(handlers[u]) + 1] = g
      /\ \A i \in 1..Len(handlers[u]) : handlers'[u][i] = handlers[u][i]
      /\ seqNum \in Nat /\ \A h \in Handlers : since[h] \in Nat /\ since'[h] = IF h = g THEN seqNum ELSE since[h]
  BY <1>1 DEF Bus!TypeOK
<1>5. \A t \in EventTypes : \A i \in DOMAIN handlers[t] : handlers[t][i] # g /\ handlers[t][i] \in Handlers
  BY <1>1, <1>4 DEF Bus!Subscribed
<1>6. ListInv'
  <2>0. \A t \in EventTypes : \A i \in DOMAIN handlers'[t] :
          IF handlers'[t][i] = g THEN t = u /\ i = Len(handlers[u]) + 1
                                 ELSE i \in DOMAIN handlers[t] /\ handlers'[t][i] = handlers[t][i]
    BY <1>4, <1>5
  <2>1. ASSUME NEW t \in EventTypes, NEW v \in EventTypes, NEW i \in DOMAIN handlers'[t], NEW j \in DOMAIN handlers'[v],
               handlers'[t][i] = handlers'[v][j]
        PROVE  t = v /\ i = j
    <3>1. CASE handlers'[t][i] = g
      BY <3>1, <2>0, <2>1
    <3>2. CASE handlers'[t][i] # g
      <4>1. i \in DOMAIN handlers[t] /\ j \in DOMAIN handlers[v] /\ handlers[t][i] = handlers[v][j]
        BY <3>2, <2>0, <2>1
      <4>2. QED
        BY <4>1 DEF ListInv
    <3>3. QED
      BY <3>1, <3>2
  <2>2. \A h \in Handlers : since'[h] <= seqNum'
    BY <1>1, <1>4 DEF ListInv
  <2>3. QED
    BY <2>1, <2>2 DEF ListInv
<1>7. ASSUME NEW f \in Frames PROVE FrameInv(f)' /\ \A h : CalledBy(h, f)' <=> CalledBy(h, f)
  <2>1. FrameInv(f) /\ f.of \in EventTypes \ {u} /\ handlers'[f.of] = handlers[f.of]
    BY <1>1, <1>4 DEF StackInv, Frames, FrameInv, Bus!Frame
  <2>2. \A h : CalledBy(h, f)' <=> CalledBy(h, f)
    BY <2>1, <1>1 DEF CalledBy
  <2>3. \A j \in 1..f.last : since'[handlers[f.of][j]] = since[handlers[f.of][j]]
    BY <2>1, <1>4, <1>5 DEF FrameInv
  <2>4. QED
    BY <2>1, <2>2, <2>3, <1>1 DEF FrameInv
<1>8. StackInv'
  BY <1>1, <1>7 DEF StackInv, Frames
<1>9. ASSUME NEW h \in Handlers, NEW n \in 1..seqNum PROVE CallsCounted(h, n)'
  <2>1. \A t \in EventTypes : Bus!Subscribed(h, t)' <=> Bus!Subscribed(h, t) \/ (h = g /\ t = u)
    BY <1>1, <1>4, <1>5 DEF Bus!Subscribed
  <2>2. \A t \in EventTypes : DueTo(h, t, n)' <=> DueTo(h, t, n)
    BY <2>1, <1>1, <1>4 DEF DueTo
  <2>3. Bus!Times(h, n)' = Bus!Times(h, n) /\ (Bus!Dispatched(n)' <=> Bus!Dispatched(n))
    BY <1>1 DEF Bus!Times, Bus!Dispatched
  <2>4. PICK T \in EventTypes : T = published[n].type /\ T = published'[n].type
    BY <1>1, EventTyped
  <2>5. CallsCounted(h, n) /\ Bus!Times(h, n) \in Nat
    BY TimesType DEF CountInv
  <2>6. /\ OneIf(DueTo(h, T, n)') = OneIf(DueTo(h, T, n)) /\ OneIf(DueTo(h, None, n)') = OneIf(DueTo(h, None, n))
        /\ OneIf(Bus!Subscribed(h, None)) <= OneIf(Bus!Subscribed(h, None)') /\ OneIf(Bus!Subscribed(h, None)) \in Nat
        /\ OneIf(Bus!Subscribed(h, None)') \in Nat /\ OneIf(DueTo(h, T, n)) \in Nat
    BY <2>1, <2>2 DEF OneIf
  <2>7. ASSUME NEW f \in Frames, f.n = n
        PROVE  Bus!Times(h, n)' = (IF f.loop = "typed" THEN 0 ELSE OneIf(DueTo(h, T, n)')) + OneIf(CalledBy(h, f)')
    <3>1. Bus!Times(h, n) = (IF f.loop = "typed" THEN 0 ELSE OneIf(DueTo(h, T, n))) + OneIf(CalledBy(h, f))
      BY <2>4, <2>5, <2>7 DEF CallsCounted
    <3>2. OneIf(CalledBy(h, f)') = OneIf(CalledBy(h, f))
      BY <1>7 DEF OneIf
    <3>3. QED
      BY <3>1, <3>2, <2>3, <2>6
  <2>8. ASSUME Bus!Dispatched(n)
        PROVE  /\ OneIf(DueTo(h, T, n)') + OneIf(DueTo(h, None, n)') <= Bus!Times(h, n)'
               /\ Bus!Times(h, n)' <= OneIf(DueTo(h, T, n)') + OneIf(Bus!Subscribed(h, None)')
    <3>1. /\ OneIf(DueTo(h, T, n)) + OneIf(DueTo(h, None, n)) <= Bus!Times(h, n)
          /\ Bus!Times(h, n) <= OneIf(DueTo(h, T, n)) + OneIf(Bus!Subscribed(h, None))
      BY <2>4, <2>5, <2>8 DEF CallsCounted
    <3>2. QED
      BY <3>1, <2>3, <2>5, <2>6
  <2>9. QED
    BY <2>3, <2>4, <2>7, <2>8, <1>1 DEF CallsCounted, Frames
<1>10. CountInv'
  BY <1>1, <1>9 DEF CountInv
<1>11. QED
  BY <1>2, <1>3, <1>6, <1>8, <1>10

LEMMA DispatchedFrames == ASSUME NEW n PROVE Bus!Dispatched(n) <=> \A f \in Frames : f.n # n
BY DEF Bus!Dispatched, Frames

\* The dispatch on top of the stack.
LEMMA TopFrame ==
  ASSUME BusInv, Bus!Running
  PROVE  /\ Len(stack) \in Nat \ {0} /\ DOMAIN stack = 1..Len(stack) /\ Bus!Top = stack[Len(stack)]
         /\ Bus!Top \in Frames /\ Bus!Top \in Bus!Frame /\ FrameInv(Bus!Top)
         /\ \A i \in 1..(Len(stack) - 1) : stack[i] # Bus!Top /\ stack[i] \in Frames
         /\ \A f \in Frames : f # Bus!Top => f.n # Bus!Top.n
<1>1. stack \in Seq(Bus!Frame) /\ stack # <<>>
  BY DEF BusInv, Bus!TypeOK, Bus!Running
<1>2. Len(stack) \in Nat \ {0} /\ DOMAIN stack = 1..Len(stack)
  BY <1>1
<1>3. Bus!Top \in Frames /\ FrameInv(Bus!Top)
  BY <1>2 DEF Bus!Top, Frames, BusInv, StackInv
<1>4. ASSUME NEW i \in 1..(Len(stack) - 1) PROVE stack[i].n < Bus!Top.n /\ stack[i].n # Bus!Top.n
  <2>1. stack[i].n < Bus!Top.n
    BY <1>2, <1>4 DEF BusInv, StackInv, Bus!Top
  <2>2. Bus!Top.n \in Nat /\ stack[i].n \in Nat
    <3>1. Bus!Top \in Bus!Frame /\ stack[i] \in Bus!Frame
      BY <1>1, <1>2, <1>3 DEF FrameInv
    <3>2. QED
      BY <3>1 DEF Bus!Frame
  <2>3. QED
    BY <2>1, <2>2
<1>5. \A f \in Frames : f # Bus!Top => \E i \in 1..(Len(stack) - 1) : f = stack[i]
  BY <1>2 DEF Frames, Bus!Top
<1>6. QED
  BY <1>2, <1>3, <1>4, <1>5 DEF Bus!Top, FrameInv, Frames

\* The loop on top goes on.
LEMMA SetTopFrames ==
  ASSUME BusInv, Bus!Running, NEW e \in Bus!Frame, e.n = Bus!Top.n, stack' = Bus!SetTop(e)
  PROVE  /\ stack' \in Seq(Bus!Frame) /\ Frames' = (Frames \ {Bus!Top}) \cup {e}
         /\ \A i, j \in DOMAIN stack' : i < j => stack'[i].n < stack'[j].n
         /\ \A n : Bus!Dispatched(n)' <=> Bus!Dispatched(n)
<1> DEFINE k == Len(stack)
<1>1. stack \in Seq(Bus!Frame) /\ k \in Nat \ {0} /\ DOMAIN stack = 1..k /\ Bus!Top = stack[k]
  BY TopFrame DEF BusInv, Bus!TypeOK
<1>2. stack' = [stack EXCEPT ![k] = e]
  BY DEF Bus!SetTop
<1> HIDE DEF k
<1>3. /\ stack' \in Seq(Bus!Frame) /\ DOMAIN stack' = 1..k /\ stack'[k] = e
      /\ \A i \in 1..k : i # k => stack'[i] = stack[i]
      /\ \A i \in 1..k : stack'[i].n = stack[i].n
  BY <1>1, <1>2
<1>4. \A i, j \in DOMAIN stack' : i < j => stack'[i].n < stack'[j].n
  BY <1>1, <1>3 DEF BusInv, StackInv
<1>5. \A i \in 1..k : i # k => i \in 1..(k - 1)
  BY <1>1
<1>6. \A i \in 1..k : i # k => stack[i] # Bus!Top
  BY <1>1, <1>5, TopFrame DEF k
<1>7. Frames' = (Frames \ {Bus!Top}) \cup {e}
  BY <1>1, <1>3, <1>6 DEF Frames
<1>8. \A n : Bus!Dispatched(n)' <=> Bus!Dispatched(n)
  BY <1>1, <1>3 DEF Bus!Dispatched
<1>9. QED
  BY <1>3, <1>4, <1>7, <1>8

\* What a step of a loop leaves alone.
LEMMA SameLists ==
  ASSUME UNCHANGED <<handlers, since>>
  PROVE  /\ \A h, f : (CalledBy(h, f)' <=> CalledBy(h, f))
         /\ \A h, t, n : (DueTo(h, t, n)' <=> DueTo(h, t, n))
         /\ \A h, t : (Bus!Subscribed(h, t)' <=> Bus!Subscribed(h, t))
BY DEF CalledBy, DueTo, Bus!Subscribed

LEMMA SameFrames ==
  ASSUME UNCHANGED <<handlers, seqNum, published, since>> PROVE \A f : (FrameInv(f)' <=> FrameInv(f))
BY DEF FrameInv

\* The counts of an event that is not the one being dispatched.
LEMMA OtherCounted ==
  ASSUME BusInv, NEW h \in Handlers, NEW n \in 1..seqNum, UNCHANGED <<handlers, since>>, published'[n] = published[n],
         Bus!Times(h, n)' = Bus!Times(h, n), \A f \in Frames' : f.n = n => f \in Frames, Bus!Dispatched(n)' => Bus!Dispatched(n)
  PROVE  CallsCounted(h, n)'
<1>1. PICK T : T = published[n].type /\ T = published'[n].type
  OBVIOUS
<1>2. CallsCounted(h, n)
  BY DEF BusInv, CountInv
<1>3. /\ OneIf(DueTo(h, T, n)') = OneIf(DueTo(h, T, n)) /\ OneIf(DueTo(h, None, n)') = OneIf(DueTo(h, None, n))
      /\ OneIf(Bus!Subscribed(h, None)') = OneIf(Bus!Subscribed(h, None))
      /\ \A f : OneIf(CalledBy(h, f)') = OneIf(CalledBy(h, f))
  BY SameLists DEF OneIf
<1>4. ASSUME NEW f \in Frames', f.n = n
      PROVE  Bus!Times(h, n)' = (IF f.loop = "typed" THEN 0 ELSE OneIf(DueTo(h, T, n)')) + OneIf(CalledBy(h, f)')
  BY <1>1, <1>2, <1>3, <1>4 DEF CallsCounted
<1>5. ASSUME Bus!Dispatched(n)'
      PROVE  /\ OneIf(DueTo(h, T, n)') + OneIf(DueTo(h, None, n)') <= Bus!Times(h, n)'
             /\ Bus!Times(h, n)' <= OneIf(DueTo(h, T, n)') + OneIf(Bus!Subscribed(h, None)')
  BY <1>1, <1>2, <1>3, <1>5 DEF CallsCounted
<1>6. QED
  BY <1>1, <1>4, <1>5 DEF CallsCounted

LEMMA DeliverInv == ASSUME BusInv, Bus!Deliver PROVE BusInv'
<1>0. None \in EventTypes /\ Batches \subseteq Nat
  BY DEF BusInv, Bus!BusAssumption
<1> USE <1>0
<1>1. PICK f, g : f = Bus!Top /\ g = handlers[f.of][f.at]
  OBVIOUS
<1>2. PICK e : e = [f EXCEPT !.at = f.at + 1]
  OBVIOUS
<1>3. /\ Bus!Running /\ f.at <= f.last
      /\ seen' = [seen EXCEPT ![g] = Append(seen[g], f.n)] /\ stack' = Bus!SetTop(e)
      /\ UNCHANGED <<handlers, seqNum, batch, published, since>>
      /\ UNCHANGED <<bClaimed, bFilled, bPopped, bRefused, filling>>
  BY <1>1, <1>2 DEF Bus!Deliver, Bus!queueVars
<1>4. f \in Frames /\ f \in Bus!Frame /\ FrameInv(f) /\ \A x \in Frames : x # f => x.n # f.n
  BY <1>1, <1>3, TopFrame
<1>5. /\ f.n \in Nat /\ f.n \in 1..seqNum /\ f.last \in Nat /\ f.at \in 1..f.last /\ f.of \in EventTypes
      /\ handlers[f.of] \in Seq(Handlers) /\ f.last = Len(handlers[f.of])
  BY <1>3, <1>4 DEF FrameInv, Bus!Frame, BusInv, Bus!TypeOK
<1>6. g \in Handlers /\ f.at \in DOMAIN handlers[f.of]
  BY <1>1, <1>5
<1>7. e \in Bus!Frame /\ e.n = f.n /\ e.loop = f.loop /\ e.of = f.of /\ e.at = f.at + 1 /\ e.last = f.last
  BY <1>2, <1>4, <1>5 DEF Bus!Frame
<1>8. /\ stack' \in Seq(Bus!Frame) /\ Frames' = (Frames \ {f}) \cup {e}
      /\ \A i, j \in DOMAIN stack' : i < j => stack'[i].n < stack'[j].n
      /\ \A n : Bus!Dispatched(n)' <=> Bus!Dispatched(n)
  BY <1>1, <1>3, <1>7, SetTopFrames
<1>9. seen' \in [Handlers -> Seq(Nat)] /\ \A h \in Handlers : seen'[h] = IF h = g THEN Append(seen[h], f.n) ELSE seen[h]
  BY <1>3, <1>5, <1>6 DEF BusInv, Bus!TypeOK
<1>10. Bus!TypeOK'
  BY <1>3, <1>8, <1>9 DEF BusInv, Bus!TypeOK
<1>11. QueueInv' /\ ListInv' /\ QueuedInv'
  <2>1. QueueInv'
    BY <1>3 DEF BusInv, QueueInv
  <2>2. ListInv'
    BY <1>3 DEF BusInv, ListInv
  <2>3. QueuedInv'
    BY <1>3 DEF BusInv, QueuedInv, Bus!Queued
  <2>4. QED
    BY <2>1, <2>2, <2>3
<1>12. StackInv'
  <2>1. FrameInv(e)
    BY <1>4, <1>5, <1>7 DEF FrameInv
  <2>2. \A x \in Frames' : FrameInv(x)
    BY <2>1, <1>8 DEF BusInv, StackInv
  <2>3. \A x \in Frames' : FrameInv(x)'
    BY <2>2, <1>3, SameFrames
  <2>4. QED
    BY <2>3, <1>3, <1>8 DEF BusInv, StackInv
<1>13. ASSUME NEW h \in Handlers, NEW n \in 1..seqNum PROVE CallsCounted(h, n)'
  <2>1. Bus!Times(h, n)' = Bus!Times(h, n) + OneIf(h = g /\ n = f.n) /\ Bus!Times(h, n) \in Nat
    <3>1. n \in Nat /\ Bus!TypeOK
      BY DEF BusInv, Bus!TypeOK
    <3>2. seen' = [seen EXCEPT ![g] = Append(seen[g], f.n)] /\ f.n \in Nat
      BY <1>3, <1>5
    <3>3. Bus!Times(h, n)' = Bus!Times(h, n) + OneIf(h = g /\ n = f.n)
      BY ONLY <3>1, <3>2, <1>6, h \in Handlers, TimesAppend, Zenon
    <3>4. QED
      BY <3>1, <3>3, TimesType
  <2>2. CASE n = f.n
    <3>1. PICK T : T = published[n].type /\ T = published'[n].type
      BY <1>3
    <3>2. Bus!Times(h, n) = (IF f.loop = "typed" THEN 0 ELSE OneIf(DueTo(h, T, n))) + OneIf(CalledBy(h, f))
      BY <3>1, <2>2, <1>4 DEF CallsCounted, BusInv, CountInv
    <3>3. CalledBy(h, e) <=> CalledBy(h, f) \/ h = g
      BY <1>1, <1>5, <1>7 DEF CalledBy
    <3>4. ~CalledBy(g, f)
      BY <1>1, <1>5, <1>6 DEF CalledBy, BusInv, ListInv
    <3>5. OneIf(CalledBy(h, e)') = OneIf(CalledBy(h, f)) + OneIf(h = g) /\ OneIf(DueTo(h, T, n)') = OneIf(DueTo(h, T, n))
      BY <3>3, <3>4, <1>3, SameLists DEF OneIf
    <3>6. OneIf(h = g /\ n = f.n) = OneIf(h = g) /\ OneIf(h = g) \in Nat /\ OneIf(CalledBy(h, f)) \in Nat /\ OneIf(DueTo(h, T, n)) \in Nat
      BY <2>2 DEF OneIf
    <3>7. Bus!Times(h, n)' = (IF e.loop = "typed" THEN 0 ELSE OneIf(DueTo(h, T, n)')) + OneIf(CalledBy(h, e)')
      BY <3>2, <3>5, <3>6, <2>1, <1>7
    <3>8. \A x \in Frames' : x.n = n => x = e
      BY <2>2, <1>4, <1>8
    <3>9. ~Bus!Dispatched(n)'
      BY <2>2, <1>4, <1>8, DispatchedFrames
    <3>10. QED
      BY <3>1, <3>7, <3>8, <3>9 DEF CallsCounted
  <2>3. CASE n # f.n
    <3>1. Bus!Times(h, n)' = Bus!Times(h, n)
      BY <2>1, <2>3 DEF OneIf
    <3>2. \A x \in Frames' : x.n = n => x \in Frames
      BY <2>3, <1>7, <1>8
    <3>3. QED
      BY <3>1, <3>2, <1>3, <1>8, OtherCounted
  <2>4. QED
    BY <2>2, <2>3
<1>14. \A h \in Handlers : /\ seen[h] \in Seq(Nat) /\ DOMAIN seen[h] = 1..Len(seen[h]) /\ Len(seen[h]) \in Nat
                           /\ \A i \in DOMAIN seen[h] : seen[h][i] \in 1..seqNum
  BY DEF BusInv, Bus!TypeOK, CountInv
<1>15. ASSUME NEW h \in Handlers, NEW i \in DOMAIN seen'[h]
       PROVE  \/ i \in DOMAIN seen[h] /\ seen'[h][i] = seen[h][i]
              \/ h = g /\ i = Len(seen[h]) + 1 /\ seen'[h][i] = f.n
  <2>1. CASE h = g
    <3>1. seen'[h] = Append(seen[h], f.n) /\ seen[h] \in Seq(Nat) /\ Len(seen[h]) \in Nat
      BY <2>1, <1>9, <1>14
    <3>2. QED
      BY <3>1, <2>1, <1>5, <1>14, <1>15
  <2>2. CASE h # g
    BY <2>2, <1>9, <1>15
  <2>3. QED
    BY <2>1, <2>2
<1>16. CountInv'
  <2>1. \A h \in Handlers : \A i \in DOMAIN seen'[h] : seen'[h][i] \in 1..seqNum
    BY <1>5, <1>14, <1>15
  <2>2. QED
    BY <2>1, <1>3, <1>13 DEF CountInv
<1>17. OrderInv'
  <2>1. ASSUME NEW h \in Handlers, NEW i \in DOMAIN seen'[h], NEW j \in DOMAIN seen'[h], i < j, seen'[h][i] > seen'[h][j]
        PROVE  seen'[h][j] \in published[seen'[h][i]].within
    <3>1. CASE j \in DOMAIN seen[h]
      <4>1. i \in DOMAIN seen[h]
        BY <3>1, <2>1, <1>14, <1>15
      <4>2. i # Len(seen[h]) + 1 /\ j # Len(seen[h]) + 1
        BY <3>1, <4>1, <1>14
      <4>3. seen'[h][i] = seen[h][i] /\ seen'[h][j] = seen[h][j]
        BY <4>2, <1>15
      <4>4. QED
        BY <3>1, <4>1, <4>3, <2>1 DEF BusInv, OrderInv
    <3>2. CASE j = Len(seen[h]) + 1 /\ seen'[h][j] = f.n
      <4>1. i # Len(seen[h]) + 1
        BY <3>2, <2>1, <1>14
      <4>2. i \in DOMAIN seen[h] /\ seen'[h][i] = seen[h][i]
        BY <4>1, <1>15
      <4>3. seen'[h][i] \in (f.n + 1)..seqNum
        BY <4>2, <3>2, <2>1, <1>5, <1>14
      <4>4. QED
        BY <4>3, <3>2, <1>4 DEF FrameInv
    <3>3. QED
      BY <3>1, <3>2, <1>15
  <2>2. QED
    BY <2>1, <1>3 DEF OrderInv
<1>18. QED
  BY <1>10, <1>11, <1>12, <1>16, <1>17 DEF BusInv

LEMMA ToWildcardsInv == ASSUME BusInv, Bus!ToWildcards PROVE BusInv'
<1>0. None \in EventTypes /\ Batches \subseteq Nat
  BY DEF BusInv, Bus!BusAssumption
<1> USE <1>0
<1>1. PICK f : f = Bus!Top
  OBVIOUS
<1>2. PICK e : e = [f EXCEPT !.loop = "wildcard", !.of = None, !.at = 1, !.last = Len(handlers[None])]
  OBVIOUS
<1>3. /\ Bus!Running /\ f.loop = "typed" /\ f.at > f.last /\ stack' = Bus!SetTop(e)
      /\ UNCHANGED <<handlers, seqNum, batch, seen, published, since>>
      /\ UNCHANGED <<bClaimed, bFilled, bPopped, bRefused, filling>>
  BY <1>1, <1>2 DEF Bus!ToWildcards, Bus!queueVars
<1>4. f \in Frames /\ f \in Bus!Frame /\ FrameInv(f) /\ \A x \in Frames : x # f => x.n # f.n
  BY <1>1, <1>3, TopFrame
<1>5. /\ f.n \in Nat /\ f.n \in 1..seqNum /\ f.at = f.last + 1 /\ f.last \in Nat /\ f.of = published[f.n].type
      /\ f.of \in EventTypes /\ handlers[f.of] \in Seq(Handlers) /\ f.last = Len(handlers[f.of]) /\ Len(handlers[None]) \in Nat
      /\ \A i \in 1..f.last : since[handlers[f.of][i]] < f.n
  <2>1. f.n \in Nat /\ f.at \in Nat /\ f.last \in Nat /\ f.of \in EventTypes
    BY <1>4 DEF Bus!Frame
  <2>2. \A t \in EventTypes : handlers[t] \in Seq(Handlers) /\ Len(handlers[t]) \in Nat
    BY DEF BusInv, Bus!TypeOK
  <2>3. f.at = f.last + 1
    BY <2>1, <1>3, <1>4 DEF FrameInv
  <2>4. QED
    BY <2>1, <2>2, <2>3, <1>3, <1>4 DEF FrameInv
<1>6. e \in Bus!Frame /\ e.n = f.n /\ e.loop = "wildcard" /\ e.of = None /\ e.at = 1 /\ e.last = Len(handlers[None])
  BY <1>2, <1>4, <1>5 DEF Bus!Frame
<1>7. /\ stack' \in Seq(Bus!Frame) /\ Frames' = (Frames \ {f}) \cup {e}
      /\ \A i, j \in DOMAIN stack' : i < j => stack'[i].n < stack'[j].n
      /\ \A n : Bus!Dispatched(n)' <=> Bus!Dispatched(n)
  BY <1>1, <1>3, <1>6, SetTopFrames
<1>8. Bus!TypeOK'
  BY <1>3, <1>7 DEF BusInv, Bus!TypeOK
<1>9. QueueInv' /\ ListInv' /\ OrderInv' /\ QueuedInv'
  <2>1. QueueInv'
    BY <1>3 DEF BusInv, QueueInv
  <2>2. ListInv'
    BY <1>3 DEF BusInv, ListInv
  <2>3. QueuedInv'
    BY <1>3 DEF BusInv, QueuedInv, Bus!Queued
  <2>4. OrderInv'
    BY <1>3 DEF BusInv, OrderInv
  <2>5. QED
    BY <2>1, <2>2, <2>3, <2>4
<1>10. StackInv'
  <2>1. FrameInv(e)
    BY <1>4, <1>5, <1>6 DEF FrameInv
  <2>2. \A x \in Frames' : FrameInv(x)
    BY <2>1, <1>7 DEF BusInv, StackInv
  <2>3. \A x \in Frames' : FrameInv(x)'
    BY <2>2, <1>3, SameFrames
  <2>4. QED
    BY <2>3, <1>3, <1>7 DEF BusInv, StackInv
<1>11. ASSUME NEW h \in Handlers, NEW n \in 1..seqNum PROVE CallsCounted(h, n)'
  <2>1. Bus!Times(h, n)' = Bus!Times(h, n)
    BY <1>3 DEF Bus!Times
  <2>2. CASE n = f.n
    <3>1. PICK T : T = published[n].type /\ T = published'[n].type
      BY <1>3
    <3>2. Bus!Times(h, n) = OneIf(CalledBy(h, f))
      <4>1. Bus!Times(h, n) = 0 + OneIf(CalledBy(h, f))
        BY <2>2, <1>3, <1>4 DEF CallsCounted, BusInv, CountInv
      <4>2. QED
        BY <4>1 DEF OneIf
    <3>3. CalledBy(h, f) <=> DueTo(h, T, n)
      <4>0. f.of = T
        BY <3>1, <2>2, <1>5
      <4>1. DOMAIN handlers[f.of] = 1..f.last /\ f.at - 1 = f.last /\ f.of = T
        BY <4>0, <1>5
      <4>2. CalledBy(h, f) <=> Bus!Subscribed(h, T)
        BY <4>1 DEF CalledBy, Bus!Subscribed
      <4>3. Bus!Subscribed(h, T) => since[h] < n
        BY <4>1, <2>2, <1>5 DEF Bus!Subscribed
      <4>4. QED
        BY <4>2, <4>3 DEF DueTo
    <3>4. ~CalledBy(h, e)
      BY <1>6 DEF CalledBy
    <3>5. OneIf(CalledBy(h, e)') = 0 /\ OneIf(DueTo(h, T, n)') = OneIf(CalledBy(h, f)) /\ OneIf(CalledBy(h, f)) \in Nat
      BY <3>3, <3>4, <1>3, SameLists DEF OneIf
    <3>6. Bus!Times(h, n)' = OneIf(DueTo(h, T, n)') + OneIf(CalledBy(h, e)')
      BY <3>2, <3>5, <2>1
    <3>7. \A x \in Frames' : x.n = n => x = e
      BY <2>2, <1>4, <1>7
    <3>8. ~Bus!Dispatched(n)'
      BY <2>2, <1>4, <1>7, DispatchedFrames
    <3>9. QED
      BY <3>1, <3>6, <3>7, <3>8, <1>6 DEF CallsCounted
  <2>3. CASE n # f.n
    <3>1. \A x \in Frames' : x.n = n => x \in Frames
      BY <2>3, <1>6, <1>7
    <3>2. QED
      BY <3>1, <2>1, <1>3, <1>7, OtherCounted
  <2>4. QED
    BY <2>2, <2>3
<1>12. CountInv'
  BY <1>3, <1>11 DEF BusInv, CountInv
<1>13. QED
  BY <1>8, <1>9, <1>10, <1>12 DEF BusInv

LEMMA EndPublishInv == ASSUME BusInv, Bus!EndPublish PROVE BusInv'
<1>0. None \in EventTypes /\ Batches \subseteq Nat
  BY DEF BusInv, Bus!BusAssumption
<1> USE <1>0
<1> DEFINE k == Len(stack)
<1>1. PICK f : f = Bus!Top
  OBVIOUS
<1>2. /\ Bus!Running /\ f.loop = "wildcard" /\ f.at > f.last /\ stack' = SubSeq(stack, 1, k - 1)
      /\ UNCHANGED <<handlers, seqNum, batch, seen, published, since>>
      /\ UNCHANGED <<bClaimed, bFilled, bPopped, bRefused, filling>>
  BY <1>1 DEF Bus!EndPublish, Bus!queueVars
<1>3. f \in Frames /\ f \in Bus!Frame /\ FrameInv(f) /\ \A x \in Frames : x # f => x.n # f.n
  BY <1>1, <1>2, TopFrame
<1>4. /\ k \in Nat \ {0} /\ DOMAIN stack = 1..k /\ f = stack[k] /\ stack \in Seq(Bus!Frame)
      /\ \A i \in 1..(k - 1) : stack[i] # f /\ stack[i] \in Frames
  BY <1>1, <1>2, TopFrame DEF BusInv, Bus!TypeOK
<1>5. /\ f.n \in 1..seqNum /\ f.at = f.last + 1 /\ f.last \in Nat /\ f.of = None
      /\ handlers[None] \in Seq(Handlers) /\ f.last = Len(handlers[None])
  <2>1. f.at \in Nat /\ f.last \in Nat
    BY <1>3 DEF Bus!Frame
  <2>2. handlers[None] \in Seq(Handlers)
    BY DEF BusInv, Bus!TypeOK
  <2>3. f.at = f.last + 1
    BY <2>1, <1>2, <1>3 DEF FrameInv
  <2>4. QED
    BY <2>1, <2>2, <2>3, <1>2, <1>3 DEF FrameInv
<1> HIDE DEF k
<1>6. stack' \in Seq(Bus!Frame) /\ DOMAIN stack' = 1..(k - 1) /\ \A i \in 1..(k - 1) : stack'[i] = stack[i]
  BY <1>2, <1>4
<1>7. Frames' = Frames \ {f}
  <2>1. \A i \in 1..k : i \in 1..(k - 1) \/ i = k
    BY <1>4
  <2>2. \A i \in 1..(k - 1) : i \in 1..k
    BY <1>4
  <2>3. QED
    BY <2>1, <2>2, <1>4, <1>6 DEF Frames
<1>8. \A n : n # f.n => (Bus!Dispatched(n)' <=> Bus!Dispatched(n))
  <2>1. \A n : Bus!Dispatched(n)' <=> \A x \in Frames' : x.n # n
    BY DEF Bus!Dispatched, Frames
  <2>2. QED
    BY <2>1, <1>7, DispatchedFrames
<1>9. Bus!TypeOK'
  BY <1>2, <1>6 DEF BusInv, Bus!TypeOK
<1>10. QueueInv' /\ ListInv' /\ OrderInv' /\ QueuedInv'
  <2>1. QueueInv'
    BY <1>2 DEF BusInv, QueueInv
  <2>2. ListInv'
    BY <1>2 DEF BusInv, ListInv
  <2>3. QueuedInv'
    BY <1>2 DEF BusInv, QueuedInv, Bus!Queued
  <2>4. OrderInv'
    BY <1>2 DEF BusInv, OrderInv
  <2>5. QED
    BY <2>1, <2>2, <2>3, <2>4
<1>11. StackInv'
  <2>1. \A x \in Frames' : FrameInv(x)'
    BY <1>2, <1>7, SameFrames DEF BusInv, StackInv
  <2>2. \A i, j \in DOMAIN stack' : i < j => stack'[i].n < stack'[j].n
    BY <1>4, <1>6 DEF BusInv, StackInv
  <2>3. QED
    BY <2>1, <2>2, <1>2 DEF BusInv, StackInv
<1>12. ASSUME NEW h \in Handlers, NEW n \in 1..seqNum PROVE CallsCounted(h, n)'
  <2>1. Bus!Times(h, n)' = Bus!Times(h, n)
    BY <1>2 DEF Bus!Times
  <2>2. CASE n = f.n
    <3>1. PICK T : T = published[n].type /\ T = published'[n].type
      BY <1>2
    <3>2. Bus!Times(h, n) = OneIf(DueTo(h, T, n)) + OneIf(CalledBy(h, f))
      BY <3>1, <2>2, <1>2, <1>3 DEF CallsCounted, BusInv, CountInv
    <3>3. CalledBy(h, f) <=> Bus!Subscribed(h, None)
      BY <1>5 DEF CalledBy, Bus!Subscribed
    <3>4. DueTo(h, None, n) => Bus!Subscribed(h, None)
      BY DEF DueTo
    <3>5. /\ OneIf(DueTo(h, T, n)') = OneIf(DueTo(h, T, n)) /\ OneIf(DueTo(h, None, n)') = OneIf(DueTo(h, None, n))
          /\ OneIf(Bus!Subscribed(h, None)') = OneIf(CalledBy(h, f))
          /\ OneIf(DueTo(h, None, n)) <= OneIf(CalledBy(h, f)) /\ OneIf(CalledBy(h, f)) \in Nat /\ OneIf(DueTo(h, T, n)) \in Nat
          /\ OneIf(DueTo(h, None, n)) \in Nat
      BY <3>3, <3>4, <1>2, SameLists DEF OneIf
    <3>6. /\ OneIf(DueTo(h, T, n)') + OneIf(DueTo(h, None, n)') <= Bus!Times(h, n)'
          /\ Bus!Times(h, n)' <= OneIf(DueTo(h, T, n)') + OneIf(Bus!Subscribed(h, None)')
      BY <3>2, <3>5, <2>1
    <3>7. \A x \in Frames' : x.n # n
      BY <2>2, <1>3, <1>7
    <3>8. QED
      BY <3>1, <3>6, <3>7 DEF CallsCounted
  <2>3. CASE n # f.n
    <3>1. \A x \in Frames' : x.n = n => x \in Frames
      BY <1>7
    <3>2. QED
      BY <3>1, <2>1, <2>3, <1>2, <1>8, OtherCounted
  <2>4. QED
    BY <2>2, <2>3
<1>13. CountInv'
  BY <1>2, <1>12 DEF BusInv, CountInv
<1>14. QED
  BY <1>9, <1>10, <1>11, <1>13 DEF BusInv

LEMMA EnterInv ==
  ASSUME BusInv, NEW t \in EventTypes, NEW q \in BOOLEAN, Bus!Enter(t, q), QueueInv', batch' \in Nat \cup {-1},
         IF q THEN stack = <<>> /\ bPopped' = Append(bPopped, t) ELSE bPopped' = bPopped
  PROVE  BusInv'
<1>0. None \in EventTypes /\ Batches \subseteq Nat
  BY DEF BusInv, Bus!BusAssumption
<1> USE <1>0
<1> DEFINE k == Len(stack)
           within == {stack[i].n : i \in DOMAIN stack}
<1>1. PICK r : r = [type |-> t, queued |-> q, within |-> within]
  OBVIOUS
<1>2. PICK e : e = [n |-> seqNum + 1, loop |-> "typed", of |-> t, at |-> 1, last |-> Len(handlers[t])]
  OBVIOUS
<1>3. /\ seqNum' = seqNum + 1 /\ stack' = Append(stack, e) /\ published' = Append(published, r)
      /\ UNCHANGED <<handlers, seen, since>>
  BY <1>1, <1>2 DEF Bus!Enter
<1>4. seqNum \in Nat /\ handlers[t] \in Seq(Handlers) /\ Len(handlers[t]) \in Nat
  BY DEF BusInv, Bus!TypeOK
<1>5. e \in Bus!Frame /\ e.n = seqNum + 1 /\ e.loop = "typed" /\ e.of = t /\ e.at = 1 /\ e.last = Len(handlers[t])
  BY <1>2, <1>4 DEF Bus!Frame
<1>6. stack \in Seq(Bus!Frame) /\ k \in Nat /\ DOMAIN stack = 1..k
  BY DEF BusInv, Bus!TypeOK
<1>7. /\ stack' \in Seq(Bus!Frame) /\ DOMAIN stack' = 1..(k + 1) /\ stack'[k + 1] = e
      /\ \A i \in 1..k : stack'[i] = stack[i]
  BY <1>3, <1>5, <1>6
<1>8. \A f \in Frames : FrameInv(f) /\ f.n \in 1..seqNum
  BY DEF BusInv, StackInv, FrameInv
<1>9. Frames' = Frames \cup {e} /\ within = {f.n : f \in Frames}
  BY <1>6, <1>7 DEF Frames
<1>10. r \in [type : EventTypes, queued : BOOLEAN, within : SUBSET Nat] /\ r.type = t /\ r.queued = q /\ r.within = within
  <2>1. \A f \in Frames : f.n \in Nat
    BY <1>4, <1>8
  <2>2. within \subseteq Nat
    BY <2>1, <1>9
  <2>3. QED
    BY <2>2, <1>1
<1> HIDE DEF within, k
<1>11. /\ published \in Seq([type : EventTypes, queued : BOOLEAN, within : SUBSET Nat]) /\ Len(published) = seqNum
       /\ DOMAIN published = 1..seqNum
  BY DEF BusInv, Bus!TypeOK, StackInv
<1>12. /\ published' \in Seq([type : EventTypes, queued : BOOLEAN, within : SUBSET Nat])
       /\ Len(published') = seqNum + 1 /\ published'[seqNum + 1] = r
       /\ \A n \in 1..seqNum : published'[n] = published[n]
  <2> DEFINE Events == [type : EventTypes, queued : BOOLEAN, within : SUBSET Nat]
  <2>1. published \in Seq(Events) /\ r \in Events
    BY <1>10, <1>11
  <2> HIDE DEF Events
  <2>2. /\ published' \in Seq(Events) /\ Len(published') = seqNum + 1 /\ published'[seqNum + 1] = r
        /\ \A n \in 1..seqNum : published'[n] = published[n]
    BY <2>1, <1>3, <1>4, <1>11
  <2>3. QED
    BY <2>2 DEF Events
<1>13. Bus!TypeOK'
  BY <1>3, <1>4, <1>7, <1>12 DEF BusInv, Bus!TypeOK
<1>14. ListInv'
  BY <1>3, <1>4 DEF BusInv, ListInv, Bus!TypeOK
<1>15. StackInv'
  <2>1. FrameInv(e)'
    <3>1. \A i \in 1..Len(handlers[t]) : handlers[t][i] \in Handlers /\ since[handlers[t][i]] < seqNum + 1
      <4>1. \A h \in Handlers : since[h] \in Nat /\ since[h] <= seqNum
        BY DEF BusInv, Bus!TypeOK, ListInv
      <4>2. \A i \in 1..Len(handlers[t]) : handlers[t][i] \in Handlers
        BY <1>4
      <4>3. QED
        BY <4>1, <4>2, <1>4
    <3>2. (e.n + 1)..seqNum' = {}
      BY <1>3, <1>4, <1>5
    <3>3. e.n \in 1..seqNum' /\ e.at \in 1..(e.last + 1)
      BY <1>3, <1>4, <1>5
    <3>4. QED
      BY <3>1, <3>2, <3>3, <1>3, <1>5, <1>10, <1>12 DEF FrameInv
  <2>2. ASSUME NEW f \in Frames PROVE FrameInv(f)'
    <3>1. FrameInv(f) /\ f.n \in 1..seqNum /\ f.n \in 1..seqNum'
      BY <1>3, <1>4, <1>8
    <3>2. ASSUME NEW m \in (f.n + 1)..seqNum' PROVE f.n \in published'[m].within
      <4>1. CASE m = seqNum + 1
        BY <4>1, <1>9, <1>10, <1>12
      <4>2. CASE m # seqNum + 1
        <5>1. m \in (f.n + 1)..seqNum /\ m \in 1..seqNum
          BY <4>2, <3>1, <3>2, <1>3, <1>4
        <5>2. QED
          BY <5>1, <3>1, <1>12 DEF FrameInv
      <4>3. QED
        BY <4>1, <4>2
    <3>3. QED
      BY <3>1, <3>2, <1>3, <1>12 DEF FrameInv
  <2>3. ASSUME NEW i \in DOMAIN stack', NEW j \in DOMAIN stack', i < j PROVE stack'[i].n < stack'[j].n
    <3>1. i \in 1..k /\ stack[i] \in Frames
      BY <2>3, <1>6, <1>7 DEF Frames
    <3>2. CASE j = k + 1
      BY <3>1, <3>2, <1>4, <1>5, <1>7, <1>8
    <3>3. CASE j # k + 1
      <4>1. j \in 1..k
        BY <3>3, <1>6, <1>7
      <4>2. QED
        BY <3>1, <4>1, <2>3, <1>6, <1>7 DEF BusInv, StackInv
    <3>4. QED
      BY <3>2, <3>3
  <2>4. QED
    BY <2>1, <2>2, <2>3, <1>3, <1>9, <1>12 DEF StackInv
<1>16. \A h \in Handlers : \A i \in DOMAIN seen[h] : seen[h][i] \in 1..seqNum
  BY DEF BusInv, CountInv
<1>17. ASSUME NEW h \in Handlers, NEW n \in 1..(seqNum + 1) PROVE CallsCounted(h, n)'
  <2>1. Bus!Times(h, n)' = Bus!Times(h, n)
    BY <1>3 DEF Bus!Times
  <2>2. \A m : Bus!Dispatched(m)' <=> \A f \in Frames' : f.n # m
    BY DEF Bus!Dispatched, Frames
  <2>3. CASE n = seqNum + 1
    <3>1. Bus!Times(h, n) = 0
      <4>1. \A i \in DOMAIN seen[h] : seen[h][i] # n
        BY <2>3, <1>4, <1>16
      <4>2. {i \in DOMAIN seen[h] : seen[h][i] = n} = {}
        BY <4>1
      <4>3. QED
        BY <4>2, FS_EmptySet, SameCardinality DEF Bus!Times
    <3>2. OneIf(CalledBy(h, e)') = 0
      BY <1>5 DEF CalledBy, OneIf
    <3>3. \A f \in Frames' : f.n = n => f = e
      BY <2>3, <1>4, <1>8, <1>9
    <3>4. ~Bus!Dispatched(n)'
      BY <2>2, <2>3, <1>5, <1>9
    <3>5. QED
      BY <3>1, <3>2, <3>3, <3>4, <2>1, <1>5 DEF CallsCounted
  <2>4. CASE n # seqNum + 1
    <3>1. n \in 1..seqNum /\ n # e.n
      BY <2>4, <1>4, <1>5
    <3>2. \A f \in Frames' : f.n = n => f \in Frames
      BY <3>1, <1>9
    <3>3. Bus!Dispatched(n)' => Bus!Dispatched(n)
      BY <2>2, <1>9, DispatchedFrames
    <3>4. QED
      BY <3>1, <3>2, <3>3, <2>1, <1>3, <1>12, OtherCounted
  <2>5. QED
    BY <2>3, <2>4
<1>18. CountInv'
  <2>1. \A h \in Handlers : \A i \in DOMAIN seen'[h] : seen'[h][i] \in 1..seqNum'
    BY <1>3, <1>4, <1>16
  <2>2. QED
    BY <2>1, <1>3, <1>17 DEF CountInv
<1>19. OrderInv'
  BY <1>3, <1>12, <1>16 DEF BusInv, OrderInv
<1>20. QueuedInv'
  <2>1. within = {} \/ ~q
    BY <1>9, <1>6 DEF Frames, k
  <2>2. bPopped \in Seq(EventTypes)
    BY DEF BusInv, QueueInv
  <2>3. QED
    BY <2>1, <2>2, <1>3, <1>10, QueuedAppend DEF BusInv
<1>21. QED
  BY <1>13, <1>14, <1>15, <1>18, <1>19, <1>20 DEF BusInv

\* The part of the invariant that is about the bus.
LEMMA OthersKept ==
  ASSUME BusInv, UNCHANGED <<handlers, seqNum, stack, seen, published, since, bPopped>>,
         QueueInv', batch' \in Nat \cup {-1}
  PROVE  BusInv'
<1>0. None \in EventTypes /\ Batches \subseteq Nat
  BY DEF BusInv, Bus!BusAssumption
<1> USE <1>0
<1>1. Bus!TypeOK'
  BY DEF BusInv, Bus!TypeOK
<1>2. ListInv' /\ OrderInv'
  BY DEF BusInv, ListInv, OrderInv
<1>3. StackInv'
  <2>1. Frames' = Frames /\ \A f : FrameInv(f)' <=> FrameInv(f)
    BY SameFrames DEF Frames
  <2>2. QED
    BY <2>1 DEF BusInv, StackInv
<1>4. ASSUME NEW h \in Handlers, NEW n \in 1..seqNum PROVE CallsCounted(h, n)'
  <2>1. Bus!Times(h, n)' = Bus!Times(h, n) /\ Frames' = Frames /\ (Bus!Dispatched(n)' <=> Bus!Dispatched(n))
    BY DEF Bus!Times, Frames, Bus!Dispatched
  <2>2. QED
    BY <2>1, OtherCounted
<1>5. CountInv'
  BY <1>4 DEF BusInv, CountInv
<1>6. QueuedInv'
  BY DEF BusInv, QueuedInv, Bus!Queued
<1>7. QED
  BY <1>1, <1>2, <1>3, <1>5, <1>6 DEF BusInv

\* What the other threads do with the queue; a batch begins or ends.
LEMMA QueueStepInv == ASSUME BusInv, NEW p \in BusThreads, Bus!QueueStep(p) PROVE BusInv'
<1>1. bPopped' = bPopped /\ UNCHANGED Bus!busVars
  BY DEF Bus!QueueStep, Bus!Queue!Fill, Bus!Queue!Refuse, Bus!Queue!Claim
<1>2. QueueInv'
  <2>1. CASE Bus!Queue!Fill(p)
    BY <2>1 DEF BusInv, QueueInv, Bus!Queue!Fill
  <2>2. CASE Bus!Queue!Refuse(p)
    BY <2>2 DEF BusInv, QueueInv, Bus!Queue!Refuse
  <2>3. ASSUME NEW t \in EventTypes, Bus!Queue!Claim(p, t) PROVE QueueInv'
    BY <2>3 DEF BusInv, QueueInv, Bus!Queue!Claim
  <2>4. QED
    BY <2>1, <2>2, <2>3 DEF Bus!QueueStep
<1>3. UNCHANGED <<handlers, seqNum, stack, batch, seen, published, since, bPopped>>
  BY <1>1 DEF Bus!busVars
<1>4. batch' \in Nat \cup {-1}
  BY <1>3 DEF BusInv, Bus!TypeOK
<1>5. QED
  BY <1>2, <1>3, <1>4, OthersKept

LEMMA TakeQueuedInv == ASSUME BusInv, Bus!TakeQueued PROVE BusInv'
<1>1. /\ ~Bus!Running /\ batch > 0 /\ batch' = batch - 1 /\ Bus!Enter(bPopped'[Len(bPopped')], TRUE)
      /\ Len(bPopped) + 1 \in bFilled /\ bPopped' = Append(bPopped, bClaimed[Len(bPopped) + 1])
      /\ UNCHANGED <<bClaimed, bFilled, bRefused, filling>>
  BY DEF Bus!TakeQueued, Bus!Queue!Pop
<1>2. PICK t : t = bClaimed[Len(bPopped) + 1]
  OBVIOUS
<1>3. t \in EventTypes /\ bPopped \in Seq(EventTypes)
  BY <1>1, <1>2 DEF BusInv, QueueInv
<1>4. bPopped' = Append(bPopped, t) /\ bPopped'[Len(bPopped')] = t /\ bPopped' \in Seq(EventTypes)
  BY <1>1, <1>2, <1>3
<1>5. QueueInv' /\ batch' \in Nat \cup {-1} /\ stack = <<>>
  BY <1>1, <1>4 DEF BusInv, QueueInv, Bus!TypeOK, Bus!Running
<1>6. QED
  BY <1>1, <1>3, <1>4, <1>5, EnterInv

LEMMA PublishInv == ASSUME BusInv, NEW t \in EventTypes, Bus!Publish(t) PROVE BusInv'
<1>1. Bus!Enter(t, FALSE) /\ UNCHANGED <<bClaimed, bFilled, bPopped, bRefused, filling>> /\ batch' = batch
  BY DEF Bus!Publish, Bus!queueVars
<1>2. QueueInv' /\ batch' \in Nat \cup {-1}
  BY <1>1 DEF BusInv, QueueInv, Bus!TypeOK
<1>3. QED
  BY <1>1, <1>2, EnterInv

LEMMA BatchInv == ASSUME BusInv, (\E m \in Batches : Bus!ProcessQueued(m)) \/ Bus!EndQueued PROVE BusInv'
<1>0. None \in EventTypes /\ Batches \subseteq Nat
  BY DEF BusInv, Bus!BusAssumption
<1> USE <1>0
<1>1. /\ batch' \in Nat \cup {-1}
      /\ UNCHANGED <<handlers, seqNum, stack, seen, published, since>> /\ UNCHANGED <<bClaimed, bFilled, bPopped, bRefused, filling>>
  BY DEF Bus!ProcessQueued, Bus!EndQueued, Bus!queueVars
<1>2. QueueInv'
  BY <1>1 DEF BusInv, QueueInv
<1>3. QED
  BY <1>1, <1>2, OthersKept

LEMMA BusNextInv == BusInv /\ [Bus!Next]_(Bus!vars) => BusInv'
<1> SUFFICES ASSUME BusInv, [Bus!Next]_(Bus!vars) PROVE BusInv'
  OBVIOUS
<1>1. ASSUME NEW p \in BusThreads, Bus!QueueStep(p) PROVE BusInv'
  BY <1>1, QueueStepInv
<1>2. CASE Bus!BusStep
  BY <1>2, DeliverInv, ToWildcardsInv, EndPublishInv, BatchInv, TakeQueuedInv DEF Bus!BusStep, Bus!Dispatch
<1>3. ASSUME NEW t \in EventTypes, Bus!Publish(t) PROVE BusInv'
  BY <1>3, PublishInv
<1>4. ASSUME NEW h \in Handlers, NEW t \in EventTypes, Bus!Subscribe(h, t) PROVE BusInv'
  BY <1>4, SubscribeInv
<1>5. CASE UNCHANGED Bus!vars
  <2>1. UNCHANGED <<handlers, seqNum, stack, batch, seen, published, since, bPopped, bClaimed, bFilled, filling>>
    BY <1>5 DEF Bus!vars, Bus!queueVars, Bus!busVars
  <2>2. QueueInv' /\ batch' \in Nat \cup {-1}
    BY <2>1 DEF BusInv, QueueInv, Bus!TypeOK
  <2>3. QED
    BY <2>1, <2>2, OthersKept
<1>6. QED
  BY <1>1, <1>2, <1>3, <1>4, <1>5 DEF Bus!Next

-------------------------------------------------------------------------------
LEMMA BusExact == ASSUME BusInv PROVE Bus!DispatchExact
<1>0. None \in EventTypes /\ Batches \subseteq Nat
  BY DEF BusInv, Bus!BusAssumption
<1> USE <1>0
<1>1. ASSUME NEW n \in DOMAIN published, NEW h \in Handlers,
             NEW due, due = Cardinality({u \in {<<"typed", published[n].type>>, <<"wildcard", None>>} : Bus!Subscribed(h, u[2])})
      PROVE  Bus!Times(h, n) <= due /\ (Bus!Dispatched(n) /\ since[h] < n => Bus!Times(h, n) = due)
  <2>1. n \in 1..seqNum
    BY DEF BusInv, Bus!TypeOK, StackInv
  <2>2. PICK T \in EventTypes : T = published[n].type
    BY <2>1, EventTyped DEF BusInv
  <2>3. due = OneIf(Bus!Subscribed(h, T)) + OneIf(Bus!Subscribed(h, None))
    BY <2>2, <1>1, DueCount
  <2>4. CallsCounted(h, n) /\ Bus!Times(h, n) \in Nat
    BY <2>1, TimesType DEF BusInv, CountInv
  <2>5. /\ OneIf(DueTo(h, T, n)) <= OneIf(Bus!Subscribed(h, T)) /\ OneIf(DueTo(h, T, n)) \in Nat
        /\ OneIf(Bus!Subscribed(h, T)) \in Nat /\ OneIf(Bus!Subscribed(h, None)) \in Nat
        /\ since[h] < n => OneIf(DueTo(h, T, n)) = OneIf(Bus!Subscribed(h, T)) /\ OneIf(DueTo(h, None, n)) = OneIf(Bus!Subscribed(h, None))
    BY DEF OneIf, DueTo
  <2>6. CASE Bus!Dispatched(n)
    BY <2>2, <2>3, <2>4, <2>5, <2>6 DEF CallsCounted
  <2>7. CASE ~Bus!Dispatched(n)
    <3>1. PICK f \in Frames : f.n = n
      BY <2>7, DispatchedFrames
    <3>2. FrameInv(f) /\ f \in Bus!Frame /\ handlers[f.of] \in Seq(Handlers)
      BY <3>1 DEF BusInv, StackInv, FrameInv, Bus!Frame, Bus!TypeOK
    <3>3. \A i \in 1..(f.at - 1) : i \in DOMAIN handlers[f.of]
      <4>1. f.at \in 1..(f.last + 1) /\ f.last = Len(handlers[f.of]) /\ f.last \in Nat /\ f.at \in Nat
        BY <3>2 DEF FrameInv, Bus!Frame
      <4>2. DOMAIN handlers[f.of] = 1..f.last
        BY <3>2, <4>1
      <4>3. QED
        BY <4>1, <4>2
    <3>4. CalledBy(h, f) => Bus!Subscribed(h, f.of)
      BY <3>3 DEF CalledBy, Bus!Subscribed
    <3>5. Bus!Times(h, n) = (IF f.loop = "typed" THEN 0 ELSE OneIf(DueTo(h, T, n))) + OneIf(CalledBy(h, f))
      BY <2>2, <2>4, <3>1 DEF CallsCounted
    <3>6. OneIf(CalledBy(h, f)) <= OneIf(Bus!Subscribed(h, f.of)) /\ OneIf(CalledBy(h, f)) \in Nat
      BY <3>4 DEF OneIf
    <3>7. f.of = IF f.loop = "typed" THEN T ELSE None
      BY <2>2, <3>1, <3>2 DEF FrameInv, Bus!Frame
    <3>8. QED
      BY <2>3, <2>5, <2>7, <3>5, <3>6, <3>7
  <2>8. QED
    BY <2>6, <2>7
<1>2. QED
  BY <1>1, SameCardinality DEF BusInv, OrderInv, QueuedInv, Bus!DispatchExact

\* Whatever handlers publish and subscribe in the middle of dispatches, each
\* event reaches each handler of its type and of all types as often as it is
\* due, in order but for what is published inside of its dispatch; and what
\* comes through the queue is published once, in the order of acceptance.
THEOREM DispatchIsExact == ASSUME Bus!BusAssumption PROVE Bus!Spec => []DispatchExact
<1>1. Bus!Init /\ [][Bus!Next]_(Bus!vars) => []BusInv
  BY BusInitInv, BusNextInv, PTL
<1>2. BusInv => DispatchExact
  BY BusExact DEF DispatchExact
<1>3. QED
  BY <1>1, <1>2, PTL DEF Bus!Spec
===============================================================================
