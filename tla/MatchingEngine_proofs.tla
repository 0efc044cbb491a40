------------------------ MODULE MatchingEngine_proofs --------------------------
(***************************************************************************)
(* Proofs about MatchingEngine, for every set of orders and prices and any *)
(* number of orders: time priority, the book that is never crossed, the    *)
(* index, and that no order trades more than was asked for.                *)
(***************************************************************************)
EXTENDS MatchingEngine, Lemmas, TLAPS

USE MaxOrdersAssumption

(* The inductive invariant.  Book ids and client ids are handed out in     *)
(* order, an order of the book belongs to one client, and while an order   *)
(* matches, what it may still trade is what it has not filled.             *)
Numbering ==
  /\ nextId <= nextClient
  /\ pc \in {"match", "fill"} => nextId < nextClient
  /\ pc # "idle" => nextClient > 1
  /\ \A i \in resting : i < nextId
  /\ \A i \in index : i < nextId

Ownership ==
  /\ \A c \in Ids : restingOrders[c] < nextId
  /\ \A c \in Ids : c >= nextClient => restingOrders[c] = 0
  /\ \A c, d \in Ids : restingOrders[c] = restingOrders[d] => c = d \/ restingOrders[c] = 0
  /\ pc \in {"match", "fill"} => restingOrders[TakerId] = 0

Accounting ==
  /\ pc \in {"match", "fill"} => left[TakerId] = Unfilled
  /\ pc = "fill" => qty <= Unfilled
  /\ pc \in {"match", "fill"} => Unfilled >= 0

\* What rests of an order in the book can trade what the client's order has left.
LeftExact ==
  \A c \in Ids : restingOrders[c] \in resting => Remaining(order[restingOrders[c]]) = left[c]

IInv == /\ TypeOK /\ Numbering /\ Ownership /\ Accounting
        /\ IndexAccurate /\ FrontFirst /\ Uncrossed /\ LeftExact

(* What Min returns.                                                       *)
LEMMA MinOfTwo ==
  ASSUME NEW a \in Int, NEW b \in Int
  PROVE  Min({a, b}) \in Int /\ Min({a, b}) <= a /\ Min({a, b}) <= b
<1>1. CASE a <= b
  <2>1. a \in {a, b} /\ \A y \in {a, b} : a <= y
    BY <1>1
  <2>2. \E x \in {a, b} : \A y \in {a, b} : x <= y
    BY <2>1
  <2>3. Min({a, b}) \in {a, b} /\ \A y \in {a, b} : Min({a, b}) <= y
    BY <2>2, Zenon DEF Min
  <2>4. QED
    BY <2>3
<1>2. CASE b <= a
  <2>1. b \in {a, b} /\ \A y \in {a, b} : b <= y
    BY <1>2
  <2>2. \E x \in {a, b} : \A y \in {a, b} : x <= y
    BY <2>1
  <2>3. Min({a, b}) \in {a, b} /\ \A y \in {a, b} : Min({a, b}) <= y
    BY <2>2, Zenon DEF Min
  <2>4. QED
    BY <2>3
<1>3. QED
  BY <1>1, <1>2

(* The order that stands for none is one of the orders.                    *)
LEMMA SomeOrder == (CHOOSE o \in Orders : TRUE) \in Orders
BY OrdersAssumption

LEMMA OrderFields ==
  ASSUME NEW o \in Orders
  PROVE  /\ o.side \in Sides /\ o.type \in OrderTypes
         /\ o.price \in Prices /\ o.price \in Int /\ o.quantity \in Int
<1>1. o \in [side : Sides, type : OrderTypes, price : Prices, quantity : Int]
  BY OrdersAssumption
<1>2. o.side \in Sides /\ o.type \in OrderTypes /\ o.price \in Prices /\ o.quantity \in Int
  BY <1>1
<1>3. QED
  BY <1>2, PricesAssumption

LEMMA InitIInv == Init => IInv
<1> SUFFICES ASSUME Init PROVE IInv
  OBVIOUS
<1>1. /\ resting = {} /\ index = {} /\ nextId = 1 /\ pc = "idle" /\ nextClient = 1
      /\ qty = 0 /\ fills = {}
      /\ restingOrders = [c \in Ids |-> 0] /\ left = [c \in Ids |-> 0]
  BY DEF Init, BookInit
<1>2. TypeOK
  <2>1. \A p \in Prices : [side |-> "buy", price |-> p, quantity |-> 0, filled |-> 0] \in BookOrder
    BY DEF BookOrder, Sides
  <2>2. (CHOOSE p \in Prices : TRUE) \in Prices
    BY PricesAssumption
  <2>3. order \in [Ids -> BookOrder]
    BY <2>1, <2>2 DEF Init, BookInit
  <2>4. total \in [Sides -> [Prices -> Int]]
    BY DEF Init, BookInit
  <2>5. taker \in Orders /\ report \in [filled : Int, status : Statuses]
    BY SomeOrder DEF Init, NoReport, Statuses
  <2>6. QED
    BY <1>1, <2>3, <2>4, <2>5 DEF TypeOK, BookTypeOK, Ids
<1>3. Numbering /\ Ownership /\ Accounting
  BY <1>1 DEF Numbering, Ownership, Accounting
<1>4. IndexAccurate /\ FrontFirst /\ Uncrossed /\ LeftExact
  BY <1>1 DEF IndexAccurate, FrontFirst, Uncrossed, SideOf, LeftExact, Ids
<1>5. QED
  BY <1>2, <1>3, <1>4 DEF IInv

-------------------------------------------------------------------------------
(* Steps that leave the book alone keep what is said of the book only.     *)

BookFacts == IndexAccurate /\ FrontFirst /\ Uncrossed

LEMMA BookStutter ==
  ASSUME BookFacts, UNCHANGED <<order, resting, index>>
  PROVE  BookFacts'
BY DEF BookFacts, IndexAccurate, FrontFirst, Uncrossed, SideOf, Remaining

(* The totals an incoming order may read are integers.                     *)
LEMMA TotalsTyped ==
  ASSUME TypeOK, NEW side \in Sides
  PROVE  \A n \in BestTotals(side) : n \in Int
<1> SUFFICES ASSUME NEW i \in resting PROVE total[side][order[i].price] \in Int
  BY DEF BestTotals
<1>1. order[i] \in BookOrder
  BY DEF TypeOK, BookTypeOK
<1>2. order[i].price \in Prices
  BY <1>1 DEF BookOrder
<1>3. total \in [Sides -> [Prices -> Int]]
  BY DEF TypeOK, BookTypeOK
<1>4. QED
  BY <1>2, <1>3

LEMMA OppositeSide == ASSUME NEW s \in Sides PROVE Opposite(s) \in Sides /\ Opposite(s) # s
BY DEF Sides, Opposite

(* What the six ways to submit an order have in common.                    *)
LEMMA SubmitFacts ==
  ASSUME IInv, NEW o \in Orders, Submit(o)
  PROVE  /\ pc = "idle" /\ nextClient <= MaxOrders
         /\ taker' = o /\ nextClient' = nextClient + 1
         /\ fills' = {} /\ UNCHANGED <<bookVars, restingOrders>>
         /\ pc' \in {"match", "fill", "publish"}
         /\ report' \in [filled : Int, status : Statuses] /\ report'.filled = 0
         /\ qty' \in Int
         /\ pc' = "fill" => qty' <= o.quantity
         /\ \E x \in Int : /\ left' = [left EXCEPT ![nextClient] = x] /\ x >= 0
                           /\ pc' \in {"match", "fill"} => x = o.quantity
<1>0. o.quantity \in Int /\ o.side \in Sides /\ qty \in Int /\ Opposite(o.side) \in Sides
  BY OrderFields, OppositeSide DEF IInv, TypeOK
<1>1. Arrive(o)
  BY DEF Submit, SubmitInvalid, SubmitMarket, SubmitLimit, SubmitIOC, SubmitFOK, KillFOK
<1>2. /\ pc = "idle" /\ nextClient <= MaxOrders
      /\ taker' = o /\ nextClient' = nextClient + 1
      /\ fills' = {} /\ UNCHANGED <<bookVars, restingOrders>>
  BY <1>1 DEF Arrive
<1>3. NoReport \in [filled : Int, status : Statuses] /\ NoReport.filled = 0
  BY DEF NoReport, Statuses
<1>4. [NoReport EXCEPT !.status = "Rejected"] \in [filled : Int, status : Statuses]
      /\ [NoReport EXCEPT !.status = "Rejected"].filled = 0
  BY DEF NoReport, Statuses
<1>5. \A n \in AvailableLiquidity(o) : n \in Int
  BY <1>0, TotalsTyped DEF AvailableLiquidity, IInv
<1>6. CASE Invalid(o)
  <2>1. SubmitInvalid(o)
    BY <1>6 DEF Submit, SubmitMarket, SubmitLimit, SubmitIOC, SubmitFOK, KillFOK
  <2>2. left' = [left EXCEPT ![nextClient] = 0]
    BY <1>1, <1>6 DEF Arrive
  <2>3. report' = [NoReport EXCEPT !.status = "Rejected"] /\ pc' = "publish" /\ qty' = qty
    BY <2>1 DEF SubmitInvalid
  <2>4. \E x \in Int : /\ left' = [left EXCEPT ![nextClient] = x] /\ x >= 0
                       /\ pc' \in {"match", "fill"} => x = o.quantity
    <3>1. 0 >= 0 /\ ~(pc' \in {"match", "fill"})
      BY <2>3
    <3>2. 0 \in Int
      OBVIOUS
    <3>3. QED
      BY <2>2, <3>1, <3>2, Zenon
  <2>5. report' \in [filled : Int, status : Statuses] /\ report'.filled = 0
    BY <1>4, <2>3
  <2>6. QED
    BY <1>0, <1>2, <2>3, <2>4, <2>5
<1>7. CASE ~Invalid(o)
  <2>1. left' = [left EXCEPT ![nextClient] = o.quantity] /\ o.quantity >= 0
    BY <1>0, <1>1, <1>7 DEF Arrive, Invalid
  <2>2. \E x \in Int : /\ left' = [left EXCEPT ![nextClient] = x] /\ x >= 0
                       /\ pc' \in {"match", "fill"} => x = o.quantity
    BY <1>0, <2>1
  <2>3. CASE SubmitMarket(o)
    <3>1. pc' = "fill" /\ qty' = o.quantity /\ report' = NoReport
      BY <2>3 DEF SubmitMarket, Execute
    <3>2. /\ pc' \in {"match", "fill", "publish"} /\ qty' \in Int
          /\ pc' = "fill" => qty' <= o.quantity
          /\ report' \in [filled : Int, status : Statuses] /\ report'.filled = 0
      BY <1>0, <1>3, <3>1
    <3>3. QED
      BY <1>2, <2>2, <3>2, Zenon
  <2>4. CASE SubmitLimit(o)
    BY <1>0, <1>2, <1>3, <2>1, <2>4 DEF SubmitLimit
  <2>5. CASE SubmitIOC(o)
    <3>1. PICK n \in AvailableLiquidity(o) : Execute(Min({o.quantity, n}))
      BY <2>5 DEF SubmitIOC
    <3>2. Min({o.quantity, n}) \in Int /\ Min({o.quantity, n}) <= o.quantity
      BY <1>0, <1>5, MinOfTwo
    <3>3. QED
      BY <1>0, <1>2, <1>3, <2>1, <3>1, <3>2 DEF Execute
  <2>6. CASE SubmitFOK(o)
    <3>1. pc' = "fill" /\ qty' = o.quantity /\ report' = NoReport
      BY <2>6 DEF SubmitFOK, Execute
    <3>2. /\ pc' \in {"match", "fill", "publish"} /\ qty' \in Int
          /\ pc' = "fill" => qty' <= o.quantity
          /\ report' \in [filled : Int, status : Statuses] /\ report'.filled = 0
      BY <1>0, <1>3, <3>1
    <3>3. QED
      BY <1>2, <2>2, <3>2, Zenon
  <2>7. CASE KillFOK(o)
    <3>1. report' = [NoReport EXCEPT !.status = "Rejected"] /\ pc' = "publish" /\ qty' = qty
      BY <2>7 DEF KillFOK
    <3>2. QED
      BY <1>0, <1>2, <1>4, <2>1, <3>1
  <2>8. QED
    BY <1>7, <2>3, <2>4, <2>5, <2>6, <2>7 DEF Submit, SubmitInvalid
<1>8. QED
  BY <1>6, <1>7

LEMMA SubmitStep == ASSUME IInv, NEW o \in Orders, Submit(o) PROVE IInv'
<1>1. /\ pc = "idle" /\ nextClient <= MaxOrders
      /\ taker' = o /\ nextClient' = nextClient + 1
      /\ fills' = {} /\ UNCHANGED <<bookVars, restingOrders>>
      /\ pc' \in {"match", "fill", "publish"}
      /\ report' \in [filled : Int, status : Statuses] /\ report'.filled = 0
      /\ qty' \in Int
      /\ pc' = "fill" => qty' <= o.quantity
  BY SubmitFacts
<1>2. PICK x \in Int : /\ left' = [left EXCEPT ![nextClient] = x] /\ x >= 0
                       /\ pc' \in {"match", "fill"} => x = o.quantity
  BY SubmitFacts
<1>3. /\ order' = order /\ resting' = resting /\ index' = index /\ total' = total
      /\ nextId' = nextId /\ restingOrders' = restingOrders
  BY <1>1 DEF bookVars
<1>4. /\ nextClient \in 1..(MaxOrders + 1) /\ nextId \in 1..(MaxOrders + 1)
      /\ nextClient \in Ids /\ left \in [Ids -> Int]
      /\ resting \subseteq Ids /\ index \subseteq Ids /\ restingOrders \in [Ids -> Ids \cup {0}]
  BY <1>1 DEF IInv, TypeOK, BookTypeOK, Ids
<1>5. TypeOK'
  <2>1. BookTypeOK'
    BY <1>3 DEF IInv, TypeOK, BookTypeOK
  <2>2. left' \in [Ids -> Int] /\ nextClient' \in 1..(MaxOrders + 1)
    BY <1>1, <1>2, <1>4
  <2>3. QED
    BY <1>1, <1>3, <1>4, <2>1, <2>2 DEF TypeOK
<1>6. Numbering'
  BY <1>1, <1>3, <1>4 DEF IInv, Numbering
<1>7. Ownership'
  <2>1. restingOrders[nextClient] = 0
    BY <1>4 DEF IInv, Ownership
  <2>2. TakerId' = nextClient
    BY <1>1, <1>4 DEF TakerId
  <2>3. \A c \in Ids : c >= nextClient' => restingOrders[c] = 0
    BY <1>1, <1>4 DEF IInv, Ownership, Ids
  <2>4. QED
    BY <1>3, <2>1, <2>2, <2>3 DEF IInv, Ownership
<1>8. Accounting'
  <2>1. TakerId' = nextClient
    BY <1>1, <1>4 DEF TakerId
  <2>2. o.quantity \in Int
    BY OrderFields
  <2>3. Unfilled' = o.quantity
    BY <1>1, <2>2 DEF Unfilled
  <2>4. left'[nextClient] = x
    BY <1>2, <1>4
  <2>5. QED
    BY <1>1, <1>2, <2>1, <2>3, <2>4 DEF Accounting
<1>9. LeftExact'
  <2>1. \A c \in Ids : left'[c] = IF c = nextClient THEN x ELSE left[c]
    BY <1>2, <1>4
  <2>2. restingOrders[nextClient] \notin resting
    BY <1>4 DEF IInv, Ownership, Ids
  <2>3. QED
    BY <1>2, <1>3, <2>1, <2>2 DEF IInv, LeftExact, Remaining
<1>10. QED
  BY <1>3, <1>5, <1>6, <1>7, <1>8, <1>9, BookStutter DEF IInv, BookFacts

-------------------------------------------------------------------------------
(* The steps of matching.                                                  *)

(* The types a step of matching can rely on.                               *)
LEMMA Types ==
  ASSUME IInv
  PROVE  /\ order \in [Ids -> BookOrder] /\ resting \subseteq Ids /\ index \subseteq Ids
         /\ total \in [Sides -> [Prices -> Int]]
         /\ nextId \in Int /\ nextClient \in Int /\ nextId >= 1
         /\ nextId <= MaxOrders + 1 /\ nextClient <= MaxOrders + 1
         /\ taker \in Orders /\ taker.side \in Sides /\ taker.quantity \in Int
         /\ taker.price \in Prices /\ taker.price \in Int
         /\ report \in [filled : Int, status : Statuses] /\ report.filled \in Int
         /\ qty \in Int /\ Unfilled \in Int
         /\ restingOrders \in [Ids -> Ids \cup {0}] /\ left \in [Ids -> Int]
         /\ pc # "idle" => TakerId \in Ids
<1>1. /\ order \in [Ids -> BookOrder] /\ resting \subseteq Ids /\ index \subseteq Ids
      /\ total \in [Sides -> [Prices -> Int]]
      /\ nextId \in 1..(MaxOrders + 1) /\ nextClient \in 1..(MaxOrders + 1)
      /\ taker \in Orders
      /\ report \in [filled : Int, status : Statuses] /\ report.filled \in Int
      /\ qty \in Int
      /\ restingOrders \in [Ids -> Ids \cup {0}] /\ left \in [Ids -> Int]
  BY DEF IInv, TypeOK, BookTypeOK
<1>2. taker.side \in Sides /\ taker.quantity \in Int /\ taker.price \in Prices /\ taker.price \in Int
  BY <1>1, OrderFields
<1>3. Unfilled \in Int
  BY <1>1, <1>2 DEF Unfilled
<1>4. pc # "idle" => TakerId \in Ids
  BY <1>1 DEF IInv, Numbering, TakerId, Ids
<1>5. QED
  BY <1>1, <1>2, <1>3, <1>4

LEMMA FieldsOfOrder ==
  ASSUME IInv, NEW i \in Ids
  PROVE  /\ order[i].side \in Sides /\ order[i].price \in Prices /\ order[i].price \in Int
         /\ order[i].quantity \in Int /\ order[i].filled \in Int
         /\ Remaining(order[i]) \in Int
<1>1. order[i] \in BookOrder
  BY Types
<1>2. /\ order[i].side \in Sides /\ order[i].price \in Prices
      /\ order[i].quantity \in Int /\ order[i].filled \in Int
  BY <1>1 DEF BookOrder
<1>3. order[i].price \in Int
  BY <1>2, PricesAssumption
<1>4. QED
  BY <1>2, <1>3 DEF Remaining

LEMMA NextLevelStep == IInv /\ NextLevel => IInv'
<1> SUFFICES ASSUME IInv, NextLevel PROVE IInv'
  OBVIOUS
<1>1. /\ pc = "match" /\ pc' = "fill" /\ fills' = {}
      /\ UNCHANGED <<bookVars, taker, report, nextClient, restingOrders, left>>
  BY DEF NextLevel
<1>2. PICK n \in BestTotals(Opposite(taker.side)) : qty' = Min({Unfilled, n})
  BY DEF NextLevel
<1>3. qty' \in Int /\ qty' <= Unfilled
  <2>1. n \in Int
    BY <1>2, Types, OppositeSide, TotalsTyped DEF IInv
  <2>2. QED
    BY <1>2, <2>1, Types, MinOfTwo
<1>4. UNCHANGED <<order, resting, index, total, nextId>>
  BY <1>1 DEF bookVars
<1>5. TypeOK'
  BY <1>1, <1>3, <1>4 DEF IInv, TypeOK, BookTypeOK
<1>6. Numbering' /\ Ownership'
  BY <1>1, <1>4 DEF IInv, Numbering, Ownership, TakerId
<1>7. Accounting' /\ LeftExact'
  BY <1>1, <1>3, <1>4 DEF IInv, Accounting, LeftExact, TakerId, Unfilled, Remaining
<1>8. QED
  BY <1>4, <1>5, <1>6, <1>7, BookStutter DEF IInv, BookFacts

LEMMA EndExecuteStep == IInv /\ EndExecute => IInv'
<1> SUFFICES ASSUME IInv, EndExecute PROVE IInv'
  OBVIOUS
<1>1. /\ pc = "fill" /\ fills' = {} /\ qty' = 0
      /\ UNCHANGED <<order, resting, total, nextId, taker, nextClient, restingOrders, left>>
      /\ pc' \in {"match", "publish"}
  BY DEF EndExecute
<1>2. report' \in [filled : Int, status : Statuses] /\ report'.filled = report.filled
  <2>1. FinalStatus \in Statuses
    BY DEF FinalStatus, Statuses
  <2>2. report' = report \/ report' = [report EXCEPT !.status = FinalStatus]
    BY DEF EndExecute
  <2>3. QED
    BY <2>1, <2>2, Types
<1>3. resting \subseteq index' /\ index' \subseteq index
      /\ \A i \in index' : i \in index
  BY DEF EndExecute, CleanUpIndex, IInv, IndexAccurate
<1>4. TypeOK'
  BY <1>1, <1>2, <1>3 DEF IInv, TypeOK, BookTypeOK
<1>5. Numbering' /\ Ownership'
  BY <1>1, <1>3 DEF IInv, Numbering, Ownership, TakerId
<1>6. Accounting' /\ LeftExact'
  BY <1>1, <1>2 DEF IInv, Accounting, LeftExact, TakerId, Unfilled, Remaining
<1>7. IndexAccurate'
  BY <1>1, <1>3 DEF IInv, IndexAccurate, Remaining
<1>8. FrontFirst' /\ Uncrossed'
  BY <1>1 DEF IInv, FrontFirst, Uncrossed, SideOf
<1>9. QED
  BY <1>4, <1>5, <1>6, <1>7, <1>8 DEF IInv

LEMMA LimitFilledStep == IInv /\ LimitFilled => IInv'
<1> SUFFICES ASSUME IInv, LimitFilled PROVE IInv'
  OBVIOUS
<1>1. /\ pc = "match" /\ pc' = "publish"
      /\ UNCHANGED <<bookVars, taker, qty, fills, nextClient, restingOrders, left>>
  BY DEF LimitFilled
<1>2. report' \in [filled : Int, status : Statuses]
  <2>1. report' = [report EXCEPT !.status = "Filled"]
    BY DEF LimitFilled
  <2>2. QED
    BY <2>1, Types DEF Statuses
<1>3. UNCHANGED <<order, resting, index, total, nextId>>
  BY <1>1 DEF bookVars
<1>4. TypeOK'
  BY <1>1, <1>2, <1>3 DEF IInv, TypeOK, BookTypeOK
<1>5. Numbering' /\ Ownership' /\ Accounting' /\ LeftExact'
  BY <1>1, <1>3 DEF IInv, Numbering, Ownership, Accounting, LeftExact, TakerId, Remaining
<1>6. QED
  BY <1>3, <1>4, <1>5, BookStutter DEF IInv, BookFacts

LEMMA PublishStep == IInv /\ PublishExecution => IInv'
<1> SUFFICES ASSUME IInv, PublishExecution PROVE IInv'
  OBVIOUS
<1>1. /\ pc = "publish" /\ pc' = "idle" /\ report' = NoReport
      /\ left' = [left EXCEPT ![TakerId] = IF restingOrders[TakerId] = 0 THEN 0 ELSE @]
      /\ UNCHANGED <<bookVars, qty, fills, nextClient, restingOrders>>
      /\ taker' \in Orders
  BY SomeOrder DEF PublishExecution
<1>2. UNCHANGED <<order, resting, index, total, nextId>>
  BY <1>1 DEF bookVars
<1>3. TakerId \in Ids /\ left \in [Ids -> Int]
  BY <1>1, Types
<1>4. \A c \in Ids : left'[c] = left[c] \/ (left'[c] = 0 /\ restingOrders[c] = 0)
  BY <1>1, <1>3
<1>5. left' \in [Ids -> Int]
  BY <1>1, <1>3
<1>6. TypeOK'
  BY <1>1, <1>2, <1>5 DEF IInv, TypeOK, BookTypeOK, NoReport, Statuses
<1>7. Numbering' /\ Ownership' /\ Accounting'
  BY <1>1, <1>2 DEF IInv, Numbering, Ownership, Accounting
<1>8. LeftExact'
  <2>1. 0 \notin resting
    BY DEF IInv, TypeOK, BookTypeOK, Ids
  <2>2. QED
    BY <1>1, <1>2, <1>4, <2>1 DEF IInv, LeftExact, Remaining
<1>9. QED
  BY <1>2, <1>6, <1>7, <1>8, BookStutter DEF IInv, BookFacts
LEMMA FillFrontStep == IInv /\ FillFront => IInv'
<1> SUFFICES ASSUME IInv, FillFront PROVE IInv'
  OBVIOUS
<1>1. PICK i \in resting :
        /\ IsFront(Opposite(taker.side), i)
        /\ LET q == Min({qty, Remaining(order[i])}) IN
             /\ FillOrder(i, q)
             /\ qty' = qty - q
             /\ report' = [report EXCEPT !.filled = @ + q]
             /\ left' = [c \in Ids |-> IF c = TakerId \/ restingOrders[c] = i
                                         THEN left[c] - q ELSE left[c]]
        /\ fills' = fills \cup {i}
  BY DEF FillFront
<1> DEFINE q == Min({qty, Remaining(order[i])})
<1>2. i \in Ids /\ i \in index /\ TakerId \in Ids
  BY Types DEF IInv, IndexAccurate, FillFront
<1>3. q \in Int /\ q <= qty /\ q <= Remaining(order[i])
  BY <1>2, Types, FieldsOfOrder, MinOfTwo
<1>4. /\ order' = [order EXCEPT ![i].filled = @ + q]
      /\ resting' = IF Remaining(order[i]) = q THEN resting \ {i} ELSE resting
      /\ total' = TotalAfter(order[i].side, order[i].price,
                    IF Remaining(order[i]) = q THEN {i} ELSE {}, q)
      /\ index' = index /\ nextId' = nextId
      /\ qty' = qty - q
      /\ report' = [report EXCEPT !.filled = @ + q]
      /\ left' = [c \in Ids |-> IF c = TakerId \/ restingOrders[c] = i
                                  THEN left[c] - q ELSE left[c]]
      /\ fills' = fills \cup {i}
  BY <1>1 DEF FillOrder
<1>5. /\ pc = "fill" /\ pc' = pc /\ taker' = taker /\ nextClient' = nextClient
      /\ restingOrders' = restingOrders /\ TakerId' = TakerId
  BY DEF FillFront, TakerId
<1> HIDE DEF q
<1>6. \A j \in Ids :
        /\ order'[j].side = order[j].side /\ order'[j].price = order[j].price
        /\ order'[j].quantity = order[j].quantity
        /\ j # i => order'[j] = order[j]
  BY <1>2, <1>4, Types DEF BookOrder
<1>7. order'[i].filled = order[i].filled + q
  BY <1>2, <1>4, Types DEF BookOrder
<1>8. resting' \subseteq resting /\ (\A j \in resting : j \in resting' \/ j = i)
  BY <1>4
<1>9. TypeOK'
  <2>1. order' \in [Ids -> BookOrder]
    BY SMTT(30), <1>2, <1>3, <1>4, Types, FieldsOfOrder DEF BookOrder
  <2>2. total' \in [Sides -> [Prices -> Int]]
    BY <1>2, <1>3, <1>4, Types, FieldsOfOrder DEF TotalAfter
  <2>3. report' \in [filled : Int, status : Statuses] /\ qty' \in Int
    BY <1>3, <1>4, Types
  <2>4. left' \in [Ids -> Int]
    BY <1>3, <1>4, Types
  <2>5. fills' \subseteq Ids
    BY <1>2, <1>4 DEF IInv, TypeOK
  <2>6. QED
    BY <1>4, <1>5, <1>8, <2>1, <2>2, <2>3, <2>4, <2>5 DEF IInv, TypeOK, BookTypeOK
<1>10. Numbering' /\ Ownership'
  BY <1>4, <1>5, <1>8 DEF IInv, Numbering, Ownership
<1>11. Accounting'
  <2>1. left'[TakerId] = left[TakerId] - q
    BY <1>2, <1>4
  <2>2. Unfilled' = Unfilled - q
    BY <1>3, <1>4, <1>5, Types DEF Unfilled
  <2>3. left[TakerId] = Unfilled /\ qty <= Unfilled
    BY <1>5 DEF IInv, Accounting
  <2>4. qty' <= Unfilled' /\ Unfilled' >= 0
    BY <1>3, <1>4, <2>2, <2>3, Types
  <2>5. QED
    BY <1>5, <2>1, <2>2, <2>3, <2>4 DEF Accounting
<1>12. LeftExact'
  <2>1. Remaining(order[i])' = Remaining(order[i]) - q
    BY <1>2, <1>3, <1>6, <1>7, FieldsOfOrder DEF Remaining
  <2>2. restingOrders[TakerId] = 0 /\ 0 \notin resting
    BY <1>5 DEF IInv, Ownership, TypeOK, BookTypeOK, Ids
  <2>3. ASSUME NEW c \in Ids, restingOrders[c] \in resting'
        PROVE  Remaining(order[restingOrders[c]])' = left'[c]
    <3>1. c # TakerId /\ Remaining(order[restingOrders[c]]) = left[c]
      BY <1>8, <2>2, <2>3 DEF IInv, LeftExact
    <3>2. CASE restingOrders[c] = i
      <4>1. left'[c] = left[c] - q
        BY <1>4, <3>2
      <4>2. Remaining(order[restingOrders[c]])' = Remaining(order[i])'
        BY <1>5, <3>2 DEF Remaining
      <4>3. QED
        BY <2>1, <3>1, <3>2, <4>1, <4>2
    <3>3. CASE restingOrders[c] # i
      <4>1. left'[c] = left[c]
        BY <1>4, <3>1, <3>3
      <4>2. order'[restingOrders[c]] = order[restingOrders[c]]
        BY <1>6, <1>8, <2>3, <3>3, Types
      <4>3. QED
        BY <1>5, <3>1, <4>1, <4>2 DEF Remaining
    <3>4. QED
      BY <3>2, <3>3
  <2>4. QED
    BY <1>5, <2>3 DEF LeftExact, Remaining
<1>13. IndexAccurate'
  <2>1. resting' \subseteq index'
    BY <1>4, <1>8 DEF IInv, IndexAccurate
  <2>2. ASSUME NEW j \in index' \ resting' PROVE Remaining(order[j])' = 0
    <3>1. j \in Ids /\ j \in index
      BY <1>4, Types
    <3>2. CASE j = i
      <4>1. Remaining(order[i]) = q
        BY <1>1, <1>4, <3>2
      <4>2. QED
        BY <1>2, <1>3, <1>6, <1>7, <3>2, <4>1, FieldsOfOrder DEF Remaining
    <3>3. CASE j # i
      <4>1. j \notin resting
        BY <1>8, <3>3
      <4>2. Remaining(order[j]) = 0
        BY <3>1, <4>1 DEF IInv, IndexAccurate
      <4>3. QED
        BY <1>6, <3>1, <3>3, <4>2 DEF Remaining
    <3>4. QED
      BY <3>2, <3>3
  <2>3. QED
    BY <2>1, <2>2 DEF IndexAccurate, Remaining
<1>14. FrontFirst'
  <2>1. \A j \in resting : order[j].side = order[i].side /\ order[j].price = order[i].price => i <= j
    BY <1>1 DEF IsFront, SideOf
  <2>2. \A j \in resting : j \in Ids
    BY Types
  <2>3. QED
    BY <1>2, <1>6, <1>8, <2>1, <2>2 DEF IInv, FrontFirst
<1>15. Uncrossed'
  <2>1. \A j \in resting : j \in Ids
    BY Types
  <2>2. QED
    BY <1>6, <1>8, <2>1 DEF IInv, Uncrossed, SideOf
<1>16. QED
  BY <1>9, <1>10, <1>11, <1>12, <1>13, <1>14, <1>15 DEF IInv
LEMMA RestRemainderStep == IInv /\ RestRemainder => IInv'
<1> SUFFICES ASSUME IInv, RestRemainder PROVE IInv'
  OBVIOUS
<1>1. /\ pc = "match" /\ pc' = "publish" /\ Unfilled > 0 /\ ~Crosses(taker)
      /\ order' = [order EXCEPT ![nextId] =
           [side |-> taker.side, price |-> taker.price, quantity |-> Unfilled, filled |-> 0]]
      /\ resting' = resting \cup {nextId} /\ index' = index \cup {nextId}
      /\ total' = [total EXCEPT ![taker.side][taker.price] = @ + Unfilled]
      /\ nextId' = nextId + 1
      /\ restingOrders' = [restingOrders EXCEPT ![TakerId] = nextId]
      /\ UNCHANGED <<taker, qty, fills, nextClient, left>>
  BY DEF RestRemainder, AddOrder, Remainder
<1>2. TakerId \in Ids /\ nextId \in Ids /\ nextId < nextClient
  <2>1. nextId < nextClient
    BY <1>1 DEF IInv, Numbering
  <2>2. QED
    BY <1>1, <2>1, Types DEF Ids
<1>3. report' \in [filled : Int, status : Statuses]
  <2>1. \E st \in Statuses : report' = [report EXCEPT !.status = st]
    BY DEF RestRemainder, Statuses
  <2>2. QED
    BY <2>1, Types
<1>4. /\ order'[nextId] = [side |-> taker.side, price |-> taker.price, quantity |-> Unfilled, filled |-> 0]
      /\ \A j \in Ids : j # nextId => order'[j] = order[j]
  BY <1>1, <1>2, Types
<1>5. \A j \in resting \cup index : j < nextId /\ j # nextId /\ j \in Ids
  BY Types DEF IInv, Numbering, Ids
<1>6. TypeOK'
  <2>1. [side |-> taker.side, price |-> taker.price, quantity |-> Unfilled, filled |-> 0] \in BookOrder
    BY Types DEF BookOrder
  <2>2. order' \in [Ids -> BookOrder]
    BY <1>1, <1>2, <2>1, Types
  <2>3. total' \in [Sides -> [Prices -> Int]]
    BY <1>1, Types
  <2>4. restingOrders' \in [Ids -> Ids \cup {0}]
    BY <1>1, <1>2, Types
  <2>5. nextId' \in 1..(MaxOrders + 1)
    BY <1>1, <1>2, Types
  <2>6. resting' \subseteq Ids /\ index' \subseteq Ids
    BY <1>1, <1>2, Types
  <2>7. QED
    BY <1>1, <1>3, <2>2, <2>3, <2>4, <2>5, <2>6 DEF IInv, TypeOK, BookTypeOK
<1>7. Numbering'
  <2>1. nextId' <= nextClient /\ nextClient > 1
    BY <1>1, <1>2, Types DEF IInv, Numbering
  <2>2. ASSUME NEW j \in resting' \cup index' PROVE j < nextId'
    <3>1. CASE j = nextId
      BY <1>1, <3>1, Types
    <3>2. CASE j # nextId
      <4>1. j < nextId /\ j \in Int
        BY <1>1, <1>5, <3>2 DEF Ids
      <4>2. QED
        BY <1>1, <4>1, Types
    <3>3. QED
      BY <3>1, <3>2
  <2>3. QED
    BY <1>1, <2>1, <2>2 DEF Numbering
<1>8. Ownership'
  <2>1. \A c \in Ids : restingOrders'[c] = IF c = TakerId THEN nextId ELSE restingOrders[c]
    BY <1>1, Types
  <2>2. TakerId < nextClient
    BY Types DEF TakerId
  <2>3. \A c \in Ids : restingOrders[c] < nextId /\ restingOrders[c] \in Int
    BY Types DEF IInv, Ownership, Ids
  <2>4. \A c \in Ids : restingOrders'[c] < nextId'
    BY <1>1, <2>1, <2>3, Types
  <2>5. \A c \in Ids : c >= nextClient => restingOrders'[c] = 0
    <3>1. \A c \in Ids : c >= nextClient => c # TakerId
      BY <2>2, Types DEF Ids
    <3>2. QED
      BY <2>1, <3>1 DEF IInv, Ownership
  <2>6. \A c, d \in Ids : restingOrders'[c] = restingOrders'[d] => c = d \/ restingOrders'[c] = 0
    BY <2>1, <2>3, Types DEF IInv, Ownership
  <2>7. QED
    BY <1>1, <2>4, <2>5, <2>6 DEF Ownership
<1>9. Accounting'
  BY <1>1 DEF Accounting
<1>10. LeftExact'
  <2>1. left[TakerId] = Unfilled
    BY <1>1 DEF IInv, Accounting
  <2>2. ASSUME NEW c \in Ids, restingOrders'[c] \in resting'
        PROVE  Remaining(order'[restingOrders'[c]]) = left[c]
    <3>1. CASE c = TakerId
      <4>1. restingOrders'[c] = nextId
        BY <1>1, <3>1, Types
      <4>2. Remaining(order'[nextId]) = Unfilled
        BY <1>4, Types DEF Remaining
      <4>3. QED
        BY <2>1, <3>1, <4>1, <4>2, Types
    <3>2. CASE c # TakerId
      <4>1. restingOrders'[c] = restingOrders[c] /\ restingOrders[c] # nextId
        BY <1>1, <3>2, Types DEF IInv, Ownership, Ids
      <4>2. restingOrders[c] \in resting
        BY <1>1, <2>2, <4>1
      <4>3. order'[restingOrders[c]] = order[restingOrders[c]]
        BY <1>4, <4>1, <4>2, Types
      <4>4. Remaining(order[restingOrders[c]]) = left[c]
        BY <4>2 DEF IInv, LeftExact
      <4>5. QED
        BY <4>1, <4>3, <4>4
    <3>3. QED
      BY <3>1, <3>2
  <2>3. QED
    BY <1>1, <2>2 DEF LeftExact, Remaining
<1>11. IndexAccurate'
  <2>1. resting' \subseteq index'
    BY <1>1 DEF IInv, IndexAccurate
  <2>2. \A j \in index' \ resting' : j \in index \ resting
    BY <1>1
  <2>3. QED
    BY <1>4, <1>5, <2>1, <2>2 DEF IInv, IndexAccurate, Remaining
<1>12. FrontFirst'
  <2>1. ASSUME NEW i \in resting', NEW j \in resting',
               order'[i].side = order'[j].side, order'[i].price = order'[j].price, order'[i].filled > 0
        PROVE  i <= j
    <3>1. i # nextId
      BY <1>4, <2>1
    <3>2. i \in resting /\ order'[i] = order[i] /\ i < nextId /\ i \in Ids
      BY <1>1, <1>4, <1>5, <3>1
    <3>3. CASE j = nextId
      BY <3>2, <3>3, Types DEF Ids
    <3>4. CASE j # nextId
      <4>1. j \in resting /\ order'[j] = order[j]
        BY <1>1, <1>4, <1>5, <3>4
      <4>2. QED
        BY <2>1, <3>2, <4>1 DEF IInv, FrontFirst
    <3>5. QED
      BY <3>3, <3>4
  <2>2. QED
    BY <2>1 DEF FrontFirst
<1>13. Uncrossed'
  <2>1. \A j \in resting : order[j].side # taker.side =>
          IF taker.side = "buy" THEN taker.price < order[j].price ELSE order[j].price < taker.price
    <3>1. SUFFICES ASSUME NEW j \in resting, order[j].side # taker.side
                   PROVE  IF taker.side = "buy" THEN taker.price < order[j].price
                                                ELSE order[j].price < taker.price
      OBVIOUS
    <3>2. order[j].side = Opposite(taker.side)
      BY <1>5, <3>1, Types, FieldsOfOrder DEF Opposite, Sides
    <3>3. ~Acceptable(taker, order[j].price)
      BY <1>1, <3>2 DEF Crosses, SideOf
    <3>4. order[j].price \in Int /\ taker.price \in Int
      BY <1>5, Types, FieldsOfOrder
    <3>5. QED
      BY <3>3, <3>4 DEF Acceptable
  <2>2. ASSUME NEW i \in resting', NEW j \in resting', order'[i].side = "buy", order'[j].side = "sell"
        PROVE  order'[i].price < order'[j].price
    <3>1. CASE i = nextId
      <4>1. j # nextId /\ taker.side = "buy" /\ order'[i].price = taker.price
        BY <1>4, <2>2, <3>1
      <4>2. j \in resting /\ order'[j] = order[j]
        BY <1>1, <1>4, <1>5, <4>1
      <4>3. QED
        BY <2>1, <2>2, <4>1, <4>2
    <3>2. CASE i # nextId
      <4>1. i \in resting /\ order'[i] = order[i]
        BY <1>1, <1>4, <1>5, <3>2
      <4>2. CASE j = nextId
        <5>1. taker.side = "sell" /\ order'[j].price = taker.price
          BY <1>4, <2>2, <4>2
        <5>2. QED
          BY <2>1, <2>2, <4>1, <5>1
      <4>3. CASE j # nextId
        <5>1. j \in resting /\ order'[j] = order[j]
          BY <1>1, <1>4, <1>5, <4>3
        <5>2. QED
          BY <2>2, <4>1, <5>1 DEF IInv, Uncrossed, SideOf
      <4>4. QED
        BY <4>2, <4>3
    <3>3. QED
      BY <3>1, <3>2
  <2>3. QED
    BY <2>2 DEF Uncrossed, SideOf
<1>14. QED
  BY <1>6, <1>7, <1>8, <1>9, <1>10, <1>11, <1>12, <1>13 DEF IInv
-------------------------------------------------------------------------------
(* The operations between two orders.                                      *)

(* What keeps the facts about the book when orders only leave it.          *)
LEMMA CancelStep == ASSUME IInv, NEW c \in Ids, Cancel(c) PROVE IInv'
<1>1. /\ pc = "idle" /\ c \in index
      /\ resting' = resting \ {c} /\ index' = index \ {c}
      /\ order' = order /\ nextId' = nextId
      /\ UNCHANGED <<pc, taker, report, qty, fills, nextClient, restingOrders, left>>
  BY DEF Cancel, CancelKnown, callVars
<1>2. total' \in [Sides -> [Prices -> Int]]
  <2>1. CASE c \in resting
    <3>1. total' = TotalAfter(order[c].side, order[c].price, {c}, Remaining(order[c]))
      BY <2>1 DEF Cancel, CancelKnown
    <3>2. QED
      BY <3>1, Types, FieldsOfOrder DEF TotalAfter
  <2>2. CASE c \notin resting
    BY <2>2, Types DEF Cancel, CancelKnown
  <2>3. QED
    BY <2>1, <2>2
<1>3. TypeOK'
  BY <1>1, <1>2 DEF IInv, TypeOK, BookTypeOK
<1>4. Numbering' /\ Ownership' /\ Accounting' /\ LeftExact'
  BY <1>1 DEF IInv, Numbering, Ownership, Accounting, LeftExact, TakerId, Unfilled, Remaining
<1>5. IndexAccurate' /\ FrontFirst' /\ Uncrossed'
  BY <1>1 DEF IInv, IndexAccurate, FrontFirst, Uncrossed, SideOf, Remaining
<1>6. QED
  BY <1>3, <1>4, <1>5 DEF IInv

LEMMA ModifyStep ==
  ASSUME IInv, NEW c \in Ids, NEW n \in Sizes, Modify(c, n)
  PROVE  IInv'
<1> DEFINE i == restingOrders[c]
<1>1. /\ pc = "idle" /\ i \in resting
      /\ order' = [order EXCEPT ![i].quantity = n]
      /\ total' = [total EXCEPT ![order[i].side][order[i].price] =
                     @ - Remaining(order[i]) + Remaining(order'[i])]
      /\ left' = [left EXCEPT ![c] = @ + n - order[i].quantity]
      /\ UNCHANGED <<resting, index, nextId>>
      /\ UNCHANGED <<pc, taker, report, qty, fills, nextClient, restingOrders>>
  BY DEF Modify, ModifyKnown, callVars
<1>2. i \in Ids /\ i # 0 /\ n \in Int
  BY <1>1, Types, SizesAssumption DEF Ids
<1> HIDE DEF i
<1>3. \A j \in Ids :
        /\ order'[j].side = order[j].side /\ order'[j].price = order[j].price
        /\ order'[j].filled = order[j].filled
        /\ j # i => order'[j] = order[j]
  BY <1>1, <1>2, Types DEF BookOrder
<1>4. order'[i].quantity = n
  BY <1>1, <1>2, Types DEF BookOrder
<1>5. /\ Remaining(order'[i]) \in Int
      /\ Remaining(order'[i]) = Remaining(order[i]) + n - order[i].quantity
  BY <1>1, <1>2, <1>3, <1>4, FieldsOfOrder DEF Remaining
<1>6. TypeOK'
  <2>1. order' \in [Ids -> BookOrder]
    BY <1>1, <1>2, Types, FieldsOfOrder DEF BookOrder
  <2>2. total' \in [Sides -> [Prices -> Int]]
    BY <1>1, <1>2, <1>5, Types, FieldsOfOrder
  <2>3. left' \in [Ids -> Int]
    BY <1>1, <1>2, Types, FieldsOfOrder
  <2>4. QED
    BY <1>1, <2>1, <2>2, <2>3 DEF IInv, TypeOK, BookTypeOK
<1>7. Numbering' /\ Ownership' /\ Accounting'
  BY <1>1 DEF IInv, Numbering, Ownership, Accounting
<1>8. LeftExact'
  <2>1. left'[c] = left[c] + n - order[i].quantity
    BY <1>1, Types
  <2>2. Remaining(order[i]) = left[c] /\ left[c] \in Int
    BY <1>1, Types DEF i, IInv, LeftExact
  <2>3. Remaining(order'[i]) = left'[c]
    BY <1>2, <1>5, <2>1, <2>2, FieldsOfOrder
  <2>4. ASSUME NEW d \in Ids, d # c
        PROVE  left'[d] = left[d] /\ restingOrders[d] # i
    BY <1>1, <1>2, <2>4, Types DEF i, IInv, Ownership
  <2>5. ASSUME NEW d \in Ids, d # c, restingOrders[d] \in resting
        PROVE  Remaining(order'[restingOrders[d]]) = left'[d]
    <3>1. order'[restingOrders[d]] = order[restingOrders[d]]
      BY <1>3, <2>4, <2>5, Types
    <3>2. QED
      BY <2>4, <2>5, <3>1 DEF IInv, LeftExact
  <2>6. ASSUME NEW d \in Ids, restingOrders[d] \in resting
        PROVE  Remaining(order'[restingOrders[d]]) = left'[d]
    BY <2>3, <2>5, <2>6 DEF i
  <2>7. QED
    BY <1>1, <2>6 DEF LeftExact, Remaining
<1>9. IndexAccurate'
  BY <1>1, <1>3, Types DEF IInv, IndexAccurate, Remaining
<1>10. FrontFirst' /\ Uncrossed'
  BY <1>1, <1>3, Types DEF IInv, FrontFirst, Uncrossed, SideOf
<1>11. QED
  BY <1>6, <1>7, <1>8, <1>9, <1>10 DEF IInv

LEMMA ClearStep == IInv /\ Clear => IInv'
<1> SUFFICES ASSUME IInv, Clear PROVE IInv'
  OBVIOUS
<1>1. /\ pc = "idle" /\ resting' = {} /\ index' = {}
      /\ total' = [s \in Sides |-> [p \in Prices |-> 0]]
      /\ UNCHANGED <<order, nextId, pc, taker, report, qty, fills, nextClient, restingOrders, left>>
  BY DEF Clear, ClearBook, callVars
<1>2. TypeOK'
  BY <1>1 DEF IInv, TypeOK, BookTypeOK
<1>3. Numbering' /\ Ownership' /\ Accounting' /\ LeftExact'
  BY <1>1 DEF IInv, Numbering, Ownership, Accounting, LeftExact
<1>4. IndexAccurate' /\ FrontFirst' /\ Uncrossed'
  BY <1>1 DEF IndexAccurate, FrontFirst, Uncrossed, SideOf
<1>5. QED
  BY <1>2, <1>3, <1>4 DEF IInv

LEMMA StutterStep == IInv /\ UNCHANGED vars => IInv'
<1> SUFFICES ASSUME IInv, UNCHANGED vars PROVE IInv'
  OBVIOUS
<1>1. UNCHANGED <<order, resting, index, total, nextId, pc, taker, report, qty, fills,
                  nextClient, restingOrders, left>>
  BY DEF vars, bookVars, callVars
<1>2. TypeOK' /\ Numbering' /\ Ownership'
  BY <1>1 DEF IInv, TypeOK, BookTypeOK, Numbering, Ownership, TakerId
<1>3. Accounting' /\ LeftExact'
  BY <1>1 DEF IInv, Accounting, LeftExact, TakerId, Unfilled, Remaining
<1>4. QED
  BY <1>1, <1>2, <1>3, BookStutter DEF IInv, BookFacts

LEMMA NextIInv == IInv /\ [Next]_vars => IInv'
<1> SUFFICES ASSUME IInv, [Next]_vars PROVE IInv'
  OBVIOUS
<1>1. CASE \E o \in Orders : Submit(o)
  BY <1>1, SubmitStep
<1>2. CASE Matching
  BY <1>2, NextLevelStep, FillFrontStep, EndExecuteStep, RestRemainderStep, LimitFilledStep,
     PublishStep DEF Matching
<1>3. CASE \E c \in Ids : Cancel(c)
  BY <1>3, CancelStep
<1>4. CASE \E c \in Ids, n \in Sizes : Modify(c, n)
  BY <1>4, ModifyStep
<1>5. CASE Clear
  BY <1>5, ClearStep
<1>6. CASE UNCHANGED vars
  BY <1>6, StutterStep
<1>7. QED
  BY <1>1, <1>2, <1>3, <1>4, <1>5, <1>6 DEF Next

LEMMA Invariance == Spec => []IInv
BY InitIInv, NextIInv, PTL DEF Spec

-------------------------------------------------------------------------------
(* The cached totals, and what a quantity without a limit may reach.       *)

(* While a quantity of an order with a limit executes, a level whose price *)
(* the order accepts, and ahead of which there is no other, has that much  *)
(* left; a fill-or-kill order is executed for the whole of its quantity.   *)
LevelBacks ==
  \E p \in Prices :
    /\ Acceptable(taker, p)
    /\ qty <= total[Opposite(taker.side)][p]
    /\ \A j \in SideOf(Opposite(taker.side)) : ~Better(Opposite(taker.side), order[j].price, p)

Backed == pc = "fill" /\ taker.type # "Market" /\ qty > 0 => LevelBacks

WholeOrNothing ==
  /\ pc = "match" => taker.type = "Limit"
  /\ pc = "fill" /\ taker.type = "FOK" => qty >= 0 /\ qty + report.filled = taker.quantity
  /\ pc = "publish" /\ taker.type = "FOK" =>
       report.filled = (IF report.status = "Filled" THEN taker.quantity ELSE 0)

\* What an order that is not added yet has traded.
Fresh == \A i \in Ids : i >= nextId => order[i].filled = 0

FInv == CachedTotals /\ Backed /\ WholeOrNothing /\ Fresh

LEMMA Levels ==
  ASSUME IInv, NEW side \in Sides, NEW price \in Prices
  PROVE  /\ IsFiniteSet(Level(side, price)) /\ Level(side, price) \subseteq Ids
         /\ LeftToTrade \in [Ids -> Int]
         /\ \A i \in Level(side, price) : LeftToTrade[i] \in Int
         /\ total[side][price] \in Int
<1>1. Level(side, price) \subseteq Ids
  BY Types DEF Level, SideOf
<1>2. IsFiniteSet(Ids)
  BY FS_Interval DEF Ids
<1>3. IsFiniteSet(Level(side, price))
  BY <1>1, <1>2, FS_Subset
<1>4. \A i \in Ids : LeftToTrade[i] \in Int
  BY FieldsOfOrder DEF LeftToTrade
<1>5. LeftToTrade \in [Ids -> Int]
  BY FieldsOfOrder DEF LeftToTrade
<1>6. QED
  BY <1>1, <1>3, <1>4, <1>5, Types

(* A step that leaves a level's orders and total alone.                    *)
LEMMA LevelKept ==
  ASSUME IInv, CachedTotals, NEW side \in Sides, NEW price \in Prices,
         Level(side, price)' = Level(side, price),
         \A i \in Level(side, price) : LeftToTrade'[i] = LeftToTrade[i]
  PROVE  SumFunctionOnSet(LeftToTrade', Level(side, price)') = total[side][price]
<1> DEFINE L == Level(side, price)
           f == LeftToTrade
           g == LeftToTrade'
<1>1. IsFiniteSet(L) /\ \A i \in L : f[i] \in Int /\ f[i] = g[i]
  BY Levels
<1>2. total[side][price] = SumFunctionOnSet(f, L)
  BY DEF CachedTotals
<1>3. L' = L
  OBVIOUS
<1> HIDE DEF L, f, g
<1>4. SumFunctionOnSet(f, L) = SumFunctionOnSet(g, L)
  BY <1>1, SumCong
<1>5. QED
  BY <1>2, <1>3, <1>4 DEF L, f, g

(* A step that changes what order i has left, at its place.                *)
LEMMA LevelChanges ==
  ASSUME IInv, CachedTotals, NEW i \in resting, NEW s, s = order[i].side, NEW p, p = order[i].price,
         Level(s, p)' = Level(s, p),
         LeftToTrade'[i] \in Int,
         \A j \in Ids : j # i => LeftToTrade'[j] = LeftToTrade[j]
  PROVE  SumFunctionOnSet(LeftToTrade', Level(s, p)') =
           total[s][p] - LeftToTrade[i] + LeftToTrade'[i]
<1> DEFINE L == Level(s, p)
           f == LeftToTrade
           g == LeftToTrade'
<1>1. i \in Ids /\ s \in Sides /\ p \in Prices
  BY Types, FieldsOfOrder
<1>2. /\ IsFiniteSet(L) /\ L \subseteq Ids
      /\ f \in [Ids -> Int] /\ \A j \in L : f[j] \in Int
  BY <1>1, Levels
<1>3. i \in L
  BY DEF Level, SideOf
<1>4. L' = L /\ g[i] \in Int /\ \A j \in L \ {i} : g[j] = f[j]
  BY <1>2
<1>5. total[s][p] = SumFunctionOnSet(f, L)
  BY <1>1 DEF CachedTotals
<1> HIDE DEF L, f, g
<1>6. SumFunctionOnSet(f, L) = f[i] + SumFunctionOnSet(f, L \ {i})
  BY <1>2, <1>3, SumRemove
<1>7. \A j \in L : g[j] \in Int
  BY <1>2, <1>4
<1>8. SumFunctionOnSet(g, L) = g[i] + SumFunctionOnSet(g, L \ {i})
  BY <1>2, <1>3, <1>7, SumRemove
<1>9. IsFiniteSet(L \ {i}) /\ \A j \in L \ {i} : f[j] \in Int /\ f[j] = g[j]
  BY <1>2, <1>4, FS_RemoveElement
<1>10. SumFunctionOnSet(f, L \ {i}) = SumFunctionOnSet(g, L \ {i})
  BY <1>9, SumCong
<1>11. SumFunctionOnSet(f, L \ {i}) \in Int
  BY <1>9, SumType
<1>12. f[i] \in Int /\ g[i] \in Int
  BY <1>2, <1>3, <1>4
<1>13. SumFunctionOnSet(g, L) = SumFunctionOnSet(f, L) - f[i] + g[i]
  BY <1>6, <1>8, <1>10, <1>11, <1>12
<1>14. SumFunctionOnSet(g, L') = total[s][p] - f[i] + g[i]
  BY <1>4, <1>5, <1>13
<1>15. QED
  BY <1>14 DEF L, f, g

(* A step by which order i leaves its level: what TotalAfter gives.        *)
LEMMA LevelLoses ==
  ASSUME IInv, CachedTotals, NEW i \in resting, NEW s, s = order[i].side, NEW p, p = order[i].price,
         Level(s, p)' = Level(s, p) \ {i},
         \A j \in Ids : j # i => LeftToTrade'[j] = LeftToTrade[j]
  PROVE  SumFunctionOnSet(LeftToTrade', Level(s, p)') =
           (IF Level(s, p) \subseteq {i} THEN 0 ELSE total[s][p] - LeftToTrade[i])
<1> DEFINE L == Level(s, p)
           f == LeftToTrade
           g == LeftToTrade'
<1>1. i \in Ids /\ s \in Sides /\ p \in Prices
  BY Types, FieldsOfOrder
<1>2. /\ IsFiniteSet(L) /\ L \subseteq Ids
      /\ f \in [Ids -> Int] /\ \A j \in L : f[j] \in Int
  BY <1>1, Levels
<1>3. i \in L
  BY DEF Level, SideOf
<1>4. L' = L \ {i} /\ \A j \in L \ {i} : g[j] = f[j]
  BY <1>2
<1>5. total[s][p] = SumFunctionOnSet(f, L)
  BY <1>1 DEF CachedTotals
<1> HIDE DEF L, f, g
<1>6. SumFunctionOnSet(f, L) = f[i] + SumFunctionOnSet(f, L \ {i})
  BY <1>2, <1>3, SumRemove
<1>7. IsFiniteSet(L \ {i}) /\ \A j \in L \ {i} : f[j] \in Int /\ f[j] = g[j]
  BY <1>2, <1>4, FS_RemoveElement
<1>8. SumFunctionOnSet(f, L \ {i}) = SumFunctionOnSet(g, L \ {i})
  BY <1>7, SumCong
<1>9. SumFunctionOnSet(f, L \ {i}) \in Int /\ f[i] \in Int
  BY <1>2, <1>3, <1>7, SumType
<1>10. L \subseteq {i} => SumFunctionOnSet(g, L \ {i}) = 0
  <2>1. L \subseteq {i} => L \ {i} = {}
    OBVIOUS
  <2>2. QED
    BY <2>1, SumEmpty
<1>11. SumFunctionOnSet(g, L \ {i}) = SumFunctionOnSet(f, L) - f[i]
  BY <1>6, <1>8, <1>9
<1>12. SumFunctionOnSet(g, L') = (IF L \subseteq {i} THEN 0 ELSE total[s][p] - f[i])
  BY <1>4, <1>5, <1>10, <1>11
<1>13. QED
  BY <1>12 DEF L, f, g

LEMMA TotalsKept ==
  ASSUME IInv, CachedTotals, UNCHANGED <<order, resting, total>>
  PROVE  CachedTotals'
<1>1. \A s \in Sides, p \in Prices : Level(s, p)' = Level(s, p)
  BY DEF Level, SideOf
<1>2. LeftToTrade' = LeftToTrade
  BY DEF LeftToTrade
<1>3. ASSUME NEW s \in Sides, NEW p \in Prices
      PROVE  SumFunctionOnSet(LeftToTrade', Level(s, p)') = total'[s][p]
  BY <1>1, <1>2, <1>3, LevelKept
<1>4. QED
  BY <1>3 DEF CachedTotals

(* The fields a fill changes, as the lemmas about levels need them.        *)
LEMMA FillFacts ==
  ASSUME IInv, FillFront
  PROVE  \E i \in resting, q \in Int :
           /\ IsFront(Opposite(taker.side), i)
           /\ q = Min({qty, Remaining(order[i])}) /\ q <= qty
           /\ \A j \in Ids :
                /\ order'[j].side = order[j].side /\ order'[j].price = order[j].price
                /\ LeftToTrade'[j] = LeftToTrade[j] - (IF j = i THEN q ELSE 0)
           /\ order' = [order EXCEPT ![i].filled = @ + q]
           /\ resting' = IF LeftToTrade[i] = q THEN resting \ {i} ELSE resting
           /\ total' = TotalAfter(order[i].side, order[i].price,
                         IF LeftToTrade[i] = q THEN {i} ELSE {}, q)
           /\ qty' = qty - q /\ report' = [report EXCEPT !.filled = @ + q]
           /\ pc = "fill" /\ pc' = "fill" /\ taker' = taker /\ qty > 0
<1>1. PICK i \in resting :
        /\ IsFront(Opposite(taker.side), i)
        /\ LET q == Min({qty, Remaining(order[i])}) IN
             /\ FillOrder(i, q)
             /\ qty' = qty - q
             /\ report' = [report EXCEPT !.filled = @ + q]
  BY DEF FillFront
<1> DEFINE q == Min({qty, Remaining(order[i])})
<1>2. i \in Ids /\ LeftToTrade[i] = Remaining(order[i])
  BY Types DEF LeftToTrade
<1>3. q \in Int /\ q <= qty
  BY <1>2, Types, FieldsOfOrder, MinOfTwo
<1>4. /\ order' = [order EXCEPT ![i].filled = @ + q]
      /\ resting' = IF LeftToTrade[i] = q THEN resting \ {i} ELSE resting
      /\ total' = TotalAfter(order[i].side, order[i].price,
                    IF LeftToTrade[i] = q THEN {i} ELSE {}, q)
      /\ qty' = qty - q
      /\ report' = [report EXCEPT !.filled = @ + q]
  BY <1>1, <1>2 DEF FillOrder
<1>5. /\ pc = "fill" /\ pc' = "fill" /\ taker' = taker /\ qty > 0
  BY DEF FillFront
<1>6. q = Min({qty, Remaining(order[i])})
  OBVIOUS
<1> HIDE DEF q
<1>7. ASSUME NEW j \in Ids
      PROVE  /\ order'[j].side = order[j].side /\ order'[j].price = order[j].price
             /\ LeftToTrade'[j] = LeftToTrade[j] - (IF j = i THEN q ELSE 0)
  <2>1. order[j] \in BookOrder /\ order[i] \in BookOrder /\ order \in [Ids -> BookOrder]
    BY <1>2, Types
  <2>2. LeftToTrade'[j] = Remaining(order'[j]) /\ LeftToTrade[j] = Remaining(order[j])
    BY DEF LeftToTrade, Remaining
  <2>3. CASE j = i
    <3>1. order'[i] = [order[i] EXCEPT !.filled = @ + q]
      BY <1>2, <1>4, <2>1
    <3>2. /\ order'[i].side = order[i].side /\ order'[i].price = order[i].price
          /\ order'[i].quantity = order[i].quantity
          /\ order'[i].filled = order[i].filled + q
      BY <2>1, <3>1 DEF BookOrder
    <3>3. QED
      BY <1>2, <1>3, <2>2, <2>3, <3>2, FieldsOfOrder DEF Remaining
  <2>4. CASE j # i
    <3>1. order'[j] = order[j]
      BY <1>2, <1>4, <2>1, <2>4
    <3>2. LeftToTrade[j] \in Int
      BY <2>2, FieldsOfOrder
    <3>3. QED
      BY <2>2, <2>4, <3>1, <3>2
  <2>5. QED
    BY <2>3, <2>4
<1>8. QED
  BY <1>1, <1>3, <1>4, <1>5, <1>6, <1>7

LEMMA FillTotals == ASSUME IInv, CachedTotals, FillFront PROVE CachedTotals'
<1>1. PICK i \in resting, q \in Int :
           /\ \A j \in Ids :
                /\ order'[j].side = order[j].side /\ order'[j].price = order[j].price
                /\ LeftToTrade'[j] = LeftToTrade[j] - (IF j = i THEN q ELSE 0)
           /\ resting' = IF LeftToTrade[i] = q THEN resting \ {i} ELSE resting
           /\ total' = TotalAfter(order[i].side, order[i].price,
                         IF LeftToTrade[i] = q THEN {i} ELSE {}, q)
  BY FillFacts
<1> DEFINE s0 == order[i].side
           p0 == order[i].price
<1>2. i \in Ids /\ s0 \in Sides /\ p0 \in Prices /\ LeftToTrade[i] \in Int
  BY Types, FieldsOfOrder DEF LeftToTrade
<1>3. total \in [Sides -> [Prices -> Int]] /\ \A j \in resting : j \in Ids
  BY Types
<1>4. ASSUME NEW j \in Ids, j # i PROVE LeftToTrade'[j] = LeftToTrade[j]
  <2>1. LeftToTrade[j] \in Int
    BY FieldsOfOrder DEF LeftToTrade
  <2>2. QED
    BY <1>1, <1>4, <2>1
<1>5. total'[s0][p0] =
        (IF Level(s0, p0) \subseteq (IF LeftToTrade[i] = q THEN {i} ELSE {}) THEN 0
         ELSE total[s0][p0] - q)
  BY <1>1, <1>2, <1>3 DEF TotalAfter
<1>6. i \in Level(s0, p0)
  BY DEF Level, SideOf
<1>7. ASSUME NEW s \in Sides, NEW p \in Prices
      PROVE  total'[s][p] = SumFunctionOnSet(LeftToTrade', Level(s, p)')
  <2>1. CASE s = s0 /\ p = p0 /\ LeftToTrade[i] = q
    <3>1. Level(s, p)' = Level(s, p) \ {i}
      BY <1>1, <1>3, <2>1 DEF Level, SideOf
    <3>2. SumFunctionOnSet(LeftToTrade', Level(s, p)') =
            (IF Level(s, p) \subseteq {i} THEN 0 ELSE total[s][p] - LeftToTrade[i])
      BY <1>4, <2>1, <3>1, LevelLoses
    <3>3. QED
      BY <1>5, <2>1, <3>2
  <2>2. CASE s = s0 /\ p = p0 /\ LeftToTrade[i] # q
    <3>1. Level(s, p)' = Level(s, p)
      BY <1>1, <1>3, <2>2 DEF Level, SideOf
    <3>2. LeftToTrade'[i] = LeftToTrade[i] - q /\ LeftToTrade'[i] \in Int
      BY <1>1, <1>2
    <3>3. SumFunctionOnSet(LeftToTrade', Level(s, p)') =
            total[s][p] - LeftToTrade[i] + LeftToTrade'[i]
      BY <1>4, <2>2, <3>1, <3>2, LevelChanges
    <3>4. total'[s][p] = total[s][p] - q
      BY <1>5, <1>6, <2>2
    <3>5. total[s][p] \in Int
      BY <1>2, <1>3
    <3>6. QED
      BY <1>2, <2>2, <3>2, <3>3, <3>4, <3>5
  <2>3. CASE ~(s = s0 /\ p = p0)
    <3>1. i \notin Level(s, p) /\ Level(s, p)' = Level(s, p)
      BY <1>1, <1>3, <2>3 DEF Level, SideOf
    <3>2. \A j \in Level(s, p) : LeftToTrade'[j] = LeftToTrade[j]
      BY <1>4, <3>1, Levels
    <3>3. SumFunctionOnSet(LeftToTrade', Level(s, p)') = total[s][p]
      BY <3>1, <3>2, LevelKept
    <3>4. total'[s][p] = total[s][p]
      BY <1>1, <1>2, <1>3, <2>3 DEF TotalAfter
    <3>5. QED
      BY <3>3, <3>4
  <2>4. QED
    BY <2>1, <2>2, <2>3
<1>8. QED
  BY <1>7 DEF CachedTotals

LEMMA CancelTotals == ASSUME IInv, CachedTotals, NEW c \in Ids, Cancel(c) PROVE CachedTotals'
<1>1. /\ order' = order /\ resting' = resting \ {c}
      /\ total' = IF c \in resting
                    THEN TotalAfter(order[c].side, order[c].price, {c}, Remaining(order[c]))
                    ELSE total
  BY DEF Cancel, CancelKnown
<1>2. LeftToTrade' = LeftToTrade
  BY <1>1 DEF LeftToTrade, Remaining
<1>3. CASE c \notin resting
  BY <1>1, <1>3, TotalsKept
<1>4. CASE c \in resting
  <2> DEFINE s0 == order[c].side
             p0 == order[c].price
  <2>1. s0 \in Sides /\ p0 \in Prices /\ LeftToTrade[c] = Remaining(order[c])
    BY FieldsOfOrder DEF LeftToTrade
  <2>2. total \in [Sides -> [Prices -> Int]]
    BY Types
  <2>3. ASSUME NEW s \in Sides, NEW p \in Prices
        PROVE  total'[s][p] = SumFunctionOnSet(LeftToTrade', Level(s, p)')
    <3>1. CASE s = s0 /\ p = p0
      <4>1. Level(s, p)' = Level(s, p) \ {c}
        BY <1>1, <3>1 DEF Level, SideOf
      <4>2. SumFunctionOnSet(LeftToTrade', Level(s, p)') =
              (IF Level(s, p) \subseteq {c} THEN 0 ELSE total[s][p] - LeftToTrade[c])
        BY <1>2, <1>4, <3>1, <4>1, LevelLoses
      <4>3. QED
        BY <1>1, <1>4, <2>1, <2>2, <3>1, <4>2 DEF TotalAfter
    <3>2. CASE ~(s = s0 /\ p = p0)
      <4>1. Level(s, p)' = Level(s, p)
        BY <1>1, <3>2 DEF Level, SideOf
      <4>2. SumFunctionOnSet(LeftToTrade', Level(s, p)') = total[s][p]
        BY <1>2, <4>1, LevelKept
      <4>3. total'[s][p] = total[s][p]
        BY <1>1, <1>4, <2>1, <2>2, <3>2 DEF TotalAfter
      <4>4. QED
        BY <4>2, <4>3
    <3>3. QED
      BY <3>1, <3>2
  <2>4. QED
    BY <2>3 DEF CachedTotals
<1>5. QED
  BY <1>3, <1>4

LEMMA ModifyTotals ==
  ASSUME IInv, CachedTotals, NEW c \in Ids, NEW n \in Sizes, Modify(c, n)
  PROVE  CachedTotals'
<1> DEFINE i == restingOrders[c]
<1>1. /\ i \in resting /\ order' = [order EXCEPT ![i].quantity = n]
      /\ total' = [total EXCEPT ![order[i].side][order[i].price] =
                     @ - Remaining(order[i]) + Remaining(order'[i])]
      /\ resting' = resting
  BY DEF Modify, ModifyKnown
<1>2. i \in Ids /\ n \in Int
  BY <1>1, Types, SizesAssumption
<1> HIDE DEF i
<1> DEFINE s0 == order[i].side
           p0 == order[i].price
<1>3. \A j \in Ids :
        /\ order'[j].side = order[j].side /\ order'[j].price = order[j].price
        /\ order'[j].filled = order[j].filled
        /\ j # i => order'[j] = order[j]
  BY <1>1, <1>2, Types DEF BookOrder
<1>4. order'[i].quantity = n
  BY <1>1, <1>2, Types DEF BookOrder
<1>5. /\ LeftToTrade[i] = Remaining(order[i]) /\ LeftToTrade'[i] = Remaining(order'[i])
      /\ LeftToTrade'[i] \in Int /\ s0 \in Sides /\ p0 \in Prices
  BY <1>2, <1>3, <1>4, FieldsOfOrder DEF LeftToTrade, Remaining
<1>6. \A j \in Ids : j # i => LeftToTrade'[j] = LeftToTrade[j]
  BY <1>3 DEF LeftToTrade, Remaining
<1>7. total \in [Sides -> [Prices -> Int]] /\ \A j \in resting : j \in Ids
  BY Types
<1>8. ASSUME NEW s \in Sides, NEW p \in Prices
      PROVE  total'[s][p] = SumFunctionOnSet(LeftToTrade', Level(s, p)')
  <2>1. Level(s, p)' = Level(s, p)
    BY <1>1, <1>3, <1>7 DEF Level, SideOf
  <2>2. CASE s = s0 /\ p = p0
    <3>1. SumFunctionOnSet(LeftToTrade', Level(s, p)') =
            total[s][p] - LeftToTrade[i] + LeftToTrade'[i]
      BY <1>1, <1>5, <1>6, <2>1, <2>2, LevelChanges
    <3>2. total'[s][p] = total[s][p] - Remaining(order[i]) + Remaining(order'[i])
      BY <1>1, <1>5, <1>7, <2>2
    <3>3. QED
      BY <1>5, <2>2, <3>1, <3>2
  <2>3. CASE ~(s = s0 /\ p = p0)
    <3>1. i \notin Level(s, p)
      BY <2>3 DEF Level, SideOf
    <3>2. \A j \in Level(s, p) : LeftToTrade'[j] = LeftToTrade[j]
      BY <1>6, <3>1, Levels
    <3>3. SumFunctionOnSet(LeftToTrade', Level(s, p)') = total[s][p]
      BY <2>1, <3>2, LevelKept
    <3>4. total'[s][p] = total[s][p]
      BY <1>1, <1>5, <1>7, <2>3
    <3>5. QED
      BY <3>3, <3>4
  <2>4. QED
    BY <2>2, <2>3
<1>9. QED
  BY <1>8 DEF CachedTotals

LEMMA RestTotals == ASSUME IInv, CachedTotals, RestRemainder PROVE CachedTotals'
<1>1. /\ pc = "match"
      /\ order' = [order EXCEPT ![nextId] =
           [side |-> taker.side, price |-> taker.price, quantity |-> Unfilled, filled |-> 0]]
      /\ resting' = resting \cup {nextId}
      /\ total' = [total EXCEPT ![taker.side][taker.price] = @ + Unfilled]
  BY DEF RestRemainder, AddOrder, Remainder
<1>2. nextId \in Ids /\ nextId \notin resting
  <2>1. nextId < nextClient /\ \A i \in resting : i < nextId
    BY <1>1 DEF IInv, Numbering
  <2>2. QED
    BY <2>1, Types DEF Ids
<1>3. /\ order'[nextId] = [side |-> taker.side, price |-> taker.price, quantity |-> Unfilled, filled |-> 0]
      /\ \A j \in Ids : j # nextId => order'[j] = order[j]
  BY <1>1, <1>2, Types
<1>4. LeftToTrade'[nextId] = Unfilled /\ Unfilled \in Int
  BY <1>2, <1>3, Types DEF LeftToTrade, Remaining
<1>5. \A j \in Ids : j # nextId => LeftToTrade'[j] = LeftToTrade[j]
  BY <1>3 DEF LeftToTrade, Remaining
<1>6. /\ total \in [Sides -> [Prices -> Int]] /\ taker.side \in Sides /\ taker.price \in Prices
      /\ \A j \in resting : j \in Ids
  BY Types
<1>7. ASSUME NEW s \in Sides, NEW p \in Prices
      PROVE  total'[s][p] = SumFunctionOnSet(LeftToTrade', Level(s, p)')
  <2>0. nextId \notin Level(s, p) /\ \A j \in Level(s, p) : LeftToTrade'[j] = LeftToTrade[j]
    BY <1>2, <1>5, Levels DEF Level, SideOf
  <2>1. CASE s = taker.side /\ p = taker.price
    <3> DEFINE L == Level(s, p)
               f == LeftToTrade
               g == LeftToTrade'
               n == nextId
    <3>1. L' = L \cup {n}
      BY <1>1, <1>2, <1>3, <1>6, <2>1 DEF Level, SideOf
    <3>2. IsFiniteSet(L) /\ (\A j \in L : f[j] \in Int /\ f[j] = g[j]) /\ n \notin L
      BY <2>0, Levels
    <3>3. total[s][p] = SumFunctionOnSet(f, L) /\ g[n] = Unfilled /\ total[s][p] \in Int
      BY <1>4, Levels DEF CachedTotals
    <3>4. total'[s][p] = total[s][p] + Unfilled
      BY <1>1, <1>6, <2>1
    <3> HIDE DEF L, f, g, n
    <3>5. SumFunctionOnSet(f, L) = SumFunctionOnSet(g, L)
      BY <3>2, SumCong
    <3>6. \A j \in L \cup {n} : g[j] \in Int
      BY <1>4, <3>2, <3>3
    <3>7. SumFunctionOnSet(g, L \cup {n}) = g[n] + SumFunctionOnSet(g, L)
      BY <3>2, <3>6, SumAdd
    <3>8. SumFunctionOnSet(g, L') = Unfilled + total[s][p]
      BY <3>1, <3>3, <3>5, <3>7
    <3>9. SumFunctionOnSet(g, L') = total'[s][p]
      BY <1>4, <3>3, <3>4, <3>8
    <3>10. QED
      BY <3>9 DEF L, g
  <2>2. CASE ~(s = taker.side /\ p = taker.price)
    <3>1. Level(s, p)' = Level(s, p)
      BY <1>1, <1>2, <1>3, <1>6, <2>2 DEF Level, SideOf
    <3>2. SumFunctionOnSet(LeftToTrade', Level(s, p)') = total[s][p]
      BY <2>0, <3>1, LevelKept
    <3>3. total'[s][p] = total[s][p]
      BY <1>1, <1>6, <2>2
    <3>4. QED
      BY <3>2, <3>3
  <2>3. QED
    BY <2>1, <2>2
<1>8. QED
  BY <1>7 DEF CachedTotals

LEMMA NoOrdersNoTotal ==
  ASSUME resting = {}, total = [s \in Sides |-> [p \in Prices |-> 0]]
  PROVE  CachedTotals
<1>1. \A s \in Sides, p \in Prices : Level(s, p) = {} /\ total[s][p] = 0
  BY DEF Level, SideOf
<1>2. QED
  BY <1>1, SumEmpty DEF CachedTotals

LEMMA ClearTotals == ASSUME Clear PROVE CachedTotals'
<1>1. resting' = {} /\ total' = [s \in Sides |-> [p \in Prices |-> 0]]
  BY DEF Clear, ClearBook
<1>2. \A s \in Sides, p \in Prices : Level(s, p)' = {} /\ total'[s][p] = 0
  BY <1>1 DEF Level, SideOf
<1>3. SumFunctionOnSet(LeftToTrade', {}) = 0
  BY SumEmpty
<1>4. QED
  BY <1>2, <1>3 DEF CachedTotals

LEMMA NextTotals == ASSUME IInv, CachedTotals, [Next]_vars PROVE CachedTotals'
<1>1. CASE FillFront
  BY <1>1, FillTotals
<1>2. CASE RestRemainder
  BY <1>2, RestTotals
<1>3. CASE \E c \in Ids : Cancel(c)
  BY <1>3, CancelTotals
<1>4. CASE \E c \in Ids, n \in Sizes : Modify(c, n)
  BY <1>4, ModifyTotals
<1>5. CASE Clear
  BY <1>5, ClearTotals
<1>6. CASE \/ \E o \in Orders : Submit(o)
           \/ NextLevel \/ EndExecute \/ LimitFilled \/ PublishExecution
           \/ UNCHANGED vars
  <2>1. UNCHANGED <<order, resting, total>>
    BY <1>6, SubmitFacts DEF NextLevel, EndExecute, LimitFilled, PublishExecution, vars, bookVars
  <2>2. QED
    BY <2>1, TotalsKept
<1>7. QED
  BY <1>1, <1>2, <1>3, <1>4, <1>5, <1>6 DEF Next, Matching

(* What available_liquidity() and best_bid() or best_ask() promise.        *)
LEMMA BestLevelBacks ==
  ASSUME IInv, NEW o \in Orders, Crosses(o), NEW n \in BestTotals(Opposite(o.side))
  PROVE  \E p \in Prices :
           /\ Acceptable(o, p)
           /\ n = total[Opposite(o.side)][p]
           /\ \A j \in SideOf(Opposite(o.side)) : ~Better(Opposite(o.side), order[j].price, p)
<1> DEFINE side == Opposite(o.side)
<1>1. PICK i \in resting : IsFront(side, i) /\ n = total[side][order[i].price]
  BY DEF BestTotals
<1>2. /\ order[i].price \in Prices /\ order[i].price \in Int
      /\ \A j \in SideOf(side) : ~Better(side, order[j].price, order[i].price)
  BY <1>1, Types, FieldsOfOrder DEF IsFront
<1>3. PICK j \in SideOf(side) : Acceptable(o, order[j].price)
  BY DEF Crosses
<1>4. order[j].price \in Int /\ o.price \in Int /\ o.side \in Sides
  BY Types, FieldsOfOrder, OrderFields DEF SideOf
<1>5. Acceptable(o, order[i].price)
  BY <1>2, <1>3, <1>4 DEF Acceptable, Better, Opposite, Sides
<1>6. QED
  BY <1>1, <1>2, <1>5

(* The order at the front of a backed level has that level's price, so it  *)
(* trades within the limit.                                                *)
LEMMA BackedFront ==
  ASSUME IInv, CachedTotals, qty > 0, NEW p \in Prices,
         qty <= total[Opposite(taker.side)][p],
         \A j \in SideOf(Opposite(taker.side)) : ~Better(Opposite(taker.side), order[j].price, p),
         NEW i, IsFront(Opposite(taker.side), i)
  PROVE  order[i].price = p
<1> DEFINE side == Opposite(taker.side)
<1>1. side \in Sides
  BY Types, OppositeSide
<1>2. Level(side, p) # {}
  <2>1. total[side][p] \in Int /\ total[side][p] # 0
    BY <1>1, Types
  <2>2. total[side][p] = SumFunctionOnSet(LeftToTrade, Level(side, p))
    BY <1>1 DEF CachedTotals
  <2>3. SumFunctionOnSet(LeftToTrade, {}) = 0
    BY SumEmpty
  <2>4. QED
    BY <2>1, <2>2, <2>3, Zenon
<1>3. PICK j \in Level(side, p) : TRUE
  BY <1>2
<1>4. j \in SideOf(side) /\ order[j].price = p /\ i \in SideOf(side)
  BY <1>3 DEF Level, IsFront
<1>5. order[i].price \in Int /\ p \in Int
  BY <1>4, Types, FieldsOfOrder, PricesAssumption DEF SideOf
<1>6. ~Better(side, p, order[i].price) /\ ~Better(side, order[i].price, p)
  BY <1>4 DEF IsFront
<1>7. QED
  BY <1>1, <1>5, <1>6 DEF Better

LEMMA SubmitFInv == ASSUME IInv, FInv, NEW o \in Orders, Submit(o) PROVE Backed' /\ WholeOrNothing'
<1>1. /\ UNCHANGED <<order, resting, total>> /\ taker' = o /\ report'.filled = 0
      /\ o.side \in Sides /\ o.quantity \in Int
  BY SubmitFacts, OrderFields DEF bookVars
<1>2. ASSUME NEW n \in AvailableLiquidity(o), qty' <= n, qty' > 0 PROVE LevelBacks'
  <2>1. Crosses(o) /\ n \in BestTotals(Opposite(o.side))
    BY <1>2, SubmitFacts DEF AvailableLiquidity
  <2>2. PICK p \in Prices :
           /\ Acceptable(o, p)
           /\ n = total[Opposite(o.side)][p]
           /\ \A j \in SideOf(Opposite(o.side)) : ~Better(Opposite(o.side), order[j].price, p)
    BY <2>1, BestLevelBacks
  <2>3. /\ Acceptable(taker, p)' /\ qty' <= total'[Opposite(taker'.side)][p]
        /\ \A j \in SideOf(Opposite(taker.side))' :
             ~Better(Opposite(taker'.side), order'[j].price, p)
    BY <1>1, <1>2, <2>2 DEF Acceptable, SideOf
  <2>4. QED
    BY <2>3 DEF LevelBacks
<1>3. \A n \in AvailableLiquidity(o) : n \in Int
  BY <1>1, OppositeSide, TotalsTyped DEF AvailableLiquidity, IInv
<1>4. CASE SubmitInvalid(o) \/ KillFOK(o)
  <2>1. pc' = "publish" /\ report'.status = "Rejected"
    BY <1>4 DEF SubmitInvalid, KillFOK, NoReport
  <2>2. QED
    BY <1>1, <2>1 DEF Backed, WholeOrNothing
<1>5. CASE SubmitMarket(o)
  <2>1. taker'.type = "Market" /\ pc' = "fill"
    BY <1>1, <1>5 DEF SubmitMarket, Execute
  <2>2. QED
    BY <2>1 DEF Backed, WholeOrNothing
<1>6. CASE SubmitLimit(o)
  <2>1. taker'.type = "Limit" /\ pc' = "match"
    BY <1>1, <1>6 DEF SubmitLimit
  <2>2. QED
    BY <2>1 DEF Backed, WholeOrNothing
<1>7. CASE SubmitIOC(o)
  <2>1. taker'.type = "IOC" /\ pc' = "fill"
    BY <1>1, <1>7 DEF SubmitIOC, Execute
  <2>2. PICK n \in AvailableLiquidity(o) : qty' = Min({o.quantity, n})
    BY <1>7 DEF SubmitIOC, Execute
  <2>3. qty' <= n
    BY <1>1, <1>3, <2>2, MinOfTwo
  <2>4. QED
    BY <1>2, <2>1, <2>2, <2>3 DEF Backed, WholeOrNothing
<1>8. CASE SubmitFOK(o)
  <2>1. taker'.type = "FOK" /\ pc' = "fill" /\ qty' = o.quantity /\ o.quantity > 0
    BY <1>1, <1>8 DEF SubmitFOK, Execute, Invalid
  <2>2. PICK n \in AvailableLiquidity(o) : n >= o.quantity
    BY <1>8 DEF SubmitFOK, CanFillOrKill
  <2>3. qty' <= n /\ qty' > 0
    BY <1>1, <1>3, <2>1, <2>2
  <2>4. LevelBacks'
    BY <1>2, <2>2, <2>3
  <2>5. qty' >= 0 /\ qty' + report'.filled = taker'.quantity
    BY <1>1, <2>1
  <2>6. QED
    BY <2>1, <2>4, <2>5 DEF Backed, WholeOrNothing
<1>9. QED
  BY <1>4, <1>5, <1>6, <1>7, <1>8 DEF Submit

LEMMA NextLevelFInv == ASSUME IInv, FInv, NextLevel PROVE Backed' /\ WholeOrNothing'
<1>1. /\ UNCHANGED <<order, resting, total, taker, report>> /\ Crosses(taker)
      /\ pc = "match" /\ pc' = "fill"
  BY DEF NextLevel, bookVars
<1>2. taker.type = "Limit"
  BY <1>1 DEF FInv, WholeOrNothing
<1>3. PICK n \in BestTotals(Opposite(taker.side)) : qty' = Min({Unfilled, n})
  BY DEF NextLevel
<1>4. qty' <= n
  <2>1. n \in Int
    BY Types, OppositeSide, TotalsTyped DEF IInv
  <2>2. QED
    BY <1>3, <2>1, Types, MinOfTwo
<1>5. PICK p \in Prices :
        /\ Acceptable(taker, p)
        /\ n = total[Opposite(taker.side)][p]
        /\ \A j \in SideOf(Opposite(taker.side)) : ~Better(Opposite(taker.side), order[j].price, p)
  BY <1>1, Types, BestLevelBacks
<1>6. /\ Acceptable(taker, p)' /\ qty' <= total'[Opposite(taker'.side)][p]
      /\ \A j \in SideOf(Opposite(taker.side))' : ~Better(Opposite(taker'.side), order'[j].price, p)
  BY <1>1, <1>4, <1>5 DEF Acceptable, SideOf
<1>7. LevelBacks'
  BY <1>6 DEF LevelBacks
<1>8. QED
  BY <1>1, <1>2, <1>7 DEF Backed, WholeOrNothing

LEMMA FillFInv == ASSUME IInv, FInv, FillFront PROVE Backed' /\ WholeOrNothing'
<1> DEFINE side == Opposite(taker.side)
<1>1. PICK i \in resting, q \in Int :
           /\ IsFront(side, i)
           /\ q = Min({qty, Remaining(order[i])}) /\ q <= qty
           /\ \A j \in Ids : order'[j].side = order[j].side /\ order'[j].price = order[j].price
           /\ resting' = IF LeftToTrade[i] = q THEN resting \ {i} ELSE resting
           /\ total' = TotalAfter(order[i].side, order[i].price,
                         IF LeftToTrade[i] = q THEN {i} ELSE {}, q)
           /\ qty' = qty - q /\ report' = [report EXCEPT !.filled = @ + q]
           /\ pc = "fill" /\ pc' = "fill" /\ taker' = taker /\ qty > 0
  BY FillFacts
<1>2. /\ qty \in Int /\ report.filled \in Int /\ report'.filled = report.filled + q
      /\ taker.quantity \in Int /\ side \in Sides
      /\ total \in [Sides -> [Prices -> Int]] /\ (\A j \in resting : j \in Ids)
  BY <1>1, Types, OppositeSide
<1>3. WholeOrNothing'
  <2>1. CASE taker.type = "FOK"
    <3>1. qty + report.filled = taker.quantity
      BY <1>1, <2>1 DEF FInv, WholeOrNothing
    <3>2. qty' >= 0 /\ qty' + report'.filled = taker.quantity
      BY <1>1, <1>2, <3>1
    <3>3. QED
      BY <1>1, <3>2 DEF WholeOrNothing
  <2>2. CASE taker.type # "FOK"
    BY <1>1, <2>2 DEF WholeOrNothing
  <2>3. QED
    BY <2>1, <2>2
<1>4. ASSUME taker.type # "Market", qty' > 0 PROVE LevelBacks'
  <2>1. PICK p \in Prices :
          /\ Acceptable(taker, p) /\ qty <= total[side][p]
          /\ \A j \in SideOf(side) : ~Better(side, order[j].price, p)
    BY <1>1, <1>4 DEF FInv, Backed, LevelBacks
  <2>2. order[i].price = p
    BY <1>1, <2>1, BackedFront DEF FInv
  <2>3. order[i].side = side /\ i \in Ids /\ i \in Level(side, p)
    BY <1>1, <1>2, <2>2 DEF IsFront, SideOf, Level
  <2>4. ~(Level(side, p) \subseteq (IF LeftToTrade[i] = q THEN {i} ELSE {}))
    <3>1. SUFFICES ASSUME LeftToTrade[i] = q, Level(side, p) = {i} PROVE FALSE
      BY <2>3
    <3>2. LeftToTrade[i] \in Int
      BY <2>3, FieldsOfOrder DEF LeftToTrade
    <3>3. /\ IsFiniteSet(Level(side, p)) /\ \A j \in Level(side, p) : LeftToTrade[j] \in Int
      BY <1>2, Levels
    <3>4. SumFunctionOnSet(LeftToTrade, Level(side, p)) =
            LeftToTrade[i] + SumFunctionOnSet(LeftToTrade, Level(side, p) \ {i})
      BY <2>3, <3>3, SumRemove
    <3>5. SumFunctionOnSet(LeftToTrade, Level(side, p) \ {i}) = 0
      <4>1. Level(side, p) \ {i} = {}
        BY <3>1
      <4>2. SumFunctionOnSet(LeftToTrade, {}) = 0
        BY SumEmpty
      <4>3. QED
        BY <4>1, <4>2
    <3>6. total[side][p] = SumFunctionOnSet(LeftToTrade, Level(side, p))
      BY <1>2 DEF FInv, CachedTotals
    <3>7. total[side][p] = q
      BY <3>1, <3>2, <3>4, <3>5, <3>6
    <3>8. QED
      BY <1>1, <1>2, <1>4, <2>1, <3>7
  <2>5. total'[side][p] = total[side][p] - q
    BY <1>1, <1>2, <2>2, <2>3, <2>4 DEF TotalAfter
  <2>6. qty' <= total'[side][p]
    <3>1. total[side][p] \in Int
      BY <1>2
    <3>2. QED
      BY <1>1, <1>2, <2>1, <2>5, <3>1
  <2>7. \A j \in SideOf(side)' : ~Better(side, order'[j].price, p)
    <3>1. \A j \in resting' : j \in resting /\ j \in Ids
      BY <1>1, <1>2
    <3>2. QED
      BY <1>1, <2>1, <3>1 DEF SideOf
  <2>8. QED
    BY <1>1, <2>1, <2>6, <2>7 DEF LevelBacks, Acceptable
<1>5. QED
  BY <1>1, <1>3, <1>4 DEF Backed

LEMMA EndExecuteFInv == ASSUME IInv, FInv, EndExecute PROVE Backed' /\ WholeOrNothing'
<1>1. /\ pc = "fill" /\ pc' \in {"match", "publish"} /\ taker' = taker
      /\ pc' = "match" => taker.type = "Limit"
      /\ qty <= 0 \/ SideOf(Opposite(taker.side)) = {}
  BY DEF EndExecute
<1>2. ASSUME taker.type = "FOK" PROVE report'.filled = taker.quantity /\ report'.status = "Filled"
  <2>1. qty >= 0 /\ qty + report.filled = taker.quantity
    BY <1>1, <1>2 DEF FInv, WholeOrNothing
  <2>2. qty = 0
    <3>1. SUFFICES ASSUME qty > 0 PROVE FALSE
      BY <2>1, Types
    <3> DEFINE side == Opposite(taker.side)
    <3>2. PICK p \in Prices : qty <= total[side][p]
      BY <1>1, <1>2, <3>1 DEF FInv, Backed, LevelBacks
    <3>3. Level(side, p) = {} /\ side \in Sides
      BY <1>1, <3>1, Types, OppositeSide DEF Level
    <3>4. SumFunctionOnSet(LeftToTrade, {}) = 0
      BY SumEmpty
    <3>5. total[side][p] = 0
      BY <3>3, <3>4 DEF FInv, CachedTotals
    <3>6. QED
      BY <3>1, <3>2, <3>5, Types
  <2>3. Unfilled = 0
    BY <2>1, <2>2, Types DEF Unfilled
  <2>4. FinalStatus = "Filled"
    BY <1>2, <2>3 DEF FinalStatus
  <2>5. report' = [report EXCEPT !.status = FinalStatus]
    BY <1>2 DEF EndExecute
  <2>6. QED
    BY <2>1, <2>2, <2>4, <2>5, Types
<1>3. QED
  BY <1>1, <1>2 DEF Backed, WholeOrNothing

LEMMA NextFresh == ASSUME IInv, Fresh, [Next]_vars PROVE Fresh'
<1>1. CASE FillFront
  <2>1. PICK k \in resting, q \in Int : order' = [order EXCEPT ![k].filled = @ + q]
    BY <1>1, FillFacts
  <2>2. nextId' = nextId /\ k < nextId
    BY <1>1 DEF FillFront, FillOrder, IInv, Numbering
  <2>3. \A i \in Ids : i >= nextId => order'[i] = order[i]
    BY <2>1, <2>2, Types DEF Ids
  <2>4. QED
    BY <2>2, <2>3 DEF Fresh
<1>2. CASE RestRemainder
  <2>1. nextId' = nextId + 1 /\ order' = [order EXCEPT ![nextId] =
           [side |-> taker.side, price |-> taker.price, quantity |-> Unfilled, filled |-> 0]]
    BY <1>2 DEF RestRemainder, AddOrder, Remainder
  <2>2. \A i \in Ids : i >= nextId' => i >= nextId /\ i # nextId
    BY <2>1, Types DEF Ids
  <2>3. \A i \in Ids : i # nextId => order'[i] = order[i]
    BY <2>1, Types
  <2>4. QED
    BY <2>2, <2>3 DEF Fresh
<1>3. CASE \E c \in Ids, n \in Sizes : Modify(c, n)
  <2>1. PICK c \in Ids, n \in Sizes :
          order' = [order EXCEPT ![restingOrders[c]].quantity = n] /\ nextId' = nextId
    BY <1>3 DEF Modify, ModifyKnown
  <2>2. \A i \in Ids : order'[i].filled = order[i].filled
    BY <2>1, Types DEF BookOrder
  <2>3. QED
    BY <2>1, <2>2 DEF Fresh
<1>4. CASE \/ \E o \in Orders : Submit(o)
           \/ NextLevel \/ EndExecute \/ LimitFilled \/ PublishExecution
           \/ \E c \in Ids : Cancel(c)
           \/ Clear \/ UNCHANGED vars
  <2>1. order' = order /\ nextId' = nextId
    BY <1>4, SubmitFacts DEF NextLevel, EndExecute, LimitFilled, PublishExecution, bookVars,
         Cancel, CancelKnown, Clear, ClearBook, vars
  <2>2. QED
    BY <2>1 DEF Fresh
<1>5. QED
  BY <1>1, <1>2, <1>3, <1>4 DEF Next, Matching

LEMMA NextFInv == IInv /\ FInv /\ [Next]_vars => FInv'
<1> SUFFICES ASSUME IInv, FInv, [Next]_vars PROVE FInv'
  OBVIOUS
<1>1. CachedTotals' /\ Fresh'
  BY NextTotals, NextFresh DEF FInv
<1>2. CASE \E o \in Orders : Submit(o)
  BY <1>1, <1>2, SubmitFInv DEF FInv
<1>3. CASE NextLevel \/ FillFront \/ EndExecute
  BY <1>1, <1>3, NextLevelFInv, FillFInv, EndExecuteFInv DEF FInv
<1>4. CASE RestRemainder \/ LimitFilled
  <2>1. taker.type = "Limit" /\ taker' = taker /\ pc' = "publish"
    BY <1>4 DEF FInv, WholeOrNothing, RestRemainder, LimitFilled
  <2>2. QED
    BY <1>1, <2>1 DEF FInv, Backed, WholeOrNothing
<1>5. CASE PublishExecution
  BY <1>1, <1>5 DEF FInv, Backed, WholeOrNothing, PublishExecution
<1>6. CASE \/ \E c \in Ids : Cancel(c)
           \/ \E c \in Ids, n \in Sizes : Modify(c, n)
           \/ Clear
  <2>1. pc = "idle" /\ pc' = "idle"
    BY <1>6 DEF Cancel, Modify, Clear, callVars
  <2>2. QED
    BY <1>1, <2>1 DEF FInv, Backed, WholeOrNothing
<1>7. CASE UNCHANGED vars
  <2>1. UNCHANGED <<order, resting, total, pc, taker, report, qty>>
    BY <1>7 DEF vars, bookVars, callVars
  <2>2. LevelBacks' = LevelBacks
    BY <2>1 DEF LevelBacks, Acceptable, SideOf
  <2>3. QED
    BY <1>1, <2>1, <2>2 DEF FInv, Backed, WholeOrNothing
<1>8. QED
  BY <1>2, <1>3, <1>4, <1>5, <1>6, <1>7 DEF Next, Matching

LEMMA InitFInv == Init => FInv
<1> SUFFICES ASSUME Init PROVE FInv
  OBVIOUS
<1>1. resting = {} /\ total = [s \in Sides |-> [p \in Prices |-> 0]] /\ pc = "idle"
  BY DEF Init, BookInit
<1>2. \A i \in Ids : order[i].filled = 0
  BY DEF Init, BookInit
<1>3. QED
  BY <1>1, <1>2, NoOrdersNoTotal DEF FInv, Backed, WholeOrNothing, Fresh

LEMMA FInvariance == Spec => [](IInv /\ FInv)
BY InitIInv, NextIInv, InitFInv, NextFInv, PTL DEF Spec

-------------------------------------------------------------------------------
(* What a caller can rely on as long as nobody changes the size of an      *)
(* order: what rests has something left to trade, the report names no more *)
(* than was asked for, and an order reported filled does not rest.         *)

Trading == (\E o \in Orders : Submit(o)) \/ Matching

Reported ==
  /\ \A i \in resting : Remaining(order[i]) > 0
  /\ report.filled >= 0
  /\ pc = "publish" /\ report.status = "Filled" =>
       report.filled <= taker.quantity /\ restingOrders[TakerId] = 0

LEMMA InitReported == Init => Reported
BY DEF Init, BookInit, NoReport, Reported

LEMMA SubmitReported ==
  ASSUME IInv, Reported, NEW o \in Orders, Submit(o)
  PROVE  Reported'
<1>1. /\ report'.filled = 0 /\ UNCHANGED <<bookVars, restingOrders>>
  BY SubmitFacts
<1>2. pc' = "publish" => report'.status # "Filled"
  BY DEF Submit, SubmitInvalid, SubmitMarket, SubmitLimit, SubmitIOC, SubmitFOK, KillFOK, Execute, NoReport
<1>3. order' = order /\ resting' = resting
  BY <1>1 DEF bookVars
<1>4. QED
  BY <1>1, <1>2, <1>3 DEF Reported, Remaining

LEMMA FillReported == ASSUME IInv, Reported, FillFront PROVE Reported'
<1>1. PICK i \in resting :
        /\ LET q == Min({qty, Remaining(order[i])}) IN
             /\ FillOrder(i, q)
             /\ report' = [report EXCEPT !.filled = @ + q]
  BY DEF FillFront
<1> DEFINE q == Min({qty, Remaining(order[i])})
<1>2. i \in Ids /\ qty > 0 /\ pc' = "fill"
  BY Types DEF FillFront
<1>3. q \in {qty, Remaining(order[i])} /\ q \in Int /\ q <= Remaining(order[i])
  <2>1. qty \in Int /\ Remaining(order[i]) \in Int
    BY <1>2, Types, FieldsOfOrder
  <2>2. \E x \in {qty, Remaining(order[i])} : \A y \in {qty, Remaining(order[i])} : x <= y
    BY <2>1
  <2>3. q \in {qty, Remaining(order[i])}
    BY <2>2, Zenon DEF Min
  <2>4. QED
    BY <2>1, <2>3, MinOfTwo
<1>4. /\ order' = [order EXCEPT ![i].filled = @ + q]
      /\ resting' = IF Remaining(order[i]) = q THEN resting \ {i} ELSE resting
      /\ report' = [report EXCEPT !.filled = @ + q]
  BY <1>1 DEF FillOrder
<1> HIDE DEF q
<1>5. q > 0
  BY <1>2, <1>3 DEF Reported
<1>6. report'.filled >= 0
  BY <1>3, <1>4, <1>5, Types DEF Reported
<1>7. ASSUME NEW j \in resting' PROVE Remaining(order'[j]) > 0
  <2>1. j \in resting /\ j \in Ids
    BY <1>4, Types
  <2>2. CASE j = i
    <3>1. Remaining(order[i]) # q
      BY <1>4, <1>7, <2>2
    <3>2. order'[i].quantity = order[i].quantity /\ order'[i].filled = order[i].filled + q
      BY <1>2, <1>4, Types DEF BookOrder
    <3>3. QED
      BY <1>2, <1>3, <2>2, <3>1, <3>2, FieldsOfOrder DEF Remaining
  <2>3. CASE j # i
    BY <1>2, <1>4, <2>1, <2>3, Types DEF Reported
  <2>4. QED
    BY <2>2, <2>3
<1>8. QED
  BY <1>2, <1>6, <1>7 DEF Reported

(* The end of an execution reports an order filled only when it may be:    *)
(* what it has filled is never more than what it asked for.                *)
LEMMA EndReported == ASSUME IInv, Reported, EndExecute \/ LimitFilled PROVE Reported'
<1>1. /\ UNCHANGED <<order, resting, taker, nextClient, restingOrders>>
      /\ pc \in {"match", "fill"}
  BY DEF EndExecute, LimitFilled, bookVars
<1>2. report'.filled = report.filled
  BY Types DEF EndExecute, LimitFilled
<1>3. report.filled <= taker.quantity /\ restingOrders[TakerId] = 0
  <2>1. Unfilled >= 0 /\ restingOrders[TakerId] = 0
    BY <1>1, Types DEF IInv, Accounting, Ownership
  <2>2. QED
    BY <2>1, Types DEF Unfilled
<1>4. QED
  BY <1>1, <1>2, <1>3 DEF Reported, Remaining, TakerId

LEMMA RestReported == ASSUME IInv, Reported, RestRemainder PROVE Reported'
<1>1. /\ order' = [order EXCEPT ![nextId] =
           [side |-> taker.side, price |-> taker.price, quantity |-> Unfilled, filled |-> 0]]
      /\ resting' = resting \cup {nextId} /\ Unfilled > 0
      /\ nextId \in Ids
  <2>1. nextId < nextClient
    BY DEF RestRemainder, IInv, Numbering
  <2>2. nextId \in Ids
    BY <2>1, Types DEF Ids
  <2>3. QED
    BY <2>2 DEF RestRemainder, AddOrder, Remainder
<1>2. report'.filled = report.filled /\ report'.status # "Filled"
  BY Types DEF RestRemainder
<1>3. ASSUME NEW j \in resting' PROVE Remaining(order'[j]) > 0
  <2>1. CASE j = nextId
    BY <1>1, <2>1, Types DEF Remaining
  <2>2. CASE j # nextId
    BY <1>1, <2>2, Types DEF Reported
  <2>3. QED
    BY <2>1, <2>2
<1>4. QED
  BY <1>2, <1>3 DEF Reported

LEMMA NextReported == IInv /\ Reported /\ [Trading]_vars => Reported'
<1> SUFFICES ASSUME IInv, Reported, [Trading]_vars PROVE Reported'
  OBVIOUS
<1>1. CASE \E o \in Orders : Submit(o)
  BY <1>1, SubmitReported
<1>2. CASE FillFront \/ EndExecute \/ RestRemainder \/ LimitFilled
  BY <1>2, FillReported, EndReported, RestReported
<1>3. CASE NextLevel
  BY <1>3 DEF NextLevel, bookVars, Reported, Remaining
<1>4. CASE PublishExecution
  BY <1>4 DEF PublishExecution, NoReport, bookVars, Reported, Remaining
<1>5. CASE UNCHANGED vars
  BY <1>5 DEF vars, callVars, bookVars, Reported, Remaining, TakerId
<1>6. QED
  BY <1>1, <1>2, <1>3, <1>4, <1>5 DEF Trading, Matching

(* In the middle of a call the order and its number stay, and nothing      *)
(* comes to rest but, in the end, that order.                              *)
LEMMA MatchKeepsCall ==
  ASSUME IInv, NextLevel \/ FillFront \/ EndExecute \/ RestRemainder \/ LimitFilled
  PROVE  /\ pc # "idle" /\ pc' # "idle" /\ taker' = taker /\ nextClient' = nextClient
         /\ \A c \in Ids : restingOrders'[c] \in resting' => restingOrders[c] \in resting \/ c = TakerId
<1>1. /\ pc # "idle" /\ pc' # "idle" /\ taker' = taker /\ nextClient' = nextClient
  BY DEF NextLevel, FillFront, EndExecute, RestRemainder, LimitFilled
<1>2. CASE NextLevel \/ FillFront \/ EndExecute \/ LimitFilled
  <2>1. restingOrders' = restingOrders /\ resting' \subseteq resting
    BY <1>2 DEF NextLevel, FillFront, FillOrder, EndExecute, LimitFilled, bookVars
  <2>2. QED
    BY <1>1, <2>1
<1>3. CASE RestRemainder
  <2>1. /\ restingOrders' = [restingOrders EXCEPT ![TakerId] = nextId]
        /\ resting' = resting \cup {nextId}
    BY <1>3 DEF RestRemainder, AddOrder
  <2>2. ASSUME NEW c \in Ids, restingOrders'[c] \in resting', c # TakerId
        PROVE  restingOrders[c] \in resting
    <3>1. restingOrders'[c] = restingOrders[c]
      BY <2>1, <2>2, Types
    <3>2. restingOrders[c] < nextId /\ restingOrders[c] \in Int
      BY Types DEF IInv, Ownership, Ids
    <3>3. QED
      BY <2>1, <2>2, <3>1, <3>2, Types
  <2>3. QED
    BY <1>1, <2>2
<1>4. QED
  BY <1>2, <1>3

-------------------------------------------------------------------------------

(* Every variable keeps its type, and the two counters stay in bounds: an  *)
(* order of the book never gets an id beyond the number of submissions.    *)
THEOREM TypeCorrect == Spec => []TypeOK
<1>1. IInv => TypeOK
  BY DEF IInv
<1>2. QED
  BY <1>1, Invariance, PTL

(* Whatever orders arrive, through cancels, changes of size and partial    *)
(* fills and not only at rest: the book is never crossed or locked, at     *)
(* each price the oldest order trades first, every resting order can be    *)
(* found, and the ids the index keeps without an order in the book belong  *)
(* to orders with nothing left to trade.                                   *)
THEOREM BookStaysInOrder == Spec => []BookInOrder
<1>1. IInv => BookInOrder
  BY DEF IInv, BookInOrder
<1>2. QED
  BY <1>1, Invariance, PTL

(* Whatever orders arrive and whatever sizes they are changed to: what     *)
(* rests of an order can trade exactly what its client has left, and no    *)
(* trade, as taker or as maker, takes from a client's order more than it   *)
(* had left.                                                               *)
THEOREM NeverOverfilled == Spec => NoOverfill
<1> DEFINE Covered == pc # "idle" => \A c \in Ids : left'[c] < left[c] => left'[c] >= 0
<1>1. IInv => \A c \in Ids : restingOrders[c] \in resting => Remaining(order[restingOrders[c]]) = left[c]
  BY DEF IInv, LeftExact
<1>2. IInv /\ [Next]_vars => [Covered]_vars
  <2> SUFFICES ASSUME IInv, Next, pc # "idle", NEW c \in Ids, left'[c] < left[c]
               PROVE  left'[c] >= 0
    OBVIOUS
  <2>1. Matching
    BY SubmitFacts DEF Next, Cancel, Modify, Clear
  <2>2. left' # left
    BY Types
  <2>3. CASE FillFront
    <3>1. PICK i \in resting :
            LET q == Min({qty, Remaining(order[i])}) IN
              left' = [d \in Ids |-> IF d = TakerId \/ restingOrders[d] = i THEN left[d] - q ELSE left[d]]
      BY <2>3 DEF FillFront
    <3> DEFINE q == Min({qty, Remaining(order[i])})
    <3>2. q \in Int /\ q <= qty /\ q <= Remaining(order[i]) /\ i \in Ids /\ Remaining(order[i]) \in Int
      BY Types, FieldsOfOrder, MinOfTwo
    <3>3. left' = [d \in Ids |-> IF d = TakerId \/ restingOrders[d] = i THEN left[d] - q ELSE left[d]]
      BY <3>1
    <3> HIDE DEF q
    <3>4. CASE c = TakerId
      <4>1. left[c] = Unfilled /\ qty <= Unfilled
        BY <2>3, <3>4 DEF FillFront, IInv, Accounting
      <4>2. left'[c] = left[c] - q
        BY <3>3, <3>4
      <4>3. QED
        BY <3>2, <4>1, <4>2, Types
    <3>5. CASE restingOrders[c] = i
      <4>1. left[c] = Remaining(order[i])
        BY <3>5 DEF IInv, LeftExact
      <4>2. left'[c] = left[c] - q
        BY <3>3, <3>5
      <4>3. QED
        BY <3>2, <4>1, <4>2
    <3>6. CASE c # TakerId /\ restingOrders[c] # i
      BY <3>3, <3>6, Types
    <3>7. QED
      BY <3>4, <3>5, <3>6
  <2>4. CASE PublishExecution
    <3>1. left'[c] = 0 \/ left'[c] = left[c]
      BY <2>4, Types DEF PublishExecution
    <3>2. QED
      BY <3>1, Types
  <2>5. QED
    BY <2>1, <2>2, <2>3, <2>4 DEF Matching, NextLevel, EndExecute, RestRemainder, LimitFilled
<1>3. QED
  BY <1>1, <1>2, Invariance, PTL DEF Spec, NoOverfill

(* The total a level caches is always the sum of what its orders have left *)
(* to trade, for every book and every sequence of fills, cancellations and *)
(* changes of size; so a fill-or-kill order that is let in is filled whole *)
(* when its execution ends, and one that is not leaves no fill behind.     *)
THEOREM FillOrKillIsWhole == Spec => []FokAllOrNothing
<1>1. FInv => FokAllOrNothing
  BY DEF FInv, WholeOrNothing, FokAllOrNothing
<1>2. QED
  BY <1>1, FInvariance, PTL

(* execute_market_order() is given a quantity and no limit, yet an order   *)
(* with a limit never trades with a maker whose price it does not accept:  *)
(* the quantity asked for never exceeds what the best level has left.      *)
THEOREM LimitsAreKept == Spec => TradesWithinLimit
<1> DEFINE Within == \A i \in Ids :
             order'[i].filled > order[i].filled /\ taker.type # "Market"
             => Acceptable(taker, order[i].price)
<1>1. IInv /\ FInv /\ [Next]_vars => [Within]_vars
  <2> SUFFICES ASSUME IInv, FInv, Next PROVE Within
    OBVIOUS
  <2>1. SUFFICES ASSUME NEW i \in Ids, order'[i].filled > order[i].filled, taker.type # "Market"
                 PROVE  Acceptable(taker, order[i].price)
    OBVIOUS
  <2>2. order[i].filled \in Int /\ ~(order[i].filled > order[i].filled)
    BY FieldsOfOrder
  <2>3. CASE FillFront
    <3>1. PICK k \in resting, q \in Int :
            /\ IsFront(Opposite(taker.side), k)
            /\ order' = [order EXCEPT ![k].filled = @ + q]
            /\ pc = "fill" /\ qty > 0
      BY <2>3, FillFacts
    <3>2. i = k
      BY <2>1, <2>2, <3>1, Types
    <3>3. PICK p \in Prices :
            /\ Acceptable(taker, p) /\ qty <= total[Opposite(taker.side)][p]
            /\ \A j \in SideOf(Opposite(taker.side)) : ~Better(Opposite(taker.side), order[j].price, p)
      BY <2>1, <3>1 DEF FInv, Backed, LevelBacks
    <3>4. order[i].price = p
      BY <3>1, <3>2, <3>3, BackedFront DEF FInv
    <3>5. QED
      BY <3>3, <3>4
  <2>4. CASE RestRemainder
    <3>1. pc = "match" /\ order' = [order EXCEPT ![nextId] =
           [side |-> taker.side, price |-> taker.price, quantity |-> Unfilled, filled |-> 0]]
      BY <2>4 DEF RestRemainder, AddOrder, Remainder
    <3>2. CASE i = nextId
      <4>1. order'[i].filled = 0
        BY <3>1, <3>2, Types
      <4>2. order[i].filled = 0
        BY <3>2, Types DEF FInv, Fresh
      <4>3. QED
        BY <2>1, <2>2, <4>1, <4>2
    <3>3. CASE i # nextId
      BY <2>1, <2>2, <3>1, <3>3, Types
    <3>4. QED
      BY <3>2, <3>3
  <2>5. CASE \E c \in Ids, n \in Sizes : Modify(c, n)
    <3>1. PICK c \in Ids, n \in Sizes : order' = [order EXCEPT ![restingOrders[c]].quantity = n]
      BY <2>5 DEF Modify, ModifyKnown
    <3>2. order'[i].filled = order[i].filled
      BY <3>1, Types DEF BookOrder
    <3>3. QED
      BY <2>1, <2>2, <3>2
  <2>6. CASE \/ \E o \in Orders : Submit(o)
             \/ NextLevel \/ EndExecute \/ LimitFilled \/ PublishExecution
             \/ \E c \in Ids : Cancel(c)
             \/ Clear
    <3>1. order' = order
      BY <2>6, SubmitFacts DEF NextLevel, EndExecute, LimitFilled, PublishExecution, bookVars,
           Cancel, CancelKnown, Clear, ClearBook
    <3>2. QED
      BY <2>1, <2>2, <3>1
  <2>7. QED
    BY <2>3, <2>4, <2>5, <2>6 DEF Next, Matching
<1>2. QED
  BY <1>1, FInvariance, PTL DEF Spec, TradesWithinLimit
===============================================================================
