------------------------------ MODULE L3OrderBook ------------------------------
(***************************************************************************)
(* trading/order_book.hpp, classes PriceLevelOrders and L3OrderBook: the   *)
(* resting orders of one symbol, the totals each price level caches, and   *)
(* the index from order id to side and price.                              *)
(*                                                                         *)
(* The definitions below are what one call does to the book; the module    *)
(* that owns the book (MatchingEngine) conjoins them with its own state.   *)
(*                                                                         *)
(* Ids are handed out in order of arrival, add_order() appends at the back *)
(* of a level and nothing reorders a level, so the queue of a level is the *)
(* set of its ids in increasing order.  An order's side and price never    *)
(* change, so the index is the set of ids it holds.                        *)
(***************************************************************************)
EXTENDS Integers, FiniteSetsExt

CONSTANTS
  Prices,       \* the prices orders may carry
  MaxOrders     \* bound on the number of orders ever added to the book

ASSUME PricesAssumption == Prices \subseteq Int /\ Prices # {}
ASSUME MaxOrdersAssumption == MaxOrders \in Nat

VARIABLES
  order,        \* the orders ever added, by id
  resting,      \* the ids that are in a price level
  index,        \* the ids that are keys of orders_
  total,        \* total_qty_ of each side and price; 0 if there is no level
  nextId        \* next_order_id_

bookVars == <<order, resting, index, total, nextId>>

Ids == 1..MaxOrders
Sides == {"buy", "sell"}
Opposite(side) == IF side = "buy" THEN "sell" ELSE "buy"

BookOrder == [side : Sides, price : Prices, quantity : Int, filled : Int]

BookTypeOK ==
  /\ order \in [Ids -> BookOrder]
  /\ resting \subseteq Ids /\ index \subseteq Ids
  /\ total \in [Sides -> [Prices -> Int]]
  /\ nextId \in 1..(MaxOrders + 1)

\* Orders not added yet have an arbitrary value that nothing reads.
BookInit ==
  /\ order = [i \in Ids |->
       [side |-> "buy", price |-> CHOOSE p \in Prices : TRUE, quantity |-> 0, filled |-> 0]]
  /\ resting = {} /\ index = {}
  /\ total = [s \in Sides |-> [p \in Prices |-> 0]]
  /\ nextId = 1

-------------------------------------------------------------------------------

Remaining(o) == o.quantity - o.filled
LeftToTrade == [i \in Ids |-> Remaining(order[i])]
SideOf(side) == {i \in resting : order[i].side = side}
Level(side, price) == {i \in SideOf(side) : order[i].price = price}

\* A price that a maker's side quotes ahead of another: a higher bid, a lower ask.
Better(side, p, q) == IF side = "buy" THEN p > q ELSE p < q

\* Mutant: the youngest order of a level trades first.
IsFront_Youngest(side, i) ==
  /\ i \in SideOf(side)
  /\ \A j \in SideOf(side) :
       /\ ~Better(side, order[j].price, order[i].price)
       /\ order[j].price = order[i].price => i >= j
\* Order i has the best price of its side and is the oldest at that price.
IsFront(side, i) ==
  /\ i \in SideOf(side)
  /\ \A j \in SideOf(side) :
       /\ ~Better(side, order[j].price, order[i].price)
       /\ order[j].price = order[i].price => i <= j

\* The quantity best_bid() or best_ask() reports: one value, none for an empty side.
BestTotals(side) == {total[side][order[i].price] : i \in {j \in resting : IsFront(side, j)}}

TotalAfter(side, price, leaving, q) ==
  [total EXCEPT ![side][price] = IF Level(side, price) \subseteq leaving THEN 0 ELSE @ - q]

-------------------------------------------------------------------------------

AddOrder(side, price, quantity) ==
  /\ order' = [order EXCEPT ![nextId] =
       [side |-> side, price |-> price, quantity |-> quantity, filled |-> 0]]
  /\ resting' = resting \cup {nextId}
  /\ index' = index \cup {nextId}
  /\ total' = [total EXCEPT ![side][price] = @ + quantity]
  /\ nextId' = nextId + 1

\* cancel_order(id), when the index has id.  The level may be gone already.
CancelKnown(id) ==
  /\ resting' = resting \ {id}
  /\ total' = IF id \in resting
                THEN TotalAfter(order[id].side, order[id].price, {id}, Remaining(order[id]))
                ELSE total
  /\ index' = index \ {id}
  /\ UNCHANGED <<order, nextId>>

\* Mutant: the level's total forgets what the order had already traded.
ModifyKnown_WholeQuantity(id, quantity) ==
  /\ order' = [order EXCEPT ![id].quantity = quantity]
  /\ total' = [total EXCEPT ![order[id].side][order[id].price] = @ - order[id].quantity + Remaining(order'[id])]
  /\ UNCHANGED <<resting, index, nextId>>

\* modify_order(id, quantity), when a level has the order; it keeps its place.
ModifyKnown(id, quantity) ==
  /\ order' = [order EXCEPT ![id].quantity = quantity]
  /\ total' = [total EXCEPT ![order[id].side][order[id].price] =
                 @ - Remaining(order[id]) + Remaining(order'[id])]
  /\ UNCHANGED <<resting, index, nextId>>

\* One turn of the loop of PriceLevelOrders::fill: order id trades quantity q.
FillOrder(id, q) ==
  /\ order' = [order EXCEPT ![id].filled = @ + q]
  /\ resting' = IF Remaining(order[id]) = q THEN resting \ {id} ELSE resting
  /\ total' = TotalAfter(order[id].side, order[id].price,
                IF Remaining(order[id]) = q THEN {id} ELSE {}, q)
  /\ UNCHANGED <<index, nextId>>

\* Mutant: every order the call touched leaves the index, filled or not.
CleanUpIndex_Touched(fills) == index' = index \ fills

\* The end of execute_market_order(): of the orders the call touched, those that
\* left their level leave the index too, but only where the level is still there.
CleanUpIndex(fills) ==
  index' = index \ {i \in fills : i \notin resting /\ Level(order[i].side, order[i].price) # {}}

\* clear(): the ids handed out so far are not handed out again.
ClearBook ==
  /\ resting' = {} /\ index' = {}
  /\ total' = [s \in Sides |-> [p \in Prices |-> 0]]
  /\ UNCHANGED <<order, nextId>>

-------------------------------------------------------------------------------

\* The total cached for a level, which best_bid(), best_ask() and through them
\* every matching decision read, is what the level's orders have left to trade.
CachedTotals ==
  \A side \in Sides, price \in Prices :
    total[side][price] = SumFunctionOnSet(LeftToTrade, Level(side, price))

\* Every resting order can be found by its id, and an id found although its
\* order rests no more is that of an order with nothing left to trade.
IndexAccurate ==
  /\ resting \subseteq index
  /\ \A i \in index \ resting : Remaining(order[i]) = 0

\* Time priority: an order that has traded has nobody ahead of it at its price.
FrontFirst ==
  \A i, j \in resting :
    /\ order[i].side = order[j].side
    /\ order[i].price = order[j].price
    /\ order[i].filled > 0
    => i <= j

\* Price priority: a book at rest is never crossed or locked.
Uncrossed ==
  \A i \in SideOf("buy"), j \in SideOf("sell") : order[i].price < order[j].price
===============================================================================
