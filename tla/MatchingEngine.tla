---------------------------- MODULE MatchingEngine -----------------------------
(***************************************************************************)
(* trading/matching_engine.hpp: the simulated exchange of the shadow       *)
(* trader, over one L3OrderBook.                                           *)
(*                                                                         *)
(* submit_order() is synchronous, but it publishes each trade and the      *)
(* report on the event bus while it runs, so it is modelled step by step:  *)
(* a round of process_limit_order is NextLevel, a maker that trades inside *)
(* execute_market_order is FillFront, the end of that call and             *)
(* process_fills are EndExecute.  pc says where the call is:               *)
(*   idle      no call in progress                                         *)
(*   match     in the loop of process_limit_order                          *)
(*   fill      inside execute_market_order                                 *)
(*   publish   the report is complete                                      *)
(*                                                                         *)
(* Clients number their orders 1, 2, 3...; the book numbers those that     *)
(* rest in it, on its own.                                                 *)
(***************************************************************************)
EXTENDS L3OrderBook

CONSTANTS
  Orders,       \* the orders clients may submit
  Sizes         \* the quantities a resting order may be changed to

OrderTypes == {"Market", "Limit", "IOC", "FOK", "StopLoss"}

ASSUME OrdersAssumption ==
  /\ Orders # {}
  /\ Orders \subseteq [side : Sides, type : OrderTypes, price : Prices, quantity : Int]
ASSUME SizesAssumption == Sizes \subseteq Int

VARIABLES
  pc,
  nextClient,     \* the id the next order submitted will carry
  taker,          \* the order being processed
  report,         \* its execution report: what it has filled, and its status
  qty,            \* execute_market_order: what is left of the quantity asked for
  fills,          \* execute_market_order: ids of the makers that traded
  restingOrders,  \* resting_orders_: client id to book id, 0 if absent
  left            \* history: what each client order may still trade

callVars == <<pc, taker, report, qty, fills>>
vars == <<bookVars, callVars, nextClient, restingOrders, left>>

NoReport == [filled |-> 0, status |-> "none"]
Statuses == {"none", "New", "PartiallyFilled", "Filled", "Cancelled", "Rejected"}

TypeOK ==
  /\ BookTypeOK
  /\ pc \in {"idle", "match", "fill", "publish"}
  /\ nextClient \in 1..(MaxOrders + 1)
  /\ taker \in Orders
  /\ report \in [filled : Int, status : Statuses]
  /\ qty \in Int
  /\ fills \subseteq Ids
  /\ restingOrders \in [Ids -> Ids \cup {0}]
  /\ left \in [Ids -> Int]

Init ==
  /\ BookInit
  /\ pc = "idle"
  /\ nextClient = 1
  /\ taker = CHOOSE o \in Orders : TRUE
  /\ report = NoReport
  /\ qty = 0 /\ fills = {}
  /\ restingOrders = [c \in Ids |-> 0]
  /\ left = [c \in Ids |-> 0]

\* The id of the order being processed.
TakerId == nextClient - 1

-------------------------------------------------------------------------------
(* submit_order(), up to the first access to the book's orders.            *)

\* Mutant: a locked price does not match.
Acceptable_Strict(o, price) == IF o.side = "buy" THEN price < o.price ELSE price > o.price
\* The maker's price is one the order accepts.
Acceptable(o, price) == IF o.side = "buy" THEN price <= o.price ELSE price >= o.price

Crosses(o) == \E i \in SideOf(Opposite(o.side)) : Acceptable(o, order[i].price)

\* available_liquidity(), as the set of its one value: the best level only.
AvailableLiquidity(o) == IF Crosses(o) THEN BestTotals(Opposite(o.side)) ELSE {0}

Invalid(o) ==
  \/ o.quantity <= 0
  \/ o.type = "Limit" /\ o.price <= 0
  \/ o.type = "StopLoss"

Arrive(o) ==
  /\ pc = "idle" /\ nextClient <= MaxOrders
  /\ taker' = o
  /\ nextClient' = nextClient + 1
  /\ left' = [left EXCEPT ![nextClient] = IF Invalid(o) THEN 0 ELSE o.quantity]
  /\ fills' = {}
  /\ UNCHANGED <<bookVars, restingOrders>>

Execute(quantity) == pc' = "fill" /\ qty' = quantity /\ report' = NoReport

SubmitInvalid(o) ==
  /\ Invalid(o)
  /\ Arrive(o)
  /\ report' = [NoReport EXCEPT !.status = "Rejected"]
  /\ pc' = "publish"
  /\ UNCHANGED qty

SubmitMarket(o) ==
  /\ ~Invalid(o) /\ o.type = "Market"
  /\ Arrive(o)
  /\ Execute(o.quantity)

SubmitLimit(o) ==
  /\ ~Invalid(o) /\ o.type = "Limit"
  /\ Arrive(o)
  /\ pc' = "match" /\ report' = NoReport
  /\ UNCHANGED qty

\* Mutant: the order sweeps the book whatever the prices are.
SubmitIOC_Whole(o) ==
  /\ ~Invalid(o) /\ o.type = "IOC"
  /\ Arrive(o)
  /\ Execute(o.quantity)
SubmitIOC(o) ==
  /\ ~Invalid(o) /\ o.type = "IOC"
  /\ Arrive(o)
  /\ \E n \in AvailableLiquidity(o) : Execute(Min({o.quantity, n}))

\* Mutant: some liquidity is enough.
CanFillOrKill_Some(o) == \E n \in AvailableLiquidity(o) : n > 0
CanFillOrKill(o) == \E n \in AvailableLiquidity(o) : n >= o.quantity

SubmitFOK(o) ==
  /\ ~Invalid(o) /\ o.type = "FOK"
  /\ CanFillOrKill(o)
  /\ Arrive(o)
  /\ Execute(o.quantity)

KillFOK(o) ==
  /\ ~Invalid(o) /\ o.type = "FOK"
  /\ ~CanFillOrKill(o)
  /\ Arrive(o)
  /\ report' = [NoReport EXCEPT !.status = "Rejected"]
  /\ pc' = "publish"
  /\ UNCHANGED qty

Submit(o) ==
  SubmitInvalid(o) \/ SubmitMarket(o) \/ SubmitLimit(o) \/ SubmitIOC(o) \/ SubmitFOK(o) \/ KillFOK(o)

-------------------------------------------------------------------------------
(* Matching.                                                               *)

Unfilled == taker.quantity - report.filled

\* A round of process_limit_order: execute against the best level, at most its total.
NextLevel ==
  /\ pc = "match" /\ Unfilled > 0
  /\ Crosses(taker)
  /\ \E n \in BestTotals(Opposite(taker.side)) : qty' = Min({Unfilled, n})
  /\ fills' = {}
  /\ pc' = "fill"
  /\ UNCHANGED <<bookVars, taker, report, nextClient, restingOrders, left>>

\* The order at the front of the opposite side trades, at most what it has left.
FillFront ==
  /\ pc = "fill" /\ qty > 0
  /\ \E i \in resting :
       /\ IsFront(Opposite(taker.side), i)
       /\ LET q == Min({qty, Remaining(order[i])}) IN
            /\ FillOrder(i, q)
            /\ qty' = qty - q
            /\ report' = [report EXCEPT !.filled = @ + q]
            /\ left' = [c \in Ids |-> IF c = TakerId \/ restingOrders[c] = i
                                        THEN left[c] - q ELSE left[c]]
       /\ fills' = fills \cup {i}
  /\ UNCHANGED <<pc, taker, nextClient, restingOrders>>

\* process_market_order, process_ioc_order and process_fok_order, the last lines.
FinalStatus ==
  IF taker.type = "FOK" \/ Unfilled <= 0 THEN "Filled"
  ELSE IF report.filled > 0 THEN "PartiallyFilled"
  ELSE IF taker.type = "Market" THEN "Rejected" ELSE "Cancelled"

EndExecute ==
  /\ pc = "fill"
  /\ qty <= 0 \/ SideOf(Opposite(taker.side)) = {}
  /\ CleanUpIndex(fills)
  /\ fills' = {} /\ qty' = 0
  /\ IF taker.type = "Limit"
       THEN pc' = "match" /\ UNCHANGED report
       ELSE pc' = "publish" /\ report' = [report EXCEPT !.status = FinalStatus]
  /\ UNCHANGED <<order, resting, total, nextId, taker, nextClient, restingOrders, left>>

\* Mutant: what rests is the whole quantity.
Remainder_Whole == taker.quantity
Remainder == Unfilled

RestRemainder ==
  /\ pc = "match" /\ Unfilled > 0
  /\ ~Crosses(taker)
  /\ AddOrder(taker.side, taker.price, Remainder)
  /\ restingOrders' = [restingOrders EXCEPT ![TakerId] = nextId]
  /\ report' = [report EXCEPT !.status = IF report.filled > 0 THEN "PartiallyFilled" ELSE "New"]
  /\ pc' = "publish"
  /\ UNCHANGED <<taker, qty, fills, nextClient, left>>

LimitFilled ==
  /\ pc = "match" /\ Unfilled <= 0
  /\ report' = [report EXCEPT !.status = "Filled"]
  /\ pc' = "publish"
  /\ UNCHANGED <<bookVars, taker, qty, fills, nextClient, restingOrders, left>>

\* publish_execution(), and the end of submit_order().  An order that does not
\* rest is done: what it did not fill will not be filled.
PublishExecution ==
  /\ pc = "publish"
  /\ left' = [left EXCEPT ![TakerId] = IF restingOrders[TakerId] = 0 THEN 0 ELSE @]
  /\ taker' = CHOOSE o \in Orders : TRUE
  /\ report' = NoReport
  /\ pc' = "idle"
  /\ UNCHANGED <<bookVars, qty, fills, nextClient, restingOrders>>

-------------------------------------------------------------------------------
(* The other operations, between two orders.                               *)

\* cancel_order(c) for an order the caller submitted: its own id goes to the
\* book.  The report says Cancelled; an id the book does not know is Rejected,
\* which changes nothing.
Cancel(c) ==
  /\ pc = "idle" /\ c < nextClient
  /\ c \in index
  /\ CancelKnown(c)
  /\ UNCHANGED <<callVars, nextClient, restingOrders, left>>

\* modify_order(id, quantity), called on the book, with any quantity, also one the
\* order has traded already or more than that.
Modify(c, quantity) ==
  /\ pc = "idle"
  /\ restingOrders[c] \in resting
  /\ ModifyKnown(restingOrders[c], quantity)
  /\ left' = [left EXCEPT ![c] = @ + quantity - order[restingOrders[c]].quantity]
  /\ UNCHANGED <<callVars, nextClient, restingOrders>>

Clear ==
  /\ pc = "idle"
  /\ resting # {}
  /\ ClearBook
  /\ UNCHANGED <<callVars, nextClient, restingOrders, left>>

-------------------------------------------------------------------------------

Matching == NextLevel \/ FillFront \/ EndExecute \/ RestRemainder \/ LimitFilled \/ PublishExecution

Next ==
  \/ \E o \in Orders : Submit(o)
  \/ Matching
  \/ \E c \in Ids : Cancel(c)
  \/ \E c \in Ids, q \in Sizes : Modify(c, q)
  \/ Clear

Spec == Init /\ [][Next]_vars

\* submit_order() is a call: once begun it runs.
FairSpec == Spec /\ WF_vars(Matching)

-------------------------------------------------------------------------------

\* The book is in order, not only at rest but between two trades of one order: no bid
\* at or above an ask, at each price the oldest order first, every order found by its
\* id.
BookInOrder == Uncrossed /\ FrontFirst /\ IndexAccurate

\* No trade takes more of a client's order than was left of it, as taker and maker
\* together: only a change of size to less than what was traded leaves less than nothing.
\* What rests of an order can trade exactly what is left.
NoOverfill ==
  /\ [](\A c \in Ids : restingOrders[c] \in resting => Remaining(order[restingOrders[c]]) = left[c])
  /\ [][pc # "idle" => \A c \in Ids : left'[c] < left[c] => left'[c] >= 0]_vars

\* An order with a limit never trades with a maker whose price it does not accept,
\* although execute_market_order() is given a quantity and no limit.
TradesWithinLimit ==
  [][\A i \in Ids :
       order'[i].filled > order[i].filled /\ taker.type # "Market"
       => Acceptable(taker, order[i].price)]_vars

\* A limit order faces a level whose orders have nothing left to trade together.
NothingToTake ==
  /\ pc = "match" /\ Unfilled > 0
  /\ \E i \in SideOf(Opposite(taker.side)) :
       /\ IsFront(Opposite(taker.side), i) /\ Acceptable(taker, order[i].price)
       /\ SumFunctionOnSet(LeftToTrade, Level(order[i].side, order[i].price)) <= 0

\* An order trades within its limit; and a call to submit_order() returns, unless
\* changes of size have left the level that a limit order faces with nothing to trade.
SubmitKeepsItsWord == TradesWithinLimit /\ (pc # "idle" ~> pc = "idle" \/ NothingToTake)

\* The levels' cached totals, which decide whether a fill-or-kill order trades, are
\* exact, and such an order is filled whole or not at all, as its report says.
FokAllOrNothing ==
  /\ CachedTotals
  /\ pc = "publish" /\ taker.type = "FOK" =>
       report.filled = (IF report.status = "Filled" THEN taker.quantity ELSE 0)

\* matching_engine.hpp:76-77, "Submit a new order", "@return Execution report": every call
\* to submit_order() returns.
SubmitReturns == pc # "idle" ~> pc = "idle"

\* matching_engine.hpp:126-128, "Cancel an existing order": a cancellation takes the
\* caller's own order off the book, and no other.
CancelTakesOwnOrder ==
  [][\A c \in Ids : Cancel(c) => \A i \in index \ index' : restingOrders[c] = i]_vars
===============================================================================
