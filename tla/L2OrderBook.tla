------------------------------ MODULE L2OrderBook ------------------------------
(***************************************************************************)
(* trading/order_book.hpp, L2OrderBook: what a level-2 book holds and what *)
(* can be read off it.  A side of the book is a function from the prices   *)
(* of its levels to their quantities; a value the code returns in a        *)
(* std::optional is the set of at most one value.                          *)
(***************************************************************************)
EXTENDS Integers, FiniteSets, FiniteSetsExt, Functions

NoLevels == <<>>

\* update_level(): a quantity of 0 erases the level.
UpdateLevel(levels, price, quantity) ==
  IF quantity = 0 THEN [p \in DOMAIN levels \ {price} |-> levels[p]]
                  ELSE [p \in DOMAIN levels \cup {price} |-> IF p = price THEN quantity ELSE levels[p]]

BestBid(bids) == IF bids = NoLevels THEN {} ELSE {Max(DOMAIN bids)}
BestAsk(asks) == IF asks = NoLevels THEN {} ELSE {Min(DOMAIN asks)}

\* The levels a taker of this side would meet at the limit or better.
Within(side, levels, limit) ==
  {p \in DOMAIN levels : IF side = "buy" THEN p <= limit ELSE p >= limit}

\* depth_to_price(), against the levels of the other side.
DepthToPrice(side, levels, limit) ==
  SumFunctionOnSet(levels, Within(side, levels, limit))

\* Mutant: each level fills what it can of the whole quantity.
Fill_Whole(side, levels, price, target) == Min({levels[price], target})
\* What a walk through the book takes of a level: what the better ones left over.
Fill(side, levels, price, target) ==
  LET better == DepthToPrice(side, levels, price) - levels[price] IN
  Max({0, Min({levels[price], target - better})})

\* vwap(), as the value and the quantity whose quotient it is.
WalkValue(side, levels, target) ==
  SumFunction([p \in DOMAIN levels |-> p * Fill(side, levels, p, target)])
WalkQuantity(side, levels, target) ==
  SumFunction([p \in DOMAIN levels |-> Fill(side, levels, p, target)])

\* get_top_levels(): the prices of the best n levels, for a taker of this side.
TopLevels(side, levels, n) ==
  {p \in DOMAIN levels : Cardinality(Within(side, levels, p)) <= n}

\* imbalance(), as the difference and the sum whose quotient it is.
TopQuantity(side, levels, n) == SumFunctionOnSet(levels, TopLevels(side, levels, n))
===============================================================================
