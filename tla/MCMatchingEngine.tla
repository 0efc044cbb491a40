--------------------------- MODULE MCMatchingEngine ----------------------------
EXTENDS MatchingEngine

MCPrices == 0..2

\* Limit orders of two prices and two sizes, the other valid types with the
\* larger size, which may find less than it asks for, and one of each invalid kind.
MCOrders ==
  [side : Sides, type : {"Limit"}, price : {1, 2}, quantity : {1, 2}]
    \cup [side : Sides, type : {"IOC", "FOK"}, price : {1, 2}, quantity : {2}]
    \cup [side : Sides, type : {"Market"}, price : {0}, quantity : {2}]
    \cup [side : {"buy"}, type : {"Limit"}, price : {0}, quantity : {1}]
    \cup [side : {"sell"}, type : {"StopLoss"}, price : {1}, quantity : {1}]
    \cup [side : {"sell"}, type : {"Market"}, price : {0}, quantity : {0}]
===============================================================================
