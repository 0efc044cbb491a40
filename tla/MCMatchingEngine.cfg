\* Every sequence of four orders of two prices, with cancels and changes of size.
SPECIFICATION FairSpec
CONSTANTS
  Prices <- MCPrices
  Orders <- MCOrders
  Sizes = {1, 3}
  MaxOrders = 4
INVARIANTS BookInOrder FokAllOrNothing
PROPERTIES NoOverfill SubmitKeepsItsWord
\* Clients may stop submitting; the bound on their number stops them here.
CHECK_DEADLOCK FALSE
