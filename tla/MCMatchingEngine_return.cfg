\* A submission must return.
SPECIFICATION FairSpec
CONSTANTS
  Prices <- MCPrices
  Orders <- MCOrders
  Sizes = {1}
  MaxOrders = 4
PROPERTIES SubmitReturns
CHECK_DEADLOCK FALSE
