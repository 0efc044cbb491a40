\* A cancellation must take the caller's own order off the book.
SPECIFICATION Spec
CONSTANTS
  Prices <- MCPrices
  Orders <- MCOrders
  Sizes = {1, 2, 3}
  MaxOrders = 3
PROPERTIES CancelTakesOwnOrder
CHECK_DEADLOCK FALSE
