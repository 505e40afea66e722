SPECIFICATION FigureSpec
CONSTANTS
  Orders <- MCOrders
  NoCape <- MCNoCape
INVARIANT ProfileIsOfTheLeft
CHECK_DEADLOCK FALSE
