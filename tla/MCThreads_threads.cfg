SPECIFICATION PartSpec
CONSTANTS
  Sessions = {1, 2}
  MaxEvents = 2
  MaxOrders = 2
  Kinds = {"FINE", "RAISES"}
  Interrupts = TRUE
  Orders = {1, 2}
  OldOrders = {1}
  Trades = {1, 2}
  Amount <- Amounts
  Breaching = {2}
  MaxEngine = 2
  MaxReports = 3
INVARIANTS
  SessionInv
  LocksInv
PROPERTIES
  ThreadsServe
CHECK_DEADLOCK FALSE
