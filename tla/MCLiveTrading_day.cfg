SPECIFICATION FairSpec
CONSTANTS
  s1 = s1
  b1 = b1
  b2 = b2
  Intents = {s1, b1}
  SideOf <- SellBuySide
  Qty <- SellBuyQty
  MaxCrashes = 1
  MaxFaults = 1
CHECK_DEADLOCK FALSE
INVARIANTS
  TypeOK
  SubmittedAtMostOnce
  OutcomeIsConfirmed
  SellsCloseBeforeBuys
  SavedOrderIsTruthful
  EodIsComplete
  SuccessIsResolved
PROPERTIES
  KeepsPromise
  SubmissionsAreSettled
  OpenOrdersAreDealtWith
