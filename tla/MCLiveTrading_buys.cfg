SPECIFICATION Spec
CONSTANTS
  s1 = s1
  b1 = b1
  b2 = b2
  Intents = {b1, b2}
  SideOf <- TwoBuysSide
  Qty <- TwoBuysQty
  MaxCrashes = 1
  MaxFaults = 1
CONSTRAINT OneTrouble
CHECK_DEADLOCK FALSE
INVARIANTS
  SendInv
PROPERTIES
  BuysNeedCashUntilRestart
