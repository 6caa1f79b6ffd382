SPECIFICATION Spec
CONSTANTS
  gold = gold
  stock = stock
  Orders <- TwoDays
  Symbols = {gold, stock}
  RuleOf <- Rules
  LastDay = 2
  MaxLots = 2
  Prices = {1, 2}
  Fee = 1
  OpeningCash = 3
  OpeningLots <- OneOfEach
CHECK_DEADLOCK FALSE
INVARIANTS
  LedgerInv
  LedgerIsTheTrades
  EveryTradeBookable
  NothingIsOversold
  SnapshotIsConsistent
