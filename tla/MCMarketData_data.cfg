SPECIFICATION PartSpec
CONSTANTS
  Securities = {1, 2, 3}
  Categories <- Kinds
  LastDate = 6
  Lifetimes <- Lives
  Resources <- Csvs
  Symbols = {"a", "b"}
  LastDay = 7
  Worlds <- SomeWorlds
  RunStart = 2
  RunEnd = 5
  Lookback = 3
  ModelWindow = 3
  Horizon = 2
  Funds = {"f"}
  Entities <- Holders
  FinalDay = 6
  TradingDays = {1, 2, 3, 5, 6}
  Unit = 4
  Files <- SomeFiles
  Tables <- SomeTables
  LiveWindow = 3
  FirstLoaded = 2
  LastLoaded = 6
  IndexDays = 2
  Replaceable = FALSE
INVARIANTS
  NoLookAhead
  SlicesInv
  RulesInv
  FundsInv
CHECK_DEADLOCK FALSE
