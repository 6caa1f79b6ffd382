SPECIFICATION PartSpec
CONSTANTS
  run1 = run1
  run2 = run2
  a = a
  b = b
  nan = nan
  Processes = {run1, run2}
  RunIds = {"i", "j"}
  MaxEdits = 1
  MaxFaults = 3
  Securities = {1, 2, 3}
  T0 = {3}
  Lot = 100
  Cash0 = 1000000
  WeightUnit = 100
  RateUnit = 1000
  CommissionRate = 3
  MinimumCommission = 1000
  SlippageRate = 5
  ParticipationRate = 200
  LimitRatio = 100
  Every = 1
  Listing <- SomeListing
  Frames <- SomeFrames
  Targets <- Rebalances
  LastFrame = 4
  Symbols = {a, b}
  Lives <- Listed
  Splits <- SomeSplits
  ModelSources <- SomeSources
  Backends = {"torch", "xgboost"}
  Losses = {1, 2, 4}
  NaN = nan
  MinDelta = 1
  Patience = 2
  MaxEpochs = 4
  Padding = 1
  LastDay = 7
  MaxRuns = 1
  MaxStarts = 1
  MaxChanges = 1
  Etfs = {a, b}
  Anchor = a
  Ratio <- SomeRatios
  Markets <- SomeMarkets
  Whole = 10
  SmallMax = 3
  BigMax = 8
  Base = 1
  BuyCap = 3
  SellCap = 2
  BigConfirm = 2
  BigDays = 2
  SmallDays = 2
  DeclineDays = 2
  Prices = {1, 2}
  Cash = 10
  MaxDays = 4
INVARIANTS
  RunInv
  TrainingInv
  AllocationInv
  HuijinInv
  FillsInv
  SizesFollowTheTarget
PROPERTIES
  TradingNeverPays
CHECK_DEADLOCK FALSE
