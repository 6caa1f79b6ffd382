CONSTANTS
  a = a
  b = b
  c = c
  Symbols <- MCSymbols
  Outputs <- MCOutputs
  Opens <- MCOpens
  Every = 1
  One = 36
  StoreStep = 4
  Prices = {1, 2}
  Assets = 6
  LastDay = 3
  MaxCrashes = 1
  MaxRevisions = 1
  Etfs = {1, 2}
  GoldEtfs = {2}
  Sessions <- Days
  Targets <- Weights
  WeightUnit = 10
  Lot = 2
  OffsetTicks = 1
  StaleSeconds = 3
  CommissionRate = 30
  RateUnit = 1000
  MinimumCommission = 2
  MaxOrder = 90
  MaxDaily = 100
  MinOrder = 20
  MaxWeight = 10
  Accounts <- Configured
  FillSizes = {3}
  MaxDays = 2
SPECIFICATION PartSpec
CHECK_DEADLOCK FALSE
INVARIANTS
  StoreInv
  PlansInv
  NoLotForgotten
PROPERTIES
  StoredIsKept
  PlansArePaidFor
