\* The entries of MCDesk, with a limit that one realised loss passes.
CONSTANTS
  Parts = {"entry"}
  Evidence = {"cross", "slope", "structure"}
  Weight <- Weights
  Warmup <- Warmups
  Watch = 20
  Trend = 50
  Strong = 80
  ExitMargin = 5
  MinConfidence = 50
  Confirmation = 2
  Volatilities = {1, 2, 3}
  LastDay = 4
  YearDays = 2
  StaleAfter = 1
  MinHistory = 2
  MaxDeaths = 1
  NoRow = NoRow
  Bars <- Waves
  Steps = 7
  Left = 1
  Right = 1
  MinMove = 1
  AtrWarmup = 2
  Inclusive = FALSE
  ClosesRequired = 2
  UseWicks = FALSE
  VolumeMultiple = 0
  VolumePeriod = 2
  Days = 3
  SlotsPerDay = 3
  FullSlots = 2
  Quoted <- MCQuoted
  NoGreeks = NoGreeks
  Allocation = 10
  TradePct = 30
  HeatPct = 50
  UnderlyingPct = 40
  DrawdownPct = 20
  DeltaLow <- MCDeltaLow
  DeltaHigh = 1
  MaxStructures = 2
  MaxDaily = 2
  SpreadPct = 5
  ShortlistPct = 8
  MaxAge = 2
  DteLow = 3
  DteHigh = 9
  Spacing = 1
  MaxConcurrent = 3
  ProfitPct = 50
  StopPct = 200
  MinDte = 2
  Thinking = 0
  MaxRestarts = 1
SPECIFICATION MCSpec
CHECK_DEADLOCK FALSE
PROPERTIES KillSwitchCountsLosses
