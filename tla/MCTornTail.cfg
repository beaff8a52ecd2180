\* The journal alone, three lines over two cycles.
CONSTANTS
  Parts = {"file"}
  x = x
  y = y
  Symbols = {x, y}
  Books <- MCBooks
  Usable <- MCBooks
  Want <- MCWant
  Price <- MCPrice
  Inherited <- MCInherited
  LastDay = 2
  Equity = 6
  BandPct = 20
  Floor = 1
  MaxPosition = 4
  MaxGross = 5
  MaxTurnover = 6
  MaxOrders = 3
  MaxBookAge = 1
  MaxPasses = 2
  MaxCrashes = 1
  Modes = {"live", "dry"}
  Faults = {"crash", "timeout", "unknown", "refused", "blind", "untradeable", "drawdown"}
  NoBook = NoBook
  p1 = p1
  p2 = p2
  p3 = p3
  CycleIds = {c1, c2}
  Facts = {factA, factB}
  NoFact = NoFact
  MaxLines = 3
  Contracts <- MCContracts
  Structures <- MCStructures
  MaxRecords = 3
  MaxQuantity = 2
  Positions = {p1}
  Slots = {1, 2}
  LastTick = 3
  OptionsStale = 2
  EquityStale = 1
  OptionsAllocation = 4
  EquityAllocation = 6
  MaxMoves = 2
  MaxDeaths = 1
  Nothing = Nothing
SPECIFICATION MCSpec
INVARIANT CrashLosesTheCurrentLine
CHECK_DEADLOCK FALSE
