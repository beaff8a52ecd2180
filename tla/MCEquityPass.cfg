\* The pass: two days, three books of two names, every fault. A journal of four
\* lines over two cycles; every journal of three records against every holding of
\* three contracts; two agents, a slot a tick told for two and a beat told for
\* one, two moves of the market and one death.
CONSTANTS
  Parts = {"pass", "file", "book", "page"}
  x = x
  y = y
  Symbols = {x, y}
  Books <- MCBooks
  Usable <- MCBooks
  Want <- MCWant
  Price <- MCPrice
  Inherited <- MCInherited
  LastDay = 2
  Equity = 6
  BandPct = 20
  Floor = 1
  MaxPosition = 4
  MaxGross = 5
  MaxTurnover = 6
  MaxOrders = 3
  MaxBookAge = 1
  MaxPasses = 2
  MaxCrashes = 1
  Modes = {"live", "dry"}
  Faults = {"crash", "timeout", "unknown", "refused", "blind", "untradeable", "drawdown"}
  NoBook = NoBook
  p1 = p1
  p2 = p2
  p3 = p3
  CycleIds = {c1, c2}
  Facts = {factA, factB}
  NoFact = NoFact
  MaxLines = 4
  Contracts <- MCContracts
  Structures <- MCStructures
  MaxRecords = 3
  MaxQuantity = 2
  Positions = {p1}
  Slots = {1, 2}
  LastTick = 3
  OptionsStale = 2
  EquityStale = 1
  OptionsAllocation = 4
  EquityAllocation = 6
  MaxMoves = 2
  MaxDeaths = 1
  Nothing = Nothing
SPECIFICATION MCSpec
INVARIANTS
  JournalIsBacked ShortsNeedTwoBooks PlansSettle
  BookMatchesBroker JournalSurvives
PROPERTIES
  PassesAreKept SessionNeverReplays BudgetHolds
  PagesAreTrue
CHECK_DEADLOCK FALSE
