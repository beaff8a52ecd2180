\* The roots, the three backtests, the two walks forward, the proposals and the verdicts.
CONSTANTS
  NoBar = NoBar
  NoTable = NoTable
  NoNumber = NoNumber
  Symbols <- LabSymbols
  SymbolRank <- LabRank
  ShareFunds = 40
  Slip = 1
  Fee = 1
  TriggerBars <- LabTriggerBars
  TriggerSteps = 4
  Borrow = 1
  StopDistance = 3
  Reward = 3
  MaxHolding = 2
  MaxPositions = 1
  Volumes = {0, 2}
  TradeRisk = 3
  SizeShare = 2
  LossShare = 4
  RankedBars <- LabRankedBars
  RankedSteps = 3
  Hold = 1
  RebalanceEvery = 1
  Core = 4
  Sleeve = 1
  HasTable = TRUE
  Procs = {q1, q2}
  LastDay = 2
  Embargo = 2
  MayDie = TRUE
  Rules <- LabRules
  Chains <- LabChains
  Closes <- LabCloses
  Steps = 6
  Calendars <- LabCalendars
  Boundary = 7
  Funds = 30
  EntryFee = 1
  ItmFee = 1
  Staleness = 1
  RiskShare = 3
  MaxConcurrent = 2
  Cadence = 2
  Sessions <- LabSessions
  OptionAnswers <- OptionReplies
  EquityAnswers <- EquityReplies
  OptionLibrary <- OptionTemplates
  EquityLibrary <- EquityTemplates
  Frames <- LabFrames
  Universe = 2
  RepairAttempts = 2
  MaxIssued = 3
  Traded <- FoldSymbols
  Histories <- FoldHistories
  Tables <- FoldTables
  TrainBars = 2
  TestBars = 4
  Embargoes = {0, 1}
  Warmup = 2
  RankWarmup = 1
SYMMETRY Symmetric
SPECIFICATION MCSpec
INVARIANTS BacktestsAreHonest RiskIsDefined FoldsAreHonest ProposalsAreSound VerdictsAreEarned RootsAreKept
CHECK_DEADLOCK FALSE
