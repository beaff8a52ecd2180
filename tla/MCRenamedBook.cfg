\* A rule that was renamed between two hand-offs.
CONSTANTS
  Scales = {"hand-off"}
  n1 = n1
  n2 = n2
  Days = 2
  SlotsPerDay = 3
  FullSlots = 2
  Structures = {spread}
  NoStructure = NoStructure
  MaxExits = 2
  Spacing = 1
  MaxConcurrent = 2
  DailyCap = 3
  MaxErrors = 2
  MaxRestarts = 1
  Faults = {"gather", "readback", "partial"}
  Names = {n1, n2}
  RegistryName = n1
  Precedes <- MCPrecedes
  RuleShapes <- MCRuleShapes
  Writers = {w1}
  LastDay = 3
  MaxBookAge = 1
  NoBook = NoBook
SPECIFICATION MCSpec
INVARIANTS LatestIsNewest
CHECK_DEADLOCK FALSE
