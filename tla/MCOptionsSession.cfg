\* A door that answers truthfully and a process that lives: two days of three
\* slots; two hand-offs of one rule, over three days.
CONSTANTS
  Scales = {"session", "hand-off"}
  n1 = n1
  n2 = n2
  Days = 2
  SlotsPerDay = 3
  FullSlots = 2
  Structures = {spread}
  NoStructure = NoStructure
  MaxExits = 2
  Spacing = 1
  MaxConcurrent = 2
  DailyCap = 3
  MaxErrors = 2
  MaxRestarts = 1
  Faults = {"gather", "readback", "partial"}
  Names = {n1}
  RegistryName = n1
  Precedes <- MCPrecedes
  RuleShapes <- MCRuleShapes
  Writers = {w1, w2}
  LastDay = 3
  MaxBookAge = 1
  NoBook = NoBook
SYMMETRY Symmetric
SPECIFICATION MCSpec
INVARIANTS ClosesNeverExceedOpens OneEntryPerSession
PROPERTIES BreachBlocksOpens HandOffsAreHonoured
CHECK_DEADLOCK FALSE
