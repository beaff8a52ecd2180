\* A dry once with a position to exit.
CONSTANTS
  Days = 1
  SlotsPerDay = 3
  FullSlots = 3
  Structures = {spread}
  NoStructure = NoStructure
  MaxExits = 2
  Spacing = 1
  MaxConcurrent = 2
  DailyCap = 3
  MaxErrors = 2
  MaxRestarts = 1
  MaxOnce = 1
  Faults = {}
SPECIFICATION OnceSpec
PROPERTY DryOnceSendsNothing
CHECK_DEADLOCK FALSE
