\* The door: two decisions one after the other, two attempts each. The session,
\* every fault at once: two days of two slots, two spreads.
CONSTANTS
  Decisions = {d1, d2}
  MaxAttempts = 2
  Legs = 2
  NoOne = NoOne
  Days = 2
  SlotsPerDay = 2
  FullSlots = 1
  Structures = {spread, condor}
  NoStructure = NoStructure
  MaxExits = 2
  Spacing = 1
  MaxConcurrent = 2
  DailyCap = 3
  MaxErrors = 2
  MaxRestarts = 1
  Faults = {"gather", "lost", "readback", "partial", "unknown", "dies", "crash"}
SPECIFICATION MCSpec
INVARIANTS OneOrderPerDecision AnswersAreTrue JournalIsEvidence
PROPERTIES
  EveryCallConcludes KeepsPromise
  DecisionsAreFinal NoOpenWhileLatched KeepsLog SessionConcludes
CHECK_DEADLOCK FALSE
