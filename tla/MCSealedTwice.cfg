\* Two processes with the commands of MCResearchLoop.cfg.
CONSTANTS
  EquityRules = {e1, e2}
  OptionRules = {o1, o2}
  NoRule = na
  Runs = {r1, r2}
  NoRun = norun
  Campaigns = {c1}
  NoCampaign = nocampaign
  Procs = {p1, p2}
  SearchBudget = 2
  PromoteTo = {"REJECTED"}
  p1 = p1
  p2 = p2
  Does <- MCDoes
  MaxRows = 2
  MaxDecided = 2
SYMMETRY Symmetric
SPECIFICATION Spec
PROPERTY SealIsSpentOnce
CHECK_DEADLOCK FALSE
