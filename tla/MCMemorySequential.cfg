SPECIFICATION Spec
CONSTANTS
  a = a  b = b  t1 = t1  t2 = t2  r1 = r1  r2 = r2
  Nodes = {a, b}
  BadPatches = {b}
  Runs = {r1, r2}
  Backend = "memory"
  Tasks = {t1}
  RuleSets <- SomeRuleSets
  Admission <- AThenB
  HotNodes = {}
  Keyworded = {t1}
  MaxSteps = 3
  MaxSameNodeVisits = 1
  MaxParallelNodes = 1
  PlanningEnabled = TRUE
  StoreFaults = FALSE
  ExclusiveRuns = TRUE
  MaxCrashes = 1
INVARIANTS
  TypeOK
  RowKeepsPace
  VerdictIsSummarised
PROPERTIES
  ImplementsDurableTask
SYMMETRY RunSymmetry
