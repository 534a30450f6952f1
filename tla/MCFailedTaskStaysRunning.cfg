SPECIFICATION Spec
CONSTANTS
  a = a  b = b  t1 = t1  t2 = t2  r1 = r1  r2 = r2
  Nodes = {a, b}
  BadPatches = {}
  Runs = {r1, r2}
  Backend = "memory"
  Tasks = {t1}
  RuleSets <- SomeRuleSets
  Admission <- AThenB
  HotNodes = {}
  Keyworded = {t1}
  MaxSteps = 2
  MaxSameNodeVisits = 1
  MaxParallelNodes = 1
  PlanningEnabled = FALSE
  StoreFaults = FALSE
  ExclusiveRuns = TRUE
  MaxCrashes = 0
INVARIANT NodeFailureFailsTask
