SPECIFICATION FairSpec
CONSTANTS
  a = a  b = b  t1 = t1  t2 = t2  r1 = r1  r2 = r2
  Nodes = {a}
  BadPatches = {}
  Runs = {r1, r2}
  Backend = "memory"
  Tasks = {t1}
  RuleSets <- SomeRuleSets
  Admission <- Unruled
  HotNodes = {a}
  Keyworded = {t1}
  MaxSteps = 2
  MaxSameNodeVisits = 1
  MaxParallelNodes = 1
  PlanningEnabled = TRUE
  StoreFaults = FALSE
  ExclusiveRuns = FALSE
  MaxCrashes = 0
INVARIANTS
  VersionCountsPatches
  VerdictExplainsDecisions
  GuardsBoundEveryRun
PROPERTY
  EveryRunReturns
