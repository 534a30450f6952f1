SPECIFICATION Spec
CONSTANTS
  MaxSteps = 5
  MaxSameNodeVisits = 3
  MaxResumes = 1
INVARIANTS TypeOK WorkFollowsItinerary CompletedWorkIsWhole BudgetSuffices ToolsRunOnce
