SPECIFICATION FairSpec
CONSTANTS
  Nil = Nil  Malformed = Malformed
  Family <- VendorFamilies
  g1 = g1  g2 = g2  m = m  n = n
  Kinds = {"decide", "text"}
  Callers = {g1}
  Nodes = {m, n}
  Replies <- SomeReplies
  PlanningEnabled = TRUE
  MaxAttempts <- VendorAttempts
  MaxProbes <- VendorProbes
  FailureShare <- VendorShare
  MaxAsked = 7
INVARIANTS DecisionIsUsable OffersAreHonoured FallbackIsLastResort
PROPERTY EveryRequestReturns
CHECK_DEADLOCK FALSE
