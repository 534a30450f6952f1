SPECIFICATION Spec
CONSTANTS
  Nil = Nil  Malformed = Malformed
  Family <- MemoryFamilies
  g1 = g1  g2 = g2  m = m  n = n
  Kinds = {"decide"}
  Callers = {g1, g2}
  Nodes = {m}
  Replies <- OneReply
  PlanningEnabled = TRUE
  MaxAttempts <- MemoryAttempts
  MaxProbes <- MemoryProbes
  FailureShare <- MemoryShare
  MaxAsked = 8
SYMMETRY CallerSymmetry
INVARIANTS TypeOK RequestsAreCountedOnce ProbesAreLimited
CHECK_DEADLOCK FALSE
