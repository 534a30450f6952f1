SPECIFICATION FairSpec
CONSTANTS
  a = a  b = b  fa = fa  fb = fb  run = run
  Files = {fa, fb}
  Stem <- Named
  Ids = {a, b}
  Contents <- OnePerNode
  Builtins = {b}
  Callers = {run}
  Chosen <- OfProcess
  MaxEdits = 3
  NoFile = NoFile  NoEntry = NoEntry  Broken = Broken  Builtin = Builtin
  MaxStarts = 2
  MaxLives = 2
  MaxRuns = 2
  MaxCalls = 2
  Elsewhere = Elsewhere
INVARIANTS TypeOK SettledRegistryIsCurrent OneProcessPerNode CloseLeavesAtMostOne
  RemoteWorkIsInStep
PROPERTY RegistryCatchesUp
CHECK_DEADLOCK FALSE
