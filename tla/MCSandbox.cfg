SPECIFICATION FairSpec
CONSTANTS
  c1 = c1  c2 = c2  c3 = c3
  Calls = {c1, c2, c3}
  MaxParallel = 1
INVARIANTS TypeOK TokensAreHeld NoLostWakeup OutcomesAreTrue
PROPERTIES EveryCallReturns GoroutinesEnd ImplementsSlotPool
