SPECIFICATION LiveSpec
CONSTANTS
  j1 = j1
  w1 = w1
  w2 = w2
  None = None
  Worker <- MCWorker
  Job <- MCJob
  MaxAttempts = 3
INVARIANTS VerifiedIsAccepted BudgetIsExact
PROPERTIES LeaseProtectsJob JobIsDecided
CHECK_DEADLOCK FALSE
