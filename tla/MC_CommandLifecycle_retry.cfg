\* A worker that may crash, a command and its retry, under fairness.
SPECIFICATION FairSpec
CONSTANTS
  Workers = {w1}
  Execs = {e1, e2}
  ClaimRetryThreshold = 2
  RetryBudget = 2
  RunStatus = "CREATED"
  MaxCrashes = 1
  MaxRequests = 0
  None = None
PROPERTY EventuallySettled
