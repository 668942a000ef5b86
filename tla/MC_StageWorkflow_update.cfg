\* The update succeeds at the first attempt.
SPECIFICATION Spec
CONSTANTS
  NumStages = 1
  Codes = {"build_error"}
  Ops = {"source", "dependency"}
  Template = 3
  MaxTries = 1
  MaxApplied = 2
  RetryBudget = 2
  MaxFailures = 0
  MaxPrompts = 0
  MaxCrashes = 0
  MaxRequests = 0
INVARIANT SuccessfulUpdateGoesOn
CHECK_DEADLOCK FALSE
