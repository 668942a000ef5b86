\* Two stages of a planned version 2 update; failing commands, a prompt, a worker that
\* crashes, a restart or a revision.
SPECIFICATION Spec
CONSTANTS
  NumStages = 2
  Codes = {"build_error"}
  Ops = {"source", "dependency"}
  Template = 2
  MaxTries = 1
  MaxApplied = 2
  RetryBudget = 2
  MaxFailures = 2
  MaxPrompts = 1
  MaxCrashes = 1
  MaxRequests = 1
INVARIANTS SealedWasValidated ApprovedStaysUntouched RepairAppliedOnce
           SealLeavesNothingOpen
CHECK_DEADLOCK FALSE
