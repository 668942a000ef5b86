\* Two workers that may crash, a start-up sweep or a cancellation, one command.
SPECIFICATION Spec
CONSTANTS
  Workers = {w1, w2}
  Execs = {e1}
  ClaimRetryThreshold = 2
  RetryBudget = 2
  RunStatus = "CREATED"
  MaxCrashes = 1
  MaxRequests = 1
  None = None
SYMMETRY Symmetry
INVARIANTS SpawnedOnce SuccessHasEvidence
PROPERTY MutationsNotRequeued
