\* Two workers, a fault of any kind, a restart and two recovery requests.
SPECIFICATION Spec
CONSTANTS
  Word <- MCWord
  Workspaces <- MCWorkspaces
  Contexts <- MCContexts
  Candidates <- MCCandidates
  Workers = {w1, w2}
  Operators = {o1, o2}
  MaxAttempts = 3
  MaxGenerations = 1
  Rejections = {"message"}
  MaxPostRetries = 1
  MaxFaults = 1
  MaxRestarts = 1
INVARIANTS RetryCalledOnce AnswersAreCompleted OneOpenAttempt AppliedAsProposed ApplyIsAllOrNothing
PROPERTIES NoBlindRepeat
SYMMETRY Symmetry
CHECK_DEADLOCK FALSE
