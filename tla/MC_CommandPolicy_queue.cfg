\* The first plan is of an earlier release, a revised one of this.  Users send the key the
\* transformer uses for its update; the run may move once beside the stage.
SPECIFICATION Spec
CONSTANTS
  UserKeys = {"update"}
  FirstTemplates = {2}
  Budget = 2
  MaxVersions = 4
  MaxExecutions = 4
INVARIANTS
  QueuedAsApproved
  OneExecutionPerDecision
  SuccessorsBounded
CHECK_DEADLOCK FALSE
