\* Two packages and two extra steps at any point.
SPECIFICATION Spec
CONSTANTS
  Packages = {"p1", "p2"}
  MaxAttempts = 2
  MaxExtra = 2
INVARIANTS OneReviewPerPlan OldApprovalBehindStaleGate
PROPERTIES PlanFollowsApproval StartsOnReviewedPlan
CHECK_DEADLOCK FALSE
