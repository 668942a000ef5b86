\* Two workers, one of which may lose its lease while it works, and a restart;
\* the bound on claims stops the model, not the system.
SPECIFICATION Spec
CONSTANTS
  Workers = {w1, w2}
  FirstNode = "collect_known_decisions"
  LegacyRows = {FALSE}
  MaxCancels = 0
  MaxRestarts = 1
  MaxDecisions = 1
  MaxCrashes = 0
  MaxExpiries = 1
  MaxClaims = 5
  None = None
SYMMETRY WorkerSymmetry
INVARIANTS InstallAfterApproval UpdateAfterVerifiedInstall
CHECK_DEADLOCK FALSE
