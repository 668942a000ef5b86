\* One worker that may crash, fair scheduling, rows old and new; the bound on claims is
\* not met.
SPECIFICATION FairSpec
CONSTANTS
  Workers = {w1}
  FirstNode = "collect_known_decisions"
  LegacyRows = {FALSE, TRUE}
  MaxCancels = 1
  MaxRestarts = 0
  MaxDecisions = 1
  MaxCrashes = 1
  MaxExpiries = 0
  MaxClaims = 30
  None = None
PROPERTIES WokenAfterCommand WaiterReleased ComesToRest
