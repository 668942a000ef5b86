\* Two runs that compete for a directory; two threads, two jobs, two process ids and two
\* interferences at any point.
SPECIFICATION IntakeSpec
CONSTANTS
  Runs = {"run1", "run2"}
  Targets = {"out"}
  TargetOf <- OneTarget
  Main = "run1"
  Threads = {"t1", "t2"}
  Pids = {"p1", "p2"}
  Kinds = 1
  MaxAttempts = 2
  MaxInterference = 2
INVARIANTS MutatingRunOwnsTarget CompletedIntakeHasEvidence
PROPERTIES ValidationIsWorkedOn BaselineOnStandingApproval
CHECK_DEADLOCK FALSE
