\* A bundle of a companion, an optional member and the blocking package; a restart and a
\* foreign change at any point.
SPECIFICATION Spec
CONSTANTS
  Members <- Bundle21
  Optional = {"types_jest"}
  Source = "installed"
  MaxRequests = 1
  MaxDrift = 1
INVARIANTS UpdateRunsDetached InstallRetriedOnce ClosedOnExactTree
PROPERTIES AcceptedAsClosed
CHECK_DEADLOCK FALSE
