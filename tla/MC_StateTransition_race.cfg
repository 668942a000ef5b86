SPECIFICATION Spec
CONSTANTS
  None = None
  s1 = s1  s2 = s2  k1 = k1  k2 = k2  k3 = k3
  w1 = w1  l1 = l1  g1 = g1  p1 = p1
  Sessions = {s1, s2}
  Keys = {k1, k2, k3}
  Workers = {w1}
  LeaseIds = {l1}
  Stages = {g1}
  Steps = {p1}
  LeaseSeconds = 1
  MaxTime = 1
  Requests <- MCRequests
  LegacyLogs <- MCLegacyLogs
INVARIANTS VersionsConsumedOnce TrailExplainsStatus SuccessIsRecorded SequencesFollowCommits
PROPERTIES StepsCompletedUnderLease RefinesRunLog
