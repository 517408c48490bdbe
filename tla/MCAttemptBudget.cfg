\* Two attempts, two assessments, two faults and one operator retry; the
\* leases are enough for every fault and retry.
CONSTANTS
  MaxAttempts = 2
  AssessMax = 2
  MaxFaults = 2
  MaxGrants = 1
  MaxLeases = 9
SPECIFICATION FairSpec
INVARIANTS
  AssessmentFailuresCharged
  FailuresCharged
PROPERTIES
  EventuallySettled
