SPECIFICATION FairSpec
CONSTANTS
  a = a
  b = b
  c = c
  NoJob = NoJob
  Jobs <- ThreeJobs
  WorkItems <- AllOrOne
  MaxEdits = 2
  MaxSpawn = 1
  MaxCrashes = 1
  HandlerCrash = FALSE
INVARIANTS
  Acyclic
PROPERTIES
  CascadeExact
  LeasedWhenReady
  EventuallySettled
CHECK_DEADLOCK FALSE
