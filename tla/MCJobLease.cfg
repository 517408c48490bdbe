CONSTANTS
  Jobs = {"j1"}
  WarmJobs = {}
  PlanJobs = {"j1"}
  Procs = {"p1", "p2"}
  Gates = {"g1"}
  NoJob = "none"
  NoProc = "nobody"
  LeaseDuration = 1
  Grace = 1
  MaxClock = 6
  MaxToken = 1
SPECIFICATION MCSpec
INVARIANTS
  LeaseWellFormed
  HolderUnique
  AnsweredParkIsOwned
PROPERTIES
  SweepNeverStealsLiveLease
  ImplementsLeaseService
  LiveDeadOwnerReclaimed
  LiveAnswerApplied
