SPECIFICATION MCSpec
CONSTANTS
  p1 = p1
  p2 = p2
  Procs <- TwoProcs
  NoProc = NoProc
  Renew = 3
  Duration = 6
  Liveness = 5
  ErrorMax = 5
  Retry = 1
  VerifyWait = 4
  ExpiryBuffer = 1
  MaxTries = 3
  MaxLate = 1
  RenewalErrors = FALSE
  MaxClock = 16
  BusyClock = 11
SYMMETRY ProcSymmetry
CHECK_DEADLOCK FALSE
INVARIANTS
  NoDuplicateExecution
  BusyRowOutlivesRenewal
PROPERTIES
  LiveHolderKeepsLock
