SPECIFICATION MCSpec
CONSTANTS
  a = a
  b = b
  c = c
  procA = procA
  procB = procB
  ownerA = ownerA
  ownerB2 = ownerB2
  ownerB = ownerB
  NoOwner = NoOwner
  Calls <- AllCalls
  SyncCalls <- OnlyA
  Owners <- AllOwners
  Procs <- BothProcs
  OwnerOf <- SharedOwner
  PidOf <- PidOfOwner
  Duration = 3
  RenewEvery = 1
  MaxLate = 2
  RenewErrors = FALSE
  MaxClock = 12
  AnyLate = 12
  LateClock = 8
CHECK_DEADLOCK FALSE
INVARIANTS
  MergeExclusive
  LateSuccessNotOvertaken
