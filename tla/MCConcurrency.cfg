SPECIFICATION MCSpec
CONSTANTS
  Tasks = {"w", "p1", "p2", "r", "r2"}
  Writers = {"w", "p1", "p2"}
  Priority <- ByPriority
  NoWait = {"r"}
  Objs = {"o1", "o2"}
  NoObj = "none"
  Waiters = {"waiter"}
  Policy = "read-priority"
  Aging = 2
CHECK_DEADLOCK FALSE
INVARIANTS
  WritersExclusive
PROPERTIES
  FifoEventuallyServed
  QueueImplementsSemaphore
  InstallOrphanReaped
