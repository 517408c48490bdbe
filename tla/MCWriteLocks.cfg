SPECIFICATION MCSpec
CONSTANTS
    a = a  b = b  c = c  fa = fa  p = p  q = q
    Plan = plan
    Job <- AllJobs
    Path = {p, q}
    Parent <- ParentDef
    Scope <- ScopeApart
    After <- AfterC
    MaxAttempts = 1
    MaxAssess = 1
    MaxSweeps = 1
    MaxParks = 1
    MaxExpansions = 0
    Zombies = FALSE
INVARIANTS
    LocksDisjoint
    GuardProtects
PROPERTIES
    OrderedJobsSettle
