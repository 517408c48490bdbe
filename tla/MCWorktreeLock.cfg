CONSTANTS
    Proc = {"P", "Q"}
    Main = {"mainP", "mainQ"}
    Worker = {"workP"}
    ProcOf <- ThreadProcs
    Caller = {"a", "b", "c"}
    On <- CallerThreads
    Slot = {1}
    MaxGen = 2
    Stale = 1
    Multiplier = 2
    MaxHold = 1
    MaxLocks = 3
    MaxStarts = 3
    MaxBusy = 1
SPECIFICATION MCSpec
INVARIANTS
    HoldersApart
    RunningNotExited
PROPERTIES
    WaitedOrphanReclaimed
