CONSTANTS
    WorkItem = {1, 2, 3}
    Job = {1, 2, 3, 4, 5, 6, 7}
    Wi <- ChainWi
    Parent <- ChainParent
    After <- ChainAfter
    Scope <- ChainScope
    Path = {"a", "b", "c"}
    Sequenced = {"c"}
    MergeAfter <- ThirdAfterFirst
    MaxRetries = 1
    MaxGates = 0
    MaxMergeFails = 1
    MaxCancels = 0
SPECIFICATION MCSpec
INVARIANTS
    EditsClaimed
PROPERTIES
    CrossingItemsSettle
