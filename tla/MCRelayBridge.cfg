CONSTANTS
    Id = {"c1", "c2"}
    Input = {"a", "b"}
    MaxFaults = 3
SPECIFICATION MCSpec
INVARIANTS
    AtMostOneEffect
    ReplayGetsOriginalAck
    OneConnection
PROPERTIES
    LossyCommandAnswered
