CONSTANTS
    Proc = {"p"}
    Dur = 2
    Grace = 1
    Renew = 3
    MaxTime = 9
    MaxBack = 4
    MaxForward = 2
SPECIFICATION ClockSpec
INVARIANTS
    RenewedNotExpired
    LeftBehindExpires
PROPERTIES
