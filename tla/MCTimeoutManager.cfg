SPECIFICATION FairSpec
CONSTANTS
    Events = {o1, o2, r1, r2}
    Repeating = {r1, r2}
    NoEvent = none
    Users = {u1, u2}
INVARIANTS LastCallOnce OneTimeNeverAgain DestroyedIsDone
PROPERTY EveryTimeoutFires
CHECK_DEADLOCK FALSE
