SPECIFICATION LiveSpec
CONSTANTS
    p1 = p1
    p2 = p2
    f1 = f1
    f2 = f2
    Files = {f1, f2}
    States <- TwoStates
    Ops = {o1, i1}
    Waits = {}
    Internal = {i1}
    Kinds = {0}
    EventMax = 1
    MayFork = TRUE
    MayHang = FALSE
    MaxReady = 1
    MayFail = FALSE
    None = None
CHECK_DEADLOCK FALSE
INVARIANTS
    EdgeNotLost
PROPERTIES
    ReadyServed
