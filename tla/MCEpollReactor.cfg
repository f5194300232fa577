SPECIFICATION Spec
CONSTANTS
    p1 = p1
    p2 = p2
    f1 = f1
    f2 = f2
    Files = {f1, f2}
    States <- TwoStates
    Ops = {o1, w1}
    Waits = {w1}
    Internal = {}
    Kinds = {0, 2}
    EventMax = 1
    MayFork = FALSE
    MayHang = TRUE
    MaxReady = 1
    MayFail = TRUE
    None = None
SYMMETRY FileSymmetry
CHECK_DEADLOCK FALSE
INVARIANTS
    StatesSound
    EdgeNotLost
PROPERTIES
    NoOvertaking
