SPECIFICATION Spec
CONSTANTS
    c1 = c1
    c2 = c2
    u1 = u1
    u2 = u2
    u3 = u3
    Contexts = {c1, c2}
    Users = {u1, u2, u3}
    Home <- TwoContexts
    Nobody = Nobody
    MaxSignals = 2
CHECK_DEADLOCK FALSE
INVARIANTS
    ServicesSound
    ServiceAttended
