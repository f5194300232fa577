SPECIFICATION Spec
CONSTANTS
    t1 = t1
    t2 = t2
    t3 = t3
    o1 = o1
    o2 = o2
    Threads = {t1, t2, t3}
    Ops = {o1, o2}
    Calls = {"run", "run_one"}
    MaxUserWork = 1
    NoThread = NoThread
    NoOp = NoOp
    TaskOp = TaskOp
SYMMETRY PoolSymmetry
CHECK_DEADLOCK FALSE
INVARIANTS
    StopWakesAll
    HandlerAttended
    TaskAttended
    WorkCounted
    QueuesSound
PROPERTIES
    PoolKeepsPromises
    WorkKeepsRunning
