SPECIFICATION FairSpec
CONSTANTS
    t1 = t1
    t2 = t2
    o1 = o1
    o2 = o2
    Threads = {t1, t2}
    Ops = {o1, o2}
    Calls = {"run", "run_one", "poll", "poll_one"}
    MaxUserWork = 0
    NoThread = NoThread
    NoOp = NoOp
    TaskOp = TaskOp
PROPERTIES
    QueuedServed
    StopReturns
    RunReturns
