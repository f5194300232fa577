SPECIFICATION FairSpec
CONSTANTS
    t1 = t1
    t2 = t2
    o1 = o1
    o2 = o2
    Threads = {t1, t2}
    Ops = {o1, o2}
    Calls = {"run", "poll"}
    MaxUserWork = 0
    NoThread = NoThread
    NoOp = NoOp
    TaskOp = TaskOp
PROPERTY EventServed
