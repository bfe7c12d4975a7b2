CONSTANTS
    Pool = {p1}
    Root = root
    Fibers = {f1}
    NoFiber = noFiber
    NoThread = noThread
    AnyThread = anyThread
    MaxCalls = 3
    Kept = 2
SPECIFICATION FairSpec
PROPERTIES
    StartReturns
    StopReturns
    TasksAreRun
