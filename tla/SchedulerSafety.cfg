CONSTANTS
    Pool = {p1, p2}
    Root = root
    Fibers = {f1, f2}
    NoFiber = noFiber
    NoThread = noThread
    AnyThread = anyThread
    MaxCalls = 2
SPECIFICATION Spec
SYMMETRY Symmetry
INVARIANTS
    TypeOK
    NoCircularWait
    CountersExact
    FiberExclusive
    ExactlyOnce
    DrainedAtExit
    StopLosesNothing
    AssertsHold
PROPERTIES
    NoOvertaking
    ImplementsTaskPool
