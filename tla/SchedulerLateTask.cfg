CONSTANTS
    Pool = {p1}
    Root = root
    Fibers = {f1}
    NoFiber = noFiber
    NoThread = noThread
    AnyThread = anyThread
    MaxCalls = 2
SPECIFICATION Spec
INVARIANT NoneLeftBehind
