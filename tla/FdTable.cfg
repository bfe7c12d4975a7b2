SPECIFICATION Spec
CONSTANTS
    Callers = {c1, c2}
    Fds = {fd1, fd2}
    NoFd = noFd
INVARIANTS
    TypeOK
    OwnCtx
    HookedCallsNeverBlock
PROPERTIES
    Transparent
CHECK_DEADLOCK FALSE
