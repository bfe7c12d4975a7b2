SPECIFICATION Spec
CONSTANTS
    Callers = {c1}
    Fds = {fd1}
    NoFd = noFd
INVARIANTS
    SystemDecides
CHECK_DEADLOCK FALSE
