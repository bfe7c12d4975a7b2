SPECIFICATION Spec
CONSTANTS
    r = r
    w = w
    MaxCalls = 1
    MaxPeer = 1
INVARIANTS
    ConnectedIfOk
