SPECIFICATION FairSpec
CONSTANTS
    r = r
    w = w
    MaxCalls = 1
    MaxPeer = 1
PROPERTIES
    TimedCallWakes
