SPECIFICATION FairSpec
CONSTANTS
    r = r
    w = w
    MaxCalls = 2
    MaxPeer = 2
INVARIANTS
    TypeOK
    WokenOnce
    TimeoutIsOwn
    NoTimerLeft
    SleepsItsTime
    NoWakeupLost
PROPERTIES
    ImplementsBlockingCall
    ReadyCallReturns
    ArmedTimeoutWakes
    SleepReturns
