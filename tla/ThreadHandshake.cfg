SPECIFICATION FairSpec
CONSTANTS
    Kids = {k1, k2, k3}
    Objects = {a1, a2}
    Names = {n1, n2}
    Unknown = n1
    Client = client
    NoKid = noKid
    NoObject = noObject
INVARIANTS
    TypeOK
    RunHasItsObject
    IdKnown
    HandleOnce
    NamesAgree
    NoSignalLost
PROPERTIES
    SemaphoresCount
    ImplementsThreadLife
    ConstructorReturns
CHECK_DEADLOCK FALSE
