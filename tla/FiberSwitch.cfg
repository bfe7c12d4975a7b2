SPECIFICATION Spec
CONSTANTS
    Pool = {t1, t2}
    Root = root
    Fibers = {f1, f2}
    m_schedulerFiber = sf
    None = none
INVARIANTS
    TypeOK
    NothingBreaks
    RunningFiberIsOn
PROPERTIES
    SwitchesLand
CHECK_DEADLOCK FALSE
