SPECIFICATION Spec
CONSTANTS
    CPU_COUNT = 2
    WQ_MAX_ITEMS = 3
    MAX_CALLS = 4
INVARIANTS TypeOK MutualExclusion LockIsHeld
PROPERTIES ImplementsFifo WorkIsRun
