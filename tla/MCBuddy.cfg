SPECIFICATION Spec
CONSTANTS
    CPUs = {c1, c2}
    BSP = c1
    GLOBAL = GLOBAL
    MAX_ORDER = 2
    POOLS = {3, 6}
    CACHE_SIZE = 2
    UNIT = 4
    HEADER = 1
    SIZES = {3, 4, 8, 15, 16}
    OBJ_SIZES <- MCObjSizes
    SLAB_HEADER = 2
CONSTRAINT Bound
INVARIANTS
    Partition
    CountsMatch
    Coalesced
    RequestFits
    SlabSound
PROPERTIES
    FailsOnlyWhenFull
