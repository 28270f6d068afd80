SPECIFICATION Spec
CONSTANTS
    STACK_SIZE = 3
    HEAP_SIZE = 2
    HEAP_WORD = 2
    INT_MAX = 7
    BYTE_MAX = 1
    SP_MOD = 8
    HEADER = 1
    IMM = 1
    MAX_ARGC = 5
    Sizes = {5, 6}
    Alu <- MCAlu
INVARIANTS
    TypeOK
    StackSafe
    NoStaleRead
    CodeSafe
    HeapSafe
CONSTRAINT Bound
