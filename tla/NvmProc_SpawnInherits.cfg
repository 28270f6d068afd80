SPECIFICATION Spec
CONSTANTS
    MAX_PROCESSES = 2
    Blocks = {b1, b2, b3, b4, b5, b6}
    NULL = NULL
    HEAP_SIZE = 1
    PROC_FILES = 2
    PROC_ENTRIES = 5
    MAX_ARGS = 1
PROPERTY SpawnInherits
