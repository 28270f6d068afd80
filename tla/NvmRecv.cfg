SPECIFICATION SpecW
CONSTANTS
    MAX_PROCESSES = 2
    STACK_SIZE = 2
    MAX_MESSAGES = 2
    TIME_SLICE_MS = 1
    SLICE_LEN = 1
    Bytes = {0}
PROPERTY ReceiveReturnsMessage
