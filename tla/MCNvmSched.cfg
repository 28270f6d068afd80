SPECIFICATION Spec
CONSTANTS
    MAX_PROCESSES = 2
    STACK_SIZE = 2
    MAX_MESSAGES = 2
    TIME_SLICE_MS = 2
    SLICE_LEN = 2
    Bytes = {0, 1}
INVARIANTS TypeOK NoLostWakeup
PROPERTIES WakeupHasCause Isolation ImplementsMailbox RunnableRuns MailAttended
