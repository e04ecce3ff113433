SPECIFICATION Spec
CONSTANTS
    Sectors = {0, 1, 2}
    BadSectors = {2}
    HEAD_UNIT = 4
    WORDS = 2
    MAX_OPS = 4
CHECK_DEADLOCK FALSE
INVARIANT ReadsLastWrite
INVARIANT InStep
PROPERTY HangsOnlyOnError
