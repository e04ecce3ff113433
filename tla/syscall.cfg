SPECIFICATION Spec
CONSTANTS
    WORD = 20
    PAGE = 4
    USER_LOW = 4
    USER_HIGH = 16
    CHUNK = 3
INVARIANT TouchesUserOnly
INVARIANT PrefixWritten
INVARIANT ShortOnlyAtBadByte
PROPERTY WriteEnds
