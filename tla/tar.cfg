SPECIFICATION MCSpec
CONSTANTS
    Names = {"a", "b", "c"}
    Archives <- MCArchives
    BLOCK = 4
    NIBBLE = 2
    BASE = 3
    NAME_LEN = 2
    EXT_LEN = 1
CHECK_DEADLOCK FALSE
INVARIANT AnswersRight
INVARIANT NumbersRecovered
INVARIANT NamesDistinguished
