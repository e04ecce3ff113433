SPECIFICATION Spec
CONSTANTS
    MAX_ROWS = 2
    MAX_COLS = 4
    BUFFER_SIZE = 7
    MAX_ARGS = 2
    Letters = {"r"}
    Upper <- MCUpper
    PROMPT <- MCPrompt
    Outputs <- MCOutputs
    BootText <- MCBootText
    MAX_KEYS = 11
    MAX_BOOT_KEYS = 2
CHECK_DEADLOCK FALSE
INVARIANT CursorRecovers
INVARIANT WritesNearScreen
INVARIANT Terminated
INVARIANT EchoMatchesBuffer
INVARIANT ArgvIsSplit
