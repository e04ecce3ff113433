SPECIFICATION TasksSpec
CONSTANTS
    Procs = {p1, p2}
    NULL = NULL
    MAX_STEPS = 2
INVARIANT OwnStack
