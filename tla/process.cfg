SPECIFICATION MCSpec
CONSTANTS
    Procs = {p1, p2, p3, p4}
    NULL = NULL
    MAX_STEPS = 2
SYMMETRY PcbSymmetry
INVARIANT ListIsFifo
INVARIANT StateMatchesQueue
PROPERTY ImplementsReadyQueue
PROPERTY ShellYieldComesBack
