SPECIFICATION Spec
CONSTANTS
    Bpbs <- MCBpbs
    FAT_ENTRIES = 4
    DIR_ENTRIES = 2
    Names = {"A", "B"}
    Sizes = {0, 1, 4, 5}
    InitialDisks <- MCInitialDisks
    MAX_WRITES = 3
    MAX_CRASHES = 2
CHECK_DEADLOCK FALSE
INVARIANT ChainsSound
INVARIANT FilesIntact
INVARIANT MirrorLag
INVARIANT LeaksOnlyOnFailure
INVARIANT LayoutKept
PROPERTY ReadChangesOnlyByWrite
PROPERTY WriteTerminates
