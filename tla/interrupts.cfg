SPECIFICATION FairSpec
CONSTANTS
    KeyKinds = {"edit", "builtin", "run", "fat-write", "reboot"}
    MAX_QUEUE = 2
    MAX_NEST = 2
INVARIANT InServiceMatchesStack
INVARIANT OneCommand
INVARIANT LauncherFrame
PROPERTY TickServed
PROPERTY KeysServed
