SPECIFICATION ApiSpec
CONSTANTS
    WORD = 1073741824
    BITMAP_FRAMES = 17
    TABLE_BYTES = 4194304
    FALLBACK_BYTES = 8388608
    KERNEL_END = 8192
    MemoryMap <- MCMemoryMap
    HeapSizes <- MCHeapSizes
INVARIANT PmmHandsOutRam
INVARIANT HeldStaysMarked
INVARIANT AccountingExact
INVARIANT NoFalseExhaustion
