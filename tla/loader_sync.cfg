SPECIFICATION LoaderSpec
CONSTANTS
    WORD = 1073741824
    BITMAP_FRAMES = 16
    TABLE_BYTES = 4194304
    FALLBACK_BYTES = 8388608
    KERNEL_END = 8192
    MemoryMap <- MCMemoryMap
    HeapSizes <- MCHeapSizes
    ELF_PAGES = 2
    ELF_PDE = 1
    PCB_BYTES = 260
INVARIANT AllocatorsDisjoint
