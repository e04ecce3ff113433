------------------------------ MODULE PhysMem ------------------------------
(***************************************************************************)
(* Physical memory of CIndy-OS (src/memory.c), with the boot sequence of   *)
(* kernel_main that sets it up.                                            *)
(*                                                                         *)
(* Two allocators share one physical memory: kmalloc / kmalloc_a bump      *)
(* free_mem_addr and never give anything back; pmm_alloc_block takes the   *)
(* first clear bit of mem_bitmap.  kmalloc_a marks the frames it hands out *)
(* in the bitmap, and never reads it.                                      *)
(*                                                                         *)
(* Addresses and sizes are bytes, a frame is 4096 bytes, mem_bitmap is the *)
(* set of the frames whose bit is 1.                                       *)
(***************************************************************************)
EXTENDS Integers, FiniteSets, Sequences

CONSTANTS
    WORD,           \* 2^32: unsigned int arithmetic is modulo WORD
    BITMAP_FRAMES,  \* bits of mem_bitmap (8192 words of 32 bits)
    KERNEL_END,     \* free_mem_addr at reset: the kernel image lies below it
    TABLE_BYTES,    \* what one page table maps (4 MiB)
    FALLBACK_BYTES, \* what init_paging maps without a memory map (512 MiB)
    MemoryMap,      \* the multiboot memory map, a sequence of entries
    HeapSizes       \* the sizes kmalloc_a is called with after boot

MemoryMapEntry == [base_low : Nat, base_high : Nat, length_low : Nat, type : Nat]

\* A region that init_pmm frees: usable RAM that starts below 4 GiB.
IsUsable(e) == e.type = 1 /\ e.base_high = 0

\* The map GRUB passes has page-aligned RAM regions inside what the bitmap
\* describes; init_pmm checks neither.
ASSUME PhysMemAssumption ==
    /\ WORD \in Nat \ {0} /\ BITMAP_FRAMES \in Nat /\ KERNEL_END \in Nat /\ FALLBACK_BYTES \in Nat
    /\ TABLE_BYTES \in Nat \ {0}
    /\ KERNEL_END % 4096 = 0 /\ KERNEL_END > 0
    /\ KERNEL_END + 4096 <= BITMAP_FRAMES * 4096
    /\ MemoryMap \in Seq(MemoryMapEntry)
    /\ \A i \in 1..Len(MemoryMap) : IsUsable(MemoryMap[i]) =>
          /\ MemoryMap[i].base_low % 4096 = 0
          /\ MemoryMap[i].base_low \div 4096 + MemoryMap[i].length_low \div 4096
                <= BITMAP_FRAMES
    /\ HeapSizes \subseteq Nat \ {0}

VARIABLES
    phase,            \* where kernel_main is
    mmap,             \* the loop variable of the two walks over the memory map
    mmap_flag,        \* bit 6 of mbd->flags: is there a memory map at all
    free_mem_addr, total_memory, allocated_memory, mem_bitmap, max_frames,
    heapFrames,       \* history: frames inside blocks kmalloc and kmalloc_a returned
    heapBytes,        \* history: the bytes of those blocks
    pmmHeld           \* history: frames returned by pmm_alloc_block, not yet freed

vars == <<phase, mmap, mmap_flag, free_mem_addr, total_memory, allocated_memory,
          mem_bitmap, max_frames, heapFrames, heapBytes, pmmHeld>>

Frames == 0..(BITMAP_FRAMES - 1)

Phases == {"init_memory", "init_memory_walk", "init_paging",
           "init_pmm", "init_pmm_walk", "init_pmm_mark", "ready"}

-----------------------------------------------------------------------------
(* The pieces of code the operations share.                                *)

\* The next 4 KiB boundary at or above a.
PageAlign(a) == IF a % 4096 # 0 THEN a - (a % 4096) + 4096 ELSE a

\* The frames that overlap [addr, addr + size): the loop of pmm_mark_used.
FramesOf(addr, size) ==
    IF size = 0 THEN {} ELSE addr \div 4096 .. (addr + size - 1) \div 4096

\* kmalloc rounds its size up to a multiple of 4.
Round4(size) == IF size % 4 # 0 THEN size + (4 - (size % 4)) ELSE size

\* 4 MiB page tables needed for the identity map, at most 1024 of them.
RequiredPdes(bytes) ==
    LET mapped == IF bytes = 0 THEN FALLBACK_BYTES ELSE bytes
        pdes   == ((mapped + TABLE_BYTES - 1) % WORD) \div TABLE_BYTES
    IN  IF pdes > 1024 THEN 1024 ELSE pdes

\* Mutant: one frame too many (<= for <).
RegionFrames_oneMore(e) ==
    e.base_low \div 4096 .. (e.base_low \div 4096 + e.length_low \div 4096)

\* The frames init_pmm clears for one entry of the memory map.
RegionFrames(e) ==
    e.base_low \div 4096 .. (e.base_low \div 4096 + e.length_low \div 4096 - 1)

\* (free_mem_addr + 4095) / 4096: frames the kernel and the heap have consumed.
KernelFrames(addr) == (addr + 4095) \div 4096

\* The heap stays below the last frame that has a bit: kmalloc_a has no such check,
\* the model stops there.
HasRoom(size) == PageAlign(free_mem_addr) + size <= BITMAP_FRAMES * 4096

FreeFrames == Frames \ mem_bitmap

\* The first clear bit of the bitmap, in the order the two loops scan it.
IsFirstFree(f) == f \in FreeFrames /\ \A g \in FreeFrames : f <= g

-----------------------------------------------------------------------------
(* Boot: init_memory, init_paging and init_pmm, in kernel_main's order.     *)

Init ==
    /\ phase = "init_memory" /\ mmap = 1 /\ mmap_flag \in BOOLEAN
    /\ free_mem_addr = KERNEL_END
    /\ total_memory = 0 /\ allocated_memory = 0
    /\ mem_bitmap = {} /\ max_frames = 0
    /\ heapFrames = {} /\ heapBytes = 0 /\ pmmHeld = {}

\* kmalloc(10), the only call of kmalloc, and the early return without a map.  The magic
\* number is right: a multiboot loader started the kernel.
init_memory ==
    /\ phase = "init_memory"
    /\ LET size == Round4(10) IN
       /\ free_mem_addr' = free_mem_addr + size
       /\ allocated_memory' = allocated_memory + size
       /\ heapFrames' = heapFrames \cup FramesOf(free_mem_addr, size)
       /\ heapBytes' = heapBytes + size
    /\ phase' = IF mmap_flag THEN "init_memory_walk" ELSE "init_paging"
    /\ UNCHANGED <<mmap, mmap_flag, total_memory, mem_bitmap, max_frames, pmmHeld>>

\* One turn of the loop that adds up the usable regions, or its end.
init_memory_walk ==
    /\ phase = "init_memory_walk"
    /\ IF mmap <= Len(MemoryMap)
       THEN /\ mmap' = mmap + 1
            /\ total_memory' = IF MemoryMap[mmap].type = 1
                               THEN (total_memory + MemoryMap[mmap].length_low) % WORD
                               ELSE total_memory
            /\ phase' = phase
       ELSE /\ mmap' = 1
            /\ phase' = "init_paging"
            /\ UNCHANGED total_memory
    /\ UNCHANGED <<mmap_flag, free_mem_addr, allocated_memory, mem_bitmap, max_frames,
                   heapFrames, heapBytes, pmmHeld>>

\* Mutant: kmalloc_a before pmm_mark_used was added to it.
BumpAligned_unmarked(size) ==
    LET ptr == PageAlign(free_mem_addr) IN
    /\ free_mem_addr' = ptr + size
    /\ allocated_memory' = allocated_memory + size
    /\ heapFrames' = heapFrames \cup FramesOf(ptr, size)
    /\ heapBytes' = heapBytes + size
    /\ UNCHANGED mem_bitmap

\* kmalloc_a for n pages in a row, or for one block: the bump, the accounting and
\* pmm_mark_used.
BumpAligned(size) ==
    LET ptr == PageAlign(free_mem_addr) IN
    /\ free_mem_addr' = ptr + size
    /\ allocated_memory' = allocated_memory + size
    /\ mem_bitmap' = mem_bitmap \cup FramesOf(ptr, size)
    /\ heapFrames' = heapFrames \cup FramesOf(ptr, size)
    /\ heapBytes' = heapBytes + size

\* The page directory and the identity-map tables, each from kmalloc_a(4096).  The
\* machine has room for them below the end of the bitmap (a bound of the model).
init_paging ==
    /\ phase = "init_paging"
    /\ HasRoom(4096 * (1 + RequiredPdes(total_memory)))
    /\ BumpAligned(4096 * (1 + RequiredPdes(total_memory)))
    /\ phase' = "init_pmm"
    /\ UNCHANGED <<mmap, mmap_flag, total_memory, max_frames, pmmHeld>>

\* Everything starts out used; without a map the walk is skipped.
init_pmm ==
    /\ phase = "init_pmm"
    /\ mem_bitmap' = Frames
    /\ phase' = IF mmap_flag THEN "init_pmm_walk" ELSE "init_pmm_mark"
    /\ UNCHANGED <<mmap, mmap_flag, free_mem_addr, total_memory, allocated_memory,
                   max_frames, heapFrames, heapBytes, pmmHeld>>

\* Mutant: max_frames is the end of the last region, not the highest one.
init_pmm_walk_lastEnd ==
    /\ phase = "init_pmm_walk"
    /\ IF mmap <= Len(MemoryMap)
       THEN LET e    == MemoryMap[mmap]
                last == e.base_low \div 4096 + e.length_low \div 4096
            IN  /\ mmap' = mmap + 1
                /\ mem_bitmap' = IF IsUsable(e) THEN mem_bitmap \ RegionFrames(e) ELSE mem_bitmap
                /\ max_frames' = IF IsUsable(e) THEN last ELSE max_frames
                /\ phase' = phase
       ELSE /\ phase' = "init_pmm_mark"
            /\ UNCHANGED <<mmap, mem_bitmap, max_frames>>
    /\ UNCHANGED <<mmap_flag, free_mem_addr, total_memory, allocated_memory,
                   heapFrames, heapBytes, pmmHeld>>

\* One turn of the loop that frees the usable regions, or its end.
init_pmm_walk ==
    /\ phase = "init_pmm_walk"
    /\ IF mmap <= Len(MemoryMap)
       THEN LET e    == MemoryMap[mmap]
                last == e.base_low \div 4096 + e.length_low \div 4096
            IN  /\ mmap' = mmap + 1
                /\ mem_bitmap' = IF IsUsable(e) THEN mem_bitmap \ RegionFrames(e) ELSE mem_bitmap
                /\ max_frames' = IF IsUsable(e) /\ last > max_frames THEN last ELSE max_frames
                /\ phase' = phase
       ELSE /\ phase' = "init_pmm_mark"
            /\ UNCHANGED <<mmap, mem_bitmap, max_frames>>
    /\ UNCHANGED <<mmap_flag, free_mem_addr, total_memory, allocated_memory,
                   heapFrames, heapBytes, pmmHeld>>

\* Frame 0 and all that lies below free_mem_addr are used again.
init_pmm_mark ==
    /\ phase = "init_pmm_mark"
    /\ mem_bitmap' = mem_bitmap \cup {0} \cup 0..(KernelFrames(free_mem_addr) - 1)
    /\ phase' = "ready"
    /\ UNCHANGED <<mmap, mmap_flag, free_mem_addr, total_memory, allocated_memory,
                   max_frames, heapFrames, heapBytes, pmmHeld>>

-----------------------------------------------------------------------------
(* The operations of a booted kernel.                                      *)

\* kmalloc_a never fails and never looks at the bitmap.
kmalloc_a(size) ==
    /\ phase = "ready"
    /\ HasRoom(size)
    /\ BumpAligned(size)
    /\ UNCHANGED <<phase, mmap, mmap_flag, total_memory, max_frames, pmmHeld>>

\* Mutant: the bit of the block is not set.
PmmTake_unmarked(f) ==
    /\ f < max_frames
    /\ allocated_memory' = allocated_memory + 4096
    /\ pmmHeld' = pmmHeld \cup {f}
    /\ UNCHANGED mem_bitmap

\* Take the first free frame f, unless it lies beyond the usable memory.
PmmTake(f) ==
    /\ f < max_frames
    /\ mem_bitmap' = mem_bitmap \cup {f}
    /\ allocated_memory' = allocated_memory + 4096
    /\ pmmHeld' = pmmHeld \cup {f}

pmm_alloc_block ==
    /\ phase = "ready"
    /\ \E f \in Frames : IsFirstFree(f) /\ PmmTake(f)
    /\ UNCHANGED <<phase, mmap, mmap_flag, free_mem_addr, total_memory, max_frames,
                   heapFrames, heapBytes>>

\* pmm_alloc_block returns 0: no bit is clear, or the first clear one is too high.
pmm_alloc_block_fails ==
    /\ phase = "ready"
    /\ \A f \in Frames : IsFirstFree(f) => f >= max_frames
    /\ UNCHANGED vars

\* Mutant: the accounting is not undone.
pmm_free_block_uncounted(f) ==
    /\ phase = "ready"
    /\ f \in pmmHeld
    /\ mem_bitmap' = mem_bitmap \ {f}
    /\ pmmHeld' = pmmHeld \ {f}
    /\ UNCHANGED <<phase, mmap, mmap_flag, free_mem_addr, total_memory, allocated_memory,
                   max_frames, heapFrames, heapBytes>>

\* No code calls pmm_free_block; a caller would pass a block that it holds.
pmm_free_block(f) ==
    /\ phase = "ready"
    /\ f \in pmmHeld
    /\ mem_bitmap' = mem_bitmap \ {f}
    /\ allocated_memory' = allocated_memory - 4096
    /\ pmmHeld' = pmmHeld \ {f}
    /\ UNCHANGED <<phase, mmap, mmap_flag, free_mem_addr, total_memory, max_frames,
                   heapFrames, heapBytes>>

-----------------------------------------------------------------------------

Boot ==
    \/ init_memory \/ init_memory_walk \/ init_paging
    \/ init_pmm \/ init_pmm_walk \/ init_pmm_mark

\* What the kernel does: boot, then the allocations of the shell's commands.
Next ==
    \/ Boot
    \/ \E size \in HeapSizes : kmalloc_a(size)
    \/ pmm_alloc_block
    \/ pmm_alloc_block_fails

\* The whole interface, pmm_free_block included.
ApiNext == Next \/ \E f \in Frames : pmm_free_block(f)

Spec == Init /\ [][Next]_vars
ApiSpec == Init /\ [][ApiNext]_vars

-----------------------------------------------------------------------------
(* Properties.                                                             *)

\* The types of the variables; blocks are handed out only by a booted kernel.
TypeOK ==
    /\ phase \in Phases
    /\ mmap \in 1..(Len(MemoryMap) + 1) /\ mmap_flag \in BOOLEAN
    /\ free_mem_addr \in Nat /\ total_memory \in Nat /\ allocated_memory \in Int
    /\ mem_bitmap \subseteq Frames /\ max_frames \in Nat
    /\ heapFrames \subseteq Frames /\ heapBytes \in Nat
    /\ pmmHeld \subseteq Frames

\* Frames all of whose bytes lie in one RAM region of the memory map.
UsableFrames ==
    {f \in Frames : \E i \in 1..Len(MemoryMap) :
        /\ MemoryMap[i].type = 1 /\ MemoryMap[i].base_high = 0
        /\ MemoryMap[i].base_low <= f * 4096
        /\ (f + 1) * 4096 <= MemoryMap[i].base_low + MemoryMap[i].length_low}

\* The frames of the kernel image, and everything below it.
ImageFrames == 0..(KERNEL_END \div 4096 - 1)

\* pmm_alloc_block never hands out frame 0 (its error value is address 0), a frame
\* of the kernel image, or a frame that the memory map does not call RAM.
PmmHandsOutRam ==
    pmmHeld \cap ({0} \cup ImageFrames) = {} /\ pmmHeld \subseteq UsableFrames

\* A block that pmm_alloc_block returned stays marked until it is given back, through
\* any sequence of kmalloc_a, pmm_alloc_block and pmm_free_block: it is never handed
\* out a second time by the PMM.
HeldStaysMarked == pmmHeld \subseteq mem_bitmap

\* allocated_memory, the "used" figure of meminfo, is the bytes of the heap blocks
\* plus a page for each PMM block held.  A frame the PMM handed out twice would be
\* counted twice.
AccountingExact == allocated_memory = heapBytes + 4096 * Cardinality(pmmHeld)

\* When pmm_alloc_block reports that memory is exhausted there is no free frame
\* left: a frame whose bit is clear lies below max_frames, so the early return at
\* the first clear bit hides no usable frame behind it.
NoFalseExhaustion == phase = "ready" => \A f \in FreeFrames : f < max_frames

\* Every frame of a heap block is marked in the bitmap of a booted kernel, those
\* handed out before init_pmm rebuilt the bitmap included.
HeapStaysMarked == phase = "ready" => heapFrames \subseteq mem_bitmap

\* pmm_alloc_block "never hands out a frame that kmalloc_a() already owns": the
\* direction that pmm_mark_used is there for (memory.c:72-75).  The comments at
\* keyboard.c:66-73, 86-89 and 356-360, that kmalloc_a does not register in the bitmap
\* and pmm_alloc_block may return its frames, are older than that call.
PmmAvoidsHeap == [][\A f \in pmmHeld' \ pmmHeld : f \notin heapFrames]_vars

\* The two allocators are "permanently in sync": no frame belongs to a heap block and
\* to a PMM block at once.
AllocatorsDisjoint == heapFrames \cap pmmHeld = {}
=============================================================================
