---------------------------- MODULE LoaderProofs ----------------------------
(***************************************************************************)
(* Proofs about PhysMem and Loader for every memory map, bitmap size, heap *)
(* size and ELF image: what the two allocators hand out, that a sequence   *)
(* of launches is a behaviour of PhysMem, and that it keeps the frames of  *)
(* a launch, the page tables and the user pages apart.                     *)
(***************************************************************************)
EXTENDS Loader, FiniteSetTheorems, WellFoundedInduction, TLAPS

-----------------------------------------------------------------------------
(* The allocators.                                                         *)

\* The heap never moves below the kernel image nor beyond the bitmap.
HeapInBitmap == KERNEL_END <= free_mem_addr /\ free_mem_addr <= BITMAP_FRAMES * 4096

\* init_memory's kmalloc is the first bump.
HeapStart == phase = "init_memory" => free_mem_addr = KERNEL_END

\* From the first turn of init_pmm's walk on, a clear bit is a RAM frame that
\* max_frames covers; so is a frame the PMM handed out.
FreeIsRam ==
    phase \in {"init_pmm_walk", "init_pmm_mark", "ready"} =>
        \A f \in FreeFrames \cup pmmHeld : f \in UsableFrames /\ f < max_frames

\* Blocks are handed out by a booted kernel only, which keeps the image marked.
BootedFirst ==
    /\ phase # "ready" => pmmHeld = {}
    /\ phase = "ready" => {0} \cup ImageFrames \subseteq mem_bitmap

\* The inductive invariant behind the properties of the whole interface.
PmmInv ==
    /\ TypeOK
    /\ HeapInBitmap
    /\ HeapStart
    /\ FreeIsRam
    /\ BootedFirst
    /\ HeldStaysMarked
    /\ PmmHandsOutRam

-----------------------------------------------------------------------------
(* The operators the actions are built from.                               *)

\* The constants, one by one: what the provers need of PhysMemAssumption.
LEMMA ConstantTypes ==
    /\ WORD \in Nat \ {0} /\ BITMAP_FRAMES \in Nat
    /\ KERNEL_END \in Nat /\ KERNEL_END % 4096 = 0 /\ KERNEL_END > 0
    /\ KERNEL_END + 4096 <= BITMAP_FRAMES * 4096
    /\ HeapSizes \subseteq Nat
  BY PhysMemAssumption

\* PageAlign rounds up to a page boundary, by less than a page.
LEMMA PageAlignProperties ==
    ASSUME NEW a \in Nat
    PROVE  PageAlign(a) \in Nat /\ PageAlign(a) >= a /\ PageAlign(a) % 4096 = 0
  BY DEF PageAlign

\* A block that ends below the last frame of the bitmap has all its frames there.
LEMMA FramesOfInBitmap ==
    ASSUME NEW a \in Nat, NEW size \in Nat, a + size <= BITMAP_FRAMES * 4096
    PROVE  FramesOf(a, size) \subseteq Frames
  BY ConstantTypes DEF FramesOf, Frames

\* The frames of a block lie below the frame count of its end.
LEMMA FramesOfBelow ==
    ASSUME NEW a \in Nat, NEW size \in Nat
    PROVE  \A f \in FramesOf(a, size) : f \in Nat /\ f < KernelFrames(a + size)
  BY DEF FramesOf, KernelFrames

\* The number of identity-map tables is a natural number.
LEMMA RequiredPdesType ==
    ASSUME NEW n \in Nat
    PROVE  RequiredPdes(n) \in Nat
  BY PhysMemAssumption DEF RequiredPdes

\* The fields of an entry of the memory map are natural numbers.
LEMMA EntryType ==
    ASSUME NEW i \in 1..Len(MemoryMap)
    PROVE  MemoryMap[i] \in MemoryMapEntry
  BY PhysMemAssumption

\* A region the walk clears is RAM, inside the bitmap.
LEMMA RegionIsRam ==
    ASSUME NEW i \in 1..Len(MemoryMap), IsUsable(MemoryMap[i]),
           NEW f \in RegionFrames(MemoryMap[i])
    PROVE  f \in UsableFrames
<1> DEFINE b == MemoryMap[i].base_low
           l == MemoryMap[i].length_low
<1>1. b \in Nat /\ l \in Nat
  BY EntryType DEF MemoryMapEntry
<1>2. b % 4096 = 0 /\ b \div 4096 + l \div 4096 <= BITMAP_FRAMES
  BY PhysMemAssumption
<1>3. f \in Int /\ b \div 4096 <= f /\ f <= b \div 4096 + l \div 4096 - 1
  BY <1>1 DEF RegionFrames
<1> HIDE DEF b, l
<1>4. f \in Frames
  BY <1>1, <1>2, <1>3, ConstantTypes DEF Frames
<1>5. b <= f * 4096 /\ (f + 1) * 4096 <= b + l
  BY <1>1, <1>2, <1>3
<1>6. MemoryMap[i].type = 1 /\ MemoryMap[i].base_high = 0
  BY DEF IsUsable
<1> QED BY <1>4, <1>5, <1>6 DEF UsableFrames, b, l

-----------------------------------------------------------------------------
(* PmmInv is inductive.                                                    *)

\* The reset state satisfies the invariant.
LEMMA PmmInvInit == Init => PmmInv
<1> SUFFICES ASSUME Init PROVE PmmInv
  OBVIOUS
<1>1. TypeOK
  BY ConstantTypes, PhysMemAssumption DEF Init, TypeOK, Phases, Frames
<1> QED
  BY <1>1, ConstantTypes
  DEF Init, PmmInv, HeapInBitmap, HeapStart, FreeIsRam, BootedFirst, HeldStaysMarked, PmmHandsOutRam

\* The heap's bump, shared by init_paging and kmalloc_a.
LEMMA BumpAlignedStep ==
    ASSUME PmmInv, NEW size \in Nat, HasRoom(size), BumpAligned(size)
    PROVE  /\ HeapInBitmap'
           /\ free_mem_addr' \in Nat /\ allocated_memory' \in Int /\ heapBytes' \in Nat
           /\ mem_bitmap \subseteq mem_bitmap' /\ mem_bitmap' \subseteq Frames
           /\ heapFrames' \subseteq Frames
<1> DEFINE ptr == PageAlign(free_mem_addr)
<1>1. ptr \in Nat /\ ptr >= free_mem_addr
  <2>1. free_mem_addr \in Nat
    BY DEF PmmInv, TypeOK
  <2> QED BY <2>1, PageAlignProperties
<1>2. ptr + size <= BITMAP_FRAMES * 4096
  BY DEF HasRoom
<1>3. FramesOf(ptr, size) \subseteq Frames
  BY <1>1, <1>2, FramesOfInBitmap
<1>4. /\ free_mem_addr' = ptr + size
      /\ allocated_memory' = allocated_memory + size
      /\ mem_bitmap' = mem_bitmap \cup FramesOf(ptr, size)
      /\ heapFrames' = heapFrames \cup FramesOf(ptr, size)
      /\ heapBytes' = heapBytes + size
  BY DEF BumpAligned
<1> HIDE DEF ptr
<1>5. HeapInBitmap'
  BY <1>1, <1>2, <1>4, ConstantTypes DEF HeapInBitmap, PmmInv, TypeOK
<1> QED BY <1>1, <1>3, <1>4, <1>5 DEF PmmInv, TypeOK

\* A step that leaves the bitmap, max_frames and the PMM's blocks alone, and does
\* not boot the kernel.
LEMMA PmmUntouched ==
    ASSUME PmmInv, UNCHANGED <<mem_bitmap, max_frames, pmmHeld>>,
           phase' \notin {"init_pmm_walk", "init_pmm_mark", "ready"}, phase # "ready"
    PROVE  FreeIsRam' /\ BootedFirst' /\ HeldStaysMarked' /\ PmmHandsOutRam'
  BY DEF PmmInv, FreeIsRam, BootedFirst, HeldStaysMarked, PmmHandsOutRam

\* Every operation of the interface preserves the invariant.
LEMMA PmmInvStep == PmmInv /\ [ApiNext]_vars => PmmInv'
<1> SUFFICES ASSUME PmmInv, [ApiNext]_vars PROVE PmmInv'
  OBVIOUS
<1> USE DEF PmmInv
<1>1. CASE init_memory
  <2>1. Round4(10) = 12
    BY DEF Round4
  <2>2. /\ free_mem_addr = KERNEL_END /\ free_mem_addr' = free_mem_addr + 12
        /\ heapFrames' = heapFrames \cup FramesOf(free_mem_addr, 12)
        /\ heapBytes' = heapBytes + 12 /\ allocated_memory' = allocated_memory + 12
    BY <1>1, <2>1 DEF init_memory, HeapStart
  <2>3. FramesOf(free_mem_addr, 12) \subseteq Frames
    BY <2>2, ConstantTypes, FramesOfInBitmap
  <2>4. /\ phase = "init_memory" /\ phase' \in {"init_memory_walk", "init_paging"}
        /\ UNCHANGED <<mmap, mmap_flag, total_memory, mem_bitmap, max_frames, pmmHeld>>
    BY <1>1 DEF init_memory
  <2>5. TypeOK'
    BY <2>2, <2>3, <2>4 DEF TypeOK, Phases
  <2>6. HeapInBitmap' /\ HeapStart'
    BY <2>2, <2>4, ConstantTypes DEF HeapInBitmap, HeapStart
  <2> QED BY <2>4, <2>5, <2>6, PmmUntouched
<1>2. CASE init_memory_walk
  <2>1. /\ phase = "init_memory_walk" /\ phase' \in {"init_memory_walk", "init_paging"}
        /\ UNCHANGED <<mmap_flag, free_mem_addr, allocated_memory, mem_bitmap, max_frames,
                       heapFrames, heapBytes, pmmHeld>>
    BY <1>2 DEF init_memory_walk
  <2>2. mmap' \in 1..(Len(MemoryMap) + 1)
    BY <1>2, PhysMemAssumption DEF init_memory_walk, TypeOK
  <2>3. total_memory' \in Nat
    <3>1. CASE mmap <= Len(MemoryMap)
      <4>1. mmap \in 1..Len(MemoryMap)
        BY <3>1, PhysMemAssumption DEF TypeOK
      <4>2. MemoryMap[mmap].length_low \in Nat
        BY <4>1, EntryType DEF MemoryMapEntry
      <4>3. (total_memory + MemoryMap[mmap].length_low) % WORD \in Nat
        BY <4>2, ConstantTypes DEF TypeOK
      <4> QED BY <1>2, <3>1, <4>3 DEF init_memory_walk, TypeOK
    <3>2. CASE ~(mmap <= Len(MemoryMap))
      BY <1>2, <3>2 DEF init_memory_walk, TypeOK
    <3> QED BY <3>1, <3>2
  <2>4. TypeOK'
    BY <2>1, <2>2, <2>3 DEF TypeOK, Phases
  <2>5. HeapInBitmap' /\ HeapStart'
    BY <2>1 DEF HeapInBitmap, HeapStart
  <2> QED BY <2>1, <2>4, <2>5, PmmUntouched
<1>3. CASE init_paging
  <2> DEFINE size == 4096 * (1 + RequiredPdes(total_memory))
  <2>1. size \in Nat
    <3>1. total_memory \in Nat
      BY DEF TypeOK
    <3>2. RequiredPdes(total_memory) \in Nat
      BY <3>1, RequiredPdesType
    <3> QED BY <3>2
  <2>2. /\ HasRoom(size) /\ BumpAligned(size)
        /\ phase = "init_paging" /\ phase' = "init_pmm"
        /\ UNCHANGED <<mmap, mmap_flag, total_memory, max_frames, pmmHeld>>
    BY <1>3 DEF init_paging
  <2> HIDE DEF size
  <2>3. /\ HeapInBitmap'
        /\ free_mem_addr' \in Nat /\ allocated_memory' \in Int /\ heapBytes' \in Nat
        /\ mem_bitmap \subseteq mem_bitmap' /\ mem_bitmap' \subseteq Frames
        /\ heapFrames' \subseteq Frames
    BY <2>1, <2>2, BumpAlignedStep
  <2>4. TypeOK' /\ HeapStart'
    BY <2>2, <2>3 DEF TypeOK, Phases, HeapStart
  <2>5. FreeIsRam' /\ BootedFirst' /\ HeldStaysMarked' /\ PmmHandsOutRam'
    BY <2>2 DEF FreeIsRam, BootedFirst, HeldStaysMarked, PmmHandsOutRam
  <2> QED BY <2>3, <2>4, <2>5
<1>4. CASE init_pmm
  <2>1. /\ phase = "init_pmm" /\ phase' \in {"init_pmm_walk", "init_pmm_mark"}
        /\ mem_bitmap' = Frames
        /\ UNCHANGED <<mmap, mmap_flag, free_mem_addr, total_memory, allocated_memory,
                       max_frames, heapFrames, heapBytes, pmmHeld>>
    BY <1>4 DEF init_pmm
  <2>2. TypeOK' /\ HeapInBitmap' /\ HeapStart'
    BY <2>1 DEF TypeOK, Phases, HeapInBitmap, HeapStart
  <2>3. FreeFrames' = {} /\ pmmHeld' = {}
    BY <2>1 DEF FreeFrames, BootedFirst
  <2>4. FreeIsRam' /\ BootedFirst' /\ HeldStaysMarked' /\ PmmHandsOutRam'
    BY <2>1, <2>3 DEF FreeIsRam, BootedFirst, HeldStaysMarked, PmmHandsOutRam
  <2> QED BY <2>2, <2>4
<1>5. CASE init_pmm_walk
  <2>1. /\ phase = "init_pmm_walk" /\ phase' \in {"init_pmm_walk", "init_pmm_mark"}
        /\ UNCHANGED <<mmap_flag, free_mem_addr, total_memory, allocated_memory,
                       heapFrames, heapBytes, pmmHeld>>
        /\ pmmHeld' = {}
    BY <1>5 DEF init_pmm_walk, BootedFirst
  <2>2. HeapInBitmap' /\ HeapStart' /\ BootedFirst' /\ HeldStaysMarked' /\ PmmHandsOutRam'
    BY <2>1 DEF HeapInBitmap, HeapStart, BootedFirst, HeldStaysMarked, PmmHandsOutRam
  <2>3. CASE ~(mmap <= Len(MemoryMap))
    <3>1. UNCHANGED <<mmap, mem_bitmap, max_frames>>
      BY <1>5, <2>3 DEF init_pmm_walk
    <3>2. TypeOK' /\ FreeIsRam'
      BY <2>1, <3>1 DEF TypeOK, Phases, FreeIsRam, FreeFrames
    <3> QED BY <2>2, <3>2
  <2>4. CASE mmap <= Len(MemoryMap)
    <3> DEFINE e == MemoryMap[mmap]
               last == e.base_low \div 4096 + e.length_low \div 4096
    <3>1. mmap \in 1..Len(MemoryMap) /\ mmap' \in 1..(Len(MemoryMap) + 1)
      BY <1>5, <2>4, PhysMemAssumption DEF init_pmm_walk, TypeOK
    <3>2. e.base_low \in Nat /\ e.length_low \in Nat /\ last \in Nat
      BY <3>1, EntryType DEF MemoryMapEntry
    <3>3. /\ mem_bitmap' = IF IsUsable(e) THEN mem_bitmap \ RegionFrames(e) ELSE mem_bitmap
          /\ max_frames' = IF IsUsable(e) /\ last > max_frames THEN last ELSE max_frames
      BY <1>5, <2>4 DEF init_pmm_walk
    <3>4. IsUsable(e) => \A f \in RegionFrames(e) : f \in UsableFrames
      BY <3>1, RegionIsRam
    <3>5. \A f \in RegionFrames(e) : f < last
      BY <3>2 DEF RegionFrames
    <3> HIDE DEF e, last
    <3>6. TypeOK'
      BY <2>1, <3>1, <3>2, <3>3 DEF TypeOK, Phases
    <3>7. FreeIsRam'
      <4> SUFFICES ASSUME NEW f \in FreeFrames'
                   PROVE  f \in UsableFrames /\ f < max_frames'
        BY <2>1 DEF FreeIsRam
      <4>1. f \in FreeFrames \/ (IsUsable(e) /\ f \in RegionFrames(e))
        BY <3>3 DEF FreeFrames
      <4>2. max_frames \in Nat /\ f \in Nat
        BY DEF TypeOK, FreeFrames, Frames
      <4>3. CASE f \in FreeFrames
        <5>1. f \in UsableFrames /\ f < max_frames
          BY <2>1, <4>3 DEF FreeIsRam
        <5> QED BY <3>2, <3>3, <4>2, <5>1
      <4>4. CASE IsUsable(e) /\ f \in RegionFrames(e)
        BY <3>2, <3>3, <3>4, <3>5, <4>2, <4>4
      <4> QED BY <4>1, <4>3, <4>4
    <3> QED BY <2>2, <3>6, <3>7
  <2> QED BY <2>3, <2>4
<1>6. CASE init_pmm_mark
  <2> DEFINE n == KernelFrames(free_mem_addr)
  <2>1. /\ phase = "init_pmm_mark" /\ phase' = "ready" /\ pmmHeld = {}
        /\ mem_bitmap' = mem_bitmap \cup {0} \cup 0..(n - 1)
        /\ UNCHANGED <<mmap, mmap_flag, free_mem_addr, total_memory, allocated_memory,
                       max_frames, heapFrames, heapBytes, pmmHeld>>
    BY <1>6 DEF init_pmm_mark, BootedFirst
  <2>2. n \in Nat /\ n <= BITMAP_FRAMES /\ KERNEL_END \div 4096 <= n /\ 0 < n
    BY ConstantTypes DEF KernelFrames, TypeOK, HeapInBitmap
  <2> HIDE DEF n
  <2>3. mem_bitmap' \subseteq Frames /\ {0} \cup ImageFrames \subseteq mem_bitmap'
    BY <2>1, <2>2, ConstantTypes DEF TypeOK, Frames, ImageFrames
  <2>4. TypeOK' /\ HeapInBitmap' /\ HeapStart'
    BY <2>1, <2>3 DEF TypeOK, Phases, HeapInBitmap, HeapStart
  <2>5. FreeIsRam'
    BY <2>1 DEF FreeIsRam, FreeFrames
  <2>6. BootedFirst' /\ HeldStaysMarked' /\ PmmHandsOutRam'
    BY <2>1, <2>3 DEF BootedFirst, HeldStaysMarked, PmmHandsOutRam
  <2> QED BY <2>4, <2>5, <2>6
<1>7. ASSUME NEW size \in HeapSizes, kmalloc_a(size)
      PROVE  PmmInv'
  <2>1. size \in Nat
    BY ConstantTypes
  <2>2. /\ HasRoom(size) /\ BumpAligned(size) /\ phase = "ready"
        /\ UNCHANGED <<phase, mmap, mmap_flag, total_memory, max_frames, pmmHeld>>
    BY <1>7 DEF kmalloc_a
  <2>3. /\ HeapInBitmap'
        /\ free_mem_addr' \in Nat /\ allocated_memory' \in Int /\ heapBytes' \in Nat
        /\ mem_bitmap \subseteq mem_bitmap' /\ mem_bitmap' \subseteq Frames
        /\ heapFrames' \subseteq Frames
    BY <2>1, <2>2, BumpAlignedStep
  <2>4. TypeOK' /\ HeapStart'
    BY <2>2, <2>3 DEF TypeOK, HeapStart
  <2>5. FreeIsRam' /\ BootedFirst' /\ HeldStaysMarked' /\ PmmHandsOutRam'
    BY <2>2, <2>3 DEF FreeIsRam, FreeFrames, BootedFirst, HeldStaysMarked, PmmHandsOutRam
  <2> QED BY <2>3, <2>4, <2>5
<1>8. CASE pmm_alloc_block
  <2>1. PICK f \in Frames : IsFirstFree(f) /\ PmmTake(f)
    BY <1>8 DEF pmm_alloc_block
  <2>2. /\ phase = "ready" /\ f \in FreeFrames
        /\ mem_bitmap' = mem_bitmap \cup {f} /\ pmmHeld' = pmmHeld \cup {f}
        /\ allocated_memory' = allocated_memory + 4096
        /\ UNCHANGED <<phase, mmap, mmap_flag, free_mem_addr, total_memory, max_frames,
                       heapFrames, heapBytes>>
    BY <1>8, <2>1 DEF pmm_alloc_block, PmmTake, IsFirstFree
  <2>3. TypeOK' /\ HeapInBitmap' /\ HeapStart'
    BY <2>2 DEF TypeOK, HeapInBitmap, HeapStart
  <2>4. f \in UsableFrames /\ f < max_frames
    BY <2>2 DEF FreeIsRam
  <2>5. f \notin {0} \cup ImageFrames
    BY <2>2 DEF BootedFirst, FreeFrames
  <2>6. FreeIsRam'
    BY <2>2, <2>4 DEF FreeIsRam, FreeFrames
  <2>7. BootedFirst' /\ HeldStaysMarked' /\ PmmHandsOutRam'
    BY <2>2, <2>4, <2>5 DEF BootedFirst, HeldStaysMarked, PmmHandsOutRam
  <2> QED BY <2>3, <2>6, <2>7
<1>9. ASSUME NEW f \in Frames, pmm_free_block(f)
      PROVE  PmmInv'
  <2>1. /\ phase = "ready" /\ f \in pmmHeld
        /\ mem_bitmap' = mem_bitmap \ {f} /\ pmmHeld' = pmmHeld \ {f}
        /\ allocated_memory' = allocated_memory - 4096
        /\ UNCHANGED <<phase, mmap, mmap_flag, free_mem_addr, total_memory, max_frames,
                       heapFrames, heapBytes>>
    BY <1>9 DEF pmm_free_block
  <2>2. TypeOK' /\ HeapInBitmap' /\ HeapStart'
    BY <2>1 DEF TypeOK, HeapInBitmap, HeapStart
  <2>3. f \in UsableFrames /\ f < max_frames
    BY <2>1 DEF FreeIsRam
  <2>4. f \notin {0} \cup ImageFrames
    BY <2>1 DEF PmmHandsOutRam
  <2>5. FreeIsRam'
    BY <2>1, <2>3 DEF FreeIsRam, FreeFrames
  <2>6. BootedFirst' /\ HeldStaysMarked' /\ PmmHandsOutRam'
    BY <2>1, <2>4 DEF BootedFirst, HeldStaysMarked, PmmHandsOutRam
  <2> QED BY <2>2, <2>5, <2>6
<1>10. CASE UNCHANGED vars
  BY <1>10 DEF vars, TypeOK, HeapInBitmap, HeapStart, FreeIsRam, FreeFrames, BootedFirst,
               HeldStaysMarked, PmmHandsOutRam
<1>11. CASE pmm_alloc_block_fails
  BY <1>10, <1>11 DEF pmm_alloc_block_fails
<1> QED
  BY <1>1, <1>2, <1>3, <1>4, <1>5, <1>6, <1>7, <1>8, <1>9, <1>10, <1>11
  DEF ApiNext, Next, Boot

\* The variables keep their types: as long as the heap fits below the end of the
\* bitmap (HasRoom), every bit that memory.c sets or clears is a bit of mem_bitmap.
THEOREM TypeOKThm == ApiSpec => []TypeOK
<1>1. PmmInv => TypeOK
  BY DEF PmmInv
<1> QED BY <1>1, PmmInvInit, PmmInvStep, PTL DEF ApiSpec

\* pmm_alloc_block hands out only RAM of the memory map, never address 0 and never
\* the kernel image, whatever the memory map and the order of the calls.
THEOREM PmmHandsOutRamThm == ApiSpec => []PmmHandsOutRam
<1>1. PmmInv => PmmHandsOutRam
  BY DEF PmmInv
<1> QED BY <1>1, PmmInvInit, PmmInvStep, PTL DEF ApiSpec

\* A block the PMM handed out stays marked until it is given back.
THEOREM HeldStaysMarkedThm == ApiSpec => []HeldStaysMarked
<1>1. PmmInv => HeldStaysMarked
  BY DEF PmmInv
<1> QED BY <1>1, PmmInvInit, PmmInvStep, PTL DEF ApiSpec

\* pmm_alloc_block reports exhaustion only when no frame is free.
THEOREM NoFalseExhaustionThm == ApiSpec => []NoFalseExhaustion
<1>1. PmmInv => NoFalseExhaustion
  BY DEF PmmInv, FreeIsRam, NoFalseExhaustion
<1> QED BY <1>1, PmmInvInit, PmmInvStep, PTL DEF ApiSpec

-----------------------------------------------------------------------------
(* Accounting.                                                             *)

AccountingInv == PmmInv /\ AccountingExact

\* The cardinality of a set of frames is meaningful.
LEMMA FramesFinite == ASSUME NEW S \in SUBSET Frames PROVE IsFiniteSet(S)
<1>1. IsFiniteSet(Frames)
  BY ConstantTypes, FS_Interval DEF Frames
<1> QED BY <1>1, FS_Subset

\* allocated_memory is exactly what the heap and the PMM have handed out: no path of
\* the interface counts a block twice or forgets one.
THEOREM AccountingExactThm == ApiSpec => []AccountingExact
<1>1. Init => AccountingInv
  <2> SUFFICES ASSUME Init PROVE AccountingExact
    BY PmmInvInit DEF AccountingInv
  <2>1. Cardinality({}) = 0
    BY FS_EmptySet
  <2> QED BY <2>1 DEF Init, AccountingExact
<1>2. AccountingInv /\ [ApiNext]_vars => AccountingInv'
  <2> SUFFICES ASSUME AccountingInv, [ApiNext]_vars PROVE AccountingExact'
    BY PmmInvStep DEF AccountingInv
  <2>1. /\ allocated_memory \in Int /\ heapBytes \in Nat
        /\ pmmHeld \in SUBSET Frames /\ total_memory \in Nat
        /\ allocated_memory = heapBytes + 4096 * Cardinality(pmmHeld)
    BY DEF AccountingInv, AccountingExact, PmmInv, TypeOK
  <2>2. IsFiniteSet(pmmHeld) /\ Cardinality(pmmHeld) \in Nat
    BY <2>1, FramesFinite, FS_CardinalityType
  <2>3. ASSUME NEW n \in Nat, pmmHeld' = pmmHeld, heapBytes' = heapBytes + n,
               allocated_memory' = allocated_memory + n
        PROVE  AccountingExact'
    BY <2>1, <2>2, <2>3 DEF AccountingExact
  <2>4. CASE init_memory
    <3>1. Round4(10) = 12
      BY DEF Round4
    <3> QED BY <2>3, <2>4, <3>1 DEF init_memory
  <2>5. CASE init_paging
    <3>1. RequiredPdes(total_memory) \in Nat
      BY <2>1, RequiredPdesType
    <3>2. 4096 * (1 + RequiredPdes(total_memory)) \in Nat
      BY <3>1
    <3> QED BY <2>3, <2>5, <3>2 DEF init_paging, BumpAligned
  <2>6. ASSUME NEW size \in HeapSizes, kmalloc_a(size) PROVE AccountingExact'
    <3>1. size \in Nat
      BY ConstantTypes
    <3> QED BY <2>3, <2>6, <3>1 DEF kmalloc_a, BumpAligned
  <2>7. CASE pmm_alloc_block
    <3>1. PICK f \in Frames : IsFirstFree(f) /\ PmmTake(f)
      BY <2>7 DEF pmm_alloc_block
    <3>2. f \notin pmmHeld
      BY <3>1 DEF IsFirstFree, FreeFrames, AccountingInv, PmmInv, HeldStaysMarked
    <3>3. Cardinality(pmmHeld \cup {f}) = Cardinality(pmmHeld) + 1
      BY <2>2, <3>2, FS_AddElement
    <3>4. /\ pmmHeld' = pmmHeld \cup {f} /\ heapBytes' = heapBytes
          /\ allocated_memory' = allocated_memory + 4096
      BY <2>7, <3>1 DEF pmm_alloc_block, PmmTake
    <3> QED BY <2>1, <2>2, <3>3, <3>4 DEF AccountingExact
  <2>8. ASSUME NEW f \in Frames, pmm_free_block(f) PROVE AccountingExact'
    <3>1. Cardinality(pmmHeld \ {f}) = Cardinality(pmmHeld) - 1
      BY <2>2, <2>8, FS_RemoveElement DEF pmm_free_block
    <3>2. /\ pmmHeld' = pmmHeld \ {f} /\ heapBytes' = heapBytes
          /\ allocated_memory' = allocated_memory - 4096
      BY <2>8 DEF pmm_free_block
    <3> QED BY <2>1, <2>2, <3>1, <3>2 DEF AccountingExact
  <2>9. CASE UNCHANGED <<pmmHeld, heapBytes, allocated_memory>>
    BY <2>1, <2>9 DEF AccountingExact
  <2>10. (init_memory_walk \/ init_pmm \/ init_pmm_walk \/ init_pmm_mark
          \/ pmm_alloc_block_fails \/ UNCHANGED vars) => AccountingExact'
    BY <2>9 DEF init_memory_walk, init_pmm, init_pmm_walk, init_pmm_mark,
                pmm_alloc_block_fails, vars
  <2> QED BY <2>4, <2>5, <2>6, <2>7, <2>8, <2>10 DEF ApiNext, Next, Boot
<1>3. AccountingInv => AccountingExact
  BY DEF AccountingInv
<1> QED BY <1>1, <1>2, <1>3, PTL DEF ApiSpec

-----------------------------------------------------------------------------
(* The calls the kernel makes (no pmm_free_block): the heap stays marked.  *)

\* Heap blocks lie below free_mem_addr, which is how init_pmm_mark finds them.
HeapBelow == \A f \in heapFrames : f < KernelFrames(free_mem_addr)

HeapInv == PmmInv /\ HeapBelow /\ HeapStaysMarked

\* A block that kmalloc_a hands out lies below the new end of the heap.
LEMMA BumpBelow ==
    ASSUME HeapInv, NEW size \in Nat, HasRoom(size), BumpAligned(size)
    PROVE  HeapBelow'
<1> DEFINE ptr == PageAlign(free_mem_addr)
<1>0. free_mem_addr \in Nat /\ heapFrames \subseteq Frames
  BY DEF HeapInv, PmmInv, TypeOK
<1>1. ptr \in Nat /\ ptr >= free_mem_addr
  BY <1>0, PageAlignProperties
<1>2. free_mem_addr' = ptr + size /\ heapFrames' = heapFrames \cup FramesOf(ptr, size)
  BY DEF BumpAligned
<1> HIDE DEF ptr
<1>3. \A f \in FramesOf(ptr, size) : f < KernelFrames(ptr + size)
  BY <1>1, FramesOfBelow
<1>4. KernelFrames(free_mem_addr) <= KernelFrames(ptr + size)
      /\ KernelFrames(free_mem_addr) \in Nat /\ KernelFrames(ptr + size) \in Nat
  BY <1>0, <1>1 DEF KernelFrames
<1>5. \A f \in heapFrames : f \in Int /\ f < KernelFrames(free_mem_addr)
  BY <1>0, ConstantTypes DEF HeapInv, HeapBelow, Frames
<1>6. \A f \in heapFrames : f < KernelFrames(ptr + size)
  BY <1>4, <1>5
<1> QED BY <1>2, <1>3, <1>6 DEF HeapBelow

\* The reset state satisfies the invariant.
LEMMA HeapInvInit == Init => HeapInv
<1> SUFFICES ASSUME Init PROVE HeapBelow /\ HeapStaysMarked
  BY PmmInvInit DEF HeapInv
<1> QED BY DEF Init, HeapBelow, HeapStaysMarked

\* Every step of the kernel preserves the invariant.
LEMMA HeapInvStep == HeapInv /\ [Next]_vars => HeapInv'
<1> SUFFICES ASSUME HeapInv, [Next]_vars PROVE HeapBelow' /\ HeapStaysMarked'
  BY PmmInvStep DEF HeapInv, ApiNext
<1>1. TypeOK /\ HeapBelow /\ HeapStaysMarked
  BY DEF HeapInv, PmmInv
<1>2. CASE init_memory
  <2>1. Round4(10) = 12
    BY DEF Round4
  <2>2. /\ free_mem_addr' = free_mem_addr + 12
        /\ heapFrames' = heapFrames \cup FramesOf(free_mem_addr, 12)
    BY <1>2, <2>1 DEF init_memory
  <2>3. free_mem_addr \in Nat /\ heapFrames \subseteq Frames
    BY <1>1 DEF TypeOK
  <2>4. \A f \in FramesOf(free_mem_addr, 12) : f < KernelFrames(free_mem_addr + 12)
    BY <2>3, FramesOfBelow
  <2>5. \A f \in heapFrames : f < KernelFrames(free_mem_addr + 12)
    BY <1>1, <2>3, ConstantTypes DEF HeapBelow, KernelFrames, Frames
  <2>6. HeapBelow'
    BY <2>2, <2>4, <2>5 DEF HeapBelow
  <2>7. HeapStaysMarked'
    BY <1>2 DEF init_memory, HeapStaysMarked
  <2> QED BY <2>6, <2>7
<1>3. CASE init_paging
  <2>1. total_memory \in Nat
    BY <1>1 DEF TypeOK
  <2>2. RequiredPdes(total_memory) \in Nat
    BY <2>1, RequiredPdesType
  <2>3. 4096 * (1 + RequiredPdes(total_memory)) \in Nat
    BY <2>2
  <2>4. HeapBelow'
    BY <1>3, <2>3, BumpBelow DEF init_paging
  <2>5. HeapStaysMarked'
    BY <1>3 DEF init_paging, HeapStaysMarked
  <2> QED BY <2>4, <2>5
<1>4. CASE init_pmm_mark
  <2>1. HeapBelow'
    BY <1>1, <1>4 DEF init_pmm_mark, HeapBelow
  <2>2. \A f \in heapFrames : f \in 0..(KernelFrames(free_mem_addr) - 1)
    BY <1>1, ConstantTypes DEF TypeOK, Frames, HeapBelow, KernelFrames
  <2>3. HeapStaysMarked'
    BY <1>4, <2>2 DEF init_pmm_mark, HeapStaysMarked
  <2> QED BY <2>1, <2>3
<1>5. ASSUME NEW size \in HeapSizes, kmalloc_a(size)
      PROVE  HeapBelow' /\ HeapStaysMarked'
  <2>1. size \in Nat
    BY ConstantTypes
  <2>2. HeapBelow'
    BY <1>5, <2>1, BumpBelow DEF kmalloc_a
  <2>3. HeapStaysMarked'
    BY <1>1, <1>5 DEF kmalloc_a, BumpAligned, HeapStaysMarked
  <2> QED BY <2>2, <2>3
<1>6. CASE pmm_alloc_block
  <2>1. PICK f \in Frames : IsFirstFree(f) /\ PmmTake(f)
    BY <1>6 DEF pmm_alloc_block
  <2>2. mem_bitmap' = mem_bitmap \cup {f} /\ UNCHANGED <<phase, free_mem_addr, heapFrames>>
    BY <1>6, <2>1 DEF pmm_alloc_block, PmmTake
  <2> QED BY <1>1, <2>2 DEF HeapBelow, HeapStaysMarked
<1>7. CASE init_memory_walk \/ init_pmm \/ init_pmm_walk
  <2>1. phase' # "ready" /\ UNCHANGED <<free_mem_addr, heapFrames>>
    BY <1>7 DEF init_memory_walk, init_pmm, init_pmm_walk
  <2> QED BY <1>1, <2>1 DEF HeapBelow, HeapStaysMarked
<1>8. CASE pmm_alloc_block_fails \/ UNCHANGED vars
  BY <1>1, <1>8 DEF pmm_alloc_block_fails, vars, HeapBelow, HeapStaysMarked
<1> QED BY <1>2, <1>3, <1>4, <1>5, <1>6, <1>7, <1>8 DEF Next, Boot

\* The bitmap knows every frame of the heap, whenever it was allocated.
THEOREM HeapStaysMarkedThm == Spec => []HeapStaysMarked
<1>1. HeapInv => HeapStaysMarked
  BY DEF HeapInv
<1> QED BY <1>1, HeapInvInit, HeapInvStep, PTL DEF Spec

\* The PMM never hands out a frame the heap owns.
THEOREM PmmAvoidsHeapThm == Spec => PmmAvoidsHeap
<1>1. HeapInv /\ [Next]_vars => [\A f \in pmmHeld' \ pmmHeld : f \notin heapFrames]_vars
  <2> SUFFICES ASSUME HeapInv, Next, NEW f \in pmmHeld' \ pmmHeld
               PROVE  f \notin heapFrames
    OBVIOUS
  <2>1. CASE pmm_alloc_block
    <3>1. PICK g \in Frames : IsFirstFree(g) /\ PmmTake(g)
      BY <2>1 DEF pmm_alloc_block
    <3>2. f = g /\ g \notin mem_bitmap
      BY <3>1 DEF PmmTake, IsFirstFree, FreeFrames
    <3> QED BY <2>1, <3>2 DEF pmm_alloc_block, HeapInv, HeapStaysMarked
  <2>2. CASE ~pmm_alloc_block
    <3>1. pmmHeld' = pmmHeld
      BY <2>2 DEF Next, Boot, init_memory, init_memory_walk, init_paging, init_pmm,
                  init_pmm_walk, init_pmm_mark, kmalloc_a, pmm_alloc_block_fails, vars
    <3> QED BY <3>1
  <2> QED BY <2>1, <2>2
<1> QED BY <1>1, HeapInvInit, HeapInvStep, PTL DEF Spec, PmmAvoidsHeap

-----------------------------------------------------------------------------
(* Launches.                                                               *)

DirEntries == {"flat", "elf", "stack"}

LoaderTypeOK ==
    /\ pc \in {"shell", "read", "flat", "elf", "map", "flat_copy", "stack", "stack_clear",
               "pcb", "user", "halted", "lost"}
    /\ cmd \in {"run", "spawn"} /\ file \in Kinds \cup {"none"}
    /\ buffer \in Frames \cup {NONE} /\ frame \in Frames \cup {NONE}
    /\ vpage \in VPages
    /\ page_direc \in [DirEntries -> Frames \cup {NONE}]
    /\ pte \in [VPages -> Frames \cup {NONE, GARBAGE}]
    /\ stack \in Frames \cup {NONE} /\ image \in Frames \cup {NONE}
    /\ taken \in Seq(Frames)

\* The frames of a launch belong to the allocator they came from.
FramesOwned ==
    /\ pc # "shell" => phase = "ready"
    /\ \A i \in 1..Len(taken) : taken[i] \in pmmHeld
    /\ buffer # NONE => buffer \in heapFrames

\* Tables and user pages are frames of the PMM, and a page needs a table.
MapsOwned ==
    /\ \A d \in DirEntries : page_direc[d] # NONE => page_direc[d] \in pmmHeld
    /\ \A v \in VPages : pte[v] \in pmmHeld \cup {NONE, GARBAGE}
    /\ \A v \in VPages : page_direc[PdIndex(v)] = NONE => pte[v] = NONE

\* The frame that map_page is called with is no page table.
MapArgument == pc = "map" => frame \in pmmHeld /\ \A d \in DirEntries : page_direc[d] # frame

\* The pages of the ELF image that the loop has been over are present, unless memory
\* has run out.
ElfSoFar == FreeFrames = {} \/ \A v \in 1..(vpage - 1) : Present(v)

\* The image of this launch is mapped.
ImageMapped ==
    IF image # NONE THEN pte[FLAT_PAGE] = image ELSE \A v \in 1..ELF_PAGES : Present(v)

\* Page v is the new frame f, or it is missing because there was none for its table.
MappedOrOut(v, f) == f \in Frames /\ (pte[v] = f \/ (pte[v] = NONE /\ FreeFrames = {}))

\* What has been mapped where the command is now.
LaunchSoFar ==
    /\ pc = "read" => buffer # NONE
    /\ pc \in {"read", "flat", "elf"} => image = NONE
    /\ pc = "elf" => 1 <= vpage /\ ElfSoFar
    /\ pc = "map" /\ vpage = FLAT_PAGE => image = frame
    /\ pc = "map" /\ vpage = STACK_PAGE => stack = frame /\ ImageMapped
    /\ pc = "map" /\ PdIndex(vpage) = "elf" => image = NONE /\ ElfSoFar
    /\ pc = "flat_copy" => MappedOrOut(FLAT_PAGE, image)
    /\ pc = "stack" => ImageMapped
    /\ pc = "stack_clear" => ImageMapped /\ MappedOrOut(STACK_PAGE, stack)
    /\ pc = "pcb" => cmd = "spawn"

\* The inductive invariant of the launches.
LoaderInv ==
    /\ HeapInv
    /\ LoaderTypeOK
    /\ FramesOwned
    /\ MapsOwned
    /\ MapArgument
    /\ LaunchSoFar
    /\ LaunchFramesDistinct
    /\ TablesNotMapped
    /\ UserPagesMapped
    /\ HaltsOnlyWhenExhausted
-----------------------------------------------------------------------------
(* Lemmas.                                                                 *)

\* A set of natural numbers that is not empty has a least element.
LEMMA LeastNatural ==
    ASSUME NEW T, T \subseteq Nat, T # {}
    PROVE  \E m \in T : \A k \in T : m <= k
<1> DEFINE R == OpToRel(<, Nat)
<1>1. IsWellFoundedOn(R, Nat)
  BY NatLessThanWellFounded
<1>2. R = {ss \in Nat \X Nat : ss[1] < ss[2]}
  BY DEF OpToRel
<1> HIDE DEF R
<1>3. PICK x \in T : \A y \in T : ~ (<<y, x>> \in R)
  BY <1>1, WFMin
<1>4. ASSUME NEW k \in T PROVE x <= k
  <2>1. x \in Nat /\ k \in Nat
    OBVIOUS
  <2>2. ~(<<k, x>> \in R)
    BY <1>3
  <2>3. CASE k < x
    <3>1. <<k, x>> \in {ss \in Nat \X Nat : ss[1] < ss[2]}
      BY <2>1, <2>3
    <3> QED BY <1>2, <2>2, <3>1
  <2> QED BY <2>1, <2>3
<1> QED BY <1>4

\* NONE and GARBAGE are no frames.
LEMMA FrameNumbers == Frames \subseteq Nat /\ NONE \notin Frames /\ GARBAGE \notin Frames /\ NONE # GARBAGE
  BY ConstantTypes DEF Frames, NONE, GARBAGE

\* The three kinds of page have a directory entry each.
LEMMA PdIndexValues ==
    /\ FLAT_PAGE \in VPages /\ STACK_PAGE \in VPages /\ FLAT_PAGE # STACK_PAGE
    /\ \A v \in 1..ELF_PAGES : v \in VPages
    /\ \A v \in VPages : PdIndex(v) \in DirEntries
    /\ \A v \in VPages : PdIndex(v) = "flat" <=> v = FLAT_PAGE
    /\ \A v \in VPages : PdIndex(v) = "stack" <=> v = STACK_PAGE
    /\ \A v \in VPages : PdIndex(v) = "elf" <=> v \in 1..ELF_PAGES
  BY LoaderAssumption DEF PdIndex, DirEntries, VPages, FLAT_PAGE, STACK_PAGE

\* pmm_alloc_block hands out a frame that nobody had, and marks it.
LEMMA AllocBlock ==
    ASSUME LoaderInv, pmm_alloc_block, NEW t \in Frames, IsFirstFree(t)
    PROVE  /\ t \notin mem_bitmap /\ t \notin pmmHeld /\ t \notin heapFrames
           /\ pmmHeld' = pmmHeld \cup {t} /\ mem_bitmap' = mem_bitmap \cup {t}
           /\ phase = "ready" /\ UNCHANGED <<phase, total_memory, heapFrames>>
<1>1. PICK f \in Frames : IsFirstFree(f) /\ PmmTake(f)
  BY DEF pmm_alloc_block
<1>2. f = t
  BY <1>1, FrameNumbers DEF IsFirstFree, FreeFrames
<1>3. t \notin mem_bitmap
  BY DEF IsFirstFree, FreeFrames
<1> QED BY <1>1, <1>2, <1>3 DEF pmm_alloc_block, PmmTake, LoaderInv, HeapInv, PmmInv, HeldStaysMarked, HeapStaysMarked

\* pmm_alloc_block reports exhaustion only when no frame is free.
LEMMA AllocFails ==
    ASSUME LoaderInv, pmm_alloc_block_fails
    PROVE  FreeFrames = {} /\ UNCHANGED vars /\ phase = "ready"
<1>1. phase = "ready" /\ UNCHANGED vars /\ \A f \in Frames : IsFirstFree(f) => f >= max_frames
  BY DEF pmm_alloc_block_fails
<1>2. max_frames \in Nat /\ \A f \in FreeFrames : f < max_frames
  BY <1>1 DEF LoaderInv, HeapInv, PmmInv, TypeOK, FreeIsRam
<1>3. ASSUME FreeFrames # {} PROVE FALSE
  <2>1. FreeFrames \subseteq Nat
    BY FrameNumbers DEF FreeFrames
  <2>2. PICK m \in FreeFrames : \A k \in FreeFrames : m <= k
    BY <1>3, <2>1, LeastNatural
  <2>3. m \in Frames /\ IsFirstFree(m)
    BY <2>2 DEF FreeFrames, IsFirstFree
  <2> QED BY <1>1, <1>2, <2>1, <2>3
<1> QED BY <1>1, <1>3

\* kmalloc_a(size) hands out NextHeapFrame, and takes nothing from the PMM.
LEMMA HeapBlock ==
    ASSUME LoaderInv, NEW size \in Nat \ {0}, kmalloc_a(size)
    PROVE  /\ NextHeapFrame \in heapFrames' /\ heapFrames \subseteq heapFrames'
           /\ heapFrames' \subseteq Frames
           /\ FreeFrames' \subseteq FreeFrames
           /\ phase = "ready" /\ UNCHANGED <<phase, total_memory, pmmHeld>>
<1> DEFINE ptr == PageAlign(free_mem_addr)
<1>1. ptr \in Nat
  <2>1. free_mem_addr \in Nat
    BY DEF LoaderInv, HeapInv, PmmInv, TypeOK
  <2> QED BY <2>1, PageAlignProperties
<1>2. HasRoom(size) /\ BumpAligned(size) /\ phase = "ready" /\ UNCHANGED <<phase, total_memory, pmmHeld>>
  BY DEF kmalloc_a
<1>3. heapFrames' \subseteq Frames
  BY <1>2, BumpAlignedStep DEF LoaderInv, HeapInv
<1>4. /\ heapFrames' = heapFrames \cup FramesOf(ptr, size)
      /\ mem_bitmap' = mem_bitmap \cup FramesOf(ptr, size)
  BY <1>2 DEF BumpAligned
<1>5. NextHeapFrame = ptr \div 4096
  BY DEF NextHeapFrame
<1> HIDE DEF ptr
<1>6. ptr \div 4096 \in FramesOf(ptr, size)
  BY <1>1 DEF FramesOf
<1> QED BY <1>2, <1>3, <1>4, <1>5, <1>6 DEF FreeFrames

\* The frames of a launch are allocated as PhysMem says.
LEMMA StepOfPhysMem == [LoaderNext]_allvars => [Next]_vars
<1> SUFFICES ASSUME [LoaderNext]_allvars PROVE [Next]_vars
  OBVIOUS
<1>1. CASE BootStep
  BY <1>1 DEF BootStep, Next
<1>2. CASE kmalloc_a(4096) \/ kmalloc_a(PCB_BYTES)
  BY <1>2, LoaderAssumption DEF Next
<1>3. CASE pmm_alloc_block \/ pmm_alloc_block_fails
  BY <1>3 DEF Next
<1>4. CASE UNCHANGED vars
  BY <1>4
<1>5. run \/ spawn => kmalloc_a(4096)
  BY DEF run, spawn, Launch
<1>6. make_pcb => kmalloc_a(PCB_BYTES)
  BY DEF make_pcb
<1>7. elf_page_alloc \/ flat_alloc \/ stack_alloc \/ map_page_new_table => pmm_alloc_block
  BY DEF elf_page_alloc, flat_alloc, stack_alloc, map_page_new_table, AllocFrame
<1>8. elf_page_fails \/ flat_alloc_fails \/ stack_alloc_fails \/ map_page_fails => pmm_alloc_block_fails
  BY DEF elf_page_fails, flat_alloc_fails, stack_alloc_fails, map_page_fails
<1>9. read_fails \/ (\E kind \in Kinds : read_file(kind)) \/ elf_page_present
      \/ elf_copy \/ map_page \/ flat_copy \/ stack_clear \/ exit \/ idle \/ UNCHANGED allvars
      => UNCHANGED vars
  BY DEF read_fails, read_file, elf_page_present, elf_copy, map_page, flat_copy, stack_clear,
         exit, idle, allvars, vars
<1> QED BY <1>1, <1>2, <1>3, <1>4, <1>5, <1>6, <1>7, <1>8, <1>9 DEF LoaderNext

\* A step of a launch that only moves on: nothing is allocated or mapped.
LEMMA MovesOn ==
    ASSUME LoaderInv, UNCHANGED <<vars, cmd, buffer, frame, page_direc, pte, stack, image, taken>>,
           pc' # "shell" => phase = "ready"
    PROVE  /\ FramesOwned' /\ MapsOwned' /\ LaunchFramesDistinct' /\ TablesNotMapped'
           /\ FreeFrames' = FreeFrames /\ \A v \in VPages : Present(v)' = Present(v)
<1>1. FreeFrames' = FreeFrames /\ \A v \in VPages : Present(v)' = Present(v)
  BY DEF vars, FreeFrames, Present, Identity
<1>2. LaunchFramesDistinct' /\ TablesNotMapped'
  BY DEF LoaderInv, LaunchFramesDistinct, TablesNotMapped
<1>3. FramesOwned' /\ MapsOwned'
  BY DEF LoaderInv, FramesOwned, MapsOwned, vars
<1> QED BY <1>1, <1>2, <1>3

-----------------------------------------------------------------------------
(* LoaderInv is inductive.                                                 *)

\* The reset state satisfies the invariant.
LEMMA LoaderInvInit == LoaderInit => LoaderInv
<1> SUFFICES ASSUME LoaderInit PROVE LoaderInv
  OBVIOUS
<1>1. HeapInv
  BY HeapInvInit DEF LoaderInit
<1>2. /\ pc = "shell" /\ cmd = "run" /\ file = "none" /\ buffer = NONE /\ vpage = 0 /\ frame = NONE
      /\ stack = NONE /\ image = NONE /\ taken = <<>>
      /\ page_direc = [d \in DirEntries |-> NONE] /\ pte = [v \in VPages |-> NONE]
  BY DEF LoaderInit, DirEntries
<1>3. LoaderTypeOK
  BY <1>2, PdIndexValues DEF LoaderTypeOK, FLAT_PAGE
<1>4. FramesOwned /\ MapsOwned /\ MapArgument /\ LaunchSoFar
  BY <1>2, PdIndexValues DEF FramesOwned, MapsOwned, MapArgument, LaunchSoFar
<1>5. LaunchFramesDistinct /\ TablesNotMapped /\ UserPagesMapped /\ HaltsOnlyWhenExhausted
  BY <1>2 DEF LaunchFramesDistinct, TablesNotMapped, UserPagesMapped, HaltsOnlyWhenExhausted
<1> QED BY <1>1, <1>3, <1>4, <1>5 DEF LoaderInv

\* Booting leaves the loader's state alone.
LEMMA BootKeeps ==
    ASSUME LoaderInv, BootStep, HeapInv'
    PROVE  LoaderInv'
<1>1. UNCHANGED lvars /\ phase # "ready"
  BY DEF BootStep, Boot, init_memory, init_memory_walk, init_paging, init_pmm, init_pmm_walk, init_pmm_mark
<1>2. pc = "shell"
  BY <1>1 DEF LoaderInv, FramesOwned
<1>3. pmmHeld' = pmmHeld /\ heapFrames \subseteq heapFrames'
  BY DEF BootStep, Boot, init_memory, init_memory_walk, init_paging, init_pmm, init_pmm_walk,
         init_pmm_mark, BumpAligned
<1>4. LoaderTypeOK' /\ LaunchFramesDistinct' /\ TablesNotMapped'
  BY <1>1 DEF LoaderInv, LoaderTypeOK, LaunchFramesDistinct, TablesNotMapped, lvars
<1>5. FramesOwned' /\ MapsOwned'
  BY <1>1, <1>2, <1>3 DEF LoaderInv, FramesOwned, MapsOwned, lvars
<1>6. MapArgument' /\ LaunchSoFar' /\ UserPagesMapped' /\ HaltsOnlyWhenExhausted'
  BY <1>1, <1>2 DEF MapArgument, LaunchSoFar, UserPagesMapped, HaltsOnlyWhenExhausted, lvars
<1> QED BY <1>4, <1>5, <1>6 DEF LoaderInv

\* run and spawn take the buffer from the heap and start with no frames.
LEMMA LaunchKeeps ==
    ASSUME LoaderInv, NEW c \in {"run", "spawn"}, Launch(c), HeapInv'
    PROVE  LoaderInv'
<1>1. kmalloc_a(4096)
  BY DEF Launch
<1>2. /\ NextHeapFrame \in heapFrames' /\ heapFrames' \subseteq Frames
      /\ phase = "ready" /\ UNCHANGED <<phase, pmmHeld>>
  BY <1>1, HeapBlock
<1>3. /\ pc' = "read" /\ cmd' = c /\ file' = "none" /\ buffer' = NextHeapFrame
      /\ stack' = NONE /\ image' = NONE /\ taken' = <<>>
      /\ UNCHANGED <<vpage, frame, page_direc, pte>>
  BY DEF Launch
<1>4. LoaderTypeOK'
  BY <1>2, <1>3 DEF LoaderInv, LoaderTypeOK
<1>5. FramesOwned' /\ MapsOwned' /\ LaunchFramesDistinct' /\ TablesNotMapped'
  BY <1>2, <1>3 DEF LoaderInv, FramesOwned, MapsOwned, LaunchFramesDistinct, TablesNotMapped
<1>6. MapArgument' /\ LaunchSoFar' /\ UserPagesMapped' /\ HaltsOnlyWhenExhausted'
  BY <1>2, <1>3, FrameNumbers DEF MapArgument, LaunchSoFar, UserPagesMapped, HaltsOnlyWhenExhausted
<1> QED BY <1>4, <1>5, <1>6 DEF LoaderInv

\* Bytes written over a page table change what it maps into nothing or garbage.
LEMMA OverwriteKeeps ==
    ASSUME LoaderInv, NEW f \in Frames, Overwrite(f), UNCHANGED <<page_direc, pmmHeld>>
    PROVE  MapsOwned' /\ TablesNotMapped' /\ pte' \in [VPages -> Frames \cup {NONE, GARBAGE}]
<1>1. PICK kept \in SUBSET VPages, x \in {NONE, GARBAGE} :
        pte' = [v \in VPages |-> IF page_direc[PdIndex(v)] = f /\ v \notin kept THEN x ELSE pte[v]]
  BY DEF Overwrite
<1>2. \A v \in VPages : pte'[v] = pte[v] \/ (page_direc[PdIndex(v)] = f /\ pte'[v] \in {NONE, GARBAGE})
  BY <1>1
<1>3. pte' \in [VPages -> Frames \cup {NONE, GARBAGE}]
  BY <1>1 DEF LoaderInv, LoaderTypeOK
<1>4. MapsOwned'
  BY <1>2, FrameNumbers DEF LoaderInv, MapsOwned
<1>5. \A d \in DirEntries : page_direc[d] # NONE => page_direc[d] \in Frames
  BY DEF LoaderInv, LoaderTypeOK
<1>6. DOMAIN page_direc = DirEntries
  BY DEF LoaderInv, LoaderTypeOK
<1>7. TablesNotMapped'
  BY <1>2, <1>5, <1>6, FrameNumbers DEF LoaderInv, TablesNotMapped
<1> QED BY <1>3, <1>4, <1>7

\* The file is read over the buffer.
LEMMA ReadKeeps ==
    ASSUME LoaderInv, NEW kind \in Kinds, read_file(kind), HeapInv'
    PROVE  LoaderInv'
<1>1. /\ pc = "read" /\ pc' \in {"elf", "flat", "shell"} /\ vpage' = 1 /\ Overwrite(buffer)
      /\ file' \in Kinds /\ UNCHANGED <<vars, cmd, buffer, frame, page_direc, stack, image, taken>>
  BY DEF read_file, Kinds
<1>2. phase = "ready" /\ image = NONE
  BY <1>1 DEF LoaderInv, FramesOwned, LaunchSoFar
<1>3. UNCHANGED <<phase, pmmHeld, heapFrames>>
  BY <1>1 DEF vars
<1>4. MapsOwned' /\ TablesNotMapped' /\ pte' \in [VPages -> Frames \cup {NONE, GARBAGE}]
  <2>1. buffer \in Frames
    BY <1>1 DEF LoaderInv, LoaderTypeOK, LaunchSoFar
  <2> QED BY <1>1, <1>3, <2>1, OverwriteKeeps
<1>5. LoaderTypeOK'
  BY <1>1, <1>4, PdIndexValues, LoaderAssumption DEF LoaderInv, LoaderTypeOK, VPages, STACK_PAGE
<1>6. FramesOwned' /\ LaunchFramesDistinct'
  BY <1>1, <1>2, <1>3 DEF LoaderInv, FramesOwned, LaunchFramesDistinct
<1>7. MapArgument' /\ LaunchSoFar' /\ UserPagesMapped' /\ HaltsOnlyWhenExhausted'
  BY <1>1, <1>2 DEF MapArgument, LaunchSoFar, ElfSoFar, UserPagesMapped, HaltsOnlyWhenExhausted
<1> QED BY <1>4, <1>5, <1>6, <1>7 DEF LoaderInv

\* A command that gives up leaves what it has mapped.
LEMMA GivesUpKeeps ==
    ASSUME LoaderInv, GivesUp, UNCHANGED vars
    PROVE  LoaderInv'
<1>1. pc' = "shell" /\ UNCHANGED <<vpage, cmd, file, buffer, frame, page_direc, pte, stack, image, taken>>
  BY DEF GivesUp
<1>2. FramesOwned' /\ MapsOwned' /\ LaunchFramesDistinct' /\ TablesNotMapped'
  BY <1>1, MovesOn
<1>3. LoaderTypeOK'
  BY <1>1 DEF LoaderInv, LoaderTypeOK
<1>4. MapArgument' /\ LaunchSoFar' /\ UserPagesMapped' /\ HaltsOnlyWhenExhausted'
  BY <1>1 DEF MapArgument, LaunchSoFar, UserPagesMapped, HaltsOnlyWhenExhausted
<1>5. HeapInv'
  BY HeapInvStep DEF LoaderInv
<1> QED BY <1>2, <1>3, <1>4, <1>5 DEF LoaderInv

\* The loop of load_elf_program passes a page that is present.
LEMMA ElfPresentKeeps ==
    ASSUME LoaderInv, elf_page_present, HeapInv'
    PROVE  LoaderInv'
<1>1. /\ pc = "elf" /\ pc' = "elf" /\ vpage <= ELF_PAGES /\ Present(vpage) /\ vpage' = vpage + 1
      /\ UNCHANGED <<vars, cmd, file, buffer, frame, page_direc, pte, stack, image, taken>>
  BY DEF elf_page_present, ElfPagesLeft
<1>2. phase = "ready" /\ image = NONE /\ ElfSoFar /\ 1 <= vpage /\ vpage \in Nat
  BY <1>1, LoaderAssumption DEF LoaderInv, FramesOwned, LaunchSoFar, LoaderTypeOK, VPages, STACK_PAGE
<1>3. /\ FramesOwned' /\ MapsOwned' /\ LaunchFramesDistinct' /\ TablesNotMapped'
      /\ FreeFrames' = FreeFrames /\ \A v \in VPages : Present(v)' = Present(v)
  BY <1>1, <1>2, MovesOn
<1>4. LoaderTypeOK'
  BY <1>1, <1>2, LoaderAssumption DEF LoaderInv, LoaderTypeOK, VPages, STACK_PAGE
<1>5. ElfSoFar'
  <2>1. \A v \in 1..(vpage' - 1) : v \in VPages /\ (v = vpage \/ v \in 1..(vpage - 1))
    BY <1>1, <1>2, LoaderAssumption DEF VPages, STACK_PAGE
  <2> QED BY <1>1, <1>2, <1>3, <2>1 DEF ElfSoFar
<1>6. MapArgument' /\ LaunchSoFar' /\ UserPagesMapped' /\ HaltsOnlyWhenExhausted'
  BY <1>1, <1>2, <1>5 DEF MapArgument, LaunchSoFar, UserPagesMapped, HaltsOnlyWhenExhausted
<1> QED BY <1>3, <1>4, <1>6 DEF LoaderInv

\* The copy of the ELF image faults only when a page could not be had, or a size was
\* not checked.
LEMMA ElfCopyKeeps ==
    ASSUME LoaderInv, elf_copy, HeapInv'
    PROVE  LoaderInv'
<1>1. /\ pc = "elf" /\ ~ElfPagesLeft /\ pc' \in {"halted", "lost", "stack", "shell"}
      /\ UNCHANGED <<vars, cmd, file, buffer, vpage, frame, page_direc, pte, stack, image, taken>>
      /\ pc' = "halted" => file \in UncheckedSizes \/ \E v \in 1..ELF_PAGES : ~Present(v)
      /\ pc' = "stack" => \A v \in 1..ELF_PAGES : Present(v)
  BY DEF elf_copy, UncheckedSizes
<1>2. phase = "ready" /\ image = NONE /\ ElfSoFar /\ vpage \in Nat
  BY <1>1, LoaderAssumption DEF LoaderInv, FramesOwned, LaunchSoFar, LoaderTypeOK, VPages, STACK_PAGE
<1>3. /\ FramesOwned' /\ MapsOwned' /\ LaunchFramesDistinct' /\ TablesNotMapped'
      /\ FreeFrames' = FreeFrames /\ \A v \in VPages : Present(v)' = Present(v)
  BY <1>1, <1>2, MovesOn
<1>4. LoaderTypeOK'
  BY <1>1 DEF LoaderInv, LoaderTypeOK
<1>5. HaltsOnlyWhenExhausted'
  <2>1. file \in UncheckedSizes \/ \A v \in 1..ELF_PAGES : v \in 1..(vpage - 1)
    BY <1>1, <1>2, LoaderAssumption DEF ElfPagesLeft, UncheckedSizes
  <2> QED BY <1>1, <1>2, <1>3, <2>1 DEF HaltsOnlyWhenExhausted, ElfSoFar
<1>6. pc' = "stack" => ImageMapped'
  BY <1>1, <1>2, <1>3, PdIndexValues DEF ImageMapped
<1>7. MapArgument' /\ LaunchSoFar' /\ UserPagesMapped'
  BY <1>1, <1>6 DEF MapArgument, LaunchSoFar, UserPagesMapped
<1> QED BY <1>3, <1>4, <1>5, <1>7 DEF LoaderInv

\* The copy of a flat image faults only when its table could not be had, or the file is
\* longer than the page.
LEMMA FlatCopyKeeps ==
    ASSUME LoaderInv, flat_copy, HeapInv'
    PROVE  LoaderInv'
<1>1. /\ pc = "flat_copy" /\ pc' \in {"halted", "lost", "stack"}
      /\ UNCHANGED <<vars, cmd, file, buffer, vpage, frame, page_direc, pte, stack, image, taken>>
      /\ pc' = "halted" => ~Present(FLAT_PAGE) \/ file \in UncheckedSizes
      /\ pc' = "stack" => Present(FLAT_PAGE)
  BY DEF flat_copy, UncheckedSizes
<1>2. phase = "ready" /\ MappedOrOut(FLAT_PAGE, image)
  BY <1>1 DEF LoaderInv, FramesOwned, LaunchSoFar
<1>3. /\ FramesOwned' /\ MapsOwned' /\ LaunchFramesDistinct' /\ TablesNotMapped'
      /\ FreeFrames' = FreeFrames
  BY <1>1, <1>2, MovesOn
<1>4. LoaderTypeOK'
  BY <1>1 DEF LoaderInv, LoaderTypeOK
<1>5. Present(FLAT_PAGE) <=> pte[FLAT_PAGE] # NONE
  BY PdIndexValues DEF Present
<1>6. HaltsOnlyWhenExhausted' /\ (pc' = "stack" => ImageMapped')
  BY <1>1, <1>2, <1>3, <1>5, FrameNumbers DEF HaltsOnlyWhenExhausted, ImageMapped, MappedOrOut
<1>7. MapArgument' /\ LaunchSoFar' /\ UserPagesMapped'
  BY <1>1, <1>6 DEF MapArgument, LaunchSoFar, UserPagesMapped
<1> QED BY <1>3, <1>4, <1>6, <1>7 DEF LoaderInv

\* Clearing the stack faults only when its table could not be had; otherwise the
\* stack of this launch is mapped.
LEMMA StackClearKeeps ==
    ASSUME LoaderInv, stack_clear, HeapInv'
    PROVE  LoaderInv'
<1>1. /\ pc = "stack_clear" /\ pc' \in {"halted", "user", "pcb"}
      /\ UNCHANGED <<vars, cmd, file, buffer, vpage, frame, page_direc, pte, stack, image, taken>>
      /\ pc' = "halted" <=> ~Present(STACK_PAGE)
      /\ pc' = "pcb" => cmd = "spawn"
  BY DEF stack_clear, LoaderInv, LoaderTypeOK
<1>2. phase = "ready" /\ ImageMapped /\ MappedOrOut(STACK_PAGE, stack)
  BY <1>1 DEF LoaderInv, FramesOwned, LaunchSoFar
<1>3. /\ FramesOwned' /\ MapsOwned' /\ LaunchFramesDistinct' /\ TablesNotMapped'
      /\ FreeFrames' = FreeFrames /\ \A v \in VPages : Present(v)' = Present(v)
  BY <1>1, <1>2, MovesOn
<1>4. LoaderTypeOK'
  BY <1>1 DEF LoaderInv, LoaderTypeOK
<1>5. Present(STACK_PAGE) <=> pte[STACK_PAGE] # NONE
  BY PdIndexValues DEF Present
<1>6. HaltsOnlyWhenExhausted'
  BY <1>1, <1>2, <1>3, <1>5, FrameNumbers DEF HaltsOnlyWhenExhausted, MappedOrOut
<1>7. UserPagesMapped'
  <2>1. pc' = "user" => pte[STACK_PAGE] = stack
    BY <1>1, <1>2, <1>5 DEF MappedOrOut
  <2> QED BY <1>1, <1>2, <1>3, <2>1, PdIndexValues DEF UserPagesMapped, ImageMapped
<1>8. MapArgument' /\ LaunchSoFar'
  BY <1>1 DEF MapArgument, LaunchSoFar
<1> QED BY <1>3, <1>4, <1>6, <1>7, <1>8 DEF LoaderInv

\* spawn's PCB may be written over a page table; run makes none.
LEMMA PcbKeeps ==
    ASSUME LoaderInv, make_pcb, HeapInv'
    PROVE  LoaderInv'
<1>1. /\ pc = "pcb" /\ pc' = "user" /\ kmalloc_a(PCB_BYTES) /\ Overwrite(NextHeapFrame)
      /\ UNCHANGED <<cmd, file, buffer, vpage, frame, page_direc, stack, image, taken>>
  BY DEF make_pcb
<1>2. cmd = "spawn"
  BY <1>1 DEF LoaderInv, LaunchSoFar
<1>3. PCB_BYTES \in Nat \ {0}
  BY LoaderAssumption
<1>4. /\ NextHeapFrame \in Frames /\ heapFrames \subseteq heapFrames'
      /\ phase = "ready" /\ UNCHANGED <<phase, pmmHeld>>
  BY <1>1, <1>3, HeapBlock
<1>5. MapsOwned' /\ TablesNotMapped' /\ pte' \in [VPages -> Frames \cup {NONE, GARBAGE}]
  BY <1>1, <1>4, OverwriteKeeps
<1>6. LoaderTypeOK'
  BY <1>1, <1>5 DEF LoaderInv, LoaderTypeOK
<1>7. FramesOwned' /\ LaunchFramesDistinct'
  BY <1>1, <1>4 DEF LoaderInv, FramesOwned, LaunchFramesDistinct
<1>8. MapArgument' /\ LaunchSoFar' /\ UserPagesMapped' /\ HaltsOnlyWhenExhausted'
  BY <1>1, <1>2 DEF MapArgument, LaunchSoFar, UserPagesMapped, HaltsOnlyWhenExhausted
<1> QED BY <1>5, <1>6, <1>7, <1>8 DEF LoaderInv

\* A frame that nobody had joins the frames of a launch.
LEMMA JoinsTaken ==
    ASSUME LoaderInv, NEW t \in Frames, t \notin pmmHeld, t \notin heapFrames,
           pmmHeld' = pmmHeld \cup {t}, heapFrames' = heapFrames, buffer' = buffer,
           phase' = "ready", taken' = Append(taken, t)
    PROVE  FramesOwned' /\ LaunchFramesDistinct' /\ taken' \in Seq(Frames)
<1>1. /\ taken \in Seq(Frames) /\ buffer \in Frames \cup {NONE}
      /\ \A i \in 1..Len(taken) : taken[i] \in pmmHeld /\ taken[i] # buffer
      /\ \A i, j \in 1..Len(taken) : i # j => taken[i] # taken[j]
      /\ buffer # NONE => buffer \in heapFrames
  BY DEF LoaderInv, LoaderTypeOK, FramesOwned, LaunchFramesDistinct
<1>2. /\ taken' \in Seq(Frames) /\ Len(taken') = Len(taken) + 1 /\ Len(taken) \in Nat
      /\ \A i \in 1..Len(taken) : taken'[i] = taken[i]
      /\ taken'[Len(taken) + 1] = t
  BY <1>1
<1>3. t # buffer
  BY <1>1, FrameNumbers
<1>4. \A i \in 1..Len(taken') : i \in 1..Len(taken) \/ i = Len(taken) + 1
  BY <1>2
<1>5. FramesOwned'
  BY <1>1, <1>2, <1>4 DEF FramesOwned
<1>6. LaunchFramesDistinct'
  BY <1>1, <1>2, <1>3, <1>4 DEF LaunchFramesDistinct
<1> QED BY <1>2, <1>5, <1>6

\* The three callers of pmm_alloc_block that map the frame next.
LEMMA FrameTaken ==
    ASSUME LoaderInv, AllocFrame, UNCHANGED <<cmd, file, buffer, page_direc, pte>>, pc' = "map"
    PROVE  /\ frame' \in Frames /\ taken' \in Seq(Frames)
           /\ FramesOwned' /\ MapsOwned' /\ MapArgument' /\ LaunchFramesDistinct' /\ TablesNotMapped'
           /\ UserPagesMapped' /\ HaltsOnlyWhenExhausted'
           /\ FreeFrames # {} /\ \A v \in VPages : Present(v)' = Present(v)
<1>1. pmm_alloc_block /\ frame' \in Frames /\ IsFirstFree(frame') /\ taken' = Append(taken, frame')
  BY DEF AllocFrame
<1>2. PICK t \in Frames : t = frame'
  BY <1>1
<1>3. /\ t \notin pmmHeld /\ t \notin heapFrames /\ pmmHeld' = pmmHeld \cup {t}
      /\ phase = "ready" /\ UNCHANGED <<phase, total_memory, heapFrames>>
  BY <1>1, <1>2, AllocBlock
<1>4. FramesOwned' /\ LaunchFramesDistinct' /\ taken' \in Seq(Frames)
  BY <1>1, <1>2, <1>3, JoinsTaken
<1>5. MapsOwned' /\ TablesNotMapped'
  BY <1>3 DEF LoaderInv, MapsOwned, TablesNotMapped
<1>6. MapArgument'
  BY <1>2, <1>3, FrameNumbers DEF LoaderInv, MapsOwned, MapArgument
<1>7. FreeFrames # {}
  BY <1>1 DEF IsFirstFree
<1>8. \A v \in VPages : Present(v)' = Present(v)
  BY <1>3 DEF Present, Identity
<1> QED BY <1>1, <1>4, <1>5, <1>6, <1>7, <1>8 DEF UserPagesMapped, HaltsOnlyWhenExhausted

\* A frame for a page of the ELF image.
LEMMA ElfAllocKeeps ==
    ASSUME LoaderInv, elf_page_alloc, HeapInv'
    PROVE  LoaderInv'
<1>1. /\ pc = "elf" /\ vpage <= ELF_PAGES /\ AllocFrame /\ pc' = "map"
      /\ UNCHANGED <<cmd, file, buffer, vpage, page_direc, pte, stack, image>>
  BY DEF elf_page_alloc, ElfPagesLeft
<1>2. image = NONE /\ ElfSoFar /\ vpage \in 1..ELF_PAGES
  BY <1>1, LoaderAssumption DEF LoaderInv, LaunchSoFar, LoaderTypeOK, VPages, STACK_PAGE
<1>3. /\ frame' \in Frames /\ taken' \in Seq(Frames)
      /\ FramesOwned' /\ MapsOwned' /\ MapArgument' /\ LaunchFramesDistinct' /\ TablesNotMapped'
      /\ UserPagesMapped' /\ HaltsOnlyWhenExhausted'
      /\ FreeFrames # {} /\ \A v \in VPages : Present(v)' = Present(v)
  BY <1>1, FrameTaken
<1>4. LoaderTypeOK'
  BY <1>1, <1>3 DEF LoaderInv, LoaderTypeOK
<1>5. ElfSoFar'
  <2>1. \A v \in 1..(vpage - 1) : v \in VPages
    BY <1>2, LoaderAssumption DEF VPages, STACK_PAGE
  <2> QED BY <1>1, <1>2, <1>3, <2>1 DEF ElfSoFar
<1>6. vpage' # FLAT_PAGE /\ vpage' # STACK_PAGE
  BY <1>1, <1>2, LoaderAssumption DEF FLAT_PAGE, STACK_PAGE
<1>7. LaunchSoFar'
  BY <1>1, <1>2, <1>5, <1>6 DEF LaunchSoFar
<1> QED BY <1>3, <1>4, <1>7 DEF LoaderInv

\* A frame for the flat image.
LEMMA FlatAllocKeeps ==
    ASSUME LoaderInv, flat_alloc, HeapInv'
    PROVE  LoaderInv'
<1>1. /\ AllocFrame /\ pc' = "map" /\ vpage' = FLAT_PAGE /\ image' = frame'
      /\ UNCHANGED <<cmd, file, buffer, page_direc, pte, stack>>
  BY DEF flat_alloc
<1>2. /\ frame' \in Frames /\ taken' \in Seq(Frames)
      /\ FramesOwned' /\ MapsOwned' /\ MapArgument' /\ LaunchFramesDistinct' /\ TablesNotMapped'
      /\ UserPagesMapped' /\ HaltsOnlyWhenExhausted'
  BY <1>1, FrameTaken
<1>3. LoaderTypeOK'
  BY <1>1, <1>2, PdIndexValues DEF LoaderInv, LoaderTypeOK
<1>4. LaunchSoFar'
  BY <1>1, PdIndexValues DEF LaunchSoFar
<1> QED BY <1>2, <1>3, <1>4 DEF LoaderInv

\* A frame for the user stack.
LEMMA StackAllocKeeps ==
    ASSUME LoaderInv, stack_alloc, HeapInv'
    PROVE  LoaderInv'
<1>1. /\ pc = "stack" /\ AllocFrame /\ pc' = "map" /\ vpage' = STACK_PAGE /\ stack' = frame'
      /\ UNCHANGED <<cmd, file, buffer, page_direc, pte, image>>
  BY DEF stack_alloc
<1>2. ImageMapped
  BY <1>1 DEF LoaderInv, LaunchSoFar
<1>3. /\ frame' \in Frames /\ taken' \in Seq(Frames)
      /\ FramesOwned' /\ MapsOwned' /\ MapArgument' /\ LaunchFramesDistinct' /\ TablesNotMapped'
      /\ UserPagesMapped' /\ HaltsOnlyWhenExhausted'
      /\ \A v \in VPages : Present(v)' = Present(v)
  BY <1>1, FrameTaken
<1>4. LoaderTypeOK'
  BY <1>1, <1>3, PdIndexValues DEF LoaderInv, LoaderTypeOK
<1>5. ImageMapped'
  BY <1>1, <1>2, <1>3, PdIndexValues DEF ImageMapped
<1>6. LaunchSoFar'
  BY <1>1, <1>5, PdIndexValues DEF LaunchSoFar
<1> QED BY <1>3, <1>4, <1>6 DEF LoaderInv

\* Back from map_page: the page is mapped, or there was no frame for its table; what
\* was present before still is.
LEMMA MapReturnsKeeps ==
    ASSUME LoaderInv, pc = "map", MapReturns, HeapInv',
           FramesOwned', LaunchFramesDistinct', taken' \in Seq(Frames),
           page_direc' \in [DirEntries -> Frames \cup {NONE}],
           pte' \in [VPages -> Frames \cup {NONE, GARBAGE}],
           MapsOwned', TablesNotMapped', total_memory' = total_memory,
           \A v \in VPages \ {vpage} : pte'[v] = pte[v],
           FreeFrames = {} => FreeFrames' = {},
           pte'[vpage] = frame \/ (pte'[vpage] = NONE /\ FreeFrames' = {})
    PROVE  LoaderInv'
<1>1. frame \in Frames /\ vpage \in VPages /\ vpage \in Nat
  <2>1. frame \in pmmHeld /\ pmmHeld \subseteq Frames
    BY DEF LoaderInv, MapArgument, HeapInv, PmmInv, TypeOK
  <2> QED BY <2>1, LoaderAssumption DEF LoaderInv, LoaderTypeOK, VPages, STACK_PAGE
<1>2. /\ pc' = CASE vpage = FLAT_PAGE -> "flat_copy" [] vpage = STACK_PAGE -> "stack_clear" [] OTHER -> "elf"
      /\ vpage' = IF PdIndex(vpage) = "elf" THEN vpage + 1 ELSE vpage
      /\ UNCHANGED <<cmd, file, buffer, frame, stack, image>>
  BY DEF MapReturns
<1>3. pc' \in {"flat_copy", "stack_clear", "elf"}
  BY <1>2
<1>4. vpage' \in VPages
  BY <1>1, <1>2, PdIndexValues, LoaderAssumption DEF VPages, STACK_PAGE
<1>5. LoaderTypeOK'
  BY <1>2, <1>3, <1>4 DEF LoaderInv, LoaderTypeOK
<1>6. MapArgument' /\ UserPagesMapped' /\ HaltsOnlyWhenExhausted'
  BY <1>3 DEF MapArgument, UserPagesMapped, HaltsOnlyWhenExhausted
<1>7. \A v \in VPages \ {vpage} : Present(v)' = Present(v)
  BY DEF Present, Identity
<1>8. CASE vpage = FLAT_PAGE
  <2>1. pc' = "flat_copy" /\ image = frame /\ image' = image
    BY <1>2, <1>8, PdIndexValues DEF LoaderInv, LaunchSoFar
  <2>2. MappedOrOut(FLAT_PAGE, image)'
    BY <1>1, <1>8, <2>1 DEF MappedOrOut, FLAT_PAGE
  <2>3. LaunchSoFar'
    BY <2>1, <2>2 DEF LaunchSoFar
  <2> QED BY <1>5, <1>6, <2>3 DEF LoaderInv
<1>9. CASE vpage = STACK_PAGE
  <2>1. pc' = "stack_clear" /\ stack = frame /\ ImageMapped /\ UNCHANGED <<stack, image>>
    BY <1>2, <1>9, PdIndexValues DEF LoaderInv, LaunchSoFar
  <2>2. MappedOrOut(STACK_PAGE, stack)'
    BY <1>1, <1>9, <2>1 DEF MappedOrOut, STACK_PAGE
  <2>3. FLAT_PAGE \in VPages \ {vpage} /\ \A v \in 1..ELF_PAGES : v \in VPages \ {vpage}
    BY <1>9, PdIndexValues, LoaderAssumption DEF STACK_PAGE
  <2>4. ImageMapped'
    BY <1>7, <2>1, <2>3 DEF ImageMapped, FLAT_PAGE
  <2>5. LaunchSoFar'
    BY <2>1, <2>2, <2>4 DEF LaunchSoFar
  <2> QED BY <1>5, <1>6, <2>5 DEF LoaderInv
<1>10. CASE PdIndex(vpage) = "elf"
  <2>1. /\ pc' = "elf" /\ image = NONE /\ image' = NONE /\ ElfSoFar
        /\ vpage \in 1..ELF_PAGES /\ vpage' = vpage + 1
    BY <1>1, <1>2, <1>10, PdIndexValues, LoaderAssumption DEF LoaderInv, LaunchSoFar, FLAT_PAGE, STACK_PAGE
  <2>2. ElfSoFar'
    <3> SUFFICES ASSUME FreeFrames' # {}, NEW v \in 1..vpage PROVE Present(v)'
      BY <2>1 DEF ElfSoFar
    <3>1. CASE v = vpage
      BY <1>1, <3>1, FrameNumbers DEF Present
    <3>2. CASE v # vpage
      <4>1. v \in 1..(vpage - 1) /\ v \in VPages \ {vpage}
        BY <2>1, <3>2, LoaderAssumption DEF VPages, STACK_PAGE
      <4>2. Present(v)
        BY <2>1, <4>1 DEF ElfSoFar
      <4> QED BY <1>7, <4>1, <4>2
    <3> QED BY <3>1, <3>2
  <2>3. LaunchSoFar'
    BY <2>1, <2>2 DEF LaunchSoFar
  <2> QED BY <1>5, <1>6, <2>3 DEF LoaderInv
<1> QED BY <1>1, <1>8, <1>9, <1>10, PdIndexValues DEF DirEntries

\* map_page with a table that is there.
LEMMA MapPageKeeps ==
    ASSUME LoaderInv, map_page, HeapInv'
    PROVE  LoaderInv'
<1>1. /\ pc = "map" /\ page_direc[PdIndex(vpage)] # NONE /\ MapReturns
      /\ pte' = [pte EXCEPT ![vpage] = frame] /\ UNCHANGED <<vars, page_direc, taken>>
  BY DEF map_page
<1>2. /\ frame \in pmmHeld /\ frame \in Frames /\ vpage \in VPages /\ phase = "ready"
      /\ \A d \in DirEntries : page_direc[d] # frame
      /\ DOMAIN page_direc = DirEntries /\ UNCHANGED <<pmmHeld, phase, heapFrames, buffer>>
  BY <1>1 DEF LoaderInv, FramesOwned, MapArgument, HeapInv, PmmInv, TypeOK, LoaderTypeOK, vars, MapReturns
<1>3. pte \in [VPages -> Frames \cup {NONE, GARBAGE}]
  BY DEF LoaderInv, LoaderTypeOK
<1>4. /\ pte' \in [VPages -> Frames \cup {NONE, GARBAGE}]
      /\ pte'[vpage] = frame /\ \A v \in VPages \ {vpage} : pte'[v] = pte[v]
  BY <1>1, <1>2, <1>3
<1>5. MapsOwned'
  BY <1>1, <1>2, <1>4 DEF LoaderInv, MapsOwned
<1>6. TablesNotMapped'
  BY <1>1, <1>2, <1>4 DEF LoaderInv, TablesNotMapped
<1>7. FramesOwned' /\ LaunchFramesDistinct'
  BY <1>1, <1>2 DEF LoaderInv, FramesOwned, LaunchFramesDistinct
<1>8. /\ taken' \in Seq(Frames) /\ page_direc' \in [DirEntries -> Frames \cup {NONE}]
      /\ FreeFrames' = FreeFrames /\ total_memory' = total_memory
  BY <1>1 DEF LoaderInv, LoaderTypeOK, vars, FreeFrames
<1> QED BY <1>1, <1>4, <1>5, <1>6, <1>7, <1>8, MapReturnsKeeps

\* map_page with a new table: a frame that nobody had.
LEMMA NewTableKeeps ==
    ASSUME LoaderInv, map_page_new_table, HeapInv'
    PROVE  LoaderInv'
<1> DEFINE d == PdIndex(vpage)
<1>1. PICK t \in Frames :
      /\ IsFirstFree(t) /\ pmm_alloc_block /\ MapReturns
      /\ page_direc' = [page_direc EXCEPT ![d] = t] /\ taken' = Append(taken, t)
  BY DEF map_page_new_table
<1>2. /\ pc = "map" /\ page_direc[d] = NONE
      /\ pte' = [v \in VPages |-> IF v = vpage THEN frame ELSE IF PdIndex(v) = d THEN NONE ELSE pte[v]]
  BY DEF map_page_new_table
<1>3. /\ t \notin pmmHeld /\ t \notin heapFrames /\ pmmHeld' = pmmHeld \cup {t}
      /\ phase' = "ready" /\ UNCHANGED <<total_memory, heapFrames>>
  BY <1>1, AllocBlock
<1>4. FreeFrames # {}
  BY <1>1 DEF IsFirstFree
<1>5. FramesOwned' /\ LaunchFramesDistinct' /\ taken' \in Seq(Frames)
  BY <1>1, <1>3, JoinsTaken DEF MapReturns
<1>6. /\ frame \in pmmHeld /\ frame \in Frames /\ vpage \in VPages /\ d \in DirEntries
      /\ \A e \in DirEntries : page_direc[e] # frame
      /\ page_direc \in [DirEntries -> Frames \cup {NONE}]
      /\ pte \in [VPages -> Frames \cup {NONE, GARBAGE}]
  BY <1>2, PdIndexValues DEF LoaderInv, MapArgument, HeapInv, PmmInv, TypeOK, LoaderTypeOK
<1>7. /\ page_direc' \in [DirEntries -> Frames \cup {NONE}] /\ page_direc'[d] = t
      /\ \A e \in DirEntries \ {d} : page_direc'[e] = page_direc[e]
  BY <1>1, <1>6
<1>8. /\ pte' \in [VPages -> Frames \cup {NONE, GARBAGE}] /\ pte'[vpage] = frame
      /\ \A v \in VPages \ {vpage} : pte'[v] = pte[v]
  <2>1. \A v \in VPages : PdIndex(v) = d => pte[v] = NONE
    BY <1>2 DEF LoaderInv, MapsOwned
  <2> QED BY <1>2, <1>6, <2>1
<1> HIDE DEF d
<1>9. \A v \in VPages : PdIndex(v) = d => page_direc'[PdIndex(v)] # NONE
  BY <1>7, FrameNumbers
<1>10. MapsOwned'
  <2>1. \A e \in DirEntries : page_direc'[e] # NONE => page_direc'[e] \in pmmHeld'
    BY <1>3, <1>7 DEF LoaderInv, MapsOwned
  <2>2. \A v \in VPages : pte'[v] \in pmmHeld' \cup {NONE, GARBAGE}
    BY <1>3, <1>6, <1>8 DEF LoaderInv, MapsOwned
  <2>3. \A v \in VPages : page_direc'[PdIndex(v)] = NONE => pte'[v] = NONE
    BY <1>7, <1>8, <1>9, PdIndexValues DEF LoaderInv, MapsOwned, d
  <2> QED BY <2>1, <2>2, <2>3 DEF MapsOwned
<1>11. TablesNotMapped'
  <2>1. \A v \in VPages : pte'[v] # t
    BY <1>3, <1>6, <1>8, FrameNumbers DEF LoaderInv, MapsOwned
  <2>2. \A v \in VPages, e \in DirEntries \ {d} : page_direc[e] # NONE => pte'[v] # page_direc[e]
    BY <1>6, <1>8 DEF LoaderInv, TablesNotMapped
  <2>3. \A e \in DirEntries : page_direc[e] # t
    BY <1>3, FrameNumbers DEF LoaderInv, MapsOwned
  <2>4. DOMAIN page_direc = DirEntries /\ DOMAIN page_direc' = DirEntries
    BY <1>6, <1>7
  <2> QED BY <1>7, <2>1, <2>2, <2>3, <2>4 DEF LoaderInv, TablesNotMapped
<1> QED BY <1>1, <1>2, <1>3, <1>4, <1>5, <1>7, <1>8, <1>10, <1>11, MapReturnsKeeps

\* map_page without a frame for the table.
LEMMA MapFailsKeeps ==
    ASSUME LoaderInv, map_page_fails, HeapInv'
    PROVE  LoaderInv'
<1>1. /\ pc = "map" /\ page_direc[PdIndex(vpage)] = NONE /\ pmm_alloc_block_fails /\ MapReturns
      /\ UNCHANGED <<page_direc, pte, taken>>
  BY DEF map_page_fails
<1>2. FreeFrames = {} /\ UNCHANGED vars /\ phase = "ready"
  BY <1>1, AllocFails
<1>3. FreeFrames' = {} /\ UNCHANGED <<total_memory, phase, pmmHeld, heapFrames, buffer>>
  BY <1>1, <1>2 DEF vars, FreeFrames, MapReturns
<1>4. pte[vpage] = NONE /\ pte' \in [VPages -> Frames \cup {NONE, GARBAGE}]
      /\ taken' \in Seq(Frames) /\ page_direc' \in [DirEntries -> Frames \cup {NONE}]
  BY <1>1 DEF LoaderInv, LoaderTypeOK, MapsOwned
<1>5. FramesOwned' /\ MapsOwned' /\ LaunchFramesDistinct' /\ TablesNotMapped'
  BY <1>1, <1>2, <1>3 DEF LoaderInv, FramesOwned, MapsOwned, LaunchFramesDistinct, TablesNotMapped
<1> QED BY <1>1, <1>3, <1>4, <1>5, MapReturnsKeeps

\* Every step of a launch preserves the invariant.
LEMMA LoaderInvStep == LoaderInv /\ [LoaderNext]_allvars => LoaderInv'
<1> SUFFICES ASSUME LoaderInv, [LoaderNext]_allvars PROVE LoaderInv'
  OBVIOUS
<1>1. HeapInv'
  BY StepOfPhysMem, HeapInvStep DEF LoaderInv
<1>2. CASE UNCHANGED allvars
  <2>1. UNCHANGED <<vars, pc, cmd, file, buffer, vpage, frame, page_direc, pte, stack, image, taken>>
    BY <1>2 DEF allvars, lvars
  <2>2. /\ FramesOwned' /\ MapsOwned' /\ LaunchFramesDistinct' /\ TablesNotMapped'
        /\ FreeFrames' = FreeFrames /\ \A v \in VPages : Present(v)' = Present(v)
    BY <2>1, MovesOn DEF LoaderInv, FramesOwned
  <2>3. LoaderTypeOK' /\ MapArgument' /\ HaltsOnlyWhenExhausted'
    BY <2>1, <2>2 DEF LoaderInv, LoaderTypeOK, MapArgument, HaltsOnlyWhenExhausted, vars
  <2>4. \A v \in 1..ELF_PAGES : Present(v)' = Present(v)
    BY <2>2, PdIndexValues
  <2>5. UserPagesMapped'
    BY <2>1, <2>4 DEF LoaderInv, UserPagesMapped
  <2>6. ImageMapped' = ImageMapped
    BY <2>1, <2>4 DEF ImageMapped
  <2>7. \A v \in 1..(vpage - 1) : Present(v)' = Present(v)
    BY <2>2, LoaderAssumption DEF LoaderInv, LoaderTypeOK, VPages, STACK_PAGE
  <2>8. ElfSoFar' = ElfSoFar
    BY <2>1, <2>2, <2>7 DEF ElfSoFar
  <2>9. MappedOrOut(FLAT_PAGE, image)' = MappedOrOut(FLAT_PAGE, image)
        /\ MappedOrOut(STACK_PAGE, stack)' = MappedOrOut(STACK_PAGE, stack)
    BY <2>1, <2>2 DEF MappedOrOut, FLAT_PAGE, STACK_PAGE
  <2>10. LaunchSoFar'
    BY <2>1, <2>6, <2>8, <2>9 DEF LoaderInv, LaunchSoFar
  <2> QED BY <1>1, <2>2, <2>3, <2>5, <2>10 DEF LoaderInv
<1>3. CASE run \/ spawn
  BY <1>1, <1>3, LaunchKeeps DEF run, spawn
<1>4. CASE read_fails \/ exit
  BY <1>4, GivesUpKeeps DEF read_fails, exit
<1>5. CASE elf_page_fails \/ flat_alloc_fails \/ stack_alloc_fails
  BY <1>5, AllocFails, GivesUpKeeps DEF elf_page_fails, flat_alloc_fails, stack_alloc_fails
<1>6. CASE idle
  BY <1>2, <1>6 DEF idle
<1> QED
  BY <1>1, <1>2, <1>3, <1>4, <1>5, <1>6, BootKeeps, ReadKeeps, ElfPresentKeeps, ElfAllocKeeps,
     ElfCopyKeeps, MapPageKeeps, NewTableKeeps, MapFailsKeeps, FlatAllocKeeps, FlatCopyKeeps,
     StackAllocKeeps, StackClearKeeps, PcbKeeps
  DEF LoaderNext

-----------------------------------------------------------------------------
(* The theorems.                                                           *)

\* Every sequence of launches uses the allocators as PhysMem's Spec says, so what is
\* proved of PhysMem holds of the shell's run and spawn.
THEOREM LaunchesImplementPhysMem == LoaderSpec => Spec
<1>1. LoaderInit => Init
  BY DEF LoaderInit
<1> QED BY <1>1, StepOfPhysMem, PTL DEF LoaderSpec, Spec

\* The PMM never hands a launch a frame of the heap: the buffers and PCBs of all
\* earlier launches, and the boot-time tables.
THEOREM LaunchesAvoidHeap == LoaderSpec => PmmAvoidsHeap
  BY LaunchesImplementPhysMem, PmmAvoidsHeapThm, PTL

\* The image, stack and table frames of a launch are distinct and none is the buffer.
THEOREM LaunchFramesDistinctThm == LoaderSpec => []LaunchFramesDistinct
<1>1. LoaderInv => LaunchFramesDistinct
  BY DEF LoaderInv
<1> QED BY <1>1, LoaderInvInit, LoaderInvStep, PTL DEF LoaderSpec

\* No entry that map_page wrote maps a page table into user space, though tables and pages
\* come from one pool, and no two directory entries share a table.
THEOREM TablesNotMappedThm == LoaderSpec => []TablesNotMapped
<1>1. LoaderInv => TablesNotMapped
  BY DEF LoaderInv
<1> QED BY <1>1, LoaderInvInit, LoaderInvStep, PTL DEF LoaderSpec

\* A program that run enters has the stack and the image of its own launch.
THEOREM UserPagesMappedThm == LoaderSpec => []UserPagesMapped
<1>1. LoaderInv => UserPagesMapped
  BY DEF LoaderInv
<1> QED BY <1>1, LoaderInvInit, LoaderInvStep, PTL DEF LoaderSpec

\* A launch faults in the kernel only when the PMM has no frame left, or for a file whose
\* size or segment end nobody checks.
THEOREM HaltsOnlyWhenExhaustedThm == LoaderSpec => []HaltsOnlyWhenExhausted
<1>1. LoaderInv => HaltsOnlyWhenExhausted
  BY DEF LoaderInv
<1> QED BY <1>1, LoaderInvInit, LoaderInvStep, PTL DEF LoaderSpec
=============================================================================
