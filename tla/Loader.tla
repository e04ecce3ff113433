------------------------------- MODULE Loader -------------------------------
(***************************************************************************)
(* How CIndy-OS starts a program: the shell commands run and spawn         *)
(* (src/keyboard.c, task_create_from_elf in src/process.c), the ELF loader *)
(* and map_page (src/paging.c), on top of the two allocators of module     *)
(* PhysMem.                                                                *)
(*                                                                         *)
(* A command runs inside the keyboard interrupt: its steps follow one      *)
(* another, each with one call of an allocator.  The virtual pages are     *)
(* those a program uses; a frame has no contents here, but writing to a    *)
(* frame that is in use as a page table changes what the table maps.       *)
(* Only the user pages' tables are modelled: the directory and the         *)
(* identity map are heap blocks from boot.  An ELF file has one loadable   *)
(* segment, at 0x08048000 unless its end wraps.                            *)
(***************************************************************************)
EXTENDS PhysMem

CONSTANTS
    ELF_PAGES,   \* pages of the ELF image, from 0x08048000
    ELF_PDE,     \* entry of the page directory for the ELF image (32)
    PCB_BYTES    \* sizeof(struct process)

\* The heap blocks of a launch are the file buffer and the PCB.
ASSUME LoaderAssumption ==
    /\ ELF_PAGES \in Nat \ {0} /\ ELF_PDE \in Nat /\ PCB_BYTES \in 1..4096
    /\ {4096, PCB_BYTES} \subseteq HeapSizes

VARIABLES
    pc,          \* where the command is; "shell" between commands
    cmd,         \* "run" or "spawn"
    file,        \* the kind of the file that was read, see Kinds; "none" before
    buffer,      \* frame of the buffer the file is read into
    vpage,       \* the virtual page at hand
    frame,       \* the frame to be mapped there
    page_direc,  \* the frame of each user page table, or NONE
    pte,         \* what each user page maps to
    stack,       \* history: frame of this launch's user stack
    image,       \* history: frame of this launch's flat image
    taken        \* history: frames that this launch got from pmm_alloc_block

lvars == <<pc, cmd, file, buffer, vpage, frame, page_direc, pte, stack, image, taken>>
allvars == <<vars, lvars>>

NONE == -1      \* not present
GARBAGE == -2   \* present, with whatever was written over the entry

FLAT_PAGE == 0                 \* 0x40000000
STACK_PAGE == ELF_PAGES + 1    \* 0x80000000
VPages == 0..STACK_PAGE

\* virtual_addr >> 22: the image of an ELF program, a flat program and the stack
\* have a page table each.
PdIndex(v) == IF v = FLAT_PAGE THEN "flat" ELSE IF v = STACK_PAGE THEN "stack" ELSE "elf"

-----------------------------------------------------------------------------

LoaderInit ==
    /\ Init
    /\ pc = "shell" /\ cmd = "run" /\ file = "none"
    /\ buffer = NONE /\ vpage = 0 /\ frame = NONE /\ stack = NONE /\ image = NONE
    /\ page_direc = [d \in {"flat", "elf", "stack"} |-> NONE]
    /\ pte = [v \in VPages |-> NONE]
    /\ taken = <<>>

BootStep == Boot /\ UNCHANGED lvars

\* The frame that kmalloc_a hands out next.
NextHeapFrame == PageAlign(free_mem_addr) \div 4096

\* Bytes are written to frame f: the entries of a page table there may change.
Overwrite(f) ==
    \E kept \in SUBSET VPages, x \in {NONE, GARBAGE} :
        pte' = [v \in VPages |-> IF page_direc[PdIndex(v)] = f /\ v \notin kept THEN x ELSE pte[v]]

\* One call of pmm_alloc_block, which succeeds with the result in frame.
AllocFrame ==
    /\ pmm_alloc_block
    /\ frame' \in {f \in Frames : IsFirstFree(f)}
    /\ taken' = Append(taken, frame')

\* get_pte: the identity map may reach the ELF image.
Identity == ELF_PDE < RequiredPdes(total_memory)
Present(v) == pte[v] # NONE \/ (PdIndex(v) = "elf" /\ Identity)

\* The command is over, with a message, and nothing is given back.
GivesUp == pc' = "shell" /\ UNCHANGED <<cmd, file, buffer, vpage, frame, page_direc, pte, stack, image, taken>>

\* A bound of the model: both heap blocks of a launch fit below the end of the bitmap.
LaunchRoom == NextHeapFrame + 2 <= BITMAP_FRAMES

\* kmalloc_a(4096) for the file.
Launch(c) ==
    /\ pc = "shell"
    /\ LaunchRoom
    /\ kmalloc_a(4096)
    /\ pc' = "read" /\ cmd' = c /\ file' = "none"
    /\ buffer' = NextHeapFrame
    /\ stack' = NONE /\ image' = NONE /\ taken' = <<>>
    /\ UNCHANGED <<vpage, frame, page_direc, pte>>

run == Launch("run")
spawn == Launch("spawn")

\* fat16_read_file finds nothing.
read_fails ==
    /\ pc = "read"
    /\ GivesUp /\ UNCHANGED vars

\* What a file can be.  "large" files are longer than the buffer of 4096 bytes:
\* fat16_read_file fills the buffer and answers with the length in the directory, and
\* the caller goes on with that length.  The segment of "elf_wrapped" ends beyond the
\* last address, p_vaddr + p_memsz >= 2^32.  "bad" is an ELF file that load_elf_program
\* refuses before it maps anything.
ElfKinds == {"elf", "elf_large", "elf_wrapped"}
FlatKinds == {"flat", "flat_large"}
Kinds == ElfKinds \cup FlatKinds \cup {"bad"}

\* The files whose sizes are taken as they are found.
UncheckedSizes == {"elf_large", "elf_wrapped", "flat_large"}

\* The file is in the buffer; spawn accepts ELF files only.
read_file(kind) ==
    /\ pc = "read"
    /\ Overwrite(buffer)
    /\ file' = kind
    /\ pc' = IF kind \in ElfKinds THEN "elf"
             ELSE IF kind \in FlatKinds /\ cmd = "run" THEN "flat" ELSE "shell"
    /\ vpage' = 1
    /\ UNCHANGED <<vars, cmd, buffer, frame, page_direc, stack, image, taken>>

-----------------------------------------------------------------------------
(* load_elf_program: map the pages of the image, then copy it.             *)

\* vaddr < map_end: with an end that wraps, the loop makes no turn.
ElfPagesLeft == vpage <= ELF_PAGES /\ file # "elf_wrapped"

elf_page_present ==
    /\ pc = "elf" /\ ElfPagesLeft /\ Present(vpage)
    /\ vpage' = vpage + 1
    /\ UNCHANGED <<vars, pc, cmd, file, buffer, frame, page_direc, pte, stack, image, taken>>

elf_page_alloc ==
    /\ pc = "elf" /\ ElfPagesLeft /\ ~Present(vpage)
    /\ AllocFrame
    /\ pc' = "map"
    /\ UNCHANGED <<cmd, file, buffer, vpage, page_direc, pte, stack, image>>

elf_page_fails ==
    /\ pc = "elf" /\ ElfPagesLeft /\ ~Present(vpage)
    /\ pmm_alloc_block_fails
    /\ GivesUp

\* memcpy and memset to the pages; a further program header may still be refused.
\* Through an entry that was written over the copy lands anywhere: what follows is not
\* modelled.  A segment that wraps runs into the page below 2^32, which the loop above
\* can map for no segment, unless it starts so low that it writes over the kernel
\* first.  Of a large file the headers and the contents may lie behind the buffer, the
\* contents even behind the identity map.
elf_copy ==
    /\ pc = "elf" /\ ~ElfPagesLeft
    /\ IF file = "elf_wrapped" THEN pc' \in {"halted", "lost"}
       ELSE IF \E v \in 1..ELF_PAGES : ~Present(v) THEN pc' = "halted"
       ELSE IF ~Identity /\ \E v \in 1..ELF_PAGES : pte[v] = GARBAGE THEN pc' = "lost"
       ELSE pc' \in {"stack", "shell"} \cup IF file = "elf_large" THEN {"halted", "lost"} ELSE {}
    /\ UNCHANGED <<vars, cmd, file, buffer, vpage, frame, page_direc, pte, stack, image, taken>>

-----------------------------------------------------------------------------
(* map_page(frame, vpage).                                                 *)

\* Back in the caller: the flat image is copied, the stack cleared, or the next page
\* of the ELF image looked at.
MapReturns ==
    /\ pc' = CASE vpage = FLAT_PAGE -> "flat_copy" [] vpage = STACK_PAGE -> "stack_clear" [] OTHER -> "elf"
    /\ vpage' = IF PdIndex(vpage) = "elf" THEN vpage + 1 ELSE vpage
    /\ UNCHANGED <<cmd, file, buffer, frame, stack, image>>

\* Mutant: the entry of a table that exists is not written.
map_page_unwritten ==
    /\ pc = "map" /\ page_direc[PdIndex(vpage)] # NONE
    /\ MapReturns
    /\ UNCHANGED <<vars, page_direc, pte, taken>>

map_page ==
    /\ pc = "map" /\ page_direc[PdIndex(vpage)] # NONE
    /\ pte' = [pte EXCEPT ![vpage] = frame]
    /\ MapReturns
    /\ UNCHANGED <<vars, page_direc, taken>>

\* A new table, cleared but for the entry.
map_page_new_table ==
    /\ pc = "map" /\ page_direc[PdIndex(vpage)] = NONE
    /\ pmm_alloc_block
    /\ \E t \in {f \in Frames : IsFirstFree(f)} :
        /\ page_direc' = [page_direc EXCEPT ![PdIndex(vpage)] = t]
        /\ taken' = Append(taken, t)
    /\ pte' = [v \in VPages |-> IF v = vpage THEN frame
                                ELSE IF PdIndex(v) = PdIndex(vpage) THEN NONE ELSE pte[v]]
    /\ MapReturns

\* The caller is not told.
map_page_fails ==
    /\ pc = "map" /\ page_direc[PdIndex(vpage)] = NONE
    /\ pmm_alloc_block_fails
    /\ MapReturns
    /\ UNCHANGED <<page_direc, pte, taken>>

-----------------------------------------------------------------------------
(* The flat image and the user stack.                                      *)

flat_alloc ==
    /\ pc = "flat"
    /\ AllocFrame
    /\ pc' = "map" /\ vpage' = FLAT_PAGE /\ image' = frame'
    /\ UNCHANGED <<cmd, file, buffer, page_direc, pte, stack>>

flat_alloc_fails ==
    /\ pc = "flat"
    /\ pmm_alloc_block_fails
    /\ GivesUp

\* memcpy to a page that is not present is a page fault: fault_handler stops the
\* machine.  A large file goes on at 0x40001000, where only an entry that was written
\* over is present.
flat_copy ==
    /\ pc = "flat_copy"
    /\ IF ~Present(FLAT_PAGE) THEN pc' = "halted"
       ELSE IF file # "flat_large" THEN pc' = "stack"
       ELSE pc' \in {"halted"} \cup IF page_direc["flat"] \in heapFrames THEN {"lost"} ELSE {}
    /\ UNCHANGED <<vars, cmd, file, buffer, vpage, frame, page_direc, pte, stack, image, taken>>

stack_alloc ==
    /\ pc = "stack"
    /\ AllocFrame
    /\ pc' = "map" /\ vpage' = STACK_PAGE /\ stack' = frame'
    /\ UNCHANGED <<cmd, file, buffer, page_direc, pte, image>>

stack_alloc_fails ==
    /\ pc = "stack"
    /\ pmm_alloc_block_fails
    /\ GivesUp

\* Mutant: the stack is not cleared, so a page that is missing is not noticed.
stack_clear_skipped ==
    /\ pc = "stack_clear"
    /\ pc' = IF cmd = "run" THEN "user" ELSE "pcb"
    /\ UNCHANGED <<vars, cmd, file, buffer, vpage, frame, page_direc, pte, stack, image, taken>>

\* memset of the stack; run enters the program, spawn makes a PCB first.
stack_clear ==
    /\ pc = "stack_clear"
    /\ pc' = IF ~Present(STACK_PAGE) THEN "halted" ELSE IF cmd = "run" THEN "user" ELSE "pcb"
    /\ UNCHANGED <<vars, cmd, file, buffer, vpage, frame, page_direc, pte, stack, image, taken>>

\* The PCB is allocated and cleared, and the program entered.
make_pcb ==
    /\ pc = "pcb"
    /\ kmalloc_a(PCB_BYTES)
    /\ Overwrite(NextHeapFrame)
    /\ pc' = "user"
    /\ UNCHANGED <<cmd, file, buffer, vpage, frame, page_direc, stack, image, taken>>

\* SYS_EXIT and kernel_return: nothing is unmapped or freed.
exit ==
    /\ pc = "user"
    /\ GivesUp /\ UNCHANGED vars

\* The shell waits for a key; fault_handler's loop; a machine that lost its way.
idle == pc \in {"shell", "halted", "lost"} /\ phase = "ready" /\ UNCHANGED allvars

LoaderNext ==
    \/ BootStep \/ run \/ spawn \/ read_fails
    \/ \E kind \in Kinds : read_file(kind)
    \/ elf_page_present \/ elf_page_alloc \/ elf_page_fails \/ elf_copy
    \/ map_page \/ map_page_new_table \/ map_page_fails
    \/ flat_alloc \/ flat_alloc_fails \/ flat_copy
    \/ stack_alloc \/ stack_alloc_fails \/ stack_clear \/ make_pcb
    \/ exit \/ idle

LoaderSpec == LoaderInit /\ [][LoaderNext]_allvars

-----------------------------------------------------------------------------
(* Properties.                                                             *)

\* The frames that one launch gets for the image, the stack and new page tables are
\* distinct, and none of them is the frame of the buffer that holds the file until
\* it has been copied: the collision that pmm_mark_used was added for, and that the
\* comments in load_elf_program and in run still expect (keyboard.c:66-73, 86-89 and
\* 356-360); pmm_mark_used in kmalloc_a (memory.c:72-75) rules it out.
LaunchFramesDistinct ==
    /\ \A i, j \in 1..Len(taken) : i # j => taken[i] # taken[j]
    /\ \A i \in 1..Len(taken) : taken[i] # buffer

\* No user page maps a frame that holds a page table, by an entry that map_page wrote, and
\* two directory entries never share one: map_page takes its tables from the pool the user
\* frames come from.
TablesNotMapped ==
    /\ \A v \in VPages, d \in DOMAIN page_direc : page_direc[d] # NONE => pte[v] # page_direc[d]
    /\ \A d, e \in DOMAIN page_direc : page_direc[d] = page_direc[e] /\ page_direc[d] # NONE => d = e

\* A program that run has entered has its own new stack at 0x80000000 and, if it is a
\* flat one, its own image at 0x40000000, never the page of an earlier launch, though
\* map_page does not report its failures and old mappings are never removed.
UserPagesMapped ==
    pc = "user" /\ cmd = "run" =>
        /\ pte[STACK_PAGE] = stack
        /\ IF image # NONE THEN pte[FLAT_PAGE] = image
                           ELSE \A v \in 1..ELF_PAGES : Present(v)

\* A launch stops the machine only when there is no free frame (the page fault after
\* map_page could not get a page table), but for the files whose sizes nobody checks: a
\* flat file longer than its page (keyboard.c:361 copies the length of the directory),
\* an ELF file longer than the buffer, and a segment whose end wraps (keyboard.c:80).
HaltsOnlyWhenExhausted ==
    pc = "halted" => FreeFrames = {} \/ file \in UncheckedSizes
=============================================================================
