# CIndy-OS: a TLA+ model of the kernel

CIndy-OS is a 32-bit x86 teaching kernel: GRUB loads it, it sets up paging and two
memory allocators, mounts a FAT16 disk, and gives a shell whose commands run user
programs in ring 3. This directory models the parts of it that keep state, checks
them with TLC on small instances and proves the central facts about them with TLAPS.

## 1. The system

| Component (source) | State | Operations | Used by |
|---|---|---|---|
| Heap and frame allocator (`memory.c`) | `free_mem_addr`, `total_memory`, `allocated_memory`, `mem_bitmap`, `max_frames` | `init_memory`, `kmalloc`, `kmalloc_a`, `init_pmm`, `pmm_alloc_block`, `pmm_free_block`, `pmm_mark_used` | paging, program launch |
| Paging (`paging.c`) | `page_direc`, the page tables | `init_paging`, `map_page`, `get_pte`, `validate_user_region` | launch, system calls |
| Program launch (`keyboard.c` `run`/`spawn`, `process.c` `task_create_from_elf`) | locals, the frames taken | read the file, load ELF or flat image, map, stack, PCB, enter ring 3 | shell |
| Processes (`process.c`), scheduler (`scheduler.c`) | `curr_proc`, `ready_head`, `ready_tail`, `next_pid`, the PCBs | enqueue, dequeue, yield, create, schedule | `spawn`, `SYS_YIELD` |
| System calls (`syscall.c`, `isr.asm`, `usermode.asm`) | `last_exit_status`, `syscall_exit_requested`, `saved_kernel_esp` | exit, write, read, open, close, yield | user programs, `int 0x80` |
| FAT16 (`fat16.c`) over ATA (`ata.c`) | geometry; the disk | init, ls, read file, write file | shell, launch |
| Shell line editor (`keyboard.c`) | `input_buffer`, `buffer_index`, shift and caps | a key, a command | IRQ 1 |
| Interrupts (`idt.c`, `pic.c`, `timer.c`, `isr.asm`, `kernel.c`), ring-3 entry (`usermode.asm`, `gdt.c`) | kernel stack, interrupt flag, PIC lines, `tss.esp0`, `saved_kernel_esp` | IRQ 0, IRQ 1, `int 0x80`, entry to and return from ring 3, faults | everything |
| Screen, serial (`screen.c`) | cells, cursor | print, scroll, clear | `kernel_main` and the shell, at once |
| Tar initrd (`fs.c`) | `initrd_address` | ls, cat | shell |
| Strings (`string.c`), GDT, boot code | tables | | |

How they interact. `kernel_main` enables interrupts and then initialises memory,
paging, the frame allocator, the disk and the process table, in this order. After that
it only halts: everything happens in IRQ 1. A key goes to the line editor; Enter runs
`execute_command` inside the interrupt, and `run` and `spawn` enter ring 3 from there
with interrupts on. The program comes back through `int 0x80`; SYS_EXIT abandons the
interrupt frame and returns to the launcher by `saved_kernel_esp`.

What is hard here:

- two allocators hand out the same physical memory, and only one of them reads the
  bitmap; the damage of a wrong hand-out shows several commands later;
- process state outlives the program (`curr_proc` after SYS_EXIT), and SYS_YIELD edits
  an interrupt frame by hand;
- user pointers: unaligned regions, page boundaries, 32-bit wrap-around;
- a file is written sector by sector, without a journal or a repair at boot;
- the drive works on its own while the driver goes on, and is told what to do through
  registers it may ignore;
- commands and user programs run inside an interrupt, and interrupts are enabled
  before the system is initialised; the cursor is shared by both sides.

What makes each component correct: memory - nothing is handed out twice, only RAM is,
exhaustion and accounting are reported truthfully; launch - the frames of a launch are
its own and mapped when the program starts, and a failure is reported and not fatal;
processes - the list is a FIFO queue, states agree with it, a program resumes where it
stopped; system calls - only the caller's memory is read, answers are truthful, no call
stops the kernel; FAT16 - a file in the directory is complete whatever was
interrupted, and what is written lands where the format puts it; ATA - a read returns
what was written, and a call ends; interrupts - commands do not overlap, a program's
exit finds its launcher, no line is starved; shell - what is shown is what Enter runs;
screen - the cursor stays on it; tar, conversions - they compute what they should.
`hazards` in PROJECT.json lists the places in the code.

## 2. Modules

| Module | Models | Composes |
|---|---|---|
| `PhysMem` | `memory.c`, heap use of `init_paging`, boot order | |
| `Loader` | `run`, `spawn`, ELF loader, `map_page`, `get_pte` | EXTENDS `PhysMem`: every allocation is an action of it |
| `ReadyQueue` | abstract specification: a FIFO ready queue | |
| `Process` | `process.c`, `scheduler.c`, SYS_YIELD, ring-3 entry and exit | implements `ReadyQueue` |
| `Syscall` | `handle_syscall` without SYS_YIELD, `validate_user_region` | |
| `FatLayout` | `fat16_init`, the sector numbers of all writes, as operators | |
| `Fat16` | `fat16_read_file`, `fat16_write_file`, `fat16_ls`, power loss | EXTENDS `FatLayout`: the geometry of its disk |
| `Ata` | `ata.c` and the drive (external) | |
| `Interrupts` | boot order, IRQ 0, IRQ 1, EOI, commands, ring 3, `int 0x80`, the kernel stack | |
| `Screen` | `screen.c` as operators on a screen | |
| `Console` | `kernel_main`'s print, statement by statement | EXTENDS `Screen` |
| `Keyboard` | line editor, argument parser, the ways out of `execute_command`, interrupting that print | EXTENDS `Console` |
| `Encoding` | `print_int`, `print_hex`, `fat16_format_83`, `idt_set_gate`, `write_tss_descriptor`, as operators | |
| `Tar` | `fs.c` | EXTENDS `Encoding`: `tar_ls` prints sizes with `print_int` |
| `MC*` | small instances for TLC | |
| `*Proofs` | theorems | |

Names in the modules are those of the source. Definitions whose comment starts with
"Mutant:" are wrong variants of the definition that follows them. They are used by no
specification; each shows that a property notices the bug it describes.

**PhysMem.** Addresses are byte numbers, `mem_bitmap` is the set of frames whose bit is
1. Boot is one action per function, with one step per entry for the two walks over the
memory map; whether GRUB passed a map (`mmap_flag`) is chosen initially. `heapFrames`,
`heapBytes` and `pmmHeld` are history variables: who was given what. `Spec` is what the
kernel does; `ApiSpec` adds `pmm_free_block`, which nothing calls yet. Assumed of the
memory map: RAM regions are page-aligned and lie inside the 1 GiB that the bitmap
describes (the code checks neither); and that the kernel was started by a multiboot loader:
the return of `init_memory` for a wrong magic number (`memory.c:21`), after which `init_pmm`
would read a map that nobody passed, is left out.

**Loader.** A launch is a sequence of steps with one allocator call each. Virtual pages
are the flat image page, the pages of the ELF image and the stack page, each group under
a directory entry of its own (0x40000000, 0x08048000 and 0x80000000). A frame has no
contents, with one exception: bytes written to a frame that is in use as a page table
make its entries absent or garbage (`Overwrite`). This is real: the heap takes frames that the
PMM gave to page tables. An ELF image copied through such an entry lands anywhere; the
model stops there ("lost"). A write to a page that is not present is a page fault, at
which `fault_handler` halts ("halted"). ELF files have one loadable segment, in which the
entry point lies. `file` is the kind of the file: besides files that fit there are those longer
than the buffer, whose callers go on with the length in the directory, and segments whose end
wraps around. Where these lead to memory that is neither a page of the launch nor absent, the
model stops too.

**Process.** Register contents are tokens: which program computed the value, at which of
its steps. `rq` holds head, tail and the `next` fields; `fifo` is the history of arrivals.
`Spec` has the shell's commands and the system calls; `TasksSpec` adds
`task_create_from_elf` on its own, which leaves a task in the queue; `ApiSpec` adds
`proc_yield` and `schedule`, which are exported and have no caller. The esp field that
SYS_YIELD writes is the slot `popa` skips, so the CPU's stack pointer changes only when
`jump_to_usermode` runs.

**Syscall.** Addresses are modulo `WORD`. The set of mapped pages is arbitrary and fixed
for a call. A page is either absent or user-accessible, as all mappings the kernel makes
have flags 7. SYS_WRITE's loop is one action per chunk: the validation, the copy, the
print. `touched` records what was read.

**Fat16, FatLayout.** Each `ata_write_sector` is one step, durable at its end (observation 7
is about the flush that should make it so), and `power_loss` can come between any two. Sizes
count sectors and sector contents are tokens: which write stored it, and which sector of the
file it is. FAT 2 is written by copying the sector of FAT 1. The initial disk is fresh or has
been used by another system, with a deleted and a long-name entry and a fragmented file, or
with an empty file, which has no cluster (this driver writes none). In general it is any disk on
which each file has a chain of its own and no other cluster is allocated (`IsSoundDisk`; its end
marks are written 0xFFFF). A write of more than one cluster is beyond what the shell offers (254 bytes), and within the
driver's interface. `failures` is history: the number of writes that ended with an error.
The clusters, the directory slots and the sectors per cluster come from the disk's boot sector
`g_bpb` through the arithmetic of `FatLayout`, in which a write is a sector number with a
description of its content. `LayoutKept` compares these with the layout the format defines
(`Region`, `VolumeClusters`); it is why `Fat16` may keep the tables, the directory and the
data in separate variables. Assumed of a boot sector (`Formatted`): a reserved sector, one or
more FATs that are large enough, a directory of whole sectors, and cluster numbers below the end
marks, which by its definition every FAT16 volume satisfies and fat16_init does not check. The
driver writes two tables whatever the volume has: `Misplaced` says where the second one of a
volume with one FAT goes, and `Fat16` starts only with volumes that have a second one.

**Ata.** One action per group of register accesses. The drive is external: it becomes ready,
stores when it likes, and while it is busy it ignores its registers. It may
report an error for a sector, which the driver does not look at. Words are tokens.
`ata_wait_ready`'s second loop waits for a bit (DRDY) that a working drive always sets.
Assumed (`AtaAssumption`): LBAs lie below 2^24. The callers are `fat16.c`, for a volume that
starts at sector 0 and as FAT16 ends below that, and the test commands, for sector 1. The head
bits of the device register are then always 0, so that it does not matter that this register is
written before the wait and the write may be lost.

**Interrupts.** The kernel stack is a sequence of frames, each with its owner, where that
is, and the ring and interrupt flag its `iret` restores. `tss.esp0` and `saved_kernel_esp`
are depths of that stack, and an interrupt in ring 3 cuts the stack at `tss.esp0`: if that
is wrong, frames are lost, as in the machine. Keys are abstracted to what they do: edit, or
Enter on a line with a command of some kind. The PIC (priorities, non-specific EOI), the
keyboard controller (a queue, one request at a time) and the timer are external. The tick
counter is left out. A command that uses the disk may hang in a poll loop (`ata_hangs`), and a
launcher that gets control back with another EBP may go astray (`kernel_return`), after which
the machine stops.

**Screen, Console, Keyboard.** Colours, the hardware cursor and the serial port are left
out. `Console` splits `cursor_col++` and `cursor_row++` of `kernel_main`'s print into a load
and a store. `Keyboard` handles a key as one step between any two of these, which
`OneCommand` of `Interrupts` justifies. A command's output
is any of a few texts; `run` may leave by its early returns. Two history variables qualify
`EchoMatchesBuffer`: `stale`, when the line on the screen is not the one in the buffer (after
observation 10, and for a line begun during boot), and `littered`, when keys were mixed with
`kernel_main`'s output and the screen has not been cleared since: a character can then stay
behind the cursor. Assumed (`EchoAssumption`): a prompt and a full buffer fit on the screen (in
the kernel 12 + 256 characters on 2000 cells; the code does not check it), `kernel_main` ends
with the prompt on a row of its own, and no command prints a backspace, which `cat` of a file
that contains one would.

**Tar, Encoding.** The archive is chosen initially, and the loops of `fs.c` walk it header by
header; the inputs of the conversions are chosen in one step (`MCTar`). Widths are scaled (blocks of four bytes, half bytes of one bit, names of two
characters) with the structure kept: two half bytes to a byte, four bytes to a word, a limit of
five half bytes, a sign, an extension. Assumed: half a byte
has at most 16 values, so that the 32 turns `Digits` allows are enough in any base
(`EncodingAssumption`); and of an archive, which the tar program writes, that a size field holds
the size in octal between other characters (`IsOctal`), that sizes are ints, and that a file has
a name (`ArchivesAssumption`).

## 3. Runs

| Run | Checks | Result |
|---|---|---|
| `physmem` | `PmmHandsOutRam`, `HeldStaysMarked`, `AccountingExact`, `NoFalseExhaustion` | holds |
| `loader` | `LaunchFramesDistinct`, `TablesNotMapped`, `UserPagesMapped`, `HaltsOnlyWhenExhausted`, `PmmAvoidsHeap` | holds |
| `loader_sync` | `AllocatorsDisjoint` | violated: finding 1 |
| `process` | `ListIsFifo`, `StateMatchesQueue`, `ImplementsReadyQueue`, `ShellYieldComesBack` | holds |
| `process_stack` | `OwnStack` | violated: finding 2 |
| `fat16` | `ChainsSound`, `FilesIntact`, `MirrorLag`, `LeaksOnlyOnFailure`, `LayoutKept`, `ReadChangesOnlyByWrite`, `WriteTerminates` | holds |
| `syscall` | `TouchesUserOnly`, `PrefixWritten`, `ShortOnlyAtBadByte`, `WriteEnds` | holds |
| `syscall_fault` | `NeverFaults` | violated: finding 3 |
| `interrupts` | `InServiceMatchesStack`, `OneCommand`, `LauncherFrame`, `TickServed`, `KeysServed` | holds |
| `ata` | `ReadsLastWrite`, `InStep`, `HangsOnlyOnError` | holds |
| `keyboard` | `CursorRecovers`, `WritesNearScreen`, `Terminated`, `EchoMatchesBuffer`, `ArgvIsSplit` | holds |
| `tar` | `AnswersRight`, `NumbersRecovered`, `NamesDistinguished` | holds |

What they show:

- Memory: whatever the order of calls, the frame allocator hands out RAM only, no frame
  twice and none of the heap's; but not the other way round (finding 1). A launch's frames
  differ from each other even so, its page tables are not mapped into a program, and the
  machine halts in a launch only when memory is used up or the file is one of observation 2.
- Processes: the linked list is a FIFO queue under every sequence of calls. With the shell's
  commands a yield always comes back to its caller with its registers.
- Files: no power loss leaves an entry in the directory whose chain or data is incomplete;
  FAT 2 lags by one entry per power loss; clusters leak only through power losses and failed
  writes; what a name reads as changes only by a write of that name.
- Interrupts: although programs run inside the keyboard interrupt, with interrupts on,
  commands never overlap, an exit finds its launcher's frame, ticks and keys are served,
  unless a command hangs on the drive, which it does with interrupts off.
- Console: a key that interrupts `cursor_row++` can push output one row below the screen, no
  further, and the cursor is back on it after each character.

Findings, in short (PROJECT.json quotes the documents):

1. `kmalloc_a` marks its frames for the PMM but does not avoid the PMM's: the second
   `run` reads its file into a frame of the first one's program, the third one into a
   page table. In `spawn` the PCB is allocated after the image and clears the start of
   the program's own page.
2. SYS_YIELD to another task does not switch the user stack pointer. It needs a second
   task in the queue, which no shell command leaves there.
3. `validate_user_region` does not look at the page in which an unaligned region ends.

Other observations made while modelling, which no run states as a property:

1. SYS_EXIT leaves `curr_proc` set: the yield of a later program without a PCB is saved into
   the PCB of the process that exited (`sys_exit`, `sys_yield` of `Process`). With the
   shell's commands this does no harm: `ShellYieldComesBack`.
2. `fat16_read_file` returns the file's size also when it copied less (`fat16.c:221`; the
   comment at `process.c:106` says "return the space taken"). `fat-cat` ends its buffer
   at that index. `run` copies that many bytes of a flat file to its page
   (`keyboard.c:361`), so one longer than 4096 bytes faults at 0x40001000 and halts the machine.
   `load_elf_program` checks the offsets of headers and segments against it
   (`keyboard.c:53`, 64), and reads behind the buffer. There too the end of a segment may wrap
   (`keyboard.c:80`): no page is mapped, and the copy faults. `HaltsOnlyWhenExhausted` excepts
   these files (`UncheckedSizes`).
3. The identity map is as long as the sum of the RAM regions and starts at 0 (`paging.c:21`).
   RAM with a hole in it ends higher, so a frame near its end may lie above the map, in
   which `map_page` clears page tables.
4. Writing a name that exists adds a second entry, and reading finds the one in the lower
   slot (`fat16.c:272`): usually the old file.
5. The second copy of a FAT sector is written also when the volume has one FAT, and then
   lands in the root directory, or in the data behind it (`fat16.c:63`; `Misplaced`,
   `LayoutKept`).
6. `write-test` and `read-test` use sector 1 (`keyboard.c:270`), which is the FAT's when the
   volume has one reserved sector.
7. The flush command is sent while the drive is busy with the sector (`ata.c:56`), and a busy
   drive ignores commands (`flush` and `Command` of `Ata`).
8. A line typed during boot is executed before the subsystems it uses are initialised
   (`kernel.c:150`, `BootSeq` of `Interrupts`). `fat-write` then divides by zero: `stop`.
9. SYS_EXIT enables interrupts in the keyboard handler it returns to (`usermode.asm:79`). With
   `run` lines typed ahead, every program is started on top of the handler frame of the one
   before, and nothing but the typing bounds the 16 KiB stack.
10. The error returns of `run` leave the line in the buffer (`keyboard.c:334`, 346, 353;
    `key_enter_run_fails`), with NULs for its blanks: what is typed next is appended to it.
11. Three comments (`keyboard.c:66-73`, 86-89 and 356-360) say that `pmm_alloc_block` can return
    the frame that `kmalloc_a` gave for the file buffer, "because kmalloc_a() does not update
    the PMM bitmap". They are older than `pmm_mark_used` in `kmalloc_a` (`memory.c:72-75`), which
    does update it: `LaunchFramesDistinct` and `PmmAvoidsHeap` hold, and what the comments warn of
    cannot happen. The opposite direction can (finding 1).
12. `kernel_return` restores the segments and ESP (`usermode.asm:65-82`). The launcher, which the
    Makefile compiles without optimisation and which therefore addresses its locals and leaves its
    function by EBP, goes on with the program's EBP. The programs under `user/` leave EBP alone;
    one that does not takes the launcher's frame away.

### Bounds

- `physmem`: 17 frames, two of them kernel image; a map with a hole, a region that is no
  whole number of pages, regions out of order and one above 4 GiB; heap blocks of a page and
  of a PCB. Enough frames for the heap to grow past the hole and for the PMM to be exhausted.
  `FALLBACK_BYTES` is two page tables instead of 128.
- `loader`: 16 frames, 14 of them RAM, ELF images of two pages. Several launches of every
  kind, until each allocator call has failed once. `LaunchRoom` ends a behaviour when the
  heap reaches the end of the bitmap, where the code has no check.
- `process`: four PCBs, so that the list has ends and middles, and two steps per program.
  With the exported operations programs take no steps, which do not matter to the queue. PCBs
  are interchangeable (symmetry).
- `fat16`: six clusters of two sectors over two FAT sectors, a sector left over, four
  directory slots, with the fragmented file, the empty one or none; and all fresh volumes of 8 to 10 sectors with one to three sectors per
  cluster, one or two reserved, FAT and directory sectors, two or three FATs (one to three for the layout). Three writes
  and two power losses: the disk and the directory can be filled, and a write can meet what
  two interrupted ones left. The number of writes is the bound at which behaviours end, so
  deadlock is not checked there.
- `syscall`: five pages of four bytes, user space in the middle three, chunks of three
  bytes: every pointer and length, all 32 sets of mapped pages, chunks that cross page
  boundaries at every offset, regions that wrap.
- `interrupts`: two keys in the keyboard, and keys are typed while at most two keyboard
  handlers are on the stack: a command, its program, a key during it, and a key in the
  handler that kernel_return went back to.
- `ata`: three sectors, one of them bad, two words each, four calls; behaviours end there.
- `keyboard`: eleven keys, of which up to two come while `kernel_main` prints a row and the
  prompt, a buffer of seven, two arguments, and a screen of eight cells that a full line
  overflows. Letters are one key, so upper case and lower case differ.
- `tar`: three files, sizes 0, 3, 4, 5 and 9 with blocks of 4; all words of eight bits; all
  pairs of strings of up to four characters.

### Fairness

`WriteTerminates` and `WriteEnds` assume weak fairness of the steps inside
`fat16_write_file` and inside SYS_WRITE's loop. Both run in an interrupt handler on one
CPU, and all that they wait for is the drive. `HangsOnlyOnError` of `Ata` says when that
wait ends: it assumes weak fairness of the driver, which polls, and of the drive, which
finishes a command with data or with an error.

`Interrupts` assumes strong fairness of the CPU's steps: an interrupt is taken when it is
offered again and again, and interrupted code goes on although other interrupts come in
between. Ticks are ten milliseconds apart, so code that is interrupted by them does go
on. A command returns, launches a program or hangs: the poll loops of `ata.c` have no limit and
run with interrupts off, so `ata_hangs` is possible wherever a command uses the disk, nothing
leads on from it, and `TickServed` and `KeysServed` except it (`CommandHangs`). It assumes
nothing of the program (no fairness of `int80`), of the keys or of the timer. No module assumes fairness of users or programs.

## 4. Proofs

Theorems hold for every value of the constants that the `ASSUME`s allow.

**ProcessProofs.** `QueueInv` is `ListIsFifo` and `StateMatchesQueue` with types.
`PushIsAppend` and `PopIsTail` show that the pointer operations are `Append` and `Tail` of the
sequence; `StateMatchesQueue` shows that a process being enqueued is not in the list, which
`PushIsAppend` needs. Each operation is one of three uses of the queue (`EnqueueStep`,
`DequeueStep`, `TurnStep`), each of which is a step of `ReadyQueue`: hence
`ImplementsReadyQueueThm`. `TypeOKThm` adds the registers (`RegsType`). `YieldComesBackThm` is
about `Spec` (`ShellYieldComesBackThm` says the same in the run's terms): the shell's commands
leave the queue empty, so a yield puts its caller in and takes it out again, and the frame it
restores is the one it has just saved.

**SyscallProofs.** `ValidatedIsUser`: a region that passes the validation lies in user space
from end to end, because a truncated end that is not below the start did not wrap. With the
types of the loop's locals (`LoopInv`) it gives `TouchesUserOnlyThm`. `WriteInv` says that at
the head of SYS_WRITE's loop the bytes read are the first `offset` of the buffer and `offset`
is a whole number of chunks or the end; `BytesSplit` and `BytesWrap` are about regions modulo
2^32, and `RefusedHasBadByte` is the converse of the validation: what it refuses has a byte
outside user space or in an absent page. `PrefixWrittenThm` and `ShortOnlyAtBadByteThm` follow.

**LoaderProofs.** The allocators first. `PmmInv` is the inductive invariant of the whole interface: types; the heap
between the kernel image and the end of the bitmap (`HeapInBitmap`); from the walk of
`init_pmm` on, a clear bit or a held frame is RAM below `max_frames` (`FreeIsRam`); blocks are
held only after boot and frame 0 and the image are marked then (`BootedFirst`); held frames are
marked. `FreeIsRam` is the strengthening that both `PmmHandsOutRam` and `NoFalseExhaustion`
need: it ties the bitmap to the memory map while the walk is under way. `AccountingExactThm`
adds cardinalities. `HeapInv`, for `Spec`, says that heap frames lie below `free_mem_addr`,
which is why marking everything below it in `init_pmm` restores the marks that filling the
bitmap has lost; `HeapStaysMarkedThm` and the action property `PmmAvoidsHeapThm` follow. The
last two are not proved of `ApiSpec`: `pmm_free_block` of a frame that the heap has taken over
(finding 1) would clear a heap frame's bit.

Then the launches. `StepOfPhysMem`: each step of a launch is a step of `PhysMem` or leaves it
alone, so `LoaderSpec` implements `Spec` (`LaunchesImplementPhysMem`), and what is proved of
`Spec` holds of the shell (`LaunchesAvoidHeap`). `LoaderInv` adds to `HeapInv` who owns what
(`FramesOwned`, `MapsOwned`: tables and user pages are frames the PMM holds; the buffer is the
heap's), the argument `map_page` is called with, and how far the launch has come
(`LaunchSoFar`). Ownership is what makes a new frame differ from all older ones. The heap may
overwrite a page table (`Overwrite`: its entries become absent or `GARBAGE`);
`TablesNotMappedThm` says nothing of where a `GARBAGE` entry points, only of those that
`map_page` wrote. `LaunchSoFar` carries "mapped, or no frame was left" from `map_page`, which
reports nothing, to the copy that faults: `HaltsOnlyWhenExhaustedThm`, for all but the files of
observation 2.

**InterruptsProofs.** `StackInv` describes every kernel stack: `main` at the bottom; only code
that can be interrupted below the top; a command on the keyboard handler that called it; no
keyboard handler above one without its EOI; ring 3 exactly above a launched command; the PIC's
lines; and, for a launched command, that `tss.esp0`, `saved_kernel_esp` and the stack below are
the launcher's. The theorems are parts of it, none of which is inductive alone: that commands
do not overlap depends on the EOI coming after the command, that an entry from ring 3
overwrites nothing depends on `tss.esp0` being the top of the stack there (`EntersAbove`).

**AtaProofs.** `AtaInv` says what the drive is doing at each step of the driver. The core is
`BetweenCalls`: what was written last is stored, or is in the buffer the drive is still
storing, and the next call waits for the drive to be ready before it does anything the drive
would lose.

**KeyboardProofs.** `CursorInv` gives the place of the cursor, and what `kernel_main` has
loaded, before each statement of its print. `PrintLands`: whatever a print starts from, not
further than the row below the screen, it ends on the screen; it is why an interrupt repairs
the cursor. `BufferInv` is `Terminated` with types; it needs that the parser, which writes NULs
into the line, stays before its end (`TokeniseInside`). `ParserAt` is the invariant of the
argument loop: after m turns it has taken the words that start before its position, stands
between two words, and has not touched what follows; `TurnSplits` shows that a turn keeps it
(`TokenIsWord`: what one turn finds is the next maximal run of characters), and
`ArgvIsSplitThm` follows.

`EchoMatchesBufferThm` rests on `EchoInv`. A line starts at the start of a row, so what matters of
a print that wraps and scrolls is how many characters it has put behind that start, and a prompt
with a full buffer keeps the start on the screen. The screen behind the cursor is blank unless it
is `littered`; this is kept also while the line is `stale`, since the next line relies on it
when backspace crosses a row. During boot (`BootShows`) the
invariant names, before each statement of `kernel_main`'s print, the cell that its next character
goes to, with the part of the prompt that is already on the screen before it and nothing after it.
The lemmas `CharKeepsEcho`, `BackspaceKeepsEcho`, `EnterKeepsEcho` and `RunFailsKeepsEcho` are one
per key, `EchoStutters` is for steps that touch neither screen nor line.

**Fat16Proofs.** `LayoutKeptThm` is arithmetic about the boot sector: the sectors of each FAT,
complete clusters and the uint16_t limit of the search, which is not reached because cluster
numbers are below the end marks. It covers volumes with one FAT, where it says which writes go
astray (`VolumesKeptHolds`); the other theorems are about volumes with a second one. `LagInv`: besides the entry being
copied (`Pending`) there is at most one difference between the tables per power loss; a copy of
a sector never adds one. `DiskInv` says that there are chains, one per directory slot and one
for the write in progress (slot 0), with no cluster in common, such that FAT 1 links each of
them, the files' data are in theirs, and the write in progress has linked and stored as much as
its program counter says (`ChainInv`). The chains are not in the state: the invariant asserts
that they exist, each action's lemma gives the new ones (`BeginKeepsChains` to
`DirKeepsChains`), and `WalkAlong` shows that following FAT 1 from a directory entry visits
exactly its chain. `ChainsSoundThm`, `FilesIntactThm` and `LeaksOnlyOnFailureThm` follow from
it. `ReadChangesOnlyByWriteThm`, an action property, shows that the content of a name depends
on the directory alone (`ReadsAsDirectorySays`), which only `write_dir` changes. The
assumptions are those on the constants: sound initial disks and formatted boot sectors.

**TarProofs.** The conversions. `DigitsShow`: the quotients of a word fall to zero within 32
divisions (`HalvingRuns`), the remainders along the way are digits (`RemaindersAreDigits`), and
the positional value of such digits, taken from the highest, is the quotient reached so far
(`ValueRuns`); zero and the least int, whose digit loop is not entered, are cases of their own.
`HexShows` is eight divisions by half a byte, the last of which leaves nothing.
`DescriptorsRead` is division by the byte, twice and three times over (`DivTwice`), for limits
of up to five half bytes. Together
`NumbersRecoveredThm`. `PaddingIsExact`: a part of a name that holds no blank can be read off
its padded field, up to the length that is cut off; `EntriesDistinguish` follows for all such
names, and `NamesDistinguishedThm` for the ones the run draws.
The archive: `Layout` says that each header is behind the blocks of the file before it, so
addresses grow strictly and an address belongs to one header (`LayoutGrows`); `RoundsUp` shows
that the code's rounding by the remainder is the number of whole blocks, and `ParsesOctal` that
`parse_octal`, which skips what is no octal digit, returns the size. `AtHeader` therefore
knows what the walk reads and that it goes on to the next header. `WalkAnswers` is the inductive
invariant: a command on its way stands on the n-th header and has printed the first n - 1 lines
(`ls`) or has met no file of that name (`cat`); a command that is done has printed the answer.
`AnswersRightThm` follows.

Loops that the model writes as recursive functions (`Tokenise`, `print`, `FatWalk`, `Quotients`,
`Value`, `HeaderAddr`) are proved
about in two steps: a sequence of states exists in which each follows from the one before
(`TokeniseTurns`, `PrintingTurns`, `WalkIs`, `Iterates`), and a property of its states holds up to the
last one (`UpTo`, from the well-foundedness of the natural numbers, for the set of the indices
at which it holds).

Only model-checked:

- the liveness properties `WriteTerminates`, `WriteEnds`, `TickServed`,
  `KeysServed` and `HangsOnlyOnError`: fairness is out of the prover's reach;
- the findings, which are counterexamples.

## 5. Not modelled

- A command typed during boot that uses the drive in the middle of `fat16_init`'s transfer,
  or the allocators in the middle of their set-up: `Interrupts` shows that it can run
  there; `Ata` and `PhysMem` have one caller at a time.
- What happens above the end of the bitmap (`kmalloc_a` has no limit, `init_pmm` does not
  check region ends): the code's behaviour there is that of whatever memory lies behind.
- A launch that fails gives nothing back; the code says so (`keyboard.c:377`).
- Left and right shift share one flag: releasing one while the other is held clears it.
  `shift_up` does so too; no property speaks of it.
- The text of `fault_handler`, colours, the hardware cursor, the serial port, `print_at`
  (no caller), `copy_to_user` (no caller), the tick counter that `timer` and `uptime` show.
- String helpers (pure byte loops), boot code, port I/O, `ctx.asm` (an empty function), the
  example user programs.

## 6. Plan

The order in which the model was and will be built:

1. `PhysMem`, its runs and proofs (done).
2. `ReadyQueue`, `Process`, refinement and proofs (done).
3. `Fat16` with power loss, `Syscall` and the proof of `TouchesUserOnly`, `Loader` over
   `PhysMem` (done).
4. `Interrupts` with the boot order and the kernel stack (done).
5. `Screen`, `Console`, `Keyboard`; `Ata`, `FatLayout`; `Tar`, `Encoding` (done).
6. Proofs for `Ata`, `Syscall`, `Loader`, `Interrupts`, `Keyboard` and `Fat16` (done).
7. Proofs of `EchoMatchesBuffer`, of the conversions and of the walk over the archive (done).
   With them every invariant and action property that a run finds to hold is a theorem.
