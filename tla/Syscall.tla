------------------------------ MODULE Syscall ------------------------------
(***************************************************************************)
(* System calls of CIndy-OS: handle_syscall (src/syscall.c) and the check  *)
(* of user pointers, validate_user_region (src/paging.c).  SYS_YIELD and   *)
(* what SYS_EXIT does to the running program are in module Process.        *)
(*                                                                         *)
(* Addresses are taken modulo WORD, as uint32_t arithmetic is.             *)
(* syscall_kernel_fallback is 0: no code sets it.  Every page the kernel   *)
(* maps is user-accessible, so a page is either that or not present.       *)
(***************************************************************************)
EXTENDS Naturals, FiniteSets

CONSTANTS
    WORD,        \* size of the address space (2^32)
    PAGE,        \* bytes in a page (0x1000)
    USER_LOW,    \* lowest address a user pointer may have (0x100000)
    USER_HIGH,   \* end of the addresses a user pointer may have (0xC0000000)
    CHUNK        \* SYS_WRITE copies this many bytes at a time (1024)

ASSUME SyscallAssumption ==
    /\ {WORD, PAGE, USER_LOW, USER_HIGH, CHUNK} \subseteq Nat \ {0}
    /\ WORD % PAGE = 0 /\ USER_LOW < USER_HIGH /\ USER_HIGH < WORD
    /\ USER_LOW % PAGE = 0 /\ USER_HIGH % PAGE = 0 /\ CHUNK < PAGE

VARIABLES
    mapped,           \* pages with a present, user-accessible PTE
    pc,               \* "user", "write" (the loop of SYS_WRITE), "return", "halted"
    r,                \* the arguments in the register frame
    offset, written,  \* locals of SYS_WRITE
    eax,              \* the result
    last_exit_status, syscall_exit_requested,
    touched           \* history: user bytes this call has read

vars == <<mapped, pc, r, offset, written, eax, last_exit_status, syscall_exit_requested, touched>>

Addresses == 0..(WORD - 1)
Pages == 0..(WORD \div PAGE - 1)
MINUS_1 == WORD - 1
NoCall == [num |-> "none", a |-> 0, b |-> 0, c |-> 0]

FD_STDIN == 0
FD_STDOUT == 1
FD_STDERR == 2

\* The bytes [addr, addr + len) of the address space, which wraps around.
Bytes(addr, len) == {(addr + i) % WORD : i \in 0..(len - 1)}
IsMapped(addr) == addr \div PAGE \in mapped

-----------------------------------------------------------------------------

\* Mutant: the end of the region is not compared with the end of user space.
validate_user_region_openEnd(addr, len) ==
    \/ len = 0
    \/ LET end == (addr + len) % WORD IN
       /\ USER_LOW <= addr /\ addr < USER_HIGH
       /\ end >= addr
       /\ \A i \in 0..(len \div PAGE) : addr + i * PAGE < end => IsMapped(addr + i * PAGE)

\* Mutant: the page behind the region must be mapped as well.
validate_user_region_pageTooFar(addr, len) ==
    \/ len = 0
    \/ LET end == (addr + len) % WORD IN
       /\ USER_LOW <= addr /\ addr < USER_HIGH
       /\ end >= addr /\ end <= USER_HIGH
       /\ \A i \in 0..(len \div PAGE + 1) : addr + i * PAGE <= end + PAGE => IsMapped(addr + i * PAGE)

\* The loop visits addr, addr + PAGE, ... below the end.
validate_user_region(addr, len) ==
    \/ len = 0
    \/ LET end == (addr + len) % WORD IN
       /\ USER_LOW <= addr /\ addr < USER_HIGH
       /\ end >= addr /\ end <= USER_HIGH
       /\ \A i \in 0..(len \div PAGE) : addr + i * PAGE < end => IsMapped(addr + i * PAGE)

validate_user_ptr(ptr, len) == ptr # 0 /\ validate_user_region(ptr, len)

-----------------------------------------------------------------------------
(* handle_syscall.                                                         *)

Init ==
    /\ mapped \in SUBSET Pages
    /\ pc = "user" /\ r = NoCall
    /\ offset = 0 /\ written = 0 /\ eax = 0
    /\ last_exit_status = 0 /\ syscall_exit_requested = FALSE
    /\ touched = {}

\* int 0x80 with arguments a, b and c.
Called(num, a, b, c) ==
    /\ pc = "user"
    /\ r' = [num |-> num, a |-> a, b |-> b, c |-> c]
    /\ UNCHANGED mapped

\* The handler leaves with x in eax.
Returns(x) == pc' = "return" /\ eax' = x

sys_exit(status) ==
    /\ Called("SYS_EXIT", status, 0, 0)
    /\ last_exit_status' = status /\ syscall_exit_requested' = TRUE
    /\ Returns(0)
    /\ UNCHANGED <<offset, written, touched>>

\* Standard output and error go to the screen, any other descriptor is an error.
sys_write(fd, buf, len) ==
    /\ Called("SYS_WRITE", fd, buf, len)
    /\ offset' = 0 /\ written' = 0 /\ touched' = {}
    /\ IF fd \in {FD_STDOUT, FD_STDERR}
       THEN pc' = "write" /\ UNCHANGED eax
       ELSE Returns(MINUS_1)
    /\ UNCHANGED <<last_exit_status, syscall_exit_requested>>

\* Mutant: the last, shorter chunk is copied as a whole one.
Take_whole(left) == CHUNK

Take(left) == IF left > CHUNK THEN CHUNK ELSE left

\* Mutant: a chunk that cannot be copied is tried again.
write_chunk_retries ==
    /\ pc = "write"
    /\ offset < r.c
    /\ LET take == Take(r.c - offset)
           ptr  == (r.b + offset) % WORD
       IN  IF ~validate_user_ptr(ptr, take)
           THEN UNCHANGED <<pc, eax, offset, written, touched>>
           ELSE /\ touched' = touched \cup Bytes(ptr, take)
                /\ IF \A x \in Bytes(ptr, take) : IsMapped(x)
                   THEN offset' = offset + take /\ written' = written + take /\ pc' = pc
                   ELSE pc' = "halted" /\ UNCHANGED <<offset, written>>
                /\ UNCHANGED eax
    /\ UNCHANGED <<mapped, r, last_exit_status, syscall_exit_requested>>

\* One turn of the loop: copy_from_user validates the chunk and reads it byte by
\* byte, or the loop ends early.  A byte that is not mapped is a page fault in ring
\* 0, which fault_handler answers by stopping the machine.
write_chunk ==
    /\ pc = "write"
    /\ offset < r.c
    /\ LET take == Take(r.c - offset)
           ptr  == (r.b + offset) % WORD
       IN  IF ~validate_user_ptr(ptr, take)
           THEN Returns(written) /\ UNCHANGED <<offset, written, touched>>
           ELSE /\ touched' = touched \cup Bytes(ptr, take)
                /\ IF \A x \in Bytes(ptr, take) : IsMapped(x)
                   THEN offset' = offset + take /\ written' = written + take /\ pc' = pc
                   ELSE pc' = "halted" /\ UNCHANGED <<offset, written>>
                /\ UNCHANGED eax
    /\ UNCHANGED <<mapped, r, last_exit_status, syscall_exit_requested>>

write_end ==
    /\ pc = "write"
    /\ offset >= r.c
    /\ Returns(written)
    /\ UNCHANGED <<mapped, r, offset, written, last_exit_status, syscall_exit_requested, touched>>

\* There is no input yet: end of file on standard input.
sys_read(fd, buf, len) ==
    /\ Called("SYS_READ", fd, buf, len)
    /\ Returns(IF fd = FD_STDIN THEN 0 ELSE MINUS_1)
    /\ UNCHANGED <<offset, written, last_exit_status, syscall_exit_requested, touched>>

\* The first character of the path decides, if the pointer is good: one byte that
\* validate_user_ptr accepts is mapped.
sys_open(path) ==
    /\ Called("SYS_OPEN", path, 0, 0)
    /\ IF validate_user_ptr(path, 1)
       THEN touched' = {path} /\ \E x \in {FD_STDOUT, MINUS_1} : Returns(x)
       ELSE touched' = {} /\ Returns(MINUS_1)
    /\ UNCHANGED <<offset, written, last_exit_status, syscall_exit_requested>>

sys_close(fd) ==
    /\ Called("SYS_CLOSE", fd, 0, 0)
    /\ Returns(IF fd \in {FD_STDIN, FD_STDOUT, FD_STDERR} THEN 0 ELSE MINUS_1)
    /\ UNCHANGED <<offset, written, last_exit_status, syscall_exit_requested, touched>>

sys_unknown ==
    /\ Called("unknown", 0, 0, 0)
    /\ Returns(MINUS_1)
    /\ UNCHANGED <<offset, written, last_exit_status, syscall_exit_requested, touched>>

\* isr128 returns to the program, or to the launcher if the call was SYS_EXIT, which
\* can start another program.
isr128_return ==
    /\ pc = "return"
    /\ pc' = "user" /\ r' = NoCall
    /\ offset' = 0 /\ written' = 0 /\ eax' = 0 /\ touched' = {}
    /\ syscall_exit_requested' = FALSE
    /\ UNCHANGED <<mapped, last_exit_status>>

\* fault_handler never leaves its loop.
halt_loop == pc = "halted" /\ UNCHANGED vars

Next ==
    \/ \E fd \in 0..3, b, c \in Addresses : sys_write(fd, b, c)
    \/ \E fd \in 0..3, b, c \in {0, USER_LOW} : sys_read(fd, b, c)
    \/ \E status \in {0, 1} : sys_exit(status)
    \/ \E path \in Addresses : sys_open(path)
    \/ \E fd \in 0..3 : sys_close(fd)
    \/ sys_unknown \/ write_chunk \/ write_end \/ isr128_return \/ halt_loop

\* The handler runs with interrupts off: its loop goes on.
Spec == Init /\ [][Next]_vars /\ WF_vars(write_chunk \/ write_end)

-----------------------------------------------------------------------------
(* Properties.                                                             *)

\* The system calls read user memory only between USER_LOW and USER_HIGH, whatever
\* pointer and length the program passes: an address below it, a region that crosses
\* the end of user space, or one that wraps around the address space.
TouchesUserOnly == \A x \in touched : USER_LOW <= x /\ x < USER_HIGH

\* A byte that a user program owns.
UserByte(x) == USER_LOW <= x /\ x < USER_HIGH /\ IsMapped(x)

WriteReturned == pc = "return" /\ r.num = "SYS_WRITE" /\ r.a \in {FD_STDOUT, FD_STDERR}

\* SYS_WRITE answers with the length of the prefix of the buffer that it copied, in
\* whole chunks but for the last: no byte behind the buffer is read, and no byte of
\* the prefix is skipped.
PrefixWritten ==
    WriteReturned =>
        /\ eax <= r.c /\ (eax = r.c \/ eax % CHUNK = 0)
        /\ touched = Bytes(r.b, eax)

\* SYS_WRITE stops short only at a chunk that holds a byte the program does not own:
\* a buffer that is mapped from end to end is written in full, also when its last
\* byte is the last one of a page or of user space.
ShortOnlyAtBadByte ==
    WriteReturned /\ eax < r.c =>
        \E x \in Bytes(r.b + eax, Take(r.c - eax)) : ~UserByte(x)

\* SYS_WRITE ends for every length, the end of the address space included, also when
\* a chunk cannot be copied.
WriteEnds == pc = "write" ~> pc # "write"

\* "User pointers are validated against mapped, user-accessible pages before copying
\* data" (README): no system call faults on a user pointer.
NeverFaults == pc # "halted"
=============================================================================
