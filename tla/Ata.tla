-------------------------------- MODULE Ata --------------------------------
(***************************************************************************)
(* The PIO driver of CIndy-OS (src/ata.c) and the drive it talks to.  The  *)
(* drive works on its own: it takes time to fetch a sector, to store one   *)
(* and to empty its write cache, and while it is busy it ignores writes to *)
(* its registers.  A sector is a function from word numbers to words; a    *)
(* word is a token that names the write it came from.                      *)
(***************************************************************************)
EXTENDS Naturals

CONSTANTS
    Sectors,      \* LBAs in use
    HEAD_UNIT,    \* LBAs that share the bits 24-27 of the device register (2^24)
    BadSectors,   \* sectors for which the drive reports an error
    WORDS,        \* words in a sector (256)
    MAX_OPS       \* bound: calls of the driver

ASSUME AtaAssumption ==
    /\ Sectors \subseteq Nat /\ BadSectors \subseteq Sectors
    /\ HEAD_UNIT \in Nat \ {0} /\ WORDS \in Nat \ {0} /\ MAX_OPS \in Nat
    \* A FAT16 volume ends below sector 2^24: every LBA has the same high bits, and it
    \* does not matter when the write of the device register is lost.
    /\ \A s \in Sectors : s < HEAD_UNIT

Words == 0..(WORDS - 1)
Filled(id) == [w \in Words |-> <<id, w>>]
Junk == <<"junk">>

VARIABLES
    regs,    \* the drive's registers: head (0x1F6) and low (0x1F3-0x1F5)
    drive,   \* BSY, DRQ, the command it is on, its buffer and the word it is at
    store,   \* what the drive stores, in its write cache or on its media
    op,      \* the driver's call in progress
    ops,     \* history: how many there have been
    last     \* history: what was last written to each sector

vars == <<regs, drive, store, op, ops, last>>

NoOp == [pc |-> "idle"]
Quiet == [bsy |-> FALSE, drq |-> FALSE, cmd |-> "none", lba |-> 0, at |-> 0,
          buf |-> [w \in Words |-> Junk]]

Init ==
    /\ regs = [head |-> 0, low |-> 0] /\ drive = Quiet
    /\ store = [s \in Sectors |-> Filled(0)] /\ last = store
    /\ op = NoOp /\ ops = 0

-----------------------------------------------------------------------------
(* The drive (external).                                                   *)

Accepts == ~drive.bsy /\ ~drive.drq

\* A write to the command register.
Command(c) ==
    drive' = IF Accepts
             THEN [drive EXCEPT !.bsy = TRUE, !.cmd = c, !.at = 0,
                                !.lba = regs.head * HEAD_UNIT + regs.low]
             ELSE drive

Bad == drive.cmd \in {"read", "write"} /\ drive.lba \in BadSectors

\* A read has fetched its sector, a write is ready for its words.
drive_ready ==
    /\ drive.bsy /\ drive.cmd \in {"read", "write"} /\ ~Bad
    /\ drive' = [drive EXCEPT !.bsy = FALSE, !.drq = TRUE,
                   !.buf = IF drive.cmd = "read" THEN store[drive.lba] ELSE drive.buf]
    /\ UNCHANGED <<regs, store, op, ops, last>>

\* A command ends: with an error and no data, with the sector stored, or with the write
\* cache emptied.
drive_done ==
    /\ drive.bsy /\ (Bad \/ drive.cmd \in {"store", "flush"})
    /\ drive' = [drive EXCEPT !.bsy = FALSE, !.cmd = "none"]
    /\ store' = IF drive.cmd = "store" THEN [store EXCEPT ![drive.lba] = drive.buf] ELSE store
    /\ UNCHANGED <<regs, op, ops, last>>

-----------------------------------------------------------------------------
(* The driver.                                                             *)

\* The call: the high bits go to the device register, busy or not.
Start(kind, lba) ==
    /\ op = NoOp /\ ops < MAX_OPS
    /\ ops' = ops + 1
    /\ regs' = IF Accepts THEN [regs EXCEPT !.head = lba \div HEAD_UNIT] ELSE regs
    /\ op' = [pc |-> "ready", kind |-> kind, lba |-> lba, id |-> ops + 1,
              buf |-> IF kind = "write" THEN Filled(ops + 1) ELSE [w \in Words |-> Junk],
              i |-> 0]
    /\ UNCHANGED <<drive, store, last>>

ata_read_sector(lba) == Start("read", lba)
ata_write_sector(lba) == Start("write", lba)

\* Mutant: the driver does not wait.
ata_wait_ready_none ==
    /\ op.pc = "ready"
    /\ op' = [op EXCEPT !.pc = "setup"]
    /\ UNCHANGED <<regs, drive, store, ops, last>>

\* ata_wait_ready: until BSY is clear.
ata_wait_ready ==
    /\ op.pc = "ready" /\ ~drive.bsy
    /\ op' = [op EXCEPT !.pc = "setup"]
    /\ UNCHANGED <<regs, drive, store, ops, last>>

\* The sector count and the low bits of the LBA.
setup ==
    /\ op.pc = "setup"
    /\ regs' = IF Accepts THEN [regs EXCEPT !.low = op.lba % HEAD_UNIT] ELSE regs
    /\ op' = [op EXCEPT !.pc = "command"]
    /\ UNCHANGED <<drive, store, ops, last>>

\* 0x20 or 0x30, and the pause of four reads of 0x3F6.
command ==
    /\ op.pc = "command"
    /\ Command(op.kind)
    /\ op' = [op EXCEPT !.pc = "drq"]
    /\ UNCHANGED <<regs, store, ops, last>>

\* Mutant: the driver does not wait for the drive.
wait_drq_none ==
    /\ op.pc = "drq"
    /\ op' = [op EXCEPT !.pc = "words"]
    /\ UNCHANGED <<regs, drive, store, ops, last>>

\* The two polling loops: BSY clear, then DRQ set.
wait_drq ==
    /\ op.pc = "drq" /\ ~drive.bsy /\ drive.drq
    /\ op' = [op EXCEPT !.pc = "words"]
    /\ UNCHANGED <<regs, drive, store, ops, last>>

\* The data port moves one word; after the last one the drive drops DRQ, and it is busy
\* storing what was written.
DataPort(buf) ==
    IF ~drive.drq THEN drive
    ELSE [drive EXCEPT
            !.at = @ + 1, !.buf = buf, !.drq = (drive.at + 1 < WORDS),
            !.bsy = (drive.cmd = "write" /\ drive.at + 1 = WORDS),
            !.cmd = IF drive.at + 1 < WORDS THEN @
                    ELSE IF drive.cmd = "write" THEN "store" ELSE "none"]

\* One turn of the loop over the words.
transfer ==
    /\ op.pc = "words"
    /\ LET next == IF op.i + 1 < WORDS THEN "words"
                   ELSE IF op.kind = "write" THEN "flush" ELSE "done"
       IN  IF op.kind = "read"
           THEN /\ op' = [op EXCEPT !.buf[op.i] = IF drive.drq THEN drive.buf[drive.at] ELSE Junk,
                                    !.i = @ + 1, !.pc = next]
                /\ drive' = DataPort(drive.buf)
           ELSE /\ op' = [op EXCEPT !.i = @ + 1, !.pc = next]
                /\ drive' = DataPort([drive.buf EXCEPT ![drive.at % WORDS] = op.buf[op.i]])
    /\ UNCHANGED <<regs, store, ops, last>>

\* A write ends with the flush command 0xE7, without a wait before or after it: a drive
\* that is still busy storing the sector ignores it.
flush ==
    /\ op.pc = "flush"
    /\ Command("flush")
    /\ last' = [last EXCEPT ![op.lba] = op.buf]
    /\ op' = NoOp
    /\ UNCHANGED <<regs, store, ops>>

\* A read returns its buffer.
return ==
    /\ op.pc = "done"
    /\ op' = NoOp
    /\ UNCHANGED <<regs, drive, store, ops, last>>

DriverStep ==
    ata_wait_ready \/ setup \/ command \/ wait_drq \/ transfer \/ flush \/ return

Next ==
    \/ \E s \in Sectors : ata_read_sector(s) \/ ata_write_sector(s)
    \/ drive_ready \/ drive_done \/ DriverStep

\* The driver polls until the drive answers, and the drive does answer.
Spec ==
    /\ Init /\ [][Next]_vars
    /\ WF_vars(DriverStep) /\ WF_vars(drive_ready) /\ WF_vars(drive_done)

-----------------------------------------------------------------------------
(* Properties.                                                             *)

\* A read returns what was last written to its sector, also when it is issued while the
\* drive is still busy storing an earlier write, with which the driver does not wait.
ReadsLastWrite == op.pc = "done" => op.buf = last[op.lba]

\* The driver and the drive keep step: words are moved only while the drive asks for
\* them, for the driver's own command, sector and word.
InStep ==
    op.pc = "words" => /\ drive.drq /\ drive.cmd = op.kind
                       /\ drive.lba = op.lba /\ drive.at = op.i

\* A call hangs, for ever, only on a sector for which the drive reports an error: the
\* loops look at neither the error bit nor a clock.
HangsOnlyOnError == (op # NoOp) ~> (op = NoOp \/ op.lba \in BadSectors)
=============================================================================
