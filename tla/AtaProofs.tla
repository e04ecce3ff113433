----------------------------- MODULE AtaProofs -----------------------------
(***************************************************************************)
(* Proofs about Ata for any set of sectors, any sector size and any number *)
(* of calls: the driver and the drive keep step, and a read returns what   *)
(* was last written, although the driver leaves a write while the drive is *)
(* still busy storing it.                                                  *)
(***************************************************************************)
EXTENDS Ata, TLAPS

\* What a word of a sector may be.
WordVal == {Junk} \cup (Nat \X Words)
Sector == [Words -> WordVal]

DriveType ==
    [bsy : BOOLEAN, drq : BOOLEAN, cmd : {"none", "read", "write", "store", "flush"},
     lba : Nat, at : Nat, buf : Sector]

CallType ==
    [pc : {"ready", "setup", "command", "drq", "words", "flush", "done"},
     kind : {"read", "write"}, lba : Sectors, id : Nat, buf : Sector, i : Nat]

\* The types.  The high bits of every sector number are 0, so that the write to the
\* device register, which a busy drive ignores, changes nothing.
TypeInv ==
    /\ regs \in [head : {0}, low : Nat]
    /\ drive \in DriveType
    /\ store \in [Sectors -> Sector] /\ last \in [Sectors -> Sector]
    /\ op = NoOp \/ op \in CallType
    /\ ops \in Nat

\* The drive is storing a sector that is no longer in the driver's hands.
Storing == drive.bsy /\ drive.cmd = "store"

\* Between two calls, and until ata_wait_ready has seen the drive ready: what was
\* written last is stored, or is in the buffer that the drive is storing.
BetweenCalls ==
    /\ ~drive.drq
    /\ drive.bsy => drive.cmd \in {"store", "flush"}
    /\ Storing => drive.lba \in Sectors /\ drive.buf = last[drive.lba]
    /\ \A s \in Sectors : store[s] = last[s] \/ (Storing /\ s = drive.lba)

\* The drive is ready for a command.
Prepared == ~drive.bsy /\ ~drive.drq /\ store = last

\* The command is given: the drive is on it, asks for words, or has ended it with an
\* error.
Commanded ==
    /\ store = last
    /\ drive.bsy \/ drive.drq => /\ drive.cmd = op.kind /\ drive.lba = op.lba
                                 /\ drive.at = 0 /\ ~(drive.bsy /\ drive.drq)
    /\ drive.drq /\ op.kind = "read" => drive.buf = store[op.lba]
    /\ op.i = 0

\* Words are being moved.
Moving ==
    /\ store = last
    /\ ~drive.bsy /\ drive.drq
    /\ drive.cmd = op.kind /\ drive.lba = op.lba /\ drive.at = op.i /\ op.i < WORDS
    /\ op.kind = "read" =>
          drive.buf = store[op.lba] /\ \A w \in Words : w < op.i => op.buf[w] = drive.buf[w]
    /\ op.kind = "write" => \A w \in Words : w < op.i => drive.buf[w] = op.buf[w]

\* The last word is written: the drive is storing the sector, or has stored it.
Written ==
    /\ ~drive.drq /\ op.kind = "write"
    /\ \A s \in Sectors : s # op.lba => store[s] = last[s]
    /\ IF drive.bsy THEN drive.cmd = "store" /\ drive.lba = op.lba /\ drive.buf = op.buf
                    ELSE store[op.lba] = op.buf

\* The last word is read.
Fetched == ~drive.bsy /\ ~drive.drq /\ store = last /\ op.buf = store[op.lba]

\* The inductive invariant: what the drive is doing at each step of a call.
AtaInv ==
    /\ TypeInv
    /\ op.pc \in {"idle", "ready"} => BetweenCalls
    /\ op.pc \in {"ready", "setup", "command"} => op.i = 0
    /\ op.pc \in {"setup", "command"} => Prepared
    /\ op.pc = "command" => regs.low = op.lba
    /\ op.pc = "drq" => Commanded
    /\ op.pc = "words" => Moving
    /\ op.pc = "flush" => Written
    /\ op.pc = "done" => Fetched
-----------------------------------------------------------------------------

\* The constants, one by one.
LEMMA ConstantTypes ==
    /\ Sectors \subseteq Nat /\ HEAD_UNIT \in Nat /\ 0 < HEAD_UNIT
    /\ WORDS \in Nat /\ 0 < WORDS /\ Words = 0..(WORDS - 1)
    /\ \A s \in Sectors : s < HEAD_UNIT
  BY AtaAssumption DEF Words

\* Every sector number goes to the low bits, none of it to the high ones.
LEMMA LbaBits ==
    ASSUME NEW s \in Sectors
    PROVE  s \div HEAD_UNIT = 0 /\ s % HEAD_UNIT = s
  BY ConstantTypes

LEMMA FilledType == ASSUME NEW n \in Nat PROVE Filled(n) \in Sector
  BY DEF Filled, Sector, WordVal

LEMMA JunkType == [w \in Words |-> Junk] \in Sector
  BY DEF Sector, WordVal

LEMMA AtaInvInit == Init => AtaInv
<1> SUFFICES ASSUME Init PROVE AtaInv
  OBVIOUS
<1>1. drive = Quiet /\ op = NoOp /\ op.pc = "idle" /\ store = last
  BY DEF Init, NoOp
<1>2. TypeInv
  <2>1. drive \in DriveType
    BY <1>1, JunkType DEF Quiet, DriveType
  <2>2. store \in [Sectors -> Sector]
    BY FilledType DEF Init
  <2> QED BY <1>1, <2>1, <2>2 DEF Init, TypeInv
<1>3. BetweenCalls
  BY <1>1 DEF BetweenCalls, Quiet, Storing
<1> QED BY <1>1, <1>2, <1>3 DEF AtaInv
-----------------------------------------------------------------------------
(* The steps.                                                              *)

\* The fields of a call in progress.
LEMMA CallFields ==
    ASSUME TypeInv, op.pc # "idle"
    PROVE  /\ op \in CallType /\ op # NoOp
           /\ op.kind \in {"read", "write"} /\ op.lba \in Sectors /\ op.buf \in Sector
           /\ op.i \in Nat
  BY DEF TypeInv, NoOp, CallType

\* A command that the drive accepts.
LEMMA CommandAccepted ==
    ASSUME TypeInv, Accepts, NEW c \in {"read", "write", "flush"}, Command(c)
    PROVE  /\ drive' \in DriveType
           /\ drive'.bsy /\ ~drive'.drq /\ drive'.cmd = c /\ drive'.at = 0
           /\ drive'.lba = regs.low /\ drive'.buf = drive.buf
<1>1. regs.head = 0 /\ regs.low \in Nat /\ drive \in DriveType
  BY DEF TypeInv
<1>2. regs.head * HEAD_UNIT + regs.low = regs.low
  BY <1>1, ConstantTypes
<1>3. drive' = [drive EXCEPT !.bsy = TRUE, !.cmd = c, !.at = 0, !.lba = regs.low]
  BY <1>2 DEF Command
<1>4. drive.drq = FALSE
  BY <1>1 DEF Accepts, DriveType
<1> QED BY <1>1, <1>3, <1>4 DEF DriveType

\* The drive works: its steps keep the invariant at each step of a call.
LEMMA DriveSteps == ASSUME AtaInv, drive_ready \/ drive_done PROVE AtaInv'
<1>1. TypeInv /\ drive \in DriveType
  BY DEF AtaInv, TypeInv
<1>2. UNCHANGED <<regs, op, ops, last>>
  BY DEF drive_ready, drive_done
<1>3. drive.bsy
  BY DEF drive_ready, drive_done
<1>4. op.pc \notin {"setup", "command", "words", "done"}
  BY <1>3 DEF AtaInv, Prepared, Moving, Fetched
<1>5. CASE drive_ready
  <2>1. op.pc = "drq" \/ (op.pc \notin {"idle", "ready", "drq", "flush"})
    BY <1>5 DEF drive_ready, AtaInv, BetweenCalls, Written
  <2>2. CASE op.pc = "drq"
    <3>1. Commanded /\ op.lba \in Sectors /\ op.kind \in {"read", "write"}
      BY <1>1, <2>2, CallFields DEF AtaInv
    <3>2. drive.cmd = op.kind /\ drive.lba = op.lba /\ drive.at = 0
      BY <1>3, <3>1 DEF Commanded
    <3>3. drive' = [drive EXCEPT !.bsy = FALSE, !.drq = TRUE,
                      !.buf = IF drive.cmd = "read" THEN store[drive.lba] ELSE drive.buf]
      BY <1>5 DEF drive_ready
    <3>4. store[op.lba] \in Sector /\ drive.buf \in Sector
      BY <1>1, <3>1 DEF TypeInv, DriveType
    <3>5. drive' \in DriveType
      BY <1>1, <3>2, <3>3, <3>4 DEF DriveType
    <3>6. /\ ~drive'.bsy /\ drive'.drq /\ drive'.cmd = op.kind /\ drive'.lba = op.lba
          /\ drive'.at = 0 /\ (op.kind = "read" => drive'.buf = store[op.lba])
      BY <1>1, <3>2, <3>3 DEF DriveType
    <3>7. store' = store
      BY <1>5 DEF drive_ready
    <3>8. TypeInv'
      BY <1>1, <1>2, <3>5, <3>7 DEF TypeInv
    <3>9. Commanded'
      BY <1>2, <3>1, <3>6, <3>7 DEF Commanded
    <3> QED BY <1>2, <2>2, <3>8, <3>9 DEF AtaInv
  <2>3. CASE op.pc \notin {"idle", "ready", "drq", "flush"}
    BY <1>1, <1>4, <2>3 DEF TypeInv, NoOp, CallType
  <2> QED BY <2>1, <2>2, <2>3
<1>6. CASE drive_done
  <2>1. drive' = [drive EXCEPT !.bsy = FALSE, !.cmd = "none"]
    BY <1>6 DEF drive_done
  <2>2. /\ drive' \in DriveType /\ ~drive'.bsy /\ drive'.drq = drive.drq
        /\ drive'.lba = drive.lba /\ drive'.buf = drive.buf /\ drive'.cmd = "none"
    BY <1>1, <2>1 DEF DriveType
  <2>3. store' = IF drive.cmd = "store" THEN [store EXCEPT ![drive.lba] = drive.buf] ELSE store
    BY <1>6 DEF drive_done
  <2>4. store' \in [Sectors -> Sector]
    BY <1>1, <2>3 DEF TypeInv, DriveType
  <2>5. TypeInv'
    BY <1>1, <1>2, <2>2, <2>4 DEF TypeInv
  <2>6. CASE op.pc \in {"idle", "ready"}
    <3>1. BetweenCalls
      BY <2>6 DEF AtaInv
    <3>2. CASE drive.cmd = "store"
      <4>1. drive.lba \in Sectors /\ drive.buf = last[drive.lba]
        BY <1>3, <3>1, <3>2 DEF BetweenCalls, Storing
      <4>2. ASSUME NEW s \in Sectors PROVE store'[s] = last'[s]
        BY <1>1, <1>2, <2>3, <3>1, <3>2, <4>1 DEF BetweenCalls, TypeInv
      <4> QED BY <1>2, <2>2, <2>5, <2>6, <3>1, <4>2 DEF AtaInv, BetweenCalls, Storing
    <3>3. CASE drive.cmd # "store"
      <4>1. store' = store
        BY <2>3, <3>3
      <4> QED BY <1>2, <2>2, <2>5, <2>6, <3>1, <3>3, <4>1 DEF AtaInv, BetweenCalls, Storing
    <3> QED BY <3>2, <3>3
  <2>7. CASE op.pc = "drq"
    <3>1. Commanded /\ op.kind \in {"read", "write"}
      BY <1>1, <2>7, CallFields DEF AtaInv
    <3>2. drive.cmd = op.kind /\ ~drive.drq
      BY <1>3, <3>1 DEF Commanded
    <3>3. store' = store /\ ~drive'.drq
      BY <2>2, <2>3, <3>1, <3>2
    <3>4. Commanded'
      BY <1>2, <2>2, <3>1, <3>3 DEF Commanded
    <3> QED BY <1>2, <2>5, <2>7, <3>4 DEF AtaInv
  <2>8. CASE op.pc = "flush"
    <3>1. Written /\ op.lba \in Sectors
      BY <1>1, <2>8, CallFields DEF AtaInv
    <3>2. drive.cmd = "store" /\ drive.lba = op.lba /\ drive.buf = op.buf
      BY <1>3, <3>1 DEF Written
    <3>3. store'[op.lba] = op.buf /\ \A s \in Sectors : s # op.lba => store'[s] = store[s]
      BY <1>1, <2>3, <3>1, <3>2 DEF TypeInv
    <3>4. Written'
      BY <1>2, <2>2, <3>1, <3>3 DEF Written
    <3> QED BY <1>2, <2>5, <2>8, <3>4 DEF AtaInv
  <2>9. CASE op.pc \notin {"idle", "ready", "drq", "flush"}
    BY <1>1, <1>4, <2>9 DEF TypeInv, NoOp, CallType
  <2> QED BY <2>6, <2>7, <2>8, <2>9
<1> QED BY <1>5, <1>6
\* A call starts.
LEMMA StartStep ==
    ASSUME AtaInv, NEW s \in Sectors, NEW kind \in {"read", "write"}, Start(kind, s)
    PROVE  AtaInv'
<1>1. TypeInv /\ op.pc = "idle" /\ BetweenCalls
  BY DEF AtaInv, Start, NoOp
<1>2. UNCHANGED <<drive, store, last>> /\ ops' \in Nat
  BY <1>1 DEF Start, TypeInv
<1>3. regs' \in [head : {0}, low : Nat]
  BY <1>1, LbaBits DEF Start, TypeInv
<1>4. op'.pc = "ready" /\ op' \in CallType /\ op'.i = 0
  <2> DEFINE b == IF kind = "write" THEN Filled(ops + 1) ELSE [w \in Words |-> Junk]
  <2>1. ops + 1 \in Nat
    BY <1>1 DEF TypeInv
  <2>2. b \in Sector
    BY <2>1, FilledType, JunkType
  <2>3. op' = [pc |-> "ready", kind |-> kind, lba |-> s, id |-> ops + 1, buf |-> b, i |-> 0]
    BY DEF Start
  <2> HIDE DEF b
  <2> QED BY <2>1, <2>2, <2>3 DEF CallType
<1>5. TypeInv'
  BY <1>1, <1>2, <1>3, <1>4 DEF TypeInv
<1>6. BetweenCalls'
  BY <1>1, <1>2 DEF BetweenCalls, Storing
<1> QED BY <1>4, <1>5, <1>6 DEF AtaInv

\* The driver waits, sets up the registers and gives the command.
LEMMA CommandSteps ==
    ASSUME AtaInv, ata_wait_ready \/ setup \/ command \/ wait_drq
    PROVE  AtaInv'
<1>1. TypeInv /\ op \in CallType /\ op.lba \in Sectors /\ op.kind \in {"read", "write"}
  BY CallFields DEF AtaInv, ata_wait_ready, setup, command, wait_drq
<1>2. UNCHANGED <<store, ops, last>>
  BY DEF ata_wait_ready, setup, command, wait_drq
<1>3. CASE ata_wait_ready
  <2>1. op.pc = "ready" /\ ~drive.bsy /\ BetweenCalls /\ UNCHANGED <<regs, drive>>
    BY <1>3 DEF AtaInv, ata_wait_ready
  <2>2. op' \in CallType /\ op'.pc = "setup" /\ op'.i = op.i
    BY <1>1, <1>3 DEF ata_wait_ready, CallType
  <2>3. store = last
    BY <1>1, <2>1 DEF TypeInv, BetweenCalls, Storing
  <2>4. op.i = 0
    BY <1>1, <2>1 DEF AtaInv
  <2> QED BY <1>1, <1>2, <2>1, <2>2, <2>3, <2>4 DEF AtaInv, TypeInv, Prepared, BetweenCalls
<1>4. CASE setup
  <2>1. op.pc = "setup" /\ Prepared /\ op.i = 0 /\ drive' = drive
    BY <1>4 DEF AtaInv, setup
  <2>2. op' \in CallType /\ op'.pc = "command" /\ op'.i = 0 /\ op'.lba = op.lba
    BY <1>1, <1>4, <2>1 DEF setup, CallType
  <2>3. regs' = [regs EXCEPT !.low = op.lba]
    BY <1>1, <1>4, <2>1, LbaBits DEF setup, Accepts, Prepared
  <2>4. regs' \in [head : {0}, low : Nat] /\ regs'.low = op.lba
    BY <1>1, <2>3, ConstantTypes DEF TypeInv
  <2> QED BY <1>1, <1>2, <2>1, <2>2, <2>4 DEF AtaInv, TypeInv, Prepared
<1>5. CASE command
  <2>1. op.pc = "command" /\ Prepared /\ op.i = 0 /\ regs.low = op.lba /\ regs' = regs
    BY <1>5 DEF AtaInv, command
  <2>2. /\ op' \in CallType /\ op'.pc = "drq" /\ op'.i = 0 /\ op'.lba = op.lba
        /\ op'.kind = op.kind
    BY <1>1, <1>5, <2>1 DEF command, CallType
  <2>3. Accepts /\ Command(op.kind)
    BY <1>5, <2>1 DEF command, Accepts, Prepared
  <2>4. /\ drive' \in DriveType /\ drive'.bsy /\ ~drive'.drq
        /\ drive'.cmd = op.kind /\ drive'.at = 0 /\ drive'.lba = op.lba
    BY <1>1, <2>1, <2>3, CommandAccepted
  <2>5. Commanded'
    BY <1>2, <2>1, <2>2, <2>4 DEF Commanded, Prepared
  <2> QED BY <1>1, <1>2, <2>1, <2>2, <2>4, <2>5 DEF AtaInv, TypeInv
<1>6. CASE wait_drq
  <2>1. op.pc = "drq" /\ Commanded /\ ~drive.bsy /\ drive.drq /\ UNCHANGED <<regs, drive>>
    BY <1>6 DEF AtaInv, wait_drq
  <2>2. /\ op' \in CallType /\ op'.pc = "words" /\ op'.i = op.i /\ op'.lba = op.lba
        /\ op'.kind = op.kind /\ op'.buf = op.buf
    BY <1>1, <1>6, <2>1 DEF wait_drq, CallType
  <2>3. \A w \in Words : ~(w < 0)
    BY ConstantTypes
  <2>4. Moving'
    BY <1>2, <2>1, <2>2, <2>3, ConstantTypes DEF Moving, Commanded
  <2> QED BY <1>1, <1>2, <2>1, <2>2, <2>4 DEF AtaInv, TypeInv
<1> QED BY <1>3, <1>4, <1>5, <1>6
\* What a turn of the loop does to the driver's locals.
LEMMA TransferCall ==
    ASSUME TypeInv, op.pc = "words", op.i < WORDS, drive.drq, drive.at = op.i, transfer
    PROVE  /\ op' \in CallType /\ op'.i = op.i + 1
           /\ op'.kind = op.kind /\ op'.lba = op.lba
           /\ op'.pc = IF op.i + 1 < WORDS THEN "words"
                       ELSE IF op.kind = "write" THEN "flush" ELSE "done"
           /\ op.kind = "write" => op'.buf = op.buf
           /\ op.kind = "read" => op'.buf = [op.buf EXCEPT ![op.i] = drive.buf[op.i]]
<1> DEFINE next == IF op.i + 1 < WORDS THEN "words"
                   ELSE IF op.kind = "write" THEN "flush" ELSE "done"
<1>1. /\ op \in CallType /\ op.i \in Nat /\ op.buf \in Sector
      /\ op.kind \in {"read", "write"} /\ op.i \in Words
  BY CallFields, ConstantTypes
<1>2. drive.buf[op.i] \in WordVal
  BY <1>1 DEF TypeInv, DriveType, Sector
<1>3. CASE op.kind = "read"
  <2> DEFINE b == [op.buf EXCEPT ![op.i] = drive.buf[op.i]]
  <2>1. b \in Sector
    BY <1>1, <1>2 DEF Sector
  <2>2. op' = [op EXCEPT !.buf = b, !.i = op.i + 1, !.pc = next]
    BY <1>1, <1>3 DEF transfer, CallType
  <2> HIDE DEF b
  <2>3. op.i + 1 \in Nat /\ next \in {"words", "flush", "done"}
    BY <1>1
  <2> HIDE DEF next
  <2>4. /\ op' \in CallType /\ op'.i = op.i + 1 /\ op'.kind = op.kind /\ op'.lba = op.lba
        /\ op'.pc = next /\ op'.buf = b
    BY <1>1, <2>1, <2>2, <2>3 DEF CallType
  <2> QED BY <1>3, <2>4 DEF b, next
<1>4. CASE op.kind = "write"
  <2>2. op' = [op EXCEPT !.i = op.i + 1, !.pc = next]
    BY <1>1, <1>4 DEF transfer, CallType
  <2>3. op.i + 1 \in Nat /\ next \in {"words", "flush", "done"}
    BY <1>1
  <2> HIDE DEF next
  <2>4. /\ op' \in CallType /\ op'.i = op.i + 1 /\ op'.kind = op.kind /\ op'.lba = op.lba
        /\ op'.pc = next /\ op'.buf = op.buf
    BY <1>1, <2>2, <2>3 DEF CallType
  <2> QED BY <1>4, <2>4 DEF next
<1> QED BY <1>1, <1>3, <1>4

\* What it does to the drive.
LEMMA TransferDrive ==
    ASSUME TypeInv, op.pc = "words", Moving, transfer
    PROVE  /\ drive' \in DriveType /\ drive'.at = op.i + 1 /\ drive'.lba = op.lba
           /\ drive'.buf = IF op.kind = "read" THEN drive.buf
                           ELSE [drive.buf EXCEPT ![op.i] = op.buf[op.i]]
           /\ op.i + 1 < WORDS => drive'.drq /\ ~drive'.bsy /\ drive'.cmd = op.kind
           /\ op.i + 1 = WORDS =>
                 ~drive'.drq /\ (drive'.bsy <=> op.kind = "write")
                 /\ (op.kind = "write" => drive'.cmd = "store")
<1> DEFINE b == IF op.kind = "read" THEN drive.buf
                ELSE [drive.buf EXCEPT ![op.i] = op.buf[op.i]]
           more == op.i + 1 < WORDS
           full == (op.kind = "write" /\ op.i + 1 = WORDS)
           c == IF more THEN op.kind ELSE IF op.kind = "write" THEN "store" ELSE "none"
<1>1. /\ op \in CallType /\ op.i \in Nat /\ op.buf \in Sector /\ drive \in DriveType
      /\ op.kind \in {"read", "write"} /\ op.i \in Words
      /\ drive.drq /\ drive.at = op.i /\ drive.cmd = op.kind /\ drive.lba = op.lba
      /\ drive.buf \in Sector /\ op.lba \in Nat /\ op.i < WORDS
  BY CallFields, ConstantTypes DEF Moving, TypeInv, DriveType
<1>2. b \in Sector
  BY <1>1 DEF Sector
<1>3. op.i % WORDS = op.i
  BY <1>1, ConstantTypes
<1>4. drive' = DataPort(b)
  BY <1>1, <1>3 DEF transfer
<1> HIDE DEF b
<1>5. drive' = [drive EXCEPT !.at = op.i + 1, !.buf = b, !.drq = more, !.bsy = full, !.cmd = c]
  BY <1>1, <1>4 DEF DataPort, DriveType
<1>6. more \in BOOLEAN /\ full \in BOOLEAN /\ op.i + 1 \in Nat
      /\ c \in {"none", "read", "write", "store", "flush"}
  BY <1>1
<1> HIDE DEF more, full, c
<1>7. /\ drive' \in DriveType /\ drive'.at = op.i + 1 /\ drive'.lba = op.lba
      /\ drive'.buf = b /\ drive'.drq = more /\ drive'.bsy = full /\ drive'.cmd = c
  BY <1>1, <1>2, <1>5, <1>6 DEF DriveType
<1>8. op.i + 1 < WORDS => more /\ ~full /\ c = op.kind
  BY <1>1, ConstantTypes DEF more, full, c
<1>9. op.i + 1 = WORDS => /\ ~more /\ (full <=> op.kind = "write")
                          /\ (op.kind = "write" => c = "store")
  BY <1>1, ConstantTypes DEF more, full, c
<1> QED BY <1>7, <1>8, <1>9 DEF b

\* A turn of the loop over the words.
LEMMA TransferStep == ASSUME AtaInv, transfer PROVE AtaInv'
<1>1. op.pc = "words" /\ TypeInv /\ Moving /\ UNCHANGED <<regs, store, ops, last>>
  BY DEF AtaInv, transfer
<1>2. /\ op \in CallType /\ op.i \in Nat /\ op.i \in Words /\ op.kind \in {"read", "write"}
      /\ op.lba \in Sectors /\ op.buf \in Sector /\ drive.buf \in Sector /\ op.i < WORDS
      /\ drive.drq /\ drive.at = op.i
  BY <1>1, CallFields, ConstantTypes DEF Moving, TypeInv, DriveType
<1>3. /\ op' \in CallType /\ op'.i = op.i + 1 /\ op'.kind = op.kind /\ op'.lba = op.lba
      /\ op'.pc = IF op.i + 1 < WORDS THEN "words"
                  ELSE IF op.kind = "write" THEN "flush" ELSE "done"
      /\ op.kind = "write" => op'.buf = op.buf
      /\ op.kind = "read" => op'.buf = [op.buf EXCEPT ![op.i] = drive.buf[op.i]]
  BY <1>1, <1>2, TransferCall
<1>4. /\ drive' \in DriveType /\ drive'.at = op.i + 1 /\ drive'.lba = op.lba
      /\ drive'.buf = IF op.kind = "read" THEN drive.buf
                      ELSE [drive.buf EXCEPT ![op.i] = op.buf[op.i]]
      /\ op.i + 1 < WORDS => drive'.drq /\ ~drive'.bsy /\ drive'.cmd = op.kind
      /\ op.i + 1 = WORDS =>
            ~drive'.drq /\ (drive'.bsy <=> op.kind = "write")
            /\ (op.kind = "write" => drive'.cmd = "store")
  BY <1>1, TransferDrive
<1>5. TypeInv'
  BY <1>1, <1>3, <1>4 DEF TypeInv
<1>6. ASSUME NEW w \in Words, w < op.i + 1 PROVE op'.buf[w] = drive'.buf[w]
  <2>1. w < op.i \/ w = op.i
    BY <1>2, <1>6, ConstantTypes
  <2> QED BY <1>1, <1>2, <1>3, <1>4, <2>1 DEF Moving, Sector
<1>7. CASE op.i + 1 < WORDS
  <2>1. op'.pc = "words"
    BY <1>3, <1>7
  <2>2. Moving'
    BY <1>1, <1>2, <1>3, <1>4, <1>6, <1>7 DEF Moving
  <2> QED BY <1>5, <2>1, <2>2 DEF AtaInv
<1>8. CASE op.i + 1 = WORDS
  <2>1. \A w \in Words : op'.buf[w] = drive'.buf[w]
    BY <1>2, <1>6, <1>8, ConstantTypes
  <2>2. op'.buf = drive'.buf
    BY <1>3, <1>4, <2>1 DEF CallType, DriveType, Sector
  <2>3. CASE op.kind = "read"
    <3>1. op'.pc = "done"
      BY <1>3, <1>8, <2>3, ConstantTypes
    <3>2. Fetched'
      BY <1>1, <1>3, <1>4, <1>8, <2>2, <2>3 DEF Fetched, Moving
    <3> QED BY <1>5, <3>1, <3>2 DEF AtaInv
  <2>4. CASE op.kind = "write"
    <3>1. op'.pc = "flush"
      BY <1>3, <1>8, <2>4, ConstantTypes
    <3>2. Written'
      BY <1>1, <1>3, <1>4, <1>8, <2>2, <2>4 DEF Written, Moving
    <3> QED BY <1>5, <3>1, <3>2 DEF AtaInv
  <2> QED BY <1>2, <2>3, <2>4
<1> QED BY <1>2, <1>7, <1>8, ConstantTypes

\* The end of a write: the flush command is ignored by a drive that is still storing.
LEMMA FlushStep == ASSUME AtaInv, flush PROVE AtaInv'
<1>1. op.pc = "flush" /\ TypeInv /\ Written /\ UNCHANGED <<regs, store, ops>>
  BY DEF AtaInv, flush
<1>2. op.lba \in Sectors /\ op.buf \in Sector
  BY <1>1, CallFields
<1>3. op' = NoOp /\ op'.pc = "idle" /\ Command("flush")
      /\ last' = [last EXCEPT ![op.lba] = op.buf]
  BY DEF flush, NoOp
<1>4. /\ last' \in [Sectors -> Sector] /\ last'[op.lba] = op.buf
      /\ \A s \in Sectors : s # op.lba => last'[s] = last[s]
  BY <1>1, <1>2, <1>3 DEF TypeInv
<1>5. CASE drive.bsy
  <2>1. drive' = drive
    BY <1>3, <1>5 DEF Command, Accepts
  <2>2. BetweenCalls'
    BY <1>1, <1>2, <1>4, <1>5, <2>1 DEF BetweenCalls, Storing, Written
  <2> QED BY <1>1, <1>3, <1>4, <2>1, <2>2 DEF AtaInv, TypeInv
<1>6. CASE ~drive.bsy
  <2>1. Accepts
    BY <1>1, <1>6 DEF Accepts, Written
  <2>2. drive' \in DriveType /\ drive'.cmd = "flush" /\ ~drive'.drq
    BY <1>1, <1>3, <2>1, CommandAccepted
  <2>3. BetweenCalls'
    BY <1>1, <1>2, <1>4, <1>6, <2>2 DEF BetweenCalls, Storing, Written
  <2> QED BY <1>1, <1>3, <1>4, <2>2, <2>3 DEF AtaInv, TypeInv
<1> QED BY <1>5, <1>6

\* Every step keeps the invariant.
LEMMA AtaInvStep == AtaInv /\ [Next]_vars => AtaInv'
<1> SUFFICES ASSUME AtaInv, [Next]_vars PROVE AtaInv'
  OBVIOUS
<1>1. ASSUME NEW s \in Sectors, ata_read_sector(s) \/ ata_write_sector(s) PROVE AtaInv'
  BY <1>1, StartStep DEF ata_read_sector, ata_write_sector
<1>2. CASE drive_ready \/ drive_done
  BY <1>2, DriveSteps
<1>3. CASE ata_wait_ready \/ setup \/ command \/ wait_drq
  BY <1>3, CommandSteps
<1>4. CASE transfer
  BY <1>4, TransferStep
<1>5. CASE flush
  BY <1>5, FlushStep
<1>6. CASE return
  <2>1. op.pc = "done" /\ TypeInv /\ Fetched /\ UNCHANGED <<regs, drive, store, ops, last>>
    BY <1>6 DEF AtaInv, return
  <2>2. op' = NoOp /\ op'.pc = "idle"
    BY <1>6 DEF return, NoOp
  <2>3. BetweenCalls'
    BY <2>1 DEF BetweenCalls, Storing, Fetched
  <2> QED BY <2>1, <2>2, <2>3 DEF AtaInv, TypeInv
<1>7. CASE UNCHANGED vars
  BY <1>7 DEF vars, AtaInv, TypeInv, BetweenCalls, Storing, Prepared, Commanded, Moving,
              Written, Fetched
<1> QED BY <1>1, <1>2, <1>3, <1>4, <1>5, <1>6, <1>7 DEF Next, DriverStep

-----------------------------------------------------------------------------
(* Theorems.                                                               *)

\* Words are moved only while the drive asks for them, for the driver's own command,
\* sector and word: the waits of ata.c are enough for a drive of any speed.
THEOREM InStepThm == Spec => []InStep
<1>1. AtaInv => InStep
  BY DEF AtaInv, InStep, Moving
<1> QED BY <1>1, AtaInvInit, AtaInvStep, PTL DEF Spec

\* A read returns what was last written to its sector, although ata_write_sector returns
\* while the drive is still storing the sector.
THEOREM ReadsLastWriteThm == Spec => []ReadsLastWrite
<1>1. AtaInv => ReadsLastWrite
  BY DEF AtaInv, ReadsLastWrite, Fetched
<1> QED BY <1>1, AtaInvInit, AtaInvStep, PTL DEF Spec
=============================================================================
