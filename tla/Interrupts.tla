----------------------------- MODULE Interrupts -----------------------------
(***************************************************************************)
(* Who runs on the one CPU of CIndy-OS, on which stack and with which      *)
(* interrupts: kernel_main's boot sequence, the handlers of IRQ 0 and IRQ  *)
(* 1 (src/isr.asm, timer.c, kernel.c), the command that the keyboard       *)
(* handler runs, the ring-3 program that the command starts                *)
(* (usermode.asm) and its int 0x80.                                        *)
(*                                                                         *)
(* The kernel stack is a sequence of frames, a stack pointer a number of   *)
(* frames.  An interrupt in ring 3 starts at tss.esp0, whatever is there.  *)
(* The PIC is in fully nested mode; keys wait in the keyboard controller.  *)
(***************************************************************************)
EXTENDS Naturals, Sequences, FiniteSets

CONSTANTS
    KeyKinds,    \* what a key does: "edit", or Enter on a line with a command of that kind
    MAX_QUEUE,   \* bytes the keyboard and its controller hold
    MAX_NEST     \* bound: keyboard handlers on the stack when a key is typed

ASSUME InterruptsAssumption ==
    /\ KeyKinds \subseteq {"edit", "builtin", "run", "fat-write", "reboot"}
    /\ MAX_QUEUE \in Nat /\ MAX_NEST \in Nat

\* What kernel_main does from enable_interrupts on.
BootSeq ==
    <<"enable_interrupts", "init_timer", "init_memory", "init_paging", "init_pmm",
      "gdt_init_tss", "init_fs", "fat16_init", "process_init", "hlt">>

VARIABLES
    boot,             \* where kernel_main is in BootSeq
    kstack,           \* the kernel stack
    cpl,              \* the ring the CPU is in
    iflag,            \* the CPU's interrupt flag
    irr, isr,         \* the PIC's requested and in-service lines
    keys,             \* what waits in the keyboard controller
    tss,              \* loaded, and its esp0
    saved_kernel_esp,
    halted,           \* cli; hlt in fault_handler, the reset by the reboot command, or
                      \* the kernel lost its way
    launch            \* history: the stack at the last jump_to_usermode

vars == <<boot, kstack, cpl, iflag, irr, isr, keys, tss, saved_kernel_esp, halted, launch>>
cpu == <<boot, tss, saved_kernel_esp, halted, launch>>

\* A frame: whose it is, where that is, and what its iret goes back to.
Frame(ctx, pc) == [ctx |-> ctx, pc |-> pc, ring |-> cpl, iflag |-> iflag]
MainFrame == [ctx |-> "main", pc |-> "boot", ring |-> 0, iflag |-> FALSE]

Top == kstack[Len(kstack)]
At(ctx, pc) == ~halted /\ cpl = 0 /\ Top.ctx = ctx /\ Top.pc = pc
Goto(k, pc) == [k EXCEPT ![Len(k)].pc = pc]
Pop(k) == SubSeq(k, 1, Len(k) - 1)

\* The stack an interrupt pushes its frame on.
StackOnEntry == IF cpl = 3 THEN SubSeq(kstack, 1, tss.esp0) ELSE kstack

\* The line the PIC offers: the lowest requested one, if no line in service is as low.
Offered(i) ==
    i \in irr /\ \A j \in 0..i : j \notin isr /\ (j \in irr => j = i)

\* A non-specific EOI ends the lowest line in service.
AfterEoi == {i \in isr : \E j \in isr : j < i}

Init ==
    /\ boot = 1
    /\ kstack = <<MainFrame>>
    /\ cpl = 0 /\ iflag = FALSE
    /\ irr = {} /\ isr = {} /\ keys = <<>>
    /\ tss = [loaded |-> FALSE, esp0 |-> 0] /\ saved_kernel_esp = 0
    /\ halted = FALSE /\ launch = <<>>

-----------------------------------------------------------------------------
(* The outside world.                                                      *)

\* The timer's line rises.  timer_handler is far shorter than the ten milliseconds
\* between two ticks, so none comes during it.
tick ==
    /\ \A n \in DOMAIN kstack : kstack[n].ctx # "irq0"
    /\ irr' = irr \cup {0}
    /\ UNCHANGED <<kstack, cpl, iflag, isr, keys, cpu>>

\* The controller requests IRQ 1 when its empty output buffer is filled.
key_typed(k) ==
    /\ Len(keys) < MAX_QUEUE
    /\ Cardinality({n \in DOMAIN kstack : kstack[n].ctx = "irq1"}) < MAX_NEST
    /\ keys' = Append(keys, k)
    /\ irr' = IF keys = <<>> THEN irr \cup {1} ELSE irr
    /\ UNCHANGED <<kstack, cpl, iflag, isr, cpu>>

-----------------------------------------------------------------------------
(* Boot.                                                                   *)

boot_step ==
    /\ At("main", "boot") /\ boot < Len(BootSeq)
    /\ boot' = boot + 1
    /\ iflag' = (iflag \/ BootSeq[boot] = "enable_interrupts")
    /\ tss' = IF BootSeq[boot] = "gdt_init_tss" THEN [loaded |-> TRUE, esp0 |-> 0] ELSE tss
    /\ UNCHANGED <<kstack, cpl, irr, isr, keys, saved_kernel_esp, halted, launch>>

\* fat16_init is done: files can be found and written.
FatReady == \E n \in 1..(boot - 1) : BootSeq[n] = "fat16_init"

-----------------------------------------------------------------------------
(* Interrupts.                                                             *)

\* The CPU takes an interrupt: isr32 or isr33 starts with interrupts off.
Deliver(i, ctx) ==
    /\ ~halted /\ iflag /\ Offered(i)
    /\ kstack' = Append(StackOnEntry, Frame(ctx, "enter"))
    /\ cpl' = 0 /\ iflag' = FALSE
    /\ irr' = irr \ {i} /\ isr' = isr \cup {i}
    /\ UNCHANGED <<keys, cpu>>

irq0 == Deliver(0, "irq0")
irq1 == Deliver(1, "irq1")

\* timer_handler counts the tick and ends the interrupt.
timer_handler ==
    /\ At("irq0", "enter")
    /\ kstack' = Goto(kstack, "iret")
    /\ isr' = AfterEoi
    /\ UNCHANGED <<cpl, iflag, irr, keys, cpu>>

\* Mutant: the EOI is sent before the key is handled.
keyboard_handler_eoiFirst ==
    /\ At("irq1", "enter") /\ keys # <<>>
    /\ keys' = Tail(keys)
    /\ irr' = IF Tail(keys) # <<>> THEN irr \cup {1} ELSE irr
    /\ isr' = AfterEoi
    /\ kstack' = IF Head(keys) = "edit" THEN Goto(kstack, "eoi")
                 ELSE Append(Goto(kstack, "eoi"), Frame("cmd", Head(keys)))
    /\ UNCHANGED <<cpl, iflag, cpu>>

\* keyboard_handler reads the scancode, upon which the controller offers the next one.
\* Enter calls execute_command, with interrupts off and IRQ 1 in service.
keyboard_handler ==
    /\ At("irq1", "enter") /\ keys # <<>>
    /\ keys' = Tail(keys)
    /\ irr' = IF Tail(keys) # <<>> THEN irr \cup {1} ELSE irr
    /\ kstack' = IF Head(keys) = "edit" THEN Goto(kstack, "eoi")
                 ELSE Append(Goto(kstack, "eoi"), Frame("cmd", Head(keys)))
    /\ UNCHANGED <<cpl, iflag, isr, cpu>>

\* Mutant: no EOI.
keyboard_eoi_missing ==
    /\ At("irq1", "eoi")
    /\ kstack' = Goto(kstack, "iret")
    /\ UNCHANGED <<cpl, iflag, irr, isr, keys, cpu>>

\* The EOI at the end of keyboard_handler.
keyboard_eoi ==
    /\ At("irq1", "eoi")
    /\ isr' = AfterEoi
    /\ kstack' = Goto(kstack, "iret")
    /\ UNCHANGED <<cpl, iflag, irr, keys, cpu>>

\* iret at the end of isr32, isr33 and of isr128's .resume_interrupt.
iret ==
    /\ \/ At("irq0", "iret") \/ At("irq1", "iret") \/ At("int80", "iret")
    /\ kstack' = Pop(kstack)
    /\ cpl' = Top.ring /\ iflag' = Top.iflag
    /\ UNCHANGED <<irr, isr, keys, cpu>>

-----------------------------------------------------------------------------
(* Commands and programs.                                                  *)

\* execute_command returns: a command without a program, run or spawn of a file that
\* is not found (as all are before fat16_init), or one whose program has exited.
cmd_return ==
    /\ \/ At("cmd", "builtin") \/ At("cmd", "run") \/ At("cmd", "back")
       \/ At("cmd", "fat-write") /\ FatReady
    /\ kstack' = Pop(kstack)
    /\ UNCHANGED <<cpl, iflag, irr, isr, keys, cpu>>

\* A sector that the drive answers with an error: ata_read_sector and ata_write_sector
\* wait for ever for a DRQ that does not come (module Ata says when).  In fat16_init the
\* interrupts go on; a command waits with interrupts off.  Nothing leads on from here.
ata_hangs ==
    /\ \/ At("main", "boot") /\ BootSeq[boot] = "fat16_init"
       \/ At("cmd", "builtin")
       \/ FatReady /\ (At("cmd", "run") \/ At("cmd", "fat-write"))
    /\ kstack' = Goto(kstack, "polling")
    /\ UNCHANGED <<cpl, iflag, irr, isr, keys, cpu>>

\* Mutant: tss.esp0 stays where it was.
jump_to_usermode_noTss ==
    /\ At("cmd", "run") /\ FatReady
    /\ kstack' = Goto(kstack, "launched")
    /\ saved_kernel_esp' = Len(kstack)
    /\ launch' = kstack' /\ cpl' = 3 /\ iflag' = TRUE
    /\ UNCHANGED <<boot, irr, isr, keys, tss, halted>>

\* Mutant: the program inherits the handler's interrupt flag.
jump_to_usermode_noIf ==
    /\ At("cmd", "run") /\ FatReady
    /\ kstack' = Goto(kstack, "launched")
    /\ tss' = [tss EXCEPT !.esp0 = Len(kstack)]
    /\ saved_kernel_esp' = Len(kstack)
    /\ launch' = kstack' /\ cpl' = 3 /\ UNCHANGED iflag
    /\ UNCHANGED <<boot, irr, isr, keys, halted>>

\* run and spawn enter ring 3 from inside the keyboard handler, interrupts on.
jump_to_usermode ==
    /\ At("cmd", "run") /\ FatReady
    /\ kstack' = Goto(kstack, "launched")
    /\ tss' = [tss EXCEPT !.esp0 = Len(kstack)]
    /\ saved_kernel_esp' = Len(kstack)
    /\ launch' = kstack' /\ cpl' = 3 /\ iflag' = TRUE
    /\ UNCHANGED <<boot, irr, isr, keys, halted>>

\* The program calls int 0x80, an interrupt gate.
int80 ==
    /\ ~halted /\ cpl = 3
    /\ kstack' = Append(StackOnEntry, Frame("int80", "enter"))
    /\ cpl' = 0 /\ iflag' = FALSE
    /\ UNCHANGED <<irr, isr, keys, cpu>>

\* Any call but SYS_EXIT: the program is resumed by iret.
syscall_resume ==
    /\ At("int80", "enter")
    /\ kstack' = Goto(kstack, "iret")
    /\ UNCHANGED <<cpl, iflag, irr, isr, keys, cpu>>

\* SYS_EXIT: the frame of int 0x80 is dropped, the launcher goes on after
\* jump_to_usermode, now with interrupts on.  The segments and ESP are the launcher's;
\* EBP, EBX, ESI and EDI are the program's.  A program that has changed EBP, which it
\* was entered with the launcher's value in, takes the launcher's frame away.
kernel_return ==
    /\ At("int80", "enter")
    /\ \E pc \in {"back", "astray"} : kstack' = Goto(SubSeq(kstack, 1, saved_kernel_esp), pc)
    /\ iflag' = TRUE
    /\ UNCHANGED <<cpl, irr, isr, keys, cpu>>

\* The machine stops: a program's fault, the division by zero of fat-write before
\* fat16_init has set the geometry, or the reboot command.  A launcher without its EBP
\* leaves its function by whatever lies there: what follows is not modelled.
stop ==
    /\ ~halted
    /\ cpl = 3 \/ At("cmd", "reboot") \/ At("cmd", "astray") \/ (At("cmd", "fat-write") /\ ~FatReady)
    /\ halted' = TRUE /\ iflag' = FALSE
    /\ UNCHANGED <<boot, kstack, cpl, irr, isr, keys, tss, saved_kernel_esp, launch>>

HandlerStep ==
    \/ timer_handler \/ keyboard_handler \/ keyboard_eoi \/ iret
    \/ cmd_return \/ jump_to_usermode

Next ==
    \/ tick \/ \E k \in KeyKinds : key_typed(k)
    \/ boot_step \/ irq0 \/ irq1 \/ HandlerStep
    \/ int80 \/ syscall_resume \/ kernel_return \/ stop \/ ata_hangs

Spec == Init /\ [][Next]_vars

\* The CPU takes the interrupts it is offered, and goes on with what they interrupted.
\* A command comes to its end or hangs in a poll loop, ata_hangs, of which nothing is
\* assumed.  Nothing is assumed of the program either: it may run for ever.
FairSpec ==
    /\ Spec
    /\ SF_vars(irq0) /\ SF_vars(irq1) /\ SF_vars(boot_step)
    /\ SF_vars(timer_handler) /\ SF_vars(keyboard_handler) /\ SF_vars(keyboard_eoi)
    /\ SF_vars(iret) /\ SF_vars(cmd_return \/ jump_to_usermode)
    /\ SF_vars(syscall_resume \/ kernel_return)
    /\ SF_vars(stop /\ cpl = 0)

-----------------------------------------------------------------------------
(* Properties.                                                             *)

Program == cpl = 3 \/ \E n \in DOMAIN kstack : kstack[n].ring = 3

\* The PIC's in-service lines are the handlers on the stack that have not sent their
\* EOI: none is lost by kernel_return or ended by another handler's EOI.
InServiceMatchesStack ==
    \A i \in {0, 1} : (i \in isr) <=>
        \E n \in DOMAIN kstack : /\ kstack[n].ctx = (IF i = 0 THEN "irq0" ELSE "irq1")
                                 /\ kstack[n].pc \in {"enter", "eoi"}

\* The shell's commands never overlap, although they and their programs run inside the
\* keyboard interrupt with interrupts on: while a command has not returned, no other
\* one starts.
OneCommand ==
    Cardinality({n \in DOMAIN kstack : kstack[n].ctx = "cmd"}) <= 1

\* While a program is alive the TSS is loaded, saved_kernel_esp and tss.esp0 are its
\* launcher's stack pointer, and everything below is as the launcher left it: an
\* interrupt of the program overwrites nothing, and its exit finds its launcher's part of
\* the stack and the return address there (the registers are kernel_return's matter).
LauncherFrame ==
    Program =>
        /\ tss.loaded /\ tss.esp0 = saved_kernel_esp
        /\ saved_kernel_esp = Len(launch) /\ Len(launch) <= Len(kstack)
        /\ SubSeq(kstack, 1, Len(launch)) = launch

\* A command waits for the drive with interrupts off: the machine is dead.
CommandHangs == At("cmd", "polling")

\* A tick is always served in the end, also while a program runs that never calls the
\* kernel or kernel_main hangs in fat16_init, unless the machine stops or a command hangs
\* in a poll loop.
TickServed == (0 \in irr /\ boot > 1) ~> (0 \notin irr \/ halted \/ CommandHangs)

\* Waiting keys are read one after the other: the keyboard goes dead only when a program
\* keeps the machine for ever, a command hangs on the drive, or the machine stops (a
\* program that came back with another EBP included).
KeysServed ==
    []<>(keys = <<>> \/ At("irq1", "enter")) \/ <>[]Program \/ <>[]CommandHangs \/ <>[]halted
=============================================================================
