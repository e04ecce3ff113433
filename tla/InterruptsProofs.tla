-------------------------- MODULE InterruptsProofs --------------------------
(***************************************************************************)
(* Proofs about Interrupts for every set of commands, length of the        *)
(* keyboard's queue and depth of nesting: the shape of the kernel stack.   *)
(***************************************************************************)
EXTENDS Interrupts, FiniteSetTheorems, TLAPS

Contexts == {"main", "irq0", "irq1", "int80", "cmd"}
PCs == {"boot", "enter", "eoi", "iret", "builtin", "run", "fat-write", "reboot", "launched", "back",
        "astray", "polling"}
Frames == [ctx : Contexts, pc : PCs, ring : {0, 3}, iflag : BOOLEAN]

\* Where the frames of each owner can be.
Placed(f) ==
    \/ f.ctx = "main" /\ f.pc \in {"boot", "polling"}
    \/ f.ctx \in {"irq0", "int80"} /\ f.pc \in {"enter", "iret"}
    \/ f.ctx = "irq1" /\ f.pc \in {"enter", "eoi", "iret"}
    \/ f.ctx = "cmd" /\ f.pc \in {"builtin", "run", "fat-write", "reboot", "launched", "back",
                                 "astray", "polling"}

Is(n, ctx, pc) == kstack[n].ctx = ctx /\ kstack[n].pc = pc

\* A keyboard handler that has not sent its EOI.
Unended(n) == kstack[n].ctx = "irq1" /\ kstack[n].pc \in {"enter", "eoi"}

\* Where an interrupt can come: these run with interrupts on, at some time.
Interruptible(n) ==
    \/ kstack[n].ctx = "main"
    \/ kstack[n].ctx = "irq1" /\ kstack[n].pc \in {"eoi", "iret"}
    \/ kstack[n].ctx = "cmd" /\ kstack[n].pc \in {"launched", "back", "astray"}

InterruptsTypeOK ==
    /\ boot \in 1..Len(BootSeq)
    /\ kstack \in Seq(Frames) /\ Len(kstack) > 0
    /\ \A n \in DOMAIN kstack : Placed(kstack[n])
    /\ cpl \in {0, 3} /\ iflag \in BOOLEAN /\ halted \in BOOLEAN
    /\ irr \subseteq {0, 1} /\ isr \subseteq {0, 1} /\ keys \in Seq(KeyKinds)
    /\ tss \in [loaded : BOOLEAN, esp0 : Nat] /\ saved_kernel_esp \in Nat
    /\ launch \in Seq(Frames)

\* main is at the bottom; the timer's handler, a system call and a keyboard handler
\* that has not read its key are on top; a command lies on the keyboard handler that
\* called it; there is no keyboard handler above one that has not sent its EOI; system
\* calls come from ring 3.
StackShape ==
    /\ \A n \in DOMAIN kstack : kstack[n].ctx = "main" <=> n = 1
    /\ \A n \in DOMAIN kstack : n < Len(kstack) => Interruptible(n)
    /\ \A n \in DOMAIN kstack : kstack[n].ctx = "cmd" => n > 1 /\ Is(n - 1, "irq1", "eoi")
    /\ \A n, m \in DOMAIN kstack : Unended(n) /\ n < m => kstack[m].ctx # "irq1"
    /\ \A n \in DOMAIN kstack : kstack[n].ctx = "int80" => kstack[n].ring = 3

\* Interrupts are off elsewhere, and a program runs or was interrupted above the
\* command that launched it.
CpuState ==
    /\ iflag => Interruptible(Len(kstack))
    /\ cpl = 3 <=> Is(Len(kstack), "cmd", "launched")
    /\ \A n \in DOMAIN kstack : kstack[n].ring = 3 <=> n > 1 /\ Is(n - 1, "cmd", "launched")

\* The in-service lines.
PicState ==
    /\ 0 \in isr <=> Is(Len(kstack), "irq0", "enter")
    /\ 1 \in isr <=> \E n \in DOMAIN kstack : Unended(n)

\* gdt_init_tss comes before fat16_init, without which nothing is launched; the launcher
\* is where jump_to_usermode left it.
LaunchState ==
    /\ boot > 6 => tss.loaded
    /\ \A n \in DOMAIN kstack : Is(n, "cmd", "launched") =>
          /\ boot > 6 /\ tss.esp0 = n /\ saved_kernel_esp = n /\ Len(launch) = n
          /\ \A m \in 1..n : kstack[m] = launch[m]

\* The inductive invariant.
StackInv == InterruptsTypeOK /\ StackShape /\ CpuState /\ PicState /\ LaunchState

-----------------------------------------------------------------------------
(* The stack.                                                              *)

\* The indices of the stack.
LEMMA StackIndices ==
    ASSUME NEW k \in Seq(Frames)
    PROVE  DOMAIN k = 1..Len(k) /\ Len(k) \in Nat /\ \A n \in 1..Len(k) : k[n] \in Frames
  OBVIOUS

\* A call or an interrupt: a new frame.
LEMMA Pushed ==
    ASSUME NEW k \in Seq(Frames), NEW f \in Frames
    PROVE  /\ Append(k, f) \in Seq(Frames) /\ Len(Append(k, f)) = Len(k) + 1
           /\ \A n \in 1..Len(k) : Append(k, f)[n] = k[n]
           /\ Append(k, f)[Len(k) + 1] = f
  OBVIOUS

\* A step within a handler or a command.
LEMMA Moved ==
    ASSUME NEW k \in Seq(Frames), Len(k) > 0, NEW p \in PCs
    PROVE  /\ Goto(k, p) \in Seq(Frames) /\ Len(Goto(k, p)) = Len(k)
           /\ \A n \in 1..(Len(k) - 1) : Goto(k, p)[n] = k[n]
           /\ Goto(k, p)[Len(k)] \in Frames
           /\ Goto(k, p)[Len(k)].ctx = k[Len(k)].ctx /\ Goto(k, p)[Len(k)].pc = p
           /\ Goto(k, p)[Len(k)].ring = k[Len(k)].ring
<1>1. k[Len(k)] \in Frames /\ Len(k) \in 1..Len(k)
  OBVIOUS
<1>2. PICK g : g = [k[Len(k)] EXCEPT !.pc = p]
  OBVIOUS
<1>3. g \in Frames /\ g.ctx = k[Len(k)].ctx /\ g.pc = p /\ g.ring = k[Len(k)].ring
  BY <1>1, <1>2 DEF Frames
<1>4. Goto(k, p) = [k EXCEPT ![Len(k)] = g]
  BY <1>2 DEF Goto
<1> QED BY <1>1, <1>3, <1>4

\* The part of the stack below a stack pointer.
LEMMA Below ==
    ASSUME NEW k \in Seq(Frames), NEW n \in 0..Len(k)
    PROVE  /\ SubSeq(k, 1, n) \in Seq(Frames) /\ Len(SubSeq(k, 1, n)) = n
           /\ \A m \in 1..n : SubSeq(k, 1, n)[m] = k[m]
  OBVIOUS

\* A return.
LEMMA Popped ==
    ASSUME NEW k \in Seq(Frames), Len(k) > 0
    PROVE  /\ Pop(k) \in Seq(Frames) /\ Len(Pop(k)) = Len(k) - 1
           /\ \A n \in 1..(Len(k) - 1) : Pop(k)[n] = k[n]
<1>0. PICK L \in Nat : L = Len(k) /\ L > 0
  BY StackIndices
<1>1. PICK n \in 0..Len(k) : n = Len(k) - 1
  <2>1. L - 1 \in 0..L
    BY <1>0
  <2> QED BY <1>0, <2>1
<1>2. PICK p : p = SubSeq(k, 1, n)
  OBVIOUS
<1>3. p \in Seq(Frames) /\ Len(p) = n /\ \A m \in 1..n : p[m] = k[m]
  BY <1>2, Below
<1>4. Pop(k) = p
  BY <1>1, <1>2 DEF Pop
<1> QED BY <1>1, <1>3, <1>4

\* The facts about the stack that the steps use.
LEMMA StackFacts ==
    ASSUME StackInv
    PROVE  /\ kstack \in Seq(Frames) /\ Len(kstack) \in Nat /\ Len(kstack) > 0
           /\ DOMAIN kstack = 1..Len(kstack) /\ Top \in Frames
           /\ \A n \in 1..Len(kstack) : kstack[n] \in Frames
<1>1. kstack \in Seq(Frames) /\ Len(kstack) > 0
  BY DEF StackInv, InterruptsTypeOK
<1> QED BY <1>1, StackIndices DEF Top

\* An interrupt of a program starts where the launcher's stack ends: it overwrites
\* nothing.
LEMMA EntersAbove == ASSUME StackInv PROVE StackOnEntry = kstack
<1>1. CASE cpl = 3
  <2>1. Is(Len(kstack), "cmd", "launched") /\ Len(kstack) \in DOMAIN kstack
    BY <1>1, StackFacts DEF StackInv, CpuState
  <2>2. tss.esp0 = Len(kstack)
    BY <2>1 DEF StackInv, LaunchState
  <2>3. SubSeq(kstack, 1, Len(kstack)) = kstack
    BY StackFacts
  <2> QED BY <1>1, <2>2, <2>3 DEF StackOnEntry
<1>2. CASE cpl # 3
  BY <1>2 DEF StackOnEntry
<1> QED BY <1>1, <1>2

\* While the timer's handler or a system call runs, or a keyboard handler that has not
\* read its key, nothing is above; so interrupts are off.
LEMMA InterruptsOff ==
    ASSUME StackInv, ~Interruptible(Len(kstack))
    PROVE  ~iflag
  BY DEF StackInv, CpuState

\* There is at most one command on the stack.
LEMMA OneCommandFrame ==
    ASSUME StackInv, NEW n \in DOMAIN kstack, NEW m \in DOMAIN kstack,
           kstack[n].ctx = "cmd", kstack[m].ctx = "cmd"
    PROVE  n = m
<1>1. /\ n \in Nat /\ m \in Nat /\ n > 1 /\ m > 1 /\ n - 1 \in DOMAIN kstack /\ m - 1 \in DOMAIN kstack
      /\ Is(n - 1, "irq1", "eoi") /\ Is(m - 1, "irq1", "eoi")
  BY StackFacts DEF StackInv, StackShape
<1>2. Unended(n - 1) /\ Unended(m - 1) /\ kstack[n - 1].ctx = "irq1" /\ kstack[m - 1].ctx = "irq1"
  BY <1>1 DEF Unended, Is
<1>3. ~(n - 1 < m - 1) /\ ~(m - 1 < n - 1)
  BY <1>1, <1>2 DEF StackInv, StackShape
<1> QED BY <1>1, <1>3

-----------------------------------------------------------------------------
(* StackInv is inductive.                                                  *)

\* The state at the start of kernel_main's enable_interrupts.
LEMMA StackInvInit == Init => StackInv
<1> SUFFICES ASSUME Init PROVE StackInv
  OBVIOUS
<1>1. MainFrame \in Frames /\ MainFrame.ctx = "main" /\ MainFrame.pc = "boot" /\ MainFrame.ring = 0
  BY DEF MainFrame, Frames, Contexts, PCs
<1>2. /\ kstack \in Seq(Frames) /\ Len(kstack) = 1 /\ DOMAIN kstack = {1} /\ kstack[1] = MainFrame
      /\ boot = 1 /\ cpl = 0 /\ iflag = FALSE /\ irr = {} /\ isr = {} /\ keys = <<>>
      /\ tss = [loaded |-> FALSE, esp0 |-> 0] /\ saved_kernel_esp = 0 /\ halted = FALSE /\ launch = <<>>
  BY <1>1 DEF Init
<1>3. Len(BootSeq) = 10
  BY DEF BootSeq
<1>4. InterruptsTypeOK
  <2>1. \A n \in DOMAIN kstack : Placed(kstack[n])
    BY <1>1, <1>2 DEF Placed
  <2>2. iflag \in BOOLEAN /\ halted \in BOOLEAN
    BY <1>2
  <2>3. tss \in [loaded : BOOLEAN, esp0 : Nat]
    BY <1>2
  <2>4. boot \in 1..Len(BootSeq)
    BY <1>2, <1>3
  <2> QED BY <1>2, <2>1, <2>2, <2>3, <2>4 DEF InterruptsTypeOK
<1>5. StackShape /\ CpuState /\ PicState /\ LaunchState
  BY <1>1, <1>2 DEF StackShape, CpuState, PicState, LaunchState, Is, Unended, Interruptible
<1> QED BY <1>4, <1>5 DEF StackInv

\* An interrupt or a system call pushes a frame.
LEMMA EntryKeeps ==
    ASSUME StackInv, NEW ctx \in {"irq0", "irq1", "int80"},
           kstack' = Append(kstack, Frame(ctx, "enter")), Interruptible(Len(kstack)),
           ctx = "irq1" => 1 \notin isr, ctx = "int80" => cpl = 3
    PROVE  /\ kstack' \in Seq(Frames) /\ Len(kstack') = Len(kstack) + 1 /\ StackShape'
           /\ \A n \in 1..Len(kstack) : kstack'[n] = kstack[n]
           /\ Is(Len(kstack), ctx, "enter")'
           /\ \A n \in DOMAIN kstack' : Placed(kstack'[n])
           /\ \A n \in DOMAIN kstack' : kstack'[n].ring = 3 <=> n > 1 /\ Is(n - 1, "cmd", "launched")'
<1>1. PICK f : f = Frame(ctx, "enter")
  OBVIOUS
<1>2. f \in Frames /\ f.ctx = ctx /\ f.pc = "enter" /\ f.ring = cpl
  <2>1. cpl \in {0, 3} /\ iflag \in BOOLEAN
    BY DEF StackInv, InterruptsTypeOK
  <2> QED BY <1>1, <2>1 DEF Frame, Frames, Contexts, PCs
<1>3. PICK L \in Nat : L = Len(kstack) /\ L > 0 /\ DOMAIN kstack = 1..L
  BY StackFacts
<1>4. /\ kstack' \in Seq(Frames) /\ Len(kstack') = L + 1 /\ kstack'[L + 1] = f
      /\ \A n \in 1..L : kstack'[n] = kstack[n]
  BY <1>1, <1>2, <1>3, StackFacts, Pushed
<1>5. DOMAIN kstack' = 1..(L + 1) /\ \A n \in 1..(L + 1) : n \in 1..L \/ n = L + 1
  BY <1>3, <1>4, StackIndices
<1>6. \A n \in DOMAIN kstack' : Placed(kstack'[n])
  BY <1>2, <1>3, <1>4, <1>5 DEF StackInv, InterruptsTypeOK, Placed
<1>7. StackShape'
  <2>1. \A n \in DOMAIN kstack' : kstack'[n].ctx = "main" <=> n = 1
    BY <1>2, <1>3, <1>4, <1>5 DEF StackInv, StackShape
  <2>2. \A n \in DOMAIN kstack' : n < Len(kstack') => Interruptible(n)'
    <3>1. \A n \in 1..L : Interruptible(n)
      BY <1>3 DEF StackInv, StackShape
    <3> QED BY <1>3, <1>4, <1>5, <3>1 DEF Interruptible
  <2>3. \A n \in DOMAIN kstack' : kstack'[n].ctx = "cmd" => n > 1 /\ Is(n - 1, "irq1", "eoi")'
    <3>1. \A n \in 1..L : kstack[n].ctx = "cmd" => n > 1 /\ n - 1 \in 1..L /\ Is(n - 1, "irq1", "eoi")
      BY <1>3 DEF StackInv, StackShape
    <3> QED BY <1>2, <1>4, <1>5, <3>1 DEF Is
  <2>4. \A n, m \in DOMAIN kstack' : Unended(n)' /\ n < m => kstack'[m].ctx # "irq1"
    <3>1. \A n, m \in 1..L : Unended(n) /\ n < m => kstack[m].ctx # "irq1"
      BY <1>3 DEF StackInv, StackShape
    <3>2. ctx = "irq1" => \A n \in 1..L : ~Unended(n)
      BY <1>3 DEF StackInv, PicState
    <3> QED BY <1>2, <1>3, <1>4, <1>5, <3>1, <3>2 DEF Unended
  <2>5. \A n \in DOMAIN kstack' : kstack'[n].ctx = "int80" => kstack'[n].ring = 3
    BY <1>2, <1>3, <1>4, <1>5 DEF StackInv, StackShape
  <2> QED BY <2>1, <2>2, <2>3, <2>4, <2>5 DEF StackShape
<1>8. \A n \in DOMAIN kstack' : kstack'[n].ring = 3 <=> n > 1 /\ Is(n - 1, "cmd", "launched")'
  <2>1. \A n \in 1..L : kstack[n].ring = 3 <=> n > 1 /\ Is(n - 1, "cmd", "launched")
    BY <1>3 DEF StackInv, CpuState
  <2>2. cpl = 3 <=> Is(L, "cmd", "launched")
    BY <1>3 DEF StackInv, CpuState
  <2>3. ASSUME NEW n \in 1..L PROVE kstack'[n].ring = 3 <=> n > 1 /\ Is(n - 1, "cmd", "launched")'
    <3>1. n > 1 => n - 1 \in 1..L
      OBVIOUS
    <3> QED BY <1>4, <2>1, <3>1 DEF Is
  <2>4. kstack'[L + 1].ring = 3 <=> L + 1 > 1 /\ Is(L, "cmd", "launched")'
    BY <1>2, <1>3, <1>4, <2>2 DEF Is
  <2> QED BY <1>3, <1>5, <2>3, <2>4
<1> QED BY <1>2, <1>3, <1>4, <1>6, <1>7, <1>8 DEF Is

\* A step of what is on top.
LEMMA MoveKeeps ==
    ASSUME StackInv, NEW p \in PCs, kstack' = Goto(kstack, p), Placed([Top EXCEPT !.pc = p])
    PROVE  /\ kstack' \in Seq(Frames) /\ Len(kstack') = Len(kstack) /\ StackShape'
           /\ \A n \in 1..(Len(kstack) - 1) : kstack'[n] = kstack[n]
           /\ kstack'[Len(kstack)].ctx = Top.ctx /\ kstack'[Len(kstack)].pc = p
           /\ \A n \in DOMAIN kstack' : Placed(kstack'[n])
           /\ \A n \in DOMAIN kstack' : kstack'[n].ring = 3 <=> n > 1 /\ Is(n - 1, "cmd", "launched")'
<1>1. PICK L \in Nat : L = Len(kstack) /\ L > 0 /\ DOMAIN kstack = 1..L
  BY StackFacts
<1>2. /\ kstack' \in Seq(Frames) /\ Len(kstack') = L
      /\ \A n \in 1..(L - 1) : kstack'[n] = kstack[n]
      /\ kstack'[L].ctx = kstack[L].ctx /\ kstack'[L].pc = p /\ kstack'[L].ring = kstack[L].ring
  BY <1>1, StackFacts, Moved
<1>3. DOMAIN kstack' = 1..L /\ \A n \in 1..L : n \in 1..(L - 1) \/ n = L
  BY <1>1, <1>2, StackIndices
<1>4. \A n \in DOMAIN kstack' : Placed(kstack'[n])
  <2>1. Placed(kstack'[L])
    <3>1. PICK g : g = [Top EXCEPT !.pc = p]
      OBVIOUS
    <3>2. g.ctx = kstack[L].ctx /\ g.pc = p
      BY <1>1, <3>1, StackFacts DEF Top, Frames
    <3> QED BY <1>2, <3>1, <3>2 DEF Placed
  <2>2. \A n \in 1..(L - 1) : Placed(kstack[n])
    BY <1>1 DEF StackInv, InterruptsTypeOK
  <2> QED BY <1>2, <1>3, <2>1, <2>2
<1>5. StackShape'
  <2>1. \A n \in DOMAIN kstack' : kstack'[n].ctx = "main" <=> n = 1
    BY <1>1, <1>2, <1>3 DEF StackInv, StackShape
  <2>2. \A n \in DOMAIN kstack' : n < Len(kstack') => Interruptible(n)'
    <3>1. \A n \in 1..(L - 1) : Interruptible(n)
      BY <1>1 DEF StackInv, StackShape
    <3> QED BY <1>1, <1>2, <1>3, <3>1 DEF Interruptible
  <2>3. \A n \in DOMAIN kstack' : kstack'[n].ctx = "cmd" => n > 1 /\ Is(n - 1, "irq1", "eoi")'
    <3>1. \A n \in 1..L : kstack[n].ctx = "cmd" => n > 1 /\ n - 1 \in 1..(L - 1) /\ Is(n - 1, "irq1", "eoi")
      BY <1>1 DEF StackInv, StackShape
    <3> QED BY <1>2, <1>3, <3>1 DEF Is
  <2>4. \A n, m \in DOMAIN kstack' : Unended(n)' /\ n < m => kstack'[m].ctx # "irq1"
    <3>1. \A n, m \in 1..L : Unended(n) /\ n < m => kstack[m].ctx # "irq1"
      BY <1>1 DEF StackInv, StackShape
    <3> QED BY <1>1, <1>2, <1>3, <3>1 DEF Unended
  <2>5. \A n \in DOMAIN kstack' : kstack'[n].ctx = "int80" => kstack'[n].ring = 3
    BY <1>1, <1>2, <1>3 DEF StackInv, StackShape
  <2> QED BY <2>1, <2>2, <2>3, <2>4, <2>5 DEF StackShape
<1>6. \A n \in DOMAIN kstack' : kstack'[n].ring = 3 <=> n > 1 /\ Is(n - 1, "cmd", "launched")'
  <2> SUFFICES ASSUME NEW n \in 1..L
               PROVE  kstack'[n].ring = 3 <=> n > 1 /\ Is(n - 1, "cmd", "launched")'
    BY <1>3
  <2>1. kstack[n].ring = 3 <=> n > 1 /\ Is(n - 1, "cmd", "launched")
    BY <1>1 DEF StackInv, CpuState
  <2>2. kstack'[n].ring = kstack[n].ring
    BY <1>2, <1>3
  <2>3. n > 1 => n - 1 \in 1..(L - 1)
    OBVIOUS
  <2> QED BY <1>2, <2>1, <2>2, <2>3 DEF Is
<1> QED BY <1>1, <1>2, <1>4, <1>5, <1>6 DEF Top

\* A return to what is below.
LEMMA PopKeeps ==
    ASSUME StackInv, kstack' = Pop(kstack), Len(kstack) > 1
    PROVE  /\ kstack' \in Seq(Frames) /\ Len(kstack') = Len(kstack) - 1 /\ StackShape'
           /\ \A n \in 1..(Len(kstack) - 1) : kstack'[n] = kstack[n]
           /\ Interruptible(Len(kstack))'
           /\ \A n \in DOMAIN kstack' : Placed(kstack'[n])
           /\ \A n \in DOMAIN kstack' : kstack'[n].ring = 3 <=> n > 1 /\ Is(n - 1, "cmd", "launched")'
<1>1. PICK L \in Nat : L = Len(kstack) /\ L > 1 /\ DOMAIN kstack = 1..L
  BY StackFacts
<1>2. /\ kstack' \in Seq(Frames) /\ Len(kstack') = L - 1
      /\ \A n \in 1..(L - 1) : kstack'[n] = kstack[n]
  BY <1>1, StackFacts, Popped
<1>3. DOMAIN kstack' = 1..(L - 1) /\ \A n \in 1..(L - 1) : n \in 1..L
  BY <1>1, <1>2, StackIndices
<1>4. \A n \in DOMAIN kstack' : Placed(kstack'[n])
  BY <1>1, <1>2, <1>3 DEF StackInv, InterruptsTypeOK
<1>5. \A n \in 1..(L - 1) : Interruptible(n)'
  <2>1. \A n \in 1..(L - 1) : Interruptible(n)
    BY <1>1, <1>3 DEF StackInv, StackShape
  <2> QED BY <1>2, <2>1 DEF Interruptible
<1>6. StackShape'
  <2>1. \A n \in DOMAIN kstack' : kstack'[n].ctx = "main" <=> n = 1
    BY <1>1, <1>2, <1>3 DEF StackInv, StackShape
  <2>2. \A n \in DOMAIN kstack' : n < Len(kstack') => Interruptible(n)'
    BY <1>3, <1>5
  <2>3. \A n \in DOMAIN kstack' : kstack'[n].ctx = "cmd" => n > 1 /\ Is(n - 1, "irq1", "eoi")'
    <3>1. \A n \in 1..(L - 1) : kstack[n].ctx = "cmd" => n > 1 /\ n - 1 \in 1..(L - 1) /\ Is(n - 1, "irq1", "eoi")
      BY <1>1, <1>3 DEF StackInv, StackShape
    <3> QED BY <1>2, <1>3, <3>1 DEF Is
  <2>4. \A n, m \in DOMAIN kstack' : Unended(n)' /\ n < m => kstack'[m].ctx # "irq1"
    <3>1. \A n, m \in 1..L : Unended(n) /\ n < m => kstack[m].ctx # "irq1"
      BY <1>1 DEF StackInv, StackShape
    <3> QED BY <1>1, <1>2, <1>3, <3>1 DEF Unended
  <2>5. \A n \in DOMAIN kstack' : kstack'[n].ctx = "int80" => kstack'[n].ring = 3
    BY <1>1, <1>2, <1>3 DEF StackInv, StackShape
  <2> QED BY <2>1, <2>2, <2>3, <2>4, <2>5 DEF StackShape
<1>7. \A n \in DOMAIN kstack' : kstack'[n].ring = 3 <=> n > 1 /\ Is(n - 1, "cmd", "launched")'
  <2> SUFFICES ASSUME NEW n \in 1..(L - 1)
               PROVE  kstack'[n].ring = 3 <=> n > 1 /\ Is(n - 1, "cmd", "launched")'
    BY <1>3
  <2>1. kstack[n].ring = 3 <=> n > 1 /\ Is(n - 1, "cmd", "launched")
    BY <1>1, <1>3 DEF StackInv, CpuState
  <2>2. kstack'[n].ring = kstack[n].ring
    BY <1>2
  <2>3. n > 1 => n - 1 \in 1..(L - 1)
    OBVIOUS
  <2> QED BY <1>2, <2>1, <2>2, <2>3 DEF Is
<1>8. Interruptible(Len(kstack))'
  <2>1. Len(kstack') \in 1..(L - 1)
    BY <1>1, <1>2
  <2> QED BY <1>5, <2>1 DEF Interruptible
<1> QED BY <1>1, <1>2, <1>4, <1>6, <1>7, <1>8

\* The launcher's frame is as it was, if no step touches it.
LEMMA LauncherKept ==
    ASSUME StackInv, UNCHANGED <<boot, tss, saved_kernel_esp, launch>>,
           \A n \in DOMAIN kstack' : Is(n, "cmd", "launched")' =>
               n \in DOMAIN kstack /\ \A m \in 1..n : kstack'[m] = kstack[m]
    PROVE  LaunchState'
<1> SUFFICES ASSUME NEW n \in DOMAIN kstack', Is(n, "cmd", "launched")'
             PROVE  /\ boot > 6 /\ tss.esp0 = n /\ saved_kernel_esp = n /\ Len(launch) = n
                    /\ \A m \in 1..n : kstack'[m] = launch[m]
  BY DEF StackInv, LaunchState
<1>1. n \in DOMAIN kstack /\ n \in 1..n /\ \A m \in 1..n : kstack'[m] = kstack[m]
  BY StackFacts
<1>2. Is(n, "cmd", "launched")
  BY <1>1 DEF Is
<1> QED BY <1>1, <1>2 DEF StackInv, LaunchState

\* The same for a step that changes nothing up to K and has the launcher there.
LEMMA LauncherBelow ==
    ASSUME StackInv, UNCHANGED <<boot, tss, saved_kernel_esp, launch>>,
           NEW K \in Nat, K <= Len(kstack),
           \A n \in 1..K : kstack'[n] = kstack[n],
           \A n \in DOMAIN kstack' : Is(n, "cmd", "launched")' => n \in 1..K
    PROVE  LaunchState'
<1>1. \A n \in 1..K : n \in DOMAIN kstack /\ \A m \in 1..n : m \in 1..K
  BY StackFacts
<1> QED BY <1>1, LauncherKept

\* A non-specific EOI.
LEMMA EndsLowest ==
    ASSUME StackInv
    PROVE  /\ 0 \in isr => AfterEoi = isr \ {0}
           /\ 0 \notin isr => AfterEoi = {}
<1>1. \A i \in isr : i = 0 \/ i = 1
  BY DEF StackInv, InterruptsTypeOK
<1>2. ASSUME NEW i \in isr PROVE i \in AfterEoi <=> i = 1 /\ 0 \in isr
  <2>1. CASE i = 0
    <3>1. \A j \in isr : ~(j < 0)
      BY <1>1
    <3> QED BY <2>1, <3>1 DEF AfterEoi
  <2>2. CASE i = 1
    <3>1. \A j \in isr : j < 1 <=> j = 0
      BY <1>1
    <3> QED BY <2>2, <3>1 DEF AfterEoi
  <2> QED BY <1>1, <2>1, <2>2
<1>3. AfterEoi \subseteq isr
  BY DEF AfterEoi
<1> QED BY <1>1, <1>2, <1>3

\* A step that leaves the stack alone.
LEMMA SameStack ==
    ASSUME StackInv, UNCHANGED <<kstack, cpl, isr>>, iflag' => Interruptible(Len(kstack)),
           InterruptsTypeOK', LaunchState'
    PROVE  StackInv'
<1>1. StackShape' /\ PicState'
  BY DEF StackInv, StackShape, PicState, Interruptible, Is, Unended
<1>2. CpuState'
  BY DEF StackInv, CpuState, Interruptible, Is
<1> QED BY <1>1, <1>2 DEF StackInv

\* Ticks, keys, and the machine's stop.
LEMMA OutsideKeeps ==
    ASSUME StackInv, tick \/ (\E k \in KeyKinds : key_typed(k)) \/ stop \/ UNCHANGED vars
    PROVE  StackInv'
<1>1. UNCHANGED <<kstack, cpl, isr, boot, tss, saved_kernel_esp, launch>>
  BY DEF tick, key_typed, stop, vars, cpu
<1>2. irr' \subseteq {0, 1}
  BY DEF tick, key_typed, stop, vars, StackInv, InterruptsTypeOK
<1>3. keys' \in Seq(KeyKinds)
  <2>1. keys \in Seq(KeyKinds)
    BY DEF StackInv, InterruptsTypeOK
  <2>2. ASSUME NEW k \in KeyKinds, key_typed(k) PROVE keys' \in Seq(KeyKinds)
    BY <2>1, <2>2 DEF key_typed
  <2>3. tick \/ stop \/ UNCHANGED vars => keys' = keys
    BY DEF tick, stop, vars
  <2> QED BY <2>1, <2>2, <2>3
<1>4. iflag' \in BOOLEAN /\ halted' \in BOOLEAN
  BY Zenon DEF tick, key_typed, stop, vars, cpu, StackInv, InterruptsTypeOK
<1>5. InterruptsTypeOK'
  BY <1>1, <1>2, <1>3, <1>4 DEF StackInv, InterruptsTypeOK
<1>6. LaunchState'
  BY <1>1, LauncherKept
<1>7. iflag' => Interruptible(Len(kstack))
  <2>1. iflag' => iflag
    BY Zenon DEF tick, key_typed, stop, vars
  <2> QED BY <2>1 DEF StackInv, CpuState
<1> QED BY <1>1, <1>5, <1>6, <1>7, SameStack

\* kernel_main goes on: nothing is on the stack but its own frame.
LEMMA BootKeeps ==
    ASSUME StackInv, boot_step
    PROVE  StackInv'
<1>1. /\ Top.ctx = "main" /\ boot < Len(BootSeq) /\ boot' = boot + 1
      /\ iflag' = (iflag \/ BootSeq[boot] = "enable_interrupts")
      /\ tss' = IF BootSeq[boot] = "gdt_init_tss" THEN [loaded |-> TRUE, esp0 |-> 0] ELSE tss
      /\ UNCHANGED <<kstack, cpl, irr, isr, keys, saved_kernel_esp, halted, launch>>
  BY DEF boot_step, At
<1>2. Len(BootSeq) = 10 /\ BootSeq[6] = "gdt_init_tss"
  BY DEF BootSeq
<1>3. boot \in 1..10 /\ boot' \in 1..10
  BY <1>1, <1>2 DEF StackInv, InterruptsTypeOK
<1>4. Len(kstack) = 1 /\ DOMAIN kstack = {1}
  <2>1. Len(kstack) \in DOMAIN kstack
    BY StackFacts
  <2>2. Len(kstack) = 1
    BY <1>1, <2>1 DEF StackInv, StackShape, Top
  <2> QED BY <2>2, StackFacts
<1>5. iflag' \in BOOLEAN
  BY <1>1
<1>6. tss' \in [loaded : BOOLEAN, esp0 : Nat]
  BY <1>1 DEF StackInv, InterruptsTypeOK
<1>7. InterruptsTypeOK'
  BY <1>1, <1>2, <1>3, <1>5, <1>6 DEF StackInv, InterruptsTypeOK
<1>8. LaunchState'
  <2>1. boot' > 6 => tss'.loaded
    <3>1. CASE boot = 6
      BY <1>1, <1>2, <3>1
    <3>2. CASE boot # 6
      <4>1. boot' > 6 => boot > 6
        BY <1>1, <1>3, <3>2
      <4>2. boot' > 6 => tss.loaded
        BY <4>1 DEF StackInv, LaunchState
      <4> QED BY <1>1, <4>2
    <3> QED BY <3>1, <3>2
  <2>2. kstack'[1].ctx = "main"
    BY <1>1, <1>4 DEF Top
  <2> QED BY <1>1, <1>4, <2>1, <2>2 DEF LaunchState, Is
<1>9. Interruptible(Len(kstack))
  BY <1>1 DEF Interruptible, Top
<1> QED BY <1>1, <1>7, <1>8, <1>9, SameStack

\* An interrupt is taken, or the program calls int 0x80.
LEMMA InterruptKeeps ==
    ASSUME StackInv, irq0 \/ irq1 \/ int80
    PROVE  StackInv'
<1>1. PICK c \in {"irq0", "irq1", "int80"} :
      /\ kstack' = Append(kstack, Frame(c, "enter"))
      /\ cpl' = 0 /\ iflag' = FALSE /\ UNCHANGED <<keys, cpu>>
      /\ c = "irq0" => iflag /\ irr' = irr \ {0} /\ isr' = isr \cup {0}
      /\ c = "irq1" => iflag /\ irr' = irr \ {1} /\ isr' = isr \cup {1} /\ 0 \notin isr /\ 1 \notin isr
      /\ c = "int80" => cpl = 3 /\ UNCHANGED <<irr, isr>>
  <2>1. CASE irq0
    BY <2>1, EntersAbove DEF irq0, Deliver
  <2>2. CASE irq1
    BY <2>2, EntersAbove DEF irq1, Deliver, Offered
  <2>3. CASE int80
    BY <2>3, EntersAbove DEF int80
  <2> QED BY <2>1, <2>2, <2>3
<1>2. Interruptible(Len(kstack))
  <2>1. iflag \/ cpl = 3
    BY <1>1
  <2> QED BY <2>1 DEF StackInv, CpuState, Interruptible, Is
<1>3. /\ kstack' \in Seq(Frames) /\ Len(kstack') = Len(kstack) + 1 /\ StackShape'
      /\ \A n \in 1..Len(kstack) : kstack'[n] = kstack[n]
      /\ Is(Len(kstack), c, "enter")'
      /\ \A n \in DOMAIN kstack' : Placed(kstack'[n])
      /\ \A n \in DOMAIN kstack' : kstack'[n].ring = 3 <=> n > 1 /\ Is(n - 1, "cmd", "launched")'
  BY <1>1, <1>2, EntryKeeps
<1>4. PICK L \in Nat : L = Len(kstack) /\ L > 0 /\ DOMAIN kstack = 1..L /\ DOMAIN kstack' = 1..(L + 1)
  BY <1>3, StackFacts, StackIndices
<1>5. UNCHANGED <<boot, tss, saved_kernel_esp, halted, launch>>
  BY <1>1 DEF cpu
<1>6. irr' \subseteq {0, 1} /\ isr' \subseteq {0, 1}
  BY <1>1 DEF StackInv, InterruptsTypeOK
<1>7. InterruptsTypeOK'
  <2>1. iflag' \in BOOLEAN /\ cpl' \in {0, 3}
    BY <1>1
  <2>2. Len(kstack') > 0
    BY <1>3, <1>4
  <2> QED BY <1>1, <1>3, <1>5, <1>6, <2>1, <2>2 DEF StackInv, InterruptsTypeOK
<1>8. CpuState'
  BY <1>1, <1>3 DEF CpuState, Is
<1>9. PicState'
  <2>1. ~Is(L, "irq0", "enter") /\ 0 \notin isr
    BY <1>2, <1>4 DEF StackInv, PicState, Interruptible, Is
  <2>2. 0 \in isr' <=> c = "irq0"
    BY <1>1, <2>1
  <2>3. 1 \in isr' <=> 1 \in isr \/ c = "irq1"
    BY <1>1
  <2>4. Unended(L + 1)' <=> c = "irq1"
    BY <1>3, <1>4 DEF Unended, Is
  <2>5. \A n \in 1..L : Unended(n)' <=> Unended(n)
    BY <1>3, <1>4 DEF Unended
  <2>6. \A n \in 1..(L + 1) : n \in 1..L \/ n = L + 1
    OBVIOUS
  <2>7. (\E n \in DOMAIN kstack' : Unended(n)') <=> c = "irq1" \/ \E n \in DOMAIN kstack : Unended(n)
    BY <1>4, <2>4, <2>5, <2>6
  <2>8. 0 \in isr' <=> Is(Len(kstack), "irq0", "enter")'
    BY <1>3, <2>2 DEF Is
  <2>9. 1 \in isr <=> \E n \in DOMAIN kstack : Unended(n)
    BY DEF StackInv, PicState
  <2> QED BY <2>3, <2>7, <2>8, <2>9 DEF PicState
<1>10. LaunchState'
  <2>1. \A n \in DOMAIN kstack' : Is(n, "cmd", "launched")' => n \in 1..L
    BY <1>3, <1>4 DEF Is
  <2>2. \A n \in 1..L : \A m \in 1..n : kstack'[m] = kstack[m]
    BY <1>3, <1>4
  <2> QED BY <1>4, <1>5, <2>1, <2>2, LauncherKept
<1> QED BY <1>3, <1>7, <1>8, <1>9, <1>10 DEF StackInv

\* timer_handler ends its own line, the lowest one.
LEMMA TimerKeeps ==
    ASSUME StackInv, timer_handler
    PROVE  StackInv'
<1>1. /\ cpl = 0 /\ Top.ctx = "irq0" /\ Top.pc = "enter" /\ kstack' = Goto(kstack, "iret")
      /\ isr' = AfterEoi /\ UNCHANGED <<cpl, iflag, irr, keys, boot, tss, saved_kernel_esp, halted, launch>>
  BY DEF timer_handler, At, cpu
<1>2. Placed([Top EXCEPT !.pc = "iret"]) /\ "iret" \in PCs
  BY <1>1, StackFacts DEF Placed, Frames, PCs
<1>3. /\ kstack' \in Seq(Frames) /\ Len(kstack') = Len(kstack) /\ StackShape'
      /\ \A n \in 1..(Len(kstack) - 1) : kstack'[n] = kstack[n]
      /\ kstack'[Len(kstack)].ctx = "irq0" /\ kstack'[Len(kstack)].pc = "iret"
      /\ \A n \in DOMAIN kstack' : Placed(kstack'[n])
      /\ \A n \in DOMAIN kstack' : kstack'[n].ring = 3 <=> n > 1 /\ Is(n - 1, "cmd", "launched")'
  BY <1>1, <1>2, MoveKeeps
<1>4. PICK L \in Nat : L = Len(kstack) /\ L > 0 /\ DOMAIN kstack = 1..L /\ DOMAIN kstack' = 1..L
                       /\ \A n \in 1..L : n \in 1..(L - 1) \/ n = L
  BY <1>3, StackFacts, StackIndices
<1>5. 0 \in isr /\ isr \subseteq {0, 1} /\ isr' = isr \ {0}
  BY <1>1, EndsLowest DEF StackInv, PicState, InterruptsTypeOK, Top, Is
<1>6. InterruptsTypeOK'
  BY <1>1, <1>3, <1>4, <1>5 DEF StackInv, InterruptsTypeOK
<1>7. ~iflag
  BY <1>1, InterruptsOff DEF Interruptible, Top
<1>8. CpuState'
  BY <1>1, <1>3, <1>7 DEF CpuState, Is
<1>9. PicState'
  <2>1. \A n \in 1..L : Unended(n)' <=> Unended(n)
    BY <1>1, <1>3, <1>4 DEF Unended, Top
  <2>2. ~Is(Len(kstack), "irq0", "enter")' /\ (1 \in isr' <=> 1 \in isr) /\ 0 \notin isr'
    BY <1>3, <1>5 DEF Is
  <2> QED BY <1>4, <2>1, <2>2 DEF StackInv, PicState
<1>10. LaunchState'
  <2>1. \A n \in DOMAIN kstack' : Is(n, "cmd", "launched")' => n \in 1..(L - 1)
    BY <1>3, <1>4 DEF Is
  <2>2. L - 1 \in Nat /\ L - 1 <= Len(kstack)
    BY <1>4
  <2>3. \A n \in 1..(L - 1) : kstack'[n] = kstack[n]
    <3>1. \A n \in 1..(Len(kstack) - 1) : kstack'[n] = kstack[n]
      BY <1>3
    <3> QED BY <1>4, <3>1
  <2> QED BY <1>1, <2>1, <2>2, <2>3, LauncherBelow
<1> QED BY <1>3, <1>6, <1>8, <1>9, <1>10 DEF StackInv

\* A system call other than SYS_EXIT.
LEMMA ResumeKeeps ==
    ASSUME StackInv, syscall_resume
    PROVE  StackInv'
<1>1. /\ cpl = 0 /\ Top.ctx = "int80" /\ kstack' = Goto(kstack, "iret")
      /\ UNCHANGED <<cpl, iflag, irr, isr, keys, boot, tss, saved_kernel_esp, halted, launch>>
  BY DEF syscall_resume, At, cpu
<1>2. Placed([Top EXCEPT !.pc = "iret"]) /\ "iret" \in PCs
  BY <1>1, StackFacts DEF Placed, Frames, PCs
<1>3. /\ kstack' \in Seq(Frames) /\ Len(kstack') = Len(kstack) /\ StackShape'
      /\ \A n \in 1..(Len(kstack) - 1) : kstack'[n] = kstack[n]
      /\ kstack'[Len(kstack)].ctx = "int80" /\ kstack'[Len(kstack)].pc = "iret"
      /\ \A n \in DOMAIN kstack' : Placed(kstack'[n])
      /\ \A n \in DOMAIN kstack' : kstack'[n].ring = 3 <=> n > 1 /\ Is(n - 1, "cmd", "launched")'
  BY <1>1, <1>2, MoveKeeps
<1>4. PICK L \in Nat : L = Len(kstack) /\ L > 0 /\ DOMAIN kstack = 1..L /\ DOMAIN kstack' = 1..L
                       /\ \A n \in 1..L : n \in 1..(L - 1) \/ n = L
  BY <1>3, StackFacts, StackIndices
<1>5. InterruptsTypeOK'
  BY <1>1, <1>3, <1>4 DEF StackInv, InterruptsTypeOK
<1>6. ~iflag
  BY <1>1, InterruptsOff DEF Interruptible, Top
<1>7. CpuState'
  BY <1>1, <1>3, <1>6 DEF CpuState, Is
<1>8. PicState'
  <2>1. \A n \in 1..L : Unended(n)' <=> Unended(n)
    BY <1>1, <1>3, <1>4 DEF Unended, Top
  <2>2. ~Is(Len(kstack), "irq0", "enter") /\ ~Is(Len(kstack), "irq0", "enter")'
    BY <1>1, <1>3 DEF Is, Top
  <2> QED BY <1>1, <1>4, <2>1, <2>2 DEF StackInv, PicState
<1>9. LaunchState'
  <2>1. \A n \in DOMAIN kstack' : Is(n, "cmd", "launched")' => n \in 1..(L - 1)
    BY <1>3, <1>4 DEF Is
  <2>2. L - 1 \in Nat /\ L - 1 <= Len(kstack)
    BY <1>4
  <2>3. \A n \in 1..(L - 1) : kstack'[n] = kstack[n]
    <3>1. \A n \in 1..(Len(kstack) - 1) : kstack'[n] = kstack[n]
      BY <1>3
    <3> QED BY <1>4, <3>1
  <2> QED BY <1>1, <2>1, <2>2, <2>3, LauncherBelow
<1> QED BY <1>3, <1>5, <1>7, <1>8, <1>9 DEF StackInv

\* fat16_init or a command waits for the drive for ever.
LEMMA HangKeeps ==
    ASSUME StackInv, ata_hangs
    PROVE  StackInv'
<1>1. /\ cpl = 0 /\ kstack' = Goto(kstack, "polling")
      /\ Top.ctx = "main" \/ (Top.ctx = "cmd" /\ Top.pc \in {"builtin", "run", "fat-write"})
      /\ UNCHANGED <<cpl, iflag, irr, isr, keys, boot, tss, saved_kernel_esp, halted, launch>>
  BY DEF ata_hangs, At, cpu
<1>2. Placed([Top EXCEPT !.pc = "polling"]) /\ "polling" \in PCs
  BY <1>1, StackFacts DEF Placed, Frames, PCs
<1>3. /\ kstack' \in Seq(Frames) /\ Len(kstack') = Len(kstack) /\ StackShape'
      /\ \A n \in 1..(Len(kstack) - 1) : kstack'[n] = kstack[n]
      /\ kstack'[Len(kstack)].ctx = Top.ctx /\ kstack'[Len(kstack)].pc = "polling"
      /\ \A n \in DOMAIN kstack' : Placed(kstack'[n])
      /\ \A n \in DOMAIN kstack' : kstack'[n].ring = 3 <=> n > 1 /\ Is(n - 1, "cmd", "launched")'
  BY <1>1, <1>2, MoveKeeps
<1>4. PICK L \in Nat : L = Len(kstack) /\ L > 0 /\ DOMAIN kstack = 1..L /\ DOMAIN kstack' = 1..L
                       /\ \A n \in 1..L : n \in 1..(L - 1) \/ n = L
  BY <1>3, StackFacts, StackIndices
<1>5. InterruptsTypeOK'
  BY <1>1, <1>3, <1>4 DEF StackInv, InterruptsTypeOK
<1>6. iflag => Top.ctx = "main"
  BY <1>1, InterruptsOff DEF Interruptible, Top
<1>7. CpuState'
  BY <1>1, <1>3, <1>6 DEF CpuState, Interruptible, Is
<1>8. PicState'
  <2>1. \A n \in 1..L : Unended(n)' <=> Unended(n)
    BY <1>1, <1>3, <1>4 DEF Unended, Top
  <2>2. ~Is(Len(kstack), "irq0", "enter") /\ ~Is(Len(kstack), "irq0", "enter")'
    BY <1>1, <1>3 DEF Is, Top
  <2> QED BY <1>1, <1>4, <2>1, <2>2 DEF StackInv, PicState
<1>9. LaunchState'
  <2>1. \A n \in DOMAIN kstack' : Is(n, "cmd", "launched")' => n \in 1..(L - 1)
    BY <1>3, <1>4 DEF Is
  <2>2. L - 1 \in Nat /\ L - 1 <= Len(kstack)
    BY <1>4
  <2>3. \A n \in 1..(L - 1) : kstack'[n] = kstack[n]
    <3>1. \A n \in 1..(Len(kstack) - 1) : kstack'[n] = kstack[n]
      BY <1>3
    <3> QED BY <1>4, <3>1
  <2> QED BY <1>1, <2>1, <2>2, <2>3, LauncherBelow
<1> QED BY <1>3, <1>5, <1>7, <1>8, <1>9 DEF StackInv

\* keyboard_handler's EOI ends its own line, the only one in service.
LEMMA EoiKeeps ==
    ASSUME StackInv, keyboard_eoi
    PROVE  StackInv'
<1>1. /\ cpl = 0 /\ Top.ctx = "irq1" /\ Top.pc = "eoi" /\ kstack' = Goto(kstack, "iret")
      /\ isr' = AfterEoi /\ UNCHANGED <<cpl, iflag, irr, keys, boot, tss, saved_kernel_esp, halted, launch>>
  BY DEF keyboard_eoi, At, cpu
<1>2. Placed([Top EXCEPT !.pc = "iret"]) /\ "iret" \in PCs
  BY <1>1, StackFacts DEF Placed, Frames, PCs
<1>3. /\ kstack' \in Seq(Frames) /\ Len(kstack') = Len(kstack) /\ StackShape'
      /\ \A n \in 1..(Len(kstack) - 1) : kstack'[n] = kstack[n]
      /\ kstack'[Len(kstack)].ctx = "irq1" /\ kstack'[Len(kstack)].pc = "iret"
      /\ \A n \in DOMAIN kstack' : Placed(kstack'[n])
      /\ \A n \in DOMAIN kstack' : kstack'[n].ring = 3 <=> n > 1 /\ Is(n - 1, "cmd", "launched")'
  BY <1>1, <1>2, MoveKeeps
<1>4. PICK L \in Nat : L = Len(kstack) /\ L > 0 /\ DOMAIN kstack = 1..L /\ DOMAIN kstack' = 1..L
                       /\ \A n \in 1..L : n \in 1..(L - 1) \/ n = L
  BY <1>3, StackFacts, StackIndices
<1>5. isr' = {}
  <2>1. 0 \notin isr /\ isr \subseteq {0, 1}
    BY <1>1 DEF StackInv, PicState, InterruptsTypeOK, Top, Is
  <2> QED BY <1>1, <2>1, EndsLowest
<1>6. InterruptsTypeOK'
  BY <1>1, <1>3, <1>4, <1>5 DEF StackInv, InterruptsTypeOK
<1>7. CpuState'
  BY <1>1, <1>3 DEF CpuState, Is, Interruptible
<1>8. PicState'
  <2>1. \A n \in 1..(L - 1) : ~Unended(n)
    <3>1. \A n \in 1..(L - 1) : n \in DOMAIN kstack /\ L \in DOMAIN kstack /\ n < L
      BY <1>4
    <3> QED BY <1>1, <1>4, <3>1 DEF StackInv, StackShape, Top
  <2>2. \A n \in 1..L : ~Unended(n)'
    BY <1>3, <1>4, <2>1 DEF Unended
  <2> QED BY <1>3, <1>4, <1>5, <2>2 DEF PicState, Is
<1>9. LaunchState'
  <2>1. \A n \in DOMAIN kstack' : Is(n, "cmd", "launched")' => n \in 1..(L - 1)
    BY <1>3, <1>4 DEF Is
  <2>2. L - 1 \in Nat /\ L - 1 <= Len(kstack)
    BY <1>4
  <2>3. \A n \in 1..(L - 1) : kstack'[n] = kstack[n]
    <3>1. \A n \in 1..(Len(kstack) - 1) : kstack'[n] = kstack[n]
      BY <1>3
    <3> QED BY <1>4, <3>1
  <2> QED BY <1>1, <2>1, <2>2, <2>3, LauncherBelow
<1> QED BY <1>3, <1>6, <1>7, <1>8, <1>9 DEF StackInv

\* iret goes back to what was interrupted; a command returns to its keyboard handler.
LEMMA ReturnKeeps ==
    ASSUME StackInv, iret \/ cmd_return
    PROVE  StackInv'
<1>1. /\ cpl = 0 /\ kstack' = Pop(kstack)
      /\ \/ Top.ctx \in {"irq0", "irq1", "int80"} /\ Top.pc = "iret"
         \/ Top.ctx = "cmd" /\ cpl' = 0
      /\ iret => cpl' = Top.ring /\ iflag' = Top.iflag
      /\ ~iret => Top.ctx = "cmd" /\ UNCHANGED <<cpl, iflag>>
      /\ UNCHANGED <<irr, isr, keys, boot, tss, saved_kernel_esp, halted, launch>>
  BY DEF iret, cmd_return, At, cpu
<1>2. Len(kstack) > 1
  BY <1>1, StackFacts DEF StackInv, StackShape, Top
<1>3. /\ kstack' \in Seq(Frames) /\ Len(kstack') = Len(kstack) - 1 /\ StackShape'
      /\ \A n \in 1..(Len(kstack) - 1) : kstack'[n] = kstack[n]
      /\ Interruptible(Len(kstack))'
      /\ \A n \in DOMAIN kstack' : Placed(kstack'[n])
      /\ \A n \in DOMAIN kstack' : kstack'[n].ring = 3 <=> n > 1 /\ Is(n - 1, "cmd", "launched")'
  BY <1>1, <1>2, PopKeeps
<1>4. PICK L \in Nat : L = Len(kstack) /\ L > 1 /\ DOMAIN kstack = 1..L /\ DOMAIN kstack' = 1..(L - 1)
                       /\ L \in 1..L /\ L - 1 \in 1..(L - 1) /\ \A n \in 1..L : n \in 1..(L - 1) \/ n = L
  BY <1>2, <1>3, StackFacts, StackIndices
<1>5. Top.ring \in {0, 3} /\ Top.iflag \in BOOLEAN
  BY StackFacts DEF Frames
<1>6. cpl' \in {0, 3} /\ iflag' \in BOOLEAN
  BY <1>1, <1>5 DEF StackInv, InterruptsTypeOK
<1>7. InterruptsTypeOK'
  BY <1>1, <1>3, <1>4, <1>6 DEF StackInv, InterruptsTypeOK
<1>8. cpl' = 3 <=> Is(Len(kstack), "cmd", "launched")'
  <2>1. Top.ring = 3 <=> Is(L - 1, "cmd", "launched")
    BY <1>4 DEF StackInv, CpuState, Top
  <2>2. Is(Len(kstack), "cmd", "launched")' <=> Is(L - 1, "cmd", "launched")
    BY <1>3, <1>4 DEF Is
  <2>3. CASE iret
    BY <1>1, <2>1, <2>2, <2>3
  <2>4. CASE ~iret
    <3>1. Is(L - 1, "irq1", "eoi")
      BY <1>1, <1>4, <2>4 DEF StackInv, StackShape, Top
    <3> QED BY <1>1, <2>2, <2>4, <3>1 DEF Is
  <2> QED BY <2>3, <2>4
<1>9. CpuState'
  BY <1>3, <1>8 DEF CpuState
<1>10. PicState'
  <2>1. ~Unended(L) /\ ~Is(L, "irq0", "enter")
    BY <1>1, <1>4 DEF Unended, Is, Top
  <2>2. \A n \in 1..(L - 1) : Unended(n)' <=> Unended(n)
    BY <1>3, <1>4 DEF Unended
  <2>3. (\E n \in DOMAIN kstack' : Unended(n)') <=> \E n \in DOMAIN kstack : Unended(n)
    BY <1>4, <2>1, <2>2
  <2>4. ~Is(Len(kstack), "irq0", "enter")'
    BY <1>3 DEF Interruptible, Is
  <2> QED BY <1>1, <1>4, <2>1, <2>3, <2>4 DEF StackInv, PicState
<1>11. LaunchState'
  <2>1. \A n \in 1..(L - 1) : n \in 1..L /\ \A m \in 1..n : kstack'[m] = kstack[m]
    BY <1>3, <1>4
  <2> QED BY <1>1, <1>4, <2>1, LauncherKept
<1> QED BY <1>3, <1>7, <1>9, <1>10, <1>11 DEF StackInv

\* keyboard_handler reads its key, with interrupts off; Enter calls a command.
LEMMA KeyKeeps ==
    ASSUME StackInv, keyboard_handler
    PROVE  StackInv'
<1>1. /\ cpl = 0 /\ Top.ctx = "irq1" /\ Top.pc = "enter" /\ keys # <<>> /\ keys' = Tail(keys)
      /\ irr' = IF Tail(keys) # <<>> THEN irr \cup {1} ELSE irr
      /\ kstack' = IF Head(keys) = "edit" THEN Goto(kstack, "eoi")
                   ELSE Append(Goto(kstack, "eoi"), Frame("cmd", Head(keys)))
      /\ UNCHANGED <<cpl, iflag, isr, boot, tss, saved_kernel_esp, halted, launch>>
  BY DEF keyboard_handler, At, cpu
<1>2. Placed([Top EXCEPT !.pc = "eoi"]) /\ "eoi" \in PCs
  BY <1>1, StackFacts DEF Placed, Frames, PCs
<1>3. ~iflag
  BY <1>1, InterruptsOff DEF Interruptible, Top
<1>4. /\ keys' \in Seq(KeyKinds) /\ irr' \subseteq {0, 1}
      /\ Head(keys) \in {"edit", "builtin", "run", "fat-write", "reboot"}
  <2>1. keys \in Seq(KeyKinds) /\ irr \subseteq {0, 1}
    BY DEF StackInv, InterruptsTypeOK
  <2>2. Tail(keys) \in Seq(KeyKinds) /\ Head(keys) \in KeyKinds
    BY <1>1, <2>1
  <2> QED BY <1>1, <2>1, <2>2, InterruptsAssumption
<1>5. PICK L \in Nat : L = Len(kstack) /\ L > 0 /\ DOMAIN kstack = 1..L
                       /\ \A n \in 1..L : n \in 1..(L - 1) \/ n = L
  <2>1. PICK L \in Nat : L = Len(kstack) /\ L > 0 /\ DOMAIN kstack = 1..L
    BY StackFacts
  <2>2. \A n \in 1..L : n \in 1..(L - 1) \/ n = L
    OBVIOUS
  <2> QED BY <2>1, <2>2
<1>6. PICK k : k = Goto(kstack, "eoi")
  OBVIOUS
<1>7. /\ k \in Seq(Frames) /\ Len(k) = L
      /\ \A n \in 1..(L - 1) : k[n] = kstack[n]
      /\ k[L].ctx = "irq1" /\ k[L].pc = "eoi" /\ k[L].ring = kstack[L].ring
  BY <1>1, <1>2, <1>5, <1>6, StackFacts, Moved DEF Top
<1>8. CASE Head(keys) = "edit"
  <2>1. kstack' = Goto(kstack, "eoi") /\ kstack' = k
    BY <1>1, <1>6, <1>8
  <2>2. /\ kstack' \in Seq(Frames) /\ Len(kstack') = Len(kstack) /\ StackShape'
        /\ \A n \in DOMAIN kstack' : Placed(kstack'[n])
        /\ \A n \in DOMAIN kstack' : kstack'[n].ring = 3 <=> n > 1 /\ Is(n - 1, "cmd", "launched")'
    BY <1>2, <2>1, MoveKeeps
  <2>3. DOMAIN kstack' = 1..L
    BY <1>5, <2>2, StackIndices
  <2>4. InterruptsTypeOK'
    BY <1>1, <1>4, <1>5, <2>2 DEF StackInv, InterruptsTypeOK
  <2>5. CpuState'
    BY <1>1, <1>3, <1>5, <1>7, <2>1, <2>2 DEF CpuState, Is
  <2>6. PicState'
    <3>1. \A n \in 1..L : Unended(n)' <=> Unended(n)
      BY <1>1, <1>5, <1>7, <2>1 DEF Unended, Top
    <3>2. ~Is(Len(kstack), "irq0", "enter") /\ ~Is(Len(kstack), "irq0", "enter")'
      BY <1>1, <1>5, <1>7, <2>1 DEF Is, Top
    <3> QED BY <1>1, <1>5, <2>3, <3>1, <3>2 DEF StackInv, PicState
  <2>7. LaunchState'
    <3>1. \A n \in DOMAIN kstack' : Is(n, "cmd", "launched")' => n \in 1..(L - 1)
      BY <1>5, <1>7, <2>1, <2>3 DEF Is
    <3>2. L - 1 \in Nat /\ L - 1 <= Len(kstack) /\ \A n \in 1..(L - 1) : kstack'[n] = kstack[n]
      BY <1>5, <1>7, <2>1
    <3> QED BY <1>1, <3>1, <3>2, LauncherBelow
  <2> QED BY <2>2, <2>4, <2>5, <2>6, <2>7 DEF StackInv
<1>9. CASE Head(keys) # "edit"
  <2>1. PICK f : f = Frame("cmd", Head(keys))
    OBVIOUS
  <2>2. f \in Frames /\ f.ctx = "cmd" /\ f.pc \in {"builtin", "run", "fat-write", "reboot"} /\ f.ring = 0
    <3>1. iflag \in BOOLEAN
      BY DEF StackInv, InterruptsTypeOK
    <3> QED BY <1>1, <1>4, <1>9, <2>1, <3>1 DEF Frame, Frames, Contexts, PCs
  <2>3. /\ kstack' \in Seq(Frames) /\ Len(kstack') = L + 1 /\ kstack'[L + 1] = f
        /\ \A n \in 1..L : kstack'[n] = k[n]
    BY <1>1, <1>6, <1>7, <1>9, <2>1, <2>2, Pushed
  <2>4. /\ \A n \in 1..(L - 1) : kstack'[n] = kstack[n]
        /\ kstack'[L].ctx = "irq1" /\ kstack'[L].pc = "eoi" /\ kstack'[L].ring = kstack[L].ring
    BY <1>5, <1>7, <2>3
  <2>5. DOMAIN kstack' = 1..(L + 1) /\ \A n \in 1..(L + 1) : n \in 1..(L - 1) \/ n = L \/ n = L + 1
    BY <1>5, <2>3, StackIndices
  <2>6. \A n \in DOMAIN kstack' : Placed(kstack'[n])
    <3>1. \A n \in 1..(L - 1) : Placed(kstack[n])
      <4>1. \A n \in 1..(L - 1) : n \in 1..L
        OBVIOUS
      <4>2. \A n \in 1..L : Placed(kstack[n])
        BY <1>5 DEF StackInv, InterruptsTypeOK
      <4> QED BY <4>1, <4>2
    <3>2. Placed(kstack'[L]) /\ Placed(kstack'[L + 1])
      BY <2>2, <2>3, <2>4 DEF Placed
    <3> QED BY <2>4, <2>5, <3>1, <3>2
  <2>7. InterruptsTypeOK'
    <3>1. /\ boot' \in 1..Len(BootSeq) /\ cpl' \in {0, 3} /\ iflag' \in BOOLEAN /\ halted' \in BOOLEAN
          /\ isr' \subseteq {0, 1} /\ tss' \in [loaded : BOOLEAN, esp0 : Nat]
          /\ saved_kernel_esp' \in Nat /\ launch' \in Seq(Frames)
      BY <1>1 DEF StackInv, InterruptsTypeOK
    <3>2. Len(kstack') > 0
      BY <2>3
    <3> QED BY <1>4, <2>3, <2>6, <3>1, <3>2 DEF InterruptsTypeOK
  <2>8. StackShape'
    <3>1. \A n \in DOMAIN kstack' : kstack'[n].ctx = "main" <=> n = 1
      <4>1. \A n \in 1..L : kstack[n].ctx = "main" <=> n = 1
        BY <1>5 DEF StackInv, StackShape
      <4>2. L \in 1..L /\ kstack[L].ctx = "irq1"
        BY <1>1, <1>5 DEF Top
      <4>3. L # 1 /\ L + 1 # 1 /\ \A n \in 1..(L - 1) : n \in 1..L
        BY <1>5, <4>1, <4>2
      <4>4. kstack'[L].ctx # "main" /\ kstack'[L + 1].ctx # "main"
        BY <2>2, <2>3, <2>4
      <4> QED BY <2>4, <2>5, <4>1, <4>3, <4>4
    <3>2. \A n \in DOMAIN kstack' : n < Len(kstack') => Interruptible(n)'
      <4>1. \A n \in 1..(L - 1) : Interruptible(n)
        BY <1>5 DEF StackInv, StackShape
      <4> QED BY <1>5, <2>3, <2>4, <2>5, <4>1 DEF Interruptible
    <3>3. \A n \in DOMAIN kstack' : kstack'[n].ctx = "cmd" => n > 1 /\ Is(n - 1, "irq1", "eoi")'
      <4>1. \A n \in 1..(L - 1) : kstack[n].ctx = "cmd" => n > 1 /\ n - 1 \in 1..(L - 1) /\ Is(n - 1, "irq1", "eoi")
        BY <1>5 DEF StackInv, StackShape
      <4>2. L + 1 > 1 /\ Is(L, "irq1", "eoi")' /\ (L + 1) - 1 = L
        BY <1>5, <2>4 DEF Is
      <4> QED BY <2>4, <2>5, <4>1, <4>2 DEF Is
    <3>4. \A n, m \in DOMAIN kstack' : Unended(n)' /\ n < m => kstack'[m].ctx # "irq1"
      <4>1. \A n \in 1..(L - 1) : ~Unended(n)
        <5>1. \A n \in 1..(L - 1) : n \in DOMAIN kstack /\ L \in DOMAIN kstack /\ n < L
          BY <1>5
        <5> QED BY <1>1, <1>5, <5>1 DEF StackInv, StackShape, Top
      <4> QED BY <1>5, <2>2, <2>3, <2>4, <2>5, <4>1 DEF Unended
    <3>5. \A n \in DOMAIN kstack' : kstack'[n].ctx = "int80" => kstack'[n].ring = 3
      BY <1>5, <2>2, <2>3, <2>4, <2>5 DEF StackInv, StackShape
    <3> QED BY <3>1, <3>2, <3>3, <3>4, <3>5 DEF StackShape
  <2>9. CpuState'
    <3>1. ASSUME NEW n \in 1..L PROVE kstack'[n].ring = 3 <=> n > 1 /\ Is(n - 1, "cmd", "launched")'
      <4>1. kstack[n].ring = 3 <=> n > 1 /\ Is(n - 1, "cmd", "launched")
        BY <1>5 DEF StackInv, CpuState
      <4>2. kstack'[n].ring = kstack[n].ring
        BY <1>5, <2>4
      <4>3. n > 1 => n - 1 \in 1..(L - 1)
        OBVIOUS
      <4> QED BY <2>4, <4>1, <4>2, <4>3 DEF Is
    <3>2. kstack'[L + 1].ring # 3 /\ ~Is(L, "cmd", "launched")'
      BY <2>2, <2>3, <2>4 DEF Is
    <3>3. \A n \in DOMAIN kstack' : kstack'[n].ring = 3 <=> n > 1 /\ Is(n - 1, "cmd", "launched")'
      <4>1. (L + 1) - 1 = L /\ \A n \in 1..(L + 1) : n \in 1..L \/ n = L + 1
        OBVIOUS
      <4> QED BY <2>5, <3>1, <3>2, <4>1 DEF Is
    <3>4. cpl' # 3 /\ ~Is(Len(kstack), "cmd", "launched")' /\ ~iflag'
      BY <1>1, <1>3, <2>2, <2>3 DEF Is
    <3> QED BY <3>3, <3>4 DEF CpuState
  <2>10. PicState'
    <3>1. Unended(L) /\ Unended(L)' /\ L \in DOMAIN kstack /\ L \in DOMAIN kstack'
      BY <1>1, <1>5, <2>4, <2>5 DEF Unended, Top
    <3>2. ~Is(Len(kstack), "irq0", "enter") /\ ~Is(Len(kstack), "irq0", "enter")'
      BY <1>1, <2>2, <2>3 DEF Is, Top
    <3> QED BY <1>1, <3>1, <3>2 DEF StackInv, PicState
  <2>11. LaunchState'
    <3>1. \A n \in DOMAIN kstack' : Is(n, "cmd", "launched")' => n \in 1..(L - 1)
      BY <2>2, <2>3, <2>4, <2>5 DEF Is
    <3>2. L - 1 \in Nat /\ L - 1 <= Len(kstack) /\ \A n \in 1..(L - 1) : kstack'[n] = kstack[n]
      BY <1>5, <2>4
    <3> QED BY <1>1, <3>1, <3>2, LauncherBelow
  <2> QED BY <2>7, <2>8, <2>9, <2>10, <2>11 DEF StackInv
<1> QED BY <1>8, <1>9

\* run enters the program: the TSS was loaded before fat16_init.
LEMMA LaunchKeeps ==
    ASSUME StackInv, jump_to_usermode
    PROVE  StackInv'
<1>1. /\ FatReady /\ Top.ctx = "cmd" /\ Top.pc = "run" /\ kstack' = Goto(kstack, "launched")
      /\ tss' = [tss EXCEPT !.esp0 = Len(kstack)] /\ saved_kernel_esp' = Len(kstack)
      /\ launch' = kstack' /\ cpl' = 3 /\ iflag' = TRUE
      /\ UNCHANGED <<boot, irr, isr, keys, halted>>
  BY DEF jump_to_usermode, At
<1>2. Placed([Top EXCEPT !.pc = "launched"]) /\ "launched" \in PCs
  BY <1>1, StackFacts DEF Placed, Frames, PCs
<1>3. /\ kstack' \in Seq(Frames) /\ Len(kstack') = Len(kstack) /\ StackShape'
      /\ \A n \in 1..(Len(kstack) - 1) : kstack'[n] = kstack[n]
      /\ kstack'[Len(kstack)].ctx = "cmd" /\ kstack'[Len(kstack)].pc = "launched"
      /\ \A n \in DOMAIN kstack' : Placed(kstack'[n])
      /\ \A n \in DOMAIN kstack' : kstack'[n].ring = 3 <=> n > 1 /\ Is(n - 1, "cmd", "launched")'
  BY <1>1, <1>2, MoveKeeps
<1>4. PICK L \in Nat : L = Len(kstack) /\ L > 0 /\ DOMAIN kstack = 1..L /\ DOMAIN kstack' = 1..L
                       /\ \A n \in 1..L : n \in 1..(L - 1) \/ n = L
  BY <1>3, StackFacts, StackIndices
<1>5. boot > 6 /\ tss.loaded
  <2>1. boot \in 1..10
    BY DEF StackInv, InterruptsTypeOK, BootSeq
  <2>2. PICK n \in 1..(boot - 1) : BootSeq[n] = "fat16_init"
    BY <1>1 DEF FatReady
  <2>3. n \in 1..9
    BY <2>1, <2>2
  <2>4. n >= 8
    BY <2>2, <2>3 DEF BootSeq
  <2>5. boot > 6
    BY <2>1, <2>2, <2>4
  <2> QED BY <2>5 DEF StackInv, LaunchState
<1>6. tss \in [loaded : BOOLEAN, esp0 : Nat] /\ tss' \in [loaded : BOOLEAN, esp0 : Nat]
      /\ tss'.esp0 = L /\ tss'.loaded = tss.loaded
  <2>1. tss \in [loaded : BOOLEAN, esp0 : Nat]
    BY DEF StackInv, InterruptsTypeOK
  <2> QED BY <1>1, <1>4, <2>1
<1>7. InterruptsTypeOK'
  <2>1. iflag' \in BOOLEAN /\ cpl' \in {0, 3} /\ saved_kernel_esp' \in Nat /\ launch' \in Seq(Frames)
    BY <1>1, <1>3, <1>4
  <2> QED BY <1>1, <1>3, <1>4, <1>6, <2>1 DEF StackInv, InterruptsTypeOK
<1>8. CpuState'
  BY <1>1, <1>3 DEF CpuState, Is, Interruptible
<1>9. PicState'
  <2>1. \A n \in 1..L : Unended(n)' <=> Unended(n)
    BY <1>1, <1>3, <1>4 DEF Unended, Top
  <2>2. ~Is(Len(kstack), "irq0", "enter") /\ ~Is(Len(kstack), "irq0", "enter")'
    BY <1>1, <1>3 DEF Is, Top
  <2> QED BY <1>1, <1>4, <2>1, <2>2 DEF StackInv, PicState
<1>10. LaunchState'
  <2>1. ASSUME NEW n \in 1..L, Is(n, "cmd", "launched")' PROVE n = L
    <3>1. kstack[n].ctx = "cmd" /\ kstack[L].ctx = "cmd" /\ L \in DOMAIN kstack /\ n \in DOMAIN kstack
      BY <1>1, <1>3, <1>4, <2>1 DEF Is, Top
    <3> QED BY <3>1, OneCommandFrame
  <2>2. Len(launch') = L
    BY <1>1, <1>3, <1>4
  <2> QED BY <1>1, <1>4, <1>5, <1>6, <2>1, <2>2 DEF LaunchState
<1> QED BY <1>3, <1>7, <1>8, <1>9, <1>10 DEF StackInv

\* SYS_EXIT drops the frame of int 0x80 and goes on in the launcher.
LEMMA ExitKeeps ==
    ASSUME StackInv, kernel_return
    PROVE  StackInv'
<1>1. PICK p \in {"back", "astray"} :
      /\ cpl = 0 /\ Top.ctx = "int80" /\ iflag' = TRUE
      /\ kstack' = Goto(SubSeq(kstack, 1, saved_kernel_esp), p)
      /\ UNCHANGED <<cpl, irr, isr, keys, boot, tss, saved_kernel_esp, halted, launch>>
  BY DEF kernel_return, At, cpu
<1>2. PICK L \in Nat : L = Len(kstack) /\ L > 0 /\ DOMAIN kstack = 1..L
  BY StackFacts
<1>3. L > 1 /\ L - 1 \in 1..L /\ Is(L - 1, "cmd", "launched")
  <2>1. kstack[L].ctx = "int80" /\ kstack[L].ring = 3
    BY <1>1, <1>2 DEF StackInv, StackShape, Top
  <2>2. L > 1 /\ Is(L - 1, "cmd", "launched")
    BY <1>2, <2>1 DEF StackInv, CpuState
  <2> QED BY <1>2, <2>2
<1>4. PICK M \in Nat : M = L - 1 /\ M > 0 /\ M \in 0..L /\ M \in 1..L
  BY <1>2, <1>3
<1>5. saved_kernel_esp = M
  BY <1>2, <1>3, <1>4 DEF StackInv, LaunchState
<1>6. PICK k : k = SubSeq(kstack, 1, M)
  OBVIOUS
<1>7. k \in Seq(Frames) /\ Len(k) = M /\ \A n \in 1..M : k[n] = kstack[n]
  BY <1>2, <1>4, <1>6, StackFacts, Below
<1>8. /\ kstack' \in Seq(Frames) /\ Len(kstack') = M
      /\ \A n \in 1..(M - 1) : kstack'[n] = k[n]
      /\ kstack'[M].ctx = k[M].ctx /\ kstack'[M].pc = p /\ kstack'[M].ring = k[M].ring
  <2>1. k \in Seq(Frames) /\ Len(k) > 0 /\ p \in PCs /\ kstack' = Goto(k, p)
    BY <1>1, <1>4, <1>5, <1>6, <1>7 DEF PCs
  <2> QED BY <1>7, <2>1, Moved
<1>9. /\ \A n \in 1..(M - 1) : kstack'[n] = kstack[n]
      /\ kstack'[M].ctx = "cmd" /\ kstack'[M].pc = p /\ kstack'[M].ring = kstack[M].ring
      /\ kstack[M].ctx = "cmd"
  BY <1>3, <1>4, <1>7, <1>8 DEF Is
<1>10. /\ DOMAIN kstack' = 1..M /\ \A n \in 1..M : n \in 1..L /\ (n \in 1..(M - 1) \/ n = M)
       /\ \A n \in 1..(M - 1) : n \in 1..M /\ n < L /\ n < M
       /\ \A n \in 1..L : n \in 1..M \/ n = L
  <2>1. DOMAIN kstack' = 1..M
    BY <1>8, StackIndices
  <2>2. \A n \in 1..M : n \in 1..L /\ (n \in 1..(M - 1) \/ n = M)
    BY <1>4
  <2>3. \A n \in 1..(M - 1) : n \in 1..M /\ n < L /\ n < M
    BY <1>4
  <2>4. \A n \in 1..L : n \in 1..M \/ n = L
    BY <1>4
  <2> QED BY <2>1, <2>2, <2>3, <2>4
<1>11. \A n \in DOMAIN kstack' : Placed(kstack'[n])
  <2>1. \A n \in 1..(M - 1) : Placed(kstack[n])
    <3>1. \A n \in 1..L : Placed(kstack[n])
      BY <1>2 DEF StackInv, InterruptsTypeOK
    <3> QED BY <1>10, <3>1
  <2>2. Placed(kstack'[M])
    BY <1>9 DEF Placed
  <2> QED BY <1>9, <1>10, <2>1, <2>2
<1>12. InterruptsTypeOK'
  <2>1. iflag' \in BOOLEAN
    BY <1>1
  <2> QED BY <1>1, <1>4, <1>8, <1>11, <2>1 DEF StackInv, InterruptsTypeOK
<1>13. StackShape'
  <2>1. \A n \in DOMAIN kstack' : kstack'[n].ctx = "main" <=> n = 1
    BY <1>2, <1>9, <1>10 DEF StackInv, StackShape
  <2>2. \A n \in DOMAIN kstack' : n < Len(kstack') => Interruptible(n)'
    <3>1. \A n \in 1..(M - 1) : Interruptible(n)
      BY <1>2, <1>10 DEF StackInv, StackShape
    <3> QED BY <1>8, <1>9, <1>10, <3>1 DEF Interruptible
  <2>3. \A n \in DOMAIN kstack' : kstack'[n].ctx = "cmd" => n > 1 /\ Is(n - 1, "irq1", "eoi")'
    <3>1. \A n \in 1..M : kstack[n].ctx = "cmd" => n > 1 /\ n - 1 \in 1..(M - 1) /\ Is(n - 1, "irq1", "eoi")
      BY <1>2, <1>10 DEF StackInv, StackShape
    <3> QED BY <1>9, <1>10, <3>1 DEF Is
  <2>4. \A n, m \in DOMAIN kstack' : Unended(n)' /\ n < m => kstack'[m].ctx # "irq1"
    <3>1. \A n, m \in 1..L : Unended(n) /\ n < m => kstack[m].ctx # "irq1"
      BY <1>2 DEF StackInv, StackShape
    <3> QED BY <1>9, <1>10, <3>1 DEF Unended
  <2>5. \A n \in DOMAIN kstack' : kstack'[n].ctx = "int80" => kstack'[n].ring = 3
    BY <1>2, <1>9, <1>10 DEF StackInv, StackShape
  <2> QED BY <2>1, <2>2, <2>3, <2>4, <2>5 DEF StackShape
<1>14. CpuState'
  <2>1. ASSUME NEW n \in 1..M PROVE kstack'[n].ring = 3 <=> n > 1 /\ Is(n - 1, "cmd", "launched")'
    <3>1. kstack[n].ring = 3 <=> n > 1 /\ Is(n - 1, "cmd", "launched")
      BY <1>2, <1>10 DEF StackInv, CpuState
    <3>2. kstack'[n].ring = kstack[n].ring
      BY <1>9, <1>10
    <3>3. n > 1 => n - 1 \in 1..(M - 1)
      OBVIOUS
    <3> QED BY <1>9, <3>1, <3>2, <3>3 DEF Is
  <2>2. Interruptible(Len(kstack))' /\ ~Is(Len(kstack), "cmd", "launched")' /\ cpl' # 3
    BY <1>1, <1>8, <1>9 DEF Interruptible, Is
  <2> QED BY <1>10, <2>1, <2>2 DEF CpuState
<1>15. PicState'
  <2>1. ~Unended(L) /\ ~Unended(M) /\ ~Unended(M)'
    BY <1>1, <1>2, <1>9 DEF Unended, Top
  <2>2. \A n \in 1..(M - 1) : Unended(n)' <=> Unended(n)
    BY <1>9 DEF Unended
  <2>3. (\E n \in DOMAIN kstack' : Unended(n)') <=> \E n \in DOMAIN kstack : Unended(n)
    BY <1>2, <1>10, <2>1, <2>2
  <2>4. ~Is(Len(kstack), "irq0", "enter") /\ ~Is(Len(kstack), "irq0", "enter")'
    BY <1>1, <1>8, <1>9 DEF Is, Top
  <2> QED BY <1>1, <2>3, <2>4 DEF StackInv, PicState
<1>16. LaunchState'
  <2>1. \A n \in DOMAIN kstack' : Is(n, "cmd", "launched")' => n \in 1..(M - 1)
    BY <1>9, <1>10 DEF Is
  <2>2. M - 1 \in Nat /\ M - 1 <= Len(kstack)
    BY <1>2, <1>4
  <2>3. \A n \in 1..(M - 1) : kstack'[n] = kstack[n]
    BY <1>9
  <2> QED BY <1>1, <2>1, <2>2, <2>3, LauncherBelow
<1> QED BY <1>12, <1>13, <1>14, <1>15, <1>16 DEF StackInv

\* Every step preserves the invariant.
LEMMA StackInvStep == StackInv /\ [Next]_vars => StackInv'
  BY OutsideKeeps, BootKeeps, InterruptKeeps, TimerKeeps, KeyKeeps, EoiKeeps, ReturnKeeps, LaunchKeeps,
     ResumeKeeps, ExitKeeps, HangKeeps
  DEF Next, HandlerStep

-----------------------------------------------------------------------------
(* The theorems.                                                           *)

\* The PIC's in-service lines are those of the handlers on the stack that have not sent
\* their EOI, however handlers, commands and programs nest.
THEOREM InServiceMatchesStackThm == Spec => []InServiceMatchesStack
<1>1. StackInv => InServiceMatchesStack
  <2> SUFFICES ASSUME StackInv PROVE InServiceMatchesStack
    OBVIOUS
  <2>1. 1 \in isr <=> \E n \in DOMAIN kstack : kstack[n].ctx = "irq1" /\ kstack[n].pc \in {"enter", "eoi"}
    BY DEF StackInv, PicState, Unended
  <2>2. ASSUME NEW n \in DOMAIN kstack, kstack[n].ctx = "irq0", kstack[n].pc \in {"enter", "eoi"}
        PROVE  0 \in isr
    <3>1. n = Len(kstack)
      BY <2>2, StackFacts DEF StackInv, StackShape, Interruptible
    <3>2. kstack[n].pc = "enter"
      BY <2>2 DEF StackInv, InterruptsTypeOK, Placed
    <3> QED BY <2>2, <3>1, <3>2 DEF StackInv, PicState, Is
  <2>3. 0 \in isr => Len(kstack) \in DOMAIN kstack /\ kstack[Len(kstack)].ctx = "irq0"
                     /\ kstack[Len(kstack)].pc = "enter"
    BY StackFacts DEF StackInv, PicState, Is
  <2> QED BY <2>1, <2>2, <2>3 DEF InServiceMatchesStack
<1> QED BY <1>1, StackInvInit, StackInvStep, PTL DEF Spec

\* The shell's commands never overlap, though they run with interrupts on.
THEOREM OneCommandThm == Spec => []OneCommand
<1>1. StackInv => OneCommand
  <2> SUFFICES ASSUME StackInv PROVE OneCommand
    OBVIOUS
  <2>1. PICK S : S = {n \in DOMAIN kstack : kstack[n].ctx = "cmd"}
    OBVIOUS
  <2>2. CASE S = {}
    <3>1. Cardinality(S) = 0
      BY <2>2, FS_EmptySet
    <3> QED BY <2>1, <3>1 DEF OneCommand
  <2>3. CASE S # {}
    <3>1. PICK n : S = {n}
      BY <2>1, <2>3, OneCommandFrame
    <3>2. Cardinality(S) = 1
      BY <3>1, FS_Singleton
    <3> QED BY <2>1, <3>2 DEF OneCommand
  <2> QED BY <2>2, <2>3
<1> QED BY <1>1, StackInvInit, StackInvStep, PTL DEF Spec

\* Interrupts and system calls of a program leave its launcher's part of the stack as it
\* was, and its exit goes back there.
THEOREM LauncherFrameThm == Spec => []LauncherFrame
<1>1. StackInv => LauncherFrame
  <2> SUFFICES ASSUME StackInv, Program
               PROVE  /\ tss.loaded /\ tss.esp0 = saved_kernel_esp
                      /\ saved_kernel_esp = Len(launch) /\ Len(launch) <= Len(kstack)
                      /\ SubSeq(kstack, 1, Len(launch)) = launch
    BY DEF LauncherFrame
  <2>1. PICK n \in DOMAIN kstack : Is(n, "cmd", "launched")
    <3>1. CASE cpl = 3
      BY <3>1, StackFacts DEF StackInv, CpuState
    <3>2. CASE \E m \in DOMAIN kstack : kstack[m].ring = 3
      <4>1. PICK m \in DOMAIN kstack : kstack[m].ring = 3
        BY <3>2
      <4>2. m > 1 /\ Is(m - 1, "cmd", "launched") /\ m - 1 \in DOMAIN kstack
        BY <4>1, StackFacts DEF StackInv, CpuState
      <4> QED BY <4>2
    <3> QED BY <3>1, <3>2 DEF Program
  <2>2. /\ boot > 6 /\ tss.esp0 = n /\ saved_kernel_esp = n /\ Len(launch) = n
        /\ \A m \in 1..n : kstack[m] = launch[m]
    BY <2>1 DEF StackInv, LaunchState
  <2>3. tss.loaded
    BY <2>2 DEF StackInv, LaunchState
  <2>4. launch \in Seq(Frames) /\ kstack \in Seq(Frames) /\ n \in 0..Len(kstack)
    BY <2>1, StackFacts DEF StackInv, InterruptsTypeOK
  <2>5. PICK k : k = SubSeq(kstack, 1, n)
    OBVIOUS
  <2>6. k \in Seq(Frames) /\ Len(k) = n /\ \A m \in 1..n : k[m] = launch[m]
    BY <2>2, <2>4, <2>5, Below
  <2>7. k = launch
    BY <2>2, <2>4, <2>6
  <2> QED BY <2>2, <2>3, <2>4, <2>5, <2>7
<1> QED BY <1>1, StackInvInit, StackInvStep, PTL DEF Spec
=============================================================================
