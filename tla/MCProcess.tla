----------------------------- MODULE MCProcess -----------------------------
(* Process with a few PCBs, which are interchangeable.  Whether only the kernel's     *)
(* own calls happen, or everything that the headers export, is settled at the start.  *)
(* In the second case the programs do not compute: only their order matters.          *)
EXTENDS Process, TLC

VARIABLE exported

MCInit == Init /\ exported \in BOOLEAN
MCNext ==
    /\ UNCHANGED exported
    /\ \/ Next
       \/ exported /\ \E p \in Procs : task_create_from_elf(p)
       \/ exported /\ proc_yield
       \/ exported /\ schedule
    /\ exported => cpu'.gp.k = 0
MCSpec == MCInit /\ [][MCNext]_<<vars, exported>>

PcbSymmetry == Permutations(Procs)

\* With the commands the shell has, every SYS_YIELD comes back to the program that called
\* it, where it was and with its registers.
ShellYieldComesBack == [][~exported => YieldComesBack]_<<vars, exported>>
=============================================================================
