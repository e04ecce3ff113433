------------------------------ MODULE MCLoader ------------------------------
(* Loader on a machine with two frames of kernel image, twelve frames of RAM and   *)
(* none above it, so that four or five launches use up the memory.  Without a      *)
(* memory map the identity map has two tables and reaches the ELF image.           *)
EXTENDS Loader

MCMemoryMap ==
    << [base_low |-> 0, base_high |-> 0, length_low |-> 14 * 4096, type |-> 1] >>

MCHeapSizes == {4096, 260}
=============================================================================
