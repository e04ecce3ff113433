----------------------------- MODULE MCPhysMem -----------------------------
(* A small machine for PhysMem: two frames of kernel image, RAM that starts with   *)
(* the image, a reserved hole, a second RAM region that is not a whole number of   *)
(* pages, and a region above 4 GiB.  The fallback of init_paging is scaled to two  *)
(* tables; the bitmap has frames behind the end of RAM for the heap to run into.   *)
EXTENDS PhysMem

MCMemoryMap ==
    << [base_low |-> 12 * 4096, base_high |-> 0, length_low |-> 2 * 4096 + 512, type |-> 1],
       [base_low |-> 0, base_high |-> 0, length_low |-> 9 * 4096, type |-> 1],
       [base_low |-> 9 * 4096, base_high |-> 0, length_low |-> 3 * 4096, type |-> 2],
       [base_low |-> 0, base_high |-> 1, length_low |-> 4 * 4096, type |-> 1] >>

\* A page (a file buffer) and sizeof(struct process).
MCHeapSizes == {4096, 260}
=============================================================================
