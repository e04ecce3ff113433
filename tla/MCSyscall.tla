----------------------------- MODULE MCSyscall -----------------------------
(* Five pages of four bytes; user space is pages 1 to 3.  A chunk is shorter than a *)
(* page, as 1024 is than 4096, and does not divide it, so that chunks of an        *)
(* unaligned buffer cross page boundaries at every offset.                         *)
EXTENDS Syscall
=============================================================================
