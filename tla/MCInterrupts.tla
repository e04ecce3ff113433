---------------------------- MODULE MCInterrupts ----------------------------
(* Every kind of key, two waiting in the controller, handlers nested up to three deep. *)
EXTENDS Interrupts
=============================================================================
