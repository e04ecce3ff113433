------------------------------- MODULE MCAta -------------------------------
(* Two sectors of two words and one that the drive cannot read. *)
EXTENDS Ata
=============================================================================
