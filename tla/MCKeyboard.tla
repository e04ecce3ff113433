----------------------------- MODULE MCKeyboard -----------------------------
(* A screen of two rows on which a full line wraps, and a line with room for one    *)
(* word more than execute_command takes.  kernel_main fills a row, scrolls, prompts. *)
EXTENDS Keyboard

MCUpper == [r |-> "R"]
MCPrompt == <<">">>
MCOutputs == {<<>>, <<"o", NEWLINE>>}
MCBootText == <<"m", "m", "m", "m", NEWLINE>> \o MCPrompt
=============================================================================
