------------------------------- MODULE Console ------------------------------
(***************************************************************************)
(* Two users of one cursor.  kernel_main prints after it has enabled       *)
(* interrupts, and the keyboard interrupt echoes keys and prints the       *)
(* output of commands at any point of that.  kernel_main's print runs      *)
(* statement by statement, "cursor_col++" and "cursor_row++" as the load   *)
(* and the store they are compiled to; the interrupt prints as a whole     *)
(* (Shows), in the actions of module Keyboard.                             *)
(***************************************************************************)
EXTENDS Screen

CONSTANT BootText    \* what kernel_main prints, up to the first prompt

ASSUME ConsoleAssumption == BootText \in Seq(STRING)

VARIABLES
    scr,          \* the screen and its cursor
    pc,           \* where kernel_main's print is; "hlt" after it
    at,           \* how much of BootText is printed
    c, offset, t, \* its locals: the character, the offset, the value loaded
    reach         \* history: the highest cell below the screen that was written, or 0

main == <<pc, at, c, offset, t>>

ConsoleInit ==
    /\ scr = clear_screen
    /\ pc = "next" /\ at = 0 /\ c = BLANK /\ offset = 0 /\ t = 0 /\ reach = 0

\* The new value of reach when these cells are written.
Highest(written) ==
    LET below == (written \ Cells) \cup {reach}
    IN  CHOOSE m \in below : \A k \in below : k <= m

\* The next character: a newline starts with the row, any other character (kernel_main
\* prints no backspace) with the offset of its cell.
next_char ==
    /\ pc = "next" /\ at < Len(BootText)
    /\ at' = at + 1
    /\ c' = BootText[at + 1]
    /\ offset' = IF BootText[at + 1] = NEWLINE THEN 0 ELSE Offset(scr)
    /\ pc' = IF BootText[at + 1] = NEWLINE THEN "load_row" ELSE "write"
    /\ UNCHANGED <<scr, t, reach>>

\* The last character is printed: kernel_main halts.
hlt ==
    /\ pc = "next" /\ at = Len(BootText)
    /\ pc' = "hlt"
    /\ UNCHANGED <<scr, at, c, offset, t, reach>>

write_cell ==
    /\ pc = "write"
    /\ scr' = [scr EXCEPT !.cells = [@ EXCEPT ![offset] = c]]
    /\ reach' = Highest({offset})
    /\ pc' = "load_col" /\ offset' = 0
    /\ UNCHANGED <<at, c, t>>

load_col ==
    /\ pc = "load_col"
    /\ t' = scr.col
    /\ pc' = "store_col"
    /\ UNCHANGED <<scr, at, c, offset, reach>>

store_col ==
    /\ pc = "store_col"
    /\ scr' = [scr EXCEPT !.col = t + 1]
    /\ pc' = "wrap" /\ t' = 0
    /\ UNCHANGED <<at, c, offset, reach>>

\* Mutant: the row is advanced before the column is cleared.
wrap_rowFirst ==
    /\ pc = "wrap"
    /\ IF scr.col >= MAX_COLS
       THEN scr' = [scr EXCEPT !.row = @ + 1] /\ pc' = "clear_col"
       ELSE scr' = scr /\ pc' = "scroll"
    /\ UNCHANGED <<at, c, offset, t, reach>>

\* if (cursor_col >= 80): the column is cleared before the row is advanced.
wrap ==
    /\ pc = "wrap"
    /\ IF scr.col >= MAX_COLS
       THEN scr' = [scr EXCEPT !.col = 0] /\ pc' = "load_row"
       ELSE scr' = scr /\ pc' = "scroll"
    /\ UNCHANGED <<at, c, offset, t, reach>>

load_row ==
    /\ pc = "load_row"
    /\ t' = scr.row
    /\ pc' = "store_row"
    /\ UNCHANGED <<scr, at, c, offset, reach>>

store_row ==
    /\ pc = "store_row"
    /\ scr' = [scr EXCEPT !.row = t + 1]
    /\ pc' = IF c = NEWLINE THEN "clear_col" ELSE "scroll"
    /\ t' = 0
    /\ UNCHANGED <<at, c, offset, reach>>

clear_col ==
    /\ pc = "clear_col"
    /\ scr' = [scr EXCEPT !.col = 0]
    /\ pc' = "scroll"
    /\ UNCHANGED <<at, c, offset, t, reach>>

\* Mutant: no scrolling at the end of the loop.
scroll_missing ==
    /\ pc = "scroll"
    /\ pc' = "next"
    /\ UNCHANGED <<scr, at, c, offset, t, reach>>

\* The check for scrolling at the end of the loop.  The copy of the rows is one step: a
\* key in the middle of it changes what is shown, not where the cursor may be.
scroll ==
    /\ pc = "scroll"
    /\ scr' = Scrolled(scr)
    /\ pc' = "next"
    /\ UNCHANGED <<at, c, offset, t, reach>>

\* The cells that printing a text on screen s writes.
CellsWritten(s, text) ==
    {Offset(Printing(s, text)[i - 1]) : i \in {j \in DOMAIN text : text[j] \notin {NEWLINE, BACKSPACE}}}

\* The interrupt prints on screen s: the one it finds, or a cleared one.
Shows(s, text) ==
    /\ scr' = print(s, text)
    /\ reach' = Highest(CellsWritten(s, text))

MainStep ==
    \/ next_char \/ hlt \/ write_cell \/ load_col \/ store_col \/ wrap
    \/ load_row \/ store_row \/ clear_col \/ scroll

-----------------------------------------------------------------------------
(* Properties.                                                             *)

\* Whatever the interrupts did to the cursor between two statements of kernel_main's
\* print, each character ends with the cursor on the screen, so that the damage never
\* adds up.
CursorRecovers == pc \in {"next", "hlt"} => InScreen(scr)

\* Video memory is written at most one row below the screen, where a key finds the
\* cursor between cursor_row++ and the check for scrolling.
WritesNearScreen == reach < (MAX_ROWS + 1) * MAX_COLS
=============================================================================
