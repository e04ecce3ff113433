------------------------------- MODULE Screen -------------------------------
(***************************************************************************)
(* The text screen of CIndy-OS (src/screen.c): what print and              *)
(* print_colored do to the cells and to the cursor.  A screen is a record  *)
(* of its cells, numbered row by row, and the cursor's row and column.     *)
(* Colours and the copy of the output to the serial port are left out.     *)
(***************************************************************************)
EXTENDS Naturals, Sequences

CONSTANTS
    MAX_ROWS, MAX_COLS   \* 25 and 80

ASSUME ScreenAssumption == MAX_ROWS \in Nat \ {0} /\ MAX_COLS \in Nat \ {0}

NEWLINE == "newline"     \* '\n'
BACKSPACE == "backspace" \* '\b'
BLANK == " "

Cells == 0..(MAX_ROWS * MAX_COLS - 1)
Offset(s) == s.row * MAX_COLS + s.col

clear_screen == [cells |-> [k \in Cells |-> BLANK], row |-> 0, col |-> 0]

\* Every row moves up, the last one is cleared; the column stays.
scroll_screen(s) ==
    [s EXCEPT !.cells = [k \in Cells |-> IF k + MAX_COLS \in Cells THEN s.cells[k + MAX_COLS]
                                         ELSE BLANK],
              !.row = MAX_ROWS - 1]

Scrolled(s) == IF s.row >= MAX_ROWS THEN scroll_screen(s) ELSE s

Wrapped(s) ==
    IF s.col >= MAX_COLS THEN [s EXCEPT !.col = 0, !.row = @ + 1] ELSE s

NewLine(s) == [s EXCEPT !.row = @ + 1, !.col = 0]

\* Mutant: a backspace in the first column stays there.
Back_sameRow(s) == IF s.col > 0 THEN [s EXCEPT !.col = @ - 1] ELSE s

Back(s) ==
    IF s.col > 0 THEN [s EXCEPT !.col = @ - 1]
    ELSE IF s.row > 0 THEN [s EXCEPT !.row = @ - 1, !.col = MAX_COLS - 1]
    ELSE s

\* A character in the cell of the cursor.  A cell below the screen is video memory too,
\* but not a part of what is modelled.
Put(s, c) == Wrapped([s EXCEPT !.cells = [@ EXCEPT ![Offset(s)] = c], !.col = @ + 1])

\* One turn of print's loop.
PrintChar(s, c) ==
    Scrolled(IF c = NEWLINE THEN NewLine(s) ELSE IF c = BACKSPACE THEN Back(s) ELSE Put(s, c))

\* The screen after each turn of the loop.
Printing(s, msg) ==
    LET after[i \in 0..Len(msg)] == IF i = 0 THEN s ELSE PrintChar(after[i - 1], msg[i])
    IN  after

\* print, and print_colored on messages without a backspace.
print(s, msg) == Printing(s, msg)[Len(msg)]

InScreen(s) == s.row \in 0..(MAX_ROWS - 1) /\ s.col \in 0..(MAX_COLS - 1)
=============================================================================
