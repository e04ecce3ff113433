------------------------------ MODULE Keyboard ------------------------------
(***************************************************************************)
(* The shell of CIndy-OS (src/keyboard.c): the line editor behind IRQ 1    *)
(* and the frame of execute_command, on the screen they share with         *)
(* kernel_main (module Console).  A key is handled as a whole: it runs in  *)
(* the interrupt, and no other key is delivered before its EOI.  What a    *)
(* command prints is any of a few texts; what run does to memory is the    *)
(* subject of module Loader.                                               *)
(***************************************************************************)
EXTENDS Console, FiniteSets

CONSTANTS
    BUFFER_SIZE,   \* 256
    MAX_ARGS,      \* 16
    Letters,       \* keys with a letter on them
    Upper,         \* the capital of each letter
    PROMPT,        \* "[CIndy-OS]> "
    Outputs,       \* what a command may print
    MAX_KEYS,      \* bound: keys pressed
    MAX_BOOT_KEYS  \* bound: keys pressed while kernel_main prints

NUL == "nul"
RUN == <<"r">>     \* the name of the run command

ASSUME KeyboardAssumption ==
    /\ BUFFER_SIZE \in Nat \ {0} /\ MAX_ARGS \in Nat \ {0}
    /\ MAX_KEYS \in Nat /\ MAX_BOOT_KEYS \in Nat
    /\ Letters \subseteq STRING /\ Upper \in [Letters -> STRING]
    /\ PROMPT \in Seq(STRING) /\ Outputs \subseteq Seq(STRING)

\* Keys show themselves, the prompt is one line, kernel_main ends with it on a line of its
\* own, and there is a screen for the prompt and the longest line.  Of a command's output
\* only that it does not move the cursor back.
Editing == {NEWLINE, BACKSPACE}
ASSUME EchoAssumption ==
    /\ \A k \in Letters : k \notin Editing /\ Upper[k] \notin Editing
    /\ \A i \in DOMAIN PROMPT : PROMPT[i] \notin Editing
    /\ \A out \in Outputs : \A i \in DOMAIN out : out[i] # BACKSPACE
    /\ Len(BootText) > Len(PROMPT)
    /\ LET before == Len(BootText) - Len(PROMPT)
       IN  /\ BootText[before] = NEWLINE
           /\ \A i \in DOMAIN PROMPT : BootText[before + i] = PROMPT[i]
    /\ Len(PROMPT) + BUFFER_SIZE <= MAX_ROWS * MAX_COLS

VARIABLES
    input_buffer, buffer_index,
    shift_pressed, caps,
    stale,                         \* history: a failed run left its line in the buffer, or
                                   \* kernel_main was still printing when this line began
    littered,                      \* history: a key was mixed with kernel_main's output and
                                   \* the screen has not been cleared since
    typed                          \* bound: how many keys have been pressed

vars == <<scr, reach, main, input_buffer, buffer_index, shift_pressed, caps, stale, littered,
          typed>>

Empty == [i \in 0..(BUFFER_SIZE - 1) |-> NUL]

Init ==
    /\ ConsoleInit
    /\ input_buffer = Empty /\ buffer_index = 0
    /\ shift_pressed = FALSE /\ caps = FALSE
    /\ stale = FALSE /\ littered = FALSE /\ typed = 0

-----------------------------------------------------------------------------
(* The parser.                                                             *)

\* Mutant: a token ends one character early.
TokenEnd_short(b, i) ==
    (CHOOSE j \in i..(BUFFER_SIZE - 1) :
        b[j] \in {NUL, BLANK} /\ \A k \in i..(j - 1) : b[k] \notin {NUL, BLANK}) - 1

\* The end of the token that starts at i.
TokenEnd(b, i) ==
    CHOOSE j \in i..(BUFFER_SIZE - 1) :
        b[j] \in {NUL, BLANK} /\ \A k \in i..(j - 1) : b[k] \notin {NUL, BLANK}

SkipBlanks(b, i) ==
    CHOOSE j \in i..(BUFFER_SIZE - 1) : b[j] # BLANK /\ \A k \in i..(j - 1) : b[k] = BLANK

\* A turn of the loop at the start of execute_command, from position p.i of p.b: it skips
\* blanks, takes a token and ends it with a NUL where a blank was.
Turn(p) ==
    LET s == SkipBlanks(p.b, p.i)
        e == TokenEnd(p.b, s)
    IN  IF p.b[p.i] = NUL THEN p
        ELSE IF p.b[s] = NUL THEN [p EXCEPT !.i = s]
        ELSE [i |-> IF p.b[e] = BLANK THEN e + 1 ELSE e,
              b |-> [p.b EXCEPT ![e] = NUL],
              argv |-> Append(p.argv, [k \in 1..(e - s) |-> p.b[s + k - 1]])]

\* The loop on buffer b.
Tokenise(b) ==
    LET after[n \in 0..MAX_ARGS] ==
          IF n = 0 THEN [i |-> 0, b |-> b, argv |-> <<>>] ELSE Turn(after[n - 1])
    IN  after[MAX_ARGS]

-----------------------------------------------------------------------------
(* Keys.                                                                   *)

Booting == pc # "hlt"

Pressed ==
    /\ typed < (IF Booting THEN MAX_BOOT_KEYS ELSE MAX_KEYS) /\ typed' = typed + 1
    /\ UNCHANGED main

shift_down ==
    /\ Pressed /\ shift_pressed' = TRUE
    /\ UNCHANGED <<scr, reach, input_buffer, buffer_index, caps, stale, littered>>

shift_up ==
    /\ Pressed /\ shift_pressed' = FALSE
    /\ UNCHANGED <<scr, reach, input_buffer, buffer_index, caps, stale, littered>>

caps_lock ==
    /\ Pressed /\ caps' = ~caps
    /\ UNCHANGED <<scr, reach, input_buffer, buffer_index, shift_pressed, stale, littered>>

\* The tables, and the swap of case under caps lock.
Ascii(k) ==
    IF k \in Letters /\ shift_pressed # caps THEN Upper[k] ELSE k

\* Mutant: the last byte of the buffer is used as well.
RoomFor_full == buffer_index < BUFFER_SIZE

\* A byte is kept for the NUL.
RoomFor == buffer_index < BUFFER_SIZE - 1

key_char(k) ==
    /\ Pressed
    /\ IF RoomFor
       THEN /\ input_buffer' = [input_buffer EXCEPT ![buffer_index] = Ascii(k)]
            /\ buffer_index' = buffer_index + 1
            /\ Shows(scr, <<Ascii(k)>>)
       ELSE UNCHANGED <<input_buffer, buffer_index, scr, reach>>
    /\ stale' = (stale \/ Booting) /\ littered' = (littered \/ Booting)
    /\ UNCHANGED <<shift_pressed, caps>>

key_backspace ==
    /\ Pressed
    /\ IF buffer_index > 0
       THEN /\ buffer_index' = buffer_index - 1
            /\ input_buffer' = [input_buffer EXCEPT ![buffer_index - 1] = NUL]
            /\ Shows(scr, <<BACKSPACE, BLANK, BACKSPACE>>)
       ELSE UNCHANGED <<input_buffer, buffer_index, scr, reach>>
    /\ stale' = (stale \/ Booting) /\ littered' = (littered \/ Booting)
    /\ UNCHANGED <<shift_pressed, caps>>

\* Enter: the parsed line.
Line == Tokenise([input_buffer EXCEPT ![buffer_index] = NUL])

\* A command that comes to the end of execute_command: its output, the prompt, and the
\* reset of the buffer.  clear starts from an empty screen.
key_enter(out, clear) ==
    /\ Pressed
    /\ clear => Line.argv # <<>>
    /\ IF clear THEN Shows(clear_screen, <<NEWLINE>> \o PROMPT)
       ELSE Shows(scr, <<NEWLINE>> \o out \o <<NEWLINE>> \o PROMPT)
    /\ input_buffer' = Empty /\ buffer_index' = 0
    /\ stale' = Booting /\ littered' = (Booting \/ (littered /\ ~clear))
    /\ UNCHANGED <<shift_pressed, caps>>

\* The early returns of run: a message, and no prompt and no reset.  The blanks of the
\* line have become NULs.
key_enter_run_fails(out) ==
    /\ Pressed
    /\ Len(Line.argv) >= 2 /\ Line.argv[1] = RUN
    /\ Shows(scr, <<NEWLINE>> \o out)
    /\ input_buffer' = Line.b
    /\ stale' = TRUE /\ littered' = (littered \/ Booting)
    /\ UNCHANGED <<buffer_index, shift_pressed, caps>>

Next ==
    \/ MainStep /\ UNCHANGED <<input_buffer, buffer_index, shift_pressed, caps, stale, littered, typed>>
    \/ shift_down \/ shift_up \/ caps_lock
    \/ \E k \in Letters \cup {BLANK} : key_char(k)
    \/ key_backspace
    \/ \E out \in Outputs, clear \in BOOLEAN : key_enter(out, clear)
    \/ \E out \in Outputs : key_enter_run_fails(out)

Spec == Init /\ [][Next]_vars

-----------------------------------------------------------------------------
(* Properties.                                                             *)

\* The buffer ends with a NUL, whatever was typed, erased, or left behind by run.
Terminated ==
    /\ buffer_index \in 0..(BUFFER_SIZE - 1)
    /\ \A i \in buffer_index..(BUFFER_SIZE - 1) : input_buffer[i] = NUL

\* What the user sees is what Enter will run: the prompt and the buffer in front of the
\* cursor, across the ends of rows and when the screen scrolls, and nothing behind it.
\* When keys were mixed with kernel_main's output, the line is right from the next prompt
\* on, but a character that kernel_main wrote below may stay behind the cursor until the
\* screen is cleared.
EchoMatchesBuffer ==
    ~stale /\ ~Booting =>
        LET n == Len(PROMPT) + buffer_index
            shown(i) == scr.cells[Offset(scr) - n + i]
        IN  /\ \A i \in 1..Len(PROMPT) : shown(i - 1) = PROMPT[i]
            /\ \A i \in 0..(buffer_index - 1) :
                  shown(Len(PROMPT) + i) = input_buffer[i]
            /\ \A k \in Cells : ~littered /\ k >= Offset(scr) => scr.cells[k] = BLANK

\* The length of the text in b: what is before the first NUL.
LineLength(b) ==
    CHOOSE n \in 0..(BUFFER_SIZE - 1) : b[n] = NUL /\ \A k \in 0..(n - 1) : b[k] # NUL

\* The words of a text of n characters: maximal runs of characters that are no blanks.
InWord(b, n, i) == i \in 0..(n - 1) /\ b[i] # BLANK
Starts(b, n) == {i \in 0..(n - 1) : InWord(b, n, i) /\ ~(i > 0 /\ InWord(b, n, i - 1))}
Before(b, n, i) == {j \in Starts(b, n) : j < i}
Nth(b, n, k) == CHOOSE i \in Starts(b, n) : Cardinality(Before(b, n, i)) = k - 1
WordLength(b, n, i) == Cardinality({j \in i..n : \A k \in i..j : InWord(b, n, k)})
Word(b, n, i) == [k \in 1..WordLength(b, n, i) |-> b[i + k - 1]]

\* The arguments are the words of the text before the first NUL: the maximal runs of
\* characters that are no blanks, in order, up to MAX_ARGS.
ArgvIsSplit ==
    LET b == input_buffer
        n == LineLength(b)
        count == Cardinality(Starts(b, n))
        words == IF count < MAX_ARGS THEN count ELSE MAX_ARGS
    IN  Tokenise(b).argv = [k \in 1..words |-> Word(b, n, Nth(b, n, k))]
=============================================================================
