--------------------------- MODULE KeyboardProofs ---------------------------
(***************************************************************************)
(* Proofs about Keyboard for every screen, line buffer and text: where the *)
(* two users of the cursor may leave it, how far below the screen they     *)
(* write, that the line stays inside its buffer, in the editor and in the  *)
(* parser, that the parser returns the words of the line, and that the     *)
(* screen shows the line that Enter will run.                              *)
(***************************************************************************)
EXTENDS Keyboard, FiniteSetTheorems, WellFoundedInduction, TLAPS

-----------------------------------------------------------------------------
(* Natural numbers.                                                        *)

\* A set of natural numbers that is not empty has a least element.
LEMMA LeastNatural ==
    ASSUME NEW T, T \subseteq Nat, T # {}
    PROVE  \E m \in T : \A k \in T : m <= k
<1> DEFINE R == OpToRel(<, Nat)
<1>1. IsWellFoundedOn(R, Nat)
  BY NatLessThanWellFounded
<1>2. R = {ss \in Nat \X Nat : ss[1] < ss[2]}
  BY DEF OpToRel
<1> HIDE DEF R
<1>3. PICK x \in T : \A y \in T : ~ (<<y, x>> \in R)
  BY <1>1, WFMin
<1>4. ASSUME NEW k \in T PROVE x <= k
  <2>1. x \in Nat /\ k \in Nat
    OBVIOUS
  <2>2. ~(<<k, x>> \in R)
    BY <1>3
  <2>3. CASE k < x
    <3>1. <<k, x>> \in {ss \in Nat \X Nat : ss[1] < ss[2]}
      BY <2>1, <2>3
    <3> QED BY <1>2, <2>2, <3>1
  <2> QED BY <2>1, <2>3
<1> QED BY <1>4

\* Induction over 0..n, for a property given by the set T of the numbers that have it.
LEMMA UpTo ==
    ASSUME NEW n \in Nat, NEW T, 0 \in T,
           \A i \in 1..n : i - 1 \in T => i \in T
    PROVE  0..n \subseteq T
<1> DEFINE U == {i \in 0..n : i \notin T}
<1>1. CASE U # {}
  <2>0. U \subseteq Nat
    OBVIOUS
  <2> HIDE DEF U
  <2>1. PICK m \in U : \A k \in U : m <= k
    BY <1>1, <2>0, LeastNatural
  <2> USE DEF U
  <2>2. m \in 1..n /\ m - 1 \in 0..n /\ ~(m <= m - 1)
    BY <2>1
  <2>3. m - 1 \in T
    BY <2>1, <2>2
  <2> QED BY <2>1, <2>2, <2>3
<1>2. CASE U = {}
  BY <1>2
<1> QED BY <1>1, <1>2

\* Rows do not overlap: a cell of an earlier row comes before the end of a later one.
LEMMA RowsInOrder ==
    ASSUME NEW a \in Nat, NEW b \in Nat, NEW w \in Nat, a <= b
    PROVE  a * w \in Nat /\ b * w \in Nat /\ a * w <= b * w /\ (b + 1) * w = b * w + w
<1>1. a * w \in Nat /\ b * w \in Nat /\ (b + 1) * w = b * w + w
  OBVIOUS
<1>2. PICK d \in Nat : b = a + d
  <2>1. b - a \in Nat /\ b = a + (b - a)
    OBVIOUS
  <2> QED BY <2>1
<1>3. b * w = a * w + d * w /\ d * w \in Nat
  BY <1>2
<1> QED BY <1>1, <1>3

-----------------------------------------------------------------------------
(* The screen.                                                             *)

\* A record with the fields of a screen.
IsScreen(s) == s \in [cells : {s.cells}, row : Nat, col : Nat]

\* Where a print may find the cursor: on the screen, behind the end of a row, or on the
\* row below the screen.
NearScreen(s) ==
    /\ IsScreen(s)
    /\ s.row <= MAX_ROWS /\ s.col <= MAX_COLS
    /\ s.row = MAX_ROWS => s.col < MAX_COLS

OnScreen(s) == IsScreen(s) /\ InScreen(s)

LEMMA OnScreenIsNear ==
    ASSUME NEW s, OnScreen(s)
    PROVE  NearScreen(s)
BY ScreenAssumption DEF OnScreen, NearScreen, InScreen, IsScreen

\* A screen that is near stays inside its row below.
LEMMA NearOffset ==
    ASSUME NEW s, NearScreen(s)
    PROVE  Offset(s) \in Nat /\ Offset(s) < (MAX_ROWS + 1) * MAX_COLS
<1>1. s.row \in Nat /\ s.col \in Nat /\ MAX_ROWS \in Nat /\ MAX_COLS \in Nat \ {0}
  BY ScreenAssumption DEF NearScreen, IsScreen
<1>2. PICK r, k : r = s.row /\ k = s.col
  OBVIOUS
<1>3. Offset(s) = r * MAX_COLS + k
  BY <1>2 DEF Offset
<1>4. r \in Nat /\ k \in Nat /\ r <= MAX_ROWS /\ k <= MAX_COLS /\ (r = MAX_ROWS => k < MAX_COLS)
  BY <1>1, <1>2 DEF NearScreen
<1>5. CASE r = MAX_ROWS
  <2>1. r * MAX_COLS \in Nat /\ (MAX_ROWS + 1) * MAX_COLS = r * MAX_COLS + MAX_COLS
    BY <1>1, <1>4, <1>5, RowsInOrder
  <2> QED BY <1>1, <1>3, <1>4, <1>5, <2>1
<1>6. CASE r < MAX_ROWS
  <2>1. PICK q \in Nat : q = r + 1 /\ q <= MAX_ROWS
    BY <1>1, <1>4, <1>6
  <2>2. r * MAX_COLS \in Nat /\ (r + 1) * MAX_COLS = r * MAX_COLS + MAX_COLS
    BY <1>1, <1>4, RowsInOrder
  <2>3. q * MAX_COLS <= MAX_ROWS * MAX_COLS
        /\ (MAX_ROWS + 1) * MAX_COLS = MAX_ROWS * MAX_COLS + MAX_COLS
        /\ MAX_ROWS * MAX_COLS \in Nat
    BY <1>1, <2>1, RowsInOrder
  <2> QED BY <1>1, <1>3, <1>4, <2>1, <2>2, <2>3
<1> QED BY <1>1, <1>4, <1>5, <1>6

\* Scrolling brings the cursor back to the screen from any row below it.
LEMMA ScrolledLands ==
    ASSUME NEW s, IsScreen(s), s.col < MAX_COLS
    PROVE  OnScreen(Scrolled(s))
<1>1. s.row \in Nat /\ s.col \in Nat /\ MAX_ROWS - 1 \in Nat /\ MAX_ROWS \in Nat /\ MAX_COLS \in Nat
  BY ScreenAssumption DEF IsScreen
<1>2. CASE s.row >= MAX_ROWS
  <2>1. PICK f : f = [k \in Cells |-> IF k + MAX_COLS \in Cells THEN s.cells[k + MAX_COLS] ELSE BLANK]
    OBVIOUS
  <2>2. PICK r \in Nat : r = MAX_ROWS - 1
    BY <1>1
  <2>3. PICK u : u = [s EXCEPT !.cells = f, !.row = r]
    OBVIOUS
  <2>4. IsScreen(u) /\ u.row = r /\ u.col = s.col
    BY <2>3 DEF IsScreen
  <2>5. Scrolled(s) = u
    BY <1>2, <2>1, <2>2, <2>3 DEF Scrolled, scroll_screen
  <2> QED BY <1>1, <2>2, <2>4, <2>5 DEF OnScreen, InScreen
<1>3. CASE ~(s.row >= MAX_ROWS)
  BY <1>1, <1>3 DEF Scrolled, OnScreen, InScreen
<1> QED BY <1>2, <1>3

\* One character, wherever it starts, ends with the cursor on the screen.
LEMMA PrintCharLands ==
    ASSUME NEW s, NearScreen(s), NEW x
    PROVE  OnScreen(PrintChar(s, x))
<1>1. /\ IsScreen(s) /\ s.row \in Nat /\ s.col \in Nat
      /\ MAX_ROWS \in Nat \ {0} /\ MAX_COLS \in Nat \ {0}
  BY ScreenAssumption DEF NearScreen, IsScreen
<1> DEFINE p == IF x = NEWLINE THEN NewLine(s) ELSE IF x = BACKSPACE THEN Back(s) ELSE Put(s, x)
<1>2. IsScreen(p) /\ p.col < MAX_COLS
  <2>0. PICK r1 \in Nat, k1 \in Nat : r1 = s.row + 1 /\ k1 = s.col + 1
    BY <1>1
  <2>1. CASE x = NEWLINE
    <3>1. PICK u : u = [s EXCEPT !.row = r1, !.col = 0]
      OBVIOUS
    <3>2. p = u
      BY <2>0, <2>1, <3>1 DEF NewLine
    <3>3. IsScreen(u) /\ u.col = 0
      BY <1>1, <3>1 DEF IsScreen
    <3> HIDE DEF p
    <3> QED BY <1>1, <3>2, <3>3
  <2>2. CASE x # NEWLINE /\ x = BACKSPACE
    <3>0. p = Back(s)
      BY <2>2
    <3> HIDE DEF p
    <3>1. CASE s.col > 0
      <4>1. PICK k \in Nat : k = s.col - 1 /\ k < MAX_COLS
        BY <1>1, <3>1 DEF NearScreen
      <4>2. PICK u : u = [s EXCEPT !.col = k]
        OBVIOUS
      <4>3. p = u
        BY <3>0, <3>1, <4>1, <4>2 DEF Back
      <4>4. IsScreen(u) /\ u.col = k
        BY <1>1, <4>2 DEF IsScreen
      <4> QED BY <4>1, <4>3, <4>4
    <3>2. CASE ~(s.col > 0) /\ s.row > 0
      <4>1. PICK r \in Nat, k \in Nat : r = s.row - 1 /\ k = MAX_COLS - 1 /\ k < MAX_COLS
        BY <1>1, <3>2
      <4>2. PICK u : u = [s EXCEPT !.row = r, !.col = k]
        OBVIOUS
      <4>3. p = u
        BY <3>0, <3>2, <4>1, <4>2 DEF Back
      <4>4. IsScreen(u) /\ u.col = k
        BY <1>1, <4>2 DEF IsScreen
      <4> QED BY <4>1, <4>3, <4>4
    <3>3. CASE ~(s.col > 0) /\ ~(s.row > 0)
      BY <1>1, <3>0, <3>3 DEF Back
    <3> QED BY <3>1, <3>2, <3>3
  <2>3. CASE x # NEWLINE /\ x # BACKSPACE
    <3>1. PICK f : f = [s.cells EXCEPT ![Offset(s)] = x]
      OBVIOUS
    <3>2. PICK u : u = [s EXCEPT !.cells = f, !.col = k1]
      OBVIOUS
    <3>3. IsScreen(u) /\ u.row = s.row /\ u.col = k1
      BY <1>1, <3>2 DEF IsScreen
    <3>4. p = Wrapped(u)
      BY <2>0, <2>3, <3>1, <3>2 DEF Put
    <3> HIDE DEF p
    <3>5. CASE u.col >= MAX_COLS
      <4>1. PICK v : v = [u EXCEPT !.col = 0, !.row = r1]
        OBVIOUS
      <4>2. Wrapped(u) = v
        BY <2>0, <3>3, <3>5, <4>1 DEF Wrapped
      <4>3. IsScreen(v) /\ v.col = 0
        BY <3>3, <4>1 DEF IsScreen
      <4> QED BY <1>1, <3>4, <4>2, <4>3
    <3>6. CASE ~(u.col >= MAX_COLS)
      BY <1>1, <2>0, <3>3, <3>4, <3>6 DEF Wrapped
    <3> QED BY <3>5, <3>6
  <2> QED BY <2>1, <2>2, <2>3
<1>3. PrintChar(s, x) = Scrolled(p)
  BY DEF PrintChar
<1> HIDE DEF p
<1> QED BY <1>2, <1>3, ScrolledLands

\* The loop of print: the screens after each turn exist, and follow from one another.
LEMMA PrintingTurns ==
    ASSUME NEW s, NEW msg, Len(msg) \in Nat
    PROVE  LET f == Printing(s, msg)
           IN  f = [i \in 0..Len(msg) |-> IF i = 0 THEN s ELSE PrintChar(f[i - 1], msg[i])]
<1> DEFINE Turns(f, n) == f = [i \in 0..n |-> IF i = 0 THEN s ELSE PrintChar(f[i - 1], msg[i])]
           Some == {n \in Nat : \E f : Turns(f, n)}
<1>1. 0 \in Some
  <2>1. PICK f : f = [i \in 0..0 |-> s]
    OBVIOUS
  <2>2. [i \in 0..0 |-> s] = [i \in 0..0 |-> IF i = 0 THEN s ELSE PrintChar(f[i - 1], msg[i])]
    OBVIOUS
  <2>3. Turns(f, 0)
    BY <2>1, <2>2
  <2> QED BY <2>3
<1>2. ASSUME NEW n \in 1..Len(msg), n - 1 \in Some
      PROVE  n \in Some
  <2>1. n \in Nat /\ n - 1 \in Nat /\ n # 0
    OBVIOUS
  <2>2. PICK f : Turns(f, n - 1)
    BY <1>2
  <2>3. PICK g : g = [i \in 0..n |-> IF i = n THEN PrintChar(f[n - 1], msg[n]) ELSE f[i]]
    OBVIOUS
  <2>4. ASSUME NEW i \in 0..n
        PROVE  g[i] = IF i = 0 THEN s ELSE PrintChar(g[i - 1], msg[i])
    <3>1. CASE i = n
      <4>1. n - 1 \in 0..n /\ n - 1 # n /\ n \in 0..n
        BY <2>1
      <4>2. g[n - 1] = f[n - 1] /\ g[n] = PrintChar(f[n - 1], msg[n])
        BY <2>3, <4>1
      <4> QED BY <2>1, <3>1, <4>2
    <3>2. CASE i # n /\ i # 0
      <4>1. i \in 0..(n - 1) /\ i - 1 \in 0..n /\ i - 1 # n
        BY <2>1, <3>2
      <4>2. g[i - 1] = f[i - 1] /\ g[i] = f[i]
        BY <2>3, <3>2, <4>1
      <4>3. f[i] = PrintChar(f[i - 1], msg[i])
        BY <2>2, <3>2, <4>1
      <4> QED BY <3>2, <4>2, <4>3
    <3>3. CASE i # n /\ i = 0
      <4>1. i \in 0..(n - 1)
        BY <2>1, <3>3
      <4>2. f[i] = s
        BY <2>2, <3>3, <4>1
      <4> QED BY <2>3, <3>3, <4>2
    <3> QED BY <3>1, <3>2, <3>3
  <2>5. Turns(g, n)
    BY <2>3, <2>4
  <2> HIDE DEF Turns
  <2> QED BY <2>1, <2>5
<1>3. Len(msg) \in 0..Len(msg)
  OBVIOUS
<1>4. 0..Len(msg) \subseteq Some
  <2> HIDE DEF Some
  <2> QED BY <1>1, <1>2, UpTo
<1>5. \E f : Turns(f, Len(msg))
  BY <1>3, <1>4
<1>6. Turns(CHOOSE f : Turns(f, Len(msg)), Len(msg))
  <2> HIDE DEF Turns
  <2> QED BY <1>5
<1>7. Printing(s, msg) = CHOOSE f : Turns(f, Len(msg))
  BY DEF Printing
<1> QED BY <1>6, <1>7

\* A whole text: every turn starts near the screen and, but for the first, on it.
LEMMA PrintLands ==
    ASSUME NEW s, NearScreen(s), NEW msg, Len(msg) \in Nat
    PROVE  /\ \A i \in 0..Len(msg) : NearScreen(Printing(s, msg)[i])
           /\ Len(msg) > 0 => OnScreen(print(s, msg))
<1>1. PICK f : f = Printing(s, msg)
  OBVIOUS
<1>2. f = [i \in 0..Len(msg) |-> IF i = 0 THEN s ELSE PrintChar(f[i - 1], msg[i])]
  BY <1>1, PrintingTurns
<1> DEFINE T == {i \in 0..Len(msg) : NearScreen(f[i]) /\ (i > 0 => OnScreen(f[i]))}
<1>3. 0 \in T
  BY <1>2
<1>4. ASSUME NEW i \in 1..Len(msg), i - 1 \in T
      PROVE  i \in T
  <2>1. i \in 0..Len(msg) /\ i # 0
    OBVIOUS
  <2>2. f[i] = PrintChar(f[i - 1], msg[i])
    BY <1>2, <2>1
  <2>3. OnScreen(f[i])
    BY <1>4, <2>2, PrintCharLands
  <2> QED BY <2>1, <2>3, OnScreenIsNear
<1>5. 0..Len(msg) \subseteq T
  <2> HIDE DEF T
  <2> QED BY <1>3, <1>4, UpTo
<1>6. Len(msg) \in 0..Len(msg)
  OBVIOUS
<1>7. Len(msg) \in T
  BY <1>5, <1>6
<1> QED BY <1>1, <1>5, <1>7 DEF print

\* The history variable reach stays below a bound that all cells written are below.
LEMMA HighestBelow ==
    ASSUME NEW W, NEW M \in Nat, reach \in Nat, reach < M, \A k \in W : k \in Nat /\ k < M
    PROVE  Highest(W) \in Nat /\ Highest(W) < M
<1> DEFINE B == (W \ Cells) \cup {reach}
           U == {n \in Nat : \A k \in B : k <= n}
<1>1. \A k \in B : k \in Nat /\ k < M
  OBVIOUS
<1>2. M \in U /\ U \subseteq Nat
  BY <1>1
<1>3. PICK m \in U : \A k \in U : m <= k
  <2> HIDE DEF U
  <2> QED BY <1>2, LeastNatural
<1>4. m \in B
  <2>1. CASE m = 0
    BY <1>3, <2>1
  <2>2. CASE m # 0 /\ m \notin B
    <3>1. PICK q \in Nat : q = m - 1 /\ ~(m <= q)
      BY <1>3, <2>2
    <3>2. \A k \in B : k <= q
      BY <1>1, <1>3, <2>2, <3>1
    <3> QED BY <1>3, <3>1, <3>2
  <2> QED BY <2>1, <2>2
<1>5. \A k \in B : k <= m
  BY <1>3
<1>6. Highest(W) = CHOOSE x \in B : \A k \in B : k <= x
  BY DEF Highest
<1> HIDE DEF B, U
<1>7. Highest(W) \in B
  BY <1>4, <1>5, <1>6
<1> QED BY <1>1, <1>7

-----------------------------------------------------------------------------
(* The two users of the cursor.                                            *)

\* Where the cursor may be, for each statement of kernel_main's print, and what it has
\* loaded: whenever an interrupt has printed, the cursor is on the screen.
CursorInv ==
    /\ NearScreen(scr)
    /\ pc \in {"next", "hlt", "write", "load_col", "store_col", "load_row", "store_row"}
          => InScreen(scr)
    /\ pc = "wrap" => scr.row < MAX_ROWS
    /\ pc \in {"clear_col", "scroll"} => scr.col < MAX_COLS
    /\ pc \in {"next", "hlt", "write", "load_col", "store_col", "load_row", "store_row",
               "wrap", "clear_col", "scroll"}
    /\ t \in Nat /\ offset \in Nat
    /\ pc = "store_col" => t < MAX_COLS
    /\ pc = "store_row" => t < MAX_ROWS
    /\ offset < (MAX_ROWS + 1) * MAX_COLS
    /\ reach \in Nat /\ WritesNearScreen

LEMMA AreaNat == (MAX_ROWS + 1) * MAX_COLS \in Nat \ {0}
<1>1. MAX_ROWS \in Nat /\ MAX_COLS \in Nat \ {0}
  BY ScreenAssumption
<1>2. MAX_ROWS * MAX_COLS \in Nat /\ (MAX_ROWS + 1) * MAX_COLS = MAX_ROWS * MAX_COLS + MAX_COLS
  BY <1>1, RowsInOrder
<1> QED BY <1>1, <1>2

\* A text, as the loop of print needs it.
IsText(msg) == Len(msg) \in Nat /\ Len(msg) > 0 /\ DOMAIN msg = 1..Len(msg)

\* The interrupt prints a text of at least one character.
LEMMA ShowsKeepsCursor ==
    ASSUME CursorInv, NEW s, NearScreen(s), NEW msg, IsText(msg),
           Shows(s, msg), UNCHANGED main
    PROVE  CursorInv'
<1>1. OnScreen(scr')
  BY PrintLands DEF Shows, IsText
<1>2. NearScreen(scr') /\ InScreen(scr')
  BY <1>1, OnScreenIsNear DEF OnScreen
<1>3. ASSUME NEW k \in CellsWritten(s, msg)
      PROVE  k \in Nat /\ k < (MAX_ROWS + 1) * MAX_COLS
  <2>1. PICK i \in DOMAIN msg : k = Offset(Printing(s, msg)[i - 1])
    BY <1>3 DEF CellsWritten
  <2>2. i - 1 \in 0..Len(msg) /\ Len(msg) \in Nat
    BY DEF IsText
  <2>3. NearScreen(Printing(s, msg)[i - 1])
    BY <2>2, PrintLands
  <2> QED BY <2>1, <2>3, NearOffset
<1>4. reach' \in Nat /\ reach' < (MAX_ROWS + 1) * MAX_COLS
  BY <1>3, AreaNat, HighestBelow DEF Shows, CursorInv, WritesNearScreen
<1>5. scr'.row < MAX_ROWS /\ scr'.col < MAX_COLS
  <2>1. MAX_ROWS \in Nat /\ MAX_COLS \in Nat
    BY ScreenAssumption
  <2> QED BY <1>2, <2>1 DEF InScreen
<1>6. pc' = pc /\ t' = t /\ offset' = offset
  BY DEF main
<1> QED BY <1>2, <1>4, <1>5, <1>6 DEF CursorInv, WritesNearScreen

LEMMA CursorInit == ConsoleInit => CursorInv
<1> SUFFICES ASSUME ConsoleInit PROVE CursorInv
  OBVIOUS
<1>1. OnScreen(clear_screen)
  BY ScreenAssumption DEF clear_screen, OnScreen, IsScreen, InScreen
<1>2. NearScreen(scr) /\ InScreen(scr)
  BY <1>1, OnScreenIsNear DEF ConsoleInit, OnScreen
<1> QED BY <1>2, AreaNat DEF ConsoleInit, CursorInv, WritesNearScreen

\* A statement of kernel_main's print.
LEMMA MainKeepsCursor ==
    ASSUME CursorInv, MainStep
    PROVE  CursorInv'
<1>0. MAX_ROWS \in Nat \ {0} /\ MAX_COLS \in Nat \ {0}
  BY ScreenAssumption
<1>1. IsScreen(scr) /\ scr.row \in Nat /\ scr.col \in Nat
  BY DEF CursorInv, NearScreen, IsScreen
<1>2. CASE next_char
  <2>1. Offset(scr) \in Nat /\ Offset(scr) < (MAX_ROWS + 1) * MAX_COLS
    BY NearOffset DEF CursorInv
  <2>2. offset' \in Nat /\ offset' < (MAX_ROWS + 1) * MAX_COLS
    BY <1>2, <2>1, AreaNat DEF next_char
  <2>3. pc = "next" /\ pc' \in {"load_row", "write"} /\ UNCHANGED <<scr, t, reach>>
    BY <1>2 DEF next_char
  <2> QED BY <2>2, <2>3 DEF CursorInv, WritesNearScreen
<1>3. CASE hlt
  BY <1>3 DEF hlt, CursorInv, WritesNearScreen
<1>4. CASE write_cell
  <2>1. PICK f : f = [scr.cells EXCEPT ![offset] = c]
    OBVIOUS
  <2>2. scr' = [scr EXCEPT !.cells = f]
    BY <1>4, <2>1 DEF write_cell
  <2>3. IsScreen(scr') /\ scr'.row = scr.row /\ scr'.col = scr.col
    BY <1>1, <2>2 DEF IsScreen
  <2>4. reach' \in Nat /\ reach' < (MAX_ROWS + 1) * MAX_COLS
    BY <1>4, AreaNat, HighestBelow DEF write_cell, CursorInv, WritesNearScreen
  <2>5. pc = "write" /\ pc' = "load_col" /\ offset' = 0 /\ t' = t
    BY <1>4 DEF write_cell
  <2>6. InScreen(scr') /\ NearScreen(scr')
    BY <2>3, <2>5 DEF CursorInv, NearScreen, InScreen
  <2> QED BY <2>4, <2>5, <2>6, AreaNat DEF CursorInv, WritesNearScreen
<1>5. CASE load_col
  <2>1. scr.col < MAX_COLS
    BY <1>0, <1>1, <1>5 DEF load_col, CursorInv, InScreen
  <2> QED BY <1>1, <1>5, <2>1 DEF load_col, CursorInv, WritesNearScreen
<1>6. CASE store_col
  <2>1. PICK k \in Nat : k = t + 1 /\ k <= MAX_COLS
    BY <1>0, <1>6 DEF store_col, CursorInv
  <2>2. scr' = [scr EXCEPT !.col = k]
    BY <1>6, <2>1 DEF store_col
  <2>3. IsScreen(scr') /\ scr'.row = scr.row /\ scr'.col = k
    BY <1>1, <2>2 DEF IsScreen
  <2>4. scr.row < MAX_ROWS
    BY <1>0, <1>1, <1>6 DEF store_col, CursorInv, InScreen
  <2>5. pc' = "wrap" /\ t' = 0 /\ UNCHANGED <<offset, reach>>
    BY <1>6 DEF store_col
  <2>6. NearScreen(scr')
    BY <1>0, <1>1, <2>1, <2>3, <2>4 DEF NearScreen
  <2> QED BY <2>3, <2>4, <2>5, <2>6 DEF CursorInv, WritesNearScreen
<1>7. CASE wrap
  <2>1. pc = "wrap" /\ scr.row < MAX_ROWS /\ UNCHANGED <<offset, t, reach>>
    BY <1>7 DEF wrap, CursorInv
  <2>2. CASE scr.col >= MAX_COLS
    <3>1. scr' = [scr EXCEPT !.col = 0] /\ pc' = "load_row"
      BY <1>7, <2>2 DEF wrap
    <3>2. IsScreen(scr') /\ scr'.row = scr.row /\ scr'.col = 0
      BY <1>1, <3>1 DEF IsScreen
    <3>3. NearScreen(scr') /\ InScreen(scr')
      BY <1>0, <1>1, <2>1, <3>2 DEF NearScreen, InScreen
    <3> QED BY <2>1, <3>1, <3>3 DEF CursorInv, WritesNearScreen
  <2>3. CASE ~(scr.col >= MAX_COLS)
    <3>1. scr' = scr /\ pc' = "scroll"
      BY <1>7, <2>3 DEF wrap
    <3>2. scr.col < MAX_COLS
      BY <1>0, <1>1, <2>3
    <3> QED BY <2>1, <3>1, <3>2 DEF CursorInv, WritesNearScreen
  <2> QED BY <2>2, <2>3
<1>8. CASE load_row
  <2>1. scr.row < MAX_ROWS
    BY <1>0, <1>1, <1>8 DEF load_row, CursorInv, InScreen
  <2> QED BY <1>1, <1>8, <2>1 DEF load_row, CursorInv, WritesNearScreen
<1>9. CASE store_row
  <2>1. PICK r \in Nat : r = t + 1 /\ r <= MAX_ROWS
    BY <1>0, <1>9 DEF store_row, CursorInv
  <2>2. scr' = [scr EXCEPT !.row = r]
    BY <1>9, <2>1 DEF store_row
  <2>3. IsScreen(scr') /\ scr'.row = r /\ scr'.col = scr.col
    BY <1>1, <2>2 DEF IsScreen
  <2>4. scr.col < MAX_COLS
    BY <1>0, <1>1, <1>9 DEF store_row, CursorInv, InScreen
  <2>5. pc' \in {"clear_col", "scroll"} /\ t' = 0 /\ UNCHANGED <<offset, reach>>
    BY <1>9 DEF store_row
  <2>6. NearScreen(scr')
    BY <1>0, <1>1, <2>1, <2>3, <2>4 DEF NearScreen
  <2> QED BY <2>3, <2>4, <2>5, <2>6 DEF CursorInv, WritesNearScreen
<1>10. CASE clear_col
  <2>1. scr' = [scr EXCEPT !.col = 0] /\ pc' = "scroll" /\ UNCHANGED <<offset, t, reach>>
    BY <1>10 DEF clear_col
  <2>2. IsScreen(scr') /\ scr'.row = scr.row /\ scr'.col = 0
    BY <1>1, <2>1 DEF IsScreen
  <2>3. NearScreen(scr')
    BY <1>0, <2>2 DEF NearScreen, CursorInv
  <2> QED BY <1>0, <2>1, <2>2, <2>3 DEF CursorInv, WritesNearScreen
<1>11. CASE scroll
  <2>1. scr' = Scrolled(scr) /\ pc' = "next" /\ scr.col < MAX_COLS /\ UNCHANGED <<offset, t, reach>>
    BY <1>11 DEF scroll, CursorInv
  <2>2. OnScreen(scr')
    BY <1>1, <2>1, ScrolledLands
  <2> QED BY <2>1, <2>2, OnScreenIsNear DEF CursorInv, WritesNearScreen, OnScreen
<1> QED BY <1>2, <1>3, <1>4, <1>5, <1>6, <1>7, <1>8, <1>9, <1>10, <1>11 DEF MainStep

LEMMA TextsOfEnter ==
    ASSUME NEW a \in Seq(STRING), NEW b \in Seq(STRING)
    PROVE  /\ IsText(<<NEWLINE>> \o a)
           /\ IsText(<<NEWLINE>> \o a \o <<NEWLINE>> \o b)
<1> DEFINE S == STRING \cup {NEWLINE}
<1>1. a \in Seq(S) /\ b \in Seq(S)
  OBVIOUS
<1>2. NEWLINE \in S
  OBVIOUS
<1> HIDE DEF S
<1>a. PICK z : z = NEWLINE
  OBVIOUS
<1>b. <<z>> \in Seq(S) /\ Len(<<z>>) = 1
  BY <1>2, <1>a
<1>3. PICK x \in Seq(S) : x = <<NEWLINE>> /\ Len(x) = 1
  BY <1>a, <1>b
<1>4. x \o a \in Seq(S) /\ Len(x \o a) = 1 + Len(a) /\ Len(a) \in Nat
  BY <1>1, <1>3
<1>5. x \o a \o x \in Seq(S) /\ Len(x \o a \o x) = Len(x \o a) + 1
  BY <1>3, <1>4
<1>6. x \o a \o x \o b \in Seq(S) /\ Len(x \o a \o x \o b) = Len(x \o a \o x) + Len(b)
      /\ Len(b) \in Nat
  BY <1>1, <1>5
<1>7. \A y \in Seq(S) : Len(y) \in Nat /\ DOMAIN y = 1..Len(y)
  OBVIOUS
<1>8. IsText(x \o a) /\ IsText(x \o a \o x \o b)
  BY <1>4, <1>5, <1>6, <1>7 DEF IsText
<1> QED BY <1>3, <1>8


\* A key of the keyboard interrupt, or a step of kernel_main.
LEMMA NextKeepsCursor ==
    ASSUME CursorInv, Next
    PROVE  CursorInv'
<1>0. NearScreen(scr) /\ NearScreen(clear_screen)
  <2>1. OnScreen(clear_screen)
    BY ScreenAssumption DEF clear_screen, OnScreen, IsScreen, InScreen
  <2> QED BY <2>1, OnScreenIsNear DEF CursorInv
<1>1. CASE UNCHANGED <<scr, reach, main>>
  BY <1>1 DEF CursorInv, WritesNearScreen, main
<1>2. CASE MainStep
  BY <1>2, MainKeepsCursor
<1>3. CASE shift_down \/ shift_up \/ caps_lock
  BY <1>1, <1>3 DEF shift_down, shift_up, caps_lock, Pressed
<1>4. ASSUME NEW k \in Letters \cup {BLANK}, key_char(k)
      PROVE  CursorInv'
  <2>1. UNCHANGED main
    BY <1>4 DEF key_char, Pressed
  <2>2. CASE RoomFor
    <3>1. PICK x : x = Ascii(k)
      OBVIOUS
    <3>2. IsText(<<x>>)
      BY DEF IsText
    <3>3. Shows(scr, <<x>>)
      BY <1>4, <2>2, <3>1 DEF key_char
    <3> QED BY <1>0, <2>1, <3>2, <3>3, ShowsKeepsCursor
  <2>3. CASE ~RoomFor
    BY <1>1, <1>4, <2>1, <2>3 DEF key_char
  <2> QED BY <2>2, <2>3
<1>5. CASE key_backspace
  <2>1. UNCHANGED main
    BY <1>5 DEF key_backspace, Pressed
  <2>2. CASE buffer_index > 0
    <3>1. IsText(<<BACKSPACE, BLANK, BACKSPACE>>)
      BY DEF IsText
    <3>2. Shows(scr, <<BACKSPACE, BLANK, BACKSPACE>>)
      BY <1>5, <2>2 DEF key_backspace
    <3> QED BY <1>0, <2>1, <3>1, <3>2, ShowsKeepsCursor
  <2>3. CASE ~(buffer_index > 0)
    BY <1>1, <1>5, <2>1, <2>3 DEF key_backspace
  <2> QED BY <2>2, <2>3
<1>6. ASSUME NEW out \in Outputs, NEW clear \in BOOLEAN, key_enter(out, clear)
      PROVE  CursorInv'
  <2>1. UNCHANGED main
    BY <1>6 DEF key_enter, Pressed
  <2>2. out \in Seq(STRING) /\ PROMPT \in Seq(STRING)
    BY KeyboardAssumption
  <2>3. CASE clear
    <3>1. Shows(clear_screen, <<NEWLINE>> \o PROMPT)
      BY <1>6, <2>3 DEF key_enter
    <3>2. IsText(<<NEWLINE>> \o PROMPT)
      BY <2>2, TextsOfEnter
    <3> QED BY <1>0, <2>1, <3>1, <3>2, ShowsKeepsCursor
  <2>4. CASE ~clear
    <3>1. Shows(scr, <<NEWLINE>> \o out \o <<NEWLINE>> \o PROMPT)
      BY <1>6, <2>4 DEF key_enter
    <3>2. IsText(<<NEWLINE>> \o out \o <<NEWLINE>> \o PROMPT)
      BY <2>2, TextsOfEnter
    <3> QED BY <1>0, <2>1, <3>1, <3>2, ShowsKeepsCursor
  <2> QED BY <2>3, <2>4
<1>7. ASSUME NEW out \in Outputs, key_enter_run_fails(out)
      PROVE  CursorInv'
  <2>1. UNCHANGED main /\ Shows(scr, <<NEWLINE>> \o out)
    BY <1>7 DEF key_enter_run_fails, Pressed
  <2>2. out \in Seq(STRING)
    BY KeyboardAssumption
  <2>3. IsText(<<NEWLINE>> \o out)
    BY <2>2, TextsOfEnter
  <2> QED BY <1>0, <2>1, <2>3, ShowsKeepsCursor
<1> QED BY <1>2, <1>3, <1>4, <1>5, <1>6, <1>7 DEF Next

LEMMA CursorInvariant == Spec => []CursorInv
<1>1. Init => CursorInv
  BY CursorInit DEF Init
<1>2. CursorInv /\ [Next]_vars => CursorInv'
  <2>1. CASE UNCHANGED vars
    BY <2>1 DEF vars, main, CursorInv, WritesNearScreen
  <2> QED BY <2>1, NextKeepsCursor
<1> QED BY <1>1, <1>2, PTL DEF Spec

\* Each character that kernel_main prints ends with the cursor on the screen, whatever
\* the interrupts print in between: the read-modify-writes of cursor_row and cursor_col
\* in src/screen.c may lose an update but never let the cursor drift away.
THEOREM CursorRecoversThm == Spec => []CursorRecovers
<1>1. CursorInv => CursorRecovers
  BY DEF CursorInv, CursorRecovers
<1> QED BY <1>1, CursorInvariant, PTL

\* No print writes video memory past the row below the screen, for every interleaving of
\* kernel_main's print with the keyboard interrupt.
THEOREM WritesNearScreenThm == Spec => []WritesNearScreen
<1>1. CursorInv => WritesNearScreen
  BY DEF CursorInv
<1> QED BY <1>1, CursorInvariant, PTL


-----------------------------------------------------------------------------
(* The line.                                                               *)

Index == 0..(BUFFER_SIZE - 1)
Chars == Letters \cup {Upper[k] : k \in Letters} \cup {BLANK, NUL}

\* A buffer whose bytes from n on are NUL.
EndsAt(b, n) == b \in [Index -> Chars] /\ n \in Index /\ \A j \in n..(BUFFER_SIZE - 1) : b[j] = NUL

BufferInv == EndsAt(input_buffer, buffer_index)

\* The blanks that the parser skips end at the end mark or before it.
LEMMA SkipBlanksStops ==
    ASSUME NEW b, NEW n \in Index, NEW i \in 0..n, b[n] # BLANK
    PROVE  LET s == SkipBlanks(b, i)
           IN  s \in i..n /\ b[s] # BLANK /\ \A k \in i..(s - 1) : b[k] = BLANK
<1> DEFINE T == {j \in i..n : b[j] # BLANK}
           P(j) == b[j] # BLANK /\ \A k \in i..(j - 1) : b[k] = BLANK
<1>0. BUFFER_SIZE \in Nat /\ n \in Nat /\ n <= BUFFER_SIZE - 1 /\ i \in Nat /\ i <= n
  BY KeyboardAssumption DEF Index
<1>1. n \in T /\ T \subseteq Nat
  BY <1>0
<1>2. PICK m \in T : \A k \in T : m <= k
  <2> HIDE DEF T
  <2> QED BY <1>1, LeastNatural
<1>3. ASSUME NEW k \in i..(m - 1) PROVE b[k] = BLANK
  <2>1. k \in i..n /\ ~(m <= k)
    BY <1>0, <1>2
  <2> QED BY <1>2, <2>1
<1>4. m \in i..(BUFFER_SIZE - 1) /\ P(m)
  BY <1>0, <1>2, <1>3
<1>5. SkipBlanks(b, i) = CHOOSE j \in i..(BUFFER_SIZE - 1) : P(j)
  BY DEF SkipBlanks
<1>6. PICK s : s = SkipBlanks(b, i)
  OBVIOUS
<1>7. s \in i..(BUFFER_SIZE - 1) /\ P(s)
  <2> HIDE DEF P
  <2> QED BY <1>4, <1>5, <1>6
<1>8. s <= n
  <2>1. CASE n < s
    <3>1. n \in i..(s - 1)
      BY <1>0, <1>7, <2>1
    <3> QED BY <1>7, <3>1
  <2> QED BY <1>0, <1>7, <2>1
<1>9. s \in i..n
  BY <1>0, <1>7, <1>8
<1> QED BY <1>6, <1>7, <1>9

\* So does the token that it takes.
LEMMA TokenEndStops ==
    ASSUME NEW b, NEW n \in Index, NEW i \in 0..n, b[n] = NUL
    PROVE  LET e == TokenEnd(b, i)
           IN  e \in i..n /\ b[e] \in {NUL, BLANK} /\ \A k \in i..(e - 1) : b[k] \notin {NUL, BLANK}
<1> DEFINE T == {j \in i..n : b[j] \in {NUL, BLANK}}
           P(j) == b[j] \in {NUL, BLANK} /\ \A k \in i..(j - 1) : b[k] \notin {NUL, BLANK}
<1>0. BUFFER_SIZE \in Nat /\ n \in Nat /\ n <= BUFFER_SIZE - 1 /\ i \in Nat /\ i <= n
  BY KeyboardAssumption DEF Index
<1>1. n \in T /\ T \subseteq Nat
  BY <1>0
<1>2. PICK m \in T : \A k \in T : m <= k
  <2> HIDE DEF T
  <2> QED BY <1>1, LeastNatural
<1>3. ASSUME NEW k \in i..(m - 1) PROVE b[k] \notin {NUL, BLANK}
  <2>1. k \in i..n /\ ~(m <= k)
    BY <1>0, <1>2
  <2> QED BY <1>2, <2>1
<1>4. m \in i..(BUFFER_SIZE - 1) /\ P(m)
  BY <1>0, <1>2, <1>3
<1>5. TokenEnd(b, i) = CHOOSE j \in i..(BUFFER_SIZE - 1) : P(j)
  BY DEF TokenEnd
<1>6. PICK e : e = TokenEnd(b, i)
  OBVIOUS
<1>7. e \in i..(BUFFER_SIZE - 1) /\ P(e)
  <2> HIDE DEF P
  <2> QED BY <1>4, <1>5, <1>6
<1>8. e <= n
  <2>1. CASE n < e
    <3>1. n \in i..(e - 1)
      BY <1>0, <1>7, <2>1
    <3> QED BY <1>7, <3>1
  <2> QED BY <1>0, <1>7, <2>1
<1>9. e \in i..n
  BY <1>0, <1>7, <1>8
<1> QED BY <1>6, <1>7, <1>9

\* The loop of the parser: the states after each turn exist, and follow from one another.
LEMMA TokeniseTurns ==
    ASSUME NEW b
    PROVE  \E f : /\ f = [n \in 0..MAX_ARGS |->
                            IF n = 0 THEN [i |-> 0, b |-> b, argv |-> <<>>] ELSE Turn(f[n - 1])]
                  /\ Tokenise(b) = f[MAX_ARGS]
<1> DEFINE p0 == [i |-> 0, b |-> b, argv |-> <<>>]
           Turns(f, n) == f = [m \in 0..n |-> IF m = 0 THEN p0 ELSE Turn(f[m - 1])]
           Some == {n \in Nat : \E f : Turns(f, n)}
<1>0. MAX_ARGS \in Nat
  BY KeyboardAssumption
<1> HIDE DEF p0
<1>1. 0 \in Some
  <2>1. PICK f : f = [m \in 0..0 |-> p0]
    OBVIOUS
  <2>2. [m \in 0..0 |-> p0] = [m \in 0..0 |-> IF m = 0 THEN p0 ELSE Turn(f[m - 1])]
    OBVIOUS
  <2>3. Turns(f, 0)
    BY <2>1, <2>2
  <2> QED BY <2>3
<1>2. ASSUME NEW n \in 1..MAX_ARGS, n - 1 \in Some
      PROVE  n \in Some
  <2>1. n \in Nat /\ n - 1 \in Nat /\ n # 0
    BY <1>0
  <2>2. PICK f : Turns(f, n - 1)
    BY <1>2
  <2>3. PICK g : g = [m \in 0..n |-> IF m = n THEN Turn(f[n - 1]) ELSE f[m]]
    OBVIOUS
  <2>4. ASSUME NEW m \in 0..n
        PROVE  g[m] = IF m = 0 THEN p0 ELSE Turn(g[m - 1])
    <3>1. CASE m = n
      <4>1. n - 1 \in 0..n /\ n - 1 # n /\ n \in 0..n
        BY <2>1
      <4>2. g[n - 1] = f[n - 1] /\ g[n] = Turn(f[n - 1])
        BY <2>3, <4>1
      <4> QED BY <2>1, <3>1, <4>2
    <3>2. CASE m # n /\ m # 0
      <4>1. m \in 0..(n - 1) /\ m - 1 \in 0..n /\ m - 1 # n
        BY <2>1, <3>2
      <4>2. g[m - 1] = f[m - 1] /\ g[m] = f[m]
        BY <2>3, <3>2, <4>1
      <4>3. f[m] = Turn(f[m - 1])
        BY <2>2, <3>2, <4>1
      <4> QED BY <3>2, <4>2, <4>3
    <3>3. CASE m # n /\ m = 0
      <4>1. m \in 0..(n - 1)
        BY <2>1, <3>3
      <4>2. f[m] = p0
        BY <2>2, <3>3, <4>1
      <4> QED BY <2>3, <3>3, <4>2
    <3> QED BY <3>1, <3>2, <3>3
  <2>5. Turns(g, n)
    BY <2>3, <2>4
  <2> HIDE DEF Turns
  <2> QED BY <2>1, <2>5
<1>3. MAX_ARGS \in 0..MAX_ARGS
  BY <1>0
<1>4. 0..MAX_ARGS \subseteq Some
  <2> HIDE DEF Some
  <2> QED BY <1>0, <1>1, <1>2, UpTo
<1>5. \E f : Turns(f, MAX_ARGS)
  BY <1>3, <1>4
<1>6. PICK f : f = CHOOSE g : Turns(g, MAX_ARGS)
  OBVIOUS
<1>7. Turns(f, MAX_ARGS)
  <2> HIDE DEF Turns
  <2> QED BY <1>5, <1>6
<1>8. Tokenise(b) = f[MAX_ARGS]
  BY <1>6 DEF Tokenise, p0
<1> QED BY <1>7, <1>8 DEF p0

\* What a turn keeps when the line ends at n: the position is not behind the end, and
\* the bytes from there on are NUL.
ParserInside(p, n) ==
    /\ p \in [i : 0..n, b : [Index -> Chars], argv : {p.argv}]
    /\ EndsAt(p.b, n)

LEMMA TurnInside ==
    ASSUME NEW n \in Index, NEW p, ParserInside(p, n)
    PROVE  ParserInside(Turn(p), n)
<1> DEFINE s == SkipBlanks(p.b, p.i)
           e == TokenEnd(p.b, s)
<1>0. BUFFER_SIZE \in Nat /\ n \in Nat /\ n \in n..(BUFFER_SIZE - 1) /\ p.i \in 0..n
      /\ p.b \in [Index -> Chars] /\ NUL \in Chars
  BY KeyboardAssumption DEF Index, ParserInside, Chars
<1>1. p.b[n] = NUL /\ NUL # BLANK
  BY <1>0 DEF ParserInside, EndsAt, NUL, BLANK
<1>2. s \in p.i..n
  BY <1>0, <1>1, SkipBlanksStops
<1>3. s \in 0..n
  BY <1>0, <1>2
<1> HIDE DEF s
<1>4. e \in s..n /\ p.b[e] \in {NUL, BLANK}
  BY <1>1, <1>3, TokenEndStops
<1>5. e \in 0..n
  BY <1>0, <1>3, <1>4
<1> HIDE DEF e
<1>6. CASE p.b[p.i] = NUL
  <2>1. Turn(p) = p
    BY <1>6 DEF Turn
  <2> QED BY <2>1
<1>7. CASE p.b[p.i] # NUL /\ p.b[s] = NUL
  <2>1. PICK q : q = [p EXCEPT !.i = s]
    OBVIOUS
  <2>2. Turn(p) = q
    BY <1>7, <2>1 DEF Turn, s
  <2>3. q \in [i : 0..n, b : [Index -> Chars], argv : {q.argv}] /\ q.b = p.b
    BY <1>3, <2>1 DEF ParserInside
  <2> QED BY <2>2, <2>3 DEF ParserInside
<1>8. CASE p.b[p.i] # NUL /\ p.b[s] # NUL
  <2>1. PICK k : k = IF p.b[e] = BLANK THEN e + 1 ELSE e
    OBVIOUS
  <2>2. k \in 0..n
    <3>1. CASE p.b[e] = BLANK
      <4>1. e # n
        BY <1>1, <3>1
      <4> QED BY <1>0, <1>5, <2>1, <3>1, <4>1
    <3>2. CASE p.b[e] # BLANK
      BY <1>5, <2>1, <3>2
    <3> QED BY <3>1, <3>2
  <2>3. PICK d : d = [p.b EXCEPT ![e] = NUL]
    OBVIOUS
  <2>4. d \in [Index -> Chars] /\ \A j \in Index : d[j] = IF j = e THEN NUL ELSE p.b[j]
    BY <1>0, <2>3
  <2>5. \A j \in n..(BUFFER_SIZE - 1) : j \in Index
    BY <1>0 DEF Index
  <2>6. EndsAt(d, n)
    BY <2>4, <2>5 DEF EndsAt, ParserInside
  <2>7. PICK a : a = Append(p.argv, [j \in 1..(e - s) |-> p.b[s + j - 1]])
    OBVIOUS
  <2>8. Turn(p) = [i |-> k, b |-> d, argv |-> a]
    BY <1>8, <2>1, <2>3, <2>7 DEF Turn, s, e
  <2> QED BY <2>2, <2>4, <2>6, <2>8 DEF ParserInside
<1> QED BY <1>6, <1>7, <1>8

\* The parser never leaves the line: the position ends at the end mark or before it, and
\* the bytes from the end mark on are still NUL.
LEMMA TokeniseInside ==
    ASSUME NEW b, NEW n, EndsAt(b, n)
    PROVE  ParserInside(Tokenise(b), n)
<1>0. n \in Index /\ BUFFER_SIZE \in Nat /\ MAX_ARGS \in Nat /\ 0 \in 0..n
  BY KeyboardAssumption DEF EndsAt, Index
<1>1. PICK f : /\ f = [m \in 0..MAX_ARGS |->
                         IF m = 0 THEN [i |-> 0, b |-> b, argv |-> <<>>] ELSE Turn(f[m - 1])]
               /\ Tokenise(b) = f[MAX_ARGS]
  BY TokeniseTurns
<1> DEFINE T == {m \in 0..MAX_ARGS : ParserInside(f[m], n)}
<1>2. 0 \in T
  <2>1. 0 \in 0..MAX_ARGS
    BY <1>0
  <2>2. f[0] = [i |-> 0, b |-> b, argv |-> <<>>]
    BY <1>1, <2>1
  <2>3. ParserInside([i |-> 0, b |-> b, argv |-> <<>>], n)
    BY <1>0 DEF ParserInside, EndsAt
  <2> QED BY <2>1, <2>2, <2>3
<1>3. ASSUME NEW m \in 1..MAX_ARGS, m - 1 \in T
      PROVE  m \in T
  <2>1. m \in 0..MAX_ARGS /\ m # 0
    BY <1>0
  <2>2. f[m] = Turn(f[m - 1])
    BY <1>1, <2>1
  <2>3. ParserInside(f[m], n)
    BY <1>0, <1>3, <2>2, TurnInside
  <2> QED BY <2>1, <2>3
<1>4. 0..MAX_ARGS \subseteq T
  <2> HIDE DEF T
  <2> QED BY <1>0, <1>2, <1>3, UpTo
<1>5. MAX_ARGS \in 0..MAX_ARGS
  BY <1>0
<1> QED BY <1>1, <1>4, <1>5

LEMMA BufferInit == Init => BufferInv
<1>1. BUFFER_SIZE \in Nat \ {0}
  BY KeyboardAssumption
<1>2. 0 \in Index /\ NUL \in Chars /\ \A j \in 0..(BUFFER_SIZE - 1) : j \in Index
  BY <1>1 DEF Index, Chars
<1> QED BY <1>2 DEF Init, BufferInv, EndsAt, Empty, Index

LEMMA NextKeepsBuffer ==
    ASSUME BufferInv, Next
    PROVE  BufferInv'
<1>0. /\ BUFFER_SIZE \in Nat \ {0} /\ buffer_index \in Nat /\ buffer_index \in Index
      /\ input_buffer \in [Index -> Chars] /\ NUL \in Chars
      /\ \A j \in buffer_index..(BUFFER_SIZE - 1) : input_buffer[j] = NUL
  <2>1. buffer_index \in Index /\ input_buffer \in [Index -> Chars]
        /\ \A j \in buffer_index..(BUFFER_SIZE - 1) : input_buffer[j] = NUL
    BY DEF BufferInv, EndsAt
  <2>2. BUFFER_SIZE \in Nat \ {0} /\ NUL \in Chars
    BY KeyboardAssumption DEF Chars
  <2>3. buffer_index \in Nat
    BY <2>1, <2>2 DEF Index
  <2> QED BY <2>1, <2>2, <2>3
<1>1. CASE UNCHANGED <<input_buffer, buffer_index>>
  BY <1>1 DEF BufferInv
<1>2. CASE MainStep /\ UNCHANGED <<input_buffer, buffer_index, shift_pressed, caps, stale, littered,
                                   typed>>
  BY <1>1, <1>2
<1>3. CASE shift_down \/ shift_up \/ caps_lock
  BY <1>1, <1>3 DEF shift_down, shift_up, caps_lock
<1>4. ASSUME NEW k \in Letters \cup {BLANK}, key_char(k)
      PROVE  BufferInv'
  <2>1. CASE RoomFor
    <3>1. PICK x \in Chars : x = Ascii(k)
      BY DEF Ascii, Chars
    <3>2. input_buffer' = [input_buffer EXCEPT ![buffer_index] = x] /\ buffer_index' = buffer_index + 1
      BY <1>4, <2>1, <3>1 DEF key_char
    <3>3. buffer_index' \in Index
      BY <1>0, <2>1, <3>2 DEF RoomFor, Index
    <3>4. ASSUME NEW j \in buffer_index'..(BUFFER_SIZE - 1)
          PROVE  input_buffer'[j] = NUL
      <4>1. j \in Index /\ j # buffer_index /\ j \in buffer_index..(BUFFER_SIZE - 1)
        BY <1>0, <3>2 DEF Index
      <4> QED BY <1>0, <3>2, <4>1
    <3>5. input_buffer' \in [Index -> Chars]
      BY <1>0, <3>2
    <3> QED BY <3>3, <3>4, <3>5 DEF BufferInv, EndsAt
  <2>2. CASE ~RoomFor
    BY <1>1, <1>4, <2>2 DEF key_char
  <2> QED BY <2>1, <2>2
<1>5. CASE key_backspace
  <2>1. CASE buffer_index > 0
    <3>1. PICK m \in Nat : m = buffer_index - 1
      BY <1>0, <2>1
    <3>2. input_buffer' = [input_buffer EXCEPT ![m] = NUL] /\ buffer_index' = m
      BY <1>5, <2>1, <3>1 DEF key_backspace
    <3>3. m \in Index
      BY <1>0, <3>1 DEF Index
    <3>4. ASSUME NEW j \in m..(BUFFER_SIZE - 1)
          PROVE  input_buffer'[j] = NUL
      <4>1. j \in Index /\ (j = m \/ j \in buffer_index..(BUFFER_SIZE - 1))
        BY <1>0, <3>1 DEF Index
      <4> QED BY <1>0, <3>2, <3>3, <4>1
    <3>5. input_buffer' \in [Index -> Chars]
      BY <1>0, <3>2
    <3> QED BY <3>2, <3>3, <3>4, <3>5 DEF BufferInv, EndsAt
  <2>2. CASE ~(buffer_index > 0)
    BY <1>1, <1>5, <2>2 DEF key_backspace
  <2> QED BY <2>1, <2>2
<1>6. ASSUME NEW out \in Outputs, NEW clear \in BOOLEAN, key_enter(out, clear)
      PROVE  BufferInv'
  <2>1. input_buffer' = Empty /\ buffer_index' = 0
    BY <1>6 DEF key_enter
  <2>2. 0 \in Index /\ \A j \in 0..(BUFFER_SIZE - 1) : j \in Index
    BY <1>0 DEF Index
  <2> QED BY <1>0, <2>1, <2>2 DEF BufferInv, EndsAt, Empty, Index
<1>7. ASSUME NEW out \in Outputs, key_enter_run_fails(out)
      PROVE  BufferInv'
  <2>1. PICK b : b = [input_buffer EXCEPT ![buffer_index] = NUL]
    OBVIOUS
  <2>2. input_buffer' = Tokenise(b).b /\ buffer_index' = buffer_index
    BY <1>7, <2>1 DEF key_enter_run_fails, Line
  <2>3. \A j \in buffer_index..(BUFFER_SIZE - 1) : j \in Index
    BY <1>0 DEF Index
  <2>4. EndsAt(b, buffer_index)
    BY <1>0, <2>1, <2>3 DEF EndsAt
  <2>5. ParserInside(Tokenise(b), buffer_index)
    BY <2>4, TokeniseInside
  <2> QED BY <2>2, <2>5 DEF ParserInside, BufferInv
<1> QED BY <1>2, <1>3, <1>4, <1>5, <1>6, <1>7 DEF Next

LEMMA BufferInvariant == Spec => []BufferInv
<1>1. BufferInv /\ [Next]_vars => BufferInv'
  <2>1. CASE UNCHANGED vars
    BY <2>1 DEF vars, BufferInv
  <2> QED BY <2>1, NextKeepsBuffer
<1> QED BY <1>1, BufferInit, PTL DEF Spec

\* The line always ends with a NUL inside input_buffer, whatever was typed, erased or
\* left behind by a run that failed, for every size of the buffer: the loops of
\* execute_command, which look for a NUL and nothing else, cannot leave it.
THEOREM TerminatedThm == Spec => []Terminated
<1>1. BufferInv => Terminated
  BY DEF BufferInv, EndsAt, Index, Terminated
<1> QED BY <1>1, BufferInvariant, PTL


-----------------------------------------------------------------------------
(* The arguments.                                                          *)

\* The text of b ends before its first NUL, which is at n.
TextEnds(b, n) ==
    /\ b \in [Index -> Chars] /\ n \in Index
    /\ b[n] = NUL /\ \A k \in 0..(n - 1) : b[k] # NUL

LEMMA LineLengthEnds ==
    ASSUME NEW b, NEW z, EndsAt(b, z)
    PROVE  TextEnds(b, LineLength(b))
<1> DEFINE T == {j \in 0..z : b[j] = NUL}
           P(j) == b[j] = NUL /\ \A k \in 0..(j - 1) : b[k] # NUL
<1>0. /\ BUFFER_SIZE \in Nat /\ z \in Nat /\ z <= BUFFER_SIZE - 1 /\ b[z] = NUL
      /\ b \in [Index -> Chars]
  BY KeyboardAssumption DEF EndsAt, Index
<1>1. z \in T /\ T \subseteq Nat
  BY <1>0
<1>2. PICK m \in T : \A k \in T : m <= k
  <2> HIDE DEF T
  <2> QED BY <1>1, LeastNatural
<1>3. ASSUME NEW k \in 0..(m - 1) PROVE b[k] # NUL
  <2>1. k \in 0..z /\ ~(m <= k)
    BY <1>0, <1>2
  <2> QED BY <1>2, <2>1
<1>4. m \in 0..(BUFFER_SIZE - 1) /\ P(m)
  BY <1>0, <1>2, <1>3
<1>5. LineLength(b) = CHOOSE j \in 0..(BUFFER_SIZE - 1) : P(j)
  BY DEF LineLength
<1>6. LineLength(b) \in 0..(BUFFER_SIZE - 1) /\ P(LineLength(b))
  <2> HIDE DEF P
  <2> QED BY <1>4, <1>5
<1> QED BY <1>0, <1>6 DEF TextEnds, Index

LEMMA StartsFinite ==
    ASSUME NEW b, NEW n \in Nat, NEW i
    PROVE  /\ Starts(b, n) \subseteq 0..(n - 1)
           /\ IsFiniteSet(Starts(b, n)) /\ Cardinality(Starts(b, n)) \in Nat
           /\ Before(b, n, i) \subseteq Starts(b, n)
           /\ IsFiniteSet(Before(b, n, i)) /\ Cardinality(Before(b, n, i)) \in Nat
           /\ Cardinality(Before(b, n, i)) <= Cardinality(Starts(b, n))
<1>1. Starts(b, n) \subseteq 0..(n - 1)
  BY DEF Starts
<1>2. IsFiniteSet(Starts(b, n))
  <2>1. PICK x \in Int : x = n - 1
    OBVIOUS
  <2>2. IsFiniteSet(0..x)
    BY FS_Interval
  <2> QED BY <1>1, <2>1, <2>2, FS_Subset
<1>3. Before(b, n, i) \subseteq Starts(b, n)
  BY DEF Before
<1>4. IsFiniteSet(Before(b, n, i)) /\ Cardinality(Before(b, n, i)) <= Cardinality(Starts(b, n))
  BY <1>2, <1>3, FS_Subset
<1> QED BY <1>1, <1>2, <1>3, <1>4, FS_CardinalityType

\* A word has more words before it than an earlier one.
LEMMA BeforeGrows ==
    ASSUME NEW b, NEW n \in Nat, NEW i \in Starts(b, n), NEW j \in Starts(b, n), i < j
    PROVE  Cardinality(Before(b, n, i)) < Cardinality(Before(b, n, j))
<1>1. i \in Nat /\ j \in Nat /\ Starts(b, n) \subseteq Nat
  BY StartsFinite
<1>2. PICK B, D : B = Before(b, n, i) /\ D = Before(b, n, j)
  OBVIOUS
<1>3. IsFiniteSet(B) /\ IsFiniteSet(D) /\ Cardinality(B) \in Nat /\ Cardinality(D) \in Nat
  BY <1>2, StartsFinite
<1>4. i \notin B /\ B \cup {i} \subseteq D
  BY <1>1, <1>2 DEF Before
<1>5. Cardinality(B \cup {i}) = Cardinality(B) + 1
  BY <1>3, <1>4, FS_AddElement
<1>6. Cardinality(B \cup {i}) <= Cardinality(D)
  BY <1>3, <1>4, FS_Subset
<1> QED BY <1>2, <1>3, <1>5, <1>6

\* The word that has k - 1 words before it is the k-th one.
LEMMA NthIs ==
    ASSUME NEW b, NEW n \in Nat, NEW s \in Starts(b, n), NEW k,
           Cardinality(Before(b, n, s)) = k - 1
    PROVE  Nth(b, n, k) = s
<1> DEFINE P(i) == Cardinality(Before(b, n, i)) = k - 1
<1>1. ASSUME NEW i \in Starts(b, n), P(i) PROVE i = s
  <2>1. i \in Nat /\ s \in Nat
    BY StartsFinite
  <2>2. Cardinality(Before(b, n, i)) \in Nat /\ Cardinality(Before(b, n, s)) \in Nat
    BY StartsFinite
  <2>3. ~(i < s) /\ ~(s < i)
    BY <1>1, <2>2, BeforeGrows
  <2> QED BY <2>1, <2>3
<1>2. P(s) /\ Nth(b, n, k) = CHOOSE i \in Starts(b, n) : P(i)
  BY DEF Nth
<1> HIDE DEF P
<1> QED BY <1>1, <1>2

\* The first num words.
FirstWords(b, n, num) == [k \in 1..num |-> Word(b, n, Nth(b, n, k))]

LEMMA OneMoreWord ==
    ASSUME NEW b, NEW n, NEW num \in Nat
    PROVE  /\ Append(FirstWords(b, n, num), Word(b, n, Nth(b, n, num + 1))) = FirstWords(b, n, num + 1)
<1>1. PICK g : g = FirstWords(b, n, num + 1)
  OBVIOUS
<1>2. PICK s, S : s = FirstWords(b, n, num) /\ S = {g[k] : k \in 1..(num + 1)}
  OBVIOUS
<1>3. DOMAIN g = 1..(num + 1) /\ g = [k \in 1..(num + 1) |-> g[k]]
      /\ \A k \in 1..(num + 1) : g[k] = Word(b, n, Nth(b, n, k))
  BY <1>1 DEF FirstWords
<1>4. DOMAIN s = 1..num /\ s = [k \in 1..num |-> s[k]] /\ \A k \in 1..num : s[k] = Word(b, n, Nth(b, n, k))
  BY <1>2 DEF FirstWords
<1>5. \A k \in 1..num : k \in 1..(num + 1) /\ s[k] = g[k] /\ g[k] \in S
  BY <1>2, <1>3, <1>4
<1>6. s \in [1..num -> S]
  BY <1>4, <1>5
<1>7. s \in Seq(S) /\ Len(s) = num
  BY <1>6
<1>8. num + 1 \in 1..(num + 1) /\ g[num + 1] = Word(b, n, Nth(b, n, num + 1))
  BY <1>3
<1>9. PICK a : a = Append(s, g[num + 1])
  OBVIOUS
<1>10. a = [k \in 1..(num + 1) |-> IF k = num + 1 THEN g[num + 1] ELSE s[k]]
  BY <1>7, <1>9
<1>11. \A k \in 1..(num + 1) : a[k] = g[k]
  BY <1>5, <1>10
<1>12. a = g
  BY <1>3, <1>10, <1>11
<1> QED BY <1>1, <1>2, <1>8, <1>9, <1>12

\* The parser after m turns on b, whose text has n characters: it stands between two words
\* or at the end, has not touched what follows, and has taken the words before.  If they are fewer
\* than m, it is at the end.
ParserAt(p, b, n, m) ==
    /\ p \in [i : 0..n, b : [Index -> Chars], argv : {p.argv}]
    /\ \A j \in p.i..(BUFFER_SIZE - 1) : p.b[j] = b[j]
    /\ p.i > 0 /\ p.i < n => ~InWord(b, n, p.i - 1)
    /\ p.argv = FirstWords(b, n, Cardinality(Before(b, n, p.i)))
    /\ Cardinality(Before(b, n, p.i)) <= m
    /\ Cardinality(Before(b, n, p.i)) # m => p.i = n

\* The token from s to e, found from i on, is the first word that starts at i or later.
LEMMA TokenIsWord ==
    ASSUME NEW b, NEW n, TextEnds(b, n), NEW i \in 0..n, NEW s \in i..n, NEW e \in s..n,
           i > 0 => ~InWord(b, n, i - 1),
           \A k \in i..(s - 1) : b[k] = BLANK,
           b[s] # BLANK, b[s] # NUL, b[e] \in {NUL, BLANK},
           \A k \in s..(e - 1) : b[k] \notin {NUL, BLANK}
    PROVE  /\ s \in Starts(b, n) /\ e > s /\ Before(b, n, s) = Before(b, n, i)
           /\ \A k \in Nat : k > s /\ (k = e \/ k = e + 1) =>
                 Before(b, n, k) = Before(b, n, i) \cup {s} /\ s \notin Before(b, n, i)
           /\ WordLength(b, n, s) = e - s
           /\ ~InWord(b, n, e)
<1>0. /\ n \in Nat /\ i \in Nat /\ s \in Nat /\ e \in Nat /\ i <= s /\ s <= e /\ e <= n
      /\ b[n] = NUL /\ \A k \in 0..(n - 1) : b[k] # NUL
  BY KeyboardAssumption DEF TextEnds, Index
<1>1. s < n /\ s < e
  <2>1. s # n /\ s # e
    BY <1>0
  <2> QED BY <1>0, <2>1
<1>2. \A k \in i..(s - 1) : ~InWord(b, n, k)
  BY DEF InWord
<1>3. \A k \in s..(e - 1) : InWord(b, n, k)
  BY <1>0 DEF InWord
<1>4. ~InWord(b, n, e)
  <2>1. CASE e < n
    BY <1>0, <2>1 DEF InWord
  <2>2. CASE e = n
    BY <1>0, <2>2 DEF InWord
  <2> QED BY <1>0, <2>1, <2>2
<1>5. s \in Starts(b, n)
  <2>1. s \in 0..(n - 1) /\ s \in s..(e - 1)
    BY <1>0, <1>1
  <2>2. ASSUME s > 0 PROVE ~InWord(b, n, s - 1)
    <3>1. CASE s = i
      BY <2>2, <3>1
    <3>2. CASE s # i
      <4>1. s - 1 \in i..(s - 1)
        BY <1>0, <3>2
      <4> QED BY <1>2, <4>1
    <3> QED BY <3>1, <3>2
  <2> QED BY <1>3, <2>1, <2>2 DEF Starts
<1>6. Starts(b, n) \subseteq Nat /\ \A j \in Starts(b, n) : InWord(b, n, j) /\ (j > 0 => ~InWord(b, n, j - 1))
  BY <1>0 DEF Starts
<1>7. \A j \in Starts(b, n) : j < i \/ s <= j
  <2>1. ASSUME NEW j \in Starts(b, n), ~(j < i), ~(s <= j) PROVE FALSE
    <3>1. j \in i..(s - 1)
      BY <1>0, <1>6, <2>1
    <3> QED BY <1>2, <1>6, <3>1
  <2> QED BY <2>1
<1>8. \A j \in Starts(b, n) : j <= s \/ e < j
  <2>1. ASSUME NEW j \in Starts(b, n), ~(j <= s), ~(e < j) PROVE FALSE
    <3>1. j # e /\ j > 0
      BY <1>0, <1>4, <1>6, <2>1
    <3>2. j - 1 \in s..(e - 1)
      BY <1>0, <1>6, <2>1, <3>1
    <3> QED BY <1>3, <1>6, <3>1, <3>2
  <2> QED BY <2>1
<1>9. Before(b, n, s) = Before(b, n, i) /\ s \notin Before(b, n, i)
  BY <1>0, <1>6, <1>7 DEF Before
<1>10. ASSUME NEW k \in Nat, k > s, k = e \/ k = e + 1
       PROVE  Before(b, n, k) = Before(b, n, i) \cup {s}
  BY <1>0, <1>5, <1>6, <1>7, <1>8, <1>10 DEF Before
<1>11. WordLength(b, n, s) = e - s
  <2>1. {j \in s..n : \A k \in s..j : InWord(b, n, k)} = s..(e - 1)
    <3>1. ASSUME NEW j \in s..n PROVE (\A k \in s..j : InWord(b, n, k)) <=> j \in s..(e - 1)
      <4>1. CASE j \in s..(e - 1)
        <5>1. \A k \in s..j : k \in s..(e - 1)
          BY <1>0, <4>1
        <5> QED BY <1>3, <4>1, <5>1
      <4>2. CASE j \notin s..(e - 1)
        <5>1. e \in s..j
          BY <1>0, <4>2
        <5> QED BY <1>4, <4>2, <5>1
      <4> QED BY <4>1, <4>2
    <3>2. s..(e - 1) \subseteq s..n
      BY <1>0
    <3> QED BY <3>1, <3>2
  <2>2. PICK x \in Int : x = e - 1 /\ ~(s > x)
    BY <1>0, <1>1
  <2>3. Cardinality(s..x) = IF s > x THEN 0 ELSE x - s + 1
    BY <1>0, FS_Interval
  <2>4. Cardinality(s..x) = e - s
    BY <1>0, <2>2, <2>3
  <2>5. WordLength(b, n, s) = Cardinality(s..x)
    BY <2>1, <2>2 DEF WordLength
  <2> QED BY <2>4, <2>5
<1> QED BY <1>1, <1>4, <1>5, <1>9, <1>10, <1>11

\* A turn takes the next word, or comes to the end.
LEMMA TurnSplits ==
    ASSUME NEW b, NEW n, TextEnds(b, n), NEW m \in Nat, NEW p, ParserAt(p, b, n, m)
    PROVE  ParserAt(Turn(p), b, n, m + 1)
<1>0. /\ n \in Nat /\ n \in Index /\ BUFFER_SIZE \in Nat /\ n <= BUFFER_SIZE - 1
      /\ b[n] = NUL /\ NUL # BLANK /\ NUL \in Chars
      /\ \A k \in 0..(n - 1) : b[k] # NUL
  <2>1. BUFFER_SIZE \in Nat /\ n \in 0..(BUFFER_SIZE - 1)
    BY KeyboardAssumption DEF TextEnds, Index
  <2>2. n \in Nat /\ n <= BUFFER_SIZE - 1
    BY <2>1
  <2>3. NUL # BLANK /\ NUL \in Chars
    BY DEF NUL, BLANK, Chars
  <2> QED BY <2>1, <2>2, <2>3 DEF TextEnds
<1>1. PICK i, d, v, num : i = p.i /\ d = p.b /\ v = p.argv /\ num = Cardinality(Before(b, n, i))
  OBVIOUS
<1>2. /\ i \in 0..n /\ i \in Nat /\ i <= n /\ d \in [Index -> Chars]
      /\ p = [i |-> i, b |-> d, argv |-> v]
      /\ \A j \in i..(BUFFER_SIZE - 1) : d[j] = b[j]
      /\ i > 0 /\ i < n => ~InWord(b, n, i - 1)
      /\ v = FirstWords(b, n, num) /\ num <= m /\ (num # m => i = n)
      /\ num \in Nat
  <2>1. p \in [i : 0..n, b : [Index -> Chars], argv : {p.argv}]
    BY DEF ParserAt
  <2>2. num \in Nat
    BY <1>0, <1>1, StartsFinite
  <2>3. i \in 0..n /\ d \in [Index -> Chars] /\ p = [i |-> i, b |-> d, argv |-> v]
    BY <1>1, <2>1
  <2> QED BY <1>0, <1>1, <2>2, <2>3 DEF ParserAt
<1>3. d[i] = b[i] /\ d[n] = NUL
  BY <1>0, <1>2
<1>4. CASE d[i] = NUL
  <2>1. Turn(p) = p
    BY <1>1, <1>4 DEF Turn
  <2>2. i = n
    BY <1>0, <1>2, <1>3, <1>4
  <2>3. num <= m + 1
    BY <1>2
  <2> QED BY <1>1, <2>1, <2>2, <2>3 DEF ParserAt
<1>5. CASE d[i] # NUL
  <2>1. PICK s : s = SkipBlanks(d, i)
    OBVIOUS
  <2>2. s \in i..n /\ d[s] # BLANK /\ \A k \in i..(s - 1) : d[k] = BLANK
    BY <1>0, <1>2, <1>3, <2>1, SkipBlanksStops
  <2>3. /\ s \in 0..n /\ s \in Nat /\ i <= s /\ s <= n /\ d[s] = b[s]
        /\ \A k \in i..(s - 1) : b[k] = BLANK
    BY <1>0, <1>2, <2>2
  <2>4. CASE d[s] = NUL
    <3>1. s = n
      <4>1. s \notin 0..(n - 1)
        BY <1>0, <2>3, <2>4
      <4> QED BY <1>0, <2>3, <4>1
    <3>2. PICK q : q = [i |-> s, b |-> d, argv |-> v]
      OBVIOUS
    <3>3. Turn(p) = q
      BY <1>1, <1>2, <1>5, <2>1, <2>4, <3>2 DEF Turn
    <3>4. Before(b, n, s) = Before(b, n, i)
      <4>1. \A j \in Starts(b, n) : j \in Nat /\ InWord(b, n, j)
        BY <1>0 DEF Starts
      <4>2. \A j \in i..(s - 1) : ~InWord(b, n, j)
        BY <2>3 DEF InWord
      <4>3. \A j \in Starts(b, n) : j < s <=> j < i
        <5>1. ASSUME NEW j \in Starts(b, n), j < s, ~(j < i) PROVE FALSE
          <6>1. j \in i..(s - 1)
            BY <1>2, <2>3, <4>1, <5>1
          <6> QED BY <4>1, <4>2, <6>1
        <5>2. \A j \in Starts(b, n) : j < i => j < s
          BY <1>2, <2>3, <4>1
        <5> QED BY <5>1, <5>2
      <4> QED BY <4>3 DEF Before
    <3>5. ~(s < n)
      BY <1>0, <3>1
    <3>6. \A j \in s..(BUFFER_SIZE - 1) : d[j] = b[j]
      BY <1>2, <2>3
    <3>7. num <= m + 1
      BY <1>2
    <3>8. q \in [i : 0..n, b : [Index -> Chars], argv : {q.argv}] /\ q.i = s /\ q.b = d /\ q.argv = v
      BY <1>2, <2>3, <3>2
    <3> QED BY <1>1, <1>2, <3>1, <3>3, <3>4, <3>5, <3>6, <3>7, <3>8 DEF ParserAt
  <2>5. CASE d[s] # NUL
    <3>1. PICK e : e = TokenEnd(d, s)
      OBVIOUS
    <3>2. e \in s..n /\ d[e] \in {NUL, BLANK} /\ \A k \in s..(e - 1) : d[k] \notin {NUL, BLANK}
      BY <1>0, <1>3, <2>3, <3>1, TokenEndStops
    <3>3. /\ e \in Nat /\ s <= e /\ e <= n /\ e \in Index /\ d[e] = b[e]
          /\ \A k \in s..(e - 1) : k \in i..(BUFFER_SIZE - 1) /\ d[k] = b[k]
      BY <1>0, <1>2, <2>3, <3>2 DEF Index
    <3>4. /\ s \in Starts(b, n) /\ e > s /\ Before(b, n, s) = Before(b, n, i)
          /\ \A k \in Nat : k > s /\ (k = e \/ k = e + 1) =>
                Before(b, n, k) = Before(b, n, i) \cup {s} /\ s \notin Before(b, n, i)
          /\ WordLength(b, n, s) = e - s
          /\ ~InWord(b, n, e)
      <4>1. b[s] # BLANK /\ b[s] # NUL /\ b[e] \in {NUL, BLANK}
            /\ \A k \in s..(e - 1) : b[k] \notin {NUL, BLANK}
        BY <2>2, <2>3, <2>5, <3>2, <3>3
      <4>2. i # n
        BY <1>0, <1>3, <1>5
      <4>3. i > 0 => ~InWord(b, n, i - 1)
        BY <1>0, <1>2, <4>2
      <4> QED BY <1>2, <2>2, <2>3, <3>2, <4>1, <4>3, TokenIsWord
    <3>5. PICK k, g, a : /\ k = IF d[e] = BLANK THEN e + 1 ELSE e
                         /\ g = [d EXCEPT ![e] = NUL]
                         /\ a = [x \in 1..(e - s) |-> d[s + x - 1]]
      OBVIOUS
    <3>6. Turn(p) = [i |-> k, b |-> g, argv |-> Append(v, a)]
      BY <1>1, <1>5, <2>1, <2>5, <3>1, <3>5 DEF Turn
    <3>7. k \in 0..n /\ k \in Nat /\ k > s /\ (k = e \/ k = e + 1)
      <4>1. CASE d[e] = BLANK
        <5>1. e # n
          BY <1>0, <1>3, <4>1
        <5> QED BY <1>0, <2>3, <3>3, <3>4, <3>5, <4>1, <5>1
      <4>2. CASE d[e] # BLANK
        BY <1>0, <2>3, <3>3, <3>4, <3>5, <4>2
      <4> QED BY <4>1, <4>2
    <3>8. Before(b, n, k) = Before(b, n, i) \cup {s} /\ s \notin Before(b, n, i)
      BY <3>4, <3>7
    <3>9. Cardinality(Before(b, n, k)) = num + 1
      BY <1>0, <1>1, <3>8, StartsFinite, FS_AddElement
    <3>10. a = Word(b, n, Nth(b, n, num + 1))
      <4>1. Cardinality(Before(b, n, s)) = (num + 1) - 1
        BY <1>1, <1>2, <3>4
      <4>2. Nth(b, n, num + 1) = s
        BY <1>0, <3>4, <4>1, NthIs
      <4>3. \A x \in 1..(e - s) : d[s + x - 1] = b[s + x - 1]
        <5>1. \A x \in 1..(e - s) : s + x - 1 \in s..(e - 1)
          BY <2>3, <3>3
        <5> QED BY <3>3, <5>1
      <4> QED BY <3>4, <3>5, <4>2, <4>3 DEF Word
    <3>11. Append(v, a) = FirstWords(b, n, num + 1)
      BY <1>2, <3>10, OneMoreWord
    <3>12. g \in [Index -> Chars] /\ \A j \in Index : g[j] = IF j = e THEN NUL ELSE d[j]
      BY <1>0, <1>2, <3>3, <3>5
    <3>13. ASSUME NEW j \in k..(BUFFER_SIZE - 1) PROVE g[j] = b[j]
      <4>1. j \in Index /\ j \in i..(BUFFER_SIZE - 1)
        BY <1>0, <1>2, <2>3, <3>7 DEF Index
      <4>2. d[j] = b[j]
        BY <1>2, <4>1
      <4>3. CASE j = e
        <5>1. k = e
          BY <3>3, <3>7, <4>3
        <5>2. d[e] = NUL
          <6>1. d[e] # BLANK
            BY <3>3, <3>5, <5>1
          <6> QED BY <3>2, <6>1
        <5> QED BY <3>12, <4>1, <4>2, <4>3, <5>2
      <4>4. CASE j # e
        BY <3>12, <4>1, <4>2, <4>4
      <4> QED BY <4>3, <4>4
    <3>14. k < n => ~InWord(b, n, k - 1)
      <4>1. CASE k = e + 1
        <5>1. k - 1 = e
          BY <3>3, <4>1
        <5> QED BY <3>4, <5>1
      <4>2. CASE k # e + 1
        <5>1. k = e /\ e = n
          <6>1. k = e /\ d[e] # BLANK
            BY <3>5, <3>7, <4>2
          <6>2. b[e] = NUL
            BY <3>2, <3>3, <6>1
          <6>3. e \notin 0..(n - 1)
            BY <1>0, <3>3, <6>2
          <6> QED BY <1>0, <3>3, <6>1, <6>3
        <5> QED BY <1>0, <5>1
      <4> QED BY <4>1, <4>2
    <3>15. PICK q : q = [i |-> k, b |-> g, argv |-> Append(v, a)]
      OBVIOUS
    <3>16. /\ q \in [i : 0..n, b : [Index -> Chars], argv : {q.argv}]
           /\ q.i = k /\ q.b = g /\ q.argv = Append(v, a)
      BY <3>7, <3>12, <3>15
    <3>17. num = m
      <4>1. i # n
        BY <1>0, <1>3, <1>5
      <4> QED BY <1>2, <4>1
    <3>18. num + 1 <= m + 1 /\ num + 1 = m + 1
      BY <1>2, <3>17
    <3> QED BY <3>6, <3>9, <3>11, <3>13, <3>14, <3>15, <3>16, <3>18 DEF ParserAt
  <2> QED BY <2>4, <2>5
<1> QED BY <1>4, <1>5


LEMMA TokeniseSplits ==
    ASSUME NEW b, NEW n, TextEnds(b, n)
    PROVE  ParserAt(Tokenise(b), b, n, MAX_ARGS)
<1>0. n \in Nat /\ MAX_ARGS \in Nat /\ b \in [Index -> Chars]
  BY KeyboardAssumption DEF TextEnds, Index
<1>1. PICK f : /\ f = [m \in 0..MAX_ARGS |->
                         IF m = 0 THEN [i |-> 0, b |-> b, argv |-> <<>>] ELSE Turn(f[m - 1])]
               /\ Tokenise(b) = f[MAX_ARGS]
  BY TokeniseTurns
<1> DEFINE T == {m \in 0..MAX_ARGS : ParserAt(f[m], b, n, m)}
<1>2. 0 \in T
  <2>1. 0 \in 0..MAX_ARGS /\ 0 \in 0..n
    BY <1>0
  <2>2. PICK q : q = [i |-> 0, b |-> b, argv |-> <<>>]
    OBVIOUS
  <2>3. f[0] = q
    BY <1>1, <2>1, <2>2
  <2>4. Before(b, n, 0) = {}
    <3>1. Starts(b, n) \subseteq 0..(n - 1)
      BY <1>0, StartsFinite
    <3> QED BY <1>0, <3>1 DEF Before
  <2>5. Cardinality(Before(b, n, 0)) = 0
    BY <2>4, FS_EmptySet
  <2>6. FirstWords(b, n, 0) = <<>>
    BY DEF FirstWords
  <2>7. /\ q \in [i : 0..n, b : [Index -> Chars], argv : {q.argv}]
        /\ q.i = 0 /\ q.b = b /\ q.argv = <<>>
    BY <1>0, <2>1, <2>2
  <2>8. ParserAt(q, b, n, 0)
    BY <2>5, <2>6, <2>7 DEF ParserAt
  <2> QED BY <2>1, <2>3, <2>8
<1>3. ASSUME NEW m \in 1..MAX_ARGS, m - 1 \in T
      PROVE  m \in T
  <2>1. m \in 0..MAX_ARGS /\ m # 0 /\ m - 1 \in Nat /\ (m - 1) + 1 = m
    BY <1>0
  <2>2. f[m] = Turn(f[m - 1])
    BY <1>1, <2>1
  <2>3. ParserAt(f[m - 1], b, n, m - 1)
    BY <1>3
  <2>4. ParserAt(Turn(f[m - 1]), b, n, (m - 1) + 1)
    <3>1. PICK x, p : x = m - 1 /\ p = f[m - 1]
      OBVIOUS
    <3>2. x \in Nat /\ ParserAt(p, b, n, x)
      BY <2>1, <2>3, <3>1
    <3> QED BY <3>1, <3>2, TurnSplits
  <2> QED BY <2>1, <2>2, <2>4
<1>4. 0..MAX_ARGS \subseteq T
  <2> HIDE DEF T
  <2> QED BY <1>0, <1>2, <1>3, UpTo
<1>5. MAX_ARGS \in 0..MAX_ARGS
  BY <1>0
<1> QED BY <1>1, <1>4, <1>5

\* The argument loop of execute_command takes exactly the words of the line, whole, in
\* order and at most MAX_ARGS of them, for every line, also one that a failed run left
\* with NULs inside, and although the loop writes NULs into the text that it reads.
THEOREM ArgvIsSplitThm == Spec => []ArgvIsSplit
<1>1. BufferInv => ArgvIsSplit
  <2> SUFFICES ASSUME BufferInv PROVE ArgvIsSplit
    OBVIOUS
  <2>1. PICK b, n, p, i, num, count : /\ b = input_buffer /\ n = LineLength(b)
                                      /\ p = Tokenise(b) /\ i = p.i
                                      /\ num = Cardinality(Before(b, n, i))
                                      /\ count = Cardinality(Starts(b, n))
    OBVIOUS
  <2>2. TextEnds(b, n) /\ n \in Nat /\ MAX_ARGS \in Nat
    BY <2>1, LineLengthEnds, KeyboardAssumption DEF BufferInv, TextEnds, Index
  <2>3. ParserAt(p, b, n, MAX_ARGS)
    BY <2>1, <2>2, TokeniseSplits
  <2>4. p.argv = FirstWords(b, n, num) /\ num <= MAX_ARGS /\ (num # MAX_ARGS => i = n)
    BY <2>1, <2>3 DEF ParserAt
  <2>5. num \in Nat /\ count \in Nat /\ num <= count /\ Starts(b, n) \subseteq 0..(n - 1)
    BY <2>1, <2>2, StartsFinite
  <2>6. i = n => num = count
    <3>1. Before(b, n, n) = Starts(b, n)
      BY <2>2, <2>5 DEF Before
    <3> QED BY <2>1, <3>1
  <2>7. num = IF count < MAX_ARGS THEN count ELSE MAX_ARGS
    BY <2>2, <2>4, <2>5, <2>6
  <2> QED BY <2>1, <2>4, <2>7 DEF ArgvIsSplit, FirstWords
<1> QED BY <1>1, BufferInvariant, PTL

-----------------------------------------------------------------------------
(* What the screen shows.                                                  *)

IsCells(f) == f = [k \in Cells |-> f[k]]

\* Nothing is shown from cell v on.
BlankFrom(f, v) == \A k \in Cells : k >= v => f[k] = BLANK

\* The first n characters of a text are shown in front of cell v, from the start of a row.
LineAt(f, v, text, n) ==
    \E q \in Nat : /\ v = (q * MAX_COLS) + n
                   /\ \A i \in 1..n : f[(q * MAX_COLS) + i - 1] = text[i]

LEMMA Area ==
    /\ MAX_ROWS * MAX_COLS \in Nat \ {0} /\ MAX_ROWS * MAX_COLS >= MAX_COLS
    /\ Cells = 0..(MAX_ROWS * MAX_COLS - 1)
    /\ (MAX_ROWS - 1) * MAX_COLS = MAX_ROWS * MAX_COLS - MAX_COLS
    /\ (MAX_ROWS - 1) * MAX_COLS \in Nat
<1>0. /\ MAX_COLS \in Nat /\ MAX_COLS > 0 /\ MAX_ROWS \in Nat /\ MAX_ROWS > 0
  BY ScreenAssumption
<1>1. PICK r \in Nat : r = MAX_ROWS - 1
  BY <1>0
<1>a. r + 1 = MAX_ROWS
  BY <1>0, <1>1
<1>2. r * MAX_COLS \in Nat /\ (r + 1) * MAX_COLS = (r * MAX_COLS) + MAX_COLS
  BY <1>0, <1>1, RowsInOrder
<1> QED BY <1>0, <1>1, <1>a, <1>2 DEF Cells

\* The cell of a cursor that is on the screen.
LEMMA ScreenOffset ==
    ASSUME NEW s, OnScreen(s)
    PROVE  /\ s.row \in Nat /\ s.col \in Nat /\ s.row < MAX_ROWS /\ s.col < MAX_COLS
           /\ s.row * MAX_COLS \in Nat /\ Offset(s) = (s.row * MAX_COLS) + s.col
           /\ (s.row * MAX_COLS) + MAX_COLS = (s.row + 1) * MAX_COLS
           /\ (s.row * MAX_COLS) + MAX_COLS <= MAX_ROWS * MAX_COLS
           /\ Offset(s) \in Cells /\ Offset(s) \in Nat
<1>1. /\ s.row \in Nat /\ s.col \in Nat /\ s.row < MAX_ROWS /\ s.col < MAX_COLS
      /\ MAX_ROWS \in Nat /\ MAX_COLS \in Nat
  BY ScreenAssumption DEF OnScreen, InScreen, IsScreen
<1>2. PICK r \in Nat, k \in Nat, q \in Nat, w \in Nat :
          r = s.row /\ k = s.col /\ q = r + 1 /\ q <= MAX_ROWS /\ w = MAX_COLS /\ k < w
  BY <1>1
<1>3. r * w \in Nat /\ (r + 1) * w = (r * w) + w
  BY <1>2, RowsInOrder
<1>4. q * w <= MAX_ROWS * w /\ MAX_ROWS * w \in Nat
  BY <1>1, <1>2, RowsInOrder
<1>5. Offset(s) = (r * w) + k
  BY <1>2 DEF Offset
<1>6. (r * w) + k \in Cells
  BY <1>2, <1>3, <1>4 DEF Cells
<1> QED BY <1>1, <1>2, <1>3, <1>4, <1>5, <1>6

LEMMA BlankLater ==
    ASSUME NEW f, NEW v \in Int, NEW u \in Int, u >= v, BlankFrom(f, v)
    PROVE  BlankFrom(f, u)
<1>1. ASSUME NEW k \in Cells, k >= u PROVE f[k] = BLANK
  <2>1. k \in Int
    BY Area
  <2>2. k >= v
    BY <1>1, <2>1
  <2> QED BY <2>2 DEF BlankFrom
<1> QED BY <1>1 DEF BlankFrom

With(f, v, x) == [f EXCEPT ![v] = x]

\* A character is written at cell v: the line is one longer.
LEMMA WriteShows ==
    ASSUME NEW f, IsCells(f), NEW v \in Cells, NEW x, NEW g, g = With(f, v, x)
    PROVE  /\ IsCells(g) /\ g[v] = x /\ \A k \in Cells : k # v => g[k] = f[k]
           /\ BlankFrom(f, v) => BlankFrom(g, v + 1)
           /\ \A n \in Nat : \A text, longer :
                 /\ LineAt(f, v, text, n) /\ longer[n + 1] = x
                 /\ \A i \in 1..n : longer[i] = text[i]
                 => LineAt(g, v + 1, longer, n + 1)
<1>0. v \in Nat /\ Cells \subseteq Nat /\ MAX_COLS \in Nat
  BY Area, ScreenAssumption
<1>1. PICK h : h = [k \in Cells |-> f[k]] /\ g = [h EXCEPT ![v] = x] /\ \A k \in Cells : h[k] = f[k]
  BY DEF IsCells, With
<1>2. IsCells(g) /\ g[v] = x /\ \A k \in Cells : k # v => g[k] = f[k]
  BY <1>1 DEF IsCells
<1>3. ASSUME BlankFrom(f, v) PROVE BlankFrom(g, v + 1)
  BY <1>0, <1>2, <1>3 DEF BlankFrom
<1>4. ASSUME NEW n \in Nat, NEW text, NEW longer,
             LineAt(f, v, text, n), longer[n + 1] = x, \A i \in 1..n : longer[i] = text[i]
      PROVE  LineAt(g, v + 1, longer, n + 1)
  <2>1. PICK q \in Nat : /\ v = (q * MAX_COLS) + n
                         /\ \A i \in 1..n : f[(q * MAX_COLS) + i - 1] = text[i]
    BY <1>4 DEF LineAt
  <2>2. PICK u \in Nat : u = q * MAX_COLS
    BY <1>0
  <2>3. v + 1 = u + (n + 1)
    BY <1>0, <2>1, <2>2
  <2>4. ASSUME NEW i \in 1..(n + 1) PROVE g[u + i - 1] = longer[i]
    <3>1. CASE i = n + 1
      <4>1. u + i - 1 = v
        BY <2>1, <2>2, <3>1
      <4> QED BY <1>2, <1>4, <3>1, <4>1
    <3>2. CASE i # n + 1
      <4>1. i \in 1..n /\ u + i - 1 \in 0..v /\ u + i - 1 # v
        BY <2>1, <2>2, <3>2
      <4>2. u + i - 1 \in Cells
        BY <1>0, <4>1, Area
      <4>3. f[u + i - 1] = text[i]
        BY <2>1, <2>2, <4>1
      <4> QED BY <1>2, <1>4, <4>1, <4>2, <4>3
    <3> QED BY <3>1, <3>2
  <2> QED BY <2>2, <2>3, <2>4 DEF LineAt
<1> QED BY <1>2, <1>3, <1>4

\* The check for scrolling: what is shown moves with the cursor, and a line that does not
\* fill the screen stays on it.
LEMMA ScrolledShows ==
    ASSUME NEW s, IsScreen(s), s.col < MAX_COLS, s.row <= MAX_ROWS,
           s.row >= MAX_ROWS => s.col = 0, IsCells(s.cells)
    PROVE  LET p == Scrolled(s)
           IN  /\ OnScreen(p) /\ IsCells(p.cells)
               /\ BlankFrom(s.cells, Offset(s)) => BlankFrom(p.cells, Offset(p))
               /\ BlankFrom(s.cells, Offset(s) - 1) => BlankFrom(p.cells, Offset(p) - 1)
               /\ \A n \in Nat : \A text :
                     LineAt(s.cells, Offset(s), text, n) /\ n < MAX_ROWS * MAX_COLS
                     => LineAt(p.cells, Offset(p), text, n)
<1>0. s.row \in Nat /\ s.col \in Nat /\ MAX_ROWS \in Nat \ {0} /\ MAX_COLS \in Nat \ {0}
  BY ScreenAssumption DEF IsScreen
<1>1. OnScreen(Scrolled(s))
  BY ScrolledLands
<1>2. CASE ~(s.row >= MAX_ROWS)
  BY <1>1, <1>2 DEF Scrolled
<1>3. CASE s.row >= MAX_ROWS
  <2>1. s.row = MAX_ROWS /\ s.col = 0
    BY <1>0, <1>3
  <2>2. PICK w \in Nat, size \in Nat : w = MAX_COLS /\ size = MAX_ROWS * MAX_COLS /\ size >= w /\ w > 0
                                       /\ Cells = 0..(size - 1) /\ (MAX_ROWS - 1) * MAX_COLS = size - w
    BY <1>0, Area
  <2>3. PICK h, e : e = s.cells /\ h = [k \in Cells |-> IF k + MAX_COLS \in Cells THEN e[k + MAX_COLS] ELSE BLANK]
    OBVIOUS
  <2>4. PICK r \in Nat : r = MAX_ROWS - 1
    BY <1>0
  <2>5. PICK p : p = [s EXCEPT !.cells = h, !.row = r]
    OBVIOUS
  <2>6. Scrolled(s) = p
    BY <1>3, <2>3, <2>4, <2>5 DEF Scrolled, scroll_screen
  <2>7. p.cells = h /\ p.row = r /\ p.col = 0
    <3>1. s = [cells |-> e, row |-> MAX_ROWS, col |-> 0]
      BY <2>1, <2>3 DEF IsScreen
    <3> QED BY <2>5, <3>1
  <2>8. Offset(s) = size /\ Offset(p) = size - w
    BY <2>1, <2>2, <2>4, <2>7 DEF Offset
  <2>9. IsCells(h) /\ \A k \in Cells : h[k] = IF k + w \in Cells THEN e[k + w] ELSE BLANK
    BY <2>2, <2>3 DEF IsCells
  <2>10. BlankFrom(h, size - w)
    <3>1. ASSUME NEW k \in Cells, k >= size - w PROVE h[k] = BLANK
      <4>1. k + w \notin Cells
        BY <2>2, <3>1
      <4> QED BY <2>9, <4>1
    <3> QED BY <3>1 DEF BlankFrom
  <2>a. ASSUME BlankFrom(e, size - 1)
        PROVE  BlankFrom(h, (size - w) - 1)
    <3>1. ASSUME NEW k \in Cells, k >= (size - w) - 1 PROVE h[k] = BLANK
      <4>1. CASE k + w \notin Cells
        BY <2>9, <4>1
      <4>2. CASE k + w \in Cells
        <5>1. k + w >= size - 1
          BY <2>2, <3>1
        <5>2. e[k + w] = BLANK
          BY <2>a, <4>2, <5>1 DEF BlankFrom
        <5> QED BY <2>9, <4>2, <5>2
      <4> QED BY <4>1, <4>2
    <3> QED BY <3>1 DEF BlankFrom
  <2>11. ASSUME NEW n \in Nat, NEW text, LineAt(e, size, text, n), n < size
         PROVE  LineAt(h, size - w, text, n)
    <3>1. PICK q \in Nat : /\ size = (q * w) + n
                           /\ \A i \in 1..n : e[(q * w) + i - 1] = text[i]
      BY <2>2, <2>11 DEF LineAt
    <3>2. q # 0
      <4>1. 0 * w = 0
        BY <2>2
      <4> QED BY <2>11, <3>1, <4>1
    <3>3. PICK d \in Nat : q = d + 1
      <4>1. q - 1 \in Nat /\ q = (q - 1) + 1
        BY <3>2
      <4> QED BY <4>1
    <3>4. PICK u \in Nat : u = d * w /\ q * w = u + w
      <4>1. d * w \in Nat /\ (d + 1) * w = (d * w) + w
        BY <2>2, RowsInOrder
      <4> QED BY <3>3, <4>1
    <3>5. size - w = u + n
      BY <2>2, <3>1, <3>4
    <3>6. ASSUME NEW i \in 1..n PROVE h[u + i - 1] = text[i]
      <4>0. PICK y \in Nat : y = q * w /\ y = u + w /\ size = y + n
        BY <2>2, <3>1, <3>4
      <4>1. u + i - 1 \in Cells /\ (u + i - 1) + w \in Cells /\ (u + i - 1) + w = y + i - 1
        BY <2>2, <4>0
      <4>2. PICK k \in Cells : k = u + i - 1 /\ k + w \in Cells /\ k + w = (q * w) + i - 1
        BY <4>0, <4>1
      <4> QED BY <2>9, <3>1, <4>2
    <3> QED BY <2>2, <3>4, <3>5, <3>6 DEF LineAt
  <2> QED BY <1>1, <2>2, <2>3, <2>6, <2>7, <2>8, <2>9, <2>10, <2>a, <2>11
<1> QED BY <1>2, <1>3


\* A newline, before the check for scrolling.
LEMMA NewLineShows ==
    ASSUME NEW s, OnScreen(s)
    PROVE  LET u == NewLine(s)
           IN  /\ IsScreen(u) /\ u.cells = s.cells /\ u.col = 0 /\ u.row <= MAX_ROWS
               /\ Offset(u) \in Nat /\ Offset(u) > Offset(s)
               /\ \A f, text : LineAt(f, Offset(u), text, 0)
<1>0. MAX_ROWS \in Nat /\ MAX_COLS \in Nat \ {0}
  BY ScreenAssumption
<1>e. PICK e : e = s.cells
  OBVIOUS
<1>1. PICK r \in Nat, k \in Nat, y \in Nat :
          /\ r = s.row /\ k = s.col /\ r < MAX_ROWS /\ k < MAX_COLS
          /\ y = r * MAX_COLS /\ Offset(s) = y + k /\ y + MAX_COLS = (r + 1) * MAX_COLS
  BY ScreenOffset
<1>2. PICK d \in Nat : d = r + 1 /\ d <= MAX_ROWS
  BY <1>0, <1>1
<1>3. PICK u : u = [s EXCEPT !.row = d, !.col = 0]
  OBVIOUS
<1>4. NewLine(s) = u
  BY <1>1, <1>2, <1>3 DEF NewLine
<1>5. s = [cells |-> e, row |-> r, col |-> k]
  BY <1>e, <1>1 DEF OnScreen, IsScreen
<1>6. IsScreen(u) /\ u.cells = e /\ u.row = d /\ u.col = 0
  BY <1>3, <1>5 DEF IsScreen
<1>7. Offset(u) = d * MAX_COLS /\ d * MAX_COLS = y + MAX_COLS
  <2>1. d * MAX_COLS \in Nat
    BY <1>0
  <2> QED BY <1>1, <1>2, <1>6, <2>1 DEF Offset
<1>8. \A f, text : LineAt(f, Offset(u), text, 0)
  <2>1. Offset(u) = (d * MAX_COLS) + 0
    BY <1>0, <1>7
  <2> QED BY <2>1 DEF LineAt
<1>9. Offset(u) \in Nat /\ Offset(u) > Offset(s)
  BY <1>0, <1>1, <1>7
<1> QED BY <1>e, <1>1, <1>2, <1>4, <1>6, <1>8, <1>9

\* A character, before the check for scrolling.
LEMMA PutShows ==
    ASSUME NEW s, OnScreen(s), NEW x
    PROVE  LET u == Put(s, x)
           IN  /\ IsScreen(u) /\ u.cells = [s.cells EXCEPT ![Offset(s)] = x]
               /\ u.col < MAX_COLS /\ u.row <= MAX_ROWS /\ (u.row >= MAX_ROWS => u.col = 0)
               /\ Offset(u) = Offset(s) + 1
<1>0. MAX_ROWS \in Nat /\ MAX_COLS \in Nat \ {0}
  BY ScreenAssumption
<1>e. PICK e : e = s.cells
  OBVIOUS
<1>1. PICK r \in Nat, k \in Nat, y \in Nat, o \in Nat :
          /\ r = s.row /\ k = s.col /\ r < MAX_ROWS /\ k < MAX_COLS /\ o = Offset(s)
          /\ y = r * MAX_COLS /\ o = y + k /\ y + MAX_COLS = (r + 1) * MAX_COLS
  BY ScreenOffset
<1>2. PICK d \in Nat, j \in Nat : d = r + 1 /\ d <= MAX_ROWS /\ j = k + 1 /\ j <= MAX_COLS
  BY <1>0, <1>1
<1>3. PICK g : g = [e EXCEPT ![o] = x]
  OBVIOUS
<1>4. PICK v : v = [s EXCEPT !.cells = g, !.col = j]
  OBVIOUS
<1>5. s = [cells |-> e, row |-> r, col |-> k]
  BY <1>e, <1>1 DEF OnScreen, IsScreen
<1>6. v = [cells |-> g, row |-> r, col |-> j]
  BY <1>4, <1>5
<1>7. Put(s, x) = Wrapped(v)
  BY <1>e, <1>1, <1>2, <1>3, <1>4 DEF Put
<1>8. CASE j >= MAX_COLS
  <2>1. PICK u : u = [v EXCEPT !.col = 0, !.row = d]
    OBVIOUS
  <2>2. Wrapped(v) = u
    <3>1. v.col = j /\ v.row = r
      BY <1>6
    <3> QED BY <1>2, <1>8, <2>1, <3>1 DEF Wrapped
  <2>3. IsScreen(u) /\ u.cells = g /\ u.row = d /\ u.col = 0
    BY <1>6, <2>1 DEF IsScreen
  <2>4. Offset(u) = (d * MAX_COLS) + 0 /\ d * MAX_COLS = y + MAX_COLS
    BY <1>1, <1>2, <2>3 DEF Offset
  <2>5. Offset(u) = o + 1
    BY <1>0, <1>1, <1>2, <1>8, <2>4
  <2> QED BY <1>0, <1>e, <1>1, <1>2, <1>3, <1>7, <2>2, <2>3, <2>5
<1>9. CASE ~(j >= MAX_COLS)
  <2>1. Wrapped(v) = v
    BY <1>6, <1>9 DEF Wrapped
  <2>2. IsScreen(v) /\ v.cells = g /\ v.row = r /\ v.col = j
    BY <1>6 DEF IsScreen
  <2>3. Offset(v) = y + j
    BY <1>1, <2>2 DEF Offset
  <2>4. Offset(v) = o + 1 /\ ~(r >= MAX_ROWS) /\ r <= MAX_ROWS /\ j < MAX_COLS
    BY <1>0, <1>1, <1>2, <1>9, <2>3
  <2> QED BY <1>e, <1>1, <1>3, <1>7, <2>1, <2>2, <2>4
<1> QED BY <1>8, <1>9

\* One turn of print's loop on a character that is no backspace.
LEMMA CharShows ==
    ASSUME NEW s, OnScreen(s), IsCells(s.cells), NEW x, x # BACKSPACE
    PROVE  LET p == PrintChar(s, x)
           IN  /\ OnScreen(p) /\ IsCells(p.cells)
               /\ BlankFrom(s.cells, Offset(s)) => BlankFrom(p.cells, Offset(p))
               /\ x = BLANK /\ BlankFrom(s.cells, Offset(s) + 1) => BlankFrom(p.cells, Offset(p) - 1)
               /\ x = NEWLINE => \A text : LineAt(p.cells, Offset(p), text, 0)
               /\ x # NEWLINE => \A n \in Nat : \A text, longer :
                     /\ LineAt(s.cells, Offset(s), text, n) /\ n + 1 < MAX_ROWS * MAX_COLS
                     /\ longer[n + 1] = x /\ \A i \in 1..n : longer[i] = text[i]
                     => LineAt(p.cells, Offset(p), longer, n + 1)
<1>0. PICK e, o : e = s.cells /\ o = Offset(s) /\ o \in Cells /\ o \in Nat
  BY ScreenOffset
<1>1. CASE x = NEWLINE
  <2>1. PICK u : u = NewLine(s)
    OBVIOUS
  <2>2. /\ IsScreen(u) /\ u.cells = e /\ u.col = 0 /\ u.row <= MAX_ROWS
        /\ Offset(u) \in Nat /\ Offset(u) > o /\ \A f, text : LineAt(f, Offset(u), text, 0)
    BY <1>0, <2>1, NewLineShows
  <2>3. PrintChar(s, x) = Scrolled(u)
    BY <1>1, <2>1 DEF PrintChar
  <2>4. u.col < MAX_COLS /\ 0 < MAX_ROWS * MAX_COLS
    BY <2>2, ScreenAssumption, Area
  <2>5. BlankFrom(e, o) => BlankFrom(u.cells, Offset(u))
    BY <1>0, <2>2, Area DEF BlankFrom
  <2>6. IsCells(u.cells)
    BY <1>0, <2>2
  <2>7. x # BLANK
    BY <1>1 DEF NEWLINE, BLANK
  <2> QED BY <1>0, <1>1, <2>2, <2>3, <2>4, <2>5, <2>6, <2>7, ScrolledShows
<1>2. CASE x # NEWLINE
  <2>1. PICK u, g : u = Put(s, x) /\ g = u.cells
    OBVIOUS
  <2>2. /\ IsScreen(u) /\ g = With(e, o, x)
        /\ u.col < MAX_COLS /\ u.row <= MAX_ROWS /\ (u.row >= MAX_ROWS => u.col = 0)
        /\ Offset(u) = o + 1
    BY <1>0, <2>1, PutShows DEF With
  <2>3. PrintChar(s, x) = Scrolled(u)
    BY <1>2, <2>1 DEF PrintChar
  <2>4. IsCells(e)
    BY <1>0
  <2>5. /\ IsCells(g) /\ g[o] = x /\ (\A k \in Cells : k # o => g[k] = e[k])
        /\ BlankFrom(e, o) => BlankFrom(g, o + 1)
        /\ \A n \in Nat : \A text, longer :
              /\ LineAt(e, o, text, n) /\ longer[n + 1] = x
              /\ \A i \in 1..n : longer[i] = text[i]
              => LineAt(g, o + 1, longer, n + 1)
    BY <1>0, <2>2, <2>4, WriteShows
  <2>a. ASSUME x = BLANK, BlankFrom(e, o + 1) PROVE BlankFrom(g, (o + 1) - 1)
    <3>1. ASSUME NEW k \in Cells, k >= (o + 1) - 1 PROVE g[k] = BLANK
      <4>1. k = o \/ (k # o /\ k >= o + 1)
        BY <1>0, <3>1, Area
      <4>2. CASE k # o /\ k >= o + 1
        BY <2>5, <2>a, <4>2 DEF BlankFrom
      <4> QED BY <2>5, <2>a, <4>1, <4>2
    <3> QED BY <3>1 DEF BlankFrom
  <2>6. PICK p : p = Scrolled(u)
    OBVIOUS
  <2>7. /\ OnScreen(p) /\ IsCells(p.cells)
        /\ BlankFrom(g, o + 1) => BlankFrom(p.cells, Offset(p))
        /\ BlankFrom(g, (o + 1) - 1) => BlankFrom(p.cells, Offset(p) - 1)
        /\ \A n \in Nat : \A text :
              LineAt(g, o + 1, text, n) /\ n < MAX_ROWS * MAX_COLS
              => LineAt(p.cells, Offset(p), text, n)
    BY <2>1, <2>2, <2>5, <2>6, ScrolledShows
  <2>8. ASSUME NEW n \in Nat, NEW text, NEW longer,
               LineAt(e, o, text, n), n + 1 < MAX_ROWS * MAX_COLS,
               longer[n + 1] = x, \A i \in 1..n : longer[i] = text[i]
        PROVE  LineAt(p.cells, Offset(p), longer, n + 1)
    <3>1. LineAt(g, o + 1, longer, n + 1)
      BY <2>5, <2>8
    <3>2. n + 1 \in Nat
      OBVIOUS
    <3> QED BY <2>7, <2>8, <3>1, <3>2
  <2> QED BY <1>0, <1>2, <2>3, <2>5, <2>a, <2>6, <2>7, <2>8
<1> QED BY <1>1, <1>2


\* A backspace moves the cursor back by one cell, if there is one.
LEMMA BackShows ==
    ASSUME NEW s, OnScreen(s)
    PROVE  LET p == PrintChar(s, BACKSPACE)
           IN  /\ OnScreen(p) /\ p.cells = s.cells
               /\ Offset(p) = IF Offset(s) = 0 THEN 0 ELSE Offset(s) - 1
<1>0. MAX_ROWS \in Nat /\ MAX_COLS \in Nat \ {0}
  BY ScreenAssumption
<1>e. PICK e : e = s.cells
  OBVIOUS
<1>1. PICK r \in Nat, k \in Nat, y \in Nat :
          /\ r = s.row /\ k = s.col /\ r < MAX_ROWS /\ k < MAX_COLS
          /\ y = r * MAX_COLS /\ Offset(s) = y + k
  BY ScreenOffset
<1>2. s = [cells |-> e, row |-> r, col |-> k]
  BY <1>e, <1>1 DEF OnScreen, IsScreen
<1>3. PrintChar(s, BACKSPACE) = Scrolled(Back(s))
  BY DEF PrintChar, NEWLINE, BACKSPACE
<1>4. CASE k > 0
  <2>1. PICK j \in Nat : j = k - 1 /\ j < MAX_COLS
    BY <1>0, <1>1, <1>4
  <2>2. PICK u : u = [s EXCEPT !.col = j]
    OBVIOUS
  <2>3. Back(s) = u
    BY <1>1, <1>4, <2>1, <2>2 DEF Back
  <2>4. u.cells = e /\ u.row = r /\ u.col = j /\ IsScreen(u)
    BY <1>2, <2>2 DEF IsScreen
  <2>5. Scrolled(u) = u /\ OnScreen(u)
    BY <1>0, <1>1, <2>1, <2>4 DEF Scrolled, OnScreen, InScreen
  <2>6. Offset(u) = y + j
    BY <1>1, <2>4 DEF Offset
  <2> QED BY <1>e, <1>1, <1>3, <1>4, <2>1, <2>3, <2>4, <2>5, <2>6
<1>5. CASE ~(k > 0) /\ r > 0
  <2>a. PICK j \in Nat : j = MAX_COLS - 1
    BY <1>0
  <2>b. PICK d \in Nat : d = r - 1
    BY <1>5
  <2>1. j < MAX_COLS /\ d < MAX_ROWS /\ r = d + 1
    BY <1>0, <1>1, <2>a, <2>b
  <2>2. PICK u : u = [s EXCEPT !.row = d, !.col = j]
    OBVIOUS
  <2>3. Back(s) = u
    BY <1>1, <1>5, <2>a, <2>b, <2>2 DEF Back
  <2>4. u.cells = e /\ u.row = d /\ u.col = j /\ IsScreen(u)
    BY <1>2, <2>2 DEF IsScreen
  <2>5. Scrolled(u) = u /\ OnScreen(u)
    <3>1. ~(d >= MAX_ROWS) /\ d \in 0..(MAX_ROWS - 1) /\ j \in 0..(MAX_COLS - 1)
      BY <1>0, <2>1
    <3> QED BY <2>4, <3>1 DEF Scrolled, OnScreen, InScreen
  <2>6. PICK z \in Nat : z = d * MAX_COLS /\ y = z + MAX_COLS
    <3>1. d * MAX_COLS \in Nat /\ (d + 1) * MAX_COLS = (d * MAX_COLS) + MAX_COLS
      BY <1>0, RowsInOrder
    <3> QED BY <1>1, <2>1, <3>1
  <2>7. Offset(u) = z + j
    BY <2>4, <2>6 DEF Offset
  <2> QED BY <1>0, <1>e, <1>1, <1>3, <1>5, <2>a, <2>1, <2>3, <2>4, <2>5, <2>6, <2>7
<1>6. CASE ~(k > 0) /\ ~(r > 0)
  <2>1. Back(s) = s
    BY <1>1, <1>6 DEF Back
  <2>2. Scrolled(s) = s
    BY <1>0, <1>1 DEF Scrolled
  <2>3. r = 0 /\ k = 0 /\ 0 * MAX_COLS = 0
    BY <1>0, <1>6
  <2> QED BY <1>1, <1>3, <2>1, <2>2, <2>3
<1> QED BY <1>4, <1>5, <1>6

\* A text without backspaces.  When its last newline is at m, the rest of it stands in
\* front of the cursor.
LEMMA PrintShows ==
    ASSUME NEW s, OnScreen(s), IsCells(s.cells), NEW msg, Len(msg) \in Nat,
           \A i \in 1..Len(msg) : msg[i] # BACKSPACE,
           NEW m \in 1..(Len(msg) + 1), NEW text, m <= Len(msg) => msg[m] = NEWLINE,
           \A i \in (m + 1)..Len(msg) : msg[i] # NEWLINE /\ text[i - m] = msg[i],
           Len(msg) - m < MAX_ROWS * MAX_COLS
    PROVE  LET p == print(s, msg)
           IN  /\ OnScreen(p) /\ IsCells(p.cells)
               /\ BlankFrom(s.cells, Offset(s)) => BlankFrom(p.cells, Offset(p))
               /\ m <= Len(msg) => LineAt(p.cells, Offset(p), text, Len(msg) - m)
<1>1. PICK f, len : f = Printing(s, msg) /\ len = Len(msg)
  OBVIOUS
<1>2. f = [i \in 0..len |-> IF i = 0 THEN s ELSE PrintChar(f[i - 1], msg[i])]
  BY <1>1, PrintingTurns
<1>3. len \in Nat /\ m \in Nat /\ m >= 1 /\ MAX_ROWS * MAX_COLS \in Nat
  BY <1>1, Area
<1> DEFINE T == {i \in 0..len :
                   /\ OnScreen(f[i]) /\ IsCells(f[i].cells)
                   /\ BlankFrom(s.cells, Offset(s)) => BlankFrom(f[i].cells, Offset(f[i]))
                   /\ m <= i => LineAt(f[i].cells, Offset(f[i]), text, i - m)}
<1>4. 0 \in T
  <2>1. 0 \in 0..len /\ ~(m <= 0)
    BY <1>3
  <2>2. f[0] = s
    BY <1>2, <2>1
  <2> QED BY <2>1, <2>2
<1>5. ASSUME NEW i \in 1..len, i - 1 \in T
      PROVE  i \in T
  <2>1. i \in 0..len /\ i # 0 /\ i \in Nat
    BY <1>3
  <2>2. PICK u, p, x : u = f[i - 1] /\ p = f[i] /\ x = msg[i]
    OBVIOUS
  <2>3. p = PrintChar(u, x)
    BY <1>2, <2>1, <2>2
  <2>4. /\ OnScreen(u) /\ IsCells(u.cells)
        /\ BlankFrom(s.cells, Offset(s)) => BlankFrom(u.cells, Offset(u))
        /\ m <= i - 1 => LineAt(u.cells, Offset(u), text, (i - 1) - m)
    BY <1>5, <2>2
  <2>5. x # BACKSPACE
    BY <1>1, <2>2
  <2>6. /\ OnScreen(p) /\ IsCells(p.cells)
        /\ BlankFrom(u.cells, Offset(u)) => BlankFrom(p.cells, Offset(p))
        /\ x = NEWLINE => LineAt(p.cells, Offset(p), text, 0)
        /\ x # NEWLINE => \A n \in Nat :
              /\ LineAt(u.cells, Offset(u), text, n) /\ n + 1 < MAX_ROWS * MAX_COLS
              /\ text[n + 1] = x
              => LineAt(p.cells, Offset(p), text, n + 1)
    BY <2>3, <2>4, <2>5, CharShows
  <2>7. ASSUME m <= i PROVE LineAt(p.cells, Offset(p), text, i - m)
    <3>1. CASE m = i
      <4>1. i - m = 0 /\ x = NEWLINE
        BY <1>1, <1>3, <2>1, <2>2, <3>1
      <4> QED BY <2>6, <4>1
    <3>2. CASE m # i
      <4>1. i \in (m + 1)..len /\ m <= i - 1
        BY <1>3, <2>1, <2>7, <3>2
      <4>2. PICK n \in Nat : n = (i - 1) - m /\ n + 1 = i - m /\ n + 1 < MAX_ROWS * MAX_COLS
        <5>1. (i - 1) - m \in Nat /\ ((i - 1) - m) + 1 = i - m /\ i - m < MAX_ROWS * MAX_COLS
          BY <1>1, <1>3, <2>1, <4>1
        <5> QED BY <5>1
      <4>3. x # NEWLINE /\ text[n + 1] = x
        BY <1>1, <2>2, <4>1, <4>2
      <4>4. LineAt(u.cells, Offset(u), text, n)
        BY <2>4, <4>1, <4>2
      <4>5. LineAt(p.cells, Offset(p), text, n + 1)
        BY <2>6, <4>2, <4>3, <4>4
      <4> QED BY <4>2, <4>5
    <3> QED BY <3>1, <3>2
  <2> QED BY <2>1, <2>2, <2>4, <2>6, <2>7
<1>6. 0..len \subseteq T
  <2> HIDE DEF T
  <2> QED BY <1>3, <1>4, <1>5, UpTo
<1>7. len \in T
  BY <1>3, <1>6
<1>8. print(s, msg) = f[len]
  BY <1>1 DEF print
<1> QED BY <1>1, <1>7, <1>8

\* Backspace, blank, backspace: the last character of the line is gone.
LEMMA EraseShows ==
    ASSUME NEW s, OnScreen(s), IsCells(s.cells)
    PROVE  LET p == print(s, <<BACKSPACE, BLANK, BACKSPACE>>)
           IN  /\ OnScreen(p) /\ IsCells(p.cells)
               /\ BlankFrom(s.cells, Offset(s)) => BlankFrom(p.cells, Offset(p))
               /\ \A n \in Nat : \A text :
                     LineAt(s.cells, Offset(s), text, n + 1) /\ n + 1 < MAX_ROWS * MAX_COLS
                     => LineAt(p.cells, Offset(p), text, n)
<1>1. PICK msg : msg = <<BACKSPACE, BLANK, BACKSPACE>>
  OBVIOUS
<1>2. Len(msg) = 3 /\ msg[1] = BACKSPACE /\ msg[2] = BLANK /\ msg[3] = BACKSPACE
  BY <1>1
<1>3. PICK f : f = Printing(s, msg)
  OBVIOUS
<1>4. f = [i \in 0..3 |-> IF i = 0 THEN s ELSE PrintChar(f[i - 1], msg[i])]
  <2>1. Len(msg) \in Nat
    BY <1>2
  <2>2. f = [i \in 0..Len(msg) |-> IF i = 0 THEN s ELSE PrintChar(f[i - 1], msg[i])]
    BY <1>3, <2>1, PrintingTurns
  <2>3. Len(msg) = 3
    BY <1>2
  <2> QED BY <2>2, <2>3
<1>5. PICK s1, s2, s3 : s1 = PrintChar(s, BACKSPACE) /\ s2 = PrintChar(s1, BLANK) /\ s3 = PrintChar(s2, BACKSPACE)
  OBVIOUS
<1>6. print(s, msg) = s3
  <2>1. f[0] = s /\ f[1] = PrintChar(f[0], msg[1])
    BY <1>4
  <2>2. f[2] = PrintChar(f[1], msg[2])
    BY <1>4
  <2>3. f[3] = PrintChar(f[2], msg[3])
    BY <1>4
  <2> QED BY <1>2, <1>3, <1>5, <2>1, <2>2, <2>3 DEF print
<1>7. OnScreen(s1) /\ s1.cells = s.cells /\ Offset(s1) = IF Offset(s) = 0 THEN 0 ELSE Offset(s) - 1
  BY <1>5, BackShows
<1>8. BLANK # BACKSPACE /\ BLANK # NEWLINE
  BY DEF BLANK, BACKSPACE, NEWLINE
<1>9. /\ OnScreen(s2) /\ IsCells(s2.cells)
      /\ BlankFrom(s1.cells, Offset(s1) + 1) => BlankFrom(s2.cells, Offset(s2) - 1)
      /\ \A n \in Nat : \A text, longer :
            /\ LineAt(s1.cells, Offset(s1), text, n) /\ n + 1 < MAX_ROWS * MAX_COLS
            /\ longer[n + 1] = BLANK /\ \A i \in 1..n : longer[i] = text[i]
            => LineAt(s2.cells, Offset(s2), longer, n + 1)
  BY <1>5, <1>7, <1>8, CharShows
<1>10. OnScreen(s3) /\ s3.cells = s2.cells /\ Offset(s3) = IF Offset(s2) = 0 THEN 0 ELSE Offset(s2) - 1
  BY <1>5, <1>9, BackShows
<1>11. PICK o0 \in Nat, o1 \in Nat, o2 \in Nat, o3 \in Nat :
           o0 = Offset(s) /\ o1 = Offset(s1) /\ o2 = Offset(s2) /\ o3 = Offset(s3)
  BY <1>7, <1>9, <1>10, ScreenOffset
<1>12. PICK e, g : e = s.cells /\ g = s2.cells
  OBVIOUS
<1>13. ASSUME BlankFrom(e, o0) PROVE BlankFrom(g, o3)
  <2>1. BlankFrom(e, o1 + 1)
    <3>1. o1 + 1 >= o0
      BY <1>7, <1>11
    <3>2. o1 + 1 \in Int
      BY <1>11
    <3> QED BY <1>11, <1>13, <3>1, <3>2, BlankLater
  <2>2. BlankFrom(g, o2 - 1)
    BY <1>7, <1>9, <1>11, <1>12, <2>1
  <2>3. o3 >= o2 - 1
    BY <1>10, <1>11
  <2>4. o2 - 1 \in Int
    BY <1>11
  <2> QED BY <1>11, <2>2, <2>3, <2>4, BlankLater
<1>14. ASSUME NEW n \in Nat, NEW text, LineAt(e, o0, text, n + 1), n + 1 < MAX_ROWS * MAX_COLS
       PROVE  LineAt(g, o3, text, n)
  <2>0. MAX_COLS \in Nat
    BY ScreenAssumption
  <2>1. LineAt(e, o1, text, n)
    <3>1. PICK q \in Nat : /\ o0 = (q * MAX_COLS) + (n + 1)
                           /\ \A i \in 1..(n + 1) : e[(q * MAX_COLS) + i - 1] = text[i]
      BY <1>14 DEF LineAt
    <3>2. PICK y \in Nat : y = q * MAX_COLS
      BY <2>0
    <3>3. o1 = y + n
      BY <1>7, <1>11, <3>1, <3>2
    <3>4. \A i \in 1..n : i \in 1..(n + 1)
      OBVIOUS
    <3> QED BY <3>1, <3>2, <3>3, <3>4 DEF LineAt
  <2>2. PICK longer : longer = [i \in 1..(n + 1) |-> IF i = n + 1 THEN BLANK ELSE text[i]]
    OBVIOUS
  <2>3. longer[n + 1] = BLANK /\ \A i \in 1..n : longer[i] = text[i]
    <3>1. n + 1 \in 1..(n + 1) /\ \A i \in 1..n : i \in 1..(n + 1) /\ i # n + 1
      OBVIOUS
    <3> QED BY <2>2, <3>1
  <2>4. LineAt(g, o2, longer, n + 1)
    BY <1>7, <1>9, <1>11, <1>12, <1>14, <2>1, <2>3
  <2>5. PICK q \in Nat : /\ o2 = (q * MAX_COLS) + (n + 1)
                         /\ \A i \in 1..(n + 1) : g[(q * MAX_COLS) + i - 1] = longer[i]
    BY <2>4 DEF LineAt
  <2>6. PICK y \in Nat : y = q * MAX_COLS
    BY <2>0
  <2>7. o3 = y + n
    BY <1>10, <1>11, <2>5, <2>6
  <2>8. \A i \in 1..n : i \in 1..(n + 1)
    OBVIOUS
  <2>9. \A i \in 1..n : g[y + i - 1] = text[i]
    BY <2>3, <2>5, <2>6, <2>8
  <2> QED BY <2>6, <2>7, <2>9 DEF LineAt
<1> QED BY <1>1, <1>6, <1>9, <1>10, <1>11, <1>12, <1>13, <1>14


LEMMA SameLine ==
    ASSUME NEW f, NEW v, NEW n, NEW text, NEW other, LineAt(f, v, text, n),
           \A i \in 1..n : other[i] = text[i]
    PROVE  LineAt(f, v, other, n)
BY DEF LineAt

\* Wherever a print starts, the cells stay the cells of the screen.
LEMMA CharKeepsCells ==
    ASSUME NEW s, NearScreen(s), IsCells(s.cells), NEW x
    PROVE  IsCells(PrintChar(s, x).cells)
<1>1. PICK e, r, k : e = s.cells /\ r = s.row /\ k = s.col
  OBVIOUS
<1>2. s = [cells |-> e, row |-> r, col |-> k]
  BY <1>1 DEF NearScreen, IsScreen
<1>3. ASSUME NEW f, NEW a, NEW b, IsCells(f)
      PROVE  IsCells(Scrolled([cells |-> f, row |-> a, col |-> b]).cells)
  <2>1. PICK u : u = [cells |-> f, row |-> a, col |-> b]
    OBVIOUS
  <2>2. PICK h : h = [j \in Cells |-> IF j + MAX_COLS \in Cells THEN u.cells[j + MAX_COLS] ELSE BLANK]
    OBVIOUS
  <2>3. PICK z : z = MAX_ROWS - 1
    OBVIOUS
  <2>4. PICK p : p = [u EXCEPT !.cells = h, !.row = z]
    OBVIOUS
  <2>5. p.cells = h /\ u.cells = f
    BY <2>1, <2>4
  <2>6. IsCells(h)
    BY <2>2 DEF IsCells
  <2>7. Scrolled(u) = p \/ Scrolled(u) = u
    BY <2>2, <2>3, <2>4 DEF Scrolled, scroll_screen
  <2> QED BY <1>3, <2>1, <2>5, <2>6, <2>7
<1>4. CASE x = NEWLINE
  <2>1. PICK a : a = r + 1
    OBVIOUS
  <2>2. NewLine(s) = [cells |-> e, row |-> a, col |-> 0]
    <3>1. PICK u : u = [s EXCEPT !.row = a]
      OBVIOUS
    <3>2. u = [cells |-> e, row |-> a, col |-> k]
      BY <1>2, <3>1
    <3>3. [u EXCEPT !.col = 0] = [cells |-> e, row |-> a, col |-> 0]
      BY <3>2
    <3> QED BY <1>1, <2>1, <3>1, <3>3 DEF NewLine
  <2> QED BY <1>1, <1>3, <1>4, <2>2 DEF PrintChar
<1>5. CASE x # NEWLINE /\ x = BACKSPACE
  <2>1. PICK a, b, j : a = r - 1 /\ b = MAX_COLS - 1 /\ j = k - 1
    OBVIOUS
  <2>2. \/ Back(s) = [cells |-> e, row |-> r, col |-> j]
        \/ Back(s) = [cells |-> e, row |-> a, col |-> b]
        \/ Back(s) = [cells |-> e, row |-> r, col |-> k]
    BY <1>2, <2>1 DEF Back
  <2> QED BY <1>1, <1>3, <1>5, <2>2 DEF PrintChar
<1>6. CASE x # NEWLINE /\ x # BACKSPACE
  <2>1. PICK a, j, o : a = r + 1 /\ j = k + 1 /\ o = Offset(s)
    OBVIOUS
  <2>2. PICK g : g = [e EXCEPT ![o] = x]
    OBVIOUS
  <2>3. IsCells(g)
    <3>1. PICK h : h = [i \in Cells |-> e[i]] /\ g = [h EXCEPT ![o] = x]
      BY <1>1, <2>2 DEF IsCells
    <3> QED BY <3>1 DEF IsCells
  <2>4. PICK v : v = [cells |-> g, row |-> r, col |-> j]
    OBVIOUS
  <2>5. Put(s, x) = Wrapped(v)
    <3>1. PICK u : u = [s EXCEPT !.cells = g]
      OBVIOUS
    <3>2. u = [cells |-> g, row |-> r, col |-> k]
      BY <1>2, <3>1
    <3>3. [u EXCEPT !.col = j] = v
      BY <2>4, <3>2
    <3> QED BY <1>1, <2>1, <2>2, <3>1, <3>3 DEF Put
  <2>6. Wrapped(v) = v \/ Wrapped(v) = [cells |-> g, row |-> a, col |-> 0]
    BY <2>1, <2>4 DEF Wrapped
  <2> QED BY <1>3, <1>6, <2>3, <2>4, <2>5, <2>6 DEF PrintChar
<1> QED BY <1>4, <1>5, <1>6

LEMMA PrintKeepsCells ==
    ASSUME NEW s, NearScreen(s), IsCells(s.cells), NEW msg, Len(msg) \in Nat
    PROVE  IsCells(print(s, msg).cells)
<1>1. PICK f : f = Printing(s, msg)
  OBVIOUS
<1>2. f = [i \in 0..Len(msg) |-> IF i = 0 THEN s ELSE PrintChar(f[i - 1], msg[i])]
  BY <1>1, PrintingTurns
<1>3. \A i \in 0..Len(msg) : NearScreen(f[i])
  BY <1>1, PrintLands
<1> DEFINE T == {i \in 0..Len(msg) : IsCells(f[i].cells)}
<1>4. 0 \in T
  BY <1>2
<1>5. ASSUME NEW i \in 1..Len(msg), i - 1 \in T
      PROVE  i \in T
  <2>1. i \in 0..Len(msg) /\ i # 0 /\ i - 1 \in 0..Len(msg)
    OBVIOUS
  <2>2. f[i] = PrintChar(f[i - 1], msg[i])
    BY <1>2, <2>1
  <2>3. IsCells(f[i].cells)
    BY <1>3, <1>5, <2>1, <2>2, CharKeepsCells
  <2> QED BY <2>1, <2>3
<1>6. 0..Len(msg) \subseteq T
  <2> HIDE DEF T
  <2> QED BY <1>4, <1>5, UpTo
<1>7. Len(msg) \in 0..Len(msg)
  OBVIOUS
<1> QED BY <1>1, <1>6, <1>7 DEF print


\* What kernel_main prints before its prompt: the newline is the last of it.
Banner == Len(BootText) - Len(PROMPT)

\* The cell of kernel_main's next character, before each statement of its print.
Target ==
    IF pc \in {"load_col", "store_col"} THEN Offset(scr) + 1
    ELSE IF pc \in {"load_row", "store_row"} THEN (scr.row * MAX_COLS) + MAX_COLS
    ELSE IF pc = "clear_col" THEN scr.row * MAX_COLS
    ELSE Offset(scr)

\* How many characters are on the screen.
Printed == IF pc = "write" THEN at - 1 ELSE at

\* n characters of BootText have been printed, up to cell v.
ShownUpTo(f, v, n) ==
    /\ BlankFrom(f, v)
    /\ n >= Banner => LineAt(f, v, PROMPT, n - Banner)

\* Nobody has typed: kernel_main's locals agree with the screen.
BootShows ==
    /\ ShownUpTo(scr.cells, Target, Printed)
    /\ pc \notin {"next", "hlt"} => at > 0 /\ c = BootText[at]
    /\ pc \in {"write", "load_col", "store_col", "wrap"} => c # NEWLINE
    /\ pc = "clear_col" => c = NEWLINE
    /\ pc = "write" => offset = Offset(scr)
    /\ pc = "store_col" => t = scr.col
    /\ pc = "store_row" => t = scr.row
    /\ pc \in {"load_row", "store_row"} /\ c # NEWLINE => scr.col = 0
    /\ pc = "scroll" /\ scr.row >= MAX_ROWS => scr.col = 0

\* The prompt and the line in buffer b.
LineText(b) ==
    [i \in 1..(Len(PROMPT) + BUFFER_SIZE) |->
        IF i <= Len(PROMPT) THEN PROMPT[i] ELSE b[i - Len(PROMPT) - 1]]

EchoInv ==
    /\ IsCells(scr.cells)
    /\ at \in Nat /\ at <= Len(BootText)
    /\ pc = "hlt" => at = Len(BootText)
    /\ Booting /\ littered => stale
    /\ Booting /\ ~littered => BootShows /\ buffer_index = 0
    /\ ~Booting /\ ~littered => BlankFrom(scr.cells, Offset(scr))
    /\ ~Booting /\ ~stale =>
          LineAt(scr.cells, Offset(scr), LineText(input_buffer), Len(PROMPT) + buffer_index)

\* The end of BootText.
LEMMA BannerEnds ==
    /\ Len(PROMPT) \in Nat /\ Len(BootText) \in Nat /\ Banner \in Nat \ {0}
    /\ Len(BootText) = Banner + Len(PROMPT) /\ BootText[Banner] = NEWLINE
    /\ \A i \in 1..Len(PROMPT) :
          BootText[Banner + i] = PROMPT[i] /\ PROMPT[i] # NEWLINE /\ PROMPT[i] # BACKSPACE
    /\ BUFFER_SIZE \in Nat \ {0} /\ Len(PROMPT) + BUFFER_SIZE <= MAX_ROWS * MAX_COLS
<1>1. PROMPT \in Seq(STRING) /\ BootText \in Seq(STRING) /\ BUFFER_SIZE \in Nat \ {0}
  BY KeyboardAssumption, ConsoleAssumption
<1>2. Len(PROMPT) \in Nat /\ DOMAIN PROMPT = 1..Len(PROMPT) /\ Len(BootText) \in Nat
  BY <1>1
<1>3. Banner \in Nat \ {0} /\ Len(BootText) = Banner + Len(PROMPT)
  BY <1>2, EchoAssumption DEF Banner
<1>4. BootText[Banner] = NEWLINE /\ Len(PROMPT) + BUFFER_SIZE <= MAX_ROWS * MAX_COLS
  BY EchoAssumption DEF Banner
<1>5. \A i \in DOMAIN PROMPT :
          BootText[Banner + i] = PROMPT[i] /\ PROMPT[i] # NEWLINE /\ PROMPT[i] # BACKSPACE
  BY EchoAssumption, Zenon DEF Banner, Editing
<1> QED BY <1>1, <1>2, <1>3, <1>4, <1>5

LEMMA EchoInit == Init => EchoInv
<1> SUFFICES ASSUME Init PROVE EchoInv
  OBVIOUS
<1>1. /\ scr = clear_screen /\ pc = "next" /\ at = 0 /\ littered = FALSE /\ buffer_index = 0
  BY DEF Init, ConsoleInit
<1>2. PICK e : e = [k \in Cells |-> BLANK]
  OBVIOUS
<1>3. scr.cells = e
  BY <1>1, <1>2 DEF clear_screen
<1>4. IsCells(e) /\ \A v : BlankFrom(e, v)
  BY <1>2 DEF IsCells, BlankFrom
<1>5. 0 <= Len(BootText) /\ ~(0 >= Banner)
  BY BannerEnds
<1>6. ShownUpTo(scr.cells, Target, Printed)
  BY <1>1, <1>3, <1>4, <1>5 DEF ShownUpTo, Printed
<1>7. BootShows
  BY <1>1, <1>6 DEF BootShows
<1> QED BY <1>1, <1>3, <1>4, <1>5, <1>7 DEF EchoInv, Booting


\* A statement of kernel_main's print, when nobody has typed.
LEMMA MainShows ==
    ASSUME CursorInv, EchoInv, BootShows, MainStep
    PROVE  BootShows'
<1>0. /\ MAX_ROWS \in Nat \ {0} /\ MAX_COLS \in Nat \ {0} /\ at \in Nat /\ at <= Len(BootText)
      /\ Len(BootText) \in Nat /\ Banner \in Nat \ {0}
  BY ScreenAssumption, BannerEnds DEF EchoInv
<1>1. /\ IsScreen(scr) /\ scr.row \in Nat /\ scr.col \in Nat /\ NearScreen(scr)
      /\ scr.row * MAX_COLS \in Nat /\ Offset(scr) = (scr.row * MAX_COLS) + scr.col
  BY <1>0 DEF CursorInv, NearScreen, IsScreen, Offset
<1>2. CASE next_char
  <2>1. /\ pc = "next" /\ at' = at + 1 /\ c' = BootText[at + 1] /\ scr' = scr /\ at < Len(BootText)
        /\ ShownUpTo(scr.cells, Offset(scr), at)
    BY <1>2 DEF next_char, BootShows, Target, Printed
  <2>2. OnScreen(scr)
    BY <1>1, <2>1 DEF CursorInv, OnScreen
  <2>3. at' > 0 /\ c' = BootText[at']
    BY <1>0, <2>1
  <2>4. CASE BootText[at + 1] = NEWLINE
    <3>1. pc' = "load_row" /\ c' = NEWLINE
      BY <1>2, <2>1, <2>4 DEF next_char
    <3>2. PICK v \in Nat, d \in Nat : /\ v = (scr.row * MAX_COLS) + MAX_COLS /\ v >= Offset(scr)
                                     /\ v = (d * MAX_COLS) + 0
      <4>1. PICK r \in Nat, k \in Nat : r = scr.row /\ k = scr.col /\ k < MAX_COLS
        BY <2>2, ScreenOffset
      <4>2. PICK y \in Nat : y = r * MAX_COLS /\ (r + 1) * MAX_COLS = y + MAX_COLS
        <5>1. r * MAX_COLS \in Nat /\ (r + 1) * MAX_COLS = (r * MAX_COLS) + MAX_COLS
          BY <1>0, RowsInOrder
        <5> QED BY <5>1
      <4>3. Offset(scr) = y + k
        BY <1>1, <4>1, <4>2
      <4>4. PICK v \in Nat : v = y + MAX_COLS
        BY <1>0
      <4>5. v >= Offset(scr) /\ v = (scr.row * MAX_COLS) + MAX_COLS
        <5>1. v >= y + k
          BY <1>0, <4>1, <4>4
        <5>2. scr.row * MAX_COLS = y
          BY <4>1, <4>2
        <5> QED BY <4>3, <4>4, <5>1, <5>2
      <4>6. r + 1 \in Nat /\ v = ((r + 1) * MAX_COLS) + 0
        BY <4>2, <4>4
      <4> QED BY <4>5, <4>6
    <3>3. BlankFrom(scr.cells, v)
      <4>1. BlankFrom(scr.cells, Offset(scr)) /\ Offset(scr) \in Int
        BY <1>0, <1>1, <2>1 DEF ShownUpTo
      <4>2. PICK e, o : e = scr.cells /\ o = Offset(scr)
        OBVIOUS
      <4> QED BY <3>2, <4>1, <4>2, BlankLater
    <3>4. ASSUME at + 1 >= Banner PROVE LineAt(scr.cells, v, PROMPT, (at + 1) - Banner)
      <4>1. at + 1 = Banner
        <5>1. CASE at + 1 > Banner
          <6>1. PICK i \in 1..Len(PROMPT) : at + 1 = Banner + i
            <7>1. (at + 1) - Banner \in 1..Len(PROMPT) /\ at + 1 = Banner + ((at + 1) - Banner)
              BY <1>0, <2>1, <5>1, BannerEnds
            <7> QED BY <7>1
          <6> QED BY <2>4, <6>1, BannerEnds
        <5> QED BY <1>0, <3>4, <5>1
      <4>2. (at + 1) - Banner = 0
        BY <1>0, <4>1
      <4> QED BY <3>2, <4>2 DEF LineAt
    <3>5. ShownUpTo(scr'.cells, Target', Printed')
      <4>1. Target' = v /\ Printed' = at + 1
        BY <2>1, <3>1, <3>2 DEF Target, Printed
      <4> QED BY <2>1, <3>3, <3>4, <4>1 DEF ShownUpTo
    <3> QED BY <2>3, <3>1, <3>5 DEF BootShows
  <2>5. CASE BootText[at + 1] # NEWLINE
    <3>1. pc' = "write" /\ c' # NEWLINE /\ offset' = Offset(scr)
      BY <1>2, <2>1, <2>5 DEF next_char
    <3>2. Offset(scr') = Offset(scr)
      BY <2>1
    <3>3. Target' = Offset(scr) /\ Printed' = at
      <4>1. at' - 1 = at
        BY <1>0, <2>1
      <4> QED BY <3>1, <3>2, <4>1 DEF Target, Printed
    <3>4. ShownUpTo(scr'.cells, Target', Printed')
      BY <2>1, <3>3
    <3> QED BY <2>3, <3>1, <3>2, <3>4 DEF BootShows
  <2> QED BY <2>4, <2>5
<1>3. CASE hlt
  <2>1. pc = "next" /\ pc' = "hlt" /\ scr' = scr /\ at' = at
    BY <1>3 DEF hlt
  <2>2. Target' = Target /\ Printed' = Printed
    BY <2>1 DEF Target, Printed, Offset
  <2> QED BY <2>1, <2>2 DEF BootShows
<1>4. CASE write_cell
  <2>1. /\ pc = "write" /\ pc' = "load_col" /\ at' = at /\ c' = c /\ c # NEWLINE
        /\ offset = Offset(scr) /\ at > 0 /\ c = BootText[at]
        /\ ShownUpTo(scr.cells, Offset(scr), at - 1)
    BY <1>4 DEF write_cell, BootShows, Target, Printed
  <2>2. PICK e, g, o : e = scr.cells /\ o = Offset(scr) /\ g = With(e, o, c)
    OBVIOUS
  <2>3. scr' = [scr EXCEPT !.cells = g]
    BY <1>4, <2>1, <2>2 DEF write_cell, With
  <2>4. scr'.cells = g /\ scr'.row = scr.row /\ scr'.col = scr.col
    BY <1>1, <2>3 DEF IsScreen
  <2>5. OnScreen(scr)
    BY <1>1, <2>1 DEF CursorInv, OnScreen
  <2>6. o \in Cells /\ o \in Nat /\ IsCells(e)
    BY <2>2, <2>5, ScreenOffset DEF EchoInv
  <2>7. /\ BlankFrom(e, o) => BlankFrom(g, o + 1)
        /\ \A n \in Nat : \A text, longer :
              /\ LineAt(e, o, text, n) /\ longer[n + 1] = c
              /\ \A i \in 1..n : longer[i] = text[i]
              => LineAt(g, o + 1, longer, n + 1)
    BY <2>2, <2>6, WriteShows
  <2>8. ASSUME at >= Banner PROVE LineAt(g, o + 1, PROMPT, at - Banner)
    <3>1. at # Banner
      BY <2>1, BannerEnds
    <3>2. PICK n \in Nat : n = (at - 1) - Banner /\ n + 1 = at - Banner /\ n + 1 \in 1..Len(PROMPT)
                           /\ at = Banner + (n + 1)
      <4>1. /\ (at - 1) - Banner \in Nat /\ ((at - 1) - Banner) + 1 = at - Banner
            /\ at - Banner \in 1..Len(PROMPT) /\ at = Banner + (at - Banner)
        BY <1>0, <2>8, <3>1, BannerEnds
      <4> QED BY <4>1
    <3>3. LineAt(e, o, PROMPT, n)
      <4>1. at - 1 >= Banner
        BY <1>0, <2>8, <3>1
      <4> QED BY <2>1, <2>2, <3>2, <4>1 DEF ShownUpTo
    <3>4. PROMPT[n + 1] = c
      BY <2>1, <3>2, BannerEnds
    <3>5. LineAt(g, o + 1, PROMPT, n + 1)
      BY <2>7, <3>3, <3>4
    <3> QED BY <3>2, <3>5
  <2>9. Target' = o + 1 /\ Printed' = at
    <3>1. Offset(scr') = o
      BY <2>2, <2>4 DEF Offset
    <3> QED BY <2>1, <3>1 DEF Target, Printed
  <2>10. ShownUpTo(scr'.cells, Target', Printed')
    BY <2>1, <2>2, <2>4, <2>7, <2>8, <2>9 DEF ShownUpTo
  <2> QED BY <2>1, <2>10 DEF BootShows
<1>5. CASE load_col
  <2>1. pc = "load_col" /\ pc' = "store_col" /\ scr' = scr /\ UNCHANGED <<at, c>> /\ t' = scr.col
    BY <1>5 DEF load_col
  <2>2. Target' = Target /\ Printed' = Printed
    BY <2>1 DEF Target, Printed, Offset
  <2> QED BY <2>1, <2>2 DEF BootShows
<1>6. CASE store_col
  <2>1. pc = "store_col" /\ pc' = "wrap" /\ t = scr.col /\ UNCHANGED <<at, c>>
    BY <1>6 DEF store_col, BootShows
  <2>2. PICK k \in Nat : k = scr.col + 1
    BY <1>1
  <2>3. scr' = [scr EXCEPT !.col = k]
    BY <1>6, <2>1, <2>2 DEF store_col
  <2>4. scr'.cells = scr.cells /\ scr'.row = scr.row /\ scr'.col = k
    BY <1>1, <2>3 DEF IsScreen
  <2>5. Target' = Target /\ Printed' = Printed
    <3>1. Target = Offset(scr) + 1 /\ Target' = (scr.row * MAX_COLS) + k
      BY <2>1, <2>4 DEF Target, Offset
    <3> QED BY <1>1, <2>1, <2>2, <3>1 DEF Printed
  <2> QED BY <2>1, <2>4, <2>5 DEF BootShows
<1>7. CASE wrap
  <2>1. pc = "wrap" /\ UNCHANGED <<at, c, offset, t>> /\ scr.row < MAX_ROWS /\ Target = Offset(scr)
    BY <1>7 DEF wrap, CursorInv, Target
  <2>2. CASE scr.col >= MAX_COLS
    <3>1. scr' = [scr EXCEPT !.col = 0] /\ pc' = "load_row"
      BY <1>7, <2>2 DEF wrap
    <3>2. scr'.cells = scr.cells /\ scr'.row = scr.row /\ scr'.col = 0
      BY <1>1, <3>1 DEF IsScreen
    <3>3. scr.col = MAX_COLS
      BY <1>0, <1>1, <2>2 DEF NearScreen
    <3>4. Target' = Target /\ Printed' = Printed
      <4>1. Target' = (scr.row * MAX_COLS) + MAX_COLS
        BY <3>1, <3>2 DEF Target
      <4> QED BY <1>1, <2>1, <3>1, <3>3, <4>1 DEF Printed
    <3> QED BY <2>1, <3>1, <3>2, <3>4 DEF BootShows
  <2>3. CASE ~(scr.col >= MAX_COLS)
    <3>1. scr' = scr /\ pc' = "scroll"
      BY <1>7, <2>3 DEF wrap
    <3>2. Target' = Target /\ Printed' = Printed
      BY <2>1, <3>1 DEF Target, Printed, Offset
    <3>3. ~(scr.row >= MAX_ROWS)
      BY <1>0, <1>1, <2>1
    <3> QED BY <2>1, <3>1, <3>2, <3>3 DEF BootShows
  <2> QED BY <2>2, <2>3
<1>8. CASE load_row
  <2>1. pc = "load_row" /\ pc' = "store_row" /\ scr' = scr /\ UNCHANGED <<at, c>> /\ t' = scr.row
    BY <1>8 DEF load_row
  <2>2. Target' = Target /\ Printed' = Printed
    BY <2>1 DEF Target, Printed
  <2> QED BY <2>1, <2>2 DEF BootShows
<1>9. CASE store_row
  <2>1. pc = "store_row" /\ t = scr.row /\ UNCHANGED <<at, c>>
    BY <1>9 DEF store_row, BootShows
  <2>2. PICK r \in Nat : r = scr.row + 1
    BY <1>1
  <2>3. scr' = [scr EXCEPT !.row = r]
    BY <1>9, <2>1, <2>2 DEF store_row
  <2>4. scr'.cells = scr.cells /\ scr'.row = r /\ scr'.col = scr.col
    BY <1>1, <2>3 DEF IsScreen
  <2>5. Target = (scr.row * MAX_COLS) + MAX_COLS /\ r * MAX_COLS = (scr.row * MAX_COLS) + MAX_COLS
    <3>1. PICK d \in Nat : d = scr.row
      BY <1>1
    <3>2. (d + 1) * MAX_COLS = (d * MAX_COLS) + MAX_COLS
      BY <1>0, RowsInOrder
    <3> QED BY <2>1, <2>2, <3>1, <3>2 DEF Target
  <2>6. CASE c = NEWLINE
    <3>1. pc' = "clear_col"
      BY <1>9, <2>6 DEF store_row
    <3>2. Target' = Target /\ Printed' = Printed
      BY <2>1, <2>4, <2>5, <3>1 DEF Target, Printed
    <3> QED BY <2>1, <2>4, <2>6, <3>1, <3>2 DEF BootShows
  <2>7. CASE c # NEWLINE
    <3>1. pc' = "scroll" /\ scr.col = 0
      BY <1>9, <2>1, <2>7 DEF store_row, BootShows
    <3>2. Target' = Target /\ Printed' = Printed
      <4>1. Target' = (r * MAX_COLS) + 0
        BY <2>4, <3>1 DEF Target, Offset
      <4>2. r * MAX_COLS \in Nat
        BY <1>0
      <4> QED BY <2>1, <2>5, <3>1, <4>1, <4>2 DEF Printed
    <3> QED BY <2>1, <2>4, <3>1, <3>2 DEF BootShows
  <2> QED BY <2>6, <2>7
<1>10. CASE clear_col
  <2>1. pc = "clear_col" /\ pc' = "scroll" /\ scr' = [scr EXCEPT !.col = 0] /\ UNCHANGED <<at, c>>
    BY <1>10 DEF clear_col
  <2>2. scr'.cells = scr.cells /\ scr'.row = scr.row /\ scr'.col = 0
    BY <1>1, <2>1 DEF IsScreen
  <2>3. Target' = Target /\ Printed' = Printed
    <3>1. Target = scr.row * MAX_COLS /\ Target' = (scr.row * MAX_COLS) + 0
      BY <2>1, <2>2 DEF Target, Offset
    <3> QED BY <1>1, <2>1, <3>1 DEF Printed
  <2> QED BY <2>1, <2>2, <2>3 DEF BootShows
<1>11. CASE scroll
  <2>1. /\ pc = "scroll" /\ pc' = "next" /\ scr' = Scrolled(scr) /\ at' = at
        /\ ShownUpTo(scr.cells, Offset(scr), at)
        /\ scr.col < MAX_COLS /\ scr.row <= MAX_ROWS /\ (scr.row >= MAX_ROWS => scr.col = 0)
    BY <1>11 DEF scroll, BootShows, Target, Printed, CursorInv, NearScreen
  <2>2. IsCells(scr.cells)
    BY DEF EchoInv
  <2>3. PICK p, s : s = scr /\ p = Scrolled(s)
    OBVIOUS
  <2>4. /\ BlankFrom(s.cells, Offset(s)) => BlankFrom(p.cells, Offset(p))
        /\ \A n \in Nat : \A text :
              LineAt(s.cells, Offset(s), text, n) /\ n < MAX_ROWS * MAX_COLS
              => LineAt(p.cells, Offset(p), text, n)
    BY <1>1, <2>1, <2>2, <2>3, ScrolledShows
  <2>5. ASSUME at >= Banner PROVE LineAt(p.cells, Offset(p), PROMPT, at - Banner)
    <3>1. PICK n \in Nat : n = at - Banner /\ n < MAX_ROWS * MAX_COLS
      <4>1. MAX_ROWS * MAX_COLS \in Nat
        BY Area
      <4>2. at - Banner \in Nat /\ at - Banner < MAX_ROWS * MAX_COLS
        BY <1>0, <2>5, <4>1, BannerEnds
      <4> QED BY <4>2
    <3> QED BY <2>1, <2>3, <2>4, <2>5, <3>1 DEF ShownUpTo
  <2>6. ShownUpTo(p.cells, Offset(p), at)
    BY <2>1, <2>3, <2>4, <2>5 DEF ShownUpTo
  <2>7. Target' = Offset(p) /\ Printed' = at
    BY <2>1, <2>3 DEF Target, Printed
  <2> QED BY <2>1, <2>3, <2>6, <2>7 DEF BootShows
<1> QED BY <1>2, <1>3, <1>4, <1>5, <1>6, <1>7, <1>8, <1>9, <1>10, <1>11 DEF MainStep


LEMMA LineTextIs ==
    ASSUME NEW b
    PROVE  /\ \A i \in 1..Len(PROMPT) : LineText(b)[i] = PROMPT[i]
           /\ \A j \in Index : LineText(b)[Len(PROMPT) + j + 1] = b[j]
<1>1. PICK len \in Nat : len = Len(PROMPT)
  BY BannerEnds
<1>2. BUFFER_SIZE \in Nat
  BY BannerEnds
<1>3. LineText(b) = [i \in 1..(len + BUFFER_SIZE) |-> IF i <= len THEN PROMPT[i] ELSE b[i - len - 1]]
  BY <1>1 DEF LineText
<1>4. \A i \in 1..len : i \in 1..(len + BUFFER_SIZE) /\ i <= len
  BY <1>2
<1>5. \A j \in Index : /\ len + j + 1 \in 1..(len + BUFFER_SIZE) /\ ~(len + j + 1 <= len)
                       /\ (len + j + 1) - len - 1 = j
  BY <1>2 DEF Index
<1> QED BY <1>1, <1>3, <1>4, <1>5

\* A statement of kernel_main's print; at the end of it the prompt is on the screen.
LEMMA MainKeepsEcho ==
    ASSUME CursorInv, EchoInv, MainStep, UNCHANGED <<input_buffer, buffer_index, stale, littered>>
    PROVE  EchoInv'
<1>0. pc # "hlt" /\ Len(BootText) \in Nat
  BY BannerEnds DEF MainStep, next_char, hlt, write_cell, load_col, store_col, wrap, load_row,
                    store_row, clear_col, scroll
<1>1. IsCells(scr'.cells)
  <2>0. IsCells(scr.cells) /\ IsScreen(scr)
    BY DEF EchoInv, CursorInv, NearScreen
  <2>1. CASE write_cell
    <3>1. PICK e, g : e = scr.cells /\ g = [e EXCEPT ![offset] = c]
      OBVIOUS
    <3>2. scr' = [scr EXCEPT !.cells = g]
      BY <2>1, <3>1 DEF write_cell
    <3>3. scr'.cells = g
      BY <2>0, <3>2 DEF IsScreen
    <3>4. PICK h : h = [k \in Cells |-> e[k]] /\ g = [h EXCEPT ![offset] = c]
      BY <2>0, <3>1 DEF IsCells
    <3> QED BY <3>3, <3>4 DEF IsCells
  <2>2. CASE scroll
    <3>1. scr' = Scrolled(scr)
      BY <2>2 DEF scroll
    <3>2. PICK e, h, r : /\ e = scr.cells /\ r = MAX_ROWS - 1
                         /\ h = [k \in Cells |-> IF k + MAX_COLS \in Cells THEN e[k + MAX_COLS] ELSE BLANK]
      OBVIOUS
    <3>3. PICK p : p = [scr EXCEPT !.cells = h, !.row = r]
      OBVIOUS
    <3>4. scr' = p \/ scr' = scr
      BY <3>1, <3>2, <3>3 DEF Scrolled, scroll_screen
    <3>5. p.cells = h
      BY <2>0, <3>3 DEF IsScreen
    <3>6. IsCells(h)
      BY <3>2 DEF IsCells
    <3> QED BY <2>0, <3>4, <3>5, <3>6
  <2>3. CASE store_col
    <3>1. PICK k : k = t + 1
      OBVIOUS
    <3>2. scr' = [scr EXCEPT !.col = k]
      BY <2>3, <3>1 DEF store_col
    <3> QED BY <2>0, <3>2 DEF IsScreen
  <2>4. CASE store_row
    <3>1. PICK k : k = t + 1
      OBVIOUS
    <3>2. scr' = [scr EXCEPT !.row = k]
      BY <2>4, <3>1 DEF store_row
    <3> QED BY <2>0, <3>2 DEF IsScreen
  <2>5. CASE wrap \/ clear_col
    <3>1. scr' = [scr EXCEPT !.col = 0] \/ scr' = scr
      BY <2>5 DEF wrap, clear_col
    <3> QED BY <2>0, <3>1 DEF IsScreen
  <2>6. CASE next_char \/ hlt \/ load_col \/ load_row
    BY <2>0, <2>6 DEF next_char, hlt, load_col, load_row
  <2> QED BY <2>1, <2>2, <2>3, <2>4, <2>5, <2>6 DEF MainStep
<1>2. at' \in Nat /\ at' <= Len(BootText) /\ (pc' = "hlt" => at' = Len(BootText))
  <2>1. CASE next_char
    BY <1>0, <2>1 DEF next_char, EchoInv
  <2>2. CASE hlt
    BY <1>0, <2>2 DEF hlt, EchoInv
  <2>3. CASE ~next_char /\ ~hlt
    <3>1. at' = at /\ pc' # "hlt"
      BY <2>3 DEF MainStep, write_cell, load_col, store_col, wrap, load_row,
                  store_row, clear_col, scroll
    <3> QED BY <3>1 DEF EchoInv
  <2> QED BY <2>1, <2>2, <2>3
<1>3. CASE littered
  BY <1>0, <1>1, <1>2, <1>3 DEF EchoInv, Booting
<1>4. CASE ~littered
  <2>1. BootShows /\ buffer_index = 0
    BY <1>0, <1>4 DEF EchoInv, Booting
  <2>2. BootShows'
    BY <2>1, MainShows
  <2>3. CASE pc' # "hlt"
    BY <1>1, <1>2, <1>4, <2>1, <2>2, <2>3 DEF EchoInv, Booting
  <2>4. CASE pc' = "hlt"
    <3>1. ShownUpTo(scr'.cells, Offset(scr'), Len(BootText))
      BY <1>2, <2>2, <2>4 DEF BootShows, Target, Printed
    <3>2. PICK f, v, len, text : /\ f = scr'.cells /\ v = Offset(scr') /\ len = Len(PROMPT)
                                 /\ text = LineText(input_buffer)
      OBVIOUS
    <3>3. LineAt(f, v, PROMPT, len)
      <4>1. Len(BootText) >= Banner /\ Len(BootText) - Banner = len
        BY <3>2, BannerEnds
      <4> QED BY <3>1, <3>2, <4>1 DEF ShownUpTo
    <3>4. \A i \in 1..len : text[i] = PROMPT[i]
      BY <3>2, LineTextIs
    <3>5. LineAt(f, v, text, len)
      BY <3>3, <3>4, SameLine
    <3>6. len + buffer_index = len
      BY <2>1, <3>2, BannerEnds
    <3>7. LineAt(scr'.cells, Offset(scr'), LineText(input_buffer'), Len(PROMPT) + buffer_index')
      BY <3>2, <3>5, <3>6
    <3> QED BY <1>1, <1>2, <1>4, <2>4, <3>1, <3>7 DEF EchoInv, Booting, ShownUpTo
  <2> QED BY <2>3, <2>4
<1> QED BY <1>3, <1>4


LEMMA PrintOne ==
    ASSUME NEW s, NEW x
    PROVE  print(s, <<x>>) = PrintChar(s, x)
<1>1. PICK msg, f : msg = <<x>> /\ f = Printing(s, msg)
  OBVIOUS
<1>2. Len(msg) = 1 /\ msg[1] = x /\ Len(msg) \in Nat
  BY <1>1
<1>3. f = [i \in 0..Len(msg) |-> IF i = 0 THEN s ELSE PrintChar(f[i - 1], msg[i])]
  BY <1>1, <1>2, PrintingTurns
<1>4. f = [i \in 0..1 |-> IF i = 0 THEN s ELSE PrintChar(f[i - 1], msg[i])]
  BY <1>2, <1>3
<1>5. f[0] = s /\ f[1] = PrintChar(f[0], msg[1])
  BY <1>4
<1> QED BY <1>1, <1>2, <1>5 DEF print

\* A text without backspaces, and one that ends with a newline.
TextChars == STRING \cup {NEWLINE}
Plain(a) == a \in Seq(TextChars) /\ \A i \in 1..Len(a) : a[i] # BACKSPACE
EndsLine(a) == Plain(a) /\ Len(a) > 0 /\ a[Len(a)] = NEWLINE

LEMMA Joined ==
    ASSUME NEW S, NEW a \in Seq(S), NEW b \in Seq(S)
    PROVE  /\ a \o b \in Seq(S) /\ Len(a) \in Nat /\ Len(b) \in Nat
           /\ Len(a \o b) = Len(a) + Len(b)
           /\ \A i \in 1..Len(a) : (a \o b)[i] = a[i]
           /\ \A i \in 1..Len(b) : (a \o b)[Len(a) + i] = b[i]
OBVIOUS

LEMMA PlainJoin ==
    ASSUME NEW a, NEW b, Plain(a), Plain(b)
    PROVE  /\ Plain(a \o b) /\ Len(a \o b) = Len(a) + Len(b) /\ Len(a) \in Nat /\ Len(b) \in Nat
           /\ EndsLine(b) => EndsLine(a \o b)
<1> DEFINE S == TextChars
<1>1. a \in Seq(S) /\ b \in Seq(S)
  BY DEF Plain
<1> HIDE DEF S
<1>2. PICK d, m, n : d = a \o b /\ m = Len(a) /\ n = Len(b)
  OBVIOUS
<1>3. /\ d \in Seq(S) /\ m \in Nat /\ n \in Nat /\ Len(d) = m + n
      /\ \A i \in 1..m : d[i] = a[i]
      /\ \A i \in 1..n : d[m + i] = b[i]
  BY <1>1, <1>2, Joined
<1>4. ASSUME NEW i \in 1..(m + n) PROVE d[i] # BACKSPACE
  <2>1. CASE i <= m
    <3>1. i \in 1..m
      BY <1>3, <2>1
    <3> QED BY <1>2, <1>3, <3>1 DEF Plain
  <2>2. CASE ~(i <= m)
    <3>1. PICK j \in 1..n : i = m + j
      <4>1. i - m \in 1..n /\ i = m + (i - m)
        BY <1>3, <2>2
      <4> QED BY <4>1
    <3> QED BY <1>2, <1>3, <3>1 DEF Plain
  <2> QED BY <2>1, <2>2
<1>5. Plain(d)
  BY <1>3, <1>4 DEF Plain, S
<1>6. ASSUME EndsLine(b) PROVE EndsLine(d)
  <2>1. n > 0 /\ b[n] = NEWLINE
    BY <1>2, <1>6 DEF EndsLine
  <2>2. n \in 1..n /\ m + n > 0
    BY <1>3, <2>1
  <2> QED BY <1>3, <1>5, <2>1, <2>2 DEF EndsLine
<1> QED BY <1>2, <1>3, <1>5, <1>6

\* A text that ends with a newline, with the prompt behind it.
LEMMA PromptText ==
    ASSUME NEW a, EndsLine(a)
    PROVE  LET msg == a \o PROMPT
           IN  /\ Len(msg) \in Nat /\ Len(a) \in Nat /\ Len(msg) - Len(a) = Len(PROMPT)
               /\ Len(a) \in 1..(Len(msg) + 1) /\ Len(a) <= Len(msg) /\ msg[Len(a)] = NEWLINE
               /\ \A i \in 1..Len(msg) : msg[i] # BACKSPACE
               /\ \A i \in (Len(a) + 1)..Len(msg) : msg[i] # NEWLINE /\ PROMPT[i - Len(a)] = msg[i]
<1>b. PICK msg : msg = a \o PROMPT
  OBVIOUS
<1> DEFINE S == TextChars
<1>0. a \in Seq(S) /\ PROMPT \in Seq(S) /\ Len(a) > 0 /\ a[Len(a)] = NEWLINE /\ Plain(a)
  BY KeyboardAssumption DEF EndsLine, Plain, TextChars
<1>a. Plain(PROMPT)
  BY <1>0, BannerEnds DEF Plain
<1> HIDE DEF S
<1>1. PICK m, len : m = Len(a) /\ len = Len(PROMPT)
  OBVIOUS
<1>2. /\ Len(msg) = m + len /\ m \in Nat /\ len \in Nat
      /\ \A i \in 1..m : msg[i] = a[i]
      /\ \A i \in 1..len : msg[m + i] = PROMPT[i]
  BY <1>0, <1>1, <1>b, Joined
<1>3. ASSUME NEW i \in (m + 1)..(m + len)
      PROVE  msg[i] = PROMPT[i - m] /\ PROMPT[i - m] # NEWLINE
  <2>1. PICK j \in 1..len : i = m + j /\ i - m = j
    <3>1. i - m \in 1..len /\ i = m + (i - m)
      BY <1>2
    <3> QED BY <3>1
  <2> QED BY <1>1, <1>2, <2>1, BannerEnds
<1>4. \A i \in 1..Len(msg) : msg[i] # BACKSPACE
  BY <1>0, <1>a, <1>b, PlainJoin DEF Plain
<1>5. m \in 1..m
  BY <1>0, <1>1, <1>2
<1>6. msg[m] = NEWLINE
  BY <1>0, <1>1, <1>2, <1>5
<1>7. (m + len) - m = len /\ m \in 1..(m + len + 1) /\ m <= m + len
  BY <1>0, <1>1, <1>2
<1> QED BY <1>b, <1>1, <1>2, <1>3, <1>4, <1>6, <1>7

\* The texts that execute_command prints before its prompt.
LEMMA OutputTexts ==
    ASSUME NEW out \in Outputs
    PROVE  /\ EndsLine(<<NEWLINE>>) /\ EndsLine(<<NEWLINE>> \o out \o <<NEWLINE>>)
           /\ Plain(<<NEWLINE>> \o out) /\ Len(<<NEWLINE>> \o out) \in Nat
           /\ Len(<<NEWLINE>> \o out) > 0
<1>1. out \in Seq(STRING)
  BY KeyboardAssumption
<1>2. out \in Seq(TextChars)
  BY <1>1 DEF TextChars
<1>3. Plain(out)
  <2>1. DOMAIN out = 1..Len(out)
    BY <1>1
  <2> QED BY <1>2, <2>1, EchoAssumption DEF Plain
<1>4. PICK z, n : z = NEWLINE /\ n = <<z>>
  OBVIOUS
<1>5. z \in TextChars /\ z # BACKSPACE
  BY <1>4 DEF TextChars, NEWLINE, BACKSPACE
<1>6. n \in Seq(TextChars) /\ Len(n) = 1 /\ n[1] = z
  BY <1>4, <1>5
<1>7. Plain(n) /\ EndsLine(n)
  BY <1>4, <1>5, <1>6 DEF Plain, EndsLine
<1>8. PICK a : a = n \o out
  OBVIOUS
<1>9. Plain(a) /\ Len(a) = 1 + Len(out) /\ Len(out) \in Nat
  BY <1>3, <1>6, <1>7, <1>8, PlainJoin
<1>10. Len(a) \in Nat /\ Len(a) > 0
  BY <1>9
<1>11. EndsLine(a \o n)
  BY <1>7, <1>9, PlainJoin
<1> QED BY <1>4, <1>7, <1>8, <1>9, <1>10, <1>11


\* What a key has to leave behind.
LEMMA KeyEcho ==
    ASSUME EchoInv, UNCHANGED main, IsCells(scr'.cells),
           Booting => stale' /\ littered',
           ~Booting /\ ~littered' => BlankFrom(scr'.cells, Offset(scr')),
           ~Booting /\ ~stale' =>
              LineAt(scr'.cells, Offset(scr'), LineText(input_buffer'), Len(PROMPT) + buffer_index')
    PROVE  EchoInv'
<1>1. pc' = pc /\ at' = at /\ Booting' = Booting
  BY DEF main, Booting
<1> QED BY <1>1 DEF EchoInv

\* A key that is echoed.
LEMMA CharKeepsEcho ==
    ASSUME CursorInv, BufferInv, EchoInv, NEW k \in Letters \cup {BLANK}, key_char(k)
    PROVE  EchoInv'
<1>0. /\ UNCHANGED main /\ NearScreen(scr) /\ IsCells(scr.cells)
      /\ stale' = (stale \/ Booting) /\ littered' = (littered \/ Booting)
  BY DEF key_char, Pressed, CursorInv, EchoInv
<1>1. CASE ~RoomFor
  <2>1. UNCHANGED <<input_buffer, buffer_index, scr>>
    BY <1>1 DEF key_char
  <2>2. ~Booting /\ ~littered' => BlankFrom(scr'.cells, Offset(scr'))
    BY <1>0, <2>1 DEF EchoInv
  <2>3. ~Booting /\ ~stale' =>
           LineAt(scr'.cells, Offset(scr'), LineText(input_buffer'), Len(PROMPT) + buffer_index')
    BY <1>0, <2>1 DEF EchoInv
  <2> QED BY <1>0, <2>1, <2>2, <2>3, KeyEcho
<1>2. CASE RoomFor
  <2>1. PICK x, p : x = Ascii(k) /\ p = PrintChar(scr, x)
    OBVIOUS
  <2>2. /\ scr' = p /\ buffer_index' = buffer_index + 1
        /\ input_buffer' = [input_buffer EXCEPT ![buffer_index] = x]
    BY <1>2, <2>1, PrintOne DEF key_char, Shows
  <2>3. x # NEWLINE /\ x # BACKSPACE
    <3>1. BLANK # NEWLINE /\ BLANK # BACKSPACE
      BY Zenon DEF BLANK, NEWLINE, BACKSPACE
    <3>2. \A j \in Letters : /\ j # NEWLINE /\ j # BACKSPACE
                             /\ Upper[j] # NEWLINE /\ Upper[j] # BACKSPACE
      BY EchoAssumption, Zenon DEF Editing
    <3> QED BY <2>1, <3>1, <3>2 DEF Ascii
  <2>4. IsCells(p.cells)
    BY <1>0, <2>1, CharKeepsCells
  <2>5. CASE Booting
    BY <1>0, <2>2, <2>4, <2>5, KeyEcho
  <2>6. CASE ~Booting
    <3>1. OnScreen(scr)
      BY <1>0, <2>6 DEF Booting, CursorInv, OnScreen, NearScreen
    <3>2. BlankFrom(scr.cells, Offset(scr)) => BlankFrom(p.cells, Offset(p))
      BY <1>0, <2>1, <2>3, <3>1, CharShows
    <3>3. PICK len \in Nat : len = Len(PROMPT)
      BY BannerEnds
    <3>4. PICK n \in Nat : n = len + buffer_index /\ n + 1 < MAX_ROWS * MAX_COLS /\ buffer_index \in Index
      <4>1. /\ buffer_index \in Index /\ buffer_index \in Nat /\ BUFFER_SIZE \in Nat
            /\ buffer_index < BUFFER_SIZE - 1 /\ MAX_ROWS * MAX_COLS \in Nat
            /\ len + BUFFER_SIZE <= MAX_ROWS * MAX_COLS
        BY <1>2, <3>3, BannerEnds, Area DEF RoomFor, BufferInv, EndsAt, Index
      <4>2. len + buffer_index \in Nat /\ (len + buffer_index) + 1 < MAX_ROWS * MAX_COLS
        BY <4>1
      <4> QED BY <4>1, <4>2
    <3>5. PICK text, longer : text = LineText(input_buffer) /\ longer = LineText(input_buffer')
      OBVIOUS
    <3>6. longer[n + 1] = x
      <4>1. longer[len + buffer_index + 1] = input_buffer'[buffer_index]
        BY <3>3, <3>4, <3>5, LineTextIs
      <4>2. input_buffer'[buffer_index] = x
        BY <2>2, <3>4 DEF BufferInv, EndsAt
      <4> QED BY <3>4, <4>1, <4>2
    <3>7. ASSUME NEW i \in 1..n PROVE longer[i] = text[i]
      <4>1. CASE i <= len
        <5>1. i \in 1..len
          BY <3>3, <3>4, <4>1
        <5> QED BY <3>3, <3>5, <5>1, LineTextIs
      <4>2. CASE ~(i <= len)
        <5>1. PICK j \in Index : i = len + j + 1 /\ j # buffer_index
          <6>1. /\ i - len - 1 \in Index /\ i = len + (i - len - 1) + 1
                /\ i - len - 1 # buffer_index
            BY <3>3, <3>4, <4>2, BannerEnds DEF Index
          <6> QED BY <6>1
        <5>2. input_buffer'[j] = input_buffer[j]
          BY <2>2, <3>4, <5>1 DEF BufferInv, EndsAt
        <5>3. longer[len + j + 1] = input_buffer'[j] /\ text[len + j + 1] = input_buffer[j]
          BY <3>3, <3>5, <5>1, LineTextIs
        <5> QED BY <5>1, <5>2, <5>3
      <4> QED BY <4>1, <4>2
    <3>8. LineAt(scr.cells, Offset(scr), text, n) => LineAt(p.cells, Offset(p), longer, n + 1)
      BY <1>0, <2>1, <2>3, <3>1, <3>4, <3>6, <3>7, CharShows
    <3>9. n + 1 = len + buffer_index'
      BY <2>2, <3>4, <3>3 DEF Index
    <3>10. ~littered' => BlankFrom(scr'.cells, Offset(scr'))
      BY <1>0, <2>2, <2>6, <3>2 DEF EchoInv
    <3>11. ~stale' =>
           LineAt(scr'.cells, Offset(scr'), LineText(input_buffer'), Len(PROMPT) + buffer_index')
      BY <1>0, <2>2, <2>6, <3>3, <3>4, <3>5, <3>8, <3>9 DEF EchoInv
    <3> QED BY <1>0, <2>2, <2>4, <2>6, <3>10, <3>11, KeyEcho
  <2> QED BY <2>5, <2>6
<1> QED BY <1>1, <1>2

\* Backspace.
LEMMA BackspaceKeepsEcho ==
    ASSUME CursorInv, BufferInv, EchoInv, key_backspace
    PROVE  EchoInv'
<1>0. /\ UNCHANGED main /\ NearScreen(scr) /\ IsCells(scr.cells)
      /\ stale' = (stale \/ Booting) /\ littered' = (littered \/ Booting)
  BY DEF key_backspace, Pressed, CursorInv, EchoInv
<1>1. CASE ~(buffer_index > 0)
  <2>1. UNCHANGED <<input_buffer, buffer_index, scr>>
    BY <1>1 DEF key_backspace
  <2>2. ~Booting /\ ~littered' => BlankFrom(scr'.cells, Offset(scr'))
    BY <1>0, <2>1 DEF EchoInv
  <2>3. ~Booting /\ ~stale' =>
           LineAt(scr'.cells, Offset(scr'), LineText(input_buffer'), Len(PROMPT) + buffer_index')
    BY <1>0, <2>1 DEF EchoInv
  <2> QED BY <1>0, <2>1, <2>2, <2>3, KeyEcho
<1>2. CASE buffer_index > 0
  <2>1. PICK msg, p : msg = <<BACKSPACE, BLANK, BACKSPACE>> /\ p = print(scr, msg)
    OBVIOUS
  <2>2. /\ scr' = p /\ buffer_index' = buffer_index - 1
        /\ input_buffer' = [input_buffer EXCEPT ![buffer_index - 1] = NUL]
    BY <1>2, <2>1 DEF key_backspace, Shows
  <2>3. Len(msg) \in Nat
    BY <2>1
  <2>4. IsCells(p.cells)
    BY <1>0, <2>1, <2>3, PrintKeepsCells
  <2>5. CASE Booting
    BY <1>0, <2>2, <2>4, <2>5, KeyEcho
  <2>6. CASE ~Booting
    <3>1. OnScreen(scr)
      BY <1>0, <2>6 DEF Booting, CursorInv, OnScreen, NearScreen
    <3>2. PICK len \in Nat : len = Len(PROMPT)
      BY BannerEnds
    <3>3. PICK n \in Nat : /\ n + 1 = len + buffer_index /\ n + 1 < MAX_ROWS * MAX_COLS
                           /\ n = len + buffer_index' /\ buffer_index \in Index
      <4>1. /\ buffer_index \in Index /\ buffer_index \in Nat /\ BUFFER_SIZE \in Nat
            /\ buffer_index < BUFFER_SIZE /\ MAX_ROWS * MAX_COLS \in Nat
            /\ len + BUFFER_SIZE <= MAX_ROWS * MAX_COLS
        BY <3>2, BannerEnds, Area DEF BufferInv, EndsAt, Index
      <4>2. /\ len + buffer_index - 1 \in Nat /\ (len + buffer_index - 1) + 1 = len + buffer_index
            /\ (len + buffer_index - 1) + 1 < MAX_ROWS * MAX_COLS
            /\ len + buffer_index - 1 = len + buffer_index'
        BY <1>2, <2>2, <4>1
      <4> QED BY <4>1, <4>2
    <3>4. PICK text, shorter : text = LineText(input_buffer) /\ shorter = LineText(input_buffer')
      OBVIOUS
    <3>5. ASSUME NEW i \in 1..n PROVE shorter[i] = text[i]
      <4>1. CASE i <= len
        <5>1. i \in 1..len
          BY <3>2, <3>3, <4>1
        <5> QED BY <3>2, <3>4, <5>1, LineTextIs
      <4>2. CASE ~(i <= len)
        <5>1. PICK j \in Index : i = len + j + 1 /\ j # buffer_index - 1
          <6>1. /\ i - len - 1 \in Index /\ i = len + (i - len - 1) + 1
                /\ i - len - 1 # buffer_index - 1
            BY <3>2, <3>3, <4>2, BannerEnds DEF Index
          <6> QED BY <6>1
        <5>2. input_buffer'[j] = input_buffer[j]
          BY <2>2, <3>3, <5>1 DEF BufferInv, EndsAt
        <5>3. shorter[len + j + 1] = input_buffer'[j] /\ text[len + j + 1] = input_buffer[j]
          BY <3>2, <3>4, <5>1, LineTextIs
        <5> QED BY <5>1, <5>2, <5>3
      <4> QED BY <4>1, <4>2
    <3>6. LineAt(scr.cells, Offset(scr), text, n + 1) => LineAt(p.cells, Offset(p), text, n)
      BY <1>0, <2>1, <3>1, <3>3, EraseShows
    <3>7. LineAt(p.cells, Offset(p), text, n) => LineAt(p.cells, Offset(p), shorter, n)
      <4>1. PICK f, v : f = p.cells /\ v = Offset(p)
        OBVIOUS
      <4> QED BY <3>5, <4>1, SameLine
    <3>8. BlankFrom(scr.cells, Offset(scr)) => BlankFrom(p.cells, Offset(p))
      BY <1>0, <2>1, <3>1, EraseShows
    <3>9. ~littered' => BlankFrom(scr'.cells, Offset(scr'))
      BY <1>0, <2>2, <2>6, <3>8 DEF EchoInv
    <3>10. ~stale' =>
           LineAt(scr'.cells, Offset(scr'), LineText(input_buffer'), Len(PROMPT) + buffer_index')
      BY <1>0, <2>2, <2>6, <3>2, <3>3, <3>4, <3>6, <3>7 DEF EchoInv
    <3> QED BY <1>0, <2>2, <2>4, <2>6, <3>9, <3>10, KeyEcho
  <2> QED BY <2>5, <2>6
<1> QED BY <1>1, <1>2


\* A text that ends with a newline, and the prompt: the prompt is in front of the cursor.
LEMMA PromptShows ==
    ASSUME NEW s, OnScreen(s), IsCells(s.cells), NEW a, EndsLine(a)
    PROVE  LET p == print(s, a \o PROMPT)
           IN  /\ BlankFrom(s.cells, Offset(s)) => BlankFrom(p.cells, Offset(p))
               /\ \A b : LineAt(p.cells, Offset(p), LineText(b), Len(PROMPT) + 0)
<1>1. PICK msg, p : msg = a \o PROMPT /\ p = print(s, msg)
  OBVIOUS
<1>2. PICK m, len, k : m = Len(a) /\ len = Len(PROMPT) /\ k = Len(msg)
  OBVIOUS
<1>3. /\ k \in Nat /\ k - m = len /\ m \in 1..(k + 1) /\ m <= k /\ msg[m] = NEWLINE
      /\ \A i \in 1..k : msg[i] # BACKSPACE
      /\ \A i \in (m + 1)..k : msg[i] # NEWLINE /\ PROMPT[i - m] = msg[i]
  <2>1. /\ Len(msg) \in Nat /\ Len(msg) - Len(a) = Len(PROMPT)
        /\ Len(a) \in 1..(Len(msg) + 1) /\ Len(a) <= Len(msg) /\ msg[Len(a)] = NEWLINE
        /\ \A i \in 1..Len(msg) : msg[i] # BACKSPACE
        /\ \A i \in (Len(a) + 1)..Len(msg) : msg[i] # NEWLINE /\ PROMPT[i - Len(a)] = msg[i]
    BY <1>1, PromptText
  <2> QED BY <1>2, <2>1
<1>4. len < MAX_ROWS * MAX_COLS /\ len + 0 = len
  BY <1>2, BannerEnds, Area
<1>5. PICK text : text = PROMPT
  OBVIOUS
<1>6. /\ BlankFrom(s.cells, Offset(s)) => BlankFrom(p.cells, Offset(p))
      /\ LineAt(p.cells, Offset(p), text, len)
  <2>1. \A i \in (m + 1)..k : msg[i] # NEWLINE /\ text[i - m] = msg[i]
    BY <1>3, <1>5
  <2>2. k - m < MAX_ROWS * MAX_COLS
    BY <1>3, <1>4
  <2>3. /\ BlankFrom(s.cells, Offset(s)) => BlankFrom(p.cells, Offset(p))
        /\ LineAt(p.cells, Offset(p), text, k - m)
    <3>1. /\ Len(msg) \in Nat /\ m \in 1..(Len(msg) + 1) /\ (m <= Len(msg) => msg[m] = NEWLINE)
          /\ \A i \in 1..Len(msg) : msg[i] # BACKSPACE
          /\ Len(msg) - m < MAX_ROWS * MAX_COLS
      BY <1>2, <1>3, <2>2
    <3>2. \A i \in (m + 1)..Len(msg) : msg[i] # NEWLINE /\ text[i - m] = msg[i]
      BY <1>2, <2>1
    <3>3. /\ BlankFrom(s.cells, Offset(s)) => BlankFrom(p.cells, Offset(p))
          /\ m <= Len(msg) => LineAt(p.cells, Offset(p), text, Len(msg) - m)
      BY <1>1, <3>1, <3>2, PrintShows
    <3> QED BY <1>2, <1>3, <3>3
  <2> QED BY <1>3, <2>3
<1>7. ASSUME NEW b PROVE LineAt(p.cells, Offset(p), LineText(b), len)
  <2>1. PICK f, v, other : f = p.cells /\ v = Offset(p) /\ other = LineText(b)
    OBVIOUS
  <2>2. \A i \in 1..len : other[i] = text[i]
    BY <1>2, <1>5, <2>1, LineTextIs
  <2>3. LineAt(f, v, other, len)
    BY <1>6, <2>1, <2>2, SameLine
  <2> QED BY <2>1, <2>3
<1> QED BY <1>1, <1>2, <1>4, <1>6, <1>7

\* Enter, when the command comes to its end.
LEMMA EnterKeepsEcho ==
    ASSUME CursorInv, EchoInv, NEW out \in Outputs, NEW clear \in BOOLEAN, key_enter(out, clear)
    PROVE  EchoInv'
<1>0. /\ UNCHANGED main /\ NearScreen(scr) /\ IsCells(scr.cells) /\ buffer_index' = 0
      /\ stale' = Booting /\ littered' = (Booting \/ (littered /\ ~clear))
  BY DEF key_enter, Pressed, CursorInv, EchoInv
<1>1. PICK s, a : /\ s = (IF clear THEN clear_screen ELSE scr)
                  /\ a = (IF clear THEN <<NEWLINE>> ELSE <<NEWLINE>> \o out \o <<NEWLINE>>)
  OBVIOUS
<1>2. PICK p : p = print(s, a \o PROMPT)
  OBVIOUS
<1>3. scr' = p
  BY <1>1, <1>2 DEF key_enter, Shows
<1>4. EndsLine(a)
  BY <1>1, OutputTexts
<1>5. /\ OnScreen(clear_screen) /\ IsCells(clear_screen.cells)
      /\ BlankFrom(clear_screen.cells, Offset(clear_screen))
  <2>1. OnScreen(clear_screen)
    BY ScreenAssumption DEF clear_screen, OnScreen, IsScreen, InScreen
  <2>2. PICK e : e = [k \in Cells |-> BLANK]
    OBVIOUS
  <2>3. clear_screen.cells = e
    BY <2>2 DEF clear_screen
  <2>4. IsCells(e) /\ \A v : BlankFrom(e, v)
    BY <2>2 DEF IsCells, BlankFrom
  <2> QED BY <2>1, <2>3, <2>4
<1>6. NearScreen(s) /\ IsCells(s.cells)
  BY <1>0, <1>1, <1>5, OnScreenIsNear
<1>7. IsCells(p.cells)
  <2>1. PICK msg : msg = a \o PROMPT
    OBVIOUS
  <2>2. Len(msg) \in Nat
    BY <1>4, <2>1, PromptText
  <2> QED BY <1>2, <1>6, <2>1, <2>2, PrintKeepsCells
<1>8. CASE Booting
  BY <1>0, <1>3, <1>7, <1>8, KeyEcho
<1>9. CASE ~Booting
  <2>1. OnScreen(s)
    BY <1>0, <1>1, <1>5, <1>9 DEF Booting, CursorInv, OnScreen, NearScreen
  <2>2. /\ BlankFrom(s.cells, Offset(s)) => BlankFrom(p.cells, Offset(p))
        /\ \A b : LineAt(p.cells, Offset(p), LineText(b), Len(PROMPT) + 0)
    BY <1>2, <1>4, <1>6, <2>1, PromptShows
  <2>3. ~littered' => BlankFrom(s.cells, Offset(s))
    BY <1>0, <1>1, <1>5, <1>9 DEF EchoInv
  <2>4. LineAt(scr'.cells, Offset(scr'), LineText(input_buffer'), Len(PROMPT) + buffer_index')
    BY <1>0, <1>3, <2>2
  <2>5. ~littered' => BlankFrom(scr'.cells, Offset(scr'))
    BY <1>3, <2>2, <2>3
  <2> QED BY <1>0, <1>3, <1>7, <1>9, <2>4, <2>5, KeyEcho
<1> QED BY <1>8, <1>9

\* Enter, when run gives up: nothing is left behind the cursor.
LEMMA RunFailsKeepsEcho ==
    ASSUME CursorInv, EchoInv, NEW out \in Outputs, key_enter_run_fails(out)
    PROVE  EchoInv'
<1>0. /\ UNCHANGED main /\ NearScreen(scr) /\ IsCells(scr.cells)
      /\ stale' = TRUE /\ littered' = (littered \/ Booting)
  BY DEF key_enter_run_fails, Pressed, CursorInv, EchoInv
<1>1. PICK msg, p, k : msg = <<NEWLINE>> \o out /\ p = print(scr, msg) /\ k = Len(msg)
  OBVIOUS
<1>2. scr' = p
  BY <1>1 DEF key_enter_run_fails, Shows
<1>3. Plain(msg) /\ k \in Nat
  BY <1>1, OutputTexts
<1>4. IsCells(p.cells)
  BY <1>0, <1>1, <1>3, PrintKeepsCells
<1>5. CASE Booting
  BY <1>0, <1>2, <1>4, <1>5, KeyEcho
<1>6. CASE ~Booting
  <2>1. OnScreen(scr)
    BY <1>0, <1>6 DEF Booting, CursorInv, OnScreen, NearScreen
  <2>2. /\ k + 1 \in 1..(k + 1) /\ ~(k + 1 <= k) /\ k - (k + 1) < MAX_ROWS * MAX_COLS
        /\ \A i \in ((k + 1) + 1)..k : FALSE
    BY <1>3, Area
  <2>3. \A i \in 1..k : msg[i] # BACKSPACE
    BY <1>1, <1>3 DEF Plain
  <2>4. PICK m \in 1..(k + 1) : /\ m = k + 1 /\ ~(m <= k) /\ k - m < MAX_ROWS * MAX_COLS
                                /\ \A i \in (m + 1)..k : FALSE
    BY <2>2
  <2>5. BlankFrom(scr.cells, Offset(scr)) => BlankFrom(p.cells, Offset(p))
    <3>1. PICK text : text = PROMPT
      OBVIOUS
    <3>2. \A i \in (m + 1)..k : msg[i] # NEWLINE /\ text[i - m] = msg[i]
      BY <2>4
    <3> QED BY <1>0, <1>1, <1>3, <2>1, <2>3, <2>4, <3>2, PrintShows
  <2>6. ~littered' => BlankFrom(scr'.cells, Offset(scr'))
    BY <1>0, <1>2, <1>6, <2>5 DEF EchoInv
  <2> QED BY <1>0, <1>2, <1>4, <1>6, <2>6, KeyEcho
<1> QED BY <1>5, <1>6

LEMMA EchoStutters ==
    ASSUME EchoInv, UNCHANGED <<scr, main, input_buffer, buffer_index, stale, littered>>
    PROVE  EchoInv'
<1>1. /\ scr' = scr /\ pc' = pc /\ at' = at /\ c' = c /\ offset' = offset /\ t' = t
      /\ input_buffer' = input_buffer /\ buffer_index' = buffer_index
      /\ stale' = stale /\ littered' = littered
  BY DEF main
<1>2. BootShows' = BootShows /\ Booting' = Booting
  BY <1>1 DEF BootShows, Booting, Target, Printed
<1> QED BY <1>1, <1>2 DEF EchoInv

LEMMA NextKeepsEcho ==
    ASSUME CursorInv, BufferInv, EchoInv, Next
    PROVE  EchoInv'
<1>1. CASE MainStep /\ UNCHANGED <<input_buffer, buffer_index, stale, littered>>
  BY <1>1, MainKeepsEcho
<1>2. CASE shift_down \/ shift_up \/ caps_lock
  <2>1. UNCHANGED <<scr, main, input_buffer, buffer_index, stale, littered>>
    BY <1>2 DEF shift_down, shift_up, caps_lock, Pressed
  <2> QED BY <2>1, EchoStutters
<1> QED BY <1>1, <1>2, CharKeepsEcho, BackspaceKeepsEcho, EnterKeepsEcho, RunFailsKeepsEcho DEF Next

LEMMA EchoInvariant == Spec => []EchoInv
<1>1. CursorInv /\ BufferInv /\ EchoInv /\ [Next]_vars => EchoInv'
  <2>1. CASE UNCHANGED vars
    BY <2>1, EchoStutters DEF vars
  <2> QED BY <2>1, NextKeepsEcho
<1> QED BY <1>1, EchoInit, CursorInvariant, BufferInvariant, PTL DEF Spec

\* What the user sees is what Enter will run, for every screen, prompt and buffer that fit
\* (EchoAssumption), every command output without a backspace and every interleaving of
\* the keyboard interrupt with kernel_main's print: the prompt and the characters of
\* input_buffer stand in front of the cursor, across rows and scrolling, and what
\* execute_command, backspace_key and print leave behind the cursor is blank.
THEOREM EchoMatchesBufferThm == Spec => []EchoMatchesBuffer
<1>1. CursorInv /\ BufferInv /\ EchoInv => EchoMatchesBuffer
  <2> SUFFICES ASSUME CursorInv, BufferInv, EchoInv, ~stale, ~Booting
               PROVE  EchoMatchesBuffer
    BY DEF EchoMatchesBuffer
  <2>1. PICK f, v, len, text : /\ f = scr.cells /\ v = Offset(scr) /\ len = Len(PROMPT)
                               /\ text = LineText(input_buffer)
    OBVIOUS
  <2>2. LineAt(f, v, text, len + buffer_index)
    BY <2>1 DEF EchoInv
  <2>3. len \in Nat /\ buffer_index \in Nat /\ \A i \in 0..(buffer_index - 1) : i \in Index
    BY <2>1, BannerEnds DEF BufferInv, EndsAt, Index
  <2>4. PICK n \in Nat : n = len + buffer_index
    BY <2>3
  <2>5. PICK q \in Nat : /\ v = (q * MAX_COLS) + n
                         /\ \A i \in 1..n : f[(q * MAX_COLS) + i - 1] = text[i]
    BY <2>2, <2>4 DEF LineAt
  <2>6. PICK y \in Nat : y = q * MAX_COLS
    BY <2>5, ScreenAssumption
  <2>7. v = y + n /\ \A i \in 1..n : f[y + i - 1] = text[i]
    BY <2>5, <2>6
  <2>8. ASSUME NEW i \in 1..len PROVE f[v - n + (i - 1)] = PROMPT[i]
    <3>1. i \in 1..n /\ v - n + (i - 1) = y + i - 1
      BY <2>3, <2>4, <2>7
    <3> QED BY <2>1, <2>7, <3>1, LineTextIs
  <2>9. ASSUME NEW i \in 0..(buffer_index - 1) PROVE f[v - n + (len + i)] = input_buffer[i]
    <3>1. len + i + 1 \in 1..n /\ v - n + (len + i) = y + (len + i + 1) - 1
      BY <2>3, <2>4, <2>7
    <3>2. text[len + i + 1] = input_buffer[i]
      BY <2>1, <2>3, LineTextIs
    <3> QED BY <2>7, <3>1, <3>2
  <2>10. \A k \in Cells : ~littered /\ k >= v => f[k] = BLANK
    BY <2>1 DEF EchoInv, BlankFrom
  <2> QED BY <2>1, <2>4, <2>8, <2>9, <2>10 DEF EchoMatchesBuffer
<1> QED BY <1>1, CursorInvariant, BufferInvariant, EchoInvariant, PTL

=============================================================================
