------------------------------ MODULE Encoding ------------------------------
(***************************************************************************)
(* The kernel's conversions: numbers as digits on the screen (print_int,   *)
(* print_hex in src/screen.c), file names as directory entries             *)
(* (fat16_format_83), and addresses as the split fields of descriptors     *)
(* (idt_set_gate, write_tss_descriptor).                                   *)
(* Each is a pure function, next to the predicate that says what it must   *)
(* be.  Numbers keep the structure of the code's, words of four bytes, at  *)
(* a smaller width.                                                        *)
(***************************************************************************)
EXTENDS Integers, Sequences

CONSTANTS
    NIBBLE,             \* values of half a byte (16)
    BASE,               \* of print_int (10)
    NAME_LEN, EXT_LEN   \* 8 and 3

BYTE == NIBBLE * NIBBLE   \* 256: a word has four bytes, a half has two
HALF == BYTE * BYTE
WORD == HALF * HALF
INT_MIN == -(WORD \div 2)
DOT == "."
PAD == " "

\* 32 turns of the loop are enough for a word in any base.
ASSUME EncodingAssumption ==
    /\ NIBBLE \in 2..16 /\ BASE \in Nat \ {0, 1}
    /\ NAME_LEN \in Nat \ {0} /\ EXT_LEN \in Nat \ {0}

-----------------------------------------------------------------------------
(* Numbers.                                                                *)

\* num = -num on two's complement: the least number is its own negative.
Negated(num) == IF num = INT_MIN THEN INT_MIN ELSE -num

\* num after each of n divisions.
Quotients(num, base, n) ==
    LET left[i \in 0..n] == IF i = 0 THEN num ELSE left[i - 1] \div base
    IN  left

\* The digits that the loop of print_int stores, lowest first, and prints in reverse.
Digits(num, base) ==
    LET left == Quotients(num, base, 32)
        count == CHOOSE i \in 0..32 : left[i] <= 0 /\ \A j \in 0..(i - 1) : left[j] > 0
    IN  [j \in 1..count |-> left[count - j] % base]

\* Mutant: zero has no digits.
print_int_noZero(num) ==
    IF num < 0 THEN <<"-">> \o Digits(Negated(num), BASE) ELSE Digits(num, BASE)

print_int(num) ==
    IF num = 0 THEN <<0>>
    ELSE IF num < 0 THEN <<"-">> \o Digits(Negated(num), BASE)
    ELSE Digits(num, BASE)

\* The eight hexadecimal digits of a word, highest first.
print_hex(num) ==
    LET shifted == Quotients(num, NIBBLE, 8)
    IN  [j \in 1..8 |-> shifted[8 - j] % NIBBLE]

Value(ds, base) ==
    LET v[i \in 0..Len(ds)] == IF i = 0 THEN 0 ELSE base * v[i - 1] + ds[i]
    IN  v[Len(ds)]

-----------------------------------------------------------------------------
(* Descriptors.                                                            *)

\* idt_set_gate's base_low and base_high.
idt_set_gate(base) == [base_low |-> base % HALF, base_high |-> (base \div HALF) % HALF]

\* The bytes of write_tss_descriptor; the flags of entry[5] and entry[6] are left out
\* (entry[6] holds four more bits of the limit below them).
write_tss_descriptor(base, lim) ==
    [e \in 0..7 |->
        CASE e = 0 -> lim % BYTE [] e = 1 -> (lim \div BYTE) % BYTE
          [] e = 2 -> base % BYTE [] e = 3 -> (base \div BYTE) % BYTE
          [] e = 4 -> (base \div HALF) % BYTE [] e = 5 -> 1
          [] e = 6 -> (lim \div HALF) % NIBBLE
          [] OTHER -> (base \div (HALF * BYTE)) % BYTE]

-----------------------------------------------------------------------------
(* Names.                                                                  *)

Uppercase(c) == IF c = "a" THEN "A" ELSE IF c = "b" THEN "B" ELSE c

\* The position of the first dot at or after i, or the end.
StopAt(str, i) ==
    CHOOSE k \in i..(Len(str) + 1) :
        (k = Len(str) + 1 \/ str[k] = DOT) /\ \A j \in i..(k - 1) : str[j] # DOT

\* Mutant: a name that is too long runs on into the extension.
fat16_format_83_noSkip(str) ==
    LET stop == StopAt(str, 1)
        len == IF stop - 1 < NAME_LEN THEN stop - 1 ELSE NAME_LEN
    IN  [name8 |-> [i \in 1..NAME_LEN |-> IF i <= len THEN Uppercase(str[i]) ELSE PAD],
         ext3 |-> [i \in 1..EXT_LEN |-> IF len + 1 + i <= Len(str)
                                        THEN Uppercase(str[len + 1 + i]) ELSE PAD]]

\* Up to eight characters before the first dot, up to three after it, in capitals and
\* padded with blanks.
fat16_format_83(str) ==
    LET stop == StopAt(str, 1)
    IN  [name8 |-> [i \in 1..NAME_LEN |-> IF i < stop THEN Uppercase(str[i]) ELSE PAD],
         ext3 |-> [i \in 1..EXT_LEN |-> IF stop + i <= Len(str)
                                        THEN Uppercase(str[stop + i]) ELSE PAD]]

-----------------------------------------------------------------------------
(* What the conversions must be.                                           *)

\* print_int shows every int but the least one, of which it shows the sign only; print_hex
\* shows every unsigned number.
ShowsNumber(n) ==
    /\ n \in (INT_MIN + 1)..(WORD \div 2 - 1) =>
          LET d == print_int(n)
          IN  IF n < 0 THEN d[1] = "-" /\ Value(Tail(d), BASE) = -n
              ELSE Len(d) > 0 /\ Value(d, BASE) = n
    /\ n = INT_MIN => print_int(n) = <<"-">>
    /\ n >= 0 => Value(print_hex(n), NIBBLE) = n

\* The CPU puts the addresses together again as they were, and a limit of 20 bits.
DescriptorsDecode(base, lim) ==
    LET g == idt_set_gate(base)
        d == write_tss_descriptor(base, lim)
    IN  /\ g.base_low + HALF * g.base_high = base
        /\ d[2] + BYTE * d[3] + HALF * d[4] + HALF * BYTE * d[7] = base
        /\ d[0] + BYTE * d[1] + HALF * d[6] = lim

\* Two names are the same file exactly when, cut to the lengths that are kept, the parts
\* before and after the first dot differ at most in case.
SameFile(s, t) ==
    LET Cut(x, len) == SubSeq(x, 1, IF Len(x) < len THEN Len(x) ELSE len)
        Base(x) == Cut([i \in 1..(StopAt(x, 1) - 1) |-> Uppercase(x[i])], NAME_LEN)
        Ext(x) == Cut([i \in 1..(Len(x) - StopAt(x, 1)) |-> Uppercase(x[StopAt(x, 1) + i])],
                      EXT_LEN)
    IN  Base(s) = Base(t) /\ Ext(s) = Ext(t)
=============================================================================
