------------------------------- MODULE MCTar --------------------------------
(* Blocks of four bytes, sizes from nothing to more than two blocks, written with     *)
(* leading zeros and with a character that is no octal digit (9); up to three files,  *)
(* two of which may have the same name.                                               *)
(* Next to it the conversions of module Encoding, on every word of four two-bit       *)
(* bytes and on every pair of names of up to four characters, of which two are kept   *)
(* before the dot and one behind it.                                                  *)
EXTENDS Tar

MCFiles ==
    {[name |-> n, bytes |-> f[1], size |-> f[2]] : n \in {"a", "b"},
     f \in {<<0, <<0, 0>> >>, <<3, <<0, 3>> >>, <<4, <<0, 4>> >>, <<5, <<9, 5>> >>, <<9, <<1, 1>> >>}}
MCArchives == {<<>>} \cup [1..1 -> MCFiles] \cup [1..2 -> MCFiles] \cup [1..3 -> MCFiles]

Limits == {0, 1, BYTE + 1, HALF - 1, HALF, HALF * NIBBLE - 1}
Typed == UNION {[1..k -> {"a", "A", "b", DOT}] : k \in 0..4}

VARIABLE input    \* what a conversion is applied to
mcvars == <<vars, input>>

MCInit == Init /\ input = [kind |-> "none"]

TarStep == Next /\ UNCHANGED input

\* A machine without an archive converts a number, or two names.
CanDraw == files = <<>> /\ ~initrd_address /\ cmd.name = "none"

Draw(x) ==
    /\ cmd' = [name |-> "done", filename |-> NoName]
    /\ input' = x
    /\ UNCHANGED <<files, initrd_address, current_addr, out>>

draw_number ==
    CanDraw /\ \E n \in INT_MIN..(WORD - 1), lim \in Limits :
        Draw([kind |-> "number", n |-> n, limit |-> lim])
draw_names ==
    CanDraw /\ \E s, t \in Typed : Draw([kind |-> "names", s |-> s, t |-> t])

MCNext == TarStep \/ draw_number \/ draw_names
MCSpec == MCInit /\ [][MCNext]_mcvars

\* What print_int shows is the number, zero and the greatest included, but for the least
\* int, of which it shows the sign alone; what print_hex shows is the number; and what
\* the CPU reads from the split fields of a gate or of the TSS descriptor is the address
\* that was put in and, if it has at most 20 bits, the limit.
NumbersRecovered ==
    input.kind = "number" =>
        /\ ShowsNumber(input.n)
        /\ input.n >= 0 => DescriptorsDecode(input.n, input.limit)

\* fat16_format_83 gives two typed names the same directory entry exactly when they name
\* the same file: a name that is too long is cut in its two parts, not mixed.
NamesDistinguished ==
    input.kind = "names" =>
        ((fat16_format_83(input.s) = fat16_format_83(input.t)) <=> SameFile(input.s, input.t))
=============================================================================
