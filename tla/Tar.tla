-------------------------------- MODULE Tar ---------------------------------
(***************************************************************************)
(* The initial ramdisk of CIndy-OS (src/fs.c): tar_ls and tar_cat walk a   *)
(* tar archive from header to header.  Addresses count bytes from the      *)
(* start of the archive; memory is what lies there: headers, bytes of      *)
(* files and the zero block at the end.  Reading an address at which no    *)
(* header starts is outside the model: the walk stops there.               *)
(***************************************************************************)
EXTENDS Encoding

CONSTANTS
    Names,       \* file names
    Archives,    \* sequences of files: name, bytes, and the size field's characters
    BLOCK        \* 512

NoName == ""    \* a name that starts with its end mark

ASSUME TarAssumption == BLOCK \in Nat \ {0}

VARIABLES
    files,            \* the archive's files
    initrd_address,   \* TRUE when GRUB passed the archive
    cmd,              \* the command in progress, "none" or "done"
    current_addr,
    out               \* what the command has printed

vars == <<files, initrd_address, cmd, current_addr, out>>

\* The value of a size field: characters that are no octal digits are skipped.
parse_octal(str) ==
    LET size[i \in 0..Len(str)] ==
            IF i = 0 THEN 0
            ELSE IF str[i] \in 0..7 THEN 8 * size[i - 1] + str[i] ELSE size[i - 1]
    IN  size[Len(str)]

\* A size field as tar writes it: y in octal, between characters that are no octal digits.
IsOctal(str, y) ==
    \E first \in 1..(Len(str) + 1), last \in 0..Len(str) :
        /\ first <= last + 1
        /\ \A i \in 1..Len(str) : str[i] \in 0..7 <=> i \in first..last
        /\ Value(SubSeq(str, first, last), 8) = y

\* Sizes are ints.  A header without a name is the end of the archive, and cat without a
\* file name does not come here.
ASSUME ArchivesAssumption ==
    /\ \A a \in Archives :
          /\ Len(a) \in Nat /\ DOMAIN a = 1..Len(a)
          /\ \A n \in DOMAIN a : /\ a[n].name # NoName /\ a[n].bytes \in 0..(WORD \div 2 - 1)
                                /\ a[n].size \in Seq(Nat) /\ IsOctal(a[n].size, a[n].bytes)
    /\ NoName \notin Names

\* The archive in memory, as tar writes it: each file takes a header block and as many
\* blocks as its bytes need.
Blocks(f) == 1 + (f.bytes + BLOCK - 1) \div BLOCK
HeaderAddr(n) ==
    LET a[k \in 1..n] == IF k = 1 THEN 0 ELSE a[k - 1] + BLOCK * Blocks(files[k - 1])
    IN  a[n]
END == [name |-> NoName, bytes |-> 0, size |-> <<>>]

OnHeader == \E n \in 1..(Len(files) + 1) : HeaderAddr(n) = current_addr

\* The header that current_addr points to.
Header ==
    LET n == CHOOSE k \in 1..(Len(files) + 1) : HeaderAddr(k) = current_addr
    IN  IF n > Len(files) THEN END ELSE files[n]

Init ==
    /\ files \in Archives
    /\ initrd_address \in BOOLEAN
    /\ cmd = [name |-> "none"] /\ current_addr = 0 /\ out = <<>>

\* ls and cat return at once without an archive.
begin(c) ==
    /\ cmd.name = "none"
    /\ cmd' = IF initrd_address THEN c ELSE [c EXCEPT !.name = "done"]
    /\ UNCHANGED <<files, initrd_address, current_addr, out>>

\* Mutant: the size is not rounded up to whole blocks.
NextHeader_unpadded == current_addr + BLOCK + parse_octal(Header.size)

\* Past the header and the padded data.
NextHeader ==
    LET file_size == parse_octal(Header.size)
        rest == file_size % BLOCK
    IN  current_addr + BLOCK + (IF rest # 0 THEN file_size + BLOCK - rest ELSE file_size)

Ends(text) ==
    /\ cmd' = [cmd EXCEPT !.name = "done"] /\ out' = out \o text
    /\ UNCHANGED <<files, initrd_address, current_addr>>

Advances(text) ==
    /\ current_addr' = NextHeader /\ out' = out \o text
    /\ UNCHANGED <<files, initrd_address, cmd>>

\* One turn of tar_ls's loop.
tar_ls ==
    /\ cmd.name = "ls" /\ OnHeader
    /\ IF Header = END THEN Ends(<<>>)
       ELSE Advances(<< <<Header.name, print_int(parse_octal(Header.size))>> >>)

\* One turn of tar_cat's loop.  The bytes it prints are named by their addresses.
tar_cat ==
    /\ cmd.name = "cat" /\ OnHeader
    /\ IF Header = END THEN Ends(<<"File not found.">>)
       ELSE IF Header.name = cmd.filename
       THEN Ends([i \in 1..parse_octal(Header.size) |-> current_addr + BLOCK + i - 1])
       ELSE Advances(<<>>)

Next ==
    \/ begin([name |-> "ls", filename |-> NoName])
    \/ \E f \in Names : begin([name |-> "cat", filename |-> f])
    \/ tar_ls \/ tar_cat

Spec == Init /\ [][Next]_vars

-----------------------------------------------------------------------------
(* Properties.                                                             *)

\* The walk never takes data for a header, whatever the sizes: empty files, whole
\* blocks, one byte more.  ls lists the files, all of them, in order and
\* with their sizes; cat prints the
\* first file of that name, all of its bytes and none of another file's.
AnswersRight ==
    /\ cmd.name \in {"ls", "cat"} => OnHeader
    /\ cmd.name = "done" /\ initrd_address =>
          LET named == {n \in DOMAIN files : files[n].name = cmd.filename}
          IN  IF cmd.filename = NoName
              THEN /\ Len(out) = Len(files)
                   /\ \A n \in DOMAIN files : /\ out[n][1] = files[n].name
                                              /\ Value(out[n][2], BASE) = files[n].bytes
              ELSE IF named = {} THEN out = <<"File not found.">>
              ELSE LET n == CHOOSE k \in named : \A m \in named : k <= m
                   IN  out = [i \in 1..files[n].bytes |-> HeaderAddr(n) + BLOCK + i - 1]
=============================================================================
