--------------------------- MODULE SyscallProofs ---------------------------
(***************************************************************************)
(* Proofs about Syscall for every page size, address space and user range: *)
(* the system calls read only user space, and SYS_WRITE reads the prefix   *)
(* that it reports and stops short only at a byte that is not the user's.  *)
(***************************************************************************)
EXTENDS Syscall, Integers, TLAPS

\* Inside the loop of SYS_WRITE the arguments are machine words and offset is a
\* position in the buffer.
LoopInv == pc = "write" => r.b \in Addresses /\ r.c \in Addresses /\ offset \in Nat

\* The inductive invariant: the loop's locals, and what has been read so far.
TouchInv == LoopInv /\ TouchesUserOnly

\* The constants, one by one.
LEMMA ConstantTypes ==
    /\ WORD \in Nat /\ PAGE \in Nat /\ USER_LOW \in Nat /\ USER_HIGH \in Nat /\ CHUNK \in Nat
    /\ 0 < WORD /\ 0 < PAGE /\ 0 < USER_LOW /\ 0 < CHUNK
    /\ USER_LOW < USER_HIGH /\ USER_HIGH < WORD /\ CHUNK < PAGE /\ PAGE <= WORD
<1>1. /\ WORD \in Nat /\ PAGE \in Nat /\ USER_LOW \in Nat /\ USER_HIGH \in Nat /\ CHUNK \in Nat
      /\ 0 < WORD /\ 0 < PAGE /\ 0 < USER_LOW /\ 0 < CHUNK
      /\ USER_LOW < USER_HIGH /\ USER_HIGH < WORD /\ CHUNK < PAGE /\ WORD % PAGE = 0
  BY SyscallAssumption
<1>2. PAGE <= WORD
  BY <1>1
<1> QED BY <1>1, <1>2

\* A region that validate_user_ptr accepts lies in user space from end to end: the
\* comparison of the truncated end with the start excludes every region that wraps.
LEMMA ValidatedIsUser ==
    ASSUME NEW ptr \in Addresses, NEW len \in Nat, 0 < len, len < WORD,
           validate_user_ptr(ptr, len)
    PROVE  \A x \in Bytes(ptr, len) : USER_LOW <= x /\ x < USER_HIGH
<1> DEFINE end == (ptr + len) % WORD
<1>1. ptr \in Nat /\ ptr < WORD
  BY ConstantTypes DEF Addresses
<1>2. USER_LOW <= ptr /\ end >= ptr /\ end <= USER_HIGH
  BY DEF validate_user_ptr, validate_user_region
<1>3. ptr + len < WORD
  <2>1. CASE ptr + len >= WORD
    <3>1. end = ptr + len - WORD
      BY <1>1, <2>1, ConstantTypes
    <3> QED BY <1>1, <1>2, <3>1, ConstantTypes
  <2> QED BY <1>1, <2>1, ConstantTypes
<1>4. end = ptr + len
  BY <1>1, <1>3, ConstantTypes
<1> SUFFICES ASSUME NEW i \in 0..(len - 1)
             PROVE  USER_LOW <= (ptr + i) % WORD /\ (ptr + i) % WORD < USER_HIGH
  BY DEF Bytes
<1>5. (ptr + i) % WORD = ptr + i
  BY <1>1, <1>3, ConstantTypes
<1> QED BY <1>1, <1>2, <1>4, <1>5, ConstantTypes

\* One turn of the loop of SYS_WRITE keeps the invariant.
LEMMA ChunkStep == TouchInv /\ write_chunk => TouchInv'
<1> SUFFICES ASSUME TouchInv, write_chunk PROVE TouchInv'
  OBVIOUS
<1> DEFINE take == Take(r.c - offset)
           ptr  == (r.b + offset) % WORD
<1>1. r.b \in Nat /\ r.c \in Nat /\ r.c < WORD /\ offset \in Nat /\ offset < r.c
  BY ConstantTypes DEF TouchInv, LoopInv, write_chunk, Addresses
<1>2. ptr \in Addresses
  BY <1>1, ConstantTypes DEF Addresses
<1>3. take \in Nat /\ 0 < take /\ take < WORD
  BY <1>1, ConstantTypes DEF Take
<1> HIDE DEF take, ptr
<1>4. r' = r
  BY DEF write_chunk
<1>5. CASE ~validate_user_ptr(ptr, take)
  <2>1. touched' = touched /\ pc' = "return"
    BY <1>5 DEF write_chunk, Returns, take, ptr
  <2> QED BY <2>1 DEF TouchInv, LoopInv, TouchesUserOnly
<1>6. CASE validate_user_ptr(ptr, take)
  <2>1. /\ touched' = touched \cup Bytes(ptr, take)
        /\ pc' = "write" => offset' = offset + take
    BY <1>6 DEF write_chunk, take, ptr
  <2>2. TouchesUserOnly'
    BY <1>2, <1>3, <1>6, <2>1, ValidatedIsUser DEF TouchInv, TouchesUserOnly
  <2>3. LoopInv'
    <3>1. r.b \in Addresses /\ r.c \in Addresses
      BY DEF TouchInv, LoopInv, write_chunk
    <3>2. offset + take \in Nat
      BY <1>1, <1>3
    <3> QED BY <1>4, <2>1, <3>1, <3>2 DEF LoopInv
  <2> QED BY <2>2, <2>3 DEF TouchInv
<1> QED BY <1>5, <1>6

\* Every step keeps the invariant.
LEMMA TouchInvStep == TouchInv /\ [Next]_vars => TouchInv'
<1> SUFFICES ASSUME TouchInv, [Next]_vars PROVE TouchInv'
  OBVIOUS
<1>1. ASSUME NEW fd \in 0..3, NEW b \in Addresses, NEW c \in Addresses, sys_write(fd, b, c)
      PROVE  TouchInv'
  BY <1>1 DEF sys_write, Called, TouchInv, LoopInv, TouchesUserOnly
<1>2. ASSUME NEW path \in Addresses, sys_open(path)
      PROVE  TouchInv'
  <2>1. pc' = "return"
    BY <1>2 DEF sys_open, Returns
  <2>2. CASE validate_user_ptr(path, 1)
    <3>1. touched' = {path}
      BY <1>2, <2>2 DEF sys_open
    <3>2. USER_LOW <= path /\ path < USER_HIGH
      BY <2>2, ConstantTypes DEF validate_user_ptr, validate_user_region
    <3> QED BY <2>1, <3>1, <3>2 DEF TouchInv, LoopInv, TouchesUserOnly
  <2>3. CASE ~validate_user_ptr(path, 1)
    <3>1. touched' = {}
      BY <1>2, <2>3 DEF sys_open
    <3> QED BY <2>1, <3>1 DEF TouchInv, LoopInv, TouchesUserOnly
  <2> QED BY <2>2, <2>3
<1>3. ASSUME touched' = touched \/ touched' = {}, pc' # "write"
      PROVE  TouchInv'
  BY <1>3 DEF TouchInv, LoopInv, TouchesUserOnly
<1>4. ASSUME NEW fd, NEW b, NEW c, sys_read(fd, b, c) PROVE TouchInv'
  BY <1>3, <1>4 DEF sys_read, Returns
<1>5. ASSUME NEW status, sys_exit(status) PROVE TouchInv'
  BY <1>3, <1>5 DEF sys_exit, Returns
<1>6. ASSUME NEW fd, sys_close(fd) PROVE TouchInv'
  BY <1>3, <1>6 DEF sys_close, Returns
<1>7. CASE sys_unknown \/ write_end \/ isr128_return
  BY <1>3, <1>7 DEF sys_unknown, write_end, isr128_return, Returns
<1>8. CASE write_chunk
  BY <1>8, ChunkStep
<1>9. CASE halt_loop \/ UNCHANGED vars
  BY <1>9 DEF halt_loop, vars, TouchInv, LoopInv, TouchesUserOnly
<1> QED BY <1>1, <1>2, <1>4, <1>5, <1>6, <1>7, <1>8, <1>9 DEF Next

\* The system calls read no byte outside user space, for every layout of the address
\* space and whatever pages are mapped.
THEOREM TouchesUserOnlyThm == Spec => []TouchesUserOnly
<1>1. Init => TouchInv
  BY DEF Init, TouchInv, LoopInv, TouchesUserOnly
<1>2. TouchInv => TouchesUserOnly
  BY DEF TouchInv
<1> QED BY <1>1, <1>2, TouchInvStep, PTL DEF Spec
-----------------------------------------------------------------------------
(* What SYS_WRITE answers.                                                 *)

\* Inside the loop: what has been read is the buffer up to offset, in whole chunks
\* unless the end is reached.
WriteLoop ==
    pc = "write" =>
        /\ r.b \in Addresses /\ r.c \in Addresses
        /\ offset \in 0..r.c /\ written = offset
        /\ offset = r.c \/ offset % CHUNK = 0
        /\ touched = Bytes(r.b, offset)

WriteInv == WriteLoop /\ PrefixWritten /\ ShortOnlyAtBadByte

\* A multiple of w that is smaller than w is 0.
LEMMA SmallMultiple ==
    ASSUME NEW k \in Int, NEW w \in Nat, k * w < w, -w < k * w
    PROVE  k = 0
<1>1. CASE k >= 1
  <2>1. k * w = w + (k - 1) * w /\ (k - 1) * w >= 0
    BY <1>1
  <2> QED BY <2>1
<1>2. CASE k <= -1
  <2>1. k * w = (k + 1) * w - w /\ (k + 1) * w <= 0
    BY <1>2
  <2> QED BY <2>1
<1> QED BY <1>1, <1>2

\* Adding a multiple of w does not change the remainder.
LEMMA AddMultiple ==
    ASSUME NEW x \in Nat, NEW q \in Nat, NEW w \in Nat, 0 < w
    PROVE  (q * w + x) % w = x % w
<1>1. PICK m \in Nat : m = q * w
  OBVIOUS
<1>2. PICK y \in Nat : y = m + x
  OBVIOUS
<1>3. PICK qx \in Nat, rx \in 0..(w - 1) : x = qx * w + rx /\ rx = x % w
  <2>1. x \div w \in Nat /\ x % w \in 0..(w - 1) /\ x = (x \div w) * w + (x % w)
    OBVIOUS
  <2> QED BY <2>1
<1>4. PICK qy \in Nat, ry \in 0..(w - 1) : y = qy * w + ry /\ ry = y % w
  <2>1. y \div w \in Nat /\ y % w \in 0..(w - 1) /\ y = (y \div w) * w + (y % w)
    OBVIOUS
  <2> QED BY <2>1
<1>5. PICK k \in Int : k = qy - qx - q
  OBVIOUS
<1>6. k * w = qy * w - qx * w - q * w
  BY <1>5
<1>7. k * w = rx - ry
  <2>1. qy * w \in Int /\ qx * w \in Int /\ q * w \in Int
    OBVIOUS
  <2> QED BY <1>1, <1>2, <1>3, <1>4, <1>6, <2>1
<1>8. k = 0
  BY <1>7, SmallMultiple
<1>9. rx = ry
  BY <1>7, <1>8
<1> QED BY <1>1, <1>2, <1>3, <1>4, <1>9

\* Addition modulo WORD may be reduced in between.
LEMMA WrapTwice ==
    ASSUME NEW a \in Nat, NEW i \in Nat
    PROVE  ((a % WORD) + i) % WORD = (a + i) % WORD
<1>1. WORD \in Nat /\ 0 < WORD
  BY ConstantTypes
<1>2. PICK q \in Nat, x \in Nat : a = q * WORD + x /\ x = a % WORD
  <2>1. a \div WORD \in Nat /\ a % WORD \in Nat /\ a = (a \div WORD) * WORD + (a % WORD)
    BY <1>1
  <2> QED BY <2>1
<1>3. PICK y \in Nat : y = x + i
  OBVIOUS
<1>4. a + i = q * WORD + y
  <2>1. q * WORD \in Nat
    BY <1>1
  <2> QED BY <1>2, <1>3, <2>1
<1>5. (q * WORD + y) % WORD = y % WORD
  BY <1>1, AddMultiple
<1> QED BY <1>2, <1>3, <1>4, <1>5

\* A buffer may start anywhere modulo WORD.
LEMMA BytesWrap ==
    ASSUME NEW a \in Nat, NEW n \in Nat, NEW p, p = a % WORD
    PROVE  Bytes(p, n) = Bytes(a, n)
<1>1. \A i \in 0..(n - 1) : ((a % WORD) + i) % WORD = (a + i) % WORD
  BY WrapTwice
<1> QED BY <1>1 DEF Bytes

\* The bytes of a buffer, one part after the other.
LEMMA BytesSplit ==
    ASSUME NEW a \in Nat, NEW m \in Nat, NEW n \in Nat,
           NEW b \in Nat, b = a + m, NEW k \in Nat, k = m + n,
           NEW S, NEW T, S = Bytes(a, m), T = Bytes(b, n)
    PROVE  S \cup T = Bytes(a, k)
<1>1. Bytes(a, m) \cup Bytes(b, n) \subseteq Bytes(a, k)
  <2>1. ASSUME NEW i \in 0..(n - 1) PROVE (a + m + i) % WORD \in Bytes(a, m + n)
    <3>1. m + i \in 0..(m + n - 1) /\ a + m + i = a + (m + i)
      OBVIOUS
    <3> QED BY <3>1 DEF Bytes
  <2>2. ASSUME NEW i \in 0..(m - 1) PROVE (a + i) % WORD \in Bytes(a, m + n)
    <3>1. i \in 0..(m + n - 1)
      OBVIOUS
    <3> QED BY <3>1 DEF Bytes
  <2> QED BY <2>1, <2>2 DEF Bytes
<1>2. ASSUME NEW i \in 0..(k - 1)
      PROVE  (a + i) % WORD \in Bytes(a, m) \cup Bytes(b, n)
  <2>1. CASE i < m
    BY <2>1, i \in 0..(m - 1) DEF Bytes
  <2>2. CASE i >= m
    <3>1. i - m \in 0..(n - 1) /\ a + i = b + (i - m)
      BY <2>2
    <3> QED BY <3>1 DEF Bytes
  <2> QED BY <2>1, <2>2
<1>3. Bytes(a, k) \subseteq Bytes(a, m) \cup Bytes(b, n)
  <2> SUFFICES ASSUME NEW x \in Bytes(a, k) PROVE x \in Bytes(a, m) \cup Bytes(b, n)
    OBVIOUS
  <2>1. PICK i \in 0..(k - 1) : x = (a + i) % WORD
    BY DEF Bytes
  <2> QED BY <1>2, <2>1
<1> QED BY <1>1, <1>3

\* validate_user_ptr refuses no region whose bytes all belong to the program, also one
\* that ends where a page or user space ends.
LEMMA RefusedHasBadByte ==
    ASSUME NEW ptr \in Addresses, NEW len \in Nat, 0 < len, len < WORD,
           ~validate_user_ptr(ptr, len)
    PROVE  \E x \in Bytes(ptr, len) : ~UserByte(x)
<1> SUFFICES ASSUME \A x \in Bytes(ptr, len) : UserByte(x) PROVE FALSE
  OBVIOUS
<1>1. ptr \in Nat /\ ptr < WORD
  BY ConstantTypes DEF Addresses
<1>2. ASSUME NEW i \in Nat, i < len
      PROVE  UserByte((ptr + i) % WORD)
  BY <1>2, i \in 0..(len - 1) DEF Bytes
<1>3. ptr + len < WORD
  <2>1. CASE ptr + len >= WORD
    <3>1. WORD - 1 - ptr \in Nat /\ WORD - 1 - ptr < len
      BY <1>1, <2>1, ConstantTypes
    <3>2. (ptr + (WORD - 1 - ptr)) % WORD = WORD - 1
      BY <1>1, ConstantTypes
    <3>3. UserByte(WORD - 1)
      BY <1>2, <3>1, <3>2
    <3> QED BY <3>3, ConstantTypes DEF UserByte
  <2> QED BY <1>1, <2>1, ConstantTypes
<1>4. ASSUME NEW i \in Nat, i < len
      PROVE  UserByte(ptr + i)
  <2>1. (ptr + i) % WORD = ptr + i
    BY <1>1, <1>3, <1>4, ConstantTypes
  <2> QED BY <1>2, <1>4, <2>1
<1>5. UserByte(ptr) /\ UserByte(ptr + len - 1)
  <2>1. UserByte(ptr + 0) /\ UserByte(ptr + (len - 1))
    BY <1>4
  <2> QED BY <1>1, <2>1
<1>6. (ptr + len) % WORD = ptr + len
  BY <1>1, <1>3, ConstantTypes
<1>7. ASSUME NEW i \in 0..(len \div PAGE), ptr + i * PAGE < ptr + len
      PROVE  IsMapped(ptr + i * PAGE)
  <2>1. i * PAGE \in Nat /\ i * PAGE < len
    BY <1>1, <1>7, ConstantTypes
  <2> QED BY <1>4, <2>1 DEF UserByte
<1>8. USER_LOW <= ptr /\ ptr < USER_HIGH /\ ptr + len <= USER_HIGH
  BY <1>1, <1>5, ConstantTypes DEF UserByte
<1>9. validate_user_region(ptr, len)
  <2>1. ptr <= ptr + len
    BY <1>1
  <2>2. \A i \in 0..(len \div PAGE) : ptr + i * PAGE < ptr + len => IsMapped(ptr + i * PAGE)
    BY <1>7
  <2> QED BY <1>6, <1>8, <2>1, <2>2 DEF validate_user_region
<1>10. ptr # 0
  BY <1>8, ConstantTypes
<1> QED BY <1>9, <1>10 DEF validate_user_ptr

\* One turn of the loop of SYS_WRITE.
LEMMA WriteChunk == WriteInv /\ write_chunk => WriteInv'
<1> SUFFICES ASSUME WriteInv, write_chunk PROVE WriteInv'
  OBVIOUS
<1> DEFINE take == Take(r.c - offset)
           ptr  == (r.b + offset) % WORD
<1>1. /\ pc = "write" /\ offset < r.c /\ r' = r /\ mapped' = mapped
      /\ r.b \in Nat /\ r.c \in Nat /\ r.b < WORD /\ r.c < WORD
      /\ r.b \in Addresses /\ r.c \in Addresses
      /\ offset \in Nat /\ written = offset /\ touched = Bytes(r.b, offset)
      /\ offset % CHUNK = 0
  BY ConstantTypes DEF WriteInv, WriteLoop, write_chunk, Addresses
<1>2. ptr \in Addresses
  BY <1>1, ConstantTypes DEF Addresses
<1>3. take \in Nat /\ 0 < take /\ take < WORD /\ offset + take <= r.c
      /\ (offset + take = r.c \/ take = CHUNK)
  BY <1>1, ConstantTypes DEF Take
<1>4. /\ Bytes(r.b, offset) \cup Bytes(ptr, take) = Bytes(r.b, offset + take)
      /\ Bytes(ptr, take) = Bytes(r.b + offset, take)
  <2>1. r.b \in Nat /\ offset \in Nat /\ take \in Nat
    BY <1>1, <1>3
  <2> HIDE DEF take
  <2>2. Bytes(ptr, take) = Bytes(r.b + offset, take)
    BY <2>1, BytesWrap
  <2>3. PICK a \in Nat, m \in Nat, n \in Nat : a = r.b /\ m = offset /\ n = take
    BY <2>1
  <2>4. PICK b \in Nat, k \in Nat : b = a + m /\ k = m + n
    OBVIOUS
  <2>5. PICK S, T : S = Bytes(a, m) /\ T = Bytes(b, n)
    OBVIOUS
  <2>6. S \cup T = Bytes(a, k)
    BY <2>4, <2>5, BytesSplit
  <2> QED BY <2>2, <2>3, <2>4, <2>5, <2>6
<1>5. CASE ~validate_user_ptr(ptr, take)
  <2>1. pc' = "return" /\ eax' = offset /\ touched' = touched
    BY <1>1, <1>5 DEF write_chunk, Returns
  <2>2. WriteLoop' /\ PrefixWritten'
    BY <1>1, <2>1 DEF WriteLoop, PrefixWritten
  <2>3. PICK x \in Bytes(r.b + offset, take) : ~UserByte(x)
    BY <1>2, <1>3, <1>4, <1>5, RefusedHasBadByte
  <2>4. ~UserByte(x)'
    BY <1>1, <2>3 DEF UserByte, IsMapped
  <2>5. ShortOnlyAtBadByte'
    BY <1>1, <2>1, <2>3, <2>4 DEF ShortOnlyAtBadByte
  <2> QED BY <2>2, <2>5 DEF WriteInv
<1>6. CASE validate_user_ptr(ptr, take)
  <2>1. /\ touched' = touched \cup Bytes(ptr, take)
        /\ \/ pc' = "write" /\ offset' = offset + take /\ written' = written + take
           \/ pc' = "halted"
    BY <1>1, <1>6 DEF write_chunk
  <2>2. PrefixWritten' /\ ShortOnlyAtBadByte'
    BY <2>1 DEF PrefixWritten, ShortOnlyAtBadByte, WriteReturned
  <2>3. CASE pc' = "write"
    <3>1. offset' = offset + take /\ written' = offset' /\ touched' = Bytes(r.b, offset')
      BY <1>1, <1>4, <2>1, <2>3
    <3>2. offset' \in 0..r.c
      BY <1>1, <1>3, <3>1
    <3>3. offset' = r.c \/ offset' % CHUNK = 0
      <4>1. CASE take = CHUNK
        <5>1. (offset + CHUNK) % CHUNK = offset % CHUNK
          <6>1. PICK q \in Nat, w \in Nat, x \in Nat : q = 1 /\ w = CHUNK /\ x = offset /\ 0 < w
            BY <1>1, ConstantTypes
          <6>2. (q * w + x) % w = x % w
            BY <6>1, AddMultiple
          <6>3. q * w + x = x + w
            BY <6>1
          <6> QED BY <6>1, <6>2, <6>3
        <5> QED BY <1>1, <3>1, <4>1, <5>1
      <4> QED BY <1>3, <3>1, <4>1
    <3>4. WriteLoop'
      BY <1>1, <3>1, <3>2, <3>3 DEF WriteLoop
    <3> QED BY <2>2, <3>4 DEF WriteInv
  <2>4. CASE pc' = "halted"
    BY <2>2, <2>4 DEF WriteInv, WriteLoop
  <2> QED BY <2>1, <2>3, <2>4
<1> QED BY <1>5, <1>6

\* Every step keeps it.
LEMMA WriteInvStep == WriteInv /\ [Next]_vars => WriteInv'
<1> SUFFICES ASSUME WriteInv, [Next]_vars PROVE WriteInv'
  OBVIOUS
<1>1. ASSUME NEW fd \in 0..3, NEW b \in Addresses, NEW c \in Addresses, sys_write(fd, b, c)
      PROVE  WriteInv'
  <2>1. /\ r' = [num |-> "SYS_WRITE", a |-> fd, b |-> b, c |-> c]
        /\ offset' = 0 /\ written' = 0 /\ touched' = {}
    BY <1>1 DEF sys_write, Called
  <2>2. 0 \in 0..c /\ 0 % CHUNK = 0 /\ Bytes(b, 0) = {}
    BY ConstantTypes DEF Addresses, Bytes
  <2>3. CASE fd \in {FD_STDOUT, FD_STDERR}
    <3>1. pc' = "write"
      BY <1>1, <2>3 DEF sys_write
    <3> QED BY <2>1, <2>2, <3>1
            DEF WriteInv, WriteLoop, PrefixWritten, ShortOnlyAtBadByte, WriteReturned
  <2>4. CASE fd \notin {FD_STDOUT, FD_STDERR}
    <3>1. pc' = "return"
      BY <1>1, <2>4 DEF sys_write, Returns
    <3>2. r'.a = fd
      BY <2>1
    <3> QED BY <2>4, <3>1, <3>2
            DEF WriteInv, WriteLoop, PrefixWritten, ShortOnlyAtBadByte, WriteReturned
  <2> QED BY <2>3, <2>4
<1>2. ASSUME pc' \notin {"write", "return"} \/ (pc' = "return" /\ r'.num # "SYS_WRITE")
      PROVE  WriteInv'
  BY <1>2 DEF WriteInv, WriteLoop, PrefixWritten, ShortOnlyAtBadByte, WriteReturned
<1>3. ASSUME NEW path, sys_open(path) PROVE WriteInv'
  <2>1. pc' = "return" /\ r'.num = "SYS_OPEN"
    BY <1>3 DEF sys_open, Returns, Called
  <2> QED BY <1>2, <2>1
<1>4. ASSUME NEW fd, NEW b, NEW c, sys_read(fd, b, c) PROVE WriteInv'
  BY <1>2, <1>4 DEF sys_read, Returns, Called
<1>5. ASSUME NEW status, sys_exit(status) PROVE WriteInv'
  BY <1>2, <1>5 DEF sys_exit, Returns, Called
<1>6. ASSUME NEW fd, sys_close(fd) PROVE WriteInv'
  BY <1>2, <1>6 DEF sys_close, Returns, Called
<1>7. CASE sys_unknown \/ isr128_return
  BY <1>2, <1>7 DEF sys_unknown, isr128_return, Returns, Called
<1>8. CASE write_chunk
  BY <1>8, WriteChunk
<1>9. CASE write_end
  <2>1. /\ pc' = "return" /\ r' = r /\ touched' = touched /\ eax' = written
        /\ pc = "write" /\ offset >= r.c
    BY <1>9 DEF write_end, Returns
  <2>2. r.c \in Nat /\ offset \in 0..r.c /\ written = offset /\ touched = Bytes(r.b, offset)
    BY <2>1, ConstantTypes DEF WriteInv, WriteLoop, Addresses
  <2>3. eax' = r.c /\ touched' = Bytes(r.b, r.c)
    BY <2>1, <2>2
  <2> QED BY <2>1, <2>2, <2>3 DEF WriteInv, WriteLoop, PrefixWritten, ShortOnlyAtBadByte
<1>10. CASE halt_loop \/ UNCHANGED vars
  BY <1>10 DEF halt_loop, vars, WriteInv, WriteLoop, PrefixWritten, ShortOnlyAtBadByte,
               WriteReturned, UserByte, IsMapped
<1> QED BY <1>1, <1>3, <1>4, <1>5, <1>6, <1>7, <1>8, <1>9, <1>10 DEF Next

LEMMA WriteInvInit == Init => WriteInv
  BY DEF Init, WriteInv, WriteLoop, PrefixWritten, ShortOnlyAtBadByte, WriteReturned

\* SYS_WRITE reads exactly the prefix of the buffer whose length it returns, wherever the
\* buffer lies, also when it wraps around the address space, and whatever is mapped.
THEOREM PrefixWrittenThm == Spec => []PrefixWritten
<1>1. WriteInv => PrefixWritten
  BY DEF WriteInv
<1> QED BY <1>1, WriteInvInit, WriteInvStep, PTL DEF Spec

\* SYS_WRITE stops short only at a chunk with a byte the program does not own.
THEOREM ShortOnlyAtBadByteThm == Spec => []ShortOnlyAtBadByte
<1>1. WriteInv => ShortOnlyAtBadByte
  BY DEF WriteInv
<1> QED BY <1>1, WriteInvInit, WriteInvStep, PTL DEF Spec
=============================================================================
