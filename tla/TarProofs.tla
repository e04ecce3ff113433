------------------------------ MODULE TarProofs -----------------------------
(***************************************************************************)
(* Proofs about the conversions of Encoding for every word, base and name, *)
(* and about the walk over a tar archive for every archive.                *)
(***************************************************************************)
EXTENDS MCTar, WellFoundedInduction, TLAPS

-----------------------------------------------------------------------------
(* Natural numbers.                                                        *)

\* A set of natural numbers that is not empty has a least element.
LEMMA LeastNatural ==
    ASSUME NEW T, T \subseteq Nat, T # {}
    PROVE  \E m \in T : \A k \in T : m <= k
<1> DEFINE R == OpToRel(<, Nat)
<1>1. IsWellFoundedOn(R, Nat)
  BY NatLessThanWellFounded
<1>2. R = {ss \in Nat \X Nat : ss[1] < ss[2]}
  BY DEF OpToRel
<1> HIDE DEF R
<1>3. PICK x \in T : \A y \in T : ~ (<<y, x>> \in R)
  BY <1>1, WFMin
<1>4. ASSUME NEW k \in T PROVE x <= k
  <2>1. x \in Nat /\ k \in Nat
    OBVIOUS
  <2>2. ~(<<k, x>> \in R)
    BY <1>3
  <2>3. CASE k < x
    <3>1. <<k, x>> \in {ss \in Nat \X Nat : ss[1] < ss[2]}
      BY <2>1, <2>3
    <3> QED BY <1>2, <2>2, <3>1
  <2> QED BY <2>1, <2>3
<1> QED BY <1>4

\* Induction over 0..n, for a property given by the set T of the numbers that have it.
LEMMA UpTo ==
    ASSUME NEW n \in Nat, NEW T, 0 \in T,
           \A i \in 1..n : i - 1 \in T => i \in T
    PROVE  0..n \subseteq T
<1> DEFINE U == {i \in 0..n : i \notin T}
<1>1. CASE U # {}
  <2>0. U \subseteq Nat
    OBVIOUS
  <2> HIDE DEF U
  <2>1. PICK m \in U : \A k \in U : m <= k
    BY <1>1, <2>0, LeastNatural
  <2> USE DEF U
  <2>2. m \in 1..n /\ m - 1 \in 0..n /\ ~(m <= m - 1)
    BY <2>1
  <2>3. m - 1 \in T
    BY <2>1, <2>2
  <2> QED BY <2>1, <2>2, <2>3
<1>2. CASE U = {}
  BY <1>2
<1> QED BY <1>1, <1>2

\* A loop of n turns, each given by G: its state after each turn.
Turns(G, n, S) == G \in [1..n -> [S -> S]]
After(f, G, n, S, x) ==
    f \in [0..n -> S] /\ f[0] = x /\ \A i \in 1..n : f[i] = G[i][f[i - 1]]

LEMMA Iterates ==
    ASSUME NEW n \in Nat, NEW S, NEW x \in S, NEW G, Turns(G, n, S)
    PROVE  \E f : After(f, G, n, S, x)
<1> DEFINE Runs(f, m) == f \in [0..m -> S] /\ f[0] = x /\ \A i \in 1..m : f[i] = G[i][f[i - 1]]
           T == {m \in 0..n : \E f : Runs(f, m)}
<1>1. 0 \in T
  <2>1. PICK f : f = [i \in 0..0 |-> x]
    OBVIOUS
  <2>2. Runs(f, 0)
    BY <2>1
  <2> QED BY <2>2
<1>2. ASSUME NEW m \in 1..n, m - 1 \in T
      PROVE  m \in T
  <2>1. PICK f : Runs(f, m - 1)
    BY <1>2
  <2>2. m \in Nat /\ m - 1 \in 0..(m - 1) /\ m \in 0..n
    OBVIOUS
  <2>3. PICK y \in S : y = G[m][f[m - 1]]
    BY <2>1, <2>2 DEF Turns
  <2>4. PICK g : g = [i \in 0..m |-> IF i = m THEN y ELSE f[i]]
    OBVIOUS
  <2>5. g \in [0..m -> S] /\ g[0] = x
    <3>1. \A i \in 0..m : i # m => i \in 0..(m - 1)
      BY <2>2
    <3>2. 0 \in 0..m /\ 0 # m /\ 0 \in 0..(m - 1)
      BY <2>2
    <3> QED BY <2>1, <2>3, <2>4, <3>1, <3>2
  <2>6. ASSUME NEW i \in 1..m PROVE g[i] = G[i][g[i - 1]]
    <3>1. i \in 0..m /\ i - 1 \in 0..m /\ i - 1 # m
      BY <2>2
    <3>2. g[i - 1] = f[i - 1]
      BY <2>4, <3>1
    <3>3. CASE i = m
      BY <2>3, <2>4, <3>1, <3>2, <3>3
    <3>4. CASE i # m
      <4>1. i \in 1..(m - 1)
        BY <2>2, <3>4
      <4>2. f[i] = G[i][f[i - 1]] /\ g[i] = f[i]
        BY <2>1, <2>4, <3>1, <3>4, <4>1
      <4> QED BY <3>2, <4>2
    <3> QED BY <3>3, <3>4
  <2>7. Runs(g, m)
    BY <2>5, <2>6
  <2> QED BY <2>2, <2>7
<1>3. 0..n \subseteq T
  <2> HIDE DEF T
  <2> QED BY <1>1, <1>2, UpTo
<1>4. n \in T
  BY <1>3
<1> QED BY <1>4 DEF After

\* Division with remainder.
LEMMA DivMod ==
    ASSUME NEW a \in Nat, NEW b \in Nat \ {0}
    PROVE  /\ a \div b \in Nat /\ a % b \in Nat /\ a % b < b
           /\ a = (b * (a \div b)) + (a % b)
OBVIOUS


-----------------------------------------------------------------------------
(* Numbers.                                                                *)

\* The loop that divides a number again and again.
Halving(f, num, base, n) ==
    f \in [0..n -> Int] /\ f[0] = num /\ \A i \in 1..n : f[i] = f[i - 1] \div base

LEMMA HalvingRuns ==
    ASSUME NEW num \in Int, NEW base \in Nat \ {0}, NEW n \in Nat
    PROVE  Halving(Quotients(num, base, n), num, base, n)
<1> DEFINE P(g) == g = [i \in 0..n |-> IF i = 0 THEN num ELSE g[i - 1] \div base]
<1>1. PICK G : G = [i \in 1..n |-> [y \in Int |-> y \div base]]
  OBVIOUS
<1>2. G \in [1..n -> [Int -> Int]]
  BY <1>1
<1>3. PICK f \in [0..n -> Int] : f[0] = num /\ \A i \in 1..n : f[i] = G[i][f[i - 1]]
  <2>1. PICK S : S = Int
    OBVIOUS
  <2>2. num \in S /\ Turns(G, n, S)
    BY <1>2, <2>1 DEF Turns
  <2>3. PICK f : After(f, G, n, S, num)
    BY <2>2, Iterates
  <2> QED BY <2>1, <2>3 DEF After
<1>4. P(f)
  <2>1. ASSUME NEW i \in 0..n PROVE f[i] = IF i = 0 THEN num ELSE f[i - 1] \div base
    <3>1. CASE i = 0
      BY <1>3, <3>1
    <3>2. CASE i # 0
      <4>1. i \in 1..n /\ i - 1 \in 0..n
        BY <3>2
      <4> QED BY <1>1, <1>3, <3>2, <4>1
    <3> QED BY <3>1, <3>2
  <2> QED BY <1>3, <2>1
<1>5. PICK h : h = CHOOSE g : P(g)
  OBVIOUS
<1>6. P(h)
  <2> HIDE DEF P
  <2> QED BY <1>4, <1>5
<1>7. Halving(h, num, base, n)
  <2> DEFINE T == {i \in 0..n : h[i] \in Int}
  <2>2. 0 \in T
    BY <1>6
  <2>3. ASSUME NEW i \in 1..n, i - 1 \in T PROVE i \in T
    <3>1. i \in 0..n /\ i # 0
      OBVIOUS
    <3>2. h[i] = h[i - 1] \div base
      BY <1>6, <3>1
    <3> QED BY <2>3, <3>1, <3>2
  <2>4. 0..n \subseteq T
    <3> HIDE DEF T
    <3> QED BY <2>2, <2>3, UpTo
  <2>5. \A i \in 1..n : i \in 0..n /\ i # 0
    OBVIOUS
  <2>6. h[0] = num /\ \A i \in 1..n : h[i] = h[i - 1] \div base
    BY <1>6, <2>5
  <2>7. h \in [0..n -> Int]
    <3>1. \A i \in 0..n : h[i] \in Int
      BY <2>4
    <3> QED BY <1>6, <3>1
  <2> QED BY <2>6, <2>7 DEF Halving
<1>8. Quotients(num, base, n) = CHOOSE g : P(g)
  BY DEF Quotients
<1> QED BY <1>5, <1>7, <1>8

\* The value of a sequence of digits is what the recursion says.
IsDigits(ds, n) == ds \in [1..n -> Int]
Sums(f, ds, base, n) ==
    f \in [0..n -> Int] /\ f[0] = 0 /\ \A i \in 1..n : f[i] = (base * f[i - 1]) + ds[i]

LEMMA ValueRuns ==
    ASSUME NEW n \in Nat, NEW ds, IsDigits(ds, n), NEW base \in Nat
    PROVE  \E f : Sums(f, ds, base, n) /\ Value(ds, base) = f[n]
<1> DEFINE P(g) == g = [i \in 0..n |-> IF i = 0 THEN 0 ELSE base * g[i - 1] + ds[i]]
<1>a. ds \in [1..n -> Int]
  BY DEF IsDigits
<1>0. ds \in Seq(Int) /\ Len(ds) = n
  BY <1>a
<1>1. PICK G : G = [i \in 1..n |-> [y \in Int |-> (base * y) + ds[i]]]
  OBVIOUS
<1>2. G \in [1..n -> [Int -> Int]]
  <2>1. \A i \in 1..n : [y \in Int |-> (base * y) + ds[i]] \in [Int -> Int]
    BY <1>a
  <2> QED BY <1>1, <2>1
<1>3. PICK f \in [0..n -> Int] : f[0] = 0 /\ \A i \in 1..n : f[i] = G[i][f[i - 1]]
  <2>1. PICK S, x : S = Int /\ x = 0
    OBVIOUS
  <2>2. x \in S /\ Turns(G, n, S)
    BY <1>2, <2>1 DEF Turns
  <2>3. PICK f : After(f, G, n, S, x)
    BY <2>2, Iterates
  <2> QED BY <2>1, <2>3 DEF After
<1>4. P(f)
  <2>1. ASSUME NEW i \in 0..n PROVE f[i] = IF i = 0 THEN 0 ELSE base * f[i - 1] + ds[i]
    <3>1. CASE i = 0
      BY <1>3, <3>1
    <3>2. CASE i # 0
      <4>1. i \in 1..n /\ i - 1 \in 0..n
        BY <3>2
      <4> QED BY <1>1, <1>3, <3>2, <4>1
    <3> QED BY <3>1, <3>2
  <2> QED BY <1>3, <2>1
<1>5. PICK h : h = CHOOSE g : P(g)
  OBVIOUS
<1>6. P(h)
  <2> HIDE DEF P
  <2> QED BY <1>4, <1>5
<1> DEFINE T == {i \in 0..n : h[i] \in Int}
<1>7. 0 \in T
  BY <1>6
<1>8. ASSUME NEW i \in 1..n, i - 1 \in T PROVE i \in T
  <2>1. i \in 0..n /\ i # 0
    OBVIOUS
  <2>2. h[i] = base * h[i - 1] + ds[i]
    BY <1>6, <2>1
  <2>3. PICK y \in Int : y = h[i - 1]
    BY <1>8
  <2>4. PICK u \in Int : u = base * y
    <3>1. base * y \in Int
      OBVIOUS
    <3> QED BY <3>1
  <2>5. PICK w \in Int : w = ds[i]
    BY <1>a
  <2>6. h[i] = u + w
    BY <2>2, <2>3, <2>4, <2>5
  <2>7. u + w \in Int
    OBVIOUS
  <2> QED BY <2>1, <2>6, <2>7
<1>9. 0..n \subseteq T
  <2> HIDE DEF T
  <2> QED BY <1>7, <1>8, UpTo
<1>10. h \in [0..n -> Int]
  <2>1. \A i \in 0..n : h[i] \in Int
    BY <1>9
  <2> QED BY <1>6, <2>1
<1>11. \A i \in 1..n : i \in 0..n /\ i # 0
  OBVIOUS
<1>12. h[0] = 0 /\ \A i \in 1..n : h[i] = (base * h[i - 1]) + ds[i]
  BY <1>6, <1>11
<1>13. Value(ds, base) = h[n]
  <2>1. Value(ds, base) = (CHOOSE g : P(g))[n]
    BY <1>0 DEF Value
  <2> HIDE DEF P
  <2> QED BY <1>5, <2>1
<1> QED BY <1>10, <1>12, <1>13 DEF Sums


LEMMA HalvingNat ==
    ASSUME NEW f, NEW num \in Nat, NEW base \in Nat \ {0}, NEW n \in Nat, Halving(f, num, base, n)
    PROVE  \A i \in 0..n : f[i] \in Nat
<1> DEFINE T == {i \in 0..n : f[i] \in Nat}
<1>1. 0 \in T
  BY DEF Halving
<1>2. ASSUME NEW i \in 1..n, i - 1 \in T PROVE i \in T
  <2>1. i \in 0..n /\ f[i] = f[i - 1] \div base
    BY DEF Halving
  <2>2. PICK y \in Nat : y = f[i - 1]
    BY <1>2
  <2>3. y \div base \in Nat
    BY DivMod
  <2> QED BY <2>1, <2>2, <2>3
<1>3. 0..n \subseteq T
  <2> HIDE DEF T
  <2> QED BY <1>1, <1>2, UpTo
<1> QED BY <1>3

\* When n divisions bring the number to zero, the n remainders are its digits.
Remainders(f, n, base) == [j \in 1..n |-> f[n - j] % base]

LEMMA RemaindersAreDigits ==
    ASSUME NEW f, NEW num \in Nat, NEW base \in Nat \ {0}, NEW m \in Nat, Halving(f, num, base, m),
           NEW n \in 0..m, f[n] = 0
    PROVE  Value(Remainders(f, n, base), base) = num
<1>1. PICK ds : ds = [j \in 1..n |-> f[n - j] % base]
  OBVIOUS
<1>2. \A i \in 0..m : f[i] \in Nat
  BY HalvingNat
<1>3. \A j \in 1..n : n - j \in 0..m /\ n - j + 1 \in 1..m /\ n - j + 1 = n - (j - 1)
                      /\ (n - (j - 1)) - 1 = n - j
  OBVIOUS
<1>4. ASSUME NEW j \in 1..n
      PROVE  /\ ds[j] \in Nat /\ f[n - (j - 1)] \in Nat
             /\ f[n - j] = (base * f[n - (j - 1)]) + ds[j]
  <2>1. PICK y \in Nat : y = f[n - j]
    BY <1>2, <1>3
  <2>2. ds[j] = y % base
    BY <1>1, <2>1
  <2>3. f[n - (j - 1)] = y \div base
    BY <1>3, <2>1 DEF Halving
  <2> QED BY <2>1, <2>2, <2>3, DivMod
<1>5. IsDigits(ds, n) /\ n \in Nat
  BY <1>1, <1>4 DEF IsDigits
<1>6. PICK v : Sums(v, ds, base, n) /\ Value(ds, base) = v[n]
  BY <1>5, ValueRuns
<1> DEFINE T == {i \in 0..n : v[i] = f[n - i]}
<1>7. 0 \in T
  BY <1>6 DEF Sums
<1>8. ASSUME NEW i \in 1..n, i - 1 \in T PROVE i \in T
  <2>1. v[i - 1] = f[n - (i - 1)]
    BY <1>8
  <2>2. v[i] = (base * v[i - 1]) + ds[i]
    BY <1>6 DEF Sums
  <2>3. v[i] = f[n - i]
    BY <1>4, <2>1, <2>2
  <2>4. i \in 0..n
    OBVIOUS
  <2> QED BY <2>3, <2>4
<1>9. 0..n \subseteq T
  <2>1. n \in Nat
    OBVIOUS
  <2> HIDE DEF T
  <2> QED BY <1>7, <1>8, <2>1, UpTo
<1>10. v[n] = f[0]
  <2>1. n \in 0..n /\ n - n = 0
    OBVIOUS
  <2> QED BY <1>9, <2>1
<1> QED BY <1>1, <1>6, <1>10 DEF Halving, Remainders

\* Eight divisions divide by 256 at least, thirty-two make a word vanish.
LEMMA EightTurns ==
    ASSUME NEW f, NEW num \in Nat, NEW base \in Nat \ {0, 1}, NEW n \in Nat,
           Halving(f, num, base, n), NEW i \in Nat, i + 8 <= n
    PROVE  256 * f[i + 8] <= f[i]
<1>1. \A j \in 0..n : f[j] \in Nat
  BY HalvingNat
<1>2. ASSUME NEW j \in Nat, j < n PROVE 2 * f[j + 1] <= f[j] /\ f[j] \in Nat /\ f[j + 1] \in Nat
  <2>1. j + 1 \in 1..n /\ j \in 0..n /\ j + 1 \in 0..n /\ (j + 1) - 1 = j
    BY <1>2
  <2>2. PICK y \in Nat, z \in Nat : y = f[j] /\ z = f[j + 1]
    BY <1>1, <2>1
  <2>3. z = y \div base
    BY <2>1, <2>2 DEF Halving
  <2>4. base * z <= y
    BY <2>3, DivMod
  <2>5. PICK e \in Nat : base = e + 2
    <3>1. base - 2 \in Nat /\ base = (base - 2) + 2
      OBVIOUS
    <3> QED BY <3>1
  <2>6. base * z = (e * z) + (2 * z) /\ e * z \in Nat
    BY <2>5
  <2>7. 2 * z <= y
    BY <2>4, <2>6
  <2> QED BY <2>2, <2>7
<1>3. /\ 2 * f[i + 1] <= f[i] /\ f[i] \in Nat /\ f[i + 1] \in Nat
  BY <1>2
<1>4. /\ 2 * f[i + 2] <= f[i + 1] /\ f[i + 2] \in Nat
  <2>1. PICK j \in Nat : j = i + 1 /\ j < n /\ j + 1 = i + 2
    OBVIOUS
  <2> QED BY <1>2, <2>1
<1>5. /\ 2 * f[i + 3] <= f[i + 2] /\ f[i + 3] \in Nat
  <2>1. PICK j \in Nat : j = i + 2 /\ j < n /\ j + 1 = i + 3
    OBVIOUS
  <2> QED BY <1>2, <2>1
<1>6. /\ 2 * f[i + 4] <= f[i + 3] /\ f[i + 4] \in Nat
  <2>1. PICK j \in Nat : j = i + 3 /\ j < n /\ j + 1 = i + 4
    OBVIOUS
  <2> QED BY <1>2, <2>1
<1>7. /\ 2 * f[i + 5] <= f[i + 4] /\ f[i + 5] \in Nat
  <2>1. PICK j \in Nat : j = i + 4 /\ j < n /\ j + 1 = i + 5
    OBVIOUS
  <2> QED BY <1>2, <2>1
<1>8. /\ 2 * f[i + 6] <= f[i + 5] /\ f[i + 6] \in Nat
  <2>1. PICK j \in Nat : j = i + 5 /\ j < n /\ j + 1 = i + 6
    OBVIOUS
  <2> QED BY <1>2, <2>1
<1>9. /\ 2 * f[i + 7] <= f[i + 6] /\ f[i + 7] \in Nat
  <2>1. PICK j \in Nat : j = i + 6 /\ j < n /\ j + 1 = i + 7
    OBVIOUS
  <2> QED BY <1>2, <2>1
<1>10. /\ 2 * f[i + 8] <= f[i + 7] /\ f[i + 8] \in Nat
  <2>1. PICK j \in Nat : j = i + 7 /\ j < n /\ j + 1 = i + 8
    OBVIOUS
  <2> QED BY <1>2, <2>1
<1> QED BY <1>3, <1>4, <1>5, <1>6, <1>7, <1>8, <1>9, <1>10


LEMMA Products ==
    ASSUME NEW a \in Nat, NEW b \in Nat, NEW d \in Nat, NEW e \in Nat, a <= b, d <= e
    PROVE  a * d \in Nat /\ b * e \in Nat /\ a * d <= b * e
<1>1. PICK x \in Nat, y \in Nat : b = a + x /\ e = d + y
  <2>1. b - a \in Nat /\ e - d \in Nat /\ b = a + (b - a) /\ e = d + (e - d)
    OBVIOUS
  <2> QED BY <2>1
<1>2. b * e = (a * d) + (a * y) + (x * d) + (x * y)
  BY <1>1
<1>3. a * d \in Nat /\ a * y \in Nat /\ x * d \in Nat /\ x * y \in Nat /\ b * e \in Nat
  BY <1>1
<1> QED BY <1>2, <1>3

\* The sizes of a byte, a half and a word.
LEMMA Sizes ==
    /\ NIBBLE \in Nat \ {0, 1} /\ BYTE = NIBBLE * NIBBLE /\ NIBBLE <= BYTE
    /\ BYTE \in Nat \ {0, 1} /\ HALF \in Nat \ {0} /\ WORD \in Nat
    /\ HALF = BYTE * BYTE /\ WORD = HALF * HALF
    /\ 16 <= WORD /\ WORD <= 4294967296
    /\ WORD \div 2 \in Nat \ {0} /\ WORD \div 2 <= WORD /\ INT_MIN = -(WORD \div 2)
    /\ BASE \in Nat \ {0, 1}
<1>0. PICK m \in Nat : m = NIBBLE /\ 2 <= m /\ m <= 16
  BY EncodingAssumption
<1>1. PICK b \in Nat : b = BYTE /\ b = m * m /\ 2 * m <= b /\ 2 <= b /\ b <= 256
  <2>1. 2 * m <= m * m /\ m * m <= 16 * 16 /\ m * m \in Nat
    BY <1>0, Products
  <2>2. BYTE = m * m /\ 16 * 16 = 256
    BY <1>0 DEF BYTE
  <2> QED BY <1>0, <2>1, <2>2
<1>2. PICK h \in Nat : h = b * b /\ 4 <= h /\ h <= 65536
  <2>1. 2 * 2 <= b * b /\ b * b <= 256 * 256 /\ b * b \in Nat
    BY <1>1, Products
  <2>2. 2 * 2 = 4 /\ 256 * 256 = 65536
    OBVIOUS
  <2> QED BY <2>1, <2>2
<1>3. PICK w \in Nat : w = h * h /\ 16 <= w /\ w <= 4294967296
  <2>1. 4 * 4 <= h * h /\ h * h <= 65536 * 65536 /\ h * h \in Nat
    BY <1>2, Products
  <2>2. 4 * 4 = 16 /\ 65536 * 65536 = 4294967296
    OBVIOUS
  <2> QED BY <2>1, <2>2
<1>4. HALF = h /\ WORD = w
  BY <1>1, <1>2, <1>3 DEF HALF, WORD
<1>5. w \div 2 \in Nat /\ w \div 2 > 0 /\ w \div 2 <= w
  BY <1>3
<1> QED BY <1>0, <1>1, <1>2, <1>3, <1>4, <1>5, EncodingAssumption DEF INT_MIN

\* The digits of a number that fits in a word.
LEMMA DigitsShow ==
    ASSUME NEW num \in Nat, num < WORD, num > 0
    PROVE  /\ Value(Digits(num, BASE), BASE) = num
           /\ \E n \in Nat \ {0} : \E ds : Digits(num, BASE) = [j \in 1..n |-> ds[j]]
<1>0. BASE \in Nat \ {0, 1} /\ BASE \in Nat \ {0} /\ num < 4294967296
  BY Sizes
<1>1. PICK f : f = Quotients(num, BASE, 32)
  OBVIOUS
<1>2. Halving(f, num, BASE, 32)
  BY <1>0, <1>1, HalvingRuns
<1>3. \A i \in 0..32 : f[i] \in Nat
  BY <1>0, <1>2, HalvingNat
<1>4. f[32] = 0
  <2>1. \A i \in {0, 8, 16, 24} : 256 * f[i + 8] <= f[i]
    BY <1>0, <1>2, EightTurns
  <2>2. /\ 256 * f[8] <= f[0] /\ 256 * f[16] <= f[8] /\ 256 * f[24] <= f[16]
        /\ 256 * f[32] <= f[24]
    <3>1. /\ 256 * f[0 + 8] <= f[0] /\ 256 * f[8 + 8] <= f[8] /\ 256 * f[16 + 8] <= f[16]
          /\ 256 * f[24 + 8] <= f[24]
      BY <2>1
    <3>2. 0 + 8 = 8 /\ 8 + 8 = 16 /\ 16 + 8 = 24 /\ 24 + 8 = 32
      OBVIOUS
    <3> QED BY <3>1, <3>2
  <2>3. f[0] = num /\ f[8] \in Nat /\ f[16] \in Nat /\ f[24] \in Nat /\ f[32] \in Nat
    BY <1>2, <1>3 DEF Halving
  <2> QED BY <1>0, <2>2, <2>3
<1> DEFINE P(i) == f[i] <= 0 /\ \A j \in 0..(i - 1) : f[j] > 0
           U == {i \in 0..32 : f[i] <= 0}
<1>5. PICK m \in U : \A k \in U : m <= k
  <2>1. 32 \in U /\ U \subseteq Nat
    BY <1>4
  <2> HIDE DEF U
  <2> QED BY <2>1, LeastNatural
<1>6. m \in 0..32 /\ P(m)
  <2>1. ASSUME NEW j \in 0..(m - 1) PROVE f[j] > 0
    <3>1. j \in 0..32 /\ ~(m <= j)
      BY <1>5
    <3>2. ~(f[j] <= 0)
      BY <1>5, <3>1
    <3> QED BY <1>3, <3>1, <3>2
  <2> QED BY <1>5, <2>1
<1>7. PICK n : n = CHOOSE i \in 0..32 : P(i)
  OBVIOUS
<1>8. n \in 0..32 /\ P(n)
  <2> HIDE DEF P
  <2> QED BY <1>6, <1>7
<1>9. Digits(num, BASE) = [j \in 1..n |-> f[n - j] % BASE]
  BY <1>1, <1>7 DEF Digits
<1>10. f[n] = 0 /\ n # 0
  BY <1>2, <1>3, <1>8 DEF Halving
<1>11. Value(Digits(num, BASE), BASE) = num
  <2>1. Digits(num, BASE) = Remainders(f, n, BASE)
    BY <1>9 DEF Remainders
  <2> HIDE DEF P, U
  <2> QED BY <1>0, <1>2, <1>8, <1>10, <2>1, RemaindersAreDigits
<1>12. PICK ds : ds = [j \in 1..n |-> f[n - j] % BASE]
  OBVIOUS
<1>13. ds = [j \in 1..n |-> ds[j]] /\ n \in Nat \ {0}
  BY <1>8, <1>10, <1>12
<1> QED BY <1>9, <1>11, <1>12, <1>13

\* A number below zero has no digits.
LEMMA NoDigits ==
    ASSUME NEW num \in Int, num < 0
    PROVE  Digits(num, BASE) = <<>>
<1>0. BASE \in Nat \ {0}
  BY Sizes
<1>1. PICK f : f = Quotients(num, BASE, 32)
  OBVIOUS
<1>2. f[0] = num
  <2>1. Halving(f, num, BASE, 32)
    BY <1>0, <1>1, HalvingRuns
  <2> QED BY <2>1 DEF Halving
<1> DEFINE P(i) == f[i] <= 0 /\ \A j \in 0..(i - 1) : f[j] > 0
<1>3. P(0) /\ \A i \in 0..32 : P(i) => i = 0
  BY <1>2
<1>4. PICK n : n = CHOOSE i \in 0..32 : P(i)
  OBVIOUS
<1>5. n = 0
  <2> HIDE DEF P
  <2> QED BY <1>3, <1>4
<1>6. Digits(num, BASE) = [j \in 1..n |-> f[n - j] % BASE]
  BY <1>1, <1>4 DEF Digits
<1> QED BY <1>5, <1>6


\* Quotient and remainder are unique.
LEMMA QuotientIs ==
    ASSUME NEW a \in Nat, NEW b \in Nat, NEW q \in Nat, NEW r \in Nat, a = (b * q) + r, r < b
    PROVE  a \div b = q
<1>1. PICK y \in Nat, z \in Nat : y = a \div b /\ z = a % b /\ z < b /\ a = (b * y) + z
  BY DivMod
<1>2. CASE y < q
  <2>1. PICK e \in Nat : q = y + 1 + e
    <3>1. q - y - 1 \in Nat /\ q = y + 1 + (q - y - 1)
      BY <1>1, <1>2
    <3> QED BY <3>1
  <2>2. b * q = (b * y) + b + (b * e) /\ b * e \in Nat /\ b * y \in Nat
    <3>1. b * (y + 1 + e) = (b * y) + b + (b * e) /\ b * e \in Nat /\ b * y \in Nat
      OBVIOUS
    <3> QED BY <2>1, <3>1
  <2> QED BY <1>1, <2>2
<1>3. CASE q < y
  <2>1. PICK e \in Nat : y = q + 1 + e
    <3>1. y - q - 1 \in Nat /\ y = q + 1 + (y - q - 1)
      BY <1>1, <1>3
    <3> QED BY <3>1
  <2>2. b * y = (b * q) + b + (b * e) /\ b * e \in Nat /\ b * q \in Nat
    <3>1. b * (q + 1 + e) = (b * q) + b + (b * e) /\ b * e \in Nat /\ b * q \in Nat
      OBVIOUS
    <3> QED BY <2>1, <3>1
  <2> QED BY <1>1, <2>2
<1> QED BY <1>1, <1>2, <1>3

\* Dividing twice is dividing by the product.
IsProduct(p, b, d) == p = b * d

LEMMA DivTwice ==
    ASSUME NEW a \in Nat, NEW b \in Nat \ {0}, NEW d \in Nat \ {0}, NEW p \in Nat, IsProduct(p, b, d)
    PROVE  a \div p = (a \div b) \div d
<1>0. p = b * d
  BY DEF IsProduct
<1>1. PICK q \in Nat, r \in Nat : q = a \div b /\ r = a % b /\ r < b
  BY DivMod
<1>2. PICK y \in Nat, z \in Nat : y = q \div d /\ z = q % d /\ z < d
  BY DivMod
<1>3. a = (b * q) + r /\ q = (d * y) + z
  BY <1>1, <1>2, DivMod
<1>4. b * q = (b * (d * y)) + (b * z)
  BY <1>2, <1>3
<1>5. b * (d * y) = (b * d) * y
  BY <1>2
<1>6. PICK s \in Nat : s = (b * z) + r
  <2>1. b * z \in Nat
    BY <1>2
  <2>2. (b * z) + r \in Nat
    BY <1>1, <2>1
  <2> QED BY <2>1, <2>2
<1>7. s < p
  <2>1. PICK e \in Nat : d = z + 1 + e
    <3>1. d - z - 1 \in Nat /\ d = z + 1 + (d - z - 1)
      BY <1>2
    <3> QED BY <3>1
  <2>2. b * d = (b * z) + b + (b * e) /\ b * e \in Nat /\ b * z \in Nat
    <3>1. b * (z + 1 + e) = (b * z) + b + (b * e) /\ b * e \in Nat /\ b * z \in Nat
      OBVIOUS
    <3> QED BY <2>1, <3>1
  <2> QED BY <1>0, <1>1, <1>6, <2>2
<1>8. a = (p * y) + s
  <2>1. PICK u \in Nat, w \in Nat : u = (b * d) * y /\ w = b * z
    BY <1>2, <1>6
  <2>2. a = u + w + r
    BY <1>3, <1>4, <1>5, <2>1
  <2> QED BY <1>0, <1>6, <2>1, <2>2
<1>9. a \div p = y
  BY <1>2, <1>6, <1>7, <1>8, QuotientIs
<1> QED BY <1>1, <1>2, <1>9

\* A quotient is small when the number is.
LEMMA DivBelow ==
    ASSUME NEW a \in Nat, NEW b \in Nat \ {0}, NEW d \in Nat, a < b * d
    PROVE  a \div b \in Nat /\ a \div b < d
<1>1. PICK q \in Nat, r \in Nat : q = a \div b /\ r = a % b /\ r < b /\ a = (b * q) + r
  BY DivMod
<1>2. CASE d <= q
  <2>1. b * d <= b * q /\ b * d \in Nat /\ b * q \in Nat
    BY <1>1, <1>2, Products
  <2> QED BY <1>1, <2>1
<1> QED BY <1>1, <1>2


IsQuotient(y, x, m) == y = x \div m

\* DivBelow for named products and quotients.
LEMMA QuotientBelow ==
    ASSUME NEW m \in Nat \ {0}, NEW x \in Nat, NEW P \in Nat, NEW p \in Nat, NEW y,
           IsProduct(P, m, p), IsQuotient(y, x, m), x < P
    PROVE  y \in Nat /\ y < p
BY DivBelow DEF IsProduct, IsQuotient

\* print_hex of a word: eight divisions, two for each byte, bring it to zero.
LEMMA HexShows ==
    ASSUME NEW n \in Nat, n < WORD
    PROVE  Value(print_hex(n), NIBBLE) = n
<1>0. PICK m \in Nat \ {0} : m = NIBBLE /\ m * m = BYTE
  BY Sizes
<1>1. PICK b \in Nat, h \in Nat : b = m * m /\ h = b * b /\ n < h * h
  <2>1. BYTE \in Nat /\ BYTE = m * m /\ BYTE * BYTE = HALF /\ HALF * HALF = WORD /\ HALF \in Nat
    BY <1>0, Sizes
  <2> QED BY <2>1
<1>2. PICK p3 \in Nat, p5 \in Nat, p6 \in Nat, p7 \in Nat :
         /\ p3 = m * b /\ h = m * p3 /\ p5 = m * h /\ p6 = m * p5 /\ p7 = m * p6
         /\ n < m * p7
  <2>1. \A x \in Nat : m * x \in Nat /\ m * (m * x) = (m * m) * x
    BY <1>0
  <2>2. \A x \in Nat : m * x \in Nat /\ m * (m * x) = b * x
    BY <1>1, <2>1
  <2>3. PICK p3 \in Nat : p3 = m * b /\ h = m * p3
    BY <1>1, <2>2
  <2>4. PICK p5 \in Nat : p5 = m * h
    BY <1>1, <2>2
  <2>5. PICK p6 \in Nat : p6 = m * p5 /\ p6 = b * h
    BY <1>1, <2>2, <2>4
  <2>6. PICK p7 \in Nat : p7 = m * p6 /\ m * p7 = b * p6
    BY <1>1, <2>2, <2>5
  <2>7. (b * b) * h = b * (b * h)
    BY <1>1
  <2>8. h * h = m * p7
    BY <1>1, <2>5, <2>6, <2>7
  <2> QED BY <1>1, <2>3, <2>4, <2>5, <2>6, <2>8
<1>3. PICK f : f = Quotients(n, m, 8)
  OBVIOUS
<1>4. Halving(f, n, m, 8)
  BY <1>3, HalvingRuns
<1>5. /\ f[0] = n /\ f[1] = f[0] \div m /\ f[2] = f[1] \div m /\ f[3] = f[2] \div m
      /\ f[4] = f[3] \div m /\ f[5] = f[4] \div m /\ f[6] = f[5] \div m
      /\ f[7] = f[6] \div m /\ f[8] = f[7] \div m
  <2>1. \A i \in 1..8 : f[i] = f[i - 1] \div m
    BY <1>4 DEF Halving
  <2>2. /\ 1 - 1 = 0 /\ 2 - 1 = 1 /\ 3 - 1 = 2 /\ 4 - 1 = 3
        /\ 5 - 1 = 4 /\ 6 - 1 = 5 /\ 7 - 1 = 6 /\ 8 - 1 = 7
    OBVIOUS
  <2>3. f[0] = n
    BY <1>4 DEF Halving
  <2>4. \A i \in {1, 2, 3, 4, 5, 6, 7, 8} : i \in 1..8
    OBVIOUS
  <2> QED BY <2>1, <2>2, <2>3, <2>4
<1>7. PICK p8 \in Nat :
         /\ IsProduct(b, m, m) /\ IsProduct(p3, m, b) /\ IsProduct(h, m, p3) /\ IsProduct(p5, m, h)
         /\ IsProduct(p6, m, p5) /\ IsProduct(p7, m, p6) /\ IsProduct(p8, m, p7) /\ n < p8
  <2>1. m * p7 \in Nat
    BY <1>0, <1>2
  <2> QED BY <1>1, <1>2, <2>1 DEF IsProduct
<1>8. /\ IsQuotient(f[1], n, m) /\ IsQuotient(f[2], f[1], m) /\ IsQuotient(f[3], f[2], m)
      /\ IsQuotient(f[4], f[3], m) /\ IsQuotient(f[5], f[4], m) /\ IsQuotient(f[6], f[5], m)
      /\ IsQuotient(f[7], f[6], m) /\ IsQuotient(f[8], f[7], m)
  BY <1>5 DEF IsQuotient
<1>9. f[1] \in Nat /\ f[1] < p7
  <2>1. IsProduct(p8, m, p7) /\ IsQuotient(f[1], n, m) /\ n < p8
    BY <1>7, <1>8
  <2> QED BY <2>1, QuotientBelow
<1>10. f[2] \in Nat /\ f[2] < p6
  <2>1. IsProduct(p7, m, p6) /\ IsQuotient(f[2], f[1], m)
    BY <1>7, <1>8
  <2> QED BY <1>9, <2>1, QuotientBelow
<1>11. f[8] = 0
  <2>1. f[3] \in Nat /\ f[3] < p5
    <3>1. IsProduct(p6, m, p5) /\ IsQuotient(f[3], f[2], m)
      BY <1>7, <1>8
    <3> QED BY <1>10, <3>1, QuotientBelow
  <2>2. f[4] \in Nat /\ f[4] < h
    <3>1. IsProduct(p5, m, h) /\ IsQuotient(f[4], f[3], m)
      BY <1>7, <1>8
    <3> QED BY <2>1, <3>1, QuotientBelow
  <2>3. f[5] \in Nat /\ f[5] < p3
    <3>1. IsProduct(h, m, p3) /\ IsQuotient(f[5], f[4], m)
      BY <1>7, <1>8
    <3> QED BY <2>2, <3>1, QuotientBelow
  <2>4. f[6] \in Nat /\ f[6] < b
    <3>1. IsProduct(p3, m, b) /\ IsQuotient(f[6], f[5], m)
      BY <1>7, <1>8
    <3> QED BY <2>3, <3>1, QuotientBelow
  <2>5. f[7] \in Nat /\ f[7] < m
    <3>1. IsProduct(b, m, m) /\ IsQuotient(f[7], f[6], m)
      BY <1>7, <1>8
    <3> QED BY <2>4, <3>1, QuotientBelow
  <2>6. f[8] \in Nat /\ f[8] < 1
    <3>1. IsProduct(m, m, 1) /\ IsQuotient(f[8], f[7], m)
      BY <1>8 DEF IsProduct
    <3> QED BY <2>5, <3>1, QuotientBelow
  <2> QED BY <2>6
<1>12. print_hex(n) = [j \in 1..8 |-> f[8 - j] % m]
  BY <1>0, <1>3 DEF print_hex
<1>13. PICK k \in Nat : k = 8 /\ k \in 0..k
  OBVIOUS
<1>14. Halving(f, n, m, k) /\ f[k] = 0
  BY <1>4, <1>11, <1>13
<1>15. Value(Remainders(f, k, m), m) = n
  BY <1>13, <1>14, RemaindersAreDigits
<1> QED BY <1>0, <1>12, <1>13, <1>15 DEF Remainders

\* print_int of a natural number.
LEMMA NatShown ==
    ASSUME NEW n \in Nat, n < WORD
    PROVE  Len(print_int(n)) > 0 /\ Value(print_int(n), BASE) = n
<1>1. CASE n = 0
  <2>1. PICK d : d = <<0>>
    OBVIOUS
  <2>2. print_int(n) = d
    BY <1>1, <2>1 DEF print_int
  <2>3. Len(d) = 1 /\ d[1] = 0 /\ d \in [1..1 -> Int]
    BY <2>1
  <2>4. IsDigits(d, 1) /\ BASE \in Nat
    BY <2>3, Sizes DEF IsDigits
  <2>5. PICK v : Sums(v, d, BASE, 1) /\ Value(d, BASE) = v[1]
    BY <2>4, ValueRuns
  <2>6. v[0] = 0 /\ v[1] = (BASE * v[1 - 1]) + d[1]
    BY <2>5 DEF Sums
  <2>7. v[1] = 0
    BY <2>3, <2>4, <2>6
  <2>8. Len(d) > 0
    BY <2>3
  <2>9. Value(d, BASE) = n
    BY <1>1, <2>5, <2>7
  <2> QED BY <2>2, <2>8, <2>9
<1>2. CASE n # 0
  <2>1. PICK d : d = Digits(n, BASE)
    OBVIOUS
  <2>2. PICK m \in Nat \ {0} : \E ds : d = [j \in 1..m |-> ds[j]]
    BY <1>2, <2>1, DigitsShow
  <2>3. Len(d) = m
    BY <2>2
  <2>4. print_int(n) = d
    BY <1>2, <2>1 DEF print_int
  <2>5. Value(d, BASE) = n
    BY <1>2, <2>1, DigitsShow
  <2> QED BY <2>2, <2>3, <2>4, <2>5
<1> QED BY <1>1, <1>2

\* What print_int and print_hex show is the number, but for print_int of the least one.
LEMMA NumberShown ==
    ASSUME NEW n \in INT_MIN..(WORD - 1)
    PROVE  ShowsNumber(n)
<1>0. /\ WORD \in Nat /\ WORD \div 2 \in Nat \ {0} /\ WORD \div 2 <= WORD
      /\ INT_MIN = -(WORD \div 2) /\ n \in Int /\ INT_MIN \in Int
      /\ BASE \in Nat \ {0, 1} /\ n < WORD
  BY Sizes
<1>1. ASSUME n \in (INT_MIN + 1)..(WORD \div 2 - 1), n < 0
      PROVE  print_int(n)[1] = "-" /\ Value(Tail(print_int(n)), BASE) = -n
  <2>1. PICK d : d = Digits(-n, BASE)
    OBVIOUS
  <2>2. -n \in Nat /\ -n > 0 /\ -n < WORD /\ n # INT_MIN /\ n # 0
    BY <1>0, <1>1
  <2>3. PICK m \in Nat \ {0} : \E ds : d = [j \in 1..m |-> ds[j]]
    BY <2>1, <2>2, DigitsShow
  <2>4. PICK ds : d = [j \in 1..m |-> ds[j]]
    BY <2>3
  <2>5. print_int(n) = <<"-">> \o d
    BY <1>1, <2>1, <2>2 DEF print_int, Negated
  <2>6. PICK S, z : S = {"-"} \cup {ds[j] : j \in 1..m} /\ z = "-"
    OBVIOUS
  <2>7. d \in Seq(S) /\ z \in S
    BY <2>4, <2>6
  <2>8. (<<z>> \o d)[1] = z /\ Tail(<<z>> \o d) = d
    BY <2>7
  <2>9. Value(d, BASE) = -n
    BY <2>1, <2>2, DigitsShow
  <2> QED BY <2>5, <2>6, <2>8, <2>9
<1>2. ASSUME n \in (INT_MIN + 1)..(WORD \div 2 - 1), ~(n < 0)
      PROVE  Len(print_int(n)) > 0 /\ Value(print_int(n), BASE) = n
  BY <1>0, <1>2, NatShown
<1>3. ASSUME n = INT_MIN PROVE print_int(n) = <<"-">>
  <2>1. n < 0 /\ n # 0 /\ Negated(n) = n
    BY <1>0, <1>3 DEF Negated
  <2>2. Digits(n, BASE) = <<>>
    BY <1>0, <2>1, NoDigits
  <2>3. print_int(n) = <<"-">> \o <<>>
    BY <2>1, <2>2 DEF print_int
  <2>4. PICK z : z = "-"
    OBVIOUS
  <2>5. <<z>> \o <<>> = <<z>>
    OBVIOUS
  <2> QED BY <2>3, <2>4, <2>5
<1>4. n >= 0 => Value(print_hex(n), NIBBLE) = n
  BY <1>0, HexShows
<1> QED BY <1>1, <1>2, <1>3, <1>4 DEF ShowsNumber


-----------------------------------------------------------------------------
(* Descriptors.                                                            *)

\* A number is put together from its lowest digit and the rest, and a number below the
\* base is its own remainder.
LEMMA LowAndRest ==
    ASSUME NEW a \in Nat, NEW b \in Nat \ {0}
    PROVE  /\ (a % b) + (b * (a \div b)) = a /\ a % b \in Nat /\ a \div b \in Nat
           /\ b * (a \div b) \in Nat
           /\ a < b => a % b = a
<1>1. PICK q \in Nat, r \in Nat : q = a \div b /\ r = a % b /\ a = (b * q) + r
  BY DivMod
<1>2. b * q \in Nat
  OBVIOUS
<1>3. a < b => a % b = a
  OBVIOUS
<1> QED BY <1>1, <1>2, <1>3

\* The CPU reads the address that was put in, and the limit if it fits.
LEMMA DescriptorsRead ==
    ASSUME NEW base \in Nat, base < WORD, NEW lim \in Nat, lim < HALF * NIBBLE
    PROVE  DescriptorsDecode(base, lim)
<1>0. PICK m \in Nat \ {0} : m = NIBBLE
  BY Sizes
<1>1. PICK b \in Nat \ {0}, h \in Nat \ {0} : b = BYTE /\ h = HALF /\ h = b * b /\ WORD = h * h
  BY Sizes
<1>2. PICK w \in Nat : w = h * b
  <2>1. h * b \in Nat
    OBVIOUS
  <2> QED BY <2>1
<1>3. h * h = w * b /\ w = b * h
  BY <1>1, <1>2
<1>4. idt_set_gate(base) = [base_low |-> base % h, base_high |-> (base \div h) % h]
  BY <1>1 DEF idt_set_gate
<1>5. (base % h) + (h * ((base \div h) % h)) = base
  <2>1. PICK q \in Nat : q = base \div h /\ q < h
    BY <1>1, DivBelow
  <2>2. q % h = q
    BY <2>1, LowAndRest
  <2> QED BY <2>1, <2>2, LowAndRest
<1>6. PICK d : d = write_tss_descriptor(base, lim)
  OBVIOUS
<1>7. /\ d[0] = lim % b /\ d[1] = (lim \div b) % b /\ d[6] = (lim \div h) % m
      /\ d[2] = base % b /\ d[3] = (base \div b) % b /\ d[4] = (base \div h) % b
      /\ d[7] = (base \div w) % b
  <2>1. PICK v0, v1, v2, v3, v4, v6, v7 :
           /\ v0 = lim % BYTE /\ v1 = (lim \div BYTE) % BYTE /\ v2 = base % BYTE
           /\ v3 = (base \div BYTE) % BYTE /\ v4 = (base \div HALF) % BYTE
           /\ v6 = (lim \div HALF) % NIBBLE /\ v7 = (base \div (HALF * BYTE)) % BYTE
    OBVIOUS
  <2>2. d = [e \in 0..7 |-> CASE e = 0 -> v0 [] e = 1 -> v1 [] e = 2 -> v2 [] e = 3 -> v3
                               [] e = 4 -> v4 [] e = 5 -> 1 [] e = 6 -> v6 [] OTHER -> v7]
    BY <1>6, <2>1 DEF write_tss_descriptor
  <2>3. /\ d[0] = v0 /\ d[1] = v1 /\ d[2] = v2 /\ d[3] = v3 /\ d[4] = v4 /\ d[6] = v6 /\ d[7] = v7
    BY <2>2
  <2> QED BY <1>0, <1>1, <1>2, <2>1, <2>3
<1>8. /\ base \div h = (base \div b) \div b /\ base \div w = (base \div h) \div b
      /\ lim \div h = (lim \div b) \div b
  <2>0. IsProduct(h, b, b) /\ IsProduct(w, h, b) /\ h \in Nat
    BY <1>1, <1>2 DEF IsProduct
  <2>1. base \div h = (base \div b) \div b
    BY <2>0, DivTwice
  <2>2. lim \div h = (lim \div b) \div b
    BY <2>0, DivTwice
  <2>3. base \div w = (base \div h) \div b
    BY <2>0, DivTwice
  <2> QED BY <2>1, <2>2, <2>3
<1>9. PICK x1 \in Nat, x2 \in Nat, x3 \in Nat :
         x1 = base \div b /\ x2 = x1 \div b /\ x3 = x2 \div b /\ x2 = base \div h /\ x3 = base \div w
  BY <1>8, DivMod
<1>10. x3 < b
  <2>1. w > 0
    BY <1>2
  <2>2. base < w * b
    BY <1>1, <1>3
  <2> QED BY <1>2, <1>9, <2>1, <2>2, DivBelow
<1>11. /\ (base % b) + (b * x1) = base /\ (x1 % b) + (b * x2) = x1 /\ (x2 % b) + (b * x3) = x2
       /\ x3 % b = x3
  BY <1>9, <1>10, LowAndRest
<1>12. PICK r0 \in Nat, r1 \in Nat, r2 \in Nat : r0 = base % b /\ r1 = x1 % b /\ r2 = x2 % b
  BY <1>9, LowAndRest
<1>13. r0 + (b * r1) + (h * r2) + (w * x3) = base
  <2>1. b * x1 = (b * r1) + (b * (b * x2)) /\ b * (b * x2) = h * x2
    <3>1. x1 = r1 + (b * x2)
      BY <1>11, <1>12
    <3>2. b * (r1 + (b * x2)) = (b * r1) + (b * (b * x2)) /\ b * (b * x2) = (b * b) * x2
      OBVIOUS
    <3> QED BY <1>1, <3>1, <3>2
  <2>2. h * x2 = (h * r2) + (h * (b * x3)) /\ h * (b * x3) = w * x3
    <3>1. x2 = r2 + (b * x3)
      BY <1>11, <1>12
    <3>2. h * (r2 + (b * x3)) = (h * r2) + (h * (b * x3)) /\ h * (b * x3) = (h * b) * x3
      OBVIOUS
    <3> QED BY <1>2, <3>1, <3>2
  <2>3. PICK a1 \in Nat, a2 \in Nat, a3 \in Nat, a4 \in Nat, a5 \in Nat :
           a1 = b * x1 /\ a2 = b * r1 /\ a3 = h * x2 /\ a4 = h * r2 /\ a5 = w * x3
    <3>1. b * x1 \in Nat /\ b * r1 \in Nat /\ h * x2 \in Nat /\ h * r2 \in Nat /\ w * x3 \in Nat
      OBVIOUS
    <3> QED BY <3>1
  <2>4. r0 + a1 = base /\ a1 = a2 + a3 /\ a3 = a4 + a5
    BY <1>11, <1>12, <2>1, <2>2, <2>3
  <2>5. r0 + a2 + a4 + a5 = base
    BY <2>4
  <2> QED BY <2>3, <2>5
<1>14. PICK y1 \in Nat, y2 \in Nat : y1 = lim \div b /\ y2 = y1 \div b /\ y2 = lim \div h
  BY <1>8, DivMod
<1>15. y2 < m
  BY <1>0, <1>1, <1>14, DivBelow
<1>16. (lim % b) + (b * y1) = lim /\ (y1 % b) + (b * y2) = y1 /\ y2 % m = y2
  BY <1>14, <1>15, LowAndRest
<1>17. PICK s0 \in Nat, s1 \in Nat : s0 = lim % b /\ s1 = y1 % b
  BY <1>14, LowAndRest
<1>18. s0 + (b * s1) + (h * y2) = lim
  <2>1. b * y1 = (b * s1) + (b * (b * y2)) /\ b * (b * y2) = h * y2
    <3>1. y1 = s1 + (b * y2)
      BY <1>16, <1>17
    <3>2. b * (s1 + (b * y2)) = (b * s1) + (b * (b * y2)) /\ b * (b * y2) = (b * b) * y2
      OBVIOUS
    <3> QED BY <1>1, <3>1, <3>2
  <2>2. PICK a1 \in Nat, a2 \in Nat, a3 \in Nat : a1 = b * y1 /\ a2 = b * s1 /\ a3 = h * y2
    <3>1. b * y1 \in Nat /\ b * s1 \in Nat /\ h * y2 \in Nat
      OBVIOUS
    <3> QED BY <3>1
  <2>3. s0 + a1 = lim /\ a1 = a2 + a3
    BY <1>16, <1>17, <2>1, <2>2
  <2>4. s0 + a2 + a3 = lim
    BY <2>3
  <2> QED BY <2>2, <2>4
<1>19. /\ d[0] = s0 /\ d[1] = s1 /\ d[6] = y2 /\ d[2] = r0 /\ d[3] = r1 /\ d[4] = r2
       /\ d[7] = x3
  BY <1>7, <1>9, <1>11, <1>12, <1>14, <1>16, <1>17
<1>20. /\ d[2] + BYTE * d[3] + HALF * d[4] + HALF * BYTE * d[7] = base
       /\ d[0] + BYTE * d[1] + HALF * d[6] = lim
  BY <1>1, <1>2, <1>13, <1>18, <1>19
<1> QED BY <1>1, <1>4, <1>5, <1>6, <1>20 DEF DescriptorsDecode


-----------------------------------------------------------------------------
(* Names.                                                                  *)

Padded(f, n, len) == [i \in 1..len |-> IF i <= n THEN f[i] ELSE PAD]
CutTo(f, len) == SubSeq(f, 1, IF Len(f) < len THEN Len(f) ELSE len)

\* n characters, none of them a blank.
IsPart(f, n) == n \in Nat /\ f = [i \in 1..n |-> f[i]] /\ \A i \in 1..n : f[i] # PAD

LEMMA CutIs ==
    ASSUME NEW f, NEW n, IsPart(f, n), NEW len \in Nat
    PROVE  \E k \in Nat : /\ k = (IF n < len THEN n ELSE len)
                          /\ CutTo(f, len) = [i \in 1..k |-> f[i]]
<1>1. PICK S : S = {f[i] : i \in 1..n}
  OBVIOUS
<1>2. n \in Nat /\ f = [i \in 1..n |-> f[i]]
  BY DEF IsPart
<1>3. f \in Seq(S) /\ Len(f) = n
  BY <1>1, <1>2
<1>4. PICK k \in Nat : k = (IF n < len THEN n ELSE len) /\ k <= n
  BY <1>2
<1>5. CutTo(f, len) = SubSeq(f, 1, k)
  BY <1>3, <1>4 DEF CutTo
<1>6. PICK g : g = SubSeq(f, 1, k)
  OBVIOUS
<1>7. g \in Seq(S) /\ Len(g) = k /\ \A i \in 1..k : g[i] = f[i]
  BY <1>2, <1>3, <1>4, <1>6
<1>8. g = [i \in 1..k |-> f[i]]
  BY <1>7
<1> QED BY <1>4, <1>5, <1>6, <1>8

\* Filling up with blanks keeps apart what cutting keeps apart, and no more.
LEMMA PaddingIsExact ==
    ASSUME NEW f, NEW n, IsPart(f, n), NEW g, NEW m, IsPart(g, m), NEW len \in Nat
    PROVE  Padded(f, n, len) = Padded(g, m, len) <=> CutTo(f, len) = CutTo(g, len)
<1>0. n \in Nat /\ m \in Nat /\ (\A i \in 1..n : f[i] # PAD) /\ (\A i \in 1..m : g[i] # PAD)
  BY DEF IsPart
<1>1. PICK k \in Nat : k = (IF n < len THEN n ELSE len) /\ CutTo(f, len) = [i \in 1..k |-> f[i]]
  BY CutIs
<1>2. PICK l \in Nat : l = (IF m < len THEN m ELSE len) /\ CutTo(g, len) = [i \in 1..l |-> g[i]]
  BY CutIs
<1>3. PICK p, q, a, b : /\ p = Padded(f, n, len) /\ q = Padded(g, m, len)
                        /\ a = CutTo(f, len) /\ b = CutTo(g, len)
  OBVIOUS
<1>4. /\ p = [i \in 1..len |-> IF i <= n THEN f[i] ELSE PAD]
      /\ q = [i \in 1..len |-> IF i <= m THEN g[i] ELSE PAD]
      /\ a = [i \in 1..k |-> f[i]] /\ b = [i \in 1..l |-> g[i]]
  BY <1>1, <1>2, <1>3 DEF Padded
<1>5. ASSUME p = q PROVE a = b
  <2>1. \A i \in 1..len : (i <= n <=> i <= m) /\ (i <= n => f[i] = g[i])
    <3>1. ASSUME NEW i \in 1..len PROVE (i <= n <=> i <= m) /\ (i <= n => f[i] = g[i])
      <4>1. (IF i <= n THEN f[i] ELSE PAD) = (IF i <= m THEN g[i] ELSE PAD)
        BY <1>4, <1>5
      <4>2. i <= n => f[i] # PAD
        BY <1>0
      <4>3. i <= m => g[i] # PAD
        BY <1>0
      <4> QED BY <4>1, <4>2, <4>3
    <3> QED BY <3>1
  <2>2. k = l
    <3>1. CASE k < l
      <4>1. l \in 1..len /\ l <= m /\ ~(l <= n)
        BY <1>0, <1>1, <1>2, <3>1
      <4> QED BY <2>1, <4>1
    <3>2. CASE l < k
      <4>1. k \in 1..len /\ k <= n /\ ~(k <= m)
        BY <1>0, <1>1, <1>2, <3>2
      <4> QED BY <2>1, <4>1
    <3> QED BY <3>1, <3>2
  <2>3. \A i \in 1..k : i \in 1..len /\ i <= n
    BY <1>0, <1>1
  <2> QED BY <1>4, <2>1, <2>2, <2>3
<1>6. ASSUME a = b PROVE p = q
  <2>1. k = l
    <3>1. DOMAIN a = 1..k /\ DOMAIN b = 1..l
      BY <1>4
    <3>2. 1..k = 1..l
      BY <1>6, <3>1
    <3>3. CASE k < l
      <4>1. l \in 1..l /\ l \notin 1..k
        BY <3>3
      <4> QED BY <3>2, <4>1
    <3>4. CASE l < k
      <4>1. k \in 1..k /\ k \notin 1..l
        BY <3>4
      <4> QED BY <3>2, <4>1
    <3> QED BY <3>3, <3>4
  <2>2. \A i \in 1..k : f[i] = g[i]
    BY <1>4, <1>6, <2>1
  <2>3. ASSUME NEW i \in 1..len
        PROVE  (IF i <= n THEN f[i] ELSE PAD) = (IF i <= m THEN g[i] ELSE PAD)
    <3>1. (i <= n <=> i <= m) /\ (i <= n => i \in 1..k)
      BY <1>0, <1>1, <1>2, <2>1
    <3> QED BY <2>2, <3>1
  <2> QED BY <1>4, <2>3
<1> QED BY <1>3, <1>5, <1>6

\* The first dot, or the end.
LEMMA StopAtIs ==
    ASSUME NEW str, Len(str) \in Nat
    PROVE  StopAt(str, 1) \in 1..(Len(str) + 1)
<1> DEFINE P(k) == (k = Len(str) + 1 \/ str[k] = DOT) /\ \A j \in 1..(k - 1) : str[j] # DOT
           U == {k \in 1..(Len(str) + 1) : k = Len(str) + 1 \/ str[k] = DOT}
<1>1. PICK m \in U : \A k \in U : m <= k
  <2>1. Len(str) + 1 \in U /\ U \subseteq Nat
    OBVIOUS
  <2> HIDE DEF U
  <2> QED BY <2>1, LeastNatural
<1>2. m \in 1..(Len(str) + 1) /\ P(m)
  <2>1. ASSUME NEW j \in 1..(m - 1) PROVE str[j] # DOT
    <3>1. j \in 1..(Len(str) + 1) /\ ~(m <= j)
      BY <1>1
    <3> QED BY <1>1, <3>1
  <2> QED BY <1>1, <2>1
<1>3. StopAt(str, 1) = CHOOSE k \in 1..(Len(str) + 1) : P(k)
  BY DEF StopAt
<1> HIDE DEF P
<1> QED BY <1>2, <1>3


\* The two parts of a name, in capitals.
BasePart(str) == [i \in 1..(StopAt(str, 1) - 1) |-> Uppercase(str[i])]
ExtPart(str) ==
    [i \in 1..(Len(str) - StopAt(str, 1)) |-> Uppercase(str[StopAt(str, 1) + i])]

\* A name as the parser passes it on: without blanks.
IsName(str) == Len(str) \in Nat /\ \A i \in 1..Len(str) : Uppercase(str[i]) # PAD

\* A directory entry is the two parts, filled up.
LEMMA EntryIsPadded ==
    ASSUME NEW str, IsName(str)
    PROVE  \E n, m : /\ IsPart(BasePart(str), n) /\ IsPart(ExtPart(str), m)
                     /\ fat16_format_83(str) = [name8 |-> Padded(BasePart(str), n, NAME_LEN),
                                                ext3 |-> Padded(ExtPart(str), m, EXT_LEN)]
<1>1. PICK p, len : p = StopAt(str, 1) /\ len = Len(str)
  OBVIOUS
<1>2. len \in Nat /\ p \in 1..(len + 1) /\ \A i \in 1..len : Uppercase(str[i]) # PAD
  BY <1>1, StopAtIs DEF IsName
<1>3. PICK n \in Nat, m \in Nat : n = p - 1 /\ m = (IF p > len THEN 0 ELSE len - p)
  <2>1. p - 1 \in Nat /\ (IF p > len THEN 0 ELSE len - p) \in Nat
    BY <1>2
  <2> QED BY <2>1
<1>4. PICK f, g : f = BasePart(str) /\ g = ExtPart(str)
  OBVIOUS
<1>5. f = [i \in 1..n |-> Uppercase(str[i])]
  BY <1>1, <1>3, <1>4 DEF BasePart
<1>6. g = [i \in 1..m |-> Uppercase(str[p + i])]
  <2>1. 1..(len - p) = 1..m
    BY <1>2, <1>3
  <2> QED BY <1>1, <1>4, <2>1 DEF ExtPart
<1>7. IsPart(f, n)
  <2>1. \A i \in 1..n : i \in 1..len
    BY <1>2, <1>3
  <2> QED BY <1>2, <1>3, <1>5, <2>1 DEF IsPart
<1>8. IsPart(g, m)
  <2>1. \A i \in 1..m : p + i \in 1..len
    BY <1>2, <1>3
  <2> QED BY <1>2, <1>3, <1>6, <2>1 DEF IsPart
<1>9. NAME_LEN \in Nat /\ EXT_LEN \in Nat
  BY EncodingAssumption
<1>10. [i \in 1..NAME_LEN |-> IF i < p THEN Uppercase(str[i]) ELSE PAD] = Padded(f, n, NAME_LEN)
  <2>1. ASSUME NEW i \in 1..NAME_LEN
        PROVE  (IF i < p THEN Uppercase(str[i]) ELSE PAD) = (IF i <= n THEN f[i] ELSE PAD)
    <3>1. i < p <=> i \in 1..n
      BY <1>2, <1>3, <1>9
    <3>2. i <= n <=> i \in 1..n
      BY <1>2, <1>3, <1>9
    <3> QED BY <1>5, <3>1, <3>2
  <2> QED BY <2>1 DEF Padded
<1>11. [i \in 1..EXT_LEN |-> IF p + i <= len THEN Uppercase(str[p + i]) ELSE PAD]
         = Padded(g, m, EXT_LEN)
  <2>1. ASSUME NEW i \in 1..EXT_LEN
        PROVE  (IF p + i <= len THEN Uppercase(str[p + i]) ELSE PAD) = (IF i <= m THEN g[i] ELSE PAD)
    <3>1. p + i <= len <=> i \in 1..m
      BY <1>2, <1>3, <1>9
    <3>2. i <= m <=> i \in 1..m
      BY <1>2, <1>3, <1>9
    <3> QED BY <1>6, <3>1, <3>2
  <2> QED BY <2>1 DEF Padded
<1>12. fat16_format_83(str) = [name8 |-> Padded(f, n, NAME_LEN), ext3 |-> Padded(g, m, EXT_LEN)]
  BY <1>1, <1>10, <1>11 DEF fat16_format_83
<1> QED BY <1>4, <1>7, <1>8, <1>12

\* Two names without blanks, of any characters and any length, have the same directory
\* entry (fat16_format_83 of src/fat16.c) exactly when they name the same file.
THEOREM EntriesDistinguish ==
    ASSUME NEW s, NEW t, IsName(s), IsName(t)
    PROVE  fat16_format_83(s) = fat16_format_83(t) <=> SameFile(s, t)
<1>1. PICK a, b, d, e : a = BasePart(s) /\ b = ExtPart(s) /\ d = BasePart(t) /\ e = ExtPart(t)
  OBVIOUS
<1>2. PICK n, m : /\ IsPart(a, n) /\ IsPart(b, m)
                  /\ fat16_format_83(s) = [name8 |-> Padded(a, n, NAME_LEN),
                                           ext3 |-> Padded(b, m, EXT_LEN)]
  BY <1>1, EntryIsPadded
<1>3. PICK k, l : /\ IsPart(d, k) /\ IsPart(e, l)
                  /\ fat16_format_83(t) = [name8 |-> Padded(d, k, NAME_LEN),
                                           ext3 |-> Padded(e, l, EXT_LEN)]
  BY <1>1, EntryIsPadded
<1>4. fat16_format_83(s) = fat16_format_83(t) <=>
         /\ Padded(a, n, NAME_LEN) = Padded(d, k, NAME_LEN)
         /\ Padded(b, m, EXT_LEN) = Padded(e, l, EXT_LEN)
  BY <1>2, <1>3
<1>5. NAME_LEN \in Nat /\ EXT_LEN \in Nat
  BY EncodingAssumption
<1>6. Padded(a, n, NAME_LEN) = Padded(d, k, NAME_LEN) <=> CutTo(a, NAME_LEN) = CutTo(d, NAME_LEN)
  BY <1>2, <1>3, <1>5, PaddingIsExact
<1>7. Padded(b, m, EXT_LEN) = Padded(e, l, EXT_LEN) <=> CutTo(b, EXT_LEN) = CutTo(e, EXT_LEN)
  BY <1>2, <1>3, <1>5, PaddingIsExact
<1>8. SameFile(s, t) <=> /\ CutTo(BasePart(s), NAME_LEN) = CutTo(BasePart(t), NAME_LEN)
                         /\ CutTo(ExtPart(s), EXT_LEN) = CutTo(ExtPart(t), EXT_LEN)
  BY Zenon DEF SameFile, CutTo, BasePart, ExtPart
<1> QED BY <1>1, <1>4, <1>6, <1>7, <1>8

\* The names that are drawn have no blanks.
LEMMA TypedIsName ==
    ASSUME NEW str \in Typed
    PROVE  IsName(str)
<1>1. PICK k \in 0..4 : str \in [1..k -> {"a", "A", "b", DOT}]
  BY Zenon DEF Typed
<1>2. PICK S : S = {"a", "A", "b", DOT}
  OBVIOUS
<1>3. str \in [1..k -> S] /\ k \in Nat
  BY <1>1, <1>2
<1>4. Len(str) = k
  BY <1>3
<1>5. \A x \in S : Uppercase(x) # PAD
  BY <1>2, Zenon DEF Uppercase, PAD, DOT
<1> QED BY <1>3, <1>4, <1>5 DEF IsName


-----------------------------------------------------------------------------
(* The conversions, as the runs draw them.                                 *)

DrawnInv ==
    \/ input = [kind |-> "none"]
    \/ \E n \in INT_MIN..(WORD - 1), lim \in Limits :
          input = [kind |-> "number", n |-> n, limit |-> lim]
    \/ \E s, t \in Typed : input = [kind |-> "names", s |-> s, t |-> t]

LEMMA DrawnInvariant == MCSpec => []DrawnInv
<1>1. MCInit => DrawnInv
  BY DEF MCInit, DrawnInv
<1>2. DrawnInv /\ [MCNext]_mcvars => DrawnInv'
  <2> SUFFICES ASSUME DrawnInv, [MCNext]_mcvars PROVE DrawnInv'
    OBVIOUS
  <2>1. CASE input' = input
    BY <2>1, Zenon DEF DrawnInv
  <2>2. CASE draw_number
    BY <2>2, Zenon DEF DrawnInv, draw_number, Draw
  <2>3. CASE draw_names
    BY <2>3, Zenon DEF DrawnInv, draw_names, Draw
  <2>4. TarStep \/ UNCHANGED mcvars => input' = input
    BY DEF TarStep, mcvars
  <2> QED BY <2>1, <2>2, <2>3, <2>4 DEF MCNext
<1> QED BY <1>1, <1>2, PTL DEF MCSpec

LEMMA LimitsFit ==
    ASSUME NEW lim \in Limits
    PROVE  lim \in Nat /\ lim < HALF * NIBBLE
<1>1. PICK b \in Nat, h \in Nat, m \in Nat :
         b = BYTE /\ h = HALF /\ 2 <= b /\ h = b * b /\ m = NIBBLE /\ 2 <= m
  BY Sizes
<1>2. 2 * b <= h
  BY <1>1, Products
<1>3. PICK w \in Nat : w = h * m /\ h * 2 <= w
  BY <1>1, Products
<1>4. lim \in {0, 1, b + 1, h - 1, h, w - 1}
  BY <1>1, <1>3 DEF Limits
<1>5. lim \in Nat /\ lim < w
  BY <1>1, <1>2, <1>3, <1>4
<1> QED BY <1>1, <1>3, <1>5

\* For every width of half a byte up to 16 and every base, print_int of src/screen.c
\* shows the number it is given, but for the least int, of which it shows the sign alone;
\* print_hex shows every word; and the CPU reads back the address, and each of the limits
\* drawn (up to the greatest of 20 bits), that idt_set_gate and write_tss_descriptor have
\* split.
THEOREM NumbersRecoveredThm == MCSpec => []NumbersRecovered
<1>1. DrawnInv => NumbersRecovered
  <2> SUFFICES ASSUME DrawnInv, input.kind = "number"
               PROVE  ShowsNumber(input.n) /\ (input.n >= 0 => DescriptorsDecode(input.n, input.limit))
    BY DEF NumbersRecovered
  <2>1. PICK n \in INT_MIN..(WORD - 1), lim \in Limits :
           input = [kind |-> "number", n |-> n, limit |-> lim]
    BY DEF DrawnInv
  <2>2. input.n = n /\ input.limit = lim
    BY <2>1
  <2>3. ShowsNumber(n)
    BY NumberShown
  <2>4. n \in Int /\ n < WORD
    BY Sizes
  <2>5. n >= 0 => DescriptorsDecode(n, lim)
    BY <2>4, LimitsFit, DescriptorsRead
  <2> QED BY <2>2, <2>3, <2>5
<1> QED BY <1>1, DrawnInvariant, PTL

\* For all lengths of the two parts of a directory entry, fat16_format_83 of src/fat16.c
\* gives two names the same entry exactly when their parts before and after the first
\* dot, cut to these lengths, differ in case only.
THEOREM NamesDistinguishedThm == MCSpec => []NamesDistinguished
<1>1. DrawnInv => NamesDistinguished
  <2> SUFFICES ASSUME DrawnInv, input.kind = "names"
               PROVE  (fat16_format_83(input.s) = fat16_format_83(input.t)) <=> SameFile(input.s, input.t)
    BY DEF NamesDistinguished
  <2>1. PICK s \in Typed, t \in Typed : input = [kind |-> "names", s |-> s, t |-> t]
    BY DEF DrawnInv
  <2>2. input.s = s /\ input.t = t
    BY <2>1
  <2>3. (fat16_format_83(s) = fat16_format_83(t)) <=> SameFile(s, t)
    BY TypedIsName, EntriesDistinguish
  <2> QED BY <2>2, <2>3
<1> QED BY <1>1, DrawnInvariant, PTL


-----------------------------------------------------------------------------
(* The archive.                                                            *)

\* parse_octal recovers the number from a field in which it is written in octal.
LEMMA ParsesOctal ==
    ASSUME NEW str \in Seq(Nat), NEW y, IsOctal(str, y)
    PROVE  parse_octal(str) = y
<1>1. PICK len \in Nat : len = Len(str) /\ \A i \in 1..len : str[i] \in Nat
  OBVIOUS
<1>2. PICK first \in 1..(len + 1), last \in 0..len :
         /\ first <= last + 1
         /\ \A i \in 1..len : str[i] \in 0..7 <=> i \in first..last
         /\ Value(SubSeq(str, first, last), 8) = y
  BY <1>1 DEF IsOctal
<1>3. PICK n \in Nat : n = last + 1 - first
  <2>1. last + 1 - first \in Nat
    BY <1>2
  <2> QED BY <2>1
<1>4. PICK ds : ds = [i \in 1..n |-> str[first + i - 1]]
  OBVIOUS
<1>5. ds = SubSeq(str, first, last)
  BY <1>1, <1>2, <1>3, <1>4
<1>6. IsDigits(ds, n)
  <2>1. \A i \in 1..n : first + i - 1 \in 1..len
    BY <1>2, <1>3
  <2> QED BY <1>1, <1>4, <2>1 DEF IsDigits
<1>7. PICK g : Sums(g, ds, 8, n) /\ Value(ds, 8) = g[n]
  <2>1. 8 \in Nat
    OBVIOUS
  <2> QED BY <1>6, <2>1, ValueRuns
<1>8. g[0] = 0 /\ (\A j \in 1..n : g[j] = (8 * g[j - 1]) + ds[j]) /\ g[n] = y
  BY <1>2, <1>5, <1>7 DEF Sums
<1>9. PICK pos : pos = [i \in 0..len |-> IF i < first THEN 0 ELSE IF i <= last THEN i + 1 - first ELSE n]
  OBVIOUS
<1> DEFINE Q(i, f) == IF str[i] \in 0..7 THEN 8 * f[i - 1] + str[i] ELSE f[i - 1]
           P(f) == f = [i \in 0..len |-> IF i = 0 THEN 0 ELSE Q(i, f)]
<1>10. PICK A : A = [i \in 0..len |-> g[pos[i]]]
  OBVIOUS
<1>11. A[0] = 0
  <2>1. 0 \in 0..len /\ 0 < first
    OBVIOUS
  <2> QED BY <1>8, <1>9, <1>10, <2>1
<1>12. ASSUME NEW i \in 1..len PROVE A[i] = Q(i, A)
  <2>1. i \in 0..len /\ i - 1 \in 0..len
    OBVIOUS
  <2>2. A[i] = g[pos[i]] /\ A[i - 1] = g[pos[i - 1]]
    BY <1>10, <2>1
  <2>3. CASE i \in first..last
    <3>1. PICK j \in 1..n : j = i + 1 - first
      <4>1. i + 1 - first \in 1..n
        BY <1>3, <2>3
      <4> QED BY <4>1
    <3>2. pos[i] = j
      BY <1>9, <2>1, <2>3, <3>1
    <3>3. pos[i - 1] = j - 1
      BY <1>2, <1>9, <2>1, <2>3, <3>1
    <3>4. ds[j] = str[i]
      <4>1. first + j - 1 = i
        BY <3>1
      <4> QED BY <1>4, <4>1
    <3>5. g[j] = (8 * g[j - 1]) + ds[j]
      BY <1>8
    <3>6. str[i] \in 0..7
      BY <1>2, <2>3
    <3> QED BY <2>2, <3>2, <3>3, <3>4, <3>5, <3>6
  <2>4. CASE ~(i \in first..last)
    <3>1. ~(str[i] \in 0..7)
      BY <1>2, <2>4
    <3>2. pos[i] = pos[i - 1]
      <4>1. CASE i < first
        BY <1>9, <2>1, <4>1
      <4>2. CASE i > last /\ i >= first
        <5>1. pos[i] = n
          BY <1>9, <2>1, <4>2
        <5>2. CASE i - 1 < first
          <6>1. n = 0
            BY <1>2, <1>3, <4>2, <5>2
          <6> QED BY <1>9, <2>1, <5>1, <5>2, <6>1
        <5>3. CASE ~(i - 1 < first)
          BY <1>3, <1>9, <2>1, <4>2, <5>1, <5>3
        <5> QED BY <5>2, <5>3
      <4> QED BY <2>4, <4>1, <4>2
    <3> QED BY <2>2, <3>1, <3>2
  <2> QED BY <2>3, <2>4
<1>13. P(A)
  <2>1. ASSUME NEW i \in 0..len PROVE A[i] = IF i = 0 THEN 0 ELSE Q(i, A)
    <3>1. i = 0 \/ i \in 1..len
      OBVIOUS
    <3> HIDE DEF Q
    <3> QED BY <1>11, <1>12, <3>1
  <2> HIDE DEF Q
  <2> QED BY <1>10, <2>1
<1>14. PICK h : h = CHOOSE f : P(f)
  OBVIOUS
<1>15. P(h)
  <2> HIDE DEF P
  <2> QED BY <1>13, <1>14
<1> DEFINE T == {i \in 0..len : h[i] = A[i]}
<1>16. 0 \in T
  <2> HIDE DEF Q
  <2> QED BY <1>11, <1>15
<1>17. ASSUME NEW i \in 1..len, i - 1 \in T PROVE i \in T
  <2>1. i \in 0..len /\ i # 0
    OBVIOUS
  <2>2. h[i] = Q(i, h)
    <3> HIDE DEF Q
    <3> QED BY <1>15, <2>1
  <2>3. h[i - 1] = A[i - 1]
    BY <1>17
  <2>4. Q(i, h) = Q(i, A)
    BY <2>3
  <2> HIDE DEF Q
  <2> QED BY <1>12, <2>1, <2>2, <2>4
<1>18. h[len] = A[len]
  <2>1. 0..len \subseteq T
    <3> HIDE DEF T
    <3> QED BY <1>16, <1>17, UpTo
  <2>2. len \in 0..len
    OBVIOUS
  <2> QED BY <2>1, <2>2
<1>19. A[len] = g[n]
  <2>1. pos[len] = n
    BY <1>2, <1>3, <1>9
  <2> QED BY <1>10, <2>1
<1>20. parse_octal(str) = h[len]
  <2>1. parse_octal(str) = (CHOOSE f : P(f))[len]
    BY <1>1 DEF parse_octal
  <2> HIDE DEF P
  <2> QED BY <1>14, <2>1
<1> QED BY <1>8, <1>18, <1>19, <1>20

\* What ArchivesAssumption says of the archive in memory.
IsArchive ==
    /\ Len(files) \in Nat /\ DOMAIN files = 1..Len(files)
    /\ \A n \in 1..Len(files) : /\ files[n].name # NoName /\ files[n].bytes \in Nat
                                /\ files[n].bytes < WORD
                                /\ parse_octal(files[n].size) = files[n].bytes

LEMMA ArchiveIs == files \in Archives => IsArchive
<1> SUFFICES ASSUME files \in Archives PROVE IsArchive
  OBVIOUS
<1>1. /\ Len(files) \in Nat /\ DOMAIN files = 1..Len(files)
      /\ \A n \in 1..Len(files) : /\ files[n].name # NoName /\ files[n].bytes \in 0..(WORD \div 2 - 1)
                                  /\ files[n].size \in Seq(Nat)
                                  /\ IsOctal(files[n].size, files[n].bytes)
  BY ArchivesAssumption
<1>2. \A n \in 1..Len(files) : parse_octal(files[n].size) = files[n].bytes
  BY <1>1, ParsesOctal
<1>3. WORD \in Nat /\ WORD \div 2 \in Nat /\ WORD \div 2 <= WORD
  BY Sizes
<1> QED BY <1>1, <1>2, <1>3 DEF IsArchive

\* The padded size of a file is a number of whole blocks.
LEMMA RoundsUp ==
    ASSUME NEW y \in Nat
    PROVE  /\ (IF y % BLOCK # 0 THEN y + BLOCK - (y % BLOCK) ELSE y)
                 = BLOCK * ((y + BLOCK - 1) \div BLOCK)
           /\ (y + BLOCK - 1) \div BLOCK \in Nat
<1>1. PICK b \in Nat : b = BLOCK /\ b > 0
  BY TarAssumption
<1>2. PICK q \in Nat, r \in Nat : q = y \div b /\ r = y % b /\ r < b /\ y = (b * q) + r
  BY <1>1, DivMod
<1>3. PICK v \in Nat : v = b * q
  <2>1. b * q \in Nat
    OBVIOUS
  <2> QED BY <2>1
<1>4. CASE r = 0
  <2>1. y + b - 1 = (b * q) + (b - 1) /\ b - 1 \in Nat /\ b - 1 < b /\ y + b - 1 \in Nat
    BY <1>1, <1>2, <1>3, <1>4
  <2>2. (y + b - 1) \div b = q
    BY <2>1, QuotientIs
  <2> QED BY <1>1, <1>2, <1>4, <2>2
<1>5. CASE r # 0
  <2>1. b * (q + 1) = v + b
    <3>1. b * (q + 1) = (b * q) + b
      OBVIOUS
    <3> QED BY <1>3, <3>1
  <2>2. y + b - 1 = (b * (q + 1)) + (r - 1) /\ r - 1 \in Nat /\ r - 1 < b /\ y + b - 1 \in Nat
    BY <1>1, <1>2, <1>3, <1>5, <2>1
  <2>3. PICK p \in Nat : p = q + 1
    OBVIOUS
  <2>4. (y + b - 1) \div b = p
    BY <2>2, <2>3, QuotientIs
  <2>5. y + b - r = b * p
    BY <1>1, <1>2, <1>3, <2>1, <2>3
  <2> QED BY <1>1, <1>2, <1>5, <2>4, <2>5
<1> QED BY <1>4, <1>5

\* The addresses of the headers.
Layout(A) ==
    /\ A \in [1..(Len(files) + 1) -> Nat] /\ A[1] = 0
    /\ \A k \in 1..Len(files) : A[k + 1] = A[k] + (BLOCK * Blocks(files[k]))

LEMMA BlocksIs ==
    ASSUME IsArchive, NEW k \in 1..Len(files)
    PROVE  /\ Blocks(files[k]) \in Nat /\ BLOCK * Blocks(files[k]) \in Nat \ {0}
           /\ BLOCK * Blocks(files[k])
                 = BLOCK + (BLOCK * ((files[k].bytes + BLOCK - 1) \div BLOCK))
<1>1. PICK b \in Nat, y \in Nat : b = BLOCK /\ b > 0 /\ y = files[k].bytes
  BY TarAssumption DEF IsArchive
<1>2. PICK q \in Nat : q = (y + b - 1) \div b
  BY <1>1, RoundsUp
<1>3. b * (1 + q) = b + (b * q) /\ b * q \in Nat
  OBVIOUS
<1>4. Blocks(files[k]) = 1 + q
  BY <1>1, <1>2 DEF Blocks
<1>5. b + (b * q) \in Nat \ {0} /\ 1 + q \in Nat
  BY <1>1, <1>3
<1>6. BLOCK * Blocks(files[k]) = b + (b * q)
  BY <1>1, <1>3, <1>4
<1>7. b * q = BLOCK * ((files[k].bytes + BLOCK - 1) \div BLOCK)
  BY <1>1, <1>2
<1>8. BLOCK + (BLOCK * ((files[k].bytes + BLOCK - 1) \div BLOCK)) = b + (b * q)
  BY <1>1, <1>7
<1> QED BY <1>4, <1>5, <1>6, <1>8

LEMMA LayoutExists ==
    ASSUME IsArchive
    PROVE  \E A : Layout(A)
<1>1. PICK L \in Nat : L = Len(files)
  BY DEF IsArchive
<1>2. PICK S, x : S = Nat /\ x = 0
  OBVIOUS
<1>3. PICK G : G = [i \in 1..L |-> [y \in Nat |-> y + (BLOCK * Blocks(files[i]))]]
  OBVIOUS
<1>4. \A i \in 1..L : BLOCK * Blocks(files[i]) \in Nat
  BY <1>1, BlocksIs
<1>5. x \in S /\ Turns(G, L, S)
  <2>1. \A i \in 1..L : [y \in Nat |-> y + (BLOCK * Blocks(files[i]))] \in [Nat -> Nat]
    BY <1>4
  <2> QED BY <1>2, <1>3, <2>1 DEF Turns
<1>6. PICK f : After(f, G, L, S, x)
  BY <1>5, Iterates
<1>7. f \in [0..L -> Nat] /\ f[0] = 0 /\ \A i \in 1..L : f[i] = G[i][f[i - 1]]
  BY <1>2, <1>6 DEF After
<1>8. PICK A : A = [k \in 1..(L + 1) |-> f[k - 1]]
  OBVIOUS
<1>9. A \in [1..(L + 1) -> Nat] /\ A[1] = 0
  <2>1. \A k \in 1..(L + 1) : k - 1 \in 0..L
    OBVIOUS
  <2>2. 1 \in 1..(L + 1) /\ 1 - 1 = 0
    OBVIOUS
  <2>3. A[1] = f[0]
    BY <1>8, <2>2
  <2> QED BY <1>7, <1>8, <2>1, <2>3
<1>10. ASSUME NEW k \in 1..L PROVE A[k + 1] = A[k] + (BLOCK * Blocks(files[k]))
  <2>1. k + 1 \in 1..(L + 1) /\ k \in 1..(L + 1) /\ (k + 1) - 1 = k /\ k - 1 \in 0..L
    OBVIOUS
  <2>2. A[k + 1] = f[k] /\ A[k] = f[k - 1]
    BY <1>8, <2>1
  <2>3. f[k] = G[k][f[k - 1]] /\ f[k - 1] \in Nat
    BY <1>7, <2>1
  <2> QED BY <1>3, <2>2, <2>3
<1> QED BY <1>1, <1>9, <1>10 DEF Layout

\* HeaderAddr, whose recursion is cut off at n, is the layout.
LEMMA HeaderAddrIs ==
    ASSUME IsArchive, NEW A, Layout(A), NEW n \in 1..(Len(files) + 1)
    PROVE  HeaderAddr(n) = A[n]
<1>1. PICK L \in Nat : L = Len(files)
  BY DEF IsArchive
<1>2. /\ A \in [1..(L + 1) -> Nat] /\ A[1] = 0 /\ n \in 1..(L + 1)
      /\ \A k \in 1..L : A[k + 1] = A[k] + (BLOCK * Blocks(files[k]))
  BY <1>1 DEF Layout
<1> DEFINE P(a) == a = [k \in 1..n |-> IF k = 1 THEN 0 ELSE a[k - 1] + BLOCK * Blocks(files[k - 1])]
<1>3. PICK a : a = [k \in 1..n |-> A[k]]
  OBVIOUS
<1>4. ASSUME NEW k \in 2..n PROVE A[k] = A[k - 1] + (BLOCK * Blocks(files[k - 1]))
  <2>1. PICK j \in 1..L : j = k - 1 /\ k = j + 1
    <3>1. k - 1 \in 1..L /\ k = (k - 1) + 1
      BY <1>2
    <3> QED BY <3>1
  <2> QED BY <1>2, <2>1
<1>5. P(a)
  <2>1. ASSUME NEW k \in 1..n
        PROVE  a[k] = IF k = 1 THEN 0 ELSE a[k - 1] + BLOCK * Blocks(files[k - 1])
    <3>1. CASE k = 1
      BY <1>2, <1>3, <3>1
    <3>2. CASE k # 1
      <4>1. k \in 2..n /\ k - 1 \in 1..n
        BY <1>2, <3>2
      <4> QED BY <1>3, <1>4, <3>2, <4>1
    <3> QED BY <3>1, <3>2
  <2> QED BY <1>3, <2>1
<1>6. PICK h : h = CHOOSE g : P(g)
  OBVIOUS
<1>7. P(h)
  <2> HIDE DEF P
  <2> QED BY <1>5, <1>6
<1> DEFINE T == {i \in 0..(n - 1) : h[i + 1] = A[i + 1]}
<1>8. 0 \in T
  <2>1. 1 \in 1..n /\ 0 \in 0..(n - 1) /\ 0 + 1 = 1
    BY <1>2
  <2>2. h[1] = 0
    BY <1>7, <2>1
  <2> QED BY <1>2, <2>1, <2>2
<1>9. ASSUME NEW i \in 1..(n - 1), i - 1 \in T PROVE i \in T
  <2>1. i + 1 \in 1..n /\ i + 1 # 1 /\ (i + 1) - 1 = i /\ (i - 1) + 1 = i /\ i + 1 \in 2..n
        /\ i \in 0..(n - 1)
    BY <1>2
  <2>2. h[i] = A[i]
    <3>1. h[(i - 1) + 1] = A[(i - 1) + 1]
      BY <1>9
    <3> QED BY <2>1, <3>1
  <2>3. h[i + 1] = h[(i + 1) - 1] + BLOCK * Blocks(files[(i + 1) - 1])
    BY <1>7, <2>1
  <2>4. A[i + 1] = A[(i + 1) - 1] + (BLOCK * Blocks(files[(i + 1) - 1]))
    BY <1>4, <2>1
  <2>5. h[i + 1] = A[i + 1]
    BY <2>1, <2>2, <2>3, <2>4
  <2> QED BY <2>1, <2>5
<1>10. n - 1 \in T
  <2>1. n - 1 \in Nat /\ n - 1 \in 0..(n - 1)
    BY <1>2
  <2>2. 0..(n - 1) \subseteq T
    <3> HIDE DEF T
    <3> QED BY <1>8, <1>9, <2>1, UpTo
  <2> QED BY <2>1, <2>2
<1>11. h[n] = A[n]
  <2>1. (n - 1) + 1 = n
    BY <1>2
  <2>2. h[(n - 1) + 1] = A[(n - 1) + 1]
    BY <1>10
  <2> QED BY <2>1, <2>2
<1>12. HeaderAddr(n) = h[n]
  <2>1. HeaderAddr(n) = (CHOOSE g : P(g))[n]
    BY DEF HeaderAddr
  <2> HIDE DEF P
  <2> QED BY <1>6, <2>1
<1> QED BY <1>11, <1>12


\* No two headers are at the same address.
LEMMA LayoutGrows ==
    ASSUME IsArchive, NEW A, Layout(A)
    PROVE  \A i, j \in 1..(Len(files) + 1) : A[i] = A[j] => i = j
<1>1. PICK L \in Nat : L = Len(files)
  BY DEF IsArchive
<1>2. /\ A \in [1..(L + 1) -> Nat]
      /\ \A k \in 1..L : A[k + 1] = A[k] + (BLOCK * Blocks(files[k]))
  BY <1>1 DEF Layout
<1>3. ASSUME NEW k \in 1..L PROVE A[k] < A[k + 1]
  <2>1. PICK z \in Nat \ {0} : z = BLOCK * Blocks(files[k])
    BY <1>1, BlocksIs
  <2>2. A[k] \in Nat /\ A[k + 1] = A[k] + z
    BY <1>2, <2>1
  <2> QED BY <2>2
<1> DEFINE T == {j \in 0..L : \A i \in 1..j : A[i] < A[j + 1]}
<1>4. 0 \in T
  OBVIOUS
<1>5. ASSUME NEW j \in 1..L, j - 1 \in T PROVE j \in T
  <2>1. \A i \in 1..(j - 1) : A[i] < A[j]
    <3>1. (j - 1) + 1 = j
      OBVIOUS
    <3> QED BY <1>5, <3>1
  <2>2. A[j] < A[j + 1]
    BY <1>3
  <2>3. ASSUME NEW i \in 1..j PROVE A[i] < A[j + 1]
    <3>1. /\ i \in 1..(L + 1) /\ j \in 1..(L + 1) /\ j + 1 \in 1..(L + 1)
          /\ (i = j \/ i \in 1..(j - 1))
      OBVIOUS
    <3>2. A[i] \in Nat /\ A[j] \in Nat /\ A[j + 1] \in Nat
      BY <1>2, <3>1
    <3>3. i = j \/ A[i] < A[j]
      BY <2>1, <3>1
    <3> QED BY <2>2, <3>2, <3>3
  <2>4. j \in 0..L
    OBVIOUS
  <2> QED BY <2>3, <2>4
<1>6. 0..L \subseteq T
  <2> HIDE DEF T
  <2> QED BY <1>4, <1>5, UpTo
<1>7. ASSUME NEW i \in 1..(L + 1), NEW j \in 1..(L + 1), i < j PROVE A[i] < A[j]
  <2>1. PICK k \in 0..L : j = k + 1 /\ i \in 1..k
    <3>1. j - 1 \in 0..L /\ j = (j - 1) + 1 /\ i \in 1..(j - 1)
      BY <1>7
    <3> QED BY <3>1
  <2>2. k \in T
    BY <1>6
  <2> QED BY <2>1, <2>2
<1>8. ASSUME NEW i \in 1..(L + 1), NEW j \in 1..(L + 1), A[i] = A[j] PROVE i = j
  <2>1. A[i] \in Nat /\ A[j] \in Nat
    BY <1>2
  <2>2. ~(i < j)
    BY <1>7, <1>8, <2>1
  <2>3. ~(j < i)
    BY <1>7, <1>8, <2>1
  <2> QED BY <2>2, <2>3
<1> QED BY <1>1, <1>8

\* The walk is at the n-th header: what it reads there, and where it goes next.
LEMMA AtHeader ==
    ASSUME IsArchive, NEW n \in 1..(Len(files) + 1), current_addr = HeaderAddr(n)
    PROVE  /\ OnHeader /\ Header = (IF n > Len(files) THEN END ELSE files[n])
           /\ Header = END <=> n > Len(files)
           /\ n <= Len(files) => NextHeader = HeaderAddr(n + 1)
<1>1. PICK L \in Nat : L = Len(files)
  BY DEF IsArchive
<1>2. PICK A : Layout(A)
  BY LayoutExists
<1>3. \A k \in 1..(L + 1) : HeaderAddr(k) = A[k]
  BY <1>1, <1>2, HeaderAddrIs
<1>4. \A k \in 1..(L + 1) : HeaderAddr(k) = current_addr <=> k = n
  BY <1>1, <1>2, <1>3, LayoutGrows
<1>5. OnHeader
  BY <1>1 DEF OnHeader
<1>6. PICK m : m = CHOOSE k \in 1..(Len(files) + 1) : HeaderAddr(k) = current_addr
  OBVIOUS
<1>7. m = n
  <2>1. \A k \in 1..(Len(files) + 1) : HeaderAddr(k) = current_addr <=> k = n
    BY <1>1, <1>4
  <2> QED BY <1>6, <2>1
<1>a. Header = (IF m > Len(files) THEN END ELSE files[m])
  BY <1>6 DEF Header
<1>8. Header = (IF n > L THEN END ELSE files[n])
  BY <1>1, <1>7, <1>a
<1>9. END.name = NoName
  BY DEF END
<1>10. n <= L => files[n] # END
  BY <1>1, <1>9 DEF IsArchive
<1>11. Header = END <=> n > L
  BY <1>1, <1>8, <1>10
<1>12. ASSUME n <= L PROVE NextHeader = HeaderAddr(n + 1)
  <2>1. n \in 1..L /\ n + 1 \in 1..(L + 1) /\ ~(n > L)
    BY <1>1, <1>12
  <2>2. Header = files[n]
    BY <1>8, <2>1
  <2>3. PICK y \in Nat : y = files[n].bytes /\ parse_octal(Header.size) = y
    BY <1>1, <2>1, <2>2 DEF IsArchive
  <2>4. PICK z : z = (IF y % BLOCK # 0 THEN y + BLOCK - (y % BLOCK) ELSE y)
    OBVIOUS
  <2>5. NextHeader = current_addr + BLOCK + z
    BY <2>3, <2>4 DEF NextHeader
  <2>6. z = BLOCK * ((y + BLOCK - 1) \div BLOCK)
    BY <2>4, RoundsUp
  <2>7. BLOCK * Blocks(files[n]) = BLOCK + z /\ BLOCK * Blocks(files[n]) \in Nat
    BY <1>1, <2>1, <2>3, <2>6, BlocksIs
  <2>8. A[n + 1] = A[n] + (BLOCK * Blocks(files[n])) /\ A[n] \in Nat /\ A[n] = current_addr
    BY <1>1, <1>2, <1>3, <2>1 DEF Layout
  <2>9. z \in Nat /\ BLOCK \in Nat
    <3>1. (y + BLOCK - 1) \div BLOCK \in Nat
      BY RoundsUp
    <3>2. BLOCK \in Nat
      BY TarAssumption
    <3> QED BY <2>6, <3>1, <3>2
  <2>10. A[n + 1] = current_addr + BLOCK + z
    <3>1. PICK u : u = BLOCK * Blocks(files[n])
      OBVIOUS
    <3> QED BY <2>7, <2>8, <2>9, <3>1
  <2> QED BY <1>3, <2>1, <2>5, <2>10
<1> QED BY <1>1, <1>5, <1>8, <1>11, <1>12


-----------------------------------------------------------------------------
(* The walk.                                                               *)

\* The first n lines of ls.
Listing(n) == [k \in 1..n |-> <<files[k].name, print_int(files[k].bytes)>>]

\* A command that is still on its way is at the n-th header, and has printed what it
\* owes for the headers before it.
WalkInv ==
    /\ files \in Archives
    /\ cmd.name \in {"none", "ls", "cat", "done"}
    /\ cmd.name # "none" => cmd = [name |-> cmd.name, filename |-> cmd.filename]
    /\ cmd.name = "none" => current_addr = 0 /\ out = <<>>
    /\ cmd.name = "ls" =>
          /\ cmd.filename = NoName
          /\ \E n \in 1..(Len(files) + 1) : current_addr = HeaderAddr(n) /\ out = Listing(n - 1)
    /\ cmd.name = "cat" =>
          /\ cmd.filename # NoName /\ out = <<>>
          /\ \E n \in 1..(Len(files) + 1) :
                /\ current_addr = HeaderAddr(n)
                /\ \A k \in 1..(n - 1) : files[k].name # cmd.filename


\* The answer that AnswersRight asks for, for a file name and an output.
Named(filename) == {n \in DOMAIN files : files[n].name = filename}
First(named) == CHOOSE k \in named : \A m \in named : k <= m
Contents(n) == [i \in 1..files[n].bytes |-> HeaderAddr(n) + BLOCK + i - 1]
Lists(o) ==
    /\ Len(o) = Len(files)
    /\ \A n \in DOMAIN files : /\ o[n][1] = files[n].name
                               /\ Value(o[n][2], BASE) = files[n].bytes

Answer(filename, o) ==
    IF filename = NoName THEN Lists(o)
    ELSE IF Named(filename) = {} THEN o = <<"File not found.">>
    ELSE o = Contents(First(Named(filename)))

LEMMA AnswersRightIs ==
    AnswersRight <=> /\ cmd.name \in {"ls", "cat"} => OnHeader
                     /\ cmd.name = "done" /\ initrd_address => Answer(cmd.filename, out)
BY Zenon DEF AnswersRight, Answer, Named, First, Contents, Lists

LEMMA ListingAnswers ==
    ASSUME IsArchive
    PROVE  Answer(NoName, Listing(Len(files)))
<1>1. PICK L \in Nat : L = Len(files) /\ DOMAIN files = 1..L
  BY DEF IsArchive
<1>2. PICK o : o = Listing(L)
  OBVIOUS
<1>3. o = [k \in 1..L |-> <<files[k].name, print_int(files[k].bytes)>>]
  BY <1>2 DEF Listing
<1>4. Len(o) = L
  BY <1>3
<1>5. ASSUME NEW n \in 1..L
      PROVE  o[n][1] = files[n].name /\ Value(o[n][2], BASE) = files[n].bytes
  <2>1. PICK x, d : x = files[n].name /\ d = print_int(files[n].bytes)
    OBVIOUS
  <2>2. o[n] = <<x, d>>
    BY <1>3, <2>1
  <2>3. o[n][1] = x /\ o[n][2] = d
    BY <2>2
  <2>4. files[n].bytes \in Nat /\ files[n].bytes < WORD
    BY <1>1 DEF IsArchive
  <2>5. Value(d, BASE) = files[n].bytes
    BY <2>1, <2>4, NatShown
  <2> QED BY <2>1, <2>3, <2>5
<1> QED BY <1>1, <1>2, <1>4, <1>5 DEF Answer, Lists

LEMMA NotFoundAnswers ==
    ASSUME IsArchive, NEW filename, filename # NoName,
           \A k \in 1..Len(files) : files[k].name # filename
    PROVE  Answer(filename, <<"File not found.">>)
<1>1. Named(filename) = {}
  BY DEF IsArchive, Named
<1> QED BY <1>1 DEF Answer

LEMMA FoundAnswers ==
    ASSUME IsArchive, NEW filename, filename # NoName, NEW n \in 1..Len(files),
           files[n].name = filename, \A k \in 1..(n - 1) : files[k].name # filename
    PROVE  Answer(filename, Contents(n))
<1>1. PICK L \in Nat : L = Len(files) /\ DOMAIN files = 1..L
  BY DEF IsArchive
<1>2. PICK named : named = Named(filename)
  OBVIOUS
<1>3. n \in named /\ named \subseteq 1..L
  BY <1>1, <1>2 DEF Named
<1>4. ASSUME NEW m \in named PROVE n <= m
  <2>1. m \in 1..L /\ files[m].name = filename
    BY <1>1, <1>2 DEF Named
  <2>2. ~(m \in 1..(n - 1))
    BY <2>1
  <2> QED BY <1>1, <2>1, <2>2
<1>5. ASSUME NEW k \in named, \A m \in named : k <= m PROVE k = n
  BY <1>3, <1>4, <1>5
<1>6. First(named) = n
  BY <1>3, <1>4, <1>5 DEF First
<1>7. named # {}
  BY <1>3
<1> QED BY <1>2, <1>6, <1>7 DEF Answer

\* The start of the archive is its first header.
LEMMA FirstHeader ==
    ASSUME IsArchive
    PROVE  HeaderAddr(1) = 0 /\ 1 \in 1..(Len(files) + 1)
<1>1. Len(files) \in Nat
  BY DEF IsArchive
<1>2. 1 \in 1..(Len(files) + 1)
  BY <1>1
<1>3. PICK A : Layout(A)
  BY LayoutExists
<1> QED BY <1>2, <1>3, HeaderAddrIs DEF Layout

LEMMA OneMore ==
    ASSUME NEW S, NEW a \in Seq(S), NEW x \in S, NEW m \in Nat, m = Len(a)
    PROVE  /\ a \o <<x>> \in Seq(S) /\ Len(a \o <<x>>) = m + 1 /\ (a \o <<x>>)[m + 1] = x
           /\ \A k \in 1..m : (a \o <<x>>)[k] = a[k]
OBVIOUS

\* One more line of ls.
LEMMA ListingGrows ==
    ASSUME NEW n \in Nat \ {0}
    PROVE  Listing(n - 1) \o << <<files[n].name, print_int(files[n].bytes)>> >> = Listing(n)
<1>0. PICK x : x = <<files[n].name, print_int(files[n].bytes)>>
  OBVIOUS
<1>1. PICK a, S : a = Listing(n - 1) /\ S = {<<files[k].name, print_int(files[k].bytes)>> : k \in 1..n}
  OBVIOUS
<1>2. a = [k \in 1..(n - 1) |-> <<files[k].name, print_int(files[k].bytes)>>]
  BY <1>1 DEF Listing
<1>3. \A k \in 1..(n - 1) : k \in 1..n
  OBVIOUS
<1>4. a \in [1..(n - 1) -> S] /\ x \in S /\ n - 1 \in Nat
  BY <1>0, <1>1, <1>2, <1>3
<1>5. a \in Seq(S) /\ Len(a) = n - 1
  BY <1>4
<1>6. PICK b : b = a \o <<x>>
  OBVIOUS
<1>7. PICK m \in Nat : m = n - 1
  BY <1>4
<1>m. m = Len(a) /\ a \in Seq(S)
  BY <1>5, <1>7
<1>x. PICK y \in S : y = x
  BY <1>4
<1>a. b \in Seq(S) /\ Len(b) = m + 1 /\ b[m + 1] = x /\ \A k \in 1..m : b[k] = a[k]
  <2>1. /\ a \o <<y>> \in Seq(S) /\ Len(a \o <<y>>) = m + 1 /\ (a \o <<y>>)[m + 1] = y
        /\ \A k \in 1..m : (a \o <<y>>)[k] = a[k]
    BY ONLY <1>m, OneMore, m \in Nat, y \in S
  <2> QED BY <1>6, <1>x, <2>1
<1>8. b \in Seq(S) /\ Len(b) = (n - 1) + 1 /\ b[(n - 1) + 1] = x /\ \A k \in 1..(n - 1) : b[k] = a[k]
  BY <1>7, <1>a
<1>9. DOMAIN b = 1..n /\ b[n] = x
  <2>1. (n - 1) + 1 = n
    OBVIOUS
  <2> QED BY <1>8, <2>1
<1>10. ASSUME NEW k \in 1..n PROVE b[k] = <<files[k].name, print_int(files[k].bytes)>>
  <2>1. k = n \/ k \in 1..(n - 1)
    OBVIOUS
  <2> QED BY <1>0, <1>2, <1>8, <1>9, <2>1
<1>11. b = Listing(n)
  <2>1. b = [k \in 1..n |-> b[k]]
    BY <1>8, <1>9
  <2> QED BY <1>10, <2>1 DEF Listing
<1> QED BY <1>0, <1>1, <1>6, <1>11


\* A turn of the walk leaves the archive alone.
LEMMA SameArchive ==
    ASSUME files' = files
    PROVE  /\ \A n : HeaderAddr(n)' = HeaderAddr(n) /\ Listing(n)' = Listing(n)
           /\ \A f, o : Answer(f, o)' <=> Answer(f, o)
<1>1. ASSUME NEW n PROVE HeaderAddr(n)' = HeaderAddr(n)
  BY Zenon DEF HeaderAddr
<1>2. ASSUME NEW n PROVE Listing(n)' = Listing(n)
  BY Zenon DEF Listing
<1>3. ASSUME NEW n PROVE Contents(n)' = Contents(n)
  BY <1>1, Zenon DEF Contents
<1>4. ASSUME NEW f PROVE Named(f)' = Named(f)
  BY Zenon DEF Named
<1>5. ASSUME NEW o PROVE Lists(o)' <=> Lists(o)
  BY Zenon DEF Lists
<1>6. ASSUME NEW f, NEW o PROVE Answer(f, o)' <=> Answer(f, o)
  BY <1>3, <1>4, <1>5, Zenon DEF Answer
<1> QED BY <1>1, <1>2, <1>6



\* The inductive invariant: the walk, and the answer of a command that is done.
WalkAnswers ==
    /\ WalkInv
    /\ cmd.name = "done" /\ initrd_address => Answer(cmd.filename, out)

LEMMA BeginAnswers ==
    ASSUME WalkAnswers, NEW nm, NEW f, (nm = "ls" /\ f = NoName) \/ (nm = "cat" /\ f # NoName),
           begin([name |-> nm, filename |-> f])
    PROVE  WalkAnswers'
<1>1. PICK c : c = [name |-> nm, filename |-> f]
  OBVIOUS
<1>2. /\ cmd.name = "none" /\ files' = files /\ initrd_address' = initrd_address
      /\ current_addr' = current_addr /\ out' = out
      /\ cmd' = IF initrd_address THEN c ELSE [c EXCEPT !.name = "done"]
  BY <1>1 DEF begin
<1>3. files \in Archives /\ current_addr = 0 /\ out = <<>>
  BY <1>2 DEF WalkAnswers, WalkInv
<1>4. IsArchive
  BY <1>3, ArchiveIs
<1>5. HeaderAddr(1)' = 0 /\ 1 \in 1..(Len(files) + 1)
  BY <1>2, <1>4, FirstHeader, SameArchive
<1>6. CASE ~initrd_address
  <2>1. cmd' = [name |-> "done", filename |-> f]
    BY <1>1, <1>2, <1>6
  <2>2. cmd'.name = "done" /\ cmd' = [name |-> cmd'.name, filename |-> cmd'.filename]
    BY <2>1
  <2> QED BY <1>2, <1>3, <1>6, <2>2 DEF WalkAnswers, WalkInv
<1>7. CASE initrd_address
  <2>1. cmd' = c
    BY <1>2, <1>7
  <2>2. cmd'.name = nm /\ cmd'.filename = f /\ cmd' = [name |-> nm, filename |-> f]
    BY <1>1, <2>1
  <2>3. CASE nm = "ls" /\ f = NoName
    <3>1. Listing(0)' = <<>>
      BY DEF Listing
    <3>2. \E n \in 1..(Len(files') + 1) : current_addr' = HeaderAddr(n)' /\ out' = Listing(n - 1)'
      <4>1. 1 - 1 = 0
        OBVIOUS
      <4> QED BY <1>2, <1>3, <1>5, <3>1, <4>1
    <3> QED BY <1>2, <1>3, <2>2, <2>3, <3>2 DEF WalkAnswers, WalkInv
  <2>4. CASE nm = "cat" /\ f # NoName
    <3>1. \E n \in 1..(Len(files') + 1) :
             /\ current_addr' = HeaderAddr(n)'
             /\ \A k \in 1..(n - 1) : files'[k].name # cmd'.filename
      <4>1. \A k \in 1..(1 - 1) : FALSE
        OBVIOUS
      <4> QED BY <1>2, <1>3, <1>5, <4>1
    <3> QED BY <1>2, <1>3, <2>2, <2>4, <3>1 DEF WalkAnswers, WalkInv
  <2> QED BY <2>3, <2>4
<1> QED BY <1>6, <1>7

\* The end of a command keeps the invariant when it has printed the answer.
LEMMA EndAnswers ==
    ASSUME WalkAnswers, cmd.name \in {"ls", "cat"}, NEW t, NEW o, o = out \o t,
           Answer(cmd.filename, o), Ends(t)
    PROVE  WalkAnswers'
<1>1. /\ files' = files /\ out' = o /\ cmd' = [cmd EXCEPT !.name = "done"]
      /\ initrd_address' = initrd_address
  BY DEF Ends
<1>2. PICK nm, f : cmd = [name |-> nm, filename |-> f] /\ f = cmd.filename
  BY DEF WalkAnswers, WalkInv
<1>3. cmd' = [name |-> "done", filename |-> f]
  BY <1>1, <1>2
<1>4. cmd'.name = "done" /\ cmd'.filename = f /\ cmd' = [name |-> cmd'.name, filename |-> cmd'.filename]
  BY <1>3
<1>5. Answer(f, o)'
  BY <1>1, <1>2, SameArchive
<1>6. files' \in Archives
  BY <1>1 DEF WalkAnswers, WalkInv
<1>7. Answer(cmd.filename, out)'
  BY <1>1, <1>4, <1>5
<1> QED BY <1>4, <1>6, <1>7 DEF WalkAnswers, WalkInv


LEMMA LsAnswers ==
    ASSUME WalkAnswers, tar_ls
    PROVE  WalkAnswers'
<1>1. files \in Archives /\ cmd.name = "ls" /\ cmd.filename = NoName
  BY DEF WalkAnswers, WalkInv, tar_ls
<1>2. IsArchive
  BY <1>1, ArchiveIs
<1>3. PICK L \in Nat : L = Len(files)
  BY <1>2 DEF IsArchive
<1>4. PICK n \in 1..(L + 1) : current_addr = HeaderAddr(n) /\ out = Listing(n - 1)
  BY <1>1, <1>3 DEF WalkAnswers, WalkInv
<1>5. /\ Header = (IF n > L THEN END ELSE files[n]) /\ (Header = END <=> n > L)
      /\ (n <= L => NextHeader = HeaderAddr(n + 1))
  BY <1>2, <1>3, <1>4, AtHeader
<1>6. CASE n > L
  <2>1. Ends(<<>>)
    BY <1>5, <1>6 DEF tar_ls
  <2>2. n - 1 = L
    BY <1>3, <1>6
  <2>3. PICK t, o : t = <<>> /\ o = Listing(L)
    OBVIOUS
  <2>4. o = out \o t
    <3>1. out = [k \in 1..L |-> <<files[k].name, print_int(files[k].bytes)>>]
      BY <1>4, <2>2 DEF Listing
    <3>2. out \in Seq({<<files[k].name, print_int(files[k].bytes)>> : k \in 1..L})
      BY <3>1
    <3>3. out \o <<>> = out
      BY <3>2
    <3> QED BY <1>4, <2>2, <2>3, <3>3
  <2>5. Answer(cmd.filename, o)
    BY <1>1, <1>2, <1>3, <2>3, ListingAnswers
  <2> QED BY <1>1, <2>1, <2>3, <2>4, <2>5, EndAnswers
<1>7. CASE n <= L
  <2>1. Header # END /\ Header = files[n] /\ n \in 1..L /\ n + 1 \in 1..(L + 1) /\ (n + 1) - 1 = n
    BY <1>3, <1>5, <1>7
  <2>2. Advances(<< <<Header.name, print_int(parse_octal(Header.size))>> >>)
    BY <2>1 DEF tar_ls
  <2>3. parse_octal(Header.size) = files[n].bytes
    BY <1>2, <1>3, <2>1 DEF IsArchive
  <2>4. PICK x : x = <<files[n].name, print_int(files[n].bytes)>>
    OBVIOUS
  <2>5. Advances(<<x>>)
    BY <2>1, <2>2, <2>3, <2>4
  <2>6. /\ current_addr' = NextHeader /\ out' = out \o <<x>> /\ files' = files
        /\ initrd_address' = initrd_address /\ cmd' = cmd
    BY <2>5 DEF Advances
  <2>7. n \in Nat \ {0}
    BY <2>1
  <2>8. Listing(n - 1) \o <<x>> = Listing(n)
    BY <2>4, <2>7, ListingGrows
  <2>9. out' = Listing(n)
    BY <1>4, <2>6, <2>8
  <2>10. current_addr' = HeaderAddr(n + 1)
    BY <1>5, <1>7, <2>6
  <2>11. current_addr' = HeaderAddr(n + 1)' /\ out' = Listing((n + 1) - 1)'
    BY <2>1, <2>6, <2>9, <2>10, SameArchive
  <2>12. \E k \in 1..(Len(files') + 1) : current_addr' = HeaderAddr(k)' /\ out' = Listing(k - 1)'
    BY <1>3, <2>1, <2>6, <2>11
  <2> QED BY <1>1, <2>6, <2>12 DEF WalkAnswers, WalkInv
<1> QED BY <1>3, <1>6, <1>7

LEMMA CatAnswers ==
    ASSUME WalkAnswers, tar_cat
    PROVE  WalkAnswers'
<1>1. files \in Archives /\ cmd.name = "cat" /\ cmd.filename # NoName /\ out = <<>>
  BY DEF WalkAnswers, WalkInv, tar_cat
<1>2. IsArchive
  BY <1>1, ArchiveIs
<1>3. PICK L \in Nat : L = Len(files)
  BY <1>2 DEF IsArchive
<1>4. PICK n \in 1..(L + 1) : /\ current_addr = HeaderAddr(n)
                              /\ \A k \in 1..(n - 1) : files[k].name # cmd.filename
  BY <1>1, <1>3 DEF WalkAnswers, WalkInv
<1>5. /\ Header = (IF n > L THEN END ELSE files[n]) /\ (Header = END <=> n > L)
      /\ (n <= L => NextHeader = HeaderAddr(n + 1))
  BY <1>2, <1>3, <1>4, AtHeader
<1>6. CASE n > L
  <2>0. PICK m : m = "File not found."
    OBVIOUS
  <2>1. PICK t : t = <<m>>
    OBVIOUS
  <2>2. Ends(t)
    BY <1>5, <1>6, <2>0, <2>1, Zenon DEF tar_cat
  <2>3. n - 1 = L
    BY <1>3, <1>6
  <2>4. t = out \o t
    BY <1>1, <2>1
  <2>5. Answer(cmd.filename, t)
    BY <1>1, <1>2, <1>3, <1>4, <2>0, <2>1, <2>3, NotFoundAnswers, Zenon
  <2> QED BY <1>1, <2>2, <2>4, <2>5, EndAnswers
<1>7. CASE n <= L
  <2>1. Header # END /\ Header = files[n] /\ n \in 1..L /\ n + 1 \in 1..(L + 1) /\ (n + 1) - 1 = n
    BY <1>3, <1>5, <1>7
  <2>2. CASE Header.name = cmd.filename
    <3>1. parse_octal(Header.size) = files[n].bytes /\ files[n].bytes \in Nat
      BY <1>2, <1>3, <2>1 DEF IsArchive
    <3>2. PICK t : t = Contents(n)
      OBVIOUS
    <3>3. Ends(t)
      <4>1. Ends([i \in 1..parse_octal(Header.size) |-> current_addr + BLOCK + i - 1])
        BY <2>1, <2>2 DEF tar_cat
      <4>2. t = [i \in 1..parse_octal(Header.size) |-> current_addr + BLOCK + i - 1]
        BY <1>4, <3>1, <3>2 DEF Contents
      <4> QED BY <4>1, <4>2
    <3>4. t = out \o t
      <4>1. PICK S : S = {HeaderAddr(n) + BLOCK + i - 1 : i \in 1..files[n].bytes}
        OBVIOUS
      <4>2. t \in [1..files[n].bytes -> S]
        BY <3>2, <4>1 DEF Contents
      <4>3. t \in Seq(S)
        BY <3>1, <4>2
      <4>4. <<>> \o t = t
        BY <4>3
      <4> QED BY <1>1, <4>4
    <3>5. Answer(cmd.filename, t)
      BY <1>1, <1>2, <1>3, <1>4, <2>1, <2>2, <3>2, FoundAnswers
    <3> QED BY <1>1, <3>3, <3>4, <3>5, EndAnswers
  <2>3. CASE Header.name # cmd.filename
    <3>1. Advances(<<>>)
      BY <2>1, <2>3 DEF tar_cat
    <3>2. /\ current_addr' = NextHeader /\ out' = out \o <<>> /\ files' = files
          /\ initrd_address' = initrd_address /\ cmd' = cmd
      BY <3>1 DEF Advances
    <3>3. out' = <<>>
      BY <1>1, <3>2
    <3>4. current_addr' = HeaderAddr(n + 1)'
      BY <1>5, <1>7, <3>2, SameArchive
    <3>5. ASSUME NEW k \in 1..((n + 1) - 1) PROVE files'[k].name # cmd'.filename
      <4>1. k = n \/ k \in 1..(n - 1)
        BY <2>1
      <4> QED BY <1>4, <2>1, <2>3, <3>2, <4>1
    <3>6. \E m \in 1..(Len(files') + 1) :
             current_addr' = HeaderAddr(m)' /\ \A k \in 1..(m - 1) : files'[k].name # cmd'.filename
      BY <1>3, <2>1, <3>2, <3>4, <3>5
    <3> QED BY <1>1, <3>2, <3>3, <3>6 DEF WalkAnswers, WalkInv
  <2> QED BY <2>2, <2>3
<1> QED BY <1>3, <1>6, <1>7


LEMMA NextAnswers ==
    ASSUME WalkAnswers, [Next]_vars
    PROVE  WalkAnswers'
<1>1. CASE UNCHANGED vars
  <2>1. files' = files /\ initrd_address' = initrd_address /\ cmd' = cmd
        /\ current_addr' = current_addr /\ out' = out
    BY <1>1 DEF vars
  <2>2. \A n : HeaderAddr(n)' = HeaderAddr(n) /\ Listing(n)' = Listing(n)
    BY <2>1, SameArchive
  <2>3. \A f, o : Answer(f, o)' <=> Answer(f, o)
    BY <2>1, SameArchive
  <2>4. WalkInv'
    BY <2>1, <2>2 DEF WalkAnswers, WalkInv
  <2>5. cmd'.name = "done" /\ initrd_address' => Answer(cmd.filename, out)'
    <3>1. PICK f, o : f = cmd.filename /\ o = out
      OBVIOUS
    <3>2. cmd'.filename = f /\ out' = o
      BY <2>1, <3>1
    <3>3. Answer(cmd.filename, out)' <=> Answer(f, o)'
      BY <3>2
    <3> QED BY <2>1, <2>3, <3>1, <3>3 DEF WalkAnswers
  <2> QED BY <2>4, <2>5 DEF WalkAnswers
<1>2. CASE begin([name |-> "ls", filename |-> NoName])
  BY <1>2, BeginAnswers
<1>3. ASSUME NEW f \in Names, begin([name |-> "cat", filename |-> f]) PROVE WalkAnswers'
  <2>1. f # NoName
    BY ArchivesAssumption
  <2> QED BY <1>3, <2>1, BeginAnswers
<1>4. CASE tar_ls
  BY <1>4, LsAnswers
<1>5. CASE tar_cat
  BY <1>5, CatAnswers
<1> QED BY <1>1, <1>2, <1>3, <1>4, <1>5 DEF Next

\* A command that is still on its way stands on a header.
LEMMA WalkAnswersRight ==
    ASSUME WalkAnswers
    PROVE  AnswersRight
<1>1. ASSUME cmd.name \in {"ls", "cat"} PROVE OnHeader
  <2>1. IsArchive
    BY ArchiveIs DEF WalkAnswers, WalkInv
  <2>2. PICK n \in 1..(Len(files) + 1) : current_addr = HeaderAddr(n)
    BY <1>1 DEF WalkAnswers, WalkInv
  <2> QED BY <2>1, <2>2, AtHeader
<1> QED BY <1>1, AnswersRightIs DEF WalkAnswers

LEMMA InitAnswers == Init => WalkAnswers
BY DEF Init, WalkAnswers, WalkInv

\* tar_ls and tar_cat (src/fs.c) never take data for a header and answer right: ls lists
\* all the files in order with their sizes, cat prints the bytes of the first file of that
\* name and no others.  For every archive, every block size and every base of print_int.
THEOREM AnswersRightThm == Spec => []AnswersRight
<1>1. Init => WalkAnswers
  BY InitAnswers
<1>2. WalkAnswers /\ [Next]_vars => WalkAnswers'
  BY NextAnswers
<1>3. WalkAnswers => AnswersRight
  BY WalkAnswersRight
<1> QED BY <1>1, <1>2, <1>3, PTL DEF Spec
=============================================================================
