---------------------------- MODULE Fat16Proofs -----------------------------
(***************************************************************************)
(* Proofs about Fat16 for every volume that a formatter may have made and  *)
(* every number of writes and power losses: the driver's arithmetic puts   *)
(* every sector where the format wants it, FAT 2 falls behind FAT 1 by no  *)
(* more than the writes that were cut off, and each file keeps a chain of  *)
(* its own with its data in it, so that no other write changes what it     *)
(* reads as.                                                               *)
(***************************************************************************)
EXTENDS Fat16, FiniteSetTheorems, WellFoundedInduction, TLAPS

-----------------------------------------------------------------------------
(* Division.                                                               *)

LEMMA DivMod ==
    ASSUME NEW a \in Nat, NEW n \in Nat, n > 0
    PROVE  a \div n \in Nat /\ a % n \in 0..(n - 1) /\ a = (a \div n) * n + (a % n)
OBVIOUS

LEMMA DivUnique ==
    ASSUME NEW q \in Nat, NEW n \in Nat, NEW r \in 0..(n - 1), NEW a, a = q * n + r
    PROVE  a \div n = q /\ a % n = r
OBVIOUS

LEMMA MulLess ==
    ASSUME NEW a \in Nat, NEW b \in Nat, NEW n \in Nat, a * n < b * n
    PROVE  a < b
OBVIOUS

LEMMA MulAtMost ==
    ASSUME NEW a \in Nat, NEW b \in Nat, NEW n \in Nat, a <= b
    PROVE  a * n <= b * n /\ a * n \in Nat /\ b * n \in Nat /\ (a + 1) * n = a * n + n
<1>1. a * n \in Nat /\ b * n \in Nat /\ (a + 1) * n = a * n + n
  OBVIOUS
<1>2. PICK d \in Nat : b = a + d
  <2>1. b - a \in Nat /\ b = a + (b - a)
    OBVIOUS
  <2> QED BY <2>1
<1>3. b * n = a * n + d * n /\ d * n \in Nat
  BY <1>2
<1> QED BY <1>1, <1>3

-----------------------------------------------------------------------------
(* The layout.                                                             *)

LEMMA BpbTypes ==
    ASSUME NEW b \in Bpbs
    PROVE  /\ b.reserved_sectors \in Nat \ {0} /\ b.fat_count \in Nat /\ b.fat_count >= 1
           /\ b.sectors_per_fat \in Nat /\ b.root_dir_entries \in Nat
           /\ total_sectors(b) \in Nat /\ b.sectors_per_clustor \in Nat \ {0}
           /\ FAT_ENTRIES \in Nat \ {0} /\ DIR_ENTRIES \in Nat \ {0}
           /\ b.fat_count * b.sectors_per_fat \in Nat /\ Formatted(b)
<1>1. /\ b.reserved_sectors \in Nat /\ b.fat_count \in Nat
      /\ b.sectors_per_fat \in Nat /\ b.root_dir_entries \in Nat
      /\ b.total_sectors_small \in Nat /\ b.total_sectors_large \in Nat
      /\ b.sectors_per_clustor \in Nat
  BY BpbAssumption
<1>2. b.fat_count * b.sectors_per_fat \in Nat /\ total_sectors(b) \in Nat
  BY <1>1 DEF total_sectors
<1>3. Formatted(b) /\ FAT_ENTRIES \in Nat \ {0} /\ DIR_ENTRIES \in Nat \ {0}
  BY BpbAssumption
<1>4. b.reserved_sectors > 0 /\ b.fat_count > 0 /\ b.sectors_per_clustor > 0
  BY <1>3 DEF Formatted
<1> QED BY <1>1, <1>2, <1>3, <1>4

\* fat16_init finds the directory and the data where the format puts them.
LEMMA StartsAgree ==
    ASSUME NEW b \in Bpbs
    PROVE  /\ fat16_init(b).fat_start_sector = b.reserved_sectors
           /\ fat16_init(b).root_dir_start = RootStart(b)
           /\ fat16_init(b).data_start_sector = DataStart(b)
           /\ RootStart(b) + fat16_init(b).root_dir_sectors = DataStart(b)
           /\ fat16_init(b).root_dir_sectors \in Nat
           /\ RootStart(b) \in Nat /\ DataStart(b) \in Nat
           /\ b.reserved_sectors <= RootStart(b) /\ RootStart(b) <= DataStart(b)
           /\ DataStart(b) <= total_sectors(b)
<1> DEFINE D == DIR_ENTRIES
           E == b.root_dir_entries
<1>1. D \in Nat \ {0} /\ E \in Nat /\ E % D = 0
  <2>1. Formatted(b)
    BY BpbTypes
  <2>2. b.root_dir_entries % DIR_ENTRIES = 0
    BY <2>1 DEF Formatted
  <2> QED BY <2>2, BpbTypes
<1> HIDE DEF D, E
<1>2. PICK q \in Nat : q = E \div D /\ E = q * D
  BY <1>1, DivMod
<1>3. (E + D - 1) \div D = q
  <2>1. D - 1 \in 0..(D - 1) /\ E + D - 1 = q * D + (D - 1)
    BY <1>1, <1>2
  <2>2. PICK a, r : a = E + D - 1 /\ r = D - 1
    OBVIOUS
  <2> QED BY <1>1, <2>1, <2>2, DivUnique
<1>4. fat16_init(b) = [fat_start_sector |-> b.reserved_sectors, root_dir_start |-> RootStart(b),
                       root_dir_sectors |-> q, data_start_sector |-> RootStart(b) + q]
  BY <1>2 DEF fat16_init, RootStart, D, E
<1>5. DataStart(b) = RootStart(b) + q
  BY <1>3 DEF DataStart, D, E
<1>6. RootStart(b) \in Nat /\ b.reserved_sectors <= RootStart(b)
  BY BpbTypes DEF RootStart
<1>7. DataStart(b) <= total_sectors(b)
  <2>1. Formatted(b) /\ total_sectors(b) \in Nat
    BY BpbTypes
  <2>2. total_sectors(b) >= DataStart(b)
    BY <2>1 DEF Formatted
  <2> QED BY <1>5, <1>6, <2>1, <2>2
<1> QED BY <1>4, <1>5, <1>6, <1>7

\* A cluster number is at most the number of complete clusters plus one exactly when the
\* end of the cluster lies inside the volume.
LEMMA CompleteClusters ==
    ASSUME NEW room \in Nat, NEW n \in Nat \ {0}, NEW c \in Nat, c >= 2
    PROVE  c <= (room \div n) + 1 <=> (c - 1) * n <= room
<1>1. PICK t \in Nat, r \in 0..(n - 1) : t = room \div n /\ room = t * n + r
  BY DivMod
<1>2. PICK k \in Nat : k = c - 1
  OBVIOUS
<1>3. k * n \in Nat /\ t * n \in Nat /\ (t + 1) * n = t * n + n
  BY MulAtMost
<1>4. CASE k <= t
  <2>1. k * n <= t * n
    BY <1>4, MulAtMost
  <2> QED BY <1>1, <1>2, <1>3, <1>4, <2>1
<1>5. CASE t < k
  <2>1. PICK q \in Nat : q = t + 1 /\ q <= k
    BY <1>5
  <2>2. q * n <= k * n
    BY <2>1, MulAtMost
  <2>3. (t + 1) * n <= k * n
    BY <2>1, <2>2
  <2> QED BY <1>1, <1>2, <1>3, <1>5, <2>3
<1> QED BY <1>4, <1>5

\* The clusters that fat16_find_free_cluster looks at are the volume's.
LEMMA SearchIsComplete ==
    ASSUME NEW b \in Bpbs
    PROVE  SearchedClusters(b) = VolumeClusters(b)
<1>1. PICK D \in Nat, T \in Nat, n \in Nat \ {0} :
          D = DataStart(b) /\ T = total_sectors(b) /\ n = b.sectors_per_clustor /\ D <= T
  BY BpbTypes, StartsAgree
<1>2. PICK room \in Nat : room = T - D
  BY <1>1
<1>3. PICK t \in Nat, r \in 0..(n - 1) : t = room \div n /\ room = t * n + r
  BY DivMod
<1>4. SearchedClusters(b) = {c \in 2..(t + 1) : c < (t + 2) % WORD16}
  BY <1>1, <1>2, <1>3, StartsAgree DEF SearchedClusters
<1>5. VolumeClusters(b) = {c \in 2..(T + 1) : D + ((c - 1) * n) <= T}
  BY <1>1 DEF VolumeClusters
<1>6. ASSUME NEW c \in Nat, c >= 2
      PROVE  c <= t + 1 <=> D + ((c - 1) * n) <= T
  <2>1. c <= t + 1 <=> (c - 1) * n <= room
    BY <1>3, <1>6, CompleteClusters
  <2>2. (c - 1) * n \in Int
    OBVIOUS
  <2>3. PICK m \in Int : m = (c - 1) * n
    BY <2>2
  <2> QED BY <1>1, <1>2, <2>1, <2>3
<1>7. t * n >= t /\ t <= T
  <2>1. t * n >= t
    OBVIOUS
  <2>2. t * n \in Nat
    OBVIOUS
  <2>3. PICK m \in Nat : m = t * n /\ m >= t
    BY <2>1, <2>2
  <2> QED BY <1>1, <1>2, <1>3, <2>3
<1>8. CASE t = 0
  <2>1. SearchedClusters(b) = {}
    BY <1>4, <1>8
  <2>2. ASSUME NEW c \in VolumeClusters(b) PROVE FALSE
    <3>1. c \in Nat /\ c >= 2 /\ D + ((c - 1) * n) <= T
      BY <1>1, <1>5
    <3>2. c <= t + 1
      BY <1>6, <3>1
    <3> QED BY <1>8, <3>1, <3>2
  <2> QED BY <2>1, <2>2
<1>9. CASE t # 0
  <2>1. PICK l \in Nat : l = t + 1 /\ l >= 2
    BY <1>9
  <2>2. l \in 2..(T + 1)
    BY <1>1, <1>7, <2>1
  <2>3. l \in VolumeClusters(b)
    BY <1>5, <1>6, <2>1, <2>2
  <2>4. l < END_MARKS
    <3>1. Formatted(b)
      BY BpbTypes
    <3> QED BY <2>3, <3>1 DEF Formatted
  <2>5. (t + 2) % WORD16 = t + 2
    <3>1. t + 2 < 65536
      BY <2>1, <2>4 DEF END_MARKS
    <3> QED BY <3>1 DEF WORD16
  <2>6. \A c : c \in 2..(t + 1) => c < t + 2
    OBVIOUS
  <2>7. SearchedClusters(b) = 2..(t + 1)
    BY <1>4, <2>5, <2>6
  <2>8. \A c : c \in 2..(t + 1) <=> c \in Nat /\ c >= 2 /\ c <= t + 1
    OBVIOUS
  <2>9. \A c : c \in VolumeClusters(b) <=> c \in 2..(T + 1) /\ D + ((c - 1) * n) <= T
    BY <1>5
  <2>10. \A c : c \in 2..(T + 1) <=> c \in Nat /\ c >= 2 /\ c <= T + 1
    BY <1>1
  <2>11. \A c \in Nat : c <= t + 1 => c <= T + 1
    BY <1>1, <1>7
  <2> QED BY <1>6, <2>7, <2>8, <2>9, <2>10, <2>11
<1> QED BY <1>8, <1>9

\* A sector of a FAT lands in a FAT, in both copies, unless there is only one.
LEMMA FatSectors ==
    ASSUME NEW b \in Bpbs, NEW c \in VolumeClusters(b), NEW w \in write_fat_entry(b, c)
    PROVE  Placed(b, w) \/ Misplaced(b, w)
<1>1. PICK R \in Nat, S \in Nat, F \in Nat, m \in Nat, j \in Nat :
          /\ R = b.reserved_sectors /\ S = b.sectors_per_fat /\ F = FAT_ENTRIES
          /\ m = b.fat_count /\ j = c \div FAT_ENTRIES /\ m >= 1 /\ F > 0
          /\ c \in Nat /\ c = (j * F) + (c % F) /\ c % F \in 0..(F - 1)
  <2>1. c \in Nat /\ FAT_ENTRIES \in Nat /\ FAT_ENTRIES > 0
    BY BpbTypes DEF VolumeClusters
  <2>2. PICK j \in Nat : j = c \div FAT_ENTRIES /\ c % FAT_ENTRIES \in 0..(FAT_ENTRIES - 1)
                         /\ c = (j * FAT_ENTRIES) + (c % FAT_ENTRIES)
    BY <2>1, DivMod
  <2> QED BY <2>1, <2>2, BpbTypes
<1>2. c < S * F
  <2>1. Formatted(b)
    BY BpbTypes
  <2> QED BY <1>1, <2>1 DEF Formatted
<1>3. j < S
  <2>1. j * F \in Nat /\ S * F \in Nat
    BY <1>1
  <2>2. PICK x \in Nat, y \in Nat : x = j * F /\ y = S * F /\ x < y
    BY <1>1, <1>2, <2>1
  <2> QED BY <2>2, MulLess
<1>4. RootStart(b) = R + (m * S) /\ m * S \in Nat
  BY <1>1 DEF RootStart
<1>5. PICK Q \in Nat : Q = RootStart(b) /\ Q <= total_sectors(b) /\ total_sectors(b) \in Nat
  <2>1. RootStart(b) \in Nat /\ DataStart(b) \in Nat /\ RootStart(b) <= DataStart(b)
        /\ DataStart(b) <= total_sectors(b) /\ total_sectors(b) \in Nat
    BY StartsAgree, BpbTypes
  <2> QED BY <2>1
<1>6. PICK lba \in Nat : w[1] = lba /\ w[2] = <<"fat", j>> /\ (lba = R + j \/ lba = R + j + S)
  BY <1>1, StartsAgree DEF write_fat_entry
<1>7. (lba - R) % S = j
  <2>1. j \in 0..(S - 1)
    BY <1>3
  <2>2. CASE lba = R + j
    <3>1. lba - R = 0 * S + j
      BY <1>1, <2>2
    <3>2. PICK a : a = lba - R
      OBVIOUS
    <3> QED BY <2>1, <3>1, <3>2, DivUnique
  <2>3. CASE lba = R + j + S
    <3>1. lba - R = 1 * S + j
      BY <1>1, <2>3
    <3>2. PICK a : a = lba - R
      OBVIOUS
    <3> QED BY <2>1, <3>1, <3>2, DivUnique
  <2> QED BY <1>6, <2>2, <2>3 DEF Placed
<1>8. CASE m >= 2 \/ lba = R + j
  <2>1. lba < Q /\ ~(lba < R)
    <3>1. CASE m >= 2
      <4>1. 2 * S <= m * S
        BY <1>1, <3>1, MulAtMost
      <4>2. PICK x \in Nat : x = m * S /\ x >= S + S
        BY <1>1, <1>4, <4>1
      <4> QED BY <1>3, <1>4, <1>5, <1>6, <4>2
    <3>2. CASE lba = R + j
      <4>1. 1 * S <= m * S
        BY <1>1, MulAtMost
      <4>2. PICK x \in Nat : x = m * S /\ x >= S
        BY <1>1, <1>4, <4>1
      <4> QED BY <1>3, <1>4, <1>5, <3>2, <4>2
    <3> QED BY <1>8, <3>1, <3>2
  <2>2. lba < total_sectors(b)
    BY <1>5, <2>1
  <2>3. Region(b, lba) = <<"fat", j>>
    BY <1>1, <1>5, <1>7, <2>1 DEF Region
  <2> QED BY <1>6, <2>2, <2>3 DEF Placed
<1>9. CASE m = 1 /\ lba = R + j + S
  <2>1. lba = Q + j
    BY <1>4, <1>5, <1>9
  <2>2. w[2][1] = "fat" /\ w[2][2] = j
    BY <1>6
  <2> QED BY <1>1, <1>5, <1>6, <1>9, <2>1, <2>2 DEF Misplaced
<1> QED BY <1>1, <1>6, <1>8, <1>9

\* A sector of the directory lands in the root directory.
LEMMA DirSectors ==
    ASSUME NEW b \in Bpbs, NEW w \in write_dir_sectors(b)
    PROVE  Placed(b, w)
<1>1. PICK R \in Nat, Q \in Nat, D \in Nat, n \in Nat, T \in Nat :
          /\ R = b.reserved_sectors /\ Q = RootStart(b) /\ D = DataStart(b)
          /\ n = fat16_init(b).root_dir_sectors /\ T = total_sectors(b)
          /\ Q + n = D /\ R <= Q /\ D <= T
  BY StartsAgree, BpbTypes
<1>2. PICK s \in 0..(n - 1) : w = <<Q + s, <<"dir", s>> >>
  BY <1>1, StartsAgree DEF write_dir_sectors
<1>3. PICK lba \in Nat : lba = Q + s
  BY <1>1, <1>2
<1>4. ~(lba < R) /\ ~(lba < Q) /\ lba < D /\ lba - Q = s /\ lba < T
  BY <1>1, <1>2, <1>3
<1>5. Region(b, lba) = <<"dir", s>>
  BY <1>1, <1>4 DEF Region
<1>6. w[1] = lba /\ w[2] = <<"dir", s>>
  BY <1>2, <1>3
<1> QED BY <1>1, <1>4, <1>5, <1>6 DEF Placed

\* A sector of a cluster lands in that cluster, inside the volume.
LEMMA DataSectors ==
    ASSUME NEW b \in Bpbs, NEW c \in VolumeClusters(b), NEW w \in write_cluster(b, c)
    PROVE  Placed(b, w)
<1>1. PICK R \in Nat, Q \in Nat, D \in Nat, n \in Nat, T \in Nat :
          /\ R = b.reserved_sectors /\ Q = RootStart(b) /\ D = DataStart(b)
          /\ n = b.sectors_per_clustor /\ T = total_sectors(b)
          /\ R <= Q /\ Q <= D /\ D <= T
  BY StartsAgree, BpbTypes
<1>2. c \in Nat /\ c >= 2 /\ D + ((c - 1) * n) <= T
  BY <1>1 DEF VolumeClusters
<1>3. PICK q \in Nat : q = c - 2
  BY <1>2
<1>4. q * n \in Nat /\ (c - 1) * n = (q * n) + n
  <2>1. c - 1 = q + 1
    BY <1>2, <1>3
  <2>2. q * n \in Nat /\ (q + 1) * n = (q * n) + n
    BY MulAtMost
  <2> QED BY <2>1, <2>2
<1>5. PICK x \in Nat : x = q * n /\ D + x + n <= T
  <2>1. PICK x \in Nat : x = q * n
    BY <1>4
  <2>2. (c - 1) * n = x + n
    BY <1>4, <2>1
  <2> QED BY <1>1, <1>2, <2>1, <2>2
<1>6. cluster_to_lba(b, c) = D + x
  BY <1>1, <1>3, <1>5, StartsAgree DEF cluster_to_lba
<1>7. PICK s \in 0..(n - 1) : w = <<D + x + s, <<"data", c, s>> >>
  BY <1>1, <1>6 DEF write_cluster
<1>8. PICK lba \in Nat, k \in Nat : lba = D + x + s /\ k = lba - D /\ k = x + s
  BY <1>7
<1>9. k \div n = q /\ k % n = s
  <2>1. k = q * n + s
    BY <1>5, <1>8
  <2> QED BY <2>1, DivUnique
<1>10. ~(lba < R) /\ ~(lba < Q) /\ ~(lba < D) /\ lba < T
  BY <1>1, <1>5, <1>7, <1>8
<1>11. 2 + q = c
  BY <1>2, <1>3
<1>12. Region(b, lba) = <<"data", c, s>>
  BY <1>1, <1>8, <1>9, <1>10, <1>11 DEF Region
<1>13. w[1] = lba /\ w[2] = <<"data", c, s>>
  BY <1>7, <1>8
<1> QED BY <1>1, <1>10, <1>12, <1>13 DEF Placed

\* The clusters that fat16_find_free_cluster can return are exactly the complete ones of
\* the volume, in spite of its 16-bit limit, and a write is where the format puts it or is
\* the second table of a volume with one.
LEMMA VolumesKeptHolds == VolumesKept
<1> SUFFICES ASSUME NEW b \in Bpbs
             PROVE  /\ SearchedClusters(b) = VolumeClusters(b)
                    /\ \A w \in Writes(b) : Placed(b, w) \/ Misplaced(b, w)
  BY DEF VolumesKept
<1>1. SearchedClusters(b) = VolumeClusters(b)
  BY SearchIsComplete
<1>2. ASSUME NEW w \in Writes(b)
      PROVE  Placed(b, w) \/ Misplaced(b, w)
  <2>1. CASE w \in write_dir_sectors(b)
    BY <2>1, DirSectors
  <2>2. ASSUME NEW c \in SearchedClusters(b), w \in write_fat_entry(b, c) \cup write_cluster(b, c)
        PROVE  Placed(b, w) \/ Misplaced(b, w)
    <3>1. c \in VolumeClusters(b)
      BY <1>1
    <3>2. CASE w \in write_fat_entry(b, c)
      BY <3>1, <3>2, FatSectors
    <3>3. CASE w \in write_cluster(b, c)
      BY <3>1, <3>3, DataSectors
    <3> QED BY <2>2, <3>2, <3>3
  <2> QED BY <2>1, <2>2 DEF Writes
<1> QED BY <1>1, <1>2

\* On every formatted volume (module FatLayout: Formatted) the clusters that
\* fat16_find_free_cluster can return are the complete ones, and every sector that
\* fat16_write_file writes lies inside the volume and in the place that the FAT16 format
\* gives it, but for the second table of a volume with one, which lands in what follows
\* the table; on a volume with a second table, as the one in use, nothing is misplaced.
THEOREM LayoutKeptThm == Spec => []LayoutKept
<1> DEFINE I == g_bpb \in Bpbs /\ g_bpb.fat_count > 1
<1>1. Init => I
  <2>1. \A d \in InitialDisks : d.bpb \in Bpbs /\ d.bpb.fat_count > 1
    BY Fat16Assumption DEF IsSoundDisk
  <2> QED BY <2>1 DEF Init
<1>2. I /\ [Next]_vars => I'
  BY DEF Next, vars, WriteStep, write_begin, write_alloc, write_disk_full, write_link2, write_mark1,
         write_mark2, write_data, write_dir, write_root_full, power_loss, disk, rest
<1>3. I => LayoutKept
  <2> SUFFICES ASSUME I PROVE LayoutKept
    OBVIOUS
  <2>1. g_bpb.fat_count \in Nat
    BY BpbTypes
  <2>2. ASSUME NEW w PROVE ~Misplaced(g_bpb, w)
    BY <2>1 DEF Misplaced
  <2>3. \A w \in Writes(g_bpb) : Placed(g_bpb, w) \/ Misplaced(g_bpb, w)
    BY VolumesKeptHolds DEF VolumesKept
  <2> QED BY <2>2, <2>3, VolumesKeptHolds DEF LayoutKept
<1> QED BY <1>1, <1>2, <1>3, PTL DEF Spec

-----------------------------------------------------------------------------
(* Types.                                                                  *)

Tokens == [id : Nat, sector : Nat]

Writing == {"alloc", "link2", "mark1", "mark2", "data", "dir"}

Ops == [pc : Writing, name : Names, size : Nat, i : Nat, first : Nat, prev : Nat, free_c : Nat,
        written : Nat]

Fat16TypeOK ==
    /\ g_bpb \in Bpbs
    /\ fat1 \in [Clusters -> Nat] /\ fat2 \in [Clusters -> Nat]
    /\ root_dir \in [Slots -> Entries]
    /\ data \in [Clusters \X (0..(SECTORS_PER_CLUSTER - 1)) -> Tokens]
    /\ op \in {Idle} \cup Ops
    /\ writes \in Nat /\ crashes \in Nat /\ failures \in Nat

\* A write is in progress when op has a pc other than "idle".
LEMMA InProgress ==
    ASSUME op \in {Idle} \cup Ops, op.pc \in Writing
    PROVE  op \in Ops /\ op # Idle
BY DEF Idle, Ops, Writing

\* The clusters of a volume, as numbers.
LEMMA ClusterNumbers ==
    ASSUME g_bpb \in Bpbs
    PROVE  /\ Clusters = VolumeClusters(g_bpb)
           /\ Clusters \subseteq Nat /\ IsFiniteSet(Clusters) /\ Cardinality(Clusters) \in Nat
           /\ FREE \notin Clusters /\ EOC \notin Clusters
           /\ SECTORS_PER_CLUSTER \in Nat \ {0}
<1>1. Clusters = VolumeClusters(g_bpb)
  BY SearchIsComplete DEF Clusters
<1>2. SECTORS_PER_CLUSTER \in Nat \ {0} /\ total_sectors(g_bpb) \in Nat /\ Formatted(g_bpb)
  BY BpbTypes DEF SECTORS_PER_CLUSTER
<1>3. Clusters \subseteq 2..(total_sectors(g_bpb) + 1)
  BY <1>1 DEF VolumeClusters
<1>4. Clusters \subseteq Nat /\ FREE \notin Clusters
  BY <1>2, <1>3 DEF FREE
<1>5. IsFiniteSet(Clusters)
  <2>1. PICK T \in Int : T = total_sectors(g_bpb) + 1
    BY <1>2
  <2>2. IsFiniteSet(2..T)
    BY FS_Interval
  <2> QED BY <1>3, <2>1, <2>2, FS_Subset
<1>6. Cardinality(Clusters) \in Nat
  BY <1>5, FS_CardinalityType
<1>7. EOC \notin Clusters
  <2>1. \A c \in Clusters : c < END_MARKS
    BY <1>1, <1>2 DEF Formatted
  <2> QED BY <2>1 DEF EOC, END_MARKS
<1> QED BY <1>1, <1>2, <1>4, <1>5, <1>6, <1>7

LEMMA Fat16TypesInit == Init => Fat16TypeOK
<1> SUFFICES ASSUME Init PROVE Fat16TypeOK
  OBVIOUS
<1>1. PICK d \in InitialDisks :
          g_bpb = d.bpb /\ fat1 = d.fat /\ fat2 = d.fat /\ root_dir = d.root_dir /\ data = d.data
  BY DEF Init
<1>2. IsSoundDisk(d)
  BY Fat16Assumption
<1>3. /\ d.bpb \in Bpbs /\ d.fat \in [VolumeClusters(d.bpb) -> Nat]
      /\ d.root_dir \in [1..d.bpb.root_dir_entries -> Entries]
      /\ d.data \in [VolumeClusters(d.bpb) \X (0..(d.bpb.sectors_per_clustor - 1)) -> Tokens]
  BY <1>2 DEF IsSoundDisk, Tokens
<1>4. Clusters = VolumeClusters(d.bpb)
  BY <1>1, <1>3, SearchIsComplete DEF Clusters
<1> QED BY <1>1, <1>3, <1>4 DEF Init, Fat16TypeOK, Slots, SECTORS_PER_CLUSTER

LEMMA Fat16TypesStep ==
    ASSUME Fat16TypeOK, Next
    PROVE  Fat16TypeOK'
<1>0. g_bpb' = g_bpb
  BY DEF Next, WriteStep, write_begin, write_alloc, write_disk_full, write_link2, write_mark1,
         write_mark2, write_data, write_dir, write_root_full, power_loss, disk, rest
<1>1. Clusters' = Clusters /\ Slots' = Slots /\ SECTORS_PER_CLUSTER' = SECTORS_PER_CLUSTER
  BY <1>0 DEF Clusters, Slots, SECTORS_PER_CLUSTER
<1>2. /\ Clusters \subseteq Nat /\ SECTORS_PER_CLUSTER \in Nat \ {0}
      /\ EOC \in Nat
  BY ClusterNumbers DEF Fat16TypeOK, EOC
<1>3. ASSUME NEW n \in Names, NEW size \in Sizes, write_begin(n, size)
      PROVE  Fat16TypeOK'
  <2>1. size \in Nat
    BY Fat16Assumption
  <2>2. [pc |-> "alloc", name |-> n, size |-> size, i |-> 0,
         first |-> 0, prev |-> 0, free_c |-> 0, written |-> 0] \in Ops
    BY <2>1 DEF Ops, Writing
  <2>3. op' \in {Idle} \cup Ops
    BY <1>3, <2>2 DEF write_begin
  <2> QED BY <1>0, <1>1, <1>3, <2>3 DEF write_begin, Fat16TypeOK, disk
<1>4. CASE write_alloc
  <2>1. op \in Ops
    BY <1>4, InProgress DEF write_alloc, Fat16TypeOK, Writing
  <2>2. PICK c \in Clusters :
            IF op.i = 0
            THEN /\ fat1' = [fat1 EXCEPT ![c] = EOC]
                 /\ op' = [op EXCEPT !.pc = "mark2", !.first = c, !.free_c = c]
            ELSE /\ fat1' = [fat1 EXCEPT ![op.prev] = c]
                 /\ op' = [op EXCEPT !.pc = "link2", !.free_c = c]
    BY <1>4 DEF write_alloc
  <2>3. op' \in Ops
    BY <1>2, <2>1, <2>2 DEF Ops, Writing
  <2>4. fat1' \in [Clusters -> Nat]
    BY <1>2, <2>2 DEF Fat16TypeOK
  <2> QED BY <1>0, <1>1, <1>4, <2>3, <2>4 DEF write_alloc, Fat16TypeOK, rest
<1>5. CASE write_disk_full
  BY <1>0, <1>1, <1>5 DEF write_disk_full, Fat16TypeOK, disk
<1>6. CASE write_link2
  <2>1. op \in Ops
    BY <1>6, InProgress DEF write_link2, Fat16TypeOK, Writing
  <2>2. op' \in Ops
    BY <1>6, <2>1 DEF write_link2, Ops, Writing
  <2>3. fat2' \in [Clusters -> Nat]
    BY <1>6 DEF write_link2, CopyToFat2, Fat16TypeOK
  <2> QED BY <1>0, <1>1, <1>6, <2>2, <2>3 DEF write_link2, Fat16TypeOK, rest
<1>7. CASE write_mark1
  <2>1. op \in Ops
    BY <1>7, InProgress DEF write_mark1, Fat16TypeOK, Writing
  <2>2. op' \in Ops
    BY <1>7, <2>1 DEF write_mark1, Ops, Writing
  <2>3. fat1' \in [Clusters -> Nat]
    BY <1>2, <1>7 DEF write_mark1, Fat16TypeOK
  <2> QED BY <1>0, <1>1, <1>7, <2>2, <2>3 DEF write_mark1, Fat16TypeOK, rest
<1>8. CASE write_mark2
  <2>1. op \in Ops
    BY <1>8, InProgress DEF write_mark2, Fat16TypeOK, Writing
  <2>2. PICK k \in Nat : k = op.i + 1
    BY <2>1 DEF Ops
  <2>3. op' \in {[op EXCEPT !.pc = "alloc", !.i = k, !.prev = op.free_c],
                 [op EXCEPT !.pc = "data", !.prev = op.first]}
    BY <1>8, <2>2 DEF write_mark2
  <2>4. op' \in Ops
    BY <2>1, <2>3 DEF Ops, Writing
  <2>5. fat2' \in [Clusters -> Nat]
    BY <1>8 DEF write_mark2, CopyToFat2, Fat16TypeOK
  <2> QED BY <1>0, <1>1, <1>8, <2>4, <2>5 DEF write_mark2, Fat16TypeOK, rest
<1>9. CASE write_data
  <2>1. op \in Ops
    BY <1>9, InProgress DEF write_data, Fat16TypeOK, Writing
  <2>2. PICK k \in Nat : k = op.written + 1
    BY <2>1 DEF Ops
  <2>3. PICK next : next = IF (op.written + 1) % SECTORS_PER_CLUSTER = 0 THEN fat1[op.prev] ELSE op.prev
    OBVIOUS
  <2>4. op' = IF op.written + 1 >= op.size \/ next \notin Clusters THEN [op EXCEPT !.pc = "dir"]
              ELSE [op EXCEPT !.written = k, !.prev = next]
    BY <1>9, <2>2, <2>3 DEF write_data
  <2>5. op' \in Ops
    BY <1>2, <2>1, <2>2, <2>4 DEF Ops, Writing
  <2>6. [id |-> writes, sector |-> op.written] \in Tokens
    BY <2>1 DEF Fat16TypeOK, Tokens, Ops
  <2>7. PICK x, tok : tok \in Tokens /\ data' = [data EXCEPT ![x] = tok]
    BY <1>9, <2>6 DEF write_data
  <2>8. data' \in [Clusters \X (0..(SECTORS_PER_CLUSTER - 1)) -> Tokens]
    BY <2>7 DEF Fat16TypeOK
  <2> QED BY <1>0, <1>1, <1>9, <2>5, <2>8 DEF write_data, Fat16TypeOK, rest
<1>10. CASE write_dir
  <2>1. op \in Ops
    BY <1>10, InProgress DEF write_dir, Fat16TypeOK, Writing
  <2>2. File(op.name, op.first, op.size, writes) \in Entries
    BY <2>1 DEF File, Entries, Ops, Fat16TypeOK
  <2>3. root_dir' \in [Slots -> Entries]
    BY <1>10, <2>2 DEF write_dir, Fat16TypeOK
  <2> QED BY <1>0, <1>1, <1>10, <2>3 DEF write_dir, Fat16TypeOK, rest
<1>11. CASE write_root_full
  BY <1>0, <1>1, <1>11 DEF write_root_full, Fat16TypeOK, disk
<1>12. CASE power_loss
  BY <1>0, <1>1, <1>12 DEF power_loss, Fat16TypeOK, disk
<1> QED BY <1>3, <1>4, <1>5, <1>6, <1>7, <1>8, <1>9, <1>10, <1>11, <1>12 DEF Next, WriteStep

-----------------------------------------------------------------------------
(* FAT 2 follows FAT 1.                                                    *)

Lagging == {c \in Clusters : fat1[c] # fat2[c]}

\* The entry that is written in FAT 1 and not yet in FAT 2.
Pending ==
    CASE op.pc = "link2" -> {op.prev}
      [] op.pc = "mark2" -> {op.free_c}
      [] OTHER -> {}

\* Besides it, there is at most one entry for each power loss.
LagInv == Cardinality(Lagging \ Pending) <= crashes

LEMMA PendingCases ==
    /\ op.pc = "link2" => Pending = {op.prev}
    /\ op.pc = "mark2" => Pending = {op.free_c}
    /\ op.pc \notin {"link2", "mark2"} => Pending = {}
BY DEF Pending

\* Any set of entries that are in Lagging \ Pending, or fewer, is no larger.
LEMMA LagShrinks ==
    ASSUME Fat16TypeOK, LagInv, NEW S, S \subseteq Lagging \ Pending
    PROVE  Cardinality(S) <= crashes
<1>1. IsFiniteSet(Clusters)
  BY ClusterNumbers DEF Fat16TypeOK
<1>2. PICK L : L = Lagging \ Pending
  OBVIOUS
<1>3. L \subseteq Clusters
  BY <1>2 DEF Lagging
<1>4. IsFiniteSet(L) /\ Cardinality(L) \in Nat
  BY <1>1, <1>3, FS_Subset, FS_CardinalityType
<1>5. Cardinality(S) <= Cardinality(L) /\ Cardinality(S) \in Nat
  BY <1>2, <1>4, FS_Subset, FS_CardinalityType
<1> QED BY <1>2, <1>4, <1>5 DEF LagInv, Fat16TypeOK

\* The pending entry counts for one.
LEMMA LagWithPending ==
    ASSUME Fat16TypeOK, LagInv
    PROVE  Cardinality(Lagging) \in Nat /\ Cardinality(Lagging) <= crashes + 1
<1>1. IsFiniteSet(Clusters)
  BY ClusterNumbers DEF Fat16TypeOK
<1>2. IsFiniteSet(Lagging) /\ Cardinality(Lagging) \in Nat
  <2>1. Lagging \subseteq Clusters
    BY DEF Lagging
  <2> QED BY <1>1, <2>1, FS_Subset, FS_CardinalityType
<1>3. CASE Pending = {}
  <2>1. Lagging \ Pending = Lagging
    BY <1>3
  <2>2. Cardinality(Lagging) <= crashes /\ crashes \in Nat
    BY <2>1 DEF LagInv, Fat16TypeOK
  <2> QED BY <1>2, <2>2
<1>4. ASSUME NEW x, Pending = {x}
      PROVE  Cardinality(Lagging) <= crashes + 1
  <2>1. Cardinality(Lagging \ {x}) <= crashes
    BY <1>4 DEF LagInv
  <2>2. Cardinality(Lagging \ {x}) = IF x \in Lagging THEN Cardinality(Lagging) - 1
                                     ELSE Cardinality(Lagging)
    BY <1>2, FS_RemoveElement
  <2> QED BY <1>2, <2>1, <2>2 DEF Fat16TypeOK
<1> QED BY <1>2, <1>3, <1>4, PendingCases

\* The copy of a sector of FAT 1 takes its entries off the list.
LEMMA CopyCatchesUp ==
    ASSUME Fat16TypeOK, NEW c, CopyToFat2(c), UNCHANGED <<g_bpb, fat1>>
    PROVE  Lagging' \subseteq Lagging \ {c}
<1>1. Clusters' = Clusters
  BY DEF Clusters
<1>2. \A d \in Clusters : fat2'[d] = IF d \div FAT_ENTRIES = c \div FAT_ENTRIES THEN fat1[d] ELSE fat2[d]
  BY DEF CopyToFat2
<1> QED BY <1>1, <1>2 DEF Lagging

LEMMA LagStep ==
    ASSUME Fat16TypeOK, LagInv, Next
    PROVE  LagInv'
<1>0. g_bpb' = g_bpb
  BY DEF Next, WriteStep, write_begin, write_alloc, write_disk_full, write_link2, write_mark1,
         write_mark2, write_data, write_dir, write_root_full, power_loss, disk, rest
<1>1. Clusters' = Clusters
  BY <1>0 DEF Clusters
<1>2. Idle.pc = "idle"
  BY DEF Idle
\* Steps that leave both tables alone, and no entry pending.
<1>3. ASSUME UNCHANGED <<fat1, fat2, crashes>>, op.pc \notin {"link2", "mark2"},
             op'.pc \notin {"link2", "mark2"}
      PROVE  LagInv'
  <2>1. Lagging' = Lagging /\ Pending' = {} /\ Pending = {}
    BY <1>1, <1>3, PendingCases DEF Lagging, Pending
  <2> QED BY <1>3, <2>1 DEF LagInv
<1>4. ASSUME NEW n \in Names, NEW size \in Sizes, write_begin(n, size)
      PROVE  LagInv'
  <2>1. UNCHANGED <<fat1, fat2, crashes>> /\ op.pc = "idle" /\ op'.pc \in {"idle", "alloc"}
    BY <1>2, <1>4 DEF write_begin, disk
  <2> QED BY <1>3, <2>1
<1>5. CASE write_alloc
  <2>1. op \in Ops /\ op.pc = "alloc"
    BY <1>5, InProgress DEF write_alloc, Fat16TypeOK, Writing
  <2>2. PICK c \in Clusters :
            IF op.i = 0
            THEN /\ fat1' = [fat1 EXCEPT ![c] = EOC]
                 /\ op' = [op EXCEPT !.pc = "mark2", !.first = c, !.free_c = c]
            ELSE /\ fat1' = [fat1 EXCEPT ![op.prev] = c]
                 /\ op' = [op EXCEPT !.pc = "link2", !.free_c = c]
    BY <1>5 DEF write_alloc
  <2>3. PICK x : Pending' = {x} /\ \A d \in Clusters : d # x => fat1'[d] = fat1[d]
    <3>1. CASE op.i = 0
      <4>1. op'.pc = "mark2" /\ op'.free_c = c
        BY <2>1, <2>2, <3>1 DEF Ops
      <4> QED BY <2>2, <3>1, <4>1 DEF Pending, Fat16TypeOK
    <3>2. CASE op.i # 0
      <4>1. op'.pc = "link2" /\ op'.prev = op.prev
        BY <2>1, <2>2, <3>2 DEF Ops
      <4> QED BY <2>2, <3>2, <4>1 DEF Pending, Fat16TypeOK
    <3> QED BY <3>1, <3>2
  <2>4. UNCHANGED <<fat2, crashes>>
    BY <1>5 DEF write_alloc, rest
  <2>5. Lagging' \ Pending' \subseteq Lagging \ Pending
    BY <1>1, <2>1, <2>3, <2>4, PendingCases DEF Lagging
  <2> QED BY <2>4, <2>5, LagShrinks DEF LagInv
<1>6. CASE write_link2
  <2>1. op \in Ops /\ op.pc = "link2" /\ op'.pc = "mark1"
    BY <1>6, InProgress DEF write_link2, Fat16TypeOK, Writing, Ops
  <2>2. Lagging' \subseteq Lagging \ {op.prev}
    BY <1>0, <1>6, CopyCatchesUp DEF write_link2
  <2>3. Pending = {op.prev} /\ Pending' = {}
    BY <2>1 DEF Pending
  <2>4. crashes' = crashes
    BY <1>6 DEF write_link2, rest
  <2> QED BY <2>2, <2>3, <2>4, LagShrinks DEF LagInv
<1>7. CASE write_mark1
  <2>1. op \in Ops /\ op.pc = "mark1" /\ op'.pc = "mark2" /\ op'.free_c = op.free_c
    BY <1>7, InProgress DEF write_mark1, Fat16TypeOK, Writing, Ops
  <2>2. Pending = {} /\ Pending' = {op.free_c}
    BY <2>1 DEF Pending
  <2>3. UNCHANGED <<fat2, crashes>> /\ \A d \in Clusters : d # op.free_c => fat1'[d] = fat1[d]
    BY <1>7 DEF write_mark1, rest, Fat16TypeOK
  <2>4. Lagging' \ Pending' \subseteq Lagging \ Pending
    BY <1>1, <2>2, <2>3 DEF Lagging
  <2> QED BY <2>3, <2>4, LagShrinks DEF LagInv
<1>8. CASE write_mark2
  <2>1. op \in Ops /\ op.pc = "mark2"
    BY <1>8, InProgress DEF write_mark2, Fat16TypeOK, Writing
  <2>2. op'.pc \in {"alloc", "data"}
    BY <1>8, <2>1 DEF write_mark2, Ops
  <2>3. Lagging' \subseteq Lagging \ {op.free_c}
    BY <1>0, <1>8, CopyCatchesUp DEF write_mark2
  <2>4. Pending = {op.free_c} /\ Pending' = {}
    BY <2>1, <2>2 DEF Pending
  <2>5. crashes' = crashes
    BY <1>8 DEF write_mark2, rest
  <2> QED BY <2>3, <2>4, <2>5, LagShrinks DEF LagInv
<1>9. CASE write_data
  <2>1. op \in Ops /\ op.pc = "data"
    BY <1>9, InProgress DEF write_data, Fat16TypeOK, Writing
  <2>2. op'.pc \in {"data", "dir"}
    BY <1>9, <2>1 DEF write_data, Ops
  <2> QED BY <1>3, <1>9, <2>1, <2>2 DEF write_data, rest
<1>10. CASE write_disk_full \/ write_dir \/ write_root_full
  <2>1. UNCHANGED <<fat1, fat2, crashes>> /\ op.pc \in {"alloc", "dir"} /\ op'.pc = "idle"
    BY <1>2, <1>10 DEF write_disk_full, write_dir, write_root_full, rest, disk
  <2> QED BY <1>3, <2>1
<1>11. CASE power_loss
  <2>1. UNCHANGED <<fat1, fat2>> /\ crashes' = crashes + 1 /\ op'.pc = "idle"
    BY <1>2, <1>11 DEF power_loss, disk
  <2>2. Lagging' = Lagging /\ Pending' = {}
    BY <1>1, <2>1 DEF Lagging, Pending
  <2>3. Lagging' \ Pending' = Lagging
    BY <2>2
  <2> QED BY <2>1, <2>3, LagWithPending DEF LagInv
<1> QED BY <1>4, <1>5, <1>6, <1>7, <1>8, <1>9, <1>10, <1>11 DEF Next, WriteStep

\* FAT 2 differs from FAT 1 in at most one entry for each power loss, and one more for
\* the write in progress: fat16_write_fat_entry copies the whole sector, and never leaves
\* an entry behind by itself.
THEOREM MirrorLagThm == Spec => []MirrorLag
<1>1. Init => Fat16TypeOK /\ LagInv
  <2> SUFFICES ASSUME Init PROVE LagInv
    BY Fat16TypesInit
  <2>1. Lagging \ Pending = {}
    BY DEF Init, Lagging
  <2> QED BY <2>1, FS_EmptySet DEF Init, LagInv
<1>2. Fat16TypeOK /\ LagInv /\ [Next]_vars => (Fat16TypeOK /\ LagInv)'
  <2>1. CASE UNCHANGED vars
    BY <2>1 DEF vars, Fat16TypeOK, LagInv, Lagging, Pending, Clusters, Slots, SECTORS_PER_CLUSTER
  <2> QED BY <2>1, Fat16TypesStep, LagStep
<1>3. Fat16TypeOK /\ LagInv => MirrorLag
  <2> SUFFICES ASSUME Fat16TypeOK, LagInv PROVE MirrorLag
    OBVIOUS
  <2>1. CASE op = Idle
    <3>1. Lagging \ Pending = Lagging
      BY <2>1, PendingCases DEF Idle
    <3>2. Cardinality(Lagging) <= crashes /\ crashes \in Nat
      BY <3>1 DEF LagInv, Fat16TypeOK
    <3>3. crashes + (IF op = Idle THEN 0 ELSE 1) = crashes
      BY <2>1, <3>2
    <3> QED BY <3>2, <3>3 DEF MirrorLag, Lagging
  <2>2. CASE op # Idle
    BY <2>2, LagWithPending DEF MirrorLag, Lagging
  <2> QED BY <2>1, <2>2
<1> QED BY <1>1, <1>2, <1>3, PTL DEF Spec

-----------------------------------------------------------------------------
(* Chains.  The invariant names the chain of each file, ch[s] for slot s,  *)
(* and of the write in progress, ch[0].                                    *)

Owners == 0..g_bpb.root_dir_entries

Chains == [Owners -> Seq(Clusters)]

\* The clusters of the write in progress are linked from its first one to the last.
CurLinks(q) ==
    /\ \A i \in 1..(Len(q) - 1) : fat1[q[i]] = q[i + 1]
    /\ Len(q) > 0 => op.first = q[1]

\* How many there are, and how the chain ends, at each step of fat16_write_file.
CurInv(q) ==
    /\ op = Idle => q = <<>>
    /\ op # Idle => CurLinks(q) /\ op.size > 0
    /\ op.pc \in {"alloc", "link2", "mark1", "mark2"} => op.written = 0
    /\ op.pc = "alloc" =>
          /\ Len(q) = op.i /\ op.i < ClustersNeeded(op.size)
          /\ Len(q) > 0 => op.prev = q[Len(q)] /\ fat1[q[Len(q)]] = EOC
    /\ op.pc \in {"link2", "mark1"} =>
          /\ Len(q) = op.i /\ Len(q) > 0 /\ op.i < ClustersNeeded(op.size)
          /\ op.prev = q[Len(q)] /\ fat1[q[Len(q)]] = op.free_c
          /\ op.free_c \in Clusters /\ fat1[op.free_c] = FREE
    /\ op.pc = "mark2" =>
          /\ Len(q) = op.i + 1 /\ op.i < ClustersNeeded(op.size)
          /\ q[Len(q)] = op.free_c /\ fat1[op.free_c] = EOC
    /\ op.pc \in {"data", "dir"} =>
          Len(q) = ClustersNeeded(op.size) /\ Len(q) > 0 /\ fat1[q[Len(q)]] = EOC
    /\ op.pc = "data" =>
          op.written < op.size /\ op.prev = q[(op.written \div SECTORS_PER_CLUSTER) + 1]

\* The sectors that the write in progress has stored.
Stored(q, n) ==
    \A j \in 0..(n - 1) :
        data[<<q[(j \div SECTORS_PER_CLUSTER) + 1], j % SECTORS_PER_CLUSTER>>]
            = [id |-> writes, sector |-> j]

FileInv(ch, s) ==
    /\ root_dir[s].kind # "file" => ch[s] = <<>>
    /\ Live(s) => /\ \A t \in 1..(s - 1) : root_dir[t].kind # "never"
                  /\ IsChain(ch[s], fat1, root_dir[s], SECTORS_PER_CLUSTER)
                  /\ Holds(ch[s], data, root_dir[s], SECTORS_PER_CLUSTER)

\* Without power losses and errors every allocated cluster is in a chain.
NoLeak(ch) ==
    crashes = 0 /\ failures = 0 =>
        \A k \in Clusters : fat1[k] # FREE =>
            \E s \in Owners : \E i \in 1..Len(ch[s]) : k = ch[s][i]

ChainInv(ch) ==
    /\ ch \in Chains /\ Apart(ch)
    /\ \A s \in Slots : FileInv(ch, s)
    /\ CurInv(ch[0])
    /\ op.pc = "data" => Stored(ch[0], op.written)
    /\ op.pc = "dir" => Stored(ch[0], op.size)
    /\ NoLeak(ch)

DiskInv == \E ch : ChainInv(ch)

LEMMA OwnerSets ==
    ASSUME Fat16TypeOK
    PROVE  0 \in Owners /\ Slots \subseteq Owners /\ 0 \notin Slots /\ Owners = {0} \cup Slots
           /\ Slots \subseteq Nat
<1>1. g_bpb.root_dir_entries \in Nat
  BY BpbTypes DEF Fat16TypeOK
<1> QED BY <1>1 DEF Owners, Slots

LEMMA ChainTypes ==
    ASSUME NEW ch, ch \in Chains, NEW s \in Owners
    PROVE  /\ ch[s] \in Seq(Clusters) /\ Len(ch[s]) \in Nat
           /\ \A i \in 1..Len(ch[s]) : ch[s][i] \in Clusters
BY DEF Chains

\* A cluster that is in a chain is not free.
LEMMA OwnedAllocated ==
    ASSUME Fat16TypeOK, NEW ch, ChainInv(ch), NEW s \in Owners, NEW i \in 1..Len(ch[s])
    PROVE  fat1[ch[s][i]] # FREE
<1>1. /\ ch \in Chains /\ FREE \notin Clusters /\ EOC # FREE
      /\ Len(ch[s]) \in Nat /\ \A j \in 1..Len(ch[s]) : ch[s][j] \in Clusters
  BY ClusterNumbers, ChainTypes DEF ChainInv, Fat16TypeOK, EOC, FREE
<1>2. i # Len(ch[s]) => i + 1 \in 1..Len(ch[s]) /\ i \in 1..(Len(ch[s]) - 1)
  BY <1>1
<1>3. CASE s \in Slots
  <2>1. FileInv(ch, s)
    BY <1>3 DEF ChainInv
  <2>2. root_dir[s].kind = "file"
    BY <1>1, <2>1 DEF FileInv
  <2>3. IsChain(ch[s], fat1, root_dir[s], SECTORS_PER_CLUSTER)
    BY <2>1, <2>2 DEF FileInv, Live
  <2>4. fat1[ch[s][i]] = IF i = Len(ch[s]) THEN EOC ELSE ch[s][i + 1]
    BY <2>3 DEF IsChain
  <2> QED BY <1>1, <1>2, <2>4
<1>4. CASE s = 0
  <2>1. CurInv(ch[0])
    BY DEF ChainInv
  <2>2. PICK q : q = ch[0] /\ CurInv(q) /\ q # <<>> /\ q = ch[s]
    BY <1>1, <1>4, <2>1
  <2>3. op \in Ops /\ op # Idle
    BY <2>2 DEF CurInv, Fat16TypeOK
  <2>4. CASE i # Len(q)
    <3>1. fat1[q[i]] = q[i + 1]
      BY <1>2, <2>2, <2>3, <2>4 DEF CurInv, CurLinks
    <3> QED BY <1>1, <1>2, <2>2, <2>4, <3>1
  <2>5. CASE i = Len(q)
    <3>1. op.pc \in Writing
      BY <2>3 DEF Ops
    <3>2. Len(q) > 0
      BY <1>1, <2>2, <2>5
    <3>3. fat1[q[Len(q)]] \in Clusters \cup {EOC}
      BY <2>2, <3>1, <3>2 DEF CurInv, Writing
    <3> QED BY <1>1, <2>2, <2>5, <3>3
  <2> QED BY <2>4, <2>5
<1> QED BY <1>3, <1>4, OwnerSets

\* Sector j of a file is in one of its clusters.
LEMMA ClusterIndex ==
    ASSUME NEW n \in Nat \ {0}, NEW size \in Nat, NEW j \in 0..(size - 1)
    PROVE  (j \div n) + 1 \in 1..((size + n - 1) \div n) /\ j % n \in 0..(n - 1)
<1>1. PICK a \in Nat, r \in 0..(n - 1) : a = j \div n /\ r = j % n /\ j = a * n + r
  BY DivMod
<1>2. PICK m \in Nat : m = size + n - 1
  OBVIOUS
<1>3. PICK b \in Nat, t \in 0..(n - 1) : b = m \div n /\ m = b * n + t
  BY <1>2, DivMod
<1>4. PICK x \in Nat, y \in Nat : x = a * n /\ y = b * n
  OBVIOUS
<1>5. x < y
  BY <1>1, <1>2, <1>3, <1>4
<1>6. a < b
  BY <1>4, <1>5, MulLess
<1> QED BY <1>1, <1>2, <1>3, <1>6

LEMMA NeededPositive ==
    ASSUME NEW n \in Nat \ {0}, NEW size \in Nat
    PROVE  (size + n - 1) \div n \in Nat /\ ((size + n - 1) \div n > 0 <=> size > 0)
<1>1. PICK m \in Nat : m = size + n - 1
  OBVIOUS
<1>2. PICK b \in Nat, t \in 0..(n - 1) : b = m \div n /\ m = b * n + t
  BY <1>1, DivMod
<1>3. CASE b = 0
  BY <1>1, <1>2, <1>3
<1>4. CASE b > 0
  <2>1. 1 * n <= b * n
    BY <1>4, MulAtMost
  <2>2. PICK y \in Nat : y = b * n /\ n <= y
    BY <2>1
  <2> QED BY <1>1, <1>2, <1>4, <2>2
<1> QED BY <1>2, <1>3, <1>4

\* Files keep their chains and their data when the step touches neither.
LEMMA FilesKept ==
    ASSUME Fat16TypeOK, NEW ch, ChainInv(ch), NEW ch2,
           \A s \in Slots : ch2[s] = ch[s],
           UNCHANGED <<g_bpb, root_dir>>,
           \A s \in Slots : \A i \in 1..Len(ch[s]) :
               /\ fat1'[ch[s][i]] = fat1[ch[s][i]]
               /\ \A x \in 0..(SECTORS_PER_CLUSTER - 1) :
                     data'[<<ch[s][i], x>>] = data[<<ch[s][i], x>>],
           NEW s \in Slots
    PROVE  FileInv(ch2, s)'
<1>1. SECTORS_PER_CLUSTER' = SECTORS_PER_CLUSTER /\ Live(s)' = Live(s)
  BY DEF SECTORS_PER_CLUSTER, Live
<1>2. FileInv(ch, s) /\ ch2[s] = ch[s]
  BY DEF ChainInv
<1>3. CASE ~Live(s)
  BY <1>1, <1>2, <1>3 DEF FileInv, Live
<1>4. CASE Live(s)
  <2> DEFINE q == ch[s]
             e == root_dir[s]
             n == SECTORS_PER_CLUSTER
  <2>1. IsChain(q, fat1, e, n) /\ Holds(q, data, e, n)
    BY <1>2, <1>4 DEF FileInv
  <2>2. n \in Nat \ {0} /\ e.size \in Nat
    <3>1. e \in Entries /\ e.kind = "file"
      BY <1>4 DEF Fat16TypeOK, Live
    <3>2. e \in [kind : {"file"}, name : Names, first : Nat, size : Nat, id : Nat]
      BY <3>1 DEF Entries, NeverUsed, Deleted, LongName
    <3> QED BY <3>2, ClusterNumbers DEF Fat16TypeOK
  <2>3. IsChain(q, fat1', e, n)
    BY <2>1 DEF IsChain
  <2>4. ASSUME NEW j \in 0..(e.size - 1)
        PROVE  data'[<<q[(j \div n) + 1], j % n>>] = [id |-> e.id, sector |-> j]
    <3>1. (j \div n) + 1 \in 1..((e.size + n - 1) \div n) /\ j % n \in 0..(n - 1)
      BY <2>2, ClusterIndex
    <3>2. PICK i, x : i = (j \div n) + 1 /\ x = j % n
      OBVIOUS
    <3>3. i \in 1..Len(q) /\ x \in 0..(n - 1)
      BY <2>1, <3>1, <3>2 DEF IsChain
    <3>4. data[<<q[i], x>>] = [id |-> e.id, sector |-> j]
      BY <2>1, <3>2 DEF Holds
    <3>5. data'[<<q[i], x>>] = data[<<q[i], x>>]
      BY <3>3
    <3> QED BY <3>2, <3>4, <3>5
  <2>5. Holds(q, data', e, n)
    BY <2>4 DEF Holds
  <2>6. root_dir' = root_dir
    OBVIOUS
  <2> HIDE DEF q, e, n
  <2>7. ch2[s] = q /\ root_dir'[s] = e /\ SECTORS_PER_CLUSTER' = n
    BY <1>1, <1>2, <2>6 DEF q, e, n
  <2> QED BY <1>1, <1>2, <1>4, <2>3, <2>5, <2>6, <2>7 DEF FileInv, Live
<1> QED BY <1>3, <1>4

\* The chain of the write in progress with one more cluster.
Grown(ch, k) == [s \in Owners |-> IF s = 0 THEN Append(ch[0], k) ELSE ch[s]]

\* The chain of the write in progress grows by a cluster that is in no chain.
LEMMA ChainGrows ==
    ASSUME Fat16TypeOK, NEW ch, ch \in Chains, Apart(ch), NEW k \in Clusters,
           \A s \in Owners : \A i \in 1..Len(ch[s]) : ch[s][i] # k,
           NEW ch2, ch2 = Grown(ch, k)
    PROVE  /\ ch2 \in Chains /\ Apart(ch2)
           /\ ch2[0] = Append(ch[0], k) /\ \A s \in Slots : ch2[s] = ch[s]
           /\ Len(ch2[0]) = Len(ch[0]) + 1 /\ ch2[0][Len(ch[0]) + 1] = k
           /\ \A i \in 1..Len(ch[0]) : ch2[0][i] = ch[0][i]
<1>1. 0 \in Owners /\ Slots \subseteq Owners /\ 0 \notin Slots /\ Owners = {0} \cup Slots
  BY OwnerSets
<1>2. DOMAIN ch = Owners /\ DOMAIN ch2 = Owners
  BY DEF Chains, Grown
<1>3. ch[0] \in Seq(Clusters) /\ Len(ch[0]) \in Nat
  BY <1>1, ChainTypes
<1>4. ch2[0] = Append(ch[0], k) /\ \A s \in Slots : ch2[s] = ch[s]
  BY <1>1, <1>2 DEF Grown
<1>5. PICK q, L : q = ch[0] /\ L = Len(q)
  OBVIOUS
<1>6. /\ Append(q, k) \in Seq(Clusters) /\ Len(Append(q, k)) = L + 1
      /\ Append(q, k)[L + 1] = k /\ \A i \in 1..L : Append(q, k)[i] = q[i]
  BY <1>3, <1>5
<1>7. ch2 \in Chains
  BY <1>4, <1>5, <1>6 DEF Chains, Grown
<1>8. ASSUME NEW s \in Owners, NEW t \in Owners,
             NEW i \in 1..Len(ch2[s]), NEW j \in 1..Len(ch2[t]), ch2[s][i] = ch2[t][j]
      PROVE  s = t /\ i = j
  <2>1. \A u \in Owners : \A m \in 1..Len(ch2[u]) :
            \/ m \in 1..Len(ch[u]) /\ ch2[u][m] = ch[u][m]
            \/ u = 0 /\ m = L + 1 /\ ch2[u][m] = k
    <3>1. ASSUME NEW u \in Slots, NEW m \in 1..Len(ch2[u])
          PROVE  m \in 1..Len(ch[u]) /\ ch2[u][m] = ch[u][m]
      BY <1>4
    <3>2. ASSUME NEW m \in 1..Len(ch2[0])
          PROVE  \/ m \in 1..Len(ch[0]) /\ ch2[0][m] = ch[0][m]
                 \/ m = L + 1 /\ ch2[0][m] = k
      <4>1. m \in 1..(L + 1) /\ L \in Nat
        BY <1>3, <1>4, <1>5, <1>6
      <4>2. m \in 1..L \/ m = L + 1
        BY <4>1
      <4> QED BY <1>4, <1>5, <1>6, <4>2
    <3> QED BY <1>1, <3>1, <3>2
  <2>2. CASE i \in 1..Len(ch[s]) /\ ch2[s][i] = ch[s][i] /\ j \in 1..Len(ch[t]) /\ ch2[t][j] = ch[t][j]
    <3>1. ch[s][i] = ch[t][j] /\ s \in DOMAIN ch /\ t \in DOMAIN ch
      BY <1>2, <1>8, <2>2
    <3> QED BY <2>2, <3>1 DEF Apart
  <2>3. CASE s = 0 /\ i = L + 1 /\ ch2[s][i] = k
    <3>1. ch[t][j] # k \/ j \notin 1..Len(ch[t])
      OBVIOUS
    <3>2. t = 0 /\ j = L + 1
      BY <1>8, <2>1, <2>3, <3>1
    <3> QED BY <2>3, <3>2
  <2>4. CASE t = 0 /\ j = L + 1 /\ ch2[t][j] = k
    <3>1. ch[s][i] # k \/ i \notin 1..Len(ch[s])
      OBVIOUS
    <3>2. s = 0 /\ i = L + 1
      BY <1>8, <2>1, <2>4, <3>1
    <3> QED BY <2>4, <3>2
  <2> QED BY <2>1, <2>2, <2>3, <2>4
<1>9. Apart(ch2)
  BY <1>2, <1>8 DEF Apart
<1> QED BY <1>4, <1>5, <1>6, <1>7, <1>9

\* The write in progress is forgotten, or its chain goes to a slot that had none.
LEMMA ChainMoves ==
    ASSUME Fat16TypeOK, NEW ch, ch \in Chains, Apart(ch), NEW u \in Owners, NEW q,
           \/ u # 0 /\ ch[u] = <<>> /\ q = ch[0]
           \/ u = 0 /\ q = <<>>,
           NEW ch2, ch2 = [s \in Owners |-> IF s = u THEN q ELSE IF s = 0 THEN <<>> ELSE ch[s]]
    PROVE  ch2 \in Chains /\ Apart(ch2)
<1>1. 0 \in Owners
  BY OwnerSets
<1>2. DOMAIN ch = Owners /\ DOMAIN ch2 = Owners /\ \A s \in Owners : ch[s] \in Seq(Clusters)
  BY DEF Chains
<1>3. <<>> \in Seq(Clusters) /\ Len(<<>>) = 0 /\ \A i : i \notin 1..0
  OBVIOUS
<1>4. ch2 \in Chains
  BY <1>1, <1>2, <1>3 DEF Chains
<1>5. PICK from : from = [s \in Owners |-> IF s = u THEN 0 ELSE s]
  OBVIOUS
<1>6. \A s \in Owners : \A i \in 1..Len(ch2[s]) :
          /\ from[s] \in Owners /\ i \in 1..Len(ch[from[s]]) /\ ch2[s][i] = ch[from[s]][i]
          /\ s # u => s # 0 /\ from[s] = s
          /\ s = u => from[s] = 0
  <2>1. ASSUME NEW s \in Owners, NEW i \in 1..Len(ch2[s])
        PROVE  /\ from[s] \in Owners /\ i \in 1..Len(ch[from[s]]) /\ ch2[s][i] = ch[from[s]][i]
               /\ s # u => s # 0 /\ from[s] = s
               /\ s = u => from[s] = 0
    <3>1. ch2[s] # <<>>
      BY <1>3, <2>1
    <3>2. CASE s = u
      <4>1. ch2[s] = q
        BY <3>2
      <4>2. q = ch[0] /\ from[s] = 0
        BY <1>5, <3>1, <3>2, <4>1
      <4> QED BY <1>1, <3>2, <4>1, <4>2
    <3>3. CASE s # u
      <4>1. s # 0 /\ ch2[s] = ch[s] /\ from[s] = s
        BY <1>5, <3>1, <3>3
      <4> QED BY <3>3, <4>1
    <3> QED BY <3>2, <3>3
  <2> QED BY <2>1
<1>7. ASSUME NEW s \in Owners, NEW t \in Owners,
             NEW i \in 1..Len(ch2[s]), NEW j \in 1..Len(ch2[t]), ch2[s][i] = ch2[t][j]
      PROVE  s = t /\ i = j
  <2>1. from[s] = from[t] /\ i = j
    BY <1>2, <1>6, <1>7 DEF Apart
  <2> QED BY <1>6, <2>1
<1> QED BY <1>2, <1>4, <1>7 DEF Apart

LEMMA GeometryKept ==
    ASSUME g_bpb' = g_bpb
    PROVE  /\ Clusters' = Clusters /\ Slots' = Slots /\ Owners' = Owners /\ Chains' = Chains
           /\ SECTORS_PER_CLUSTER' = SECTORS_PER_CLUSTER
           /\ \A size : ClustersNeeded(size)' = ClustersNeeded(size)
BY DEF Clusters, Slots, Owners, Chains, SECTORS_PER_CLUSTER, ClustersNeeded

\* The length of the chain that a write needs.
LEMMA NeededFor ==
    ASSUME Fat16TypeOK, NEW size \in Nat
    PROVE  ClustersNeeded(size) \in Nat /\ (ClustersNeeded(size) > 0 <=> size > 0)
<1>1. PICK n \in Nat \ {0} : n = SECTORS_PER_CLUSTER
  BY ClusterNumbers DEF Fat16TypeOK
<1> QED BY <1>1, NeededPositive DEF ClustersNeeded

\* A step that only moves the write along.
LEMMA OnlyOpChanges ==
    ASSUME Fat16TypeOK, NEW ch, ChainInv(ch),
           UNCHANGED <<g_bpb, fat1, root_dir, data, crashes, failures>>,
           CurInv(ch[0])', op'.pc = "data" => Stored(ch[0], op.written)',
           op'.pc # "dir"
    PROVE  ChainInv(ch)'
<1>1. Slots' = Slots /\ Chains' = Chains /\ Owners' = Owners /\ Clusters' = Clusters
  BY GeometryKept
<1>2. \A s \in Slots : FileInv(ch, s)'
  BY FilesKept
<1>3. NoLeak(ch)'
  BY <1>1 DEF ChainInv, NoLeak
<1> QED BY <1>1, <1>2, <1>3 DEF ChainInv

\* fat16_write_file is called.
LEMMA BeginKeepsChains ==
    ASSUME Fat16TypeOK, NEW ch, ChainInv(ch), NEW n \in Names, NEW size \in Sizes,
           write_begin(n, size)
    PROVE  ChainInv(ch)'
<1>1. op = Idle /\ UNCHANGED <<g_bpb, fat1, root_dir, data, crashes, failures>>
  BY DEF write_begin, disk
<1>2. ch[0] = <<>> /\ Len(<<>>) = 0
  BY <1>1 DEF ChainInv, CurInv
<1>3. size \in Nat /\ ClustersNeeded(size)' = ClustersNeeded(size)
  BY <1>1, Fat16Assumption, GeometryKept
<1>4. ClustersNeeded(size) \in Nat /\ (ClustersNeeded(size) > 0 <=> size > 0)
  BY <1>3, NeededFor
<1>5. CASE ClustersNeeded(size) = 0
  <2>1. op' = Idle
    BY <1>5 DEF write_begin
  <2>2. CurInv(<<>>)'
    BY <1>2, <2>1 DEF CurInv, Idle
  <2> QED BY <1>1, <1>2, <2>1, <2>2, OnlyOpChanges DEF Idle
<1>6. CASE ClustersNeeded(size) # 0
  <2>1. /\ op'.pc = "alloc" /\ op'.size = size /\ op'.i = 0 /\ op'.written = 0
    BY <1>6 DEF write_begin
  <2>2. CurLinks(<<>>)'
    BY <1>2 DEF CurLinks
  <2>3. op' # Idle
    BY <2>1 DEF Idle
  <2>4. CurInv(<<>>)'
    BY <1>2, <1>3, <1>4, <1>6, <2>1, <2>2, <2>3 DEF CurInv
  <2> QED BY <1>1, <1>2, <2>1, <2>4, OnlyOpChanges
<1> QED BY <1>5, <1>6

\* fat16_write_file returns, or the power fails: what it had allocated is in no chain.
LEMMA EndKeepsChains ==
    ASSUME Fat16TypeOK, NEW ch, ChainInv(ch),
           UNCHANGED <<g_bpb, fat1, root_dir, data>>, op' = Idle,
           crashes' + failures' > 0, crashes' \in Nat, failures' \in Nat
    PROVE  DiskInv'
<1>1. /\ Slots' = Slots /\ Chains' = Chains /\ Owners' = Owners /\ 0 \in Owners
      /\ Slots \subseteq Owners /\ 0 \notin Slots
  BY GeometryKept, OwnerSets
<1>2. PICK ch2 : ch2 = [s \in Owners |-> IF s = 0 THEN <<>> ELSE IF s = 0 THEN <<>> ELSE ch[s]]
  OBVIOUS
<1>3. ch2 \in Chains /\ Apart(ch2)
  BY <1>1, <1>2, ChainMoves DEF ChainInv
<1>4. ch2[0] = <<>> /\ \A s \in Slots : ch2[s] = ch[s]
  BY <1>1, <1>2
<1>5. \A s \in Slots : FileInv(ch2, s)'
  BY <1>4, FilesKept
<1>6. CurInv(<<>>)' /\ op'.pc \notin {"data", "dir"}
  BY DEF CurInv, Idle
<1>7. NoLeak(ch2)'
  BY DEF NoLeak
<1>8. ChainInv(ch2)'
  BY <1>1, <1>3, <1>4, <1>5, <1>6, <1>7 DEF ChainInv
<1> QED BY <1>8 DEF DiskInv

\* FAT 2 follows after a link.
LEMMA Link2KeepsChains ==
    ASSUME Fat16TypeOK, NEW ch, ChainInv(ch), write_link2
    PROVE  ChainInv(ch)'
<1>1. op \in Ops /\ op.pc = "link2" /\ op # Idle
  BY InProgress DEF write_link2, Fat16TypeOK, Writing
<1>2. UNCHANGED <<g_bpb, fat1, root_dir, data, crashes, failures>>
  BY DEF write_link2, rest
<1>3. /\ op'.pc = "mark1" /\ op'.size = op.size /\ op'.i = op.i /\ op'.prev = op.prev
      /\ op'.free_c = op.free_c /\ op'.first = op.first /\ op' # Idle
      /\ op'.written = op.written
  BY <1>1 DEF write_link2, Ops, Idle
<1>4. PICK q : q = ch[0] /\ CurInv(q)
  BY DEF ChainInv
<1>5. CurLinks(q)'
  BY <1>1, <1>2, <1>3, <1>4 DEF CurInv, CurLinks
<1>6. ClustersNeeded(op.size)' = ClustersNeeded(op.size) /\ Clusters' = Clusters
  BY <1>2, <1>3, GeometryKept DEF ClustersNeeded
<1>7. CurInv(q)'
  BY <1>1, <1>2, <1>3, <1>4, <1>5, <1>6 DEF CurInv
<1> QED BY <1>2, <1>3, <1>4, <1>7, OnlyOpChanges

\* A free cluster is in no chain.
LEMMA FreeNotOwned ==
    ASSUME Fat16TypeOK, NEW ch, ChainInv(ch), NEW k \in Clusters, fat1[k] = FREE
    PROVE  \A s \in Owners : \A i \in 1..Len(ch[s]) : ch[s][i] # k
BY OwnedAllocated

\* A free cluster is marked as the end of the chain that the write in progress has: the
\* files are not disturbed, and no cluster is lost.
LEMMA ChainExtended ==
    ASSUME Fat16TypeOK, NEW ch, ChainInv(ch), NEW c \in Clusters, fat1[c] = FREE,
           fat1'[c] = EOC, \A k \in Clusters : k # c => fat1'[k] = fat1[k],
           UNCHANGED <<g_bpb, root_dir, data, crashes, failures>>,
           NEW ch2, ch2 = Grown(ch, c)
    PROVE  /\ ch2 \in Chains' /\ Apart(ch2) /\ NoLeak(ch2)'
           /\ \A s \in Slots' : FileInv(ch2, s)'
           /\ Len(ch2[0]) = Len(ch[0]) + 1 /\ ch2[0][Len(ch[0]) + 1] = c
           /\ \A i \in 1..Len(ch[0]) : ch2[0][i] = ch[0][i]
<1>1. /\ Slots' = Slots /\ Chains' = Chains /\ Owners' = Owners /\ Clusters' = Clusters
      /\ 0 \in Owners /\ Slots \subseteq Owners /\ 0 \notin Slots /\ Owners = {0} \cup Slots
  BY GeometryKept, OwnerSets
<1>2. ch \in Chains /\ Apart(ch)
  BY DEF ChainInv
<1>3. \A s \in Owners : \A i \in 1..Len(ch[s]) : ch[s][i] # c
  BY FreeNotOwned
<1>4. /\ ch2 \in Chains /\ Apart(ch2) /\ \A s \in Slots : ch2[s] = ch[s]
      /\ Len(ch2[0]) = Len(ch[0]) + 1 /\ ch2[0][Len(ch[0]) + 1] = c
      /\ \A i \in 1..Len(ch[0]) : ch2[0][i] = ch[0][i]
  BY <1>2, <1>3, ChainGrows
<1>5. fat1'[c] = EOC /\ \A k \in Clusters : k # c => fat1'[k] = fat1[k]
  OBVIOUS
<1>6. ASSUME NEW s \in Slots PROVE FileInv(ch2, s)'
  <2>1. \A t \in Slots : \A i \in 1..Len(ch[t]) : ch[t][i] \in Clusters /\ ch[t][i] # c
    BY <1>1, <1>2, <1>3, ChainTypes
  <2>2. \A t \in Slots : \A i \in 1..Len(ch[t]) : fat1'[ch[t][i]] = fat1[ch[t][i]]
    BY <1>5, <2>1
  <2> QED BY <1>4, <2>2, FilesKept
<1>7. NoLeak(ch2)'
  <2> SUFFICES ASSUME crashes = 0, failures = 0, NEW k \in Clusters, fat1'[k] # FREE
               PROVE  \E s \in Owners : \E i \in 1..Len(ch2[s]) : k = ch2[s][i]
    BY <1>1 DEF NoLeak
  <2>1. Len(ch[0]) \in Nat
    BY <1>1, <1>2, ChainTypes
  <2>2. CASE k = c
    <3>1. Len(ch[0]) + 1 \in 1..Len(ch2[0])
      BY <1>4, <2>1
    <3> QED BY <1>1, <1>4, <2>2, <3>1
  <2>3. CASE k # c
    <3>1. PICK s \in Owners : \E i \in 1..Len(ch[s]) : k = ch[s][i]
      BY <1>5, <2>3 DEF ChainInv, NoLeak
    <3>2. PICK i \in 1..Len(ch[s]) : k = ch[s][i]
      BY <3>1
    <3>3. CASE s \in Slots
      BY <1>4, <3>2, <3>3
    <3>4. CASE s = 0
      <4>1. i \in 1..Len(ch2[0])
        BY <1>4, <2>1, <3>4
      <4> QED BY <1>1, <1>4, <3>2, <3>4, <4>1
    <3> QED BY <1>1, <3>3, <3>4
  <2> QED BY <2>2, <2>3
<1> QED BY <1>1, <1>4, <1>5, <1>6, <1>7

\* The first cluster of a chain.
LEMMA FirstAllocKeepsChains ==
    ASSUME Fat16TypeOK, NEW ch, ChainInv(ch), op.pc = "alloc", op.i = 0,
           NEW c \in Clusters, fat1[c] = FREE,
           fat1'[c] = EOC, \A k \in Clusters : k # c => fat1'[k] = fat1[k],
           op' = [op EXCEPT !.pc = "mark2", !.first = c, !.free_c = c],
           UNCHANGED <<g_bpb, root_dir, data, crashes, failures>>
    PROVE  DiskInv'
<1>1. op \in Ops /\ op # Idle
  BY InProgress DEF Fat16TypeOK, Writing
<1>2. /\ op'.pc = "mark2" /\ op'.first = c /\ op'.free_c = c /\ op'.i = 0 /\ op'.size = op.size
      /\ op'.written = op.written /\ op' # Idle
  BY <1>1 DEF Ops, Idle
<1>3. ClustersNeeded(op.size)' = ClustersNeeded(op.size)
  BY <1>2, GeometryKept DEF ClustersNeeded
<1>4. Len(ch[0]) = 0 /\ Len(ch[0]) + 1 = 1
  BY DEF ChainInv, CurInv
<1>5. PICK ch2 : ch2 = Grown(ch, c)
  OBVIOUS
<1>6. /\ ch2 \in Chains' /\ Apart(ch2) /\ NoLeak(ch2)'
      /\ \A s \in Slots' : FileInv(ch2, s)'
      /\ Len(ch2[0]) = Len(ch[0]) + 1 /\ ch2[0][Len(ch[0]) + 1] = c
  BY <1>5, ChainExtended
<1>7. CurInv(ch2[0])'
  <2>1. PICK q : q = ch2[0] /\ Len(q) = 1 /\ q[1] = c
    BY <1>4, <1>6
  <2>2. CurLinks(q)'
    BY <1>2, <2>1 DEF CurLinks
  <2>3. op.size > 0 /\ op.written = 0 /\ op.i < ClustersNeeded(op.size)
    BY <1>1 DEF ChainInv, CurInv
  <2>4. op'.i < ClustersNeeded(op.size)'
    BY <1>2, <1>3, <2>3
  <2> QED BY <1>2, <1>6, <2>1, <2>2, <2>3, <2>4 DEF CurInv
<1>8. ChainInv(ch2)'
  BY <1>2, <1>6, <1>7 DEF ChainInv
<1> QED BY <1>8 DEF DiskInv

\* A later cluster is linked to the last one, in FAT 1.
LEMMA NextAllocKeepsChains ==
    ASSUME Fat16TypeOK, NEW ch, ChainInv(ch), op.pc = "alloc", op.i # 0,
           NEW c \in Clusters, fat1[c] = FREE, fat1' = [fat1 EXCEPT ![op.prev] = c],
           op' = [op EXCEPT !.pc = "link2", !.free_c = c],
           UNCHANGED <<g_bpb, root_dir, data, crashes, failures>>
    PROVE  DiskInv'
<1>1. op \in Ops /\ op # Idle
  BY InProgress DEF Fat16TypeOK, Writing
<1>2. /\ op'.pc = "link2" /\ op'.first = op.first /\ op'.free_c = c /\ op'.i = op.i
      /\ op'.size = op.size /\ op'.prev = op.prev /\ op'.written = op.written /\ op' # Idle
  BY <1>1 DEF Ops, Idle
<1>3. /\ Slots' = Slots /\ Chains' = Chains /\ Owners' = Owners /\ Clusters' = Clusters
      /\ ClustersNeeded(op.size)' = ClustersNeeded(op.size)
      /\ 0 \in Owners /\ Slots \subseteq Owners /\ 0 \notin Slots
  BY <1>2, GeometryKept, OwnerSets DEF ClustersNeeded
<1>4. PICK q, L : q = ch[0] /\ L = Len(q) /\ CurInv(q)
  BY DEF ChainInv
<1>5. ch \in Chains /\ Apart(ch) /\ DOMAIN ch = Owners /\ L \in Nat /\ \A i \in 1..L : q[i] \in Clusters
  BY <1>3, <1>4, ChainTypes DEF ChainInv, Chains
<1>6. L = op.i /\ L > 0 /\ L \in 1..L /\ op.prev = q[L] /\ fat1[q[L]] = EOC
      /\ op.i < ClustersNeeded(op.size)
  BY <1>1, <1>4, <1>5 DEF CurInv
<1>7. fat1'[q[L]] = c /\ \A k \in Clusters : k # q[L] => fat1'[k] = fat1[k]
  BY <1>5, <1>6 DEF Fat16TypeOK
<1>8. ASSUME NEW s \in Slots PROVE FileInv(ch, s)'
  <2>1. ASSUME NEW t \in Slots, NEW i \in 1..Len(ch[t])
        PROVE  ch[t][i] \in Clusters /\ ch[t][i] # q[L]
    BY <1>3, <1>4, <1>5, <1>6, ChainTypes DEF Apart
  <2>2. \A t \in Slots : \A i \in 1..Len(ch[t]) : fat1'[ch[t][i]] = fat1[ch[t][i]]
    BY <1>7, <2>1
  <2> QED BY <2>2, FilesKept
<1>9. CurInv(q)'
  <2>1. ASSUME NEW i \in 1..(L - 1) PROVE fat1'[q[i]] = q[i + 1]
    <3>1. i \in 1..L /\ i # L
      BY <1>5
    <3>2. q[i] # q[L] /\ q[i] \in Clusters
      <4>1. i \in 1..Len(ch[0]) /\ L \in 1..Len(ch[0]) /\ 0 \in DOMAIN ch
        BY <1>3, <1>4, <1>5, <1>6, <3>1
      <4>2. ch[0][i] = ch[0][L] => i = L
        BY <1>5, <4>1 DEF Apart
      <4> QED BY <1>4, <1>5, <3>1, <4>2
    <3>3. fat1[q[i]] = q[i + 1]
      BY <1>1, <1>4 DEF CurInv, CurLinks
    <3> QED BY <1>7, <3>2, <3>3
  <2>2. CurLinks(q)'
    BY <1>1, <1>2, <1>4, <2>1 DEF CurLinks, CurInv
  <2>3. op.size > 0 /\ op.written = 0
    BY <1>1, <1>4 DEF CurInv
  <2>4. op'.i < ClustersNeeded(op.size)'
    BY <1>2, <1>3, <1>6
  <2>5. fat1'[c] = FREE
    <3>1. c # q[L]
      BY <1>6 DEF FREE, EOC
    <3> QED BY <1>7, <3>1
  <2> QED BY <1>2, <1>3, <1>4, <1>6, <1>7, <2>2, <2>3, <2>4, <2>5 DEF CurInv
<1>10. NoLeak(ch)'
  <2> SUFFICES ASSUME crashes = 0, failures = 0, NEW k \in Clusters, fat1'[k] # FREE
               PROVE  \E s \in Owners : \E i \in 1..Len(ch[s]) : k = ch[s][i]
    BY <1>3 DEF NoLeak
  <2>1. fat1[k] # FREE
    BY <1>6, <1>7 DEF FREE, EOC
  <2> QED BY <2>1 DEF ChainInv, NoLeak
<1>11. ChainInv(ch)'
  BY <1>2, <1>3, <1>4, <1>5, <1>8, <1>9, <1>10 DEF ChainInv
<1> QED BY <1>11 DEF DiskInv

\* The linked cluster becomes the end of the chain, in FAT 1.
LEMMA Mark1KeepsChains ==
    ASSUME Fat16TypeOK, NEW ch, ChainInv(ch), write_mark1
    PROVE  DiskInv'
<1>1. op \in Ops /\ op.pc = "mark1" /\ op # Idle
  BY InProgress DEF write_mark1, Fat16TypeOK, Writing
<1>2. UNCHANGED <<g_bpb, root_dir, data, crashes, failures>>
  BY DEF write_mark1, rest
<1>3. /\ op'.pc = "mark2" /\ op'.size = op.size /\ op'.i = op.i
      /\ op'.free_c = op.free_c /\ op'.first = op.first /\ op' # Idle
      /\ op'.written = op.written
  BY <1>1 DEF write_mark1, Ops, Idle
<1>4. ClustersNeeded(op.size)' = ClustersNeeded(op.size)
  BY <1>2, <1>3, GeometryKept DEF ClustersNeeded
<1>5. PICK q, L, c : q = ch[0] /\ L = Len(q) /\ CurInv(q) /\ c = op.free_c
  BY DEF ChainInv
<1>6. /\ L = op.i /\ L > 0 /\ op.i < ClustersNeeded(op.size) /\ fat1[q[L]] = c
      /\ c \in Clusters /\ fat1[c] = FREE /\ op.written = 0 /\ op.size > 0 /\ op.first = q[1]
      /\ \A i \in 1..(L - 1) : fat1[q[i]] = q[i + 1]
  BY <1>1, <1>5 DEF CurInv, CurLinks
<1>7. PICK ch2 : ch2 = Grown(ch, c)
  OBVIOUS
<1>8. /\ ch2 \in Chains' /\ Apart(ch2) /\ NoLeak(ch2)'
      /\ \A s \in Slots' : FileInv(ch2, s)'
      /\ Len(ch2[0]) = Len(ch[0]) + 1 /\ ch2[0][Len(ch[0]) + 1] = c
      /\ \A i \in 1..Len(ch[0]) : ch2[0][i] = ch[0][i]
      /\ fat1'[c] = EOC /\ \A k \in Clusters : k # c => fat1'[k] = fat1[k]
  <2>1. fat1'[c] = EOC /\ \A k \in Clusters : k # c => fat1'[k] = fat1[k]
    BY <1>5, <1>6 DEF write_mark1, Fat16TypeOK
  <2> QED BY <1>2, <1>6, <1>7, <2>1, ChainExtended
<1>9. L \in Nat /\ \A i \in 1..L : q[i] \in Clusters /\ q[i] # c
  <2>1. ch \in Chains /\ 0 \in Owners
    BY OwnerSets DEF ChainInv
  <2>2. \A i \in 1..Len(ch[0]) : ch[0][i] # c
    BY <1>6, <2>1, FreeNotOwned
  <2> QED BY <1>5, <2>1, <2>2, ChainTypes
<1>10. PICK r : r = ch2[0] /\ Len(r) = L + 1 /\ r[L + 1] = c /\ \A i \in 1..L : r[i] = q[i]
  BY <1>5, <1>8
<1>11. CurInv(r)'
  <2>1. ASSUME NEW i \in 1..L PROVE fat1'[r[i]] = r[i + 1]
    <3>1. fat1'[q[i]] = fat1[q[i]] /\ r[i] = q[i]
      BY <1>8, <1>9, <1>10
    <3>2. CASE i = L
      BY <1>6, <1>10, <3>1, <3>2
    <3>3. CASE i # L
      <4>1. i \in 1..(L - 1) /\ i + 1 \in 1..L
        BY <1>9, <3>3
      <4> QED BY <1>6, <1>10, <3>1, <4>1
    <3> QED BY <3>2, <3>3
  <2>2. 1 \in 1..L /\ Len(r) - 1 = L
    BY <1>6, <1>9, <1>10
  <2>3. CurLinks(r)'
    BY <1>3, <1>6, <1>10, <2>1, <2>2 DEF CurLinks
  <2>4. op'.i < ClustersNeeded(op.size)'
    BY <1>3, <1>4, <1>6
  <2> QED BY <1>3, <1>5, <1>6, <1>8, <1>10, <2>3, <2>4 DEF CurInv
<1>12. ChainInv(ch2)'
  BY <1>3, <1>8, <1>10, <1>11 DEF ChainInv
<1> QED BY <1>12 DEF DiskInv

\* FAT 2 follows; the next cluster is looked for, or the data is written.
LEMMA Mark2KeepsChains ==
    ASSUME Fat16TypeOK, NEW ch, ChainInv(ch), write_mark2
    PROVE  ChainInv(ch)'
<1>1. op \in Ops /\ op.pc = "mark2" /\ op # Idle
  BY InProgress DEF write_mark2, Fat16TypeOK, Writing
<1>2. UNCHANGED <<g_bpb, fat1, root_dir, data, crashes, failures>>
  BY DEF write_mark2, rest
<1>3. PICK q, L, k : q = ch[0] /\ L = Len(q) /\ CurInv(q) /\ k = op.i + 1
  BY DEF ChainInv
<1>4. L \in Nat /\ k \in Nat
  <2>1. ch \in Chains /\ 0 \in Owners
    BY OwnerSets DEF ChainInv
  <2> QED BY <1>1, <1>3, <2>1, ChainTypes DEF Ops
<1>5. /\ L = k /\ op.i < ClustersNeeded(op.size) /\ q[L] = op.free_c /\ fat1[op.free_c] = EOC
      /\ op.written = 0 /\ op.size > 0 /\ CurLinks(q) /\ L > 0 /\ op.first = q[1]
  BY <1>1, <1>3, <1>4 DEF CurInv, CurLinks, Ops
<1>6. CASE k < ClustersNeeded(op.size)
  <2>1. op' = [op EXCEPT !.pc = "alloc", !.i = k, !.prev = op.free_c]
    BY <1>3, <1>6 DEF write_mark2
  <2>2. /\ op'.pc = "alloc" /\ op'.i = k /\ op'.prev = op.free_c /\ op'.size = op.size
        /\ op'.first = op.first /\ op'.written = op.written /\ op' # Idle
    BY <1>1, <2>1 DEF Ops, Idle
  <2>3. ClustersNeeded(op.size)' = ClustersNeeded(op.size)
    BY <1>2, <2>2, GeometryKept DEF ClustersNeeded
  <2>4. CurLinks(q)'
    BY <1>2, <1>5, <2>2 DEF CurLinks
  <2>5. CurInv(q)'
    BY <1>2, <1>3, <1>5, <1>6, <2>2, <2>3, <2>4 DEF CurInv
  <2> QED BY <1>2, <1>3, <2>2, <2>5, OnlyOpChanges
<1>7. CASE ~(k < ClustersNeeded(op.size))
  <2>1. op' = [op EXCEPT !.pc = "data", !.prev = op.first]
    BY <1>3, <1>7 DEF write_mark2
  <2>2. /\ op'.pc = "data" /\ op'.prev = op.first /\ op'.size = op.size
        /\ op'.first = op.first /\ op'.written = 0 /\ op' # Idle
    BY <1>1, <1>5, <2>1 DEF Ops, Idle
  <2>3. ClustersNeeded(op.size)' = ClustersNeeded(op.size)
    BY <1>2, <2>2, GeometryKept DEF ClustersNeeded
  <2>4. L = ClustersNeeded(op.size)
    <3>1. op.size \in Nat /\ op.i \in Nat
      BY <1>1 DEF Ops
    <3>2. PICK m \in Nat : m = ClustersNeeded(op.size)
      BY <3>1, NeededFor
    <3> QED BY <1>3, <1>5, <1>7, <3>1, <3>2
  <2>5. CurLinks(q)'
    BY <1>2, <1>5, <2>2 DEF CurLinks
  <2>6. (0 \div SECTORS_PER_CLUSTER') + 1 = 1
    <3>1. PICK n \in Nat \ {0} : n = SECTORS_PER_CLUSTER /\ n = SECTORS_PER_CLUSTER'
      BY <1>2, ClusterNumbers, GeometryKept DEF Fat16TypeOK
    <3>2. 0 \in 0..(n - 1) /\ 0 = 0 * n + 0
      OBVIOUS
    <3>3. 0 \div n = 0
      BY <3>2, DivUnique
    <3>4. (0 \div n) + 1 = 1
      BY <3>3
    <3> QED BY <3>1, <3>4
  <2>7. CurInv(q)'
    BY <1>2, <1>3, <1>5, <2>2, <2>3, <2>4, <2>5, <2>6 DEF CurInv
  <2>8. Stored(q, op.written)'
    BY <2>2 DEF Stored
  <2> QED BY <1>2, <1>3, <2>2, <2>7, <2>8, OnlyOpChanges
<1> QED BY <1>6, <1>7


\* The next sector is in the same cluster, or the first one of the next cluster.
LEMMA NextSector ==
    ASSUME NEW n \in Nat \ {0}, NEW w \in Nat, NEW v, v = w + 1
    PROVE  v \div n = IF v % n = 0 THEN (w \div n) + 1 ELSE w \div n
<1>1. PICK a \in Nat, x \in 0..(n - 1) : a = w \div n /\ x = w % n /\ w = a * n + x
  BY DivMod
<1>2. CASE x + 1 = n
  <2>1. v = (a + 1) * n + 0 /\ 0 \in 0..(n - 1) /\ a + 1 \in Nat
    BY <1>1, <1>2, MulAtMost
  <2>2. PICK b \in Nat, y \in 0..(n - 1) : b = a + 1 /\ y = 0
    BY <2>1
  <2>3. v = b * n + y
    BY <2>1, <2>2
  <2>4. v \div n = b /\ v % n = y
    BY <2>3, DivUnique
  <2> QED BY <1>1, <2>2, <2>4
<1>3. CASE x + 1 # n
  <2>1. PICK y \in 0..(n - 1) : y = x + 1
    BY <1>3
  <2>2. v = a * n + y
    BY <1>1, <2>1
  <2>3. v \div n = a /\ v % n = y
    BY <2>2, DivUnique
  <2> QED BY <1>1, <2>1, <2>3
<1> QED BY <1>2, <1>3

\* The cluster and the sector in it give back the number of the sector.
LEMMA SectorPlace ==
    ASSUME NEW n \in Nat \ {0}, NEW j \in Nat, NEW w \in Nat,
           j \div n = w \div n, j % n = w % n
    PROVE  j = w
BY DivMod

\* One sector of the data.
LEMMA DataKeepsChains ==
    ASSUME Fat16TypeOK, NEW ch, ChainInv(ch), write_data
    PROVE  ChainInv(ch)'
<1>1. op \in Ops /\ op.pc = "data" /\ op # Idle
  BY InProgress DEF write_data, Fat16TypeOK, Writing
<1>2. UNCHANGED <<g_bpb, fat1, root_dir, crashes, failures, writes>>
  BY DEF write_data, rest
<1>3. /\ Slots' = Slots /\ Chains' = Chains /\ Owners' = Owners /\ Clusters' = Clusters
      /\ SECTORS_PER_CLUSTER' = SECTORS_PER_CLUSTER
      /\ 0 \in Owners /\ Slots \subseteq Owners /\ 0 \notin Slots
  BY <1>2, GeometryKept, OwnerSets
<1>4. PICK q, L, n, w, a, x, v :
          /\ q = ch[0] /\ L = Len(q) /\ CurInv(q) /\ n = SECTORS_PER_CLUSTER
          /\ w = op.written /\ a = w \div n /\ x = w % n /\ v = w + 1
  BY DEF ChainInv
<1>5. /\ ch \in Chains /\ Apart(ch) /\ DOMAIN ch = Owners
      /\ L \in Nat /\ \A i \in 1..L : q[i] \in Clusters
  BY <1>3, <1>4, ChainTypes DEF ChainInv, Chains
<1>6. n \in Nat \ {0} /\ w \in Nat /\ op.size \in Nat
  BY <1>1, <1>4, ClusterNumbers DEF Fat16TypeOK, Ops
<1>7. /\ L = ClustersNeeded(op.size) /\ L > 0 /\ fat1[q[L]] = EOC
      /\ w < op.size /\ op.prev = q[a + 1] /\ op.size > 0
      /\ CurLinks(q)
  BY <1>1, <1>4 DEF CurInv
<1>8. /\ L = (op.size + n - 1) \div n
      /\ \A j \in 0..(op.size - 1) : (j \div n) + 1 \in 1..L /\ j % n \in 0..(n - 1)
  <2>1. L = (op.size + n - 1) \div n
    BY <1>4, <1>7 DEF ClustersNeeded
  <2> QED BY <1>6, <2>1, ClusterIndex
<1>9. a \in Nat /\ a + 1 \in 1..L /\ x \in 0..(n - 1)
  <2>1. w \in 0..(op.size - 1)
    BY <1>6, <1>7
  <2> QED BY <1>4, <1>6, <1>8, <2>1, DivMod
<1>10. /\ data'[<<q[a + 1], x>>] = [id |-> writes, sector |-> w]
       /\ \A k \in Clusters, y \in 0..(n - 1) :
             <<k, y>> # <<q[a + 1], x>> => data'[<<k, y>>] = data[<<k, y>>]
  <2>1. data' = [data EXCEPT ![<<q[a + 1], x>>] = [id |-> writes, sector |-> w]]
    BY <1>4, <1>7 DEF write_data
  <2>2. data \in [Clusters \X (0..(n - 1)) -> Tokens]
    BY <1>4 DEF Fat16TypeOK
  <2> QED BY <1>5, <1>9, <2>1, <2>2
<1>11. \A s \in Slots : FileInv(ch, s)'
  <2>1. ASSUME NEW t \in Slots, NEW i \in 1..Len(ch[t])
        PROVE  ch[t][i] \in Clusters /\ ch[t][i] # q[a + 1]
    BY <1>3, <1>4, <1>5, <1>9, ChainTypes DEF Apart
  <2>2. \A t \in Slots : \A i \in 1..Len(ch[t]) : \A y \in 0..(n - 1) :
            data'[<<ch[t][i], y>>] = data[<<ch[t][i], y>>]
    BY <1>10, <2>1
  <2> QED BY <1>2, <1>4, <2>2, FilesKept
<1>12. Stored(q, v)'
  <2>1. ASSUME NEW j \in 0..(v - 1)
        PROVE  data'[<<q[(j \div n) + 1], j % n>>] = [id |-> writes, sector |-> j]
    <3>1. j \in Nat /\ j \in 0..(op.size - 1) /\ (j = w \/ j \in 0..(w - 1))
      BY <1>4, <1>6, <1>7
    <3>2. PICK b, y : b = j \div n /\ y = j % n
      OBVIOUS
    <3>3. b \in Nat /\ b + 1 \in 1..L /\ y \in 0..(n - 1)
      BY <1>6, <1>8, <3>1, <3>2, DivMod
    <3>4. CASE j = w
      BY <1>4, <1>10, <3>4
    <3>5. CASE j # w
      <4>1. b + 1 # a + 1 \/ y # x
        <5>1. b # a \/ y # x
          BY <1>4, <1>6, <3>1, <3>2, <3>5, SectorPlace
        <5> QED BY <1>9, <3>3, <5>1
      <4>2. b + 1 # a + 1 => q[b + 1] # q[a + 1]
        <5>1. b + 1 \in 1..Len(ch[0]) /\ a + 1 \in 1..Len(ch[0]) /\ 0 \in DOMAIN ch
          BY <1>3, <1>4, <1>5, <1>9, <3>3
        <5> QED BY <1>4, <1>5, <5>1 DEF Apart
      <4>3. q[b + 1] \in Clusters /\ <<q[b + 1], y>> # <<q[a + 1], x>>
        BY <1>5, <3>3, <4>1, <4>2
      <4>4. data'[<<q[b + 1], y>>] = data[<<q[b + 1], y>>]
        BY <1>10, <3>3, <4>3
      <4>5. Stored(q, w)
        BY <1>1, <1>4 DEF ChainInv
      <4>6. data[<<q[b + 1], y>>] = [id |-> writes, sector |-> j]
        BY <1>4, <3>1, <3>2, <3>5, <4>5 DEF Stored
      <4> QED BY <3>2, <4>4, <4>6
    <3> QED BY <3>4, <3>5
  <2> QED BY <1>2, <1>3, <1>4, <2>1 DEF Stored
<1>13. NoLeak(ch)'
  BY <1>2, <1>3 DEF ChainInv, NoLeak
<1>14. CASE v >= op.size
  <2>1. op' = [op EXCEPT !.pc = "dir"]
    BY <1>4, <1>14 DEF write_data
  <2>2. /\ op'.pc = "dir" /\ op'.size = op.size /\ op'.first = op.first /\ op' # Idle
    BY <1>1, <2>1 DEF Ops, Idle
  <2>3. ClustersNeeded(op.size)' = ClustersNeeded(op.size)
    BY <1>2, <2>2, GeometryKept DEF ClustersNeeded
  <2>4. CurLinks(q)'
    BY <1>2, <1>7, <2>2 DEF CurLinks
  <2>5. CurInv(q)'
    BY <1>2, <1>4, <1>7, <2>2, <2>3, <2>4 DEF CurInv
  <2>6. v = op.size
    BY <1>4, <1>6, <1>7, <1>14
  <2>7. Stored(q, op.size)'
    BY <1>12, <2>2, <2>6
  <2> QED BY <1>3, <1>4, <1>5, <1>11, <1>13, <2>2, <2>5, <2>7 DEF ChainInv
<1>15. CASE ~(v >= op.size)
  <2>1. PICK next : next = IF v % n = 0 THEN fat1[op.prev] ELSE op.prev
    OBVIOUS
  <2>2. next = q[(v \div n) + 1] /\ next \in Clusters
    <3>1. v \in 0..(op.size - 1)
      BY <1>4, <1>6, <1>15
    <3>2. PICK b : b = v \div n /\ b + 1 \in 1..L
      BY <1>8, <3>1
    <3>3. b = IF v % n = 0 THEN a + 1 ELSE a
      BY <1>4, <1>6, <3>2, NextSector
    <3>4. CASE v % n = 0
      <4>1. a + 1 \in 1..(L - 1)
        BY <1>5, <1>9, <3>2, <3>3, <3>4
      <4>2. fat1[q[a + 1]] = q[a + 1 + 1]
        BY <1>4, <1>7, <4>1 DEF CurLinks
      <4> QED BY <1>5, <1>7, <2>1, <3>2, <3>3, <3>4, <4>2
    <3>5. CASE v % n # 0
      BY <1>5, <1>7, <2>1, <3>2, <3>3, <3>5
    <3> QED BY <3>4, <3>5
  <2>3. op' = [op EXCEPT !.written = v, !.prev = next]
    BY <1>4, <1>15, <2>1, <2>2 DEF write_data
  <2>4. /\ op'.pc = "data" /\ op'.size = op.size /\ op'.first = op.first /\ op' # Idle
        /\ op'.written = v /\ op'.prev = next
    BY <1>1, <2>3 DEF Ops, Idle
  <2>5. ClustersNeeded(op.size)' = ClustersNeeded(op.size)
    BY <1>2, <2>4, GeometryKept DEF ClustersNeeded
  <2>6. CurLinks(q)'
    BY <1>2, <1>7, <2>4 DEF CurLinks
  <2>7. op'.written < op'.size /\ op'.prev = q[(op'.written \div SECTORS_PER_CLUSTER') + 1]
    BY <1>3, <1>4, <1>6, <1>15, <2>2, <2>4
  <2>8. CurInv(q)'
    BY <1>2, <1>4, <1>7, <2>4, <2>5, <2>6, <2>7 DEF CurInv
  <2>9. Stored(q, op.written)'
    BY <1>12, <2>4
  <2> QED BY <1>3, <1>4, <1>5, <1>11, <1>13, <2>4, <2>8, <2>9 DEF ChainInv
<1> QED BY <1>14, <1>15


\* The directory entry is written: the chain of the write becomes the file's.
LEMMA DirKeepsChains ==
    ASSUME Fat16TypeOK, NEW ch, ChainInv(ch), write_dir
    PROVE  DiskInv'
<1>1. op \in Ops /\ op.pc = "dir" /\ op # Idle
  BY InProgress DEF write_dir, Fat16TypeOK, Writing
<1>2. UNCHANGED <<g_bpb, fat1, data, crashes, failures, writes>> /\ op' = Idle
  BY DEF write_dir, rest
<1>3. /\ Slots' = Slots /\ Chains' = Chains /\ Owners' = Owners /\ Clusters' = Clusters
      /\ SECTORS_PER_CLUSTER' = SECTORS_PER_CLUSTER /\ Owners = {0} \cup Slots
      /\ 0 \in Owners /\ Slots \subseteq Owners /\ 0 \notin Slots /\ Slots \subseteq Nat
  BY <1>2, GeometryKept, OwnerSets
<1>4. PICK u \in Slots :
          /\ IsFirstOpenSlot(u)
          /\ root_dir' = [root_dir EXCEPT ![u] = File(op.name, op.first, op.size, writes)]
  BY DEF write_dir
<1>5. PICK e : e = File(op.name, op.first, op.size, writes)
  OBVIOUS
<1>6. root_dir'[u] = e /\ \A s \in Slots : s # u => root_dir'[s] = root_dir[s]
  BY <1>4, <1>5 DEF Fat16TypeOK
<1>7. /\ e.kind = "file" /\ e.first = op.first /\ e.size = op.size /\ e.id = writes
  BY <1>5 DEF File
<1>8. PICK q, L, n : q = ch[0] /\ L = Len(q) /\ CurInv(q) /\ n = SECTORS_PER_CLUSTER
  BY DEF ChainInv
<1>9. ch \in Chains /\ Apart(ch) /\ DOMAIN ch = Owners /\ L \in Nat
  BY <1>3, <1>8, ChainTypes DEF ChainInv, Chains
<1>10. /\ L = ClustersNeeded(op.size) /\ L > 0 /\ fat1[q[L]] = EOC /\ CurLinks(q)
       /\ Stored(q, op.size)
  BY <1>1, <1>8 DEF CurInv, ChainInv
<1>11. root_dir[u].kind # "file" /\ ch[u] = <<>>
  <2>1. root_dir[u].kind # "file"
    BY <1>4 DEF IsFirstOpenSlot
  <2> QED BY <1>4, <2>1 DEF ChainInv, FileInv
<1>12. PICK ch2 : ch2 = [s \in Owners |-> IF s = u THEN q ELSE IF s = 0 THEN <<>> ELSE ch[s]]
  OBVIOUS
<1>13. ch2 \in Chains /\ Apart(ch2)
  <2>1. u \in Owners /\ u # 0 /\ q = ch[0]
    BY <1>3, <1>8
  <2> QED BY <1>9, <1>11, <1>12, <2>1, ChainMoves
<1>14. ch2[0] = <<>> /\ ch2[u] = q /\ \A s \in Slots : s # u => ch2[s] = ch[s]
  BY <1>3, <1>4, <1>12
<1>15. ASSUME NEW s \in Slots, s # u PROVE FileInv(ch2, s)'
  <2>1. FileInv(ch, s)
    BY DEF ChainInv
  <2>2. ch2[s] = ch[s] /\ root_dir'[s] = root_dir[s] /\ Live(s)' = Live(s)
    BY <1>6, <1>14, <1>15 DEF Live
  <2>3. CASE ~Live(s)
    BY <2>1, <2>2, <2>3 DEF FileInv, Live
  <2>4. CASE Live(s)
    <3>1. \A t \in 1..(s - 1) : root_dir'[t].kind # "never"
      <4>1. ASSUME NEW t \in 1..(s - 1) PROVE root_dir'[t].kind # "never"
        <5>1. t \in Slots
          <6>1. g_bpb.root_dir_entries \in Nat
            BY BpbTypes DEF Fat16TypeOK
          <6> QED BY <6>1 DEF Slots
        <5>2. root_dir[t].kind # "never"
          BY <2>1, <2>4 DEF FileInv
        <5> QED BY <1>6, <1>7, <5>1, <5>2
      <4> QED BY <4>1
    <3> QED BY <1>2, <1>3, <2>1, <2>2, <2>4, <3>1 DEF FileInv, Live
  <2> QED BY <2>3, <2>4
<1>16. FileInv(ch2, u)'
  <2>1. \A t \in 1..(u - 1) : root_dir'[t].kind # "never"
    <3>1. ASSUME NEW t \in 1..(u - 1) PROVE root_dir'[t].kind # "never"
      <4>1. t \in Slots /\ t # u
        <5>1. g_bpb.root_dir_entries \in Nat
          BY BpbTypes DEF Fat16TypeOK
        <5> QED BY <1>4, <5>1 DEF Slots
      <4> QED BY <1>4, <1>6, <4>1 DEF IsFirstOpenSlot
    <3> QED BY <3>1
  <2>2. IsChain(q, fat1, e, n)
    <3>1. L = (e.size + n - 1) \div n
      BY <1>7, <1>8, <1>10 DEF ClustersNeeded
    <3>2. q # <<>> /\ e.first = q[1]
      <4>1. q # <<>>
        <5>1. Len(<<>>) = 0 /\ L > 0 /\ L = Len(q)
          BY <1>8, <1>10
        <5> QED BY <5>1
      <4> QED BY <1>7, <1>8, <1>10, <4>1 DEF CurLinks
    <3>3. ASSUME NEW i \in 1..L PROVE fat1[q[i]] = IF i = L THEN EOC ELSE q[i + 1]
      <4>1. CASE i = L
        BY <1>10, <4>1
      <4>2. CASE i # L
        <5>1. i \in 1..(L - 1)
          BY <1>9, <4>2
        <5> QED BY <1>8, <1>10, <4>2, <5>1 DEF CurLinks
      <4> QED BY <4>1, <4>2
    <3> QED BY <1>8, <3>1, <3>2, <3>3 DEF IsChain
  <2>3. Holds(q, data, e, n)
    BY <1>7, <1>8, <1>10 DEF Holds, Stored
  <2> QED BY <1>2, <1>3, <1>6, <1>7, <1>8, <1>14, <2>1, <2>2, <2>3 DEF FileInv, Live
<1>17. CurInv(<<>>)' /\ op'.pc \notin {"data", "dir"}
  BY <1>2 DEF CurInv, Idle
<1>18. NoLeak(ch2)'
  <2> SUFFICES ASSUME crashes = 0, failures = 0, NEW k \in Clusters, fat1[k] # FREE
               PROVE  \E s \in Owners : \E i \in 1..Len(ch2[s]) : k = ch2[s][i]
    BY <1>2, <1>3 DEF NoLeak
  <2>1. PICK s \in Owners : \E i \in 1..Len(ch[s]) : k = ch[s][i]
    BY DEF ChainInv, NoLeak
  <2>2. CASE s = 0
    BY <1>3, <1>4, <1>8, <1>14, <2>1, <2>2
  <2>3. CASE s # 0
    <3>1. s \in Slots /\ s # u
      BY <1>3, <1>11, <2>1, <2>3
    <3> QED BY <1>14, <2>1, <3>1
  <2> QED BY <2>2, <2>3
<1>19. ChainInv(ch2)'
  BY <1>3, <1>13, <1>14, <1>15, <1>16, <1>17, <1>18 DEF ChainInv
<1> QED BY <1>19 DEF DiskInv

\* The disks the system starts with have a chain for each file.
LEMMA ChainsInit == Init => DiskInv
<1> SUFFICES ASSUME Init PROVE DiskInv
  OBVIOUS
<1>1. Fat16TypeOK
  BY Fat16TypesInit
<1>2. PICK d \in InitialDisks :
          g_bpb = d.bpb /\ fat1 = d.fat /\ fat2 = d.fat /\ root_dir = d.root_dir /\ data = d.data
  BY DEF Init
<1>3. IsSoundDisk(d)
  BY Fat16Assumption
<1>4. Clusters = VolumeClusters(d.bpb) /\ Slots = 1..d.bpb.root_dir_entries
      /\ SECTORS_PER_CLUSTER = d.bpb.sectors_per_clustor
  <2>1. d.bpb \in Bpbs
    BY <1>3 DEF IsSoundDisk
  <2> QED BY <1>2, <2>1, SearchIsComplete DEF Clusters, Slots, SECTORS_PER_CLUSTER
<1>5. /\ d.chain \in [Slots -> Seq(Clusters)] /\ Apart(d.chain)
      /\ \A s \in Slots : root_dir[s].kind # "file" => d.chain[s] = <<>>
      /\ \A s \in Slots : root_dir[s].kind = "file" =>
            /\ \A t \in 1..(s - 1) : root_dir[t].kind # "never"
            /\ IsChain(d.chain[s], fat1, root_dir[s], SECTORS_PER_CLUSTER)
            /\ Holds(d.chain[s], data, root_dir[s], SECTORS_PER_CLUSTER)
      /\ \A k \in Clusters : fat1[k] # FREE =>
            \E s \in Slots : \E i \in 1..Len(d.chain[s]) : k = d.chain[s][i]
  BY <1>2, <1>3, <1>4 DEF IsSoundDisk
<1>6. Owners = {0} \cup Slots /\ 0 \notin Slots
  BY <1>1, OwnerSets
<1>7. PICK ch : ch = [s \in Owners |-> IF s = 0 THEN <<>> ELSE d.chain[s]]
  OBVIOUS
<1>8. ch[0] = <<>> /\ DOMAIN ch = Owners /\ \A s \in Slots : ch[s] = d.chain[s]
  BY <1>6, <1>7
<1>9. ch \in Chains
  BY <1>5, <1>6, <1>7 DEF Chains
<1>10. Apart(ch)
  <2>1. ASSUME NEW s \in Owners, NEW t \in Owners,
               NEW i \in 1..Len(ch[s]), NEW j \in 1..Len(ch[t]), ch[s][i] = ch[t][j]
        PROVE  s = t /\ i = j
    <3>1. s # 0 /\ t # 0
      BY <1>8, <2>1
    <3>2. s \in Slots /\ t \in Slots /\ DOMAIN d.chain = Slots
      BY <1>5, <1>6, <3>1
    <3>3. ch[s] = d.chain[s] /\ ch[t] = d.chain[t]
      BY <1>8, <3>2
    <3> QED BY <1>5, <2>1, <3>2, <3>3 DEF Apart
  <2> QED BY <1>8, <2>1 DEF Apart
<1>11. \A s \in Slots : FileInv(ch, s)
  BY <1>5, <1>8 DEF FileInv, Live
<1>12. CurInv(<<>>) /\ op.pc \notin {"data", "dir"}
  BY DEF Init, CurInv, Idle
<1>13. NoLeak(ch)
  <2>1. ASSUME NEW k \in Clusters, fat1[k] # FREE
        PROVE  \E s \in Owners : \E i \in 1..Len(ch[s]) : k = ch[s][i]
    <3>1. PICK s \in Slots : \E i \in 1..Len(d.chain[s]) : k = d.chain[s][i]
      BY <1>5, <2>1
    <3>2. ch[s] = d.chain[s] /\ s \in Owners
      BY <1>6, <1>8
    <3> QED BY <3>1, <3>2
  <2> QED BY <2>1 DEF NoLeak
<1>14. ChainInv(ch)
  BY <1>8, <1>9, <1>10, <1>11, <1>12, <1>13 DEF ChainInv
<1> QED BY <1>14 DEF DiskInv

\* Each step keeps the chains.
LEMMA ChainsStep ==
    ASSUME Fat16TypeOK, DiskInv, [Next]_vars
    PROVE  DiskInv'
<1>1. PICK ch : ChainInv(ch)
  BY DEF DiskInv
<1>2. CASE UNCHANGED vars
  <2>1. UNCHANGED <<g_bpb, fat1, root_dir, data, op, writes, crashes, failures>>
    BY <1>2 DEF vars
  <2>2. CurInv(ch[0])' /\ (op'.pc = "data" => Stored(ch[0], op.written)')
        /\ (op'.pc = "dir" => Stored(ch[0], op.size)')
    BY <1>1, <2>1 DEF ChainInv, CurInv, CurLinks, Stored, Clusters, SECTORS_PER_CLUSTER, ClustersNeeded
  <2>3. \A s \in Slots : FileInv(ch, s)'
    BY <1>1, <2>1, FilesKept
  <2>4. Slots' = Slots /\ Chains' = Chains /\ Owners' = Owners /\ Clusters' = Clusters
    BY <2>1, GeometryKept
  <2>5. NoLeak(ch)'
    BY <1>1, <2>1, <2>4 DEF ChainInv, NoLeak
  <2>6. ChainInv(ch)'
    BY <1>1, <2>2, <2>3, <2>4, <2>5 DEF ChainInv
  <2> QED BY <2>6 DEF DiskInv
<1>3. CASE \E n \in Names, size \in Sizes : write_begin(n, size)
  BY <1>1, <1>3, BeginKeepsChains DEF DiskInv
<1>4. CASE write_alloc
  <2>1. op \in Ops /\ UNCHANGED <<g_bpb, root_dir, data, crashes, failures>> /\ op.pc = "alloc"
    BY <1>4, InProgress DEF write_alloc, rest, Fat16TypeOK, Writing
  <2>2. PICK c \in Clusters :
            /\ IsFirstFreeCluster(c)
            /\ IF op.i = 0
               THEN /\ fat1' = [fat1 EXCEPT ![c] = EOC]
                    /\ op' = [op EXCEPT !.pc = "mark2", !.first = c, !.free_c = c]
               ELSE /\ fat1' = [fat1 EXCEPT ![op.prev] = c]
                    /\ op' = [op EXCEPT !.pc = "link2", !.free_c = c]
    BY <1>4 DEF write_alloc
  <2>3. fat1[c] = FREE
    BY <2>2 DEF IsFirstFreeCluster
  <2>4. CASE op.i = 0
    <3>1. fat1'[c] = EOC /\ \A k \in Clusters : k # c => fat1'[k] = fat1[k]
      BY <2>2, <2>4 DEF Fat16TypeOK
    <3>2. op' = [op EXCEPT !.pc = "mark2", !.first = c, !.free_c = c]
      BY <2>2, <2>4
    <3> QED BY <1>1, <2>1, <2>3, <2>4, <3>1, <3>2, FirstAllocKeepsChains
  <2>5. CASE op.i # 0
    <3>1. /\ fat1' = [fat1 EXCEPT ![op.prev] = c]
          /\ op' = [op EXCEPT !.pc = "link2", !.free_c = c]
      BY <2>2, <2>5
    <3> QED BY <1>1, <2>1, <2>3, <2>5, <3>1, NextAllocKeepsChains
  <2> QED BY <2>4, <2>5
<1>5. CASE write_disk_full \/ write_root_full \/ power_loss
  <2>1. UNCHANGED <<g_bpb, fat1, root_dir, data>> /\ op' = Idle
    BY <1>5 DEF write_disk_full, write_root_full, power_loss, disk
  <2>2. crashes \in Nat /\ failures \in Nat
    BY DEF Fat16TypeOK
  <2>3. crashes' + failures' > 0 /\ crashes' \in Nat /\ failures' \in Nat
    BY <1>5, <2>2 DEF write_disk_full, write_root_full, power_loss
  <2> QED BY <1>1, <2>1, <2>3, EndKeepsChains
<1>6. CASE write_link2
  BY <1>1, <1>6, Link2KeepsChains DEF DiskInv
<1>7. CASE write_mark1
  BY <1>1, <1>7, Mark1KeepsChains
<1>8. CASE write_mark2
  BY <1>1, <1>8, Mark2KeepsChains DEF DiskInv
<1>9. CASE write_data
  BY <1>1, <1>9, DataKeepsChains DEF DiskInv
<1>10. CASE write_dir
  BY <1>1, <1>10, DirKeepsChains
<1> QED BY <1>2, <1>3, <1>4, <1>5, <1>6, <1>7, <1>8, <1>9, <1>10 DEF Next, WriteStep

\* In every state, the files and the write in progress have their chains.
LEMMA DiskInvariant == Spec => [](Fat16TypeOK /\ DiskInv)
<1>1. Init => Fat16TypeOK /\ DiskInv
  BY Fat16TypesInit, ChainsInit
<1>2. Fat16TypeOK /\ DiskInv /\ [Next]_vars => (Fat16TypeOK /\ DiskInv)'
  <2>1. CASE UNCHANGED vars
    BY <2>1, ChainsStep DEF vars, Fat16TypeOK, Clusters, Slots, SECTORS_PER_CLUSTER
  <2> QED BY <2>1, Fat16TypesStep, ChainsStep
<1> QED BY <1>1, <1>2, PTL DEF Spec

-----------------------------------------------------------------------------
(* What a reader finds along a chain.                                      *)

\* A set of natural numbers that is not empty has a least element.
LEMMA LeastNatural ==
    ASSUME NEW T, T \subseteq Nat, T # {}
    PROVE  \E m \in T : \A k \in T : m <= k
<1> DEFINE R == OpToRel(<, Nat)
<1>1. IsWellFoundedOn(R, Nat)
  BY NatLessThanWellFounded
<1>2. R = {ss \in Nat \X Nat : ss[1] < ss[2]}
  BY DEF OpToRel
<1> HIDE DEF R
<1>3. PICK x \in T : \A y \in T : ~ (<<y, x>> \in R)
  BY <1>1, WFMin
<1>4. ASSUME NEW k \in T PROVE x <= k
  <2>1. x \in Nat /\ k \in Nat
    OBVIOUS
  <2>2. ~(<<k, x>> \in R)
    BY <1>3
  <2>3. CASE k < x
    <3>1. <<k, x>> \in {ss \in Nat \X Nat : ss[1] < ss[2]}
      BY <2>1, <2>3
    <3> QED BY <1>2, <2>2, <3>1
  <2> QED BY <2>1, <2>3
<1> QED BY <1>4

\* Induction over 0..n, for a property given by the set T of the numbers that have it.
LEMMA UpTo ==
    ASSUME NEW n \in Nat, NEW T, 0 \in T,
           \A i \in 1..n : i - 1 \in T => i \in T
    PROVE  0..n \subseteq T
<1> DEFINE U == {i \in 0..n : i \notin T}
<1>1. CASE U # {}
  <2>0. U \subseteq Nat
    OBVIOUS
  <2> HIDE DEF U
  <2>1. PICK m \in U : \A k \in U : m <= k
    BY <1>1, <2>0, LeastNatural
  <2> USE DEF U
  <2>2. m \in 1..n /\ m - 1 \in 0..n /\ ~(m <= m - 1)
    BY <2>1
  <2>3. m - 1 \in T
    BY <2>1, <2>2
  <2> QED BY <2>1, <2>2, <2>3
<1>2. CASE U = {}
  BY <1>2
<1> QED BY <1>1, <1>2

\* There is one walk from c.
LEMMA WalkIs ==
    ASSUME NEW N \in Nat, N = Cardinality(Clusters), NEW c, NEW g,
           g = [k \in 0..N |-> IF k = 0 THEN c
                               ELSE IF g[k - 1] \in Clusters THEN fat1[g[k - 1]] ELSE g[k - 1]]
    PROVE  FatWalk(c) = g
<1> DEFINE W(f) == f = [k \in 0..Cardinality(Clusters) |->
                           IF k = 0 THEN c
                           ELSE IF f[k - 1] \in Clusters THEN fat1[f[k - 1]] ELSE f[k - 1]]
<1>1. FatWalk(c) = CHOOSE f : W(f)
  BY DEF FatWalk
<1>2. W(g)
  OBVIOUS
<1> HIDE DEF W
<1>3. PICK h : h = FatWalk(c) /\ W(h)
  BY <1>1, <1>2
<1> USE DEF W
<1>4. h = [k \in 0..N |-> IF k = 0 THEN c
                          ELSE IF h[k - 1] \in Clusters THEN fat1[h[k - 1]] ELSE h[k - 1]]
  BY <1>3
<1> HIDE DEF W
<1>5. PICK T : T = {k \in 0..N : h[k] = g[k]}
  OBVIOUS
<1>6. 0 \in T
  BY <1>4, <1>5
<1>7. ASSUME NEW i \in 1..N, i - 1 \in T PROVE i \in T
  <2>1. h[i - 1] = g[i - 1] /\ i \in 0..N /\ i # 0
    BY <1>5, <1>7
  <2>2. h[i] = IF h[i - 1] \in Clusters THEN fat1[h[i - 1]] ELSE h[i - 1]
    BY <1>4, <2>1
  <2>3. g[i] = IF g[i - 1] \in Clusters THEN fat1[g[i - 1]] ELSE g[i - 1]
    BY <2>1
  <2> QED BY <1>5, <2>1, <2>2, <2>3
<1>8. 0..N \subseteq T
  BY <1>6, <1>7, UpTo
<1>9. \A k \in 0..N : h[k] = g[k]
  BY <1>5, <1>8
<1>10. h = [k \in 0..N |-> h[k]] /\ g = [k \in 0..N |-> g[k]]
  BY <1>4
<1> QED BY <1>3, <1>9, <1>10

\* A file of the directory has its fields, and its chain fits the volume.
LEMMA FileChain ==
    ASSUME Fat16TypeOK, NEW ch, ChainInv(ch), NEW s \in Slots, Live(s)
    PROVE  /\ root_dir[s].size \in Nat /\ root_dir[s].first \in Nat
           /\ IsChain(ch[s], fat1, root_dir[s], SECTORS_PER_CLUSTER)
           /\ Holds(ch[s], data, root_dir[s], SECTORS_PER_CLUSTER)
           /\ Visible(s)
           /\ ch[s] \in Injection(1..Len(ch[s]), Clusters)
           /\ Len(ch[s]) \in Nat /\ Len(ch[s]) <= Cardinality(Clusters)
<1>1. root_dir[s].size \in Nat /\ root_dir[s].first \in Nat
  <2>1. PICK e : e = root_dir[s] /\ e \in Entries /\ e.kind = "file"
    BY DEF Fat16TypeOK, Live
  <2>2. e \in [kind : {"file"}, name : Names, first : Nat, size : Nat, id : Nat]
    BY <2>1 DEF Entries, NeverUsed, Deleted, LongName
  <2> QED BY <2>1, <2>2
<1>2. FileInv(ch, s) /\ ch \in Chains /\ Apart(ch) /\ s \in Owners /\ DOMAIN ch = Owners
  BY OwnerSets DEF ChainInv, Chains
<1>3. /\ IsChain(ch[s], fat1, root_dir[s], SECTORS_PER_CLUSTER)
      /\ Holds(ch[s], data, root_dir[s], SECTORS_PER_CLUSTER)
      /\ Visible(s)
  BY <1>2 DEF FileInv, Visible, Live
<1>4. PICK q, L : q = ch[s] /\ L = Len(q)
  OBVIOUS
<1>5. q \in Seq(Clusters) /\ L \in Nat
  BY <1>2, <1>4, ChainTypes
<1>6. q \in [1..L -> Clusters]
  BY <1>4, <1>5
<1>7. \A i, j \in 1..L : q[i] = q[j] => i = j
  BY <1>2, <1>4 DEF Apart
<1>8. q \in Injection(1..L, Clusters)
  BY <1>6, <1>7 DEF Injection, IsInjective
<1>9. Cardinality(1..L) <= Cardinality(Clusters) /\ Cardinality(1..L) = L
  <2>1. IsFiniteSet(Clusters)
    BY ClusterNumbers DEF Fat16TypeOK
  <2>2. Cardinality(1..L) = L
    BY <1>5, FS_Interval
  <2> QED BY <1>8, <2>1, <2>2, FS_Injection
<1> QED BY <1>1, <1>3, <1>4, <1>5, <1>8, <1>9

\* From the first cluster of a file, the FAT leads through its chain to the end mark.
LEMMA WalkAlong ==
    ASSUME Fat16TypeOK, NEW ch, ChainInv(ch), NEW s \in Slots, Live(s),
           NEW k \in 0..Cardinality(Clusters)
    PROVE  FatWalk(root_dir[s].first)[k] =
               IF k < Len(ch[s]) THEN ch[s][k + 1] ELSE IF Len(ch[s]) = 0 THEN FREE ELSE EOC
<1>1. PICK q, L, c, N : q = ch[s] /\ L = Len(q) /\ c = root_dir[s].first /\ N = Cardinality(Clusters)
  OBVIOUS
<1>2. /\ q \in [1..L -> Clusters] /\ L \in Nat /\ L <= N /\ N \in Nat
      /\ FREE \notin Clusters /\ EOC \notin Clusters
  BY <1>1, FileChain, ClusterNumbers DEF Fat16TypeOK, Injection
<1>3. IsChain(q, fat1, root_dir[s], SECTORS_PER_CLUSTER)
  BY <1>1, FileChain
<1>4. /\ c = IF L = 0 THEN FREE ELSE q[1]
      /\ \A i \in 1..L : fat1[q[i]] = IF i = L THEN EOC ELSE q[i + 1]
  <2>1. q = <<>> <=> L = 0
    <3>1. q \in Seq(Clusters)
      BY <1>1, OwnerSets, ChainTypes DEF ChainInv
    <3> QED BY <1>1, <3>1
  <2> QED BY <1>1, <1>3, <2>1 DEF IsChain
<1>5. PICK E : E = IF L = 0 THEN FREE ELSE EOC
  OBVIOUS
<1>6. PICK g : g = [i \in 0..N |-> IF i < L THEN q[i + 1] ELSE E]
  OBVIOUS
<1>7. ASSUME NEW i \in 0..N
      PROVE  g[i] = IF i = 0 THEN c
                    ELSE IF g[i - 1] \in Clusters THEN fat1[g[i - 1]] ELSE g[i - 1]
  <2>1. CASE i = 0
    BY <1>2, <1>4, <1>5, <1>6, <2>1
  <2>2. CASE i # 0 /\ i - 1 < L
    <3>1. i \in 1..L /\ i - 1 \in 0..N /\ (i - 1) + 1 = i
      BY <1>2, <2>2
    <3>2. g[i - 1] = q[i] /\ q[i] \in Clusters
      BY <1>2, <1>6, <2>2, <3>1
    <3>3. fat1[q[i]] = IF i = L THEN EOC ELSE q[i + 1]
      BY <1>4, <3>1
    <3>4. i < L <=> i # L
      BY <1>2, <3>1
    <3>5. L # 0
      BY <3>1
    <3> QED BY <1>5, <1>6, <2>2, <3>2, <3>3, <3>4, <3>5
  <2>3. CASE i # 0 /\ ~(i - 1 < L)
    <3>1. ~(i < L) /\ i - 1 \in 0..N
      BY <1>2, <2>3
    <3>2. g[i] = E /\ g[i - 1] = E
      BY <1>6, <2>3, <3>1
    <3> QED BY <1>2, <1>5, <2>3, <3>2
  <2> QED BY <2>1, <2>2, <2>3
<1>8. g = [i \in 0..N |-> IF i = 0 THEN c
                          ELSE IF g[i - 1] \in Clusters THEN fat1[g[i - 1]] ELSE g[i - 1]]
  <2>1. g = [i \in 0..N |-> g[i]]
    BY <1>6
  <2> QED BY <1>7, <2>1
<1>9. FatWalk(c) = g
  BY <1>1, <1>2, <1>8, WalkIs
<1> QED BY <1>1, <1>5, <1>6, <1>9

\* The clusters a reader finds are the ones of the chain.
LEMMA ChainFound ==
    ASSUME Fat16TypeOK, NEW ch, ChainInv(ch), NEW s \in Slots, Live(s)
    PROVE  /\ ChainOf(s) = {ch[s][i] : i \in 1..Len(ch[s])}
           /\ Cardinality(ChainOf(s)) = Len(ch[s])
<1>1. PICK q, L, W, N : /\ q = ch[s] /\ L = Len(q) /\ W = FatWalk(root_dir[s].first)
                        /\ N = Cardinality(Clusters)
  OBVIOUS
<1>2. /\ q \in Injection(1..L, Clusters) /\ q \in [1..L -> Clusters] /\ L \in Nat /\ L <= N /\ N \in Nat
      /\ FREE \notin Clusters /\ EOC \notin Clusters
  BY <1>1, FileChain, ClusterNumbers DEF Fat16TypeOK, Injection
<1>3. \A k \in 0..N : W[k] = IF k < L THEN q[k + 1] ELSE IF L = 0 THEN FREE ELSE EOC
  BY <1>1, WalkAlong
<1>4. ChainOf(s) = {W[k] : k \in 0..N} \cap Clusters
  BY <1>1 DEF ChainOf
<1>5. ASSUME NEW x \in {W[k] : k \in 0..N} \cap Clusters PROVE x \in {q[i] : i \in 1..L}
  <2>1. PICK k \in 0..N : x = W[k]
    OBVIOUS
  <2>2. k < L
    BY <1>2, <1>3, <2>1
  <2>3. k + 1 \in 1..L /\ x = q[k + 1]
    BY <1>2, <1>3, <2>1, <2>2
  <2> QED BY <2>3
<1>6. ASSUME NEW i \in 1..L PROVE q[i] \in {W[k] : k \in 0..N} \cap Clusters
  <2>1. i - 1 \in 0..N /\ i - 1 < L /\ (i - 1) + 1 = i
    BY <1>2
  <2>2. W[i - 1] = q[i]
    BY <1>3, <2>1
  <2> QED BY <1>2, <2>1, <2>2
<1>7. ChainOf(s) = {q[i] : i \in 1..L}
  BY <1>4, <1>5, <1>6
<1>8. Cardinality({q[i] : i \in 1..L}) = L
  <2>1. PICK Q : Q = {q[i] : i \in 1..L}
    OBVIOUS
  <2>2. q \in Surjection(1..L, Q) /\ q \in Injection(1..L, Q)
    BY <1>2, <2>1 DEF Injection, Surjection
  <2>3. IsFiniteSet(1..L) /\ Cardinality(1..L) = L
    BY <1>2, FS_Interval
  <2>4. Cardinality(Q) = Cardinality(1..L)
    BY <2>2, <2>3, FS_Surjection
  <2> QED BY <2>1, <2>3, <2>4
<1> QED BY <1>1, <1>7, <1>8


\* Each file owns a chain of its own, as long as its size needs and closed by an end
\* mark, wherever writes were interrupted: for every volume, every number of files and
\* every number of writes and power losses (fat16_write_file's order of sector writes).
THEOREM ChainsSoundThm == Spec => []ChainsSound
<1>1. Fat16TypeOK /\ DiskInv => ChainsSound
  <2> SUFFICES ASSUME Fat16TypeOK, DiskInv PROVE ChainsSound
    OBVIOUS
  <2>1. PICK ch : ChainInv(ch)
    BY DEF DiskInv
  <2>2. ASSUME NEW s \in Slots, Live(s)
        PROVE  /\ root_dir[s].size > 0 => FatWalk(root_dir[s].first)[Cardinality(Clusters)] = EOC
               /\ Cardinality(ChainOf(s)) = ClustersNeeded(root_dir[s].size)
    <3>1. PICK L, N, e : L = Len(ch[s]) /\ N = Cardinality(Clusters) /\ e = root_dir[s]
      OBVIOUS
    <3>2. /\ L \in Nat /\ N \in Nat /\ L <= N /\ e.size \in Nat
          /\ IsChain(ch[s], fat1, e, SECTORS_PER_CLUSTER)
      BY <2>1, <2>2, <3>1, FileChain, ClusterNumbers DEF Fat16TypeOK
    <3>3. L = ClustersNeeded(e.size)
      BY <3>1, <3>2 DEF IsChain, ClustersNeeded
    <3>4. e.size > 0 => L > 0
      BY <3>2, <3>3, NeededFor
    <3>5. N \in 0..N /\ ~(N < L)
      BY <3>2
    <3>6. L # 0 => FatWalk(root_dir[s].first)[N] = EOC
      BY <2>1, <2>2, <3>1, <3>5, WalkAlong
    <3>7. Cardinality(ChainOf(s)) = L
      BY <2>1, <2>2, <3>1, ChainFound
    <3> QED BY <3>1, <3>2, <3>3, <3>4, <3>6, <3>7
  <2>3. ASSUME NEW s \in Slots, NEW t \in Slots, Live(s), Live(t), s # t
        PROVE  ChainOf(s) \cap ChainOf(t) = {}
    <3>1. ChainOf(s) = {ch[s][i] : i \in 1..Len(ch[s])} /\ ChainOf(t) = {ch[t][i] : i \in 1..Len(ch[t])}
      BY <2>1, <2>3, ChainFound
    <3>2. Apart(ch) /\ s \in DOMAIN ch /\ t \in DOMAIN ch
      BY <2>1, OwnerSets DEF ChainInv, Chains
    <3>3. \A i \in 1..Len(ch[s]), j \in 1..Len(ch[t]) : ch[s][i] # ch[t][j]
      BY <2>3, <3>2 DEF Apart
    <3> QED BY <3>1, <3>3
  <2> QED BY <2>2, <2>3 DEF ChainsSound
<1> QED BY <1>1, DiskInvariant, PTL

\* Without power losses and failed writes no cluster is lost: each allocated one is
\* found by following the FAT from a directory entry.
THEOREM LeaksOnlyOnFailureThm == Spec => []LeaksOnlyOnFailure
<1>1. Fat16TypeOK /\ DiskInv => LeaksOnlyOnFailure
  <2> SUFFICES ASSUME Fat16TypeOK, DiskInv, op = Idle, crashes = 0, failures = 0,
                      NEW c \in Clusters, fat1[c] # FREE
               PROVE  \E s \in Slots : Live(s) /\ c \in ChainOf(s)
    BY DEF LeaksOnlyOnFailure
  <2>1. PICK ch : ChainInv(ch)
    BY DEF DiskInv
  <2>2. PICK s \in Owners : \E i \in 1..Len(ch[s]) : c = ch[s][i]
    BY <2>1 DEF ChainInv, NoLeak
  <2>3. ch[0] = <<>>
    BY <2>1 DEF ChainInv, CurInv
  <2>4. ch[s] # <<>> /\ s \in Slots
    BY <2>2, <2>3, OwnerSets
  <2>5. Live(s)
    BY <2>1, <2>4 DEF ChainInv, FileInv, Live
  <2> QED BY <2>1, <2>2, <2>4, <2>5, ChainFound
<1> QED BY <1>1, DiskInvariant, PTL

\* What fat16_read_file copies of a file to a buffer that is large enough: all of it, in
\* order.
LEMMA ReadInFull ==
    ASSUME Fat16TypeOK, NEW ch, ChainInv(ch), NEW s \in Slots, Live(s),
           NEW m, ~(root_dir[s].size > m)
    PROVE  SectorsRead(s, m) =
              [j \in 1..root_dir[s].size |-> [id |-> root_dir[s].id, sector |-> j - 1]]
<1>1. PICK q, L, n, N, z, W : /\ q = ch[s] /\ L = Len(q) /\ n = SECTORS_PER_CLUSTER
                              /\ N = Cardinality(Clusters) /\ z = root_dir[s].size
                              /\ W = FatWalk(root_dir[s].first)
  OBVIOUS
<1>2. /\ L \in Nat /\ N \in Nat /\ L <= N /\ z \in Nat /\ n \in Nat \ {0}
      /\ IsChain(q, fat1, root_dir[s], n) /\ Holds(q, data, root_dir[s], n)
      /\ q \in [1..L -> Clusters]
  BY <1>1, FileChain, ClusterNumbers DEF Fat16TypeOK, Injection
<1>3. L = (z + n - 1) \div n
  BY <1>1, <1>2 DEF IsChain
<1>4. ASSUME NEW j \in 0..(z - 1)
      PROVE  /\ j \div n <= N /\ W[j \div n] \in Clusters
             /\ data[<<W[j \div n], j % n>>] = [id |-> root_dir[s].id, sector |-> j]
  <2>1. PICK a : a = j \div n
    OBVIOUS
  <2>2. a \in Nat /\ a + 1 \in 1..L
    <3>1. j \in Nat
      BY <1>2
    <3> QED BY <1>2, <1>3, <2>1, <3>1, DivMod, ClusterIndex
  <2>3. a \in 0..N /\ a < L
    BY <1>2, <2>2
  <2>4. W[a] = q[a + 1]
    BY <1>1, <2>3, WalkAlong
  <2>5. data[<<q[a + 1], j % n>>] = [id |-> root_dir[s].id, sector |-> j]
    BY <1>1, <1>2, <2>1 DEF Holds
  <2> QED BY <1>2, <2>1, <2>2, <2>3, <2>4, <2>5
<1>5. {j \in 0..(z - 1) : j \div n <= N /\ W[j \div n] \in Clusters} = 0..(z - 1)
  BY <1>4
<1>6. Cardinality(0..(z - 1)) = z
  <2>1. PICK b \in Int : b = z - 1
    BY <1>2
  <2>2. Cardinality(0..b) = IF 0 > b THEN 0 ELSE b - 0 + 1
    BY FS_Interval
  <2> QED BY <1>2, <2>1, <2>2
<1>7. ~(z > m)
  BY <1>1
<1>8. SectorsRead(s, m) = [j \in 1..z |-> data[<<W[(j - 1) \div n], (j - 1) % n>>]]
  BY <1>1, <1>5, <1>6, <1>7 DEF SectorsRead
<1>9. ASSUME NEW j \in 1..z
      PROVE  data[<<W[(j - 1) \div n], (j - 1) % n>>] = [id |-> root_dir[s].id, sector |-> j - 1]
  <2>1. j - 1 \in 0..(z - 1)
    BY <1>2
  <2> QED BY <1>4, <2>1
<1> QED BY <1>1, <1>8, <1>9

\* Every file is listed and read back in full, sector by sector as its write stored it,
\* after any number of interrupted writes: fat16_write_file enters a file in the
\* directory only when its chain and data are on the disk, and no later write comes
\* near them.
THEOREM FilesIntactThm == Spec => []FilesIntact
<1>1. Fat16TypeOK /\ DiskInv => FilesIntact
  <2> SUFFICES ASSUME Fat16TypeOK, DiskInv, NEW s \in Slots, Live(s)
               PROVE  /\ s \in fat16_ls
                      /\ SectorsRead(s, root_dir[s].size) =
                            [j \in 1..root_dir[s].size |-> [id |-> root_dir[s].id, sector |-> j - 1]]
    BY DEF FilesIntact
  <2>1. PICK ch : ChainInv(ch)
    BY DEF DiskInv
  <2>2. s \in fat16_ls
    BY <2>1, FileChain DEF fat16_ls
  <2>3. ~(root_dir[s].size > root_dir[s].size)
    <3>1. root_dir[s].size \in Nat
      BY <2>1, FileChain
    <3> QED BY <3>1
  <2> QED BY <2>1, <2>2, <2>3, ReadInFull
<1> QED BY <1>1, DiskInvariant, PTL

-----------------------------------------------------------------------------
(* What a name reads as.                                                   *)

\* What the directory says a name reads as.
Content(n) ==
    IF SlotOf(n) = {} THEN <<>>
    ELSE LET s == CHOOSE t \in SlotOf(n) : TRUE
         IN  [j \in 1..root_dir[s].size |-> [id |-> root_dir[s].id, sector |-> j - 1]]

\* The scan reaches every file, and fat16_read_file gives what the directory says.
ReadsAgree ==
    /\ \A s \in Slots : Live(s) => Visible(s)
    /\ \A n : fat16_read_file(n, MAX_SECTORS).out = Content(n)

\* A file is not larger than the volume.
LEMMA FitsVolume ==
    ASSUME Fat16TypeOK, NEW ch, ChainInv(ch), NEW s \in Slots, Live(s)
    PROVE  ~(root_dir[s].size > MAX_SECTORS)
<1>1. PICK L, n, N, z : /\ L = Len(ch[s]) /\ n = SECTORS_PER_CLUSTER
                        /\ N = Cardinality(Clusters) /\ z = root_dir[s].size
  OBVIOUS
<1>2. /\ L \in Nat /\ N \in Nat /\ L <= N /\ z \in Nat /\ n \in Nat \ {0}
      /\ IsChain(ch[s], fat1, root_dir[s], n)
  BY <1>1, FileChain, ClusterNumbers DEF Fat16TypeOK
<1>3. PICK m \in Nat : m = z + n - 1
  BY <1>2
<1>4. L = m \div n
  BY <1>1, <1>2, <1>3 DEF IsChain
<1>5. PICK t \in 0..(n - 1) : m = L * n + t
  <2>1. n \in Nat /\ n > 0
    BY <1>2
  <2>2. m % n \in 0..(n - 1) /\ m = (m \div n) * n + (m % n)
    BY <2>1, DivMod
  <2> QED BY <1>4, <2>2
<1>6. PICK x \in Nat, y \in Nat : x = L * n /\ y = N * n /\ x <= y
  BY <1>2, MulAtMost
<1>7. z <= y
  BY <1>2, <1>3, <1>5, <1>6
<1>8. MAX_SECTORS = y
  BY <1>1, <1>6 DEF MAX_SECTORS
<1>9. ~(z > y)
  BY <1>2, <1>7
<1> QED BY <1>1, <1>8, <1>9

LEMMA ReadsAsDirectorySays ==
    ASSUME Fat16TypeOK, DiskInv
    PROVE  ReadsAgree
<1>1. PICK ch : ChainInv(ch)
  BY DEF DiskInv
<1>2. \A s \in Slots : Live(s) => Visible(s)
  BY <1>1, FileChain
<1>3. ASSUME NEW n PROVE fat16_read_file(n, MAX_SECTORS).out = Content(n)
  <2>1. CASE SlotOf(n) = {}
    BY <2>1 DEF fat16_read_file, Content
  <2>2. CASE SlotOf(n) # {}
    <3>1. PICK s : s = CHOOSE t \in SlotOf(n) : TRUE
      OBVIOUS
    <3>2. s \in SlotOf(n)
      BY <2>2, <3>1
    <3>3. s \in Slots /\ Live(s)
      BY <3>2 DEF SlotOf, Visible, Live
    <3>4. SectorsRead(s, MAX_SECTORS) =
              [j \in 1..root_dir[s].size |-> [id |-> root_dir[s].id, sector |-> j - 1]]
      BY <1>1, <3>3, FitsVolume, ReadInFull
    <3>5. fat16_read_file(n, MAX_SECTORS).out = SectorsRead(s, MAX_SECTORS)
      BY <2>2, <3>1 DEF fat16_read_file
    <3>6. Content(n) = [j \in 1..root_dir[s].size |-> [id |-> root_dir[s].id, sector |-> j - 1]]
      BY <2>2, <3>1 DEF Content
    <3> QED BY <3>4, <3>5, <3>6
  <2> QED BY <2>1, <2>2
<1> QED BY <1>2, <1>3 DEF ReadsAgree

\* A new entry changes what its own name reads as, or nothing.
LEMMA NewEntryContent ==
    ASSUME Fat16TypeOK, ReadsAgree, ReadsAgree', write_dir, NEW n
    PROVE  \/ Content(n)' = Content(n)
           \/ /\ op.name = n
              /\ Content(n)' = [j \in 1..op.size |-> [id |-> writes, sector |-> j - 1]]
<1>1. Slots' = Slots /\ Slots \subseteq Nat /\ \A s \in Slots : 1..(s - 1) \subseteq Slots
  <2>1. g_bpb' = g_bpb /\ g_bpb.root_dir_entries \in Nat
    BY BpbTypes DEF write_dir, rest, Fat16TypeOK
  <2> QED BY <2>1 DEF Slots
<1>2. PICK u \in Slots :
          /\ IsFirstOpenSlot(u)
          /\ root_dir' = [root_dir EXCEPT ![u] = File(op.name, op.first, op.size, writes)]
  BY DEF write_dir
<1>3. PICK e : e = File(op.name, op.first, op.size, writes)
  OBVIOUS
<1>4. root_dir'[u] = e /\ \A s \in Slots : s # u => root_dir'[s] = root_dir[s]
  BY <1>2, <1>3 DEF Fat16TypeOK
<1>5. e.kind = "file" /\ e.name = op.name /\ e.size = op.size /\ e.id = writes
  BY <1>3 DEF File
<1>6. root_dir[u].kind # "file"
  BY <1>2 DEF IsFirstOpenSlot
<1>7. /\ \A s \in Slots : Visible(s) <=> root_dir[s].kind = "file"
      /\ \A s \in Slots : Visible(s)' <=> root_dir'[s].kind = "file"
  BY <1>1 DEF ReadsAgree, Visible, Live
<1>8. SlotOf(n) = {s \in Slots : /\ root_dir[s].kind = "file" /\ root_dir[s].name = n
                                 /\ \A t \in 1..(s - 1) : root_dir[t].kind = "file" => root_dir[t].name # n}
  BY <1>1, <1>7 DEF SlotOf
<1>9. SlotOf(n)' = {s \in Slots : /\ root_dir'[s].kind = "file" /\ root_dir'[s].name = n
                                  /\ \A t \in 1..(s - 1) : root_dir'[t].kind = "file" => root_dir'[t].name # n}
  BY <1>1, <1>7 DEF SlotOf
<1>10. CASE op.name # n
  <2>1. u \notin SlotOf(n) /\ u \notin SlotOf(n)'
    BY <1>4, <1>5, <1>6, <1>8, <1>9, <1>10
  <2>2. \A t \in Slots : (root_dir'[t].kind = "file" /\ root_dir'[t].name = n)
                            <=> (root_dir[t].kind = "file" /\ root_dir[t].name = n)
    <3>1. ~(root_dir'[u].kind = "file" /\ root_dir'[u].name = n)
      BY <1>4, <1>5, <1>10
    <3> QED BY <1>4, <1>6, <3>1
  <2>3. ASSUME NEW s \in Slots PROVE s \in SlotOf(n)' <=> s \in SlotOf(n)
    <3>1. \A t \in 1..(s - 1) : t \in Slots
      BY <1>1
    <3>2. (\A t \in 1..(s - 1) : root_dir'[t].kind = "file" => root_dir'[t].name # n)
             <=> (\A t \in 1..(s - 1) : root_dir[t].kind = "file" => root_dir[t].name # n)
      BY <2>2, <3>1
    <3> QED BY <1>8, <1>9, <2>2, <3>2
  <2>4. SlotOf(n)' = SlotOf(n)
    BY <1>8, <1>9, <2>3
  <2>5. \A s \in SlotOf(n) : root_dir'[s] = root_dir[s]
    BY <1>4, <1>8, <2>1
  <2> QED BY <2>4, <2>5 DEF Content
<1>11. CASE op.name = n /\ \E t \in 1..(u - 1) : root_dir[t].kind = "file" /\ root_dir[t].name = n
  <2>1. PICK t \in 1..(u - 1) : root_dir[t].kind = "file" /\ root_dir[t].name = n
    BY <1>11
  <2>2. t \in Slots /\ t # u /\ root_dir'[t] = root_dir[t]
    BY <1>1, <1>2, <1>4
  <2>3. u \notin SlotOf(n) /\ u \notin SlotOf(n)'
    BY <1>6, <1>8, <1>9, <2>1, <2>2
  <2>4. ASSUME NEW s \in Slots, s # u PROVE s \in SlotOf(n)' <=> s \in SlotOf(n)
    <3>1. CASE s < u
      <4>1. \A x \in 1..(s - 1) : x \in Slots /\ x # u /\ root_dir'[x] = root_dir[x]
        BY <1>1, <1>4, <3>1
      <4> QED BY <1>4, <1>8, <1>9, <2>4, <4>1
    <3>2. CASE s > u
      <4>1. t \in 1..(s - 1)
        <5>1. s \in Nat /\ u \in Nat
          BY <1>1
        <5> QED BY <3>2, <5>1
      <4> QED BY <1>8, <1>9, <2>1, <2>2, <4>1
    <3> QED BY <1>1, <2>4, <3>1, <3>2
  <2>5. SlotOf(n)' = SlotOf(n)
    BY <1>8, <1>9, <2>3, <2>4
  <2>6. \A s \in SlotOf(n) : root_dir'[s] = root_dir[s]
    BY <1>4, <1>8, <2>3
  <2> QED BY <2>5, <2>6 DEF Content
<1>12. CASE op.name = n /\ ~\E t \in 1..(u - 1) : root_dir[t].kind = "file" /\ root_dir[t].name = n
  <2>1. \A t \in 1..(u - 1) : t \in Slots /\ t # u /\ root_dir'[t] = root_dir[t]
    BY <1>1, <1>2, <1>4
  <2>2. u \in SlotOf(n)'
    BY <1>4, <1>5, <1>9, <1>12, <2>1
  <2>3. ASSUME NEW s \in SlotOf(n)' PROVE s = u
    <3>1. s \in Slots /\ root_dir'[s].kind = "file" /\ root_dir'[s].name = n
          /\ \A t \in 1..(s - 1) : root_dir'[t].kind = "file" => root_dir'[t].name # n
      BY <1>9
    <3>2. ~(s < u)
      <4>1. CASE s < u
        <5>1. s \in 1..(u - 1)
          BY <1>1, <3>1, <4>1 DEF Slots
        <5> QED BY <1>12, <2>1, <3>1, <5>1
      <4> QED BY <4>1
    <3>3. ~(u < s)
      <4>1. CASE u < s
        <5>1. u \in 1..(s - 1)
          BY <1>1, <3>1, <4>1 DEF Slots
        <5> QED BY <1>4, <1>5, <1>12, <3>1, <5>1
      <4> QED BY <4>1
    <3> QED BY <1>1, <3>1, <3>2, <3>3
  <2>4. SlotOf(n)' = {u}
    BY <2>2, <2>3
  <2>5. (CHOOSE t \in SlotOf(n)' : TRUE) = u
    BY <2>4
  <2>6. Content(n)' = [j \in 1..root_dir'[u].size |-> [id |-> root_dir'[u].id, sector |-> j - 1]]
    BY <2>2, <2>5 DEF Content
  <2> QED BY <1>4, <1>5, <1>12, <2>6
<1> QED BY <1>10, <1>11, <1>12

\* What a name reads as changes only at the directory write of a fat16_write_file of
\* that name, and to what it wrote.
THEOREM ReadChangesOnlyByWriteThm == Spec => ReadChangesOnlyByWrite
<1> DEFINE Step == \A n \in Names :
               LET r == fat16_read_file(n, MAX_SECTORS) IN
               r'.out # r.out => /\ op.pc = "dir" /\ op.name = n
                               /\ r'.out = [j \in 1..op.size |-> [id |-> writes, sector |-> j - 1]]
<1>1. Fat16TypeOK /\ ReadsAgree /\ ReadsAgree' /\ [Next]_vars => [Step]_vars
  <2> SUFFICES ASSUME Fat16TypeOK, ReadsAgree, ReadsAgree', Next, NEW n \in Names,
                      Content(n)' # Content(n)
               PROVE  /\ op.pc = "dir" /\ op.name = n
                      /\ Content(n)' = [j \in 1..op.size |-> [id |-> writes, sector |-> j - 1]]
    BY DEF ReadsAgree
  <2>1. CASE write_dir
    BY <2>1, NewEntryContent DEF write_dir
  <2>2. CASE ~write_dir
    <3>1. root_dir' = root_dir /\ g_bpb' = g_bpb
      BY <2>2 DEF Next, WriteStep, write_begin, write_alloc, write_disk_full, write_link2, write_mark1,
         write_mark2, write_data, write_root_full, power_loss, disk, rest
    <3> QED BY <3>1 DEF Content, SlotOf, Visible, Slots
  <2> QED BY <2>1, <2>2
<1>2. Fat16TypeOK /\ DiskInv => ReadsAgree
  BY ReadsAsDirectorySays
<1> QED BY <1>1, <1>2, DiskInvariant, PTL DEF Spec, ReadChangesOnlyByWrite
=============================================================================
