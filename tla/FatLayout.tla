----------------------------- MODULE FatLayout ------------------------------
(***************************************************************************)
(* Where the FAT16 driver (src/fat16.c) puts what it writes: the geometry  *)
(* that fat16_init computes from the boot sector, and the sectors that the *)
(* tables, the directory and the clusters are written to.  A write is a    *)
(* pair of a sector number and a description of its content.  That these  *)
(* agree with the FAT16 format (Fat16!LayoutKept) is what allows module    *)
(* Fat16 to keep the two tables, the directory and the data in variables   *)
(* of their own.                                                           *)
(***************************************************************************)
EXTENDS Naturals

CONSTANTS
    Bpbs,          \* boot sectors: records as in struct fat16_bpb
    FAT_ENTRIES,   \* FAT entries in a sector (256)
    DIR_ENTRIES    \* directory entries in a sector (16)

END_MARKS == 65528   \* 0xFFF8: FAT entries from here on end a chain
WORD16 == 65536      \* values of a uint16_t

\* A volume of 2^16 sectors or more has its size in the second field.
total_sectors(b) ==
    IF b.total_sectors_small # 0 THEN b.total_sectors_small ELSE b.total_sectors_large

-----------------------------------------------------------------------------
(* The layout of a FAT16 volume, by its definition.                        *)

RootStart(b) == b.reserved_sectors + b.fat_count * b.sectors_per_fat
DataStart(b) == RootStart(b) + (b.root_dir_entries + DIR_ENTRIES - 1) \div DIR_ENTRIES

\* What belongs in a sector.
Region(b, lba) ==
    IF lba < b.reserved_sectors THEN <<"reserved">>
    ELSE IF lba < RootStart(b)
         THEN <<"fat", (lba - b.reserved_sectors) % b.sectors_per_fat>>
    ELSE IF lba < DataStart(b) THEN <<"dir", lba - RootStart(b)>>
    ELSE LET k == lba - DataStart(b)
         IN  <<"data", 2 + k \div b.sectors_per_clustor, k % b.sectors_per_clustor>>

\* The clusters that lie wholly inside the volume.
VolumeClusters(b) ==
    {c \in 2..(total_sectors(b) + 1) :
        DataStart(b) + (c - 1) * b.sectors_per_clustor <= total_sectors(b)}

\* What a formatter guarantees: a reserved sector (the boot sector), a table, a directory
\* of whole sectors, an entry in the table for every cluster, and no cluster whose number
\* is an end mark (a volume with more clusters is a FAT32 volume).  fat16_init checks none
\* of it.
Formatted(b) ==
    /\ b.reserved_sectors > 0 /\ b.fat_count > 0 /\ b.sectors_per_clustor > 0
    /\ b.root_dir_entries % DIR_ENTRIES = 0
    /\ total_sectors(b) >= DataStart(b)
    /\ \A c \in VolumeClusters(b) : c < b.sectors_per_fat * FAT_ENTRIES /\ c < END_MARKS

ASSUME BpbAssumption ==
    /\ FAT_ENTRIES \in Nat \ {0} /\ DIR_ENTRIES \in Nat \ {0}
    /\ Bpbs \subseteq [reserved_sectors : Nat, fat_count : Nat, sectors_per_fat : Nat,
                       root_dir_entries : Nat, total_sectors_small : Nat,
                       total_sectors_large : Nat, sectors_per_clustor : Nat]
    /\ \A b \in Bpbs : Formatted(b)

-----------------------------------------------------------------------------

\* Mutant: one copy of the FAT is assumed.
fat16_init_oneFat(b) ==
    LET root == b.reserved_sectors + b.sectors_per_fat
        n == b.root_dir_entries \div DIR_ENTRIES
    IN  [fat_start_sector |-> b.reserved_sectors, root_dir_start |-> root,
         root_dir_sectors |-> n, data_start_sector |-> root + n]

fat16_init(b) ==
    LET root == b.reserved_sectors + b.fat_count * b.sectors_per_fat
        n == b.root_dir_entries \div DIR_ENTRIES
    IN  [fat_start_sector |-> b.reserved_sectors, root_dir_start |-> root,
         root_dir_sectors |-> n, data_start_sector |-> root + n]

\* fat16_cluster_to_lba.
cluster_to_lba(b, c) == fat16_init(b).data_start_sector + (c - 2) * b.sectors_per_clustor

\* The clusters that fat16_find_free_cluster looks at; its limit is a uint16_t.
SearchedClusters(b) ==
    LET total_clusters ==
            (total_sectors(b) - fat16_init(b).data_start_sector) \div b.sectors_per_clustor
    IN  {c \in 2..(total_clusters + 1) : c < (total_clusters + 2) % WORD16}

\* fat16_write_fat_entry: the second copy follows the first, however many there are.
write_fat_entry(b, c) ==
    LET j == c \div FAT_ENTRIES
        fat1_sector == fat16_init(b).fat_start_sector + j
    IN  {<<fat1_sector, <<"fat", j>> >>, <<fat1_sector + b.sectors_per_fat, <<"fat", j>> >>}

\* The data of a cluster.
write_cluster(b, c) ==
    {<<cluster_to_lba(b, c) + s, <<"data", c, s>> >> : s \in 0..(b.sectors_per_clustor - 1)}

\* The root directory.
write_dir_sectors(b) ==
    {<<fat16_init(b).root_dir_start + s, <<"dir", s>> >> :
        s \in 0..(fat16_init(b).root_dir_sectors - 1)}

-----------------------------------------------------------------------------

\* Everything the driver writes to a volume with the boot sector b.
Writes(b) ==
    write_dir_sectors(b)
    \cup UNION {write_fat_entry(b, c) \cup write_cluster(b, c) : c \in SearchedClusters(b)}

\* A write inside the volume, of what belongs in that sector.
Placed(b, w) == w[1] < total_sectors(b) /\ w[2] = Region(b, w[1])

\* The write of a second table to a volume that has one: sector j of it lands j sectors
\* into what follows the table, the root directory and then the data.
Misplaced(b, w) ==
    b.fat_count = 1 /\ w[2][1] = "fat" /\ w[1] = RootStart(b) + w[2][2]
=============================================================================
