------------------------------ MODULE MCFat16 ------------------------------
(* Six clusters of two sectors and a sector left over, two sectors of FAT, four     *)
(* directory slots.  The disk is fresh, or one that another system used: a          *)
(* long-name entry, a deleted file and a file of two clusters with a cluster of     *)
(* another file, since deleted, between them; or one empty file.  Then the fresh    *)
(* volumes of up to 10 sectors, with clusters of one to three sectors and two or    *)
(* three tables; the layout is also checked for one table.                          *)
EXTENDS Fat16

MCBpb ==
    [reserved_sectors |-> 1, fat_count |-> 2, sectors_per_fat |-> 2, root_dir_entries |-> 4,
     total_sectors_small |-> 0, total_sectors_large |-> 20, sectors_per_clustor |-> 2]

SmallBpbs ==
    {b \in [reserved_sectors : 1..2, fat_count : 1..3, sectors_per_fat : 1..2,
            root_dir_entries : {2, 4}, total_sectors_small : 8..10,
            total_sectors_large : {0}, sectors_per_clustor : 1..3] :
        /\ total_sectors(b) >= DataStart(b)
        /\ \A c \in VolumeClusters(b) : c < b.sectors_per_fat * FAT_ENTRIES}

MCBpbs == SmallBpbs \cup {MCBpb}

NoData == [id |-> 99, sector |-> 0]

FreshDisk(b) ==
    [bpb |-> b,
     fat |-> [c \in VolumeClusters(b) |-> FREE],
     root_dir |-> [s \in 1..b.root_dir_entries |-> NeverUsed],
     chain |-> [s \in 1..b.root_dir_entries |-> <<>>],
     data |-> [x \in VolumeClusters(b) \X (0..(b.sectors_per_clustor - 1)) |-> NoData]]

UsedDisk ==
    [FreshDisk(MCBpb) EXCEPT
        !.fat[2] = 4, !.fat[4] = EOC,
        !.root_dir[1] = LongName, !.root_dir[2] = Deleted, !.root_dir[3] = File("A", 2, 3, 0),
        !.chain[3] = <<2, 4>>,
        !.data[2, 0] = [id |-> 0, sector |-> 0],
        !.data[2, 1] = [id |-> 0, sector |-> 1],
        !.data[4, 0] = [id |-> 0, sector |-> 2]]

EmptyFileDisk == [FreshDisk(MCBpb) EXCEPT !.root_dir[1] = File("B", FREE, 0, 0)]

MCInitialDisks == {UsedDisk, EmptyFileDisk} \cup {FreshDisk(b) : b \in {v \in MCBpbs : v.fat_count > 1}}
=============================================================================
