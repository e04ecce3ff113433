------------------------------- MODULE Fat16 -------------------------------
(***************************************************************************)
(* The FAT16 driver of CIndy-OS (src/fat16.c) on a disk that survives a    *)
(* power loss.  fat16_write_file changes the disk one sector at a time:    *)
(* each step below ends with one ata_write_sector, and the power can fail  *)
(* between any two of them.  The drive is taken to keep sectors in the     *)
(* order in which they were written.  Nothing repairs the file system when *)
(* the kernel starts again.                                                *)
(*                                                                         *)
(* Sizes count sectors.  What a sector holds is abstracted to a token: the *)
(* write that filled it and the sector's number in that file.              *)
(***************************************************************************)
EXTENDS FatLayout, Sequences, FiniteSets

CONSTANTS
    Names,                \* 8.3 file names
    Sizes,                \* sizes of the files written, in sectors
    InitialDisks,         \* the disks the system may start with
    MAX_WRITES,           \* bound: calls of fat16_write_file
    MAX_CRASHES           \* bound: power losses

FREE == 0                 \* the FAT entry of a free cluster
EOC == 65535              \* the FAT entry of the last cluster of a chain: any end mark

\* A directory slot: never used (0x00), deleted (0xE5), a long-name entry
\* (attribute 0x0F), or a file.
NeverUsed == [kind |-> "never"]
Deleted == [kind |-> "deleted"]
LongName == [kind |-> "lfn"]
File(n, c, s, w) == [kind |-> "file", name |-> n, first |-> c, size |-> s, id |-> w]

Entries ==
    {NeverUsed, Deleted, LongName}
    \cup [kind : {"file"}, name : Names, first : Nat, size : Nat, id : Nat]

\* In table fat, q is the chain of the file with entry e, in clusters of n sectors.  An
\* empty file has no cluster.
IsChain(q, fat, e, n) ==
    /\ Len(q) = (e.size + n - 1) \div n
    /\ e.first = IF q = <<>> THEN FREE ELSE q[1]
    /\ \A i \in 1..Len(q) : fat[q[i]] = IF i = Len(q) THEN EOC ELSE q[i + 1]

\* The clusters of q hold the sectors of that file, in order.
Holds(q, sectors, e, n) ==
    \A j \in 0..(e.size - 1) :
        sectors[<<q[(j \div n) + 1], j % n>>] = [id |-> e.id, sector |-> j]

\* No cluster is twice in the chains of a directory.
Apart(chain) ==
    \A s, t \in DOMAIN chain : \A i \in 1..Len(chain[s]), j \in 1..Len(chain[t]) :
        chain[s][i] = chain[t][j] => s = t /\ i = j

\* A disk the system may start with: a formatted volume with a second table (on one
\* without, the driver's first write destroys the directory: see Misplaced), on which each
\* file has a chain of its own (the record has them, by slot) and no other cluster is
\* allocated.
IsSoundDisk(d) ==
    LET C == VolumeClusters(d.bpb)
        S == 1..d.bpb.root_dir_entries
        n == d.bpb.sectors_per_clustor
    IN  /\ d.bpb \in Bpbs /\ d.bpb.fat_count > 1
        /\ d.fat \in [C -> Nat] /\ d.root_dir \in [S -> Entries]
        /\ d.data \in [C \X (0..(n - 1)) -> [id : Nat, sector : Nat]]
        /\ d.chain \in [S -> Seq(C)] /\ Apart(d.chain)
        /\ \A s \in S : d.root_dir[s].kind # "file" => d.chain[s] = <<>>
        /\ \A s \in S : d.root_dir[s].kind = "file" =>
              /\ \A t \in 1..(s - 1) : d.root_dir[t].kind # "never"
              /\ IsChain(d.chain[s], d.fat, d.root_dir[s], n)
              /\ Holds(d.chain[s], d.data, d.root_dir[s], n)
        /\ \A c \in C : d.fat[c] # FREE => \E s \in S : \E i \in 1..Len(d.chain[s]) : c = d.chain[s][i]

ASSUME Fat16Assumption ==
    /\ \A d \in InitialDisks : IsSoundDisk(d)
    /\ Sizes \subseteq Nat
    /\ MAX_WRITES \in Nat /\ MAX_CRASHES \in Nat

VARIABLES
    g_bpb,          \* the boot sector, as fat16_init copied it
    fat1, fat2,     \* the two copies of the FAT
    root_dir,       \* the root directory
    data,           \* the data sectors, indexed by cluster and sector in the cluster
    op,             \* the fat16_write_file in progress: its locals, and where it is
    writes, crashes,\* history: how many there have been
    failures        \* history: writes that ended with an error

disk == <<g_bpb, fat1, fat2, root_dir, data>>
rest == <<g_bpb, writes, crashes, failures>>
vars == <<g_bpb, fat1, fat2, root_dir, data, op, writes, crashes, failures>>

Idle == [pc |-> "idle"]

Clusters == SearchedClusters(g_bpb)
SECTORS_PER_CLUSTER == g_bpb.sectors_per_clustor
Slots == 1..g_bpb.root_dir_entries

-----------------------------------------------------------------------------
(* Reading.                                                                *)

\* The clusters a reader visits from c on, following FAT 1: k links after c.
FatWalk(c) ==
    LET step[k \in 0..Cardinality(Clusters)] ==
            IF k = 0 THEN c
            ELSE IF step[k - 1] \in Clusters THEN fat1[step[k - 1]] ELSE step[k - 1]
    IN  step

\* The scan of the root directory stops at the first slot that was never used.
Visible(s) ==
    root_dir[s].kind = "file" /\ \A t \in 1..(s - 1) : root_dir[t].kind # "never"

\* What fat16_ls lists.
fat16_ls == {s \in Slots : Visible(s)}

\* The slot fat16_read_file uses for a name: the first visible one.
SlotOf(n) ==
    {s \in Slots : /\ Visible(s) /\ root_dir[s].name = n
                   /\ \A t \in 1..(s - 1) : Visible(t) => root_dir[t].name # n}

\* What fat16_read_file copies of the file in slot s to a buffer of max_size sectors.
SectorsRead(s, max_size) ==
    LET walk == FatWalk(root_dir[s].first)
        left == IF root_dir[s].size > max_size THEN max_size ELSE root_dir[s].size
        Reached(j) == j \div SECTORS_PER_CLUSTER <= Cardinality(Clusters)
                      /\ walk[j \div SECTORS_PER_CLUSTER] \in Clusters
        n == Cardinality({j \in 0..(left - 1) : Reached(j)})
    IN  [j \in 1..n |-> data[<<walk[(j - 1) \div SECTORS_PER_CLUSTER],
                               (j - 1) % SECTORS_PER_CLUSTER>>]]

\* fat16_read_file: the value returned is the size in the directory entry.
fat16_read_file(n, max_size) ==
    IF SlotOf(n) = {} THEN [ret |-> "not found", out |-> <<>>]
    ELSE LET s == CHOOSE t \in SlotOf(n) : TRUE
         IN  [ret |-> root_dir[s].size, out |-> SectorsRead(s, max_size)]

-----------------------------------------------------------------------------
(* Writing.                                                                *)

\* Mutant: the scan starts over at the first cluster, free or not.
IsFirstFreeCluster_lowest(c) == \A d \in Clusters : c <= d

\* The lowest-numbered free cluster: fat16_find_free_cluster.
IsFirstFreeCluster(c) ==
    fat1[c] = FREE /\ \A d \in Clusters : fat1[d] = FREE => c <= d

MAX_SECTORS == Cardinality(Clusters) * SECTORS_PER_CLUSTER  \* the longest file

ClustersNeeded(size) == (size + SECTORS_PER_CLUSTER - 1) \div SECTORS_PER_CLUSTER

\* The second half of fat16_write_fat_entry: the whole sector of FAT 1 that holds
\* the entry of cluster c, as it was just written, goes to FAT 2.
CopyToFat2(c) ==
    fat2' = [d \in Clusters |->
               IF d \div FAT_ENTRIES = c \div FAT_ENTRIES THEN fat1[d] ELSE fat2[d]]

Init ==
    /\ \E d \in InitialDisks :
          g_bpb = d.bpb /\ fat1 = d.fat /\ fat2 = d.fat /\ root_dir = d.root_dir /\ data = d.data
    /\ op = Idle
    /\ writes = 0 /\ crashes = 0 /\ failures = 0

\* fat16_write_file is called; it returns at once for an empty file.
write_begin(n, size) ==
    /\ op = Idle
    /\ writes < MAX_WRITES
    /\ writes' = writes + 1
    /\ op' = IF ClustersNeeded(size) = 0 THEN Idle
             ELSE [pc |-> "alloc", name |-> n, size |-> size, i |-> 0,
                   first |-> 0, prev |-> 0, free_c |-> 0, written |-> 0]
    /\ UNCHANGED <<disk, crashes, failures>>

\* A free cluster is found.  The first one is marked as the end of the chain, a later
\* one is first linked to the previous cluster: both in FAT 1.
write_alloc ==
    /\ op.pc = "alloc"
    /\ \E c \in Clusters :
          /\ IsFirstFreeCluster(c)
          /\ IF op.i = 0
             THEN /\ fat1' = [fat1 EXCEPT ![c] = EOC]
                  /\ op' = [op EXCEPT !.pc = "mark2", !.first = c, !.free_c = c]
             ELSE /\ fat1' = [fat1 EXCEPT ![op.prev] = c]
                  /\ op' = [op EXCEPT !.pc = "link2", !.free_c = c]
    /\ UNCHANGED <<fat2, root_dir, data, rest>>

\* "disk full": the clusters allocated so far are not given back.
write_disk_full ==
    /\ op.pc = "alloc"
    /\ \A c \in Clusters : fat1[c] # FREE
    /\ op' = Idle /\ failures' = failures + 1
    /\ UNCHANGED <<disk, writes, crashes>>

\* FAT 2 follows: the previous cluster points to the new one.
write_link2 ==
    /\ op.pc = "link2"
    /\ CopyToFat2(op.prev)
    /\ op' = [op EXCEPT !.pc = "mark1"]
    /\ UNCHANGED <<fat1, root_dir, data, rest>>

\* Mutant: a linked cluster is not marked as the end of the chain.
write_mark1_skipped ==
    /\ op.pc = "mark1"
    /\ op' = [op EXCEPT !.pc = "mark2"]
    /\ UNCHANGED <<fat1, fat2, root_dir, data, rest>>

\* The linked cluster becomes the end of the chain, in FAT 1.
write_mark1 ==
    /\ op.pc = "mark1"
    /\ fat1' = [fat1 EXCEPT ![op.free_c] = EOC]
    /\ op' = [op EXCEPT !.pc = "mark2"]
    /\ UNCHANGED <<fat2, root_dir, data, rest>>

\* Mutant: the new cluster is marked in FAT 1 only.
write_mark2_skipped ==
    /\ op.pc = "mark2"
    /\ op' = IF op.i + 1 < ClustersNeeded(op.size)
             THEN [op EXCEPT !.pc = "alloc", !.i = @ + 1, !.prev = op.free_c]
             ELSE [op EXCEPT !.pc = "data", !.prev = op.first]
    /\ UNCHANGED <<fat1, fat2, root_dir, data, rest>>

\* Mutant: the loop forgets to advance to the new cluster.
write_mark2_samePrev ==
    /\ op.pc = "mark2"
    /\ CopyToFat2(op.free_c)
    /\ op' = IF op.i + 1 < ClustersNeeded(op.size)
             THEN [op EXCEPT !.pc = "alloc", !.i = @ + 1, !.prev = op.first]
             ELSE [op EXCEPT !.pc = "data", !.prev = op.first]
    /\ UNCHANGED <<fat1, root_dir, data, rest>>

\* FAT 2 follows; the loop goes on with the next cluster or the data phase starts,
\* in which prev is the loop's curr_cluster.
write_mark2 ==
    /\ op.pc = "mark2"
    /\ CopyToFat2(op.free_c)
    /\ op' = IF op.i + 1 < ClustersNeeded(op.size)
             THEN [op EXCEPT !.pc = "alloc", !.i = @ + 1, !.prev = op.free_c]
             ELSE [op EXCEPT !.pc = "data", !.prev = op.first]
    /\ UNCHANGED <<fat1, root_dir, data, rest>>

\* Mutant: the last sector of the file is not written.
write_data_oneShort ==
    /\ op.pc = "data"
    /\ data' = [data EXCEPT ![<<op.prev, op.written % SECTORS_PER_CLUSTER>>] =
                               [id |-> writes, sector |-> op.written]]
    /\ LET done == op.written + 2 >= op.size
           next == IF (op.written + 1) % SECTORS_PER_CLUSTER = 0 THEN fat1[op.prev] ELSE op.prev
       IN  op' = IF done \/ next \notin Clusters
                 THEN [op EXCEPT !.pc = "dir"]
                 ELSE [op EXCEPT !.written = @ + 1, !.prev = next]
    /\ UNCHANGED <<fat1, fat2, root_dir, rest>>

\* Mutant: the loop does not count what it has written.
write_data_uncounted ==
    /\ op.pc = "data"
    /\ data' = [data EXCEPT ![<<op.prev, op.written % SECTORS_PER_CLUSTER>>] =
                               [id |-> writes, sector |-> op.written]]
    /\ LET done == op.written + 1 >= op.size
           next == IF (op.written + 1) % SECTORS_PER_CLUSTER = 0 THEN fat1[op.prev] ELSE op.prev
       IN  op' = IF done \/ next \notin Clusters
                 THEN [op EXCEPT !.pc = "dir"]
                 ELSE op
    /\ UNCHANGED <<fat1, fat2, root_dir, rest>>

\* One sector of data.  At the end of a cluster the FAT gives the next one.
write_data ==
    /\ op.pc = "data"
    /\ data' = [data EXCEPT ![<<op.prev, op.written % SECTORS_PER_CLUSTER>>] =
                               [id |-> writes, sector |-> op.written]]
    /\ LET done == op.written + 1 >= op.size
           next == IF (op.written + 1) % SECTORS_PER_CLUSTER = 0 THEN fat1[op.prev] ELSE op.prev
       IN  op' = IF done \/ next \notin Clusters
                 THEN [op EXCEPT !.pc = "dir"]
                 ELSE [op EXCEPT !.written = @ + 1, !.prev = next]
    /\ UNCHANGED <<fat1, fat2, root_dir, rest>>

\* The first slot that was never used or was deleted.
IsFirstOpenSlot(s) ==
    /\ root_dir[s].kind \in {"never", "deleted"}
    /\ \A t \in 1..(s - 1) : root_dir[t].kind \notin {"never", "deleted"}

\* The directory entry: the file exists from here on.
write_dir ==
    /\ op.pc = "dir"
    /\ \E s \in Slots :
          /\ IsFirstOpenSlot(s)
          /\ root_dir' = [root_dir EXCEPT ![s] = File(op.name, op.first, op.size, writes)]
    /\ op' = Idle
    /\ UNCHANGED <<fat1, fat2, data, rest>>

\* "root directory full": the file's clusters stay allocated.
write_root_full ==
    /\ op.pc = "dir"
    /\ \A s \in Slots : root_dir[s].kind \notin {"never", "deleted"}
    /\ op' = Idle /\ failures' = failures + 1
    /\ UNCHANGED <<disk, writes, crashes>>

WriteStep ==
    \/ write_alloc \/ write_disk_full \/ write_link2 \/ write_mark1 \/ write_mark2
    \/ write_data \/ write_dir \/ write_root_full

\* The power fails in the middle of a write: the locals are gone, the disk is not.
power_loss ==
    /\ op # Idle
    /\ crashes < MAX_CRASHES
    /\ crashes' = crashes + 1
    /\ op' = Idle
    /\ UNCHANGED <<disk, writes, failures>>

Next ==
    \/ \E n \in Names, size \in Sizes : write_begin(n, size)
    \/ WriteStep
    \/ power_loss

\* The driver runs to the end of a write unless the power fails: it is called from
\* the keyboard interrupt and nothing else touches the disk.
Spec == Init /\ [][Next]_vars /\ WF_vars(WriteStep)

-----------------------------------------------------------------------------
(* Properties.                                                             *)

Live(s) == root_dir[s].kind = "file"

\* The clusters of the file in slot s.
ChainOf(s) == {FatWalk(root_dir[s].first)[k] : k \in 0..Cardinality(Clusters)} \cap Clusters

\* Whatever writes were interrupted and wherever, each file of the directory owns a
\* chain of allocated clusters that ends with an end mark, is as long as its size
\* needs, and shares no cluster with another file.  (A file that another system left
\* empty has no chain, and no end mark.)
ChainsSound ==
    /\ \A s \in Slots : Live(s) =>
          /\ root_dir[s].size > 0 => FatWalk(root_dir[s].first)[Cardinality(Clusters)] = EOC
          /\ Cardinality(ChainOf(s)) = ClustersNeeded(root_dir[s].size)
    /\ \A s, t \in Slots : Live(s) /\ Live(t) /\ s # t => ChainOf(s) \cap ChainOf(t) = {}

\* Every file of the directory is listed and can be read back in full: the slot is
\* reached by the scan, and the sectors found along its chain are the ones its write stored, in
\* order.  A power loss never leaves an entry whose data is missing, and no later
\* write, finished or not, touches the data of an earlier file.
FilesIntact ==
    \A s \in Slots : Live(s) =>
        /\ s \in fat16_ls
        /\ SectorsRead(s, root_dir[s].size) =
              [j \in 1..root_dir[s].size |-> [id |-> root_dir[s].id, sector |-> j - 1]]

\* FAT 2 mirrors FAT 1 but for the entry being written and one entry per power loss.
MirrorLag ==
    Cardinality({c \in Clusters : fat1[c] # fat2[c]})
        <= crashes + (IF op = Idle THEN 0 ELSE 1)

\* Clusters are lost only to power losses and to writes that ran out of space: without
\* them, every allocated cluster belongs to a file.  The error paths give nothing back.
LeaksOnlyOnFailure ==
    op = Idle /\ crashes = 0 /\ failures = 0 =>
        \A c \in Clusters : fat1[c] # FREE => \E s \in Slots : Live(s) /\ c \in ChainOf(s)

\* What a name reads as changes only when a write of that name ends, and to what it
\* wrote: names do not vanish, and the entries that rewriting a name leaves behind never
\* come back in front of it by another name's write.
ReadChangesOnlyByWrite ==
    [][\A n \in Names :
          LET r == fat16_read_file(n, MAX_SECTORS) IN
          r'.out # r.out => /\ op.pc = "dir" /\ op.name = n
                          /\ r'.out = [j \in 1..op.size |-> [id |-> writes, sector |-> j - 1]]]_vars

\* The clusters that can be allocated are exactly the volume's, to the last one that is
\* complete, and each write lands where the FAT16 format puts that table sector, directory
\* sector or cluster, but for the second table of a volume that has only one.
VolumesKept ==
    \A b \in Bpbs :
        /\ SearchedClusters(b) = VolumeClusters(b)
        /\ \A w \in Writes(b) : Placed(b, w) \/ Misplaced(b, w)

\* That holds of every formatted volume; and on the one in use no write is misplaced.
LayoutKept == VolumesKept /\ \A w \in Writes(g_bpb) : Placed(g_bpb, w)

\* A write ends, with its file in the directory or an error.
WriteTerminates == (op # Idle) ~> (op = Idle)
=============================================================================
