------------------------------- MODULE Fat32 -------------------------------
(***************************************************************************)
(* The FAT32 file system (fs/fat32.c) and the part of the flat name space  *)
(* of fs/vfs.c that it fills, under the shell commands touch, mkdir, rm,   *)
(* rm -r, rmdir and vfswrite.  The commands exclude each other (one shell, *)
(* which waits for its programs), and power may be lost between any two    *)
(* sector writes of one of them.                                           *)
(*                                                                         *)
(* A leaf name is a model value; what the code computes from its           *)
(* characters is given by the constants below.  A path is a sequence of    *)
(* leaf names.  The bytes of files are left out, but for what they are     *)
(* taken for where directory entries are looked for; file sizes are not.   *)
(***************************************************************************)
EXTENDS Integers, Sequences, FiniteSetsExt, SequencesExt

CONSTANTS
  Leaves,       \* the leaf names a user types
  LfnEntries,   \* leaf -> entries of its long name, 0 when it fits 8.3
  ShortOf,      \* leaf -> the 8.3 name of to_short_name, a leaf that fits 8.3
  Tags,         \* 8.3 name -> its forms with ~1, ~2, ..., enough of them
  Folded,       \* leaf -> its lower-case form, what str_eq_ci compares
  Volumes,      \* the volumes: [last, slots, files, typed, depth, writes, bytes, fails],
                \* where
                \*   last   is the last cluster, total_clusters + 1
                \*   slots  are the directory entries of a cluster
                \*   files  is FAT32_MAX_FILES
                \*   typed  are the leaf names that are typed (bound)
                \*   depth  is the length of the longest path (bound)
                \*   writes are the <<offset, length>> that are written (bound)
                \*   bytes  is the directory entry that the bytes of files look like
                \*   fails  says whether power may be lost
  ClusterSize,  \* bytes of one cluster
  MaxDepth      \* FAT32_MAX_DEPTH

Root     == 2
EOC      == -1
Free     == 0
NoFile   == 0

ASSUME Fat32Assumption ==
  /\ ClusterSize \in Nat \ {0} /\ MaxDepth \in Nat
  /\ \A v \in Volumes : /\ v.last \in Nat /\ v.last >= Root
                        /\ v.slots \in Nat /\ v.slots >= 2
                        /\ v.typed \subseteq Leaves /\ v.depth \in Nat
                        /\ v.writes \subseteq Nat \X Nat
  /\ \A x \in Leaves : /\ LfnEntries[x] \in Nat /\ LfnEntries[ShortOf[x]] = 0
                       /\ LfnEntries[x] = 0 => ShortOf[x] = x

VARIABLES
  vol,      \* the volume
  disk,     \* [fat, ent, free, next, past]: the FAT, the directory clusters,
            \*   FSInfo, and within a command the disks before each write
  nodes,    \* the registered vfs_node_t of files and directories
  leaked,   \* the clusters of mkdir calls that failed after allocating them
  failed,   \* power was lost
  safe,     \* what was registered then and was not being removed
  shown     \* what a boot would have registered before that command

vars == <<vol, disk, nodes, leaked, failed, safe, shown>>

Clusters == 2..vol.last
SlotsPer == vol.slots

-----------------------------------------------------------------------------
(* Directory entries.  The sum of a long name entry is lfn_checksum of the *)
(* short name, and stands for it.                                          *)
Zero    == [kind |-> "zero"]
Deleted == [kind |-> "deleted"]
Dot     == [kind |-> "dot"]
Lfn(leaf, seq, first, sum)    == [kind |-> "lfn", leaf |-> leaf, seq |-> seq,
                                  first |-> first, sum |-> sum]
Short(name, dir, start, size) == [kind |-> "short", name |-> name, dir |-> dir,
                                  start |-> start, size |-> size]

IsFree(e) == e.kind \in {"zero", "deleted"}

EmptyCluster == [k \in 1..SlotsPer |-> Zero]
FileBytes    == [k \in 1..SlotsPer |-> vol.bytes]
NewDirectory == [k \in 1..SlotsPer |-> IF k <= 2 THEN Dot ELSE Zero]

(* The clusters that fat_get_entry leads through from c.  Loops are        *)
(* recursive functions of the number of turns taken.                       *)
Chain(fat, c) ==
  LET walk[i \in 0..Cardinality(DOMAIN fat)] ==
        IF i = 0 THEN <<c>>
        ELSE LET q == walk[i - 1]
             IN IF fat[Last(q)] \in DOMAIN fat THEN Append(q, fat[Last(q)]) ELSE q
  IN IF c \in DOMAIN fat THEN walk[Cardinality(DOMAIN fat)] ELSE <<>>

(* The places of a directory's entries, in order. *)
Places(d, dir) ==
  LET chain == Chain(d.fat, dir)
  IN [i \in 1..(Len(chain) * SlotsPer) |->
        <<chain[(i - 1) \div SlotsPer + 1], ((i - 1) % SlotsPer) + 1>>]

At(d, p) == d.ent[p[1]][p[2]]

(* Every change of the disk is one of these sector writes. *)
Past(d) == IF vol.fails THEN Append(d.past, [d EXCEPT !.past = <<>>]) ELSE <<>>

fat_set_entry(d, c, v)     == [d EXCEPT !.fat[c] = v, !.past = Past(d)]
fsinfo_save(d, free, next) == [d EXCEPT !.free = free, !.next = next, !.past = Past(d)]
Put(d, p, e)               == [d EXCEPT !.ent[p[1]][p[2]] = e, !.past = Past(d)]
PutCluster(d, c, entries)  == [d EXCEPT !.ent[c] = entries, !.past = Past(d)]

-----------------------------------------------------------------------------
(* fat32_alloc_cluster: from the hint to the end, then from the start.     *)
Allocatable(d) ==
  LET all == {c \in Clusters : d.fat[c] = Free}
      up  == {c \in all : c >= d.next}
  IN IF up # {} THEN up ELSE all

fat32_alloc_cluster_NotMarked(d) ==  \* mutant: the entry stays free
  fsinfo_save(d, IF d.free > 0 THEN d.free - 1 ELSE d.free, Min(Allocatable(d)) + 1)

fat32_alloc_cluster(d) ==
  LET new == Min(Allocatable(d))
  IN fsinfo_save(fat_set_entry(d, new, EOC), IF d.free > 0 THEN d.free - 1 ELSE d.free, new + 1)

(* A chain that ends in cluster last gets one more cluster. *)
AppendCluster_LinkFirst(d, last) ==  \* mutant: the link is written before the end mark
  LET new == Min(Allocatable(d))
      linked == fat_set_entry(d, last, new)
  IN fsinfo_save(fat_set_entry(linked, new, EOC), IF d.free > 0 THEN d.free - 1 ELSE d.free, new + 1)

AppendCluster(d, last) ==
  LET new == Min(Allocatable(d)) IN fat_set_entry(fat32_alloc_cluster(d), last, new)

(* free_chain: a freed cluster keeps what is in it. *)
FreedInOrder(d, chain) ==
  LET after[i \in 0..Len(chain)] ==
        IF i = 0 THEN d ELSE fat_set_entry(after[i - 1], chain[i], Free)
  IN after[Len(chain)]

free_chain_NotCounted(d, start) ==  \* mutant
  FreedInOrder(d, Chain(d.fat, start))

free_chain(d, start) ==
  LET chain == Chain(d.fat, start)
  IN IF chain = <<>> THEN d
     ELSE fsinfo_save(FreedInOrder(d, chain), d.free + Len(chain), d.next)

-----------------------------------------------------------------------------
(* find_free_dir_slot, find_free_dir_slots: the first run of n free        *)
(* entries, or the free entries at the end and as many new clusters as are *)
(* missing; clusters added before the disk is full stay in the directory.  *)
FreeRuns(d, dir, n) ==
  LET ps == Places(d, dir)
  IN {i \in 1..(Len(ps) - n + 1) : \A j \in i..(i + n - 1) : IsFree(At(d, ps[j]))}

(* The new cluster is part of the directory before it is cleared. *)
GrowDirectory(d, dir) ==
  LET new == Min(Allocatable(d))
  IN PutCluster(AppendCluster(d, Last(Chain(d.fat, dir))), new, EmptyCluster)

GrowOnce(d, dir, n) ==
  IF FreeRuns(d, dir, n) # {} \/ Allocatable(d) = {} THEN d ELSE GrowDirectory(d, dir)

GrowFor(d, dir, n) ==
  LET after[i \in 0..n] == IF i = 0 THEN d ELSE GrowOnce(after[i - 1], dir, n)
  IN after[n]

find_free_dir_slots(d, dir, n) ==
  LET g == GrowFor(d, dir, n)
      runs == FreeRuns(g, dir, n)
  IN [disk |-> g, ok |-> runs # {},
      places |-> IF runs = {} THEN <<>> ELSE SubSeq(Places(g, dir), Min(runs), Min(runs) + n - 1)]

(* gen_short_name: the plain 8.3 name, or the first tag ~n nobody has.     *)
Tagged(name, n) == IF n = 0 THEN name ELSE Tags[name][n]

ShortEntries(d, dir) ==
  LET ps == Places(d, dir)
  IN {e \in {At(d, ps[i]) : i \in 1..Len(ps)} : e.kind = "short"}

short_name_exists(d, dir, name) == \E e \in ShortEntries(d, dir) : e.name = name

gen_short_name(d, dir, leaf) ==
  LET free == {n \in 0..Len(Tags[ShortOf[leaf]]) : ~short_name_exists(d, dir, Tagged(ShortOf[leaf], n))}
  IN Tagged(ShortOf[leaf], Min(free))

NameFor(d, dir, leaf) ==
  IF LfnEntries[leaf] > 0 THEN gen_short_name(d, dir, leaf) ELSE ShortOf[leaf]

(* write_lfn_and_short, or write_dir_entry alone: the long name, last part *)
(* first, then the short entry.                                            *)
write_long_Forward(d, places, leaf, sum) ==  \* mutant: the parts in reading order
  LET after[i \in 0..LfnEntries[leaf]] ==
        IF i = 0 THEN d ELSE Put(after[i - 1], places[i], Lfn(leaf, i, i = 1, sum))
  IN after[LfnEntries[leaf]]

write_long(d, places, leaf, sum) ==
  LET n == LfnEntries[leaf]
      after[i \in 0..n] ==
        IF i = 0 THEN d ELSE Put(after[i - 1], places[i], Lfn(leaf, n + 1 - i, i = 1, sum))
  IN after[n]

write_entries(d, places, leaf, short) ==
  Put(write_long(d, places, leaf, short.name), places[LfnEntries[leaf] + 1], short)

-----------------------------------------------------------------------------
(* vfs_find *)
FoldPath(p) == [i \in 1..Len(p) |-> Folded[p[i]]]

Found(path) == {n \in nodes : FoldPath(n.path) = FoldPath(path)}

vfs_find(path) == CHOOSE n \in Found(path) : TRUE

Node(path, dir, start, at, size) ==
  [path |-> path, dir |-> dir, start |-> start, at |-> at, size |-> size]

(* fat32_init and fat32_scan_dir on the disk as it is: what a reboot would *)
(* register.  The long name of a short entry is the run of long name       *)
(* entries before it, across clusters, when it is complete and its         *)
(* checksum is right.                                                      *)
LongName(d, ps, i) ==
  LET e(k) == At(d, ps[k])
      ok(n) == /\ n < i
               /\ \A k \in 1..n : /\ e(i - k).kind = "lfn" /\ e(i - k).seq = k
                                  /\ e(i - k).sum = e(i).name
                                  /\ e(i - k).first <=> k = n
      lens == {n \in 1..Len(ps) : ok(n)}
  IN IF lens = {} THEN e(i).name ELSE e(i - 1).leaf

LiveIndices(d, ps) ==
  {i \in 1..Len(ps) : At(d, ps[i]).kind = "short" /\ \A j \in 1..i : At(d, ps[j]).kind # "zero"}

Listed(d, dir, prefix) ==
  LET ps == Places(d, dir)
  IN {LET e == At(d, ps[i])
      IN Node(Append(prefix, LongName(d, ps, i)), e.dir, e.start, ps[i], e.size) :
        i \in LiveIndices(d, ps)}

Level(d, S) == UNION {Listed(d, n.start, n.path) : n \in {m \in S : m.dir}}

fat32_scan_dir(d) ==
  LET upto[i \in 0..MaxDepth] ==
        IF i = 0 THEN Listed(d, Root, <<>>)
        ELSE LET above == upto[i - 1] IN above \cup Level(d, {n \in above : Len(n.path) = i})
  IN upto[MaxDepth]

(* resolve_parent *)
HasParent(path) ==
  Len(path) = 1 \/ \E n \in Found(Front(path)) : n.dir

ParentCluster(path) ==
  IF Len(path) = 1 THEN Root ELSE vfs_find(Front(path)).start

MayCreate(path) ==
  /\ Cardinality(nodes) < vol.files
  /\ HasParent(path)
  /\ Found(path) = {}

(* How a command ends.  With d.past the disks it went through, power is    *)
(* lost at one of them instead and the next boot mounts that disk, where   *)
(* the cluster of a directory may not be cleared yet.  nodes are then all  *)
(* that the mount finds; the code stops when its table of nodes is full.   *)
Commit(d, registered, lost) ==
  /\ disk' = [d EXCEPT !.past = <<>>]
  /\ nodes' = registered /\ leaked' = lost
  /\ UNCHANGED <<vol, failed, safe, shown>>

PowerLoss(d, removed) ==
  /\ \E i \in DOMAIN d.past : disk' = d.past[i]
  /\ nodes' = fat32_scan_dir(disk')
  /\ failed' = TRUE /\ safe' = nodes \ removed /\ shown' = fat32_scan_dir(disk)
  /\ UNCHANGED <<vol, leaked>>

Ends(d, registered, lost, removed) ==
  Commit(d, registered, lost) \/ PowerLoss(d, removed)

(* fat32_create_file; touch *)
fat32_create_file(path) ==
  /\ MayCreate(path)
  /\ LET dir  == ParentCluster(path)
         leaf == Last(path)
         name == NameFor(disk, dir, leaf)
         got  == find_free_dir_slots(disk, dir, LfnEntries[leaf] + 1)
         short == Short(name, FALSE, NoFile, 0)
     IN IF ~got.ok THEN Ends(got.disk, nodes, leaked, {})
        ELSE Ends(write_entries(got.disk, got.places, leaf, short),
                  nodes \cup {Node(path, FALSE, NoFile, Last(got.places), 0)}, leaked, {})

(* fat32_mkdir allocates first: when the parent directory cannot grow, the *)
(* new cluster is lost.                                                    *)
fat32_mkdir(path) ==
  /\ MayCreate(path)
  /\ Allocatable(disk) # {}
  /\ LET dir  == ParentCluster(path)
         leaf == Last(path)
         new  == Min(Allocatable(disk))
         d    == fat32_alloc_cluster(disk)
         name == NameFor(d, dir, leaf)
         got  == find_free_dir_slots(d, dir, LfnEntries[leaf] + 1)
         short == Short(name, TRUE, new, 0)
     IN IF ~got.ok THEN Ends(got.disk, nodes, leaked \cup {new}, {})
        ELSE Ends(PutCluster(write_entries(got.disk, got.places, leaf, short), new, NewDirectory),
                  nodes \cup {Node(path, TRUE, new, Last(got.places), 0)}, leaked, {})

-----------------------------------------------------------------------------
update_dirent_cluster(d, at, start) == Put(d, at, [At(d, at) EXCEPT !.start = start])

update_dirent_size(d, at, size) == Put(d, at, [At(d, at) EXCEPT !.size = size])

(* fat32_file_write: the loop comes to the i-th cluster of the file, which *)
(* it may have to append, and writes the file's bytes from the cluster     *)
(* first on.                                                               *)
Reached(d, start, i) ==
  LET chain == Chain(d.fat, start)
  IN IF Len(chain) >= i \/ Allocatable(d) = {} THEN d ELSE AppendCluster(d, Last(chain))

WriteOnce(d, start, i, first) ==
  LET g == Reached(d, start, i)
      chain == Chain(g.fat, start)
  IN IF first <= i /\ i <= Len(chain) THEN PutCluster(g, chain[i], FileBytes) ELSE g

Written(d, start, first, last) ==
  LET after[i \in 0..last] == IF i = 0 THEN d ELSE WriteOnce(after[i - 1], start, i, first)
  IN after[last]

fat32_file_write(n, off, len) ==
  /\ ~n.dir
  /\ n.start # NoFile \/ Allocatable(disk) # {}
  /\ LET fresh == n.start = NoFile
         start == IF fresh THEN Min(Allocatable(disk)) ELSE n.start
         d0    == IF fresh THEN update_dirent_cluster(fat32_alloc_cluster(disk), n.at, start)
                  ELSE disk
         first == off \div ClusterSize + 1
         last  == IF len = 0 THEN first ELSE (off + len - 1) \div ClusterSize + 1
         d1    == Written(d0, start, IF len = 0 THEN last + 1 ELSE first, last)
         have  == Len(Chain(d1.fat, start)) * ClusterSize
         end   == IF have >= off + len THEN off + len ELSE have
         size  == IF first * ClusterSize <= have /\ end > n.size THEN end ELSE n.size
         d2    == IF size > n.size THEN update_dirent_size(d1, n.at, size) ELSE d1
     IN Ends(d2, (nodes \ {n}) \cup {[n EXCEPT !.start = start, !.size = size]}, leaked, {})

-----------------------------------------------------------------------------
(* mark_removed_with_lfn searches the long name only in the cluster of the *)
(* short entry.                                                            *)
LfnRun(d, at) ==
  LET c == at[1]
      sum == At(d, at).name
      OfRun(j) == \A i \in j..(at[2] - 1) :
                    /\ d.ent[c][i].kind = "lfn"
                    /\ d.ent[c][i].sum = sum
                    /\ d.ent[c][i].seq = at[2] - i
                    /\ d.ent[c][i].first <=> i = j
      starts == {j \in 1..(at[2] - 1) : OfRun(j)}
  IN UNION {j..(at[2] - 1) : j \in starts}

mark_removed_ShortOnly(d, at) == Put(d, at, Deleted)  \* mutant

mark_removed_with_lfn(d, at) ==
  LET run == LfnRun(d, at)
      after[k \in 0..SlotsPer] ==
        IF k = 0 THEN Put(d, at, Deleted)
        ELSE IF k \in run THEN Put(after[k - 1], <<at[1], k>>, Deleted) ELSE after[k - 1]
  IN IF At(d, at).kind # "short" THEN d ELSE after[SlotsPer]

(* remove_single_node *)
remove_single_node_KeepsChain(d, n) == mark_removed_with_lfn(d, n.at)  \* mutant

remove_single_node(d, n) == mark_removed_with_lfn(free_chain(d, n.start), n.at)

dir_is_empty(d, dir) == ShortEntries(d, dir) = {}

(* rm and rmdir, which tell files from directories, of one node *)
fat32_remove(path) ==
  /\ Found(path) # {}
  /\ LET n == vfs_find(path)
     IN /\ n.dir => dir_is_empty(disk, n.start)
        /\ Ends(remove_single_node(disk, n), nodes \ {n}, leaked, {n})

(* rm -r: the nodes whose name begins with the path as it was typed,       *)
(* deepest first, then the directory.  Which of two equally deep ones goes *)
(* first depends on their places in fat_files.                             *)
is_path_or_child(n, path) ==
  Len(n.path) > Len(path) /\ SubSeq(n.path, 1, Len(path)) = path

remove_in_turn(d, order) ==
  LET after[i \in 0..Len(order)] ==
        IF i = 0 THEN d ELSE remove_single_node(after[i - 1], order[i])
  IN after[Len(order)]

DeepestFirst(S) ==
  {q \in SetToSeqs(S) : \A i, j \in 1..Len(q) : i < j => Len(q[i].path) >= Len(q[j].path)}

fat32_remove_recursive(path) ==
  /\ Found(path) # {}
  /\ LET n == vfs_find(path)
         below == {m \in nodes \ {n} : n.dir /\ is_path_or_child(m, path)}
         gone == below \cup {n}
     IN \E order \in DeepestFirst(below) :
          Ends(remove_in_turn(disk, Append(order, n)), nodes \ gone, leaked, gone)

-----------------------------------------------------------------------------
Init ==
  /\ vol \in Volumes
  /\ disk = [fat |-> [c \in Clusters |-> IF c = Root THEN EOC ELSE Free],
             ent |-> [c \in Clusters |-> EmptyCluster],
             free |-> vol.last - 2, next |-> Root, past |-> <<>>]
  /\ nodes = {} /\ leaked = {}
  /\ failed = FALSE /\ safe = {} /\ shown = {}

Paths == UNION {[1..n -> vol.typed] : n \in 1..vol.depth}

Next ==
  /\ ~failed
  /\ \/ \E path \in Paths :
          \/ fat32_create_file(path)
          \/ fat32_mkdir(path)
          \/ fat32_remove(path)
          \/ fat32_remove_recursive(path)
     \/ \E n \in nodes, w \in vol.writes : fat32_file_write(n, w[1], w[2])

Spec == Init /\ [][Next]_vars

-----------------------------------------------------------------------------
Used(c) == Range(Chain(disk.fat, c))

(* The FAT is sound: every file and directory has a chain of its own that  *)
(* ends in an end mark and is long enough for the file's size; no cluster  *)
(* is in two of them or free.                                              *)
ChainsSound == ~failed =>
  /\ \A n \in nodes : /\ \A c \in Used(n.start) : disk.fat[c] # Free
                      /\ Used(n.start) \cap Used(Root) = {}
                      /\ n.size <= Len(Chain(disk.fat, n.start)) * ClusterSize
  /\ \A m, n \in nodes : m # n => Used(m.start) \cap Used(n.start) = {}

(* After a power loss every file and directory that was not being removed, *)
(* and that a boot would have shown, is still there under its name:        *)
(* nothing it had is gone, its chain has room for its size and leads       *)
(* through no free cluster nor through a cluster of another.  Exception:   *)
(* the table of nodes is full at the mount, which a directory cluster that *)
(* was not cleared can cause, since what lies in it is registered.         *)
CrashKeepsFiles == failed /\ Cardinality(nodes) <= vol.files =>
  \A n \in safe \cap shown : \E m \in nodes :
    /\ m.path = n.path /\ m.at = n.at /\ m.dir = n.dir
    /\ m.start = n.start \/ n.start = NoFile
    /\ m.size >= n.size /\ m.size <= Len(Chain(disk.fat, m.start)) * ClusterSize
    /\ \A c \in Used(m.start) : disk.fat[c] # Free
    /\ \A c \in {Root} \cup {o.start : o \in safe \ {n}} : Used(m.start) \cap Used(c) = {}

(* No cluster is lost but those of a mkdir that failed. *)
NoLostClusters == ~failed =>
  {c \in Clusters : disk.fat[c] # Free}
    = Used(Root) \cup (UNION {Used(n.start) : n \in nodes}) \cup leaked

(* FSInfo's free count, kept by increments and decrements, is the number   *)
(* of free FAT entries.                                                    *)
FreeCountExact == ~failed => disk.free = Cardinality({c \in Clusters : disk.fat[c] = Free})

(* Every file or directory that is registered is in a directory that is    *)
(* registered too: rm -r "finds every VFS node nested under that path".    *)
NoOrphans == ~failed =>
  \A n \in nodes : Len(n.path) > 1 => \E m \in Found(Front(n.path)) : m.dir

Directories == {Root} \cup {n.start : n \in {m \in nodes : m.dir}}

IsLong(ps, i) == At(disk, ps[i]).kind = "lfn"

(* The place of the short entry that the long name entry i leads to. *)
EndOf(ps, i) == i + At(disk, ps[i]).seq

(* Entry i is of a long name whose entries are not all in the cluster of   *)
(* its short entry.                                                        *)
Straddles(ps, i) ==
  \E k \in 1..i : /\ IsLong(ps, k) /\ At(disk, ps[k]).first
                  /\ EndOf(ps, k) = EndOf(ps, i) /\ ps[k][1] # ps[EndOf(ps, k)][1]

(* "so no directory slots leak": every long name entry belongs to a file   *)
(* that is there.  Exception: a long name that straddles two clusters,     *)
(* whose entries mark_removed_with_lfn does not find when it is removed.   *)
NoSlotLeaks == ~failed =>
  \A d \in Directories :
    LET ps == Places(disk, d)
    IN \A i \in 1..Len(ps) :
         IsLong(ps, i) =>
           /\ EndOf(ps, i) <= Len(ps)
           /\ \/ /\ At(disk, ps[EndOf(ps, i)]).kind = "short"
                 /\ At(disk, ps[EndOf(ps, i)]).name = At(disk, ps[i]).sum
              \/ Straddles(ps, i)

(* The names that are typed differ by more than their case. *)
OneCase == \A x, y \in vol.typed : Folded[x] = Folded[y] => x = y

(* Every directory has as many long name entries as its names need. *)
NoneLeftOver ==
  \A d \in Directories :
    LET ps == Places(disk, d)
        here == {n \in nodes : n.at \in Range(ps)}
    IN Cardinality({i \in 1..Len(ps) : IsLong(ps, i)})
         = MapThenSumSet(LAMBDA n : LfnEntries[Last(n.path)], here)

(* A reboot shows the same files: long names come back from their entries, *)
(* also across clusters, "so it round-trips correctly across reboots".     *)
(* Exceptions: what lies below the depth of the scan, FAT32_MAX_DEPTH      *)
(* (mkdir makes directories of any depth); names typed in two cases, when  *)
(* a child keeps the parent as it was typed; and left over entries of a    *)
(* long name that straddled two clusters, which the next short entry may   *)
(* take for its own.                                                       *)
MountRoundTrip == ~failed /\ OneCase /\ NoneLeftOver =>
  fat32_scan_dir(disk) = {n \in nodes : Len(n.path) <= MaxDepth + 1}
=============================================================================
