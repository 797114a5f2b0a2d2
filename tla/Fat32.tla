-------------------------------- MODULE Fat32 --------------------------------
(***************************************************************************)
(* The FAT32 driver (fs/fat32.c) as a structure on disk: the copies of the *)
(* FAT, the slots of the directories, and the vnodes that have files open. *)
(* Every operation runs under fat32_lock, so an operation is one action;   *)
(* what interrupts it is the disk.  Each write_blocks of an operation is   *)
(* counted, and one of them may fail, which sends the operation down its   *)
(* error path, or be the moment the power fails, which ends it there and   *)
(* leaves the volume to the next mount.  A cluster holds one sector, a     *)
(* page of a file is one cluster, and sizes are in pages.  The kernel does *)
(* not run out of memory here.                                             *)
(***************************************************************************)
EXTENDS Integers, Sequences, FiniteSets

CONSTANTS
    MaxCluster,         \* clusters are numbered from 2
    SlotsPerCluster,    \* directory entries in a cluster
    ShortNames,         \* names that fit 8.3
    LongNames,          \* names stored as an LFN slot and an alias
    FileNames,          \* the names callers create files under
    DirNames,           \* and directories
    Vnodes,
    MaxOps,             \* operations of a behaviour
    MaxPages,           \* pages of a file
    MaxFaults,          \* failed writes and power failures of a behaviour
    NoVnode

VARIABLES
    vol,        \* the volume: the FAT copies and the sectors
    vn,         \* the vnodes
    orphans,    \* start clusters of open files that no entry names any more
    hint,       \* next_free_hint
    faults,     \* faults so far
    scar,       \* what an interrupted step left for later operations to trip over
    strays,     \* clusters in use that no file has, or will not have for long
    ops,        \* operations so far
    kept        \* start clusters with a name the last operation was not to take

fatVars == <<vol, vn, orphans, hint, faults, scar, strays, ops, kept>>

Clusters == 2..MaxCluster
Root == 2
Eoc == -1
FatNames == ShortNames \cup LongNames

End == [kind |-> "end"]         \* 0x00: nothing follows
Deleted == [kind |-> "deleted"] \* 0xE5
Dot == [kind |-> "dot"]         \* "." or ".."
Lfn(name, alias) == [kind |-> "lfn", name |-> name, sum |-> alias]
FileEntry(alias, isdir, c, size) ==
    [kind |-> "entry", alias |-> alias, dir |-> isdir, cluster |-> c, size |-> size]
Live(slot) == slot.kind = "entry"
FreeSlot(slot) == slot.kind \in {"end", "deleted"}
Blank == [i \in 1..SlotsPerCluster |-> End]
-----------------------------------------------------------------------------
(* The disk as an operation sees it: the volume, the writes so far, which  *)
(* write fails, and what the last step returned.                           *)

\* at = 0: nothing fails. down: the power is gone from that write on. lost:
\* clusters the operation leaves with no entry to record them.
Disk(at, down) ==
    [fat |-> vol.fat, sect |-> vol.sect, writes |-> 0, at |-> at, down |-> down, hint |-> hint,
     ok |-> TRUE, got |-> 0, slots |-> <<>>, orphans |-> orphans, scar |-> "none", lost |-> {}]

Fails(d) == d.at # 0 /\ (d.writes + 1 = d.at \/ (d.down /\ d.writes + 1 > d.at))
Ok(d) == [d EXCEPT !.ok = TRUE]
Error(d) == [d EXCEPT !.ok = FALSE]
Scarred(d, name, so) == [d EXCEPT !.scar = IF so THEN name ELSE @]

\* write_blocks of one sector: the new contents, or an error.
WriteBlock(d, new) ==
    IF Fails(d) THEN [d EXCEPT !.writes = @ + 1, !.ok = FALSE]
                ELSE [new EXCEPT !.writes = @ + 1, !.ok = TRUE]

SetCopy(d, i, c, v) == IF d.ok THEN WriteBlock(d, [d EXCEPT !.fat[i][c] = v]) ELSE d

\* set_fat_entry: every copy in turn, up to the first error.
SetFat(d, c, v) == SetCopy(SetCopy(Ok(d), 1, c, v), 2, c, v)

\* get_next_cluster reads the first copy.
NextCluster(d, c) == IF c \in Clusters THEN d.fat[1][c] ELSE Eoc

FreeClusters(d) == {c \in Clusters : d.fat[1][c] = 0}
\* The search starts at the hint and wraps.
Distance(d, c) == (c - d.hint) % (MaxCluster - 1)
NextFree(d) == CHOOSE c \in FreeClusters(d) :
    \A e \in FreeClusters(d) : Distance(d, c) <= Distance(d, e)

Allocated(d, c) ==
    IF d.ok THEN [d EXCEPT !.got = c, !.hint = IF c < MaxCluster THEN c + 1 ELSE 2]
            ELSE [d EXCEPT !.got = 0]
allocate_cluster(d) ==
    IF FreeClusters(d) = {} THEN [Error(d) EXCEPT !.got = 0]
    ELSE Allocated(SetFat(d, NextFree(d), Eoc), NextFree(d))

\* A link that failed is rolled back by freeing the new cluster; scar "link": the
\* first copy of the FAT keeps the link to it.
RolledBack(d, last, new) ==
    Scarred([Error(d) EXCEPT !.got = 0], "link", d.fat[1][last] = new /\ d.fat[1][new] = 0)
Linked(d, last, new) ==
    IF d.ok THEN [d EXCEPT !.got = new] ELSE RolledBack(SetFat(d, new, 0), last, new)
extend_cluster_chain(d, last) == LET a == allocate_cluster(d) IN
    IF a.got = 0 THEN a ELSE Linked(SetFat(a, last, a.got), last, a.got)

RECURSIVE FreeChain(_, _)
FreeChain(d, c) ==
    IF ~d.ok \/ c \notin Clusters THEN d
    ELSE FreeChain(SetFat(d, c, 0), NextCluster(d, c))
fat32_free_cluster_chain(d, c) == FreeChain(Ok(d), c)

zero_cluster(d, c) == WriteBlock(d, [d EXCEPT !.sect[c] = Blank])
-----------------------------------------------------------------------------
(* Directories.                                                            *)

\* The clusters of a chain, in order, cut where it comes back on itself.
RECURSIVE ChainFrom(_, _, _)
ChainFrom(fat, c, seen) ==
    IF c \notin Clusters \/ c \in seen THEN <<>>
    ELSE <<c>> \o ChainFrom(fat, fat[c], seen \cup {c})
Chain(fat, c) == ChainFrom(fat, c, {})

RECURSIVE PlacesFrom(_, _)
PlacesFrom(sect, chain) ==
    IF chain = <<>> THEN <<>>
    ELSE [i \in DOMAIN sect[Head(chain)] |-> <<Head(chain), i>>] \o PlacesFrom(sect, Tail(chain))

At(d, p) == d.sect[p[1]][p[2]]
FirstOf(S) == CHOOSE i \in S : \A j \in S : i <= j
BeforeEnd(d, ps, ends) == IF ends = {} THEN ps ELSE SubSeq(ps, 1, FirstOf(ends) - 1)
AllPlaces(d, ps) == BeforeEnd(d, ps, {i \in DOMAIN ps : At(d, ps[i]) = End})

\* The places of a directory's slots in the order of fat32_dir_walk, up to the
\* end marker.
Places(d, dir) == AllPlaces(d, PlacesFrom(d.sect, Chain(d.fat[1], dir)))

\* lfn_names: the run before an entry belongs to it if the checksum says so.
HasLfn(d, ps, i) ==
    i > 1 /\ At(d, ps[i - 1]).kind = "lfn" /\ At(d, ps[i - 1]).sum = At(d, ps[i]).alias
\* entry_named: by the long name, or by an exact short one.
Named(d, ps, i, name) ==
    /\ Live(At(d, ps[i]))
    /\ \/ HasLfn(d, ps, i) /\ At(d, ps[i - 1]).name = name
       \/ At(d, ps[i]).alias = <<name, 0>>
Matches(d, ps, name) == {i \in DOMAIN ps : Named(d, ps, i, name)}

EntriesAt(d, ps) == {e \in {At(d, ps[i]) : i \in DOMAIN ps} : Live(e)}
EntriesOf(d, dir) == EntriesAt(d, Places(d, dir))
fat32_dir_is_empty(d, dir) == EntriesOf(d, dir) = {}

\* fat32_put_slot.
PutSlot(d, p, slot) == WriteBlock(d, [d EXCEPT !.sect[p[1]][p[2]] = slot])

\* fat32_dir_walk growing a directory: the link first, then the zeros; scar
\* "stale": the new cluster is linked and still holds what it held.
Zeroed(d) == Scarred(d, "stale", ~d.ok)
Grown(d, last) == LET e == extend_cluster_chain(d, last) IN
    IF e.got = 0 THEN Scarred(e, "stale", e.scar = "link") ELSE Zeroed(zero_cluster(Ok(e), e.got))

\* find_slots_cb over fat32_dir_walk: a run of free slots, growing the
\* directory and moving the end marker as it goes.
RECURSIVE FindSlots(_, _, _, _, _)
FindSlots(d, c, i, run, needed) ==
    IF ~d.ok THEN d
    ELSE IF c \notin Clusters THEN Error(d)
    ELSE IF i > Len(d.sect[c]) THEN
        IF NextCluster(d, c) # Eoc
        THEN FindSlots(d, NextCluster(d, c), 1, run, needed)
        ELSE LET g == Grown(d, c) IN
             IF g.ok THEN FindSlots(g, g.got, 1, run, needed) ELSE g
    ELSE IF ~FreeSlot(d.sect[c][i]) THEN FindSlots(d, c, i + 1, <<>>, needed)
    ELSE IF Len(run) + 1 = needed THEN [d EXCEPT !.slots = Append(run, <<c, i>>)]
    ELSE FindSlots(IF d.sect[c][i] = End THEN PutSlot(d, <<c, i>>, Deleted) ELSE d,
                   c, i + 1, Append(run, <<c, i>>), needed)

\* generate_short_name: the first tail no entry of the directory carries.
AliasTail(entries, name) == CHOOSE n \in 1..(Cardinality(entries) + 1) :
    /\ \A e \in entries : e.alias # <<name, n>>
    /\ \A k \in 1..(n - 1) : \E e \in entries : e.alias = <<name, k>>
Alias(d, dir, name) ==
    IF name \in ShortNames THEN <<name, 0>> ELSE <<name, AliasTail(EntriesOf(d, dir), name)>>

WithEntry(d, e, name) ==
    IF ~d.ok THEN d
    ELSE IF name \in ShortNames THEN PutSlot(d, d.slots[1], e)
    ELSE LET l == PutSlot(d, d.slots[1], Lfn(name, e.alias)) IN
         IF l.ok THEN PutSlot(l, d.slots[2], e) ELSE l

\* fat32_write_dir_entries: the LFN slot, then the entry.
AddEntry(d, dir, name, isdir, c, size) ==
    WithEntry(FindSlots(Ok(d), dir, 1, <<>>, IF name \in ShortNames THEN 1 ELSE 2),
              FileEntry(Alias(d, dir, name), isdir, c, size), name)
-----------------------------------------------------------------------------
(* Vnodes.                                                                 *)

\* open_find: some vnode has the file open.
Opened(c) == \E v \in Vnodes : vn[v] # NoVnode /\ vn[v].cluster = c

\* fat32_release_chain.
fat32_release_chain(d, c) ==
    IF c < 2 THEN d
    ELSE IF Opened(c) THEN [d EXCEPT !.orphans = @ \cup {c}]
    ELSE fat32_free_cluster_chain(d, c)

\* A directory an operation can name: the root, or one that is held open.
DirCluster(v) == IF v = NoVnode THEN Root ELSE vn[v].cluster
IsDir(v) == v = NoVnode \/ (vn[v] # NoVnode /\ vn[v].dir /\ vn[v].held)

\* The directory a vnode was looked up in.
ParentCluster(n) == DirCluster(n.parent)

\* update_entry_cb and revalidate_cb: the entry of a vnode, by its cluster; one
\* of the two still without a cluster is found by name.
EntryToUpdate(d, ps, n) == {i \in DOMAIN ps :
    /\ Live(At(d, ps[i]))
    /\ IF At(d, ps[i]).cluster # 0 THEN At(d, ps[i]).cluster = n.cluster
                                   ELSE Named(d, ps, i, n.name)}
EntryToAdopt(d, ps, n) == {i \in DOMAIN ps :
    /\ Live(At(d, ps[i]))
    /\ IF n.cluster # 0 THEN At(d, ps[i]).cluster = n.cluster
                        ELSE Named(d, ps, i, n.name)}

\* scar "alias": the vnode's name is gone, and an entry without a cluster that has
\* it is another file's.
Updated(d, ps, es, n) ==
    IF es = {} THEN Error(d)
    ELSE PutSlot(Scarred(d, "alias", n.lost /\ At(d, ps[FirstOf(es)]).cluster = 0),
                 ps[FirstOf(es)],
                 [At(d, ps[FirstOf(es)]) EXCEPT !.cluster = n.cluster, !.size = n.size])
fat32_update_dir_entry(d, n) ==
    Updated(d, Places(d, ParentCluster(n)),
            EntryToUpdate(d, Places(d, ParentCluster(n)), n), n)
-----------------------------------------------------------------------------
(* How an operation ends.                                                  *)

\* fat32_entry_gen++: no vnode's stamp is current; v is stamped again.
Bumped(nodes, v) == [u \in Vnodes |->
    IF nodes[u] = NoVnode THEN NoVnode ELSE [nodes[u] EXCEPT !.fresh = u = v]]

Image == [fat |-> vol.fat, sect |-> vol.sect]
SubdirsIn(S, entries) == S \cup {e.cluster : e \in {x \in entries : x.dir}}
Subdirs(d, S) == SubdirsIn(S, UNION {EntriesOf(d, c) : c \in S})
\* The directories a path from the root reaches (a volume this small nests no deeper).
Reachable(d) == Subdirs(d, Subdirs(d, Subdirs(d, {Root})))
NamedIn(d, dirs) == {e.cluster : e \in UNION {EntriesOf(d, c) : c \in dirs}}
Keep(gone) == kept' = NamedIn(Image, Reachable(Image)) \ (gone \cup {0})

\* The start clusters of what has an entry or a vnode, and the clusters in use
\* that are in no chain from such a start.
OpenDirs(vs) == {vs[v].cluster : v \in {u \in Vnodes : vs[u] # NoVnode /\ vs[u].dir}}
EntryOwners(d, vs) == {Root} \cup NamedIn(d, Reachable(d) \cup OpenDirs(vs))
Owners(d, vs) == EntryOwners(d, vs) \cup {vs[v].cluster : v \in {u \in Vnodes : vs[u] # NoVnode}}
Covered(chains) == UNION {{s[i] : i \in DOMAIN s} : s \in chains}
InUse(d) == {c \in Clusters : d.fat[1][c] # 0}
Uncovered(d, starts) == InUse(d) \ Covered({Chain(d.fat[1], c) : c \in starts})

\* The power takes the memory with it.
PowerGone(d) == d.at # 0 /\ d.down
VnodesLeft(d, vs) == IF PowerGone(d) THEN [u \in Vnodes |-> NoVnode] ELSE vs
OrphansLeft(d) == IF PowerGone(d) THEN {} ELSE d.orphans
\* What an operation with a fault leaves that no later one will free: the
\* clusters of no entry and of no chain that waits for its last vnode.
LeftBy(d, vs) ==
    IF d.at = 0 THEN {} ELSE Uncovered(d, EntryOwners(d, VnodesLeft(d, vs)) \cup OrphansLeft(d))

\* A fault that never comes is no fault.
\* What a free cluster holds is not kept: a directory's is zeroed before use.
Finish(d, nodes, gone) ==
    /\ d.at <= d.writes
    /\ vol' = [fat |-> d.fat, sect |-> [c \in Clusters |-> IF d.fat[1][c] = 0 THEN Blank ELSE d.sect[c]]]
    /\ vn' = VnodesLeft(d, nodes)
    /\ orphans' = OrphansLeft(d)
    /\ hint' = IF PowerGone(d) THEN 2 ELSE d.hint
    /\ faults' = IF d.at # 0 THEN faults + 1 ELSE faults
    /\ scar' = d.scar
    /\ strays' = {c \in (strays \cup d.lost \cup LeftBy(d, nodes)) \ {0} : d.fat[1][c] # 0}
    /\ ops' = ops + 1
    /\ Keep(gone)

\* The ways an operation of so many writes can go.
Calm == Disk(0, FALSE)
Plans(writes) == {Calm} \cup
    (IF faults < MaxFaults THEN {Disk(at, down) : at \in 1..writes, down \in BOOLEAN} ELSE {})


\* Which names and directories a caller passes: the root or an open directory.
Dirs == {NoVnode} \cup {v \in Vnodes : IsDir(v) /\ v # NoVnode}

\* lookup_cb, and resolve_path's name.
Vnode(e, dir, name) ==
    [dir |-> e.dir, cluster |-> e.cluster, size |-> e.size, name |-> name, parent |-> dir,
     fresh |-> TRUE, held |-> TRUE, lost |-> FALSE]
Lookup(v, dir, name) ==
    /\ vn[v] = NoVnode
    /\ \E ps \in {Places(Calm, DirCluster(dir))} :
        /\ Matches(Calm, ps, name) # {}
        /\ vn' = [vn EXCEPT ![v] =
                     Vnode(At(Calm, ps[FirstOf(Matches(Calm, ps, name))]), dir, name)]
    /\ ops' = ops + 1 /\ Keep({})
    /\ UNCHANGED <<vol, orphans, hint, faults, scar, strays>>

\* A file or directory put into a directory that is itself removed goes with it.
Lost(d, dir, c) == IF DirCluster(dir) \in d.orphans THEN [d EXCEPT !.lost = @ \cup {c}] ELSE d
Entered(d, dir, c) ==
    IF d.ok THEN Lost(d, dir, c) ELSE Error(fat32_free_cluster_chain(d, c))
Filled(d, dir, name, isdir, c) ==
    IF d.ok THEN Entered(AddEntry(d, DirCluster(dir), name, isdir, c, 0), dir, c)
            ELSE Error(fat32_free_cluster_chain(d, c))

NewFile(d, dir, name) ==
    IF d.got = 0 THEN d ELSE Filled(zero_cluster(d, d.got), dir, name, FALSE, d.got)
fat32_create(d, dir, name) == NewFile(allocate_cluster(d), dir, name)

\* The caller looked the name up under an earlier hold of fat32_lock.
Create(dir, name) == \E d \in Plans(fat32_create(Calm, dir, name).writes) :
    \E r \in {fat32_create(d, dir, name)} : Finish(r, Bumped(vn, NoVnode), {})

Dotted(d, c) == IF d.ok THEN WriteBlock(d, [d EXCEPT !.sect[c][1] = Dot, !.sect[c][2] = Dot]) ELSE d
NewDir(d, dir, name) ==
    IF d.got = 0 THEN d
    ELSE Filled(Dotted(zero_cluster(d, d.got), d.got), dir, name, TRUE, d.got)
fat32_mkdir(d, dir, name) == NewDir(allocate_cluster(d), dir, name)
Mkdir(dir, name) ==
    /\ Matches(Calm, Places(Calm, DirCluster(dir)), name) = {}
    /\ \E d \in Plans(fat32_mkdir(Calm, dir, name).writes) :
       \E r \in {fat32_mkdir(d, dir, name)} : Finish(r, Bumped(vn, NoVnode), {})

\* remove_entry_cb: the LFN slot goes with the entry, in the same write where
\* they share a sector and before it where they do not.
Unnamed(d, p) == PutSlot(d, p, Deleted)
RemoveSlots(d, ps, i) ==
    IF ~HasLfn(d, ps, i) THEN Unnamed(d, ps[i])
    ELSE IF ps[i - 1][1] = ps[i][1]
    THEN WriteBlock(d, [d EXCEPT !.sect[ps[i][1]][ps[i][2]] = Deleted,
                                 !.sect[ps[i][1]][ps[i][2] - 1] = Deleted])
    ELSE LET l == Unnamed(d, ps[i - 1]) IN IF l.ok THEN Unnamed(l, ps[i]) ELSE l

\* fat32_remove_entry: the entry first, then the chain.
Released(d, c) == IF d.ok THEN fat32_release_chain(d, c) ELSE d
\* Mutant: the chain first, then the entry.
ChainFirst(d, ps, i) ==
    LET r == fat32_release_chain(d, At(d, ps[i]).cluster) IN IF r.ok THEN RemoveSlots(r, ps, i) ELSE r
fat32_remove_entry(d, ps, i) == Released(RemoveSlots(d, ps, i), At(d, ps[i]).cluster)

\* The vnodes that know their file by this name.
Parted(nodes, dir, name) == [u \in Vnodes |->
    IF nodes[u] # NoVnode /\ nodes[u].name = name
       /\ ParentCluster(nodes[u]) = DirCluster(dir)
    THEN [nodes[u] EXCEPT !.lost = TRUE] ELSE nodes[u]]

Removable(d, e, want) == e.dir = want /\ (want => fat32_dir_is_empty(d, e.cluster))
Remove(dir, name, want) == \E ps \in {Places(Calm, DirCluster(dir))} :
    /\ Matches(Calm, ps, name) # {}
    /\ \E i \in {FirstOf(Matches(Calm, ps, name))} :
        /\ Removable(Calm, At(Calm, ps[i]), want)
        /\ \E d \in Plans(fat32_remove_entry(Calm, ps, i).writes) :
           \E r \in {fat32_remove_entry(d, ps, i)} :
               Finish(r, Bumped(Parted(vn, dir, name), NoVnode), {At(d, ps[i]).cluster})
Unlink(dir, name) == Remove(dir, name, FALSE)
Rmdir(dir, name) == Remove(dir, name, TRUE)
\* fat32_rename. The new name is on disk before the old one goes; scar "names":
\* both are there, and removing either takes the clusters from the other.
TakeOver(d, p, e) == PutSlot(d, p, [e EXCEPT !.alias = At(d, p).alias])
NewName(d, dir, name, e, qs, target) ==
    IF target = 0 THEN AddEntry(d, DirCluster(dir), name, e.dir, e.cluster, e.size)
                  ELSE TakeOver(d, qs[target], e)
TwoNames(d, e) == Scarred(d, "names", e.cluster # 0)
Moved(d, e, crossing) == IF e.dir /\ crossing THEN WriteBlock(d, d) ELSE d
Replaced(d, e, c, crossing) ==
    IF ~d.ok THEN d
    ELSE Moved(IF c = e.cluster THEN d ELSE fat32_release_chain(d, c), e, crossing)
OldLfnGone(d, ps, i, had) == IF d.ok /\ had THEN Unnamed(d, ps[i - 1]) ELSE d
OldName(d, ps, i, had, e, c, crossing) ==
    IF ~d.ok THEN TwoNames(d, e) ELSE Replaced(OldLfnGone(d, ps, i, had), e, c, crossing)
Renamed(d, ps, i, had, e, c, crossing) ==
    IF ~d.ok THEN d ELSE OldName(Unnamed(d, ps[i]), ps, i, had, e, c, crossing)

\* vnode_within, which vfs_rename asks of the new parent.
RECURSIVE Within(_, _)
Within(v, c) == v # NoVnode /\ (vn[v].cluster = c \/ Within(vn[v].parent, c))

\* The target's slot, unless it is the very entry being renamed.
Target(d, ps, i, qs, name) ==
    IF Matches(d, qs, name) = {} \/ qs[FirstOf(Matches(d, qs, name))] = ps[i] THEN 0
    ELSE FirstOf(Matches(d, qs, name))
\* Mutant: the old name goes before the new one is there.
OldNameFirst(d, from, ps, i, to, new, qs, t, c) ==
    LET o == RemoveSlots(d, ps, i) IN
    IF ~o.ok THEN o ELSE Replaced(NewName(o, to, new, At(d, ps[i]), qs, t), At(d, ps[i]), c, FALSE)
fat32_rename(d, from, ps, i, to, new, qs, t, c) ==
    Lost(Renamed(NewName(d, to, new, At(d, ps[i]), qs, t), ps, i, HasLfn(d, ps, i), At(d, ps[i]), c,
                 DirCluster(from) # DirCluster(to)), to, At(d, ps[i]).cluster)

Rename(from, old, to, new) ==
    \E ps \in {Places(Calm, DirCluster(from))}, qs \in {Places(Calm, DirCluster(to))} :
    /\ Matches(Calm, ps, old) # {}
    /\ \E i \in {FirstOf(Matches(Calm, ps, old))} : \E e \in {At(Calm, ps[i])},
          t \in {Target(Calm, ps, i, qs, new)} :
        /\ ~(e.dir /\ Within(to, e.cluster))
        /\ t # 0 => Removable(Calm, At(Calm, qs[t]), e.dir)
        /\ \E c \in {IF t = 0 THEN e.cluster ELSE At(Calm, qs[t]).cluster} :
           \E gone \in {IF DirCluster(to) \in orphans THEN {c, e.cluster} ELSE {c} \ {e.cluster}} :
           \E d \in Plans(fat32_rename(Calm, from, ps, i, to, new, qs, t, c).writes) :
           \E r \in {fat32_rename(d, from, ps, i, to, new, qs, t, c)} :
               Finish(r, Bumped(Parted(Parted(vn, from, old), to, new), NoVnode), gone)

\* fat32_ensure_start_cluster.
Recorded(d, c) ==
    [Ok(d) EXCEPT !.got = c, !.lost = IF d.ok THEN @ ELSE @ \cup {c}]
Started(d, n) ==
    IF d.got = 0 THEN d
    ELSE Recorded(fat32_update_dir_entry(d, [n EXCEPT !.cluster = d.got]), d.got)
ensure_start_cluster(d, n) ==
    IF n.cluster # 0 THEN [d EXCEPT !.got = n.cluster] ELSE Started(allocate_cluster(d), n)

\* fat32_write_page: to the page's cluster, extending the chain as it ends.
RECURSIVE Reach(_, _, _)
Reach(d, c, skip) ==
    IF c \notin Clusters \/ ~d.ok THEN Error(d)
    ELSE IF skip = 0 THEN d
    ELSE IF NextCluster(d, c) # Eoc THEN Reach(d, NextCluster(d, c), skip - 1)
    ELSE LET x == extend_cluster_chain(d, c) IN Reach(x, x.got, skip - 1)
WriteData(d) == IF d.ok THEN WriteBlock(d, d) ELSE d

\* fat32_vfs_write's loop: got is the number of pages that landed.
RECURSIVE WritePages(_, _, _, _, _)
WritePages(d, start, page, last, landed) ==
    IF page > last \/ ~d.ok THEN [d EXCEPT !.got = landed]
    ELSE LET w == WriteData(Reach(d, start, page)) IN
         WritePages(w, start, page + 1, last, IF w.ok THEN landed + 1 ELSE landed)

\* The vnode afterwards is n: its start cluster and its size.
Grew(n, c, end) == [n EXCEPT !.cluster = c, !.size = IF end > @ THEN end ELSE @]
Landed(d, n, c, page) ==
    IF d.got = 0 THEN [disk |-> d, node |-> Grew(n, c, 0)]
    ELSE [disk |-> fat32_update_dir_entry(Ok(d), Grew(n, c, page + d.got)),
          node |-> Grew(n, c, page + d.got)]
StartedWrite(d, n, page, last) ==
    IF d.got = 0 THEN [disk |-> d, node |-> n]
    ELSE Landed(WritePages(d, d.got, page, last, 0), n, d.got, page)
fat32_vfs_write(d, n, page, last) ==
    IF last < page THEN [disk |-> d, node |-> n]
    ELSE StartedWrite(ensure_start_cluster(d, n), n, page, last)

OpenFile(v) == vn[v] # NoVnode /\ vn[v].held /\ ~vn[v].dir

\* vnode_revalidate came before, under an earlier hold of fat32_lock. A write of
\* nothing (last < page) only stamps the vnode.
Write(v, page, last) ==
    /\ OpenFile(v)
    /\ \E d \in Plans(fat32_vfs_write(Calm, vn[v], page, last).disk.writes) :
       \E r \in {fat32_vfs_write(d, vn[v], page, last)} :
           Finish(r.disk, Bumped([vn EXCEPT ![v] = r.node], v), {})

\* fat32_truncate: the entry first, then the chain; scar "cut": the kept part
\* could not be ended and the rest is freed all the same.
Freed(d, tail, doomed) == Scarred(d, "cut", d.fat[1][tail] # Eoc /\ d.fat[1][doomed] = 0)
Capped(d, tail, doomed) ==
    IF doomed \notin Clusters THEN Ok(d)
    ELSE Freed(fat32_free_cluster_chain(d, doomed), tail, doomed)
Shrunk(d, chain, length, keep) ==
    IF Len(chain) < keep THEN d
    ELSE Capped(SetFat(d, chain[keep], Eoc), chain[keep], NextCluster(d, chain[keep]))
Truncated(d, n, length) ==
    IF ~d.ok THEN [disk |-> d, node |-> n]
    ELSE [disk |-> Shrunk(d, Chain(d.fat[1], n.cluster), length, IF length = 0 THEN 1 ELSE length),
          node |-> [n EXCEPT !.size = length]]
fat32_truncate(d, n, length) ==
    IF length >= n.size THEN [disk |-> d, node |-> n]
    ELSE Truncated(fat32_update_dir_entry(d, [n EXCEPT !.size = length]), n, length)
Truncate(v, length) ==
    /\ OpenFile(v)
    /\ \E d \in Plans(fat32_truncate(Calm, vn[v], length).disk.writes) :
       \E r \in {fat32_truncate(d, vn[v], length)} :
           Finish(r.disk, Bumped([vn EXCEPT ![v] = r.node], v), {})

\* fat32_revalidate; scar "alias": the name is another file's by now.
Adopted(n, ps, es, d) ==
    IF es = {} THEN [n EXCEPT !.fresh = TRUE]
    ELSE [n EXCEPT !.fresh = TRUE, !.size = At(d, ps[FirstOf(es)]).size,
                   !.cluster = At(d, ps[FirstOf(es)]).cluster]
Revalidate(v) ==
    /\ OpenFile(v) /\ ~vn[v].fresh
    /\ \E ps \in {Places(Calm, ParentCluster(vn[v]))} : \E es \in {EntryToAdopt(Calm, ps, vn[v])} :
        /\ vn' = [vn EXCEPT ![v] = Adopted(vn[v], ps, es, Calm)]
        /\ scar' = IF vn[v].lost /\ vn[v].cluster = 0 /\ es # {} THEN "alias" ELSE "none"
    /\ ops' = ops + 1 /\ Keep({})
    /\ UNCHANGED <<vol, orphans, hint, faults, strays>>

\* vfs_vnode_put and open_untrack: the last reference releases the vnode, frees
\* the chain nothing names any more, and drops the reference to its parent.
HasChild(nodes, v) == \E u \in Vnodes : nodes[u] # NoVnode /\ nodes[u].parent = v
\* Mutant: the orphaned chain is forgotten with its last vnode.
Forgotten(d, nodes, c) ==
    IF \A u \in Vnodes : nodes[u] # NoVnode => nodes[u].cluster # c
    THEN [d EXCEPT !.orphans = @ \ {c}] ELSE d
Untracked(d, nodes, c) ==
    IF c \in d.orphans /\ \A u \in Vnodes : nodes[u] # NoVnode => nodes[u].cluster # c
    THEN fat32_free_cluster_chain([d EXCEPT !.orphans = @ \ {c}], c) ELSE d

RECURSIVE Drop(_, _, _)
Drop(d, nodes, v) ==
    IF v = NoVnode \/ nodes[v].held \/ HasChild(nodes, v) THEN [disk |-> d, nodes |-> nodes]
    ELSE LET left == [nodes EXCEPT ![v] = NoVnode] IN
         Drop(Untracked(d, left, nodes[v].cluster), left, nodes[v].parent)
Put(v) ==
    /\ vn[v] # NoVnode /\ vn[v].held
    /\ \E d \in Plans(Drop(Calm, [vn EXCEPT ![v].held = FALSE], v).disk.writes) :
       \E r \in {Drop(d, [vn EXCEPT ![v].held = FALSE], v)} : Finish(r.disk, r.nodes, {})

\* Power fails between two operations.
PowerCut ==
    /\ faults < MaxFaults
    /\ faults' = faults + 1
    /\ vn' = [v \in Vnodes |-> NoVnode]
    /\ orphans' = {} /\ hint' = 2 /\ ops' = ops + 1 /\ Keep({})
    /\ UNCHANGED <<vol, scar>>
    /\ strays' = strays \cup LeftBy(Disk(1, TRUE), vn)
-----------------------------------------------------------------------------
(* Properties.                                                             *)

\* The chains of what has a name or is open: ended, and disjoint.
Sound(chains) ==
    /\ \A s \in chains : vol.fat[1][s[Len(s)]] = Eoc
    /\ \A s, t \in chains : s # t => \A i \in DOMAIN s, j \in DOMAIN t : s[i] # t[j]

\* The clusters that hold the pages an entry or a current vnode records: one at least,
\* and all of a directory.
Pages(e) == IF e.dir THEN MaxCluster ELSE IF e.size = 0 THEN 1 ELSE e.size
HoldersOf(e, chain) == SubSeq(chain, 1, IF Len(chain) < Pages(e) THEN Len(chain) ELSE Pages(e))
RecordsOf(dirs) ==
    {e \in UNION {EntriesOf(Image, c) : c \in dirs} \cup
          {vn[v] : v \in {u \in Vnodes : vn[u] # NoVnode /\ vn[u].fresh}} : e.cluster # 0}
Intact(parts) ==
    /\ Covered(parts) \subseteq InUse(Image)
    /\ \A s, t \in parts : s[1] # t[1] => Covered({s}) \cap Covered({t}) = {}

\* Wherever the power goes and whichever write fails, every chain that an entry
\* names or a vnode has open is allocated to its end and shares no cluster with
\* another: the order of the writes in create, remove, rename and truncate.  Set
\* apart are five cases, the values of scar.  A link that is rolled back
\* (fat32.c:410), a chain cut short (2462) and a rename that leaves both names
\* (2143) still keep the pages of every recorded size in clusters of their own;
\* nothing is said of a directory whose new cluster was not zeroed (1650), of an
\* entry without a cluster that was taken for another file's, or of what later
\* operations make of any of the five.
ChainsSound ==
    /\ scar = "none" => Sound({Chain(vol.fat[1], c) : c \in Owners(Image, vn) \ {0}})
    /\ scar \in {"link", "cut", "names"} =>
           Intact({HoldersOf(e, Chain(vol.fat[1], e.cluster)) : e \in RecordsOf(Reachable(Image) \cup OpenDirs(vn))})

\* Only a write that fails or power that goes leaves clusters in use that no file
\* has: an operation that meets neither never does, whatever earlier ones left,
\* and what is unlinked while open goes with its last vnode.  Set apart, as strays: the
\* cluster given to a file that had none and has lost its name (fat32.c:73, 879),
\* and what is put into a directory that was removed while open.
NothingLeaks == scar = "none" => Uncovered(Image, Owners(Image, vn) \cup strays) = {}

\* fat32_entry_gen: "A vnode stamped with the current value holds what its
\* entry says".
StampIsCurrent == (faults = 0 /\ scar = "none") => \A v \in Vnodes :
    (vn[v] # NoVnode /\ ~vn[v].dir /\ vn[v].fresh) =>
        \A e \in EntriesOf(Image, ParentCluster(vn[v])) :
            (e.cluster # 0 /\ e.cluster = vn[v].cluster) => e.size = vn[v].size

\* No step takes a file's last name but the unlink, the rmdir or the rename onto
\* it that was to, and the rename of it into a directory that is itself removed:
\* a rename that is interrupted leaves the file under one of its names.
NameKept == kept \subseteq NamedIn(Image, Reachable(Image))
-----------------------------------------------------------------------------
\* A new volume, or one on which another system left an empty file: such a
\* file has no cluster.
NewVolume(slots) ==
    [fat |-> [i \in 1..2 |-> [c \in Clusters |-> IF c = Root THEN Eoc ELSE 0]],
     sect |-> [c \in Clusters |-> IF c = Root THEN slots ELSE Blank]]
Fat32Init ==
    /\ vol \in {NewVolume(Blank)} \cup
           {NewVolume([Blank EXCEPT ![1] = FileEntry(<<n, 0>>, FALSE, 0, 0)]) : n \in ShortNames \ DirNames}
    /\ vn = [v \in Vnodes |-> NoVnode]
    /\ orphans = {} /\ hint = 2 /\ faults = 0 /\ scar = "none" /\ strays = {}
    /\ ops = 0 /\ kept = {}

\* Nothing is said of what follows a scar.
Fat32Next ==
    /\ scar = "none" /\ ops < MaxOps
    /\ \/ \E v \in Vnodes, dir \in Dirs, n \in FatNames : Lookup(v, dir, n)
       \/ \E dir \in Dirs, n \in FileNames : Create(dir, n)
       \/ \E dir \in Dirs, n \in DirNames : Mkdir(dir, n)
       \/ \E dir \in Dirs, n \in FatNames : Unlink(dir, n)
       \/ \E dir \in Dirs, n \in FatNames : Rmdir(dir, n)
       \/ \E from, to \in Dirs, old, new \in FatNames : Rename(from, old, to, new)
       \/ \E v \in Vnodes, p, l \in 0..(MaxPages - 1) : Write(v, p, l)
       \/ \E v \in Vnodes, l \in 0..MaxPages : Truncate(v, l)
       \/ \E v \in Vnodes : Revalidate(v)
       \/ \E v \in Vnodes : Put(v)
       \/ PowerCut
=============================================================================
