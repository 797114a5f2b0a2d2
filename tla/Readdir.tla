------------------------------- MODULE Readdir -------------------------------
(***************************************************************************)
(* A directory listing, over as many calls as the caller's buffer makes it *)
(* take: vfs_readdir's three phases ("." and "..", the file system's own   *)
(* entries, the mount points) with the position kept in the open file, and *)
(* fat32_vfs_readdir's walk of the slots, cluster by cluster, where a read  *)
(* of a directory sector or of the FAT may fail.  Between two calls others *)
(* add and remove entries.  The mount table is a constant: vfs_mount runs only *)
(* at boot and nothing calls vfs_unmount, whose move of the last mount into *)
(* the freed place would make a listing under way miss that mount.  One     *)
(* caller reads the open file at a time.                                    *)
(***************************************************************************)
EXTENDS Integers, Sequences, FiniteSets

CONSTANTS
    EntryNames,     \* names of directory entries
    LongEntries,    \* those that need an LFN slot before their entry
    MountTable,     \* vfs_mount_table: the names of the mounts' roots
    ChildMounts,    \* those mounted in this directory
    MaxSlots,       \* slots of the directory
    ClusterSlots,   \* slots of one of its clusters
    MaxBatch        \* entries of a caller's buffer

VARIABLES
    slots,      \* the directory: a name, "lfn", "deleted" or "end" per slot
    pos,        \* struct vfs_dir_pos
    listed,     \* names returned since the listing began
    steady,     \* names that have been there since it began
    complete,   \* a call returned nothing
    cut         \* a FAT read error was taken for the end of the directory

dirVars == <<slots, pos, listed, steady, complete, cut>>

Present(ss) == {ss[i] : i \in DOMAIN ss} \cap EntryNames
Start == [dot |-> 0, fs |-> 1, mount |-> 0]

\* The name a walk begun at slot `from` gives the entry in slot o: lfn_run is empty
\* when a call begins, so an LFN slot before `from` is not seen and the entry goes
\* by its 8.3 alias.
Shown(o, from) == IF slots[o] \in LongEntries /\ o = from THEN "alias" ELSE slots[o]

ClusterOf(o) == (o - 1) \div ClusterSlots + 1

\* The reads of a call that can fail: none, a cluster's sector or its FAT entry.
ReadErrors == {<<"none", 0>>} \cup ({"sector", "fat"} \X (1..ClusterOf(MaxSlots)))

\* A walk that ended at slot o, with what it returns; early: before the end.
Walked(o, got, early) == [fs |-> o, got |-> got, early |-> early, failed |-> FALSE]
Failed == [Walked(pos.fs, <<>>, FALSE) EXCEPT !.failed = TRUE]

\* fat32_vfs_readdir's loop from slot o with room for n. The end marker is
\* stepped over. get_next_cluster's IOERR is no cluster, so it ends the loop as
\* the end of the chain does; a sector that cannot be read is -EIO.
RECURSIVE FsList(_, _, _, _, _)
FsList(o, n, from, got, bad) ==
    IF n = 0 \/ o > MaxSlots THEN Walked(o, got, FALSE)
    ELSE IF o > from /\ bad = <<"fat", ClusterOf(o - 1)>> /\ ClusterOf(o - 1) # ClusterOf(o)
    THEN Walked(o, got, TRUE)
    ELSE IF bad = <<"sector", ClusterOf(o)>> THEN Failed
    ELSE IF slots[o] = "end" THEN Walked(o + 1, got, FALSE)
    ELSE IF slots[o] \in EntryNames
    THEN FsList(o + 1, n - 1, from, Append(got, Shown(o, from)), bad)
    ELSE FsList(o + 1, n, from, got, bad)

\* The clusters before the position are skipped first: IOERR there returns 0.
fat32_vfs_readdir(n, bad) ==
    IF bad[1] = "fat" /\ bad[2] < ClusterOf(pos.fs)
    THEN Walked(pos.fs, <<>>, pos.fs <= MaxSlots)
    ELSE FsList(pos.fs, n, pos.fs, <<>>, bad)

\* Phase 1: ".", "..".
DotsOut(n) == IF pos.dot = 2 THEN <<>>
              ELSE IF pos.dot = 1 THEN <<"..">> ELSE IF n = 1 THEN <<".">> ELSE <<".", "..">>

\* Phase 3: the mount table from index m on, with room for n; a mount elsewhere
\* is passed over.
RECURSIVE MountList(_, _, _)
MountList(m, n, got) ==
    IF n = 0 \/ m > Len(MountTable) THEN [mount |-> m, got |-> got]
    ELSE IF MountTable[m] \in ChildMounts
    THEN MountList(m + 1, n - 1, Append(got, MountTable[m]))
    ELSE MountList(m + 1, n, got)

Returned(out, next) ==
    /\ listed' = listed \o out
    /\ pos' = next
    /\ complete' = (out = <<>>)
    /\ UNCHANGED <<slots, steady>>

MountPhase(out, fs, m, n) == \E r \in {MountList(m, n - Len(out), <<>>)} :
    Returned(out \o r.got, [dot |-> 2, fs |-> fs, mount |-> r.mount])

\* Phase 2: the file system's own entries. On an error nothing is returned, and
\* the position is the one the call began with.
\* Mutant: a full batch goes on to the mounts the next time.
FsPhaseOnce(out, n, bad) == \E r \in {fat32_vfs_readdir(n - Len(out), bad)} :
    IF r.failed THEN UNCHANGED dirVars
    ELSE cut' = (cut \/ r.early) /\ MountPhase(out \o r.got, r.fs, 1, n)
FsPhase(out, n, bad) == \E r \in {fat32_vfs_readdir(n - Len(out), bad)} :
    \/ r.failed /\ UNCHANGED dirVars
    \/ /\ ~r.failed
       /\ cut' = (cut \/ r.early)
       /\ IF Len(out) + Len(r.got) = n
          THEN Returned(out \o r.got, [dot |-> 2, fs |-> r.fs, mount |-> 0])
          ELSE MountPhase(out \o r.got, r.fs, 1, n)

\* vfs_readdir with room for n entries.
vfs_readdir(n) == \E dots \in {DotsOut(n)} :
    \/ Len(dots) = n /\ Returned(dots, [pos EXCEPT !.dot = @ + n]) /\ UNCHANGED cut
    \/ /\ Len(dots) < n /\ pos.mount = 0
       /\ \E bad \in ReadErrors : FsPhase(dots, n, bad)
    \/ Len(dots) < n /\ pos.mount # 0 /\ MountPhase(dots, pos.fs, pos.mount, n) /\ UNCHANGED cut

\* vfs_lseek to 0.
Rewind ==
    /\ pos' = Start /\ listed' = <<>> /\ complete' = FALSE /\ cut' = FALSE
    /\ steady' = Present(slots) \cup ChildMounts \cup {".", ".."}
    /\ UNCHANGED slots

\* What others do: an entry takes the first run of free slots that holds it
\* (find_slots_cb), and leaves its slots deleted.
FreeAt(i) == slots[i] \in {"deleted", "end"}
Fits(name, i) == FreeAt(i) /\ (name \in LongEntries => i > 1 /\ FreeAt(i - 1))
FirstFit(name, i) == Fits(name, i) /\ \A j \in 1..(i - 1) : ~Fits(name, j)
Slotted(name, i) == [j \in DOMAIN slots |->
    IF j = i THEN name ELSE IF j = i - 1 /\ name \in LongEntries THEN "lfn" ELSE slots[j]]
EntryAdded == \E name \in EntryNames \ Present(slots), i \in DOMAIN slots :
    /\ FirstFit(name, i)
    /\ slots' = Slotted(name, i)
    /\ UNCHANGED <<pos, listed, steady, complete, cut>>
Cleared(i) == [j \in DOMAIN slots |->
    IF j = i \/ (j = i - 1 /\ slots[i] \in LongEntries) THEN "deleted" ELSE slots[j]]
EntryRemoved == \E i \in DOMAIN slots :
    /\ slots[i] \in EntryNames
    /\ slots' = Cleared(i)
    /\ steady' = steady \ {slots[i]}
    /\ UNCHANGED <<pos, listed, complete, cut>>

ReaddirInit ==
    /\ slots = [i \in 1..MaxSlots |-> "end"]
    /\ pos = Start /\ listed = <<>> /\ complete = FALSE /\ cut = FALSE
    /\ steady = ChildMounts \cup {".", ".."}
ReaddirNext ==
    \/ \E n \in 1..MaxBatch : ~complete /\ vfs_readdir(n)
    \/ Rewind \/ EntryAdded \/ EntryRemoved

TimesListed(name) == Cardinality({i \in DOMAIN listed : listed[i] = name})

\* A listing names nothing twice that was there all along, and when it is read
\* to its end it names each such thing once, whatever the size of the buffers,
\* whichever calls failed with a read error in between, and whatever came and
\* went meanwhile.  The one listing that ends early without an error is set
\* apart: a FAT entry that cannot be read is taken for the end of the directory
\* (fat32.c:1725, 1812), and only "." and ".." and the mounts are then sure to be
\* named.
ListedOnce == \A name \in steady :
    /\ TimesListed(name) <= 1
    /\ (complete /\ (cut => name \notin EntryNames)) => TimesListed(name) = 1
=============================================================================
