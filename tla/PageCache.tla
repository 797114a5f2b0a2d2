------------------------------ MODULE PageCache ------------------------------
(***************************************************************************)
(* The page cache (fs/pagecache.c) between the FAT32 operations that fill  *)
(* it and the sync that walks it.  Every FAT32 operation holds fat32_lock  *)
(* from its first page to its last; sync and fsync do not: they pin a      *)
(* dirty page under pagecache_lock, drop that lock, and take fat32_lock    *)
(* only inside write_page.  One action is one critical section of          *)
(* pagecache_lock, or one transfer to the disk.                            *)
(***************************************************************************)
EXTENDS Integers, Sequences, FiniteSets

CONSTANTS
    CacheTasks,     \* the tasks, each with at most one open vnode
    Buckets,        \* the pages, <<file, index>>, in the order of the hash table
    CacheMax,       \* PAGECACHE_MAX_PAGES
    Contents,       \* what a page can hold; 0 is a page of zeros
    Duties,         \* the system calls each task makes
    Nobody

ASSUME CacheAssumption ==
    Nobody \notin CacheTasks /\ IsFiniteSet(CacheTasks) /\ DOMAIN Buckets \subseteq Nat

VARIABLES
    cache,      \* the entries, most recently used first
    disk,       \* what the disk holds of each page
    linked,     \* the files that have a name
    vnode,      \* the file each task has open, or Nobody
    fat_lock,   \* the holder of fat32_lock
    job,        \* what each task is doing
    expected,   \* what the last completed write of each page left
    spoiled     \* pages that could not be removed because sync had them pinned

pcVars == <<cache, disk, linked, vnode, fat_lock, job, expected, spoiled>>

CacheKeys == {Buckets[i] : i \in DOMAIN Buckets}
CacheFiles == {k[1] : k \in CacheKeys}
PagesOf(f) == {k \in CacheKeys : k[1] = f}
Idle == [pc |-> "idle"]

\* The entry a walk of the hash chain finds.
Where(k) == CHOOSE i \in DOMAIN cache :
    cache[i].key = k /\ \A j \in 1..(i - 1) : cache[j].key # k
Cached(k) == \E i \in DOMAIN cache : cache[i].key = k
Entry(k) == cache[Where(k)]

Cut(s, i) == SubSeq(s, 1, i - 1) \o SubSeq(s, i + 1, Len(s))

\* cache_count: an entry being recycled is off the lists and still counted.
CacheCount == Len(cache) + Cardinality({t \in CacheTasks : job[t].pc = "evict"})

Fresh(t, k, data) == [key |-> k, vnode |-> t, data |-> data, dirty |-> FALSE, pin |-> 1]
Pinned(e) == [e EXCEPT !.pin = @ + 1]
Unpinned(e) == [e EXCEPT !.pin = IF @ > 0 THEN @ - 1 ELSE 0]

Go(t, pc) == job' = [job EXCEPT ![t].pc = pc]
Change(k, e) == cache' = [cache EXCEPT ![Where(k)] = e]

\* unhook_matching: the entries of a file that stay, because they are pinned, and those of others.
Staying(f) == {i \in DOMAIN cache : cache[i].key[1] # f \/ cache[i].pin # 0}
Kept(f) == [n \in 1 .. Cardinality(Staying(f)) |->
    cache[CHOOSE i \in Staying(f) : Cardinality({j \in Staying(f) : j < i}) = n - 1]]
StillPinned(f) == {k \in PagesOf(f) : \E i \in DOMAIN cache : cache[i].key = k /\ cache[i].pin # 0}

\* What is left of the file's pages once its old contents are gone.
Emptied(f) ==
    /\ cache' = Kept(f)
    /\ spoiled' = spoiled \cup StillPinned(f)
    /\ disk' = [k \in CacheKeys |-> IF k[1] = f THEN 0 ELSE disk[k]]
    /\ expected' = [k \in CacheKeys |-> IF k[1] = f THEN 0 ELSE expected[k]]
-----------------------------------------------------------------------------
(* Reading and writing, under fat32_lock.                                  *)

\* pagecache_get_page hit: to the head of the list, with a pin.
Hit(t, k, op) ==
    /\ Cached(k)
    /\ cache' = <<Pinned(Entry(k))>> \o Cut(cache, Where(k))
    /\ job' = [job EXCEPT ![t] = [pc |-> op, key |-> k]]

\* The last unpinned entry of the list.
Victims == {i \in DOMAIN cache : cache[i].pin = 0}
Victim == CHOOSE i \in Victims : \A j \in Victims : j <= i

\* pagecache_add_page under the cap, or with everything pinned.
AddNew(t, k, op) ==
    /\ ~Cached(k)
    /\ CacheCount < CacheMax \/ Victims = {}
    /\ cache' = <<Fresh(t, k, disk[k])>> \o cache
    /\ job' = [job EXCEPT ![t] = [pc |-> op, key |-> k]]

\* pagecache_add_page that recycles the least recently used entry. A dirty
\* page with a vnode is written back with the lock dropped.
AddEvicting(t, k, op) ==
    /\ ~Cached(k)
    /\ CacheCount >= CacheMax /\ Victims # {}
    /\ \E v \in {Victim} :
        IF cache[v].dirty /\ cache[v].vnode # Nobody
        THEN /\ cache' = Cut(cache, v)
             /\ job' = [job EXCEPT ![t] = [pc |-> "evict", key |-> k, op |-> op,
                                           page |-> disk[k], victim |-> cache[v]]]
        ELSE /\ cache' = <<Fresh(t, k, disk[k])>> \o Cut(cache, v)
             /\ job' = [job EXCEPT ![t] = [pc |-> op, key |-> k]]

FindUnlocked(t, k, op) ==
    /\ job[t] = Idle /\ vnode[t] = k[1]
    /\ Hit(t, k, op) \/ AddNew(t, k, op) \/ AddEvicting(t, k, op)
    /\ UNCHANGED <<disk, linked, vnode, fat_lock, expected, spoiled>>

\* The start of fat32_vfs_read and fat32_vfs_write: the page, from the cache
\* or from the disk through the cache.
Find(t, k, op) ==
    /\ fat_lock = Nobody /\ fat_lock' = t
    /\ job[t] = Idle /\ vnode[t] = k[1]
    /\ Hit(t, k, op) \/ AddNew(t, k, op) \/ AddEvicting(t, k, op)
    /\ UNCHANGED <<disk, linked, vnode, expected, spoiled>>

\* The victim reaches the disk, or its write fails and its data is lost; the
\* entry is then reused for the new page.
Evicted(t) ==
    /\ job[t].pc = "evict"
    /\ \E v \in {job[t].victim.key} :
        disk' \in {disk, [disk EXCEPT ![v] = job[t].victim.data]}
    /\ cache' = <<Fresh(t, job[t].key, job[t].page)>> \o cache
    /\ job' = [job EXCEPT ![t] = [pc |-> job[t].op, key |-> job[t].key]]
    /\ UNCHANGED <<linked, vnode, fat_lock, expected, spoiled>>

\* memcpy out of the page and pagecache_put_page.
ReadPage(t) ==
    /\ job[t].pc = "read"
    /\ Change(job[t].key, Unpinned(Entry(job[t].key)))
    /\ job' = [job EXCEPT ![t] = Idle]
    /\ fat_lock' = Nobody
    /\ UNCHANGED <<disk, linked, vnode, expected, spoiled>>

\* memcpy into the page and pagecache_mark_dirty.
CopyIn(t) ==
    /\ job[t].pc = "write"
    /\ \E c \in Contents :
        Change(job[t].key, [Entry(job[t].key) EXCEPT !.data = c, !.dirty = TRUE])
    /\ Go(t, "dirty")
    /\ UNCHANGED <<disk, linked, vnode, fat_lock, expected, spoiled>>

\* fat32_write_page: everything lands, or the write fails before or after
\* some of it did.
WriteThrough(t) ==
    /\ job[t].pc = "dirty"
    /\ \E k \in {job[t].key} :
        \/ Go(t, "landed") /\ disk' = [disk EXCEPT ![k] = Entry(k).data]
        \/ Go(t, "failed") /\ disk' \in {disk, [disk EXCEPT ![k] = Entry(k).data]}
    /\ UNCHANGED <<cache, linked, vnode, fat_lock, expected, spoiled>>

\* pagecache_clear_dirty, pagecache_put_page and the return to the caller.
PageLanded(t) ==
    /\ job[t].pc = "landed"
    /\ \E k \in {job[t].key} :
        /\ Change(k, [Unpinned(Entry(k)) EXCEPT !.dirty = FALSE])
        /\ expected' = [expected EXCEPT ![k] = disk[k]]
        /\ spoiled' = spoiled \ {k}
    /\ job' = [job EXCEPT ![t] = Idle]
    /\ fat_lock' = Nobody
    /\ UNCHANGED <<disk, linked, vnode>>

\* pagecache_put_page after a failed write.
PutFailed(t) ==
    /\ job[t].pc = "failed"
    /\ \E k \in {job[t].key} :
        /\ Change(k, Unpinned(Entry(k)))
        /\ expected' = [expected EXCEPT ![k] = disk[k]]
    /\ Go(t, "drop")
    /\ UNCHANGED <<disk, linked, vnode, fat_lock, spoiled>>

Undropped(t) ==
    /\ job[t].pc = "drop"
    /\ job' = [job EXCEPT ![t] = Idle]
    /\ fat_lock' = Nobody
    /\ UNCHANGED <<cache, disk, linked, vnode, expected, spoiled>>

\* pagecache_drop_page: the page goes unless something has it pinned.
DropPage(t) ==
    /\ job[t].pc = "drop"
    /\ \E k \in {job[t].key} :
        IF Cached(k) /\ Entry(k).pin = 0
        THEN cache' = Cut(cache, Where(k)) /\ UNCHANGED spoiled
        ELSE spoiled' = spoiled \cup {k} /\ UNCHANGED cache
    /\ expected' = [k \in CacheKeys |-> IF k \in spoiled' THEN 0 ELSE expected[k]]
    /\ job' = [job EXCEPT ![t] = Idle]
    /\ fat_lock' = Nobody
    /\ UNCHANGED <<disk, linked, vnode>>
-----------------------------------------------------------------------------
(* The operations that remove pages, each in one hold of fat32_lock.       *)

Open(t, f) ==
    /\ fat_lock = Nobody
    /\ job[t] = Idle /\ vnode[t] = Nobody /\ f \in linked
    /\ vnode' = [vnode EXCEPT ![t] = f]
    /\ UNCHANGED <<cache, disk, linked, fat_lock, job, expected, spoiled>>

\* vfs_vnode_put's last reference: pagecache_forget_vnode, then release.
ForgetVnode(t) ==
    /\ job[t] = Idle /\ vnode[t] # Nobody
    /\ cache' = [i \in DOMAIN cache |->
                    IF cache[i].vnode = t THEN [cache[i] EXCEPT !.vnode = Nobody] ELSE cache[i]]
    /\ Go(t, "release")
    /\ UNCHANGED <<disk, linked, vnode, fat_lock, expected, spoiled>>

OpenElsewhere(t, f) == \E u \in CacheTasks \ {t} : vnode[u] = f

\* fat32_op_release and the slab_free of the vnode: the last close of an
\* unlinked file discards its pages and gives its clusters up.
ReleaseVnode(t) ==
    /\ fat_lock = Nobody
    /\ job[t].pc = "release"
    /\ vnode' = [vnode EXCEPT ![t] = Nobody]
    /\ job' = [job EXCEPT ![t] = Idle]
    /\ IF vnode[t] \notin linked /\ ~OpenElsewhere(t, vnode[t])
       THEN Emptied(vnode[t])
       ELSE UNCHANGED <<cache, disk, expected, spoiled>>
    /\ UNCHANGED <<linked, fat_lock>>

\* fat32_unlink: a file nobody has open is discarded at once.
UnlinkFile(t, f) ==
    /\ fat_lock = Nobody
    /\ job[t] = Idle /\ f \in linked
    /\ linked' = linked \ {f}
    /\ IF \A u \in CacheTasks : vnode[u] # f
       THEN Emptied(f)
       ELSE UNCHANGED <<cache, disk, expected, spoiled>>
    /\ UNCHANGED <<vnode, fat_lock, job>>

\* A new file on the clusters of one that is gone.
Recreate(t, f) ==
    /\ fat_lock = Nobody
    /\ job[t] = Idle /\ f \notin linked /\ \A u \in CacheTasks : vnode[u] # f
    /\ linked' = linked \cup {f}
    /\ UNCHANGED <<cache, disk, vnode, fat_lock, job, expected, spoiled>>

\* fat32_truncate to nothing: pagecache_invalidate, then the clusters go.
TruncatePages(t) ==
    /\ fat_lock = Nobody
    /\ job[t] = Idle /\ vnode[t] # Nobody
    /\ Emptied(vnode[t])
    /\ UNCHANGED <<linked, vnode, fat_lock, job>>
-----------------------------------------------------------------------------
(* pagecache_sync and pagecache_writeback: a walk of the hash table.       *)

\* A walk writes the dirty pages of one file through the caller's own vnode,
\* or every dirty page through the vnode that added it.
StartWalk(t, scope) ==
    /\ job[t] = Idle
    /\ scope \in {"all", vnode[t]} \ {Nobody}
    /\ job' = [job EXCEPT ![t] = [pc |-> "walk", scope |-> scope, at |-> 1]]
    /\ UNCHANGED <<cache, disk, linked, vnode, fat_lock, expected, spoiled>>

ToWrite(t) == {i \in DOMAIN Buckets :
    /\ i >= job[t].at
    /\ Cached(Buckets[i]) /\ Entry(Buckets[i]).dirty
    /\ IF job[t].scope = "all"
       THEN Entry(Buckets[i]).vnode # Nobody
       ELSE Buckets[i][1] = job[t].scope}

\* The next dirty page is pinned and pagecache_lock dropped.
WalkPin(t) ==
    /\ job[t].pc = "walk" /\ ToWrite(t) # {}
    /\ \E i \in ToWrite(t) :
        /\ \A j \in ToWrite(t) : i <= j
        /\ job' = [job EXCEPT ![t] = [pc |-> "pinned", scope |-> @.scope, at |-> i,
                        through |-> IF @.scope = "all" THEN Entry(Buckets[i]).vnode ELSE t]]
        /\ Change(Buckets[i], Pinned(Entry(Buckets[i])))
    /\ UNCHANGED <<disk, linked, vnode, fat_lock, expected, spoiled>>

\* fat32_op_write_page takes fat32_lock.
WalkLock(t) ==
    /\ job[t].pc = "pinned" /\ fat_lock = Nobody
    /\ fat_lock' = t
    /\ Go(t, "writing")
    /\ UNCHANGED <<cache, disk, linked, vnode, expected, spoiled>>

WalkAt(t, pc) == job' = [job EXCEPT ![t] = [pc |-> pc, scope |-> @.scope, at |-> @.at]]

\* write_page writes the page as it is now, or fails.
WalkWrite(t) ==
    /\ job[t].pc = "writing"
    /\ \E k \in {Buckets[job[t].at]} :
        \/ WalkAt(t, "written") /\ disk' = [disk EXCEPT ![k] = Entry(k).data]
        \/ WalkAt(t, "unwritten") /\ UNCHANGED disk
    /\ fat_lock' = Nobody
    /\ UNCHANGED <<cache, linked, vnode, expected, spoiled>>

\* Under pagecache_lock again: the dirty bit, the pin, the next entry.
WalkOn(t) ==
    /\ job[t].pc \in {"written", "unwritten"}
    /\ \E k \in {Buckets[job[t].at]} :
        Change(k, [Unpinned(Entry(k)) EXCEPT !.dirty = @ /\ job[t].pc = "unwritten"])
    /\ job' = [job EXCEPT ![t] = [pc |-> "walk", scope |-> @.scope, at |-> @.at + 1]]
    /\ UNCHANGED <<disk, linked, vnode, fat_lock, expected, spoiled>>

WalkEnd(t) ==
    /\ job[t].pc = "walk" /\ ToWrite(t) = {}
    /\ job' = [job EXCEPT ![t] = Idle]
    /\ UNCHANGED <<cache, disk, linked, vnode, fat_lock, expected, spoiled>>
-----------------------------------------------------------------------------
PageCacheInit ==
    /\ cache = <<>>
    /\ disk = [k \in CacheKeys |-> 0]
    /\ linked = CacheFiles
    /\ vnode = [t \in CacheTasks |-> Nobody]
    /\ fat_lock = Nobody
    /\ job = [t \in CacheTasks |-> Idle]
    /\ expected = disk
    /\ spoiled = {}

\* A sync that has a page pinned goes on through this task's vnode.
SyncUses(t) == \E u \in CacheTasks :
    job[u].pc \in {"pinned", "writing"} /\ job[u].through = t

PageCacheNext(quiet) == \E t \in CacheTasks :
    \/ \E k \in CacheKeys, op \in {"read", "write"} \cap Duties[t] : Find(t, k, op)
    \/ Evicted(t) \/ ReadPage(t)
    \/ CopyIn(t) \/ WriteThrough(t) \/ PageLanded(t) \/ PutFailed(t) \/ DropPage(t)
    \/ \E f \in CacheFiles : Open(t, f)
    \/ "unlink" \in Duties[t] /\ \E f \in CacheFiles : UnlinkFile(t, f) \/ Recreate(t, f)
    \/ "truncate" \in Duties[t] /\ TruncatePages(t)
    \/ ForgetVnode(t)
    \/ (quiet => ~SyncUses(t)) /\ ReleaseVnode(t)
    \/ "sync" \in Duties[t] /\ \E s \in CacheFiles \cup {"all"} : StartWalk(t, s)
    \/ WalkPin(t) \/ WalkLock(t) \/ WalkWrite(t) \/ WalkOn(t) \/ WalkEnd(t)

PageCacheSpec(quiet) == PageCacheInit /\ [][PageCacheNext(quiet)]_pcVars
-----------------------------------------------------------------------------
\* A page is cached at most once, although pagecache_add_page lets go of its
\* lock while it writes back the page it evicts.
PageCachedOnce ==
    \A i, j \in DOMAIN cache : cache[i].key = cache[j].key => i = j

\* With no operation inside the file system, the next read of a page, from the
\* cache or from the disk, returns what the last completed write of that page
\* left on the disk, whatever was evicted, synced, truncated or discarded in
\* between. Pages that a failed write, a truncation or a delete could not
\* remove because a sync had them pinned are set apart.
ReadsSeeWrites ==
    fat_lock = Nobody =>
        \A k \in CacheKeys \ spoiled :
            (IF Cached(k) THEN Entry(k).data ELSE disk[k]) = expected[k]

\* pagecache_forget_vnode detaches a vnode about to be freed from its pages:
\* "nothing writes through the freed one".
NothingWritesThroughFreed ==
    \A t \in CacheTasks : job[t].pc = "writing" => vnode[job[t].through] # Nobody
=============================================================================
