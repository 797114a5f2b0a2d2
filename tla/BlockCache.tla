----------------------------- MODULE BlockCache ------------------------------
(***************************************************************************)
(* The block cache (driver/block.c): FAT32, under its own lock, and the    *)
(* readers and writers of /dev/<disk>, under none, share one write-through *)
(* cache.  cache_lock is dropped around every transfer, so one action is   *)
(* one hold of cache_lock or one transfer.  Nothing ever sets an entry's   *)
(* dirty flag, so block_cache_sync and the flush of a dirty victim find    *)
(* nothing to do and are left out.                                         *)
(***************************************************************************)
EXTENDS Integers, Sequences, FiniteSets

CONSTANTS
    BlockTasks,
    Blocks,         \* the blocks of the device, numbered from 0
    Extents,        \* the requests: <<first, last>>
    BlockCacheSize,
    Sectors         \* what a block can hold

VARIABLES
    bcache,     \* the entries, most recently used first
    medium,     \* what the device holds
    request,    \* the request each task is in
    unsure      \* blocks that two requests met on, or whose write failed

blkVars == <<bcache, medium, request, unsure>>

NoRequest == [pc |-> "free"]
HasBlock(c, b) == \E i \in DOMAIN c : c[i].block = b
PlaceOf(c, b) == CHOOSE i \in DOMAIN c : c[i].block = b

\* cache_lookup moves what it finds to the head of the list: after a walk from
\* b to last the blocks found come first, the last one foremost.
CachedIn(c, b, last) ==
    SelectSeq([i \in 1..(last - b + 1) |-> last + 1 - i], LAMBDA k : HasBlock(c, k))
Touched(c, b, last) ==
    [i \in DOMAIN CachedIn(c, b, last) |-> c[PlaceOf(c, CachedIn(c, b, last)[i])]]
        \o SelectSeq(c, LAMBDA e : e.block \notin b..last)

\* The first of the blocks from b up to last that is not cached, after the hits.
FirstMiss(b, last) == CHOOSE m \in b..(last + 1) :
    /\ \A k \in b..(m - 1) : HasBlock(bcache, k)
    /\ m > last \/ ~HasBlock(bcache, m)

\* cached_read_blocks up to its next miss, or to its end.
ReadOn(t, b, last) ==
    \E m \in {FirstMiss(b, last)} :
        /\ bcache' = Touched(bcache, b, m - 1)
        /\ request' = [request EXCEPT ![t] =
                IF m > last THEN NoRequest ELSE [pc |-> "fetch", block |-> m, last |-> last]]

ReadBlocks(t, b, last) ==
    /\ request[t] = NoRequest
    /\ ReadOn(t, b, last)
    /\ UNCHANGED <<medium, unsure>>

\* orig_read_blocks of one block, with the lock dropped; it may fail, and so
\* may the allocation of its buffer.
Fetch(t) ==
    /\ request[t].pc = "fetch"
    /\ request' = [request EXCEPT ![t] =
            [pc |-> "fetched", block |-> @.block, last |-> @.last, data |-> medium[@.block]]]
    /\ UNCHANGED <<bcache, medium, unsure>>

\* So may that of the new entry, while the cache still grows.
NoEntry(t) ==
    /\ request[t].pc = "fetched"
    /\ ~HasBlock(bcache, request[t].block) /\ Len(bcache) < BlockCacheSize
FetchFails(t) ==
    /\ request[t].pc = "fetch" \/ NoEntry(t)
    /\ request' = [request EXCEPT ![t] = NoRequest]
    /\ UNCHANGED <<bcache, medium, unsure>>

Continue(t, r) == request' = [request EXCEPT ![t] =
    IF r.block = r.last THEN NoRequest ELSE [pc |-> "more", block |-> r.block + 1, last |-> r.last]]

NewEntry(r) == [block |-> r.block, data |-> r.data]

\* With the lock again: another task may have cached the block meanwhile;
\* otherwise a new entry, or the least recently used one recycled.
Insert(t) ==
    /\ request[t].pc = "fetched"
    /\ bcache' =
        IF HasBlock(bcache, request[t].block)
        THEN Touched(bcache, request[t].block, request[t].block)
        ELSE <<NewEntry(request[t])>> \o
             (IF Len(bcache) >= BlockCacheSize THEN SubSeq(bcache, 1, Len(bcache) - 1) ELSE bcache)
    /\ Continue(t, request[t])
    /\ UNCHANGED <<medium, unsure>>

\* The next block of the request.
ReadMore(t) ==
    /\ request[t].pc = "more"
    /\ ReadOn(t, request[t].block, request[t].last)
    /\ UNCHANGED <<medium, unsure>>

\* Some other request is between its transfer of the block and the cache.
Meets(t, b) == \E u \in BlockTasks \ {t} :
    \/ request[u].pc = "fetched" /\ request[u].block = b
    \/ request[u].pc = "wrote" /\ b \in request[u].block..request[u].last

\* cached_write_blocks: orig_write_blocks first, without the lock.
WriteBlocks(t, b, last, d) ==
    /\ request[t] = NoRequest
    /\ medium' = [k \in Blocks |-> IF k \in b..last THEN d ELSE medium[k]]
    /\ request' = [request EXCEPT ![t] = [pc |-> "wrote", block |-> b, last |-> last, data |-> d]]
    /\ unsure' = unsure \cup {k \in b..last : Meets(t, k)}
    /\ UNCHANGED bcache

\* The transfer fails after some of the blocks: the cache is left as it is.
WriteFails(t, b, last, d) ==
    /\ request[t] = NoRequest
    /\ \E m \in b..last :
        medium' = [k \in Blocks |-> IF k \in b..(m - 1) THEN d ELSE medium[k]]
    /\ unsure' = unsure \cup (b..last)
    /\ UNCHANGED <<bcache, request>>

SkipUpdate(t) ==
    /\ request[t].pc = "wrote"
    /\ request' = [request EXCEPT ![t] = NoRequest]
    /\ UNCHANGED <<bcache, medium, unsure>>

Written(c, r) == [i \in DOMAIN c |->
    IF c[i].block \in r.block..r.last THEN [c[i] EXCEPT !.data = r.data] ELSE c[i]]

\* The copies that are cached follow the device.
UpdateCopies(t) ==
    /\ request[t].pc = "wrote"
    /\ \E r \in {request[t]} :
        bcache' = Written(Touched(bcache, r.block, r.last), r)
    /\ request' = [request EXCEPT ![t] = NoRequest]
    /\ UNCHANGED <<medium, unsure>>

BlockCacheInit ==
    /\ bcache = <<>>
    /\ medium \in [Blocks -> {CHOOSE d \in Sectors : TRUE}]
    /\ request = [t \in BlockTasks |-> NoRequest]
    /\ unsure = {}

BlockCacheNext == \E t \in BlockTasks :
    \/ \E x \in Extents :
        \/ ReadBlocks(t, x[1], x[2])
        \/ \E d \in Sectors : WriteBlocks(t, x[1], x[2], d) \/ WriteFails(t, x[1], x[2], d)
    \/ Fetch(t) \/ FetchFails(t) \/ Insert(t) \/ ReadMore(t) \/ UpdateCopies(t)
-----------------------------------------------------------------------------
\* A block is cached at most once, within the capacity of the cache, and every
\* copy that no request is about to update is what the device holds; blocks are
\* set apart on which a write met another request between that request's
\* transfer and its update of the cache, or whose write failed.
BlockCacheCoherent ==
    /\ Len(bcache) <= BlockCacheSize
    /\ \A i, j \in DOMAIN bcache : bcache[i].block = bcache[j].block => i = j
    /\ \A i \in DOMAIN bcache : \E b \in {bcache[i].block} :
        b \in unsure \/ (\E t \in BlockTasks : Meets(t, b)) \/ bcache[i].data = medium[b]
=============================================================================
