---- MODULE KernelHeap ----
(***************************************************************************)
(* The kernel's dynamic memory, src/kernel/mm/heap.c and slab.c, on top of *)
(* the page allocator: objects of a few size classes from slab pages, and  *)
(* a first-fit pool for what is larger.  Each core runs heap_malloc and    *)
(* heap_free; a step is what runs under one spinlock, so the growth of the *)
(* pool and the return of an empty slab page interleave with other cores.  *)
(*                                                                         *)
(* Sizes are in units; the layout of a slab page is abstracted to the      *)
(* number of objects of its class that fit it.                             *)
(***************************************************************************)
EXTENDS Pmm

CONSTANTS
    Cores,       \* the cores that allocate
    Classes,     \* the size classes of the slab allocator
    Slots,       \* objects per page of a class
    PoolSizes,   \* the sizes asked of the pool, aligned (HEAP_ALIGN)
    MaxLive      \* bound: objects and blocks the clients own at a time

VARIABLES
    slabPage,    \* header of every page the slab allocator carved
    partial,     \* partial_list of each class
    full,        \* full_list of each class
    hfree,       \* the pool's free list: blocks [addr, size]
    hlive,       \* allocated blocks of the pool, size by address
    used,        \* heap_used_size
    pool,        \* pages the pool obtained (heap_total_size is their size)
    call         \* what each core is doing

heapVars == <<slabPage, partial, full, hfree, hlive, used, pool, call>>

Header == 2      \* HEAP_HEADER_SIZE
Footer == 1      \* HEAP_FOOTER_SIZE
MinSplit == 1    \* the smallest remainder worth a block of its own

Idle == [op |-> "idle"]

(* A core between calls may start one; one that is in a call goes on with it. *)
In(c, op) == call[c].op = op
Goto(c, next) == call' = [call EXCEPT ![c] = next]

Owned == Cardinality(DOMAIN hlive) + Cardinality(UNION {{p} \X slabPage[p].used : p \in DOMAIN slabPage})

With(f, x, v) == [y \in DOMAIN f \cup {x} |-> IF y = x THEN v ELSE f[y]]
Without(f, x) == [y \in DOMAIN f \ {x} |-> f[y]]

----
(* The slab allocator. *)

(* A fresh page of a class: every object on its free list, the last carved first. *)
Carved(class) == [class |-> class, free |-> [i \in 1 .. Slots[class] |-> Slots[class] + 1 - i], used |-> {}]

(* slab_alloc, under the lock of the class.  A class without a partial page grows. *)
slab_alloc(c, class) ==
    /\ In(c, "idle")
    /\ Owned < MaxLive
    /\ LET grow == partial[class] = <<>>
           p == IF grow THEN AllocPfn(pmm, 1) ELSE Head(partial[class])
           sp == IF grow THEN Carved(class) ELSE slabPage[p]
           rest == IF grow THEN <<>> ELSE Tail(partial[class])
           left == Tail(sp.free)
       IN  /\ grow => CanAlloc(pmm, 1)
           /\ slabPage' = With(slabPage, p, [sp EXCEPT !.free = left, !.used = @ \cup {Head(sp.free)}])
           /\ IF left = <<>>
              THEN /\ partial' = [partial EXCEPT ![class] = rest]
                   /\ full' = [full EXCEPT ![class] = <<p>> \o @]
              ELSE /\ partial' = [partial EXCEPT ![class] = <<p>> \o rest]
                   /\ UNCHANGED full
           /\ IF grow
              THEN /\ pmm' = pmm_set_slab(pmm_alloc_pages(pmm, 1), p, TRUE)
                   /\ refs' = [refs EXCEPT ![p] = 1]
              ELSE UNCHANGED <<pmm, refs>>
    /\ UNCHANGED <<claimed, hfree, hlive, used, pool, call>>

(* slab_free, under the lock of the class: a full page becomes partial again, an empty one
   leaves its list and is released once the lock is dropped. *)
slab_free(c, p, slot) ==
    /\ In(c, "idle")
    /\ pmm_is_slab(pmm, p)
    /\ LET sp == slabPage[p]
           class == sp.class
           wasFull == sp.free = <<>>
           empty == sp.used = {slot}
       IN  /\ slabPage' = [slabPage EXCEPT ![p].free = <<slot>> \o @, ![p].used = @ \ {slot}]
           /\ full' = IF wasFull THEN [full EXCEPT ![class] = Remove(@, p)] ELSE full
           /\ partial' = CASE empty /\ ~wasFull -> [partial EXCEPT ![class] = Remove(@, p)]
                           [] wasFull /\ ~empty -> [partial EXCEPT ![class] = <<p>> \o @]
                           [] OTHER -> partial
           /\ IF empty THEN Goto(c, [op |-> "release", page |-> p]) ELSE UNCHANGED call
    /\ UNCHANGED <<pmm, refs, claimed, hfree, hlive, used, pool>>

(* slab_release_page: the flag goes first, then the page. *)
slab_release_page(c) ==
    \/ /\ In(c, "release")
       /\ pmm' = pmm_set_slab(pmm, call[c].page, FALSE)
       /\ Goto(c, [op |-> "freepage", page |-> call[c].page])
       /\ UNCHANGED <<refs, slabPage>>
    \/ /\ In(c, "freepage")
       /\ pmm' = pmm_free_pages(pmm, call[c].page)
       /\ refs' = [refs EXCEPT ![call[c].page] = 0]
       /\ slabPage' = Without(slabPage, call[c].page)
       /\ Goto(c, Idle)

----
(* The pool. *)

End(b) == b.addr + Header + b.size

(* heap_insert_free: into the address-ordered list, joined with the block after it and
   then with the block before it. *)
heap_insert_free(list, block) ==
    LET before == SelectSeq(list, LAMBDA b : b.addr < block.addr)
        after == SelectSeq(list, LAMBDA b : b.addr > block.addr)
        joinNext == after # <<>> /\ End(block) = after[1].addr
        b1 == IF joinNext THEN [block EXCEPT !.size = @ + Header + after[1].size] ELSE block
        tail == IF joinNext THEN Tail(after) ELSE after
        joinPrev == before # <<>> /\ End(Last(before)) = block.addr
        b2 == [addr |-> Last(before).addr, size |-> Last(before).size + Header + b1.size]
    IN  IF joinPrev THEN Front(before) \o <<b2>> \o tail ELSE before \o <<b1>> \o tail

(* The footer is forgotten. *)
ExpandPagesTight(size) == 2^get_order((size + Header + PageUnits - 1) \div PageUnits)

(* The pages heap_expand asks for: header, footer and the request, rounded to a power of
   two as pmm_alloc_pages would. *)
ExpandPages(size) == 2^get_order((size + Header + Footer + PageUnits - 1) \div PageUnits)

(* The first free block that holds the request and its footer. *)
FirstFit(list, size) ==
    LET fit == {i \in DOMAIN list : list[i].size >= size + Footer}
    IN  IF fit = {} THEN 0 ELSE CHOOSE i \in fit : \A j \in fit : i <= j

(* The split remainder begins where the footer lies. *)
CarveOver(list, i, size) ==
    LET b == list[i]
        rest == RemoveAt(list, i)
    IN  IF b.size >= size + Footer + Header + MinSplit
        THEN [size |-> size,
              list |-> heap_insert_free(rest, [addr |-> b.addr + Header + size,
                                               size |-> b.size - size - Header])]
        ELSE [size |-> b.size - Footer, list |-> rest]

(* What the search of heap_malloc makes of the block it takes: split when the remainder is
   a block, else given out whole. *)
Carve(list, i, size) ==
    LET b == list[i]
        need == size + Footer
        rest == RemoveAt(list, i)
    IN  IF b.size >= need + Header + MinSplit
        THEN [size |-> size,
              list |-> heap_insert_free(rest, [addr |-> b.addr + Header + need,
                                               size |-> b.size - need - Header])]
        ELSE [size |-> b.size - Footer, list |-> rest]

(* The search, under heap_lock. *)
Search(c, size) ==
    LET i == FirstFit(hfree, size)
    IN  IF i = 0
        THEN /\ Goto(c, [op |-> "expand", size |-> size])
             /\ UNCHANGED <<hfree, hlive, used>>
        ELSE LET got == Carve(hfree, i, size)
             IN  /\ hfree' = got.list
                 /\ hlive' = With(hlive, hfree[i].addr, got.size)
                 /\ used' = used + got.size + Header
                 /\ Goto(c, Idle)

(* heap_malloc starts with a search, and searches again once it grew the pool. *)
heap_malloc(c) ==
    /\ \/ In(c, "idle") /\ Owned < MaxLive /\ \E size \in PoolSizes : Search(c, size)
       \/ In(c, "search") /\ Search(c, call[c].size)
    /\ UNCHANGED <<pmm, refs, claimed, pool, slabPage, partial, full>>

(* heap_expand runs outside heap_lock; without pages the allocation fails. *)
heap_expand(c) ==
    /\ In(c, "expand")
    /\ LET pages == ExpandPages(call[c].size)
           p == AllocPfn(pmm, pages)
       IN  IF CanAlloc(pmm, pages)
           THEN /\ pmm' = pmm_alloc_pages(pmm, pages)
                /\ refs' = [refs EXCEPT ![p] = 1]
                /\ pool' = pool \cup p .. p + pages - 1
                /\ Goto(c, [op |-> "insert", size |-> call[c].size,
                            block |-> [addr |-> p * PageUnits, size |-> pages * PageUnits - Header]])
           ELSE Goto(c, Idle) /\ UNCHANGED <<pmm, refs, pool>>
    /\ UNCHANGED <<claimed, slabPage, partial, full, hfree, hlive, used>>

HeapInsert(c) ==
    /\ In(c, "insert")
    /\ hfree' = heap_insert_free(hfree, call[c].block)
    /\ Goto(c, [op |-> "search", size |-> call[c].size])
    /\ UNCHANGED <<pmm, refs, claimed, slabPage, partial, full, hlive, used, pool>>

(* heap_free of a block of the pool: slab_owns must not claim its page. *)
heap_free(c, addr) ==
    /\ In(c, "idle")
    /\ addr \in DOMAIN hlive
    /\ ~pmm_is_slab(pmm, (addr + Header) \div PageUnits)
    /\ used' = used - (hlive[addr] + Header)
    /\ hfree' = heap_insert_free(hfree, [addr |-> addr, size |-> hlive[addr] + Footer])
    /\ hlive' = Without(hlive, addr)
    /\ UNCHANGED <<pmm, refs, claimed, slabPage, partial, full, pool, call>>

----
(* heap_init: a page per class, then a pool that holds a page. *)
HeapBooted(m) ==
    LET s1 == FoldLeft(LAMBDA s, class : [m |-> pmm_set_slab(pmm_alloc_pages(s.m, 1), AllocPfn(s.m, 1), TRUE),
                                          seed |-> With(s.seed, class, AllocPfn(s.m, 1))],
                       [m |-> m, seed |-> <<>>], SetToSortSeq(Classes, <))
    IN  [pmm |-> pmm_alloc_pages(s1.m, ExpandPages(PageUnits)), seed |-> s1.seed,
         first |-> AllocPfn(s1.m, ExpandPages(PageUnits))]

HeapInit(m) ==
    LET b == HeapBooted(m)
        pages == ExpandPages(PageUnits)
    IN  /\ pmm = b.pmm
        /\ refs = [q \in Pfns |-> IF q = b.first \/ q \in Range(b.seed) THEN 1 ELSE 0]
        /\ partial = [k \in Classes |-> <<b.seed[k]>>]
        /\ full = [k \in Classes |-> <<>>]
        /\ slabPage = [p \in Range(b.seed) |-> Carved(CHOOSE k \in Classes : b.seed[k] = p)]
        /\ hfree = <<[addr |-> b.first * PageUnits, size |-> pages * PageUnits - Header]>>
        /\ pool = b.first .. b.first + pages - 1

HeapIdle ==
    /\ hlive = <<>>
    /\ used = 0
    /\ call = [c \in Cores |-> Idle]

HeapNext ==
    \E c \in Cores :
        \/ \E class \in Classes : slab_alloc(c, class)
        \/ \E p \in DOMAIN slabPage : \E slot \in slabPage[p].used : slab_free(c, p, slot)
        \/ slab_release_page(c) /\ UNCHANGED <<claimed, partial, full, hfree, hlive, used, pool>>
        \/ heap_malloc(c)
        \/ heap_expand(c)
        \/ HeapInsert(c)
        \/ \E addr \in DOMAIN hlive : heap_free(c, addr)

----
(* The units of a block of the pool, header and footer included. *)
Extent(addr, size) == addr .. addr + Header + size - 1

PoolBlocks ==
    {Extent(hfree[i].addr, hfree[i].size) : i \in DOMAIN hfree}
        \cup {Extent(a, hlive[a] + Footer) : a \in DOMAIN hlive}
        \cup {Extent(call[c].block.addr, call[c].block.size) : c \in {d \in Cores : In(d, "insert")}}

(* The free blocks, the blocks given out (with their redzones) and the blocks on their way
   into the list tile the pages of the pool: none overlaps another and no unit is lost.  The
   free list is in address order with no two neighbours left apart, heap_used_size is what
   the clients hold, and slab_owns says no to every pointer of the pool.  heap_malloc,
   heap_expand and heap_free on several cores. *)
PoolTiled ==
    /\ \A x, y \in PoolBlocks : x # y => x \cap y = {}
    /\ Cardinality(PoolBlocks) =
           Len(hfree) + Cardinality(DOMAIN hlive) + Cardinality({c \in Cores : In(c, "insert")})
    /\ UNION PoolBlocks = UNION {p * PageUnits .. (p + 1) * PageUnits - 1 : p \in pool}
    /\ \A i \in 1 .. Len(hfree) - 1 : End(hfree[i]) < hfree[i + 1].addr
    /\ used = FoldFunctionOnSet(LAMBDA s, t : s + t + Header, 0, hlive, DOMAIN hlive)
    /\ \A a \in DOMAIN hlive : ~pmm_is_slab(pmm, (a + Header) \div PageUnits)

(* A pool that was grown for a request can serve it: the search that follows heap_expand
   fails only when another core took the block first.  The comment of heap_expand. *)
GrowthServes ==
    [][\A c \in Cores : In(c, "insert") /\ call'[c].op = "search" => FirstFit(hfree', call[c].size) # 0]_heapVars

(* A slab page is on the partial list of its class while it has a free object and on the
   full list while it has none, on no list once it is empty and being released; its free
   list and its used objects share nothing; and it is flagged, and not free, for as long as
   one of its objects is in use or can be handed out.  slab_alloc, slab_free and
   slab_release_page on several cores. *)
SlabPagesFiled ==
    /\ \A p \in DOMAIN slabPage :
          LET sp == slabPage[p]
              leaving == \E c \in Cores : call[c].op \in {"release", "freepage"} /\ call[c].page = p
          IN  /\ Range(sp.free) \cup sp.used = 1 .. Slots[sp.class]
              /\ Len(sp.free) + Cardinality(sp.used) = Slots[sp.class]
              /\ (p \in Range(partial[sp.class])) = (sp.free # <<>> /\ ~leaving)
              /\ (p \in Range(full[sp.class])) = (sp.free = <<>>)
              /\ ~leaving => pmm_is_slab(pmm, p)
              /\ ~pmm.page[p].isFree
    /\ \A k \in Classes : IsInjective(partial[k] \o full[k])
    /\ \A q \in Pfns : pmm_is_slab(pmm, q) => q \in DOMAIN slabPage

(* Both allocators behind kmalloc are sound at once, while their calls run on several cores and
   take their pages from the same page allocator. *)
HeapSound == PoolTiled /\ SlabPagesFiled
=============================================================================
