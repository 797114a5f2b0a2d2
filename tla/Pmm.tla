---- MODULE Pmm ----
(***************************************************************************)
(* The physical page allocator, src/kernel/mm/pmm.c: a binary buddy        *)
(* allocator with reference counts.  Every operation runs under pmm_lock,  *)
(* so each is one step here, written as an operator from one state of the  *)
(* allocator to the next: the heap, the slab and the page tables call them *)
(* from the middle of their own steps.                                     *)
(*                                                                         *)
(* Physical addresses are counted in units of which PageUnits make a page, *)
(* so that a reserved range may begin or end inside one.                   *)
(***************************************************************************)
EXTENDS Naturals, Sequences, FiniteSets, SequencesExt

CONSTANTS
    NumPages,    \* pages of RAM (pmm_num_pages)
    MaxOrder,    \* PMM_MAX_ORDER
    PageUnits,   \* units of address per page
    RefMax,      \* the largest 16-bit reference count
    Ranges       \* the ranges <<start, size>> that boot code may reserve

ASSUME PmmAssumption ==
    /\ NumPages \in Nat \ {0}
    /\ MaxOrder \in Nat
    /\ PageUnits \in Nat \ {0}
    /\ RefMax \in Nat \ {0}

VARIABLES
    pmm,         \* page metadata, free lists, count of free pages, reserved ranges, pmm_ready
    refs,        \* the references the clients of the allocator own, by block
    claimed      \* the units of memory boot code has reserved

Pfns == 0 .. NumPages - 1
Orders == 0 .. MaxOrder

(* A page of pmm_page_array; the links of the free lists are the sequences pmm.list. *)
NoPage == [isFree |-> FALSE, order |-> 0, refcount |-> 0, slab |-> FALSE]

Block(pfn, order) == pfn .. pfn + 2^order - 1
Base(pfn, order) == pfn - (pfn % 2^order)
Buddy(pfn, order) == IF pfn % 2^(order + 1) = 0 THEN pfn + 2^order ELSE pfn - 2^order

(* The order of the smallest block of count pages, or one past the last order. *)
get_order(count) ==
    LET fits == {o \in Orders : 2^o >= count}
    IN  IF fits = {} THEN MaxOrder + 1 ELSE CHOOSE o \in fits : \A q \in fits : o <= q

(* A page any unit of which lies in a reserved range. *)
pfn_is_reserved(m, pfn) ==
    \E i \in DOMAIN m.reserved :
        /\ m.reserved[i].start \div PageUnits <= pfn
        /\ pfn * PageUnits < m.reserved[i].end
        /\ m.reserved[i].start < m.reserved[i].end

pmm_is_managed(m, pfn) == pfn \in Pfns /\ ~pfn_is_reserved(m, pfn)

----
(* Reserving, before the allocator is initialised. *)

(* The range to store and the ranges that remain: whatever overlaps or touches the new
   range is taken out and the search starts again with the wider range. *)
RECURSIVE Coalesce(_, _)
Coalesce(range, others) ==
    LET near == {i \in DOMAIN others : /\ range.start <= others[i].end
                                       /\ others[i].start <= range.end}
        i == CHOOSE k \in near : \A q \in near : k <= q
        last == Len(others)
        merged == [start |-> IF others[i].start < range.start THEN others[i].start ELSE range.start,
                   end |-> IF others[i].end > range.end THEN others[i].end ELSE range.end]
    IN  IF near = {} THEN Append(others, range)
        ELSE Coalesce(merged, SubSeq([others EXCEPT ![i] = others[last]], 1, last - 1))

pmm_reserve_range(m, start, size) ==
    IF size = 0 THEN m
    ELSE [m EXCEPT !.reserved = Coalesce([start |-> start, end |-> start + size], @)]

----
(* Freeing and allocating blocks. *)

(* A free block of this order that a block of the same order may merge with. *)
Mergeable(m, pfn, order) ==
    /\ Buddy(pfn, order) \in Pfns
    /\ m.page[Buddy(pfn, order)].isFree
    /\ m.page[Buddy(pfn, order)].order = order

(* No merging: the block is freed as it is. *)
MergeOrderIdle(m, pfn, order) == order

(* The order at which merging upwards from a block stops. *)
MergeOrder(m, pfn, order) ==
    CHOOSE top \in order .. MaxOrder :
        /\ \A o \in order .. top - 1 : Mergeable(m, Base(pfn, o), o)
        /\ top = MaxOrder \/ ~Mergeable(m, Base(pfn, top), top)

(* The buddies that merge on the way leave their lists; the merged block goes to the head
   of its own. *)
pmm_free_buddy_internal(m, pfn, order) ==
    LET top == MergeOrder(m, pfn, order)
        head == Base(pfn, top)
        taken == {Buddy(Base(pfn, o), o) : o \in order .. top - 1}
        Kept(o) == SelectSeq(m.list[o], LAMBDA q : q \notin taken)
    IN  [m EXCEPT
            !.page = [q \in Pfns |->
                CASE q = head -> [m.page[q] EXCEPT !.isFree = TRUE, !.order = top]
                  [] q \in taken \ {head} -> [m.page[q] EXCEPT !.isFree = FALSE, !.order = 0]
                  [] OTHER -> m.page[q]],
            !.list = [o \in Orders |-> IF o = top THEN <<head>> \o Kept(o) ELSE Kept(o)]]

(* pmm_init lays the unreserved pages out in the largest aligned blocks that hold no
   reserved page. *)
Fits(m, pfn, order) ==
    /\ pfn + 2^order <= NumPages
    /\ \A q \in Block(pfn, order) : ~pfn_is_reserved(m, q)

Starts(m) ==
    {pfn \in Pfns : /\ ~pfn_is_reserved(m, pfn)
                    /\ \A o \in 1 .. MaxOrder : Base(pfn, o) = pfn \/ ~Fits(m, Base(pfn, o), o)}

StartOrder(m, pfn) ==
    CHOOSE o \in Orders :
        /\ o = 0 \/ (Base(pfn, o) = pfn /\ Fits(m, pfn, o))
        /\ \A q \in o + 1 .. MaxOrder : ~(Base(pfn, q) = pfn /\ Fits(m, pfn, q))

pmm_init(m) ==
    LET Place(s, pfn) ==
            [pmm_free_buddy_internal(s, pfn, StartOrder(m, pfn)) EXCEPT
                !.count = @ + 2^StartOrder(m, pfn)]
        empty == [m EXCEPT !.page = [q \in Pfns |-> NoPage],
                           !.list = [o \in Orders |-> <<>>],
                           !.count = 0]
    IN  [FoldLeft(Place, empty, SetToSortSeq(Starts(m), <)) EXCEPT !.ready = TRUE]

(* The order pmm_alloc_pages_nozero finds a block at: the first list that is not empty. *)
Available(m, order) == {o \in order .. MaxOrder : m.list[o] # <<>>}
FirstAvailable(m, order) == CHOOSE o \in Available(m, order) : \A q \in Available(m, order) : o <= q

CanAlloc(m, count) == count > 0 /\ get_order(count) <= MaxOrder /\ Available(m, get_order(count)) # {}

AllocPfn(m, count) == Head(m.list[FirstAvailable(m, get_order(count))])

(* The head of the list is split down to the order asked for; every page of the block
   loses the slab flag. *)
pmm_alloc_pages(m, count) ==
    LET order == get_order(count)
        from == FirstAvailable(m, order)
        pfn == AllocPfn(m, count)
        split == {pfn + 2^o : o \in order .. from - 1}
        Rest(o) == IF o = from THEN Tail(m.list[o]) ELSE m.list[o]
    IN  [m EXCEPT
            !.page = [q \in Pfns |->
                CASE q = pfn -> [isFree |-> FALSE, order |-> order, refcount |-> 1, slab |-> FALSE]
                  [] q \in split -> [m.page[q] EXCEPT !.isFree = TRUE, !.refcount = 0,
                                     !.order = CHOOSE o \in order .. from - 1 : q = pfn + 2^o]
                  [] q \in Block(pfn, order) \ {pfn} -> [m.page[q] EXCEPT !.slab = FALSE]
                  [] OTHER -> m.page[q]],
            !.list = [o \in Orders |-> IF o \in order .. from - 1 THEN <<pfn + 2^o>> \o Rest(o)
                                       ELSE Rest(o)],
            !.count = @ - 2^order]

(* The reference goes; the last one gives the block back. *)
pmm_free_pages(m, pfn) ==
    IF ~pmm_is_managed(m, pfn) THEN m
    ELSE LET less == [m EXCEPT !.page[pfn].refcount = @ - 1]
             order == m.page[pfn].order
         IN  IF less.page[pfn].refcount > 0 THEN less
             ELSE [pmm_free_buddy_internal(less, pfn, order) EXCEPT !.count = @ + 2^order]

pmm_hold_page(m, pfn) ==
    IF ~pmm_is_managed(m, pfn) THEN m ELSE [m EXCEPT !.page[pfn].refcount = @ + 1]

pmm_is_slab(m, pfn) == pmm_is_managed(m, pfn) /\ m.page[pfn].slab

pmm_set_slab(m, pfn, isSlab) == [m EXCEPT !.page[pfn].slab = isSlab]

----
(* The allocator by itself, with clients that hold and release what they were given. *)

PmmUnready == [page |-> [q \in Pfns |-> NoPage], list |-> [o \in Orders |-> <<>>],
               count |-> 0, reserved |-> <<>>, ready |-> FALSE]

NoRefs == [q \in Pfns |-> 0]

PmmInit == pmm = PmmUnready /\ refs = NoRefs /\ claimed = {}

pmmVars == <<pmm, refs, claimed>>

Reserve ==
    /\ ~pmm.ready
    /\ \E r \in Ranges : /\ pmm' = pmm_reserve_range(pmm, r[1], r[2])
                         /\ claimed' = claimed \cup (r[1] .. r[1] + r[2] - 1)
    /\ UNCHANGED refs

Boot ==
    /\ ~pmm.ready
    /\ pmm' = pmm_init(pmm)
    /\ UNCHANGED <<refs, claimed>>

Alloc(count) ==
    /\ pmm.ready
    /\ CanAlloc(pmm, count)
    /\ pmm' = pmm_alloc_pages(pmm, count)
    /\ refs' = [refs EXCEPT ![AllocPfn(pmm, count)] = 1]
    /\ UNCHANGED claimed

(* A hold of a page with RefMax references stops the machine. *)
Hold(pfn) ==
    /\ refs[pfn] > 0
    /\ pmm.page[pfn].refcount < RefMax
    /\ pmm' = pmm_hold_page(pmm, pfn)
    /\ refs' = [refs EXCEPT ![pfn] = @ + 1]
    /\ UNCHANGED claimed

Free(pfn) ==
    /\ refs[pfn] > 0
    /\ pmm' = pmm_free_pages(pmm, pfn)
    /\ refs' = [refs EXCEPT ![pfn] = @ - 1]
    /\ UNCHANGED claimed

PmmNext ==
    \/ Reserve
    \/ Boot
    \/ \E count \in 1 .. 2^MaxOrder : Alloc(count)
    \/ \E pfn \in Pfns : Hold(pfn) \/ Free(pfn)

----
FreeBlocks(m) == {<<q, m.page[q].order>> : q \in {p \in Pfns : m.page[p].isFree}}

(* Every page that no range reserved at boot touches is in exactly one block, free or owned by a
   client; the free lists hold the free blocks, each in the list of its order and once; the
   count of free pages is theirs; and a block's reference count is the number of references
   its clients own.  pmm_free_pages and pmm_alloc_pages_nozero, with every split and merge. *)
PmmPartition ==
    pmm.ready =>
        LET free == FreeBlocks(pmm)
            owned == {<<q, pmm.page[q].order>> : q \in {p \in Pfns : refs[p] > 0}}
            usable == {q \in Pfns : claimed \cap (q * PageUnits .. (q + 1) * PageUnits - 1) = {}}
        IN  /\ \A q \in usable : Cardinality({b \in free \cup owned : q \in Block(b[1], b[2])}) = 1
            /\ \A b \in free \cup owned : Block(b[1], b[2]) \subseteq usable
            /\ \A o \in Orders : /\ Range(pmm.list[o]) = {b[1] : b \in {f \in free : f[2] = o}}
                                 /\ IsInjective(pmm.list[o])
            /\ pmm.count = Cardinality(UNION {Block(b[1], b[2]) : b \in free})
            /\ \A q \in Pfns : refs[q] > 0 => pmm.page[q].refcount = refs[q]

(* Two free buddies of one order are always merged, up to the largest order, so memory that
   was handed out in pieces and given back is whole again whatever the order of the frees:
   pmm_free_buddy_internal. *)
PmmCoalesced ==
    pmm.ready => \A b \in FreeBlocks(pmm) : b[2] < MaxOrder => <<Buddy(b[1], b[2]), b[2]>> \notin FreeBlocks(pmm)

(* The page allocator loses no page, hands none out twice and keeps nothing in pieces, over any
   sequence of boot ranges, allocations, holds and frees. *)
BuddySound == PmmPartition /\ PmmCoalesced
====
