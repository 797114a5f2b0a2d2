---- MODULE UserMemory ----
(***************************************************************************)
(* User address spaces: the page tables of src/kernel/mm/mmu.c with copy   *)
(* on write, the virtual-address allocator and the image of a process      *)
(* (sched/process.c, core/elf.c) and anonymous and framebuffer mappings    *)
(* (core/syscall.c, driver/fb.c).                                           *)
(*                                                                         *)
(* Of the page allocator only what these callers see of it is here: a page *)
(* has a reference count, one with none is free, and an allocation returns *)
(* some free page with one reference.  Which one is the business of module *)
(* Pmm; it is the lowest here.                                             *)
(*                                                                         *)
(* A process is single-threaded and its tables are its own, so the calls   *)
(* that build, copy or destroy an address space are one step each, with    *)
(* every allocation in them free to fail.  The resolution of a write fault *)
(* is not: it drops mmu_lock while it allocates and copies, and every      *)
(* process that shares the page may be at any point of its own.            *)
(*                                                                         *)
(* The three levels of tables are two here: the root and the tables of     *)
(* TableSpan entries.  What the TLB caches is the subject of module Asid.  *)
(***************************************************************************)
EXTENDS Naturals, Sequences, FiniteSets, SequencesExt

CONSTANTS
    Frames,      \* pages of RAM the allocator manages
    Procs,       \* processes
    VaBase,      \* USER_VA_BASE, in pages: images lie below it, regions above
    VaLimit,     \* USER_VA_LIMIT, in pages
    TableSpan,   \* entries of a table
    MaxRegions,  \* USER_VA_MAX_REGIONS
    StackPages,  \* PROCESS_USER_STACK_PAGES
    Images,      \* programs: sequences of segments [lo, hi, x]
    Requests,    \* calls of mmap: [pages, ro, frame]
    FrameBuffer, \* the page of the framebuffer, which the allocator does not manage
    Values,      \* what a page may hold
    None         \* no page, no entry, no space

VPages == 0 .. VaLimit - 1
Tables == 0 .. (VaLimit - 1) \div TableSpan

VARIABLES
    count,       \* reference counts of the pages (pmm_page.refcount)
    space,       \* user_pgd and va of each process, or None
    data,        \* contents of the physical pages
    view,        \* what each process must read, by virtual page
    fault        \* the write fault each process is in

userVars == <<count, space, data, view, fault>>

Alive(p) == space[p] # None
Running(p) == Alive(p) /\ fault[p] = None

(* The page allocator. *)
Pages == 1 .. Frames
FreePages(m) == {q \in Pages : m[q] = 0}
PageLeft(m) == FreePages(m) # {}
NextPage(m) == CHOOSE q \in FreePages(m) : \A r \in FreePages(m) : q <= r
TakePage(m) == [m EXCEPT ![NextPage(m)] = 1]
Managed(q) == q \in Pages
HoldPage(m, q) == IF Managed(q) THEN [m EXCEPT ![q] = @ + 1] ELSE m
DropPage(m, q) == IF Managed(q) THEN [m EXCEPT ![q] = @ - 1] ELSE m

(* The building of a space: whether all went well, the allocator, the space. *)
Build(ok, m, sp) == [ok |-> ok, m |-> m, sp |-> sp]

EmptySpace(pgd) == [pgd |-> pgd, table |-> [t \in Tables |-> None],
                    pte |-> [v \in VPages |-> None], va |-> <<>>]

----
(* Page tables. *)

mmu_create_user_pgd(m) ==
    IF PageLeft(m) THEN Build(TRUE, TakePage(m), EmptySpace(NextPage(m)))
    ELSE Build(FALSE, m, None)

(* The table of a virtual page, allocated when it is missing. *)
WithTable(b, v) ==
    LET t == v \div TableSpan
    IN  IF b.sp.table[t] # None THEN b
        ELSE IF ~PageLeft(b.m) THEN [b EXCEPT !.ok = FALSE]
        ELSE [b EXCEPT !.sp.table[t] = NextPage(b.m), !.m = TakePage(b.m)]

(* mmu_user_map_page: the page that was mapped there is released. *)
SetEntry(b, v, entry) ==
    IF ~b.ok THEN b
    ELSE [b EXCEPT !.sp.pte[v] = entry,
                   !.m = IF b.sp.pte[v] = None THEN @ ELSE DropPage(@, b.sp.pte[v].pfn)]

mmu_user_map_page(b, v, entry) == SetEntry(WithTable(b, v), v, entry)

mmu_user_unmap_page(b, v) ==
    IF b.sp.pte[v] = None THEN b
    ELSE [b EXCEPT !.sp.pte[v] = None, !.m = DropPage(@, b.sp.pte[v].pfn)]

(* A fresh page at a virtual page: allocated, then mapped, and given back when it cannot be. *)
(* The page is lost. *)
OrKeep(b, pfn) == b

OrGiveBack(b, pfn) == IF b.ok THEN b ELSE [b EXCEPT !.m = DropPage(@, pfn)]

MapPage(b, v, pfn, ro, x) ==
    OrGiveBack(mmu_user_map_page([b EXCEPT !.m = TakePage(@)], v,
                                 [pfn |-> pfn, ro |-> ro, cow |-> FALSE, x |-> x]), pfn)

MapFresh(b, v, ro, x) ==
    IF b.ok /\ PageLeft(b.m) THEN MapPage(b, v, NextPage(b.m), ro, x) ELSE [b EXCEPT !.ok = FALSE]

(* The references of a space to a page: as a leaf, as a table, as the root. *)
RefsTo(sp, q) ==
    Cardinality({v \in VPages : sp.pte[v] # None /\ sp.pte[v].pfn = q})
        + Cardinality({t \in Tables : sp.table[t] = q})
        + (IF sp.pgd = q THEN 1 ELSE 0)

(* Every one of them is dropped. *)
mmu_destroy_user_pgd(m, sp) == [q \in Pages |-> m[q] - RefsTo(sp, q)]

(* A writable entry becomes read-only and copy-on-write; in both tables. *)
Shared(e) == IF e = None \/ e.ro THEN e ELSE [e EXCEPT !.ro = TRUE, !.cow = TRUE]

(* mmu_copy_user_pgd: the parent's entries become shared as they are reached, so a copy
   that runs out of tables leaves those before it copy-on-write and destroys the child. *)
ShareEntry(b, v, e) ==
    IF ~b.ok \/ e = None THEN b
    ELSE [b EXCEPT !.sp.pte[v] = e, !.up[v] = e, !.m = HoldPage(@, e.pfn)]

CopyEntry(b, v) ==
    IF ~b.ok \/ b.from.table[v \div TableSpan] = None THEN b
    ELSE ShareEntry(WithTable(b, v), v, Shared(b.from.pte[v]))

CopyDone(b) == IF b.ok \/ b.sp = None THEN b ELSE [b EXCEPT !.m = mmu_destroy_user_pgd(@, b.sp)]

CopyInto(root, parent) ==
    CopyDone(FoldLeft(CopyEntry,
                      [ok |-> root.ok, m |-> root.m, sp |-> root.sp, from |-> parent, up |-> parent.pte],
                      [i \in 1 .. VaLimit |-> i - 1]))

mmu_copy_user_pgd(m, parent) == CopyInto(mmu_create_user_pgd(m), parent)

----
(* Virtual addresses. *)

RegionEnd(r) == r.base + r.pages

(* The lowest address free once the first i regions are passed. *)
Candidate(va, i) ==
    LET ends == {RegionEnd(va[j]) : j \in 1 .. i} \cup {VaBase}
    IN  CHOOSE e \in ends : \A f \in ends : f <= e

(* process_va_alloc: the place before the first region that leaves a gap large enough, else
   the end.  None when the table of regions is full or the address space is. *)
process_va_alloc(va, pages) ==
    LET gaps == {i \in DOMAIN va : Candidate(va, i - 1) + pages <= va[i].base}
        slot == IF gaps = {} THEN Len(va) + 1 ELSE CHOOSE i \in gaps : \A j \in gaps : i <= j
        base == Candidate(va, slot - 1)
    IN  IF pages = 0 \/ Len(va) >= MaxRegions \/ base + pages > VaLimit THEN None
        ELSE [base |-> base, va |-> InsertAt(va, slot, [base |-> base, pages |-> pages])]

process_va_free(va, base) == SelectSeq(va, LAMBDA r : r.base # base)

(* A run of fresh pages. *)
MapRun(b, base, pages, ro) ==
    FoldLeft(LAMBDA c, i : MapFresh(c, base + i, ro, FALSE), b, [i \in 1 .. pages |-> i - 1])

StackAt(b, got) ==
    IF got = None THEN [b EXCEPT !.ok = FALSE]
    ELSE MapRun([b EXCEPT !.sp.va = got.va], got.base, StackPages, FALSE)

setup_user_stack(b) == IF b.ok THEN StackAt(b, process_va_alloc(b.sp.va, StackPages)) ELSE b

----
(* elf_load maps the segments of the image in turn.  A page an earlier segment mapped is
   kept, with the permissions of both when it was executable.  A read may fail. *)
LoadPage(b, v, x) ==
    IF ~b.ok \/ (b.sp.pte[v] # None /\ ~b.sp.pte[v].x) THEN b
    ELSE IF b.sp.pte[v] = None THEN MapFresh(b, v, x, x)
    ELSE mmu_user_map_page([b EXCEPT !.m = HoldPage(@, b.sp.pte[v].pfn)], v,
                           [b.sp.pte[v] EXCEPT !.x = x, !.ro = @ \/ x])

LoadSegment(b, s) ==
    FoldLeft(LAMBDA c, i : LoadPage(c, s.lo + i, s.x), b, [i \in 1 .. s.hi - s.lo + 1 |-> i - 1])

elf_load(b, image, readable) ==
    IF b.ok /\ readable /\ \A i \in DOMAIN image : image[i].hi < VaBase
    THEN FoldLeft(LoadSegment, b, image)
    ELSE [b EXCEPT !.ok = FALSE]

(* What process_create_from_file and process_exec do to have a new image: a root, the
   segments, a stack; all of it is destroyed when one of them fails, or when the kernel stack
   or the task of a new process cannot be had. *)
ImageDone(b) ==
    IF b.ok \/ b.sp = None THEN b ELSE Build(FALSE, mmu_destroy_user_pgd(b.m, b.sp), None)

NewImage(m, image, readable, later) ==
    ImageDone([setup_user_stack(elf_load(mmu_create_user_pgd(m), image, readable)) EXCEPT !.ok = @ /\ later])

(* The view of a new image: every page it maps reads as the image has it. *)
Fresh == CHOOSE x \in Values : TRUE
Mapped(sp) == {v \in VPages : sp.pte[v] # None}
FreshPages(sp) == {sp.pte[v].pfn : v \in Mapped(sp)}
FreshView == [v \in VPages |-> Fresh]

(* Pages just handed out are written before they are mapped (memset, the read of the image). *)
Cleared(sp, old) == [q \in Pages |-> IF q \in FreshPages(sp) \ old THEN Fresh ELSE data[q]]

(* What a page holds is lost with its last reference. *)
Scrubbed(d) == [q \in Pages |-> IF count'[q] = 0 THEN Fresh ELSE d[q]]

----
process_create_from_file(p) ==
    /\ \A q \in Procs : ~Alive(q)
    /\ \E image \in Images, readable, later \in BOOLEAN :
       \E b \in {NewImage(count, image, readable, later)} :
          /\ count' = b.m
          /\ space' = [space EXCEPT ![p] = b.sp]
          /\ data' = IF b.ok THEN Cleared(b.sp, {}) ELSE data
          /\ view' = [view EXCEPT ![p] = FreshView]
    /\ UNCHANGED fault

(* process_exec: the old space goes once the new one is installed. *)
process_exec(p) ==
    /\ Running(p)
    /\ \E image \in Images, readable \in BOOLEAN : \E b \in {NewImage(count, image, readable, TRUE)} :
              IF b.ok
              THEN /\ count' = mmu_destroy_user_pgd(b.m, space[p])
                   /\ space' = [space EXCEPT ![p] = b.sp]
                   /\ data' = Scrubbed(Cleared(b.sp, {}))
                   /\ view' = [view EXCEPT ![p] = FreshView]
              ELSE /\ count' = b.m
                   /\ UNCHANGED <<space, data, view>>
    /\ UNCHANGED fault

(* process_fork: a failure after the copy (no stack, no task) destroys the child's space. *)
process_fork(p, child) ==
    /\ Running(p)
    /\ ~Alive(child)
    /\ \E later \in BOOLEAN, c \in {mmu_copy_user_pgd(count, space[p])} :
              IF c.ok /\ later
              THEN /\ count' = c.m
                   /\ space' = [space EXCEPT ![p].pte = c.up, ![child] = [c.sp EXCEPT !.va = space[p].va]]
                   /\ view' = [view EXCEPT ![child] = view[p]]
              ELSE /\ count' = IF c.ok THEN mmu_destroy_user_pgd(c.m, c.sp) ELSE c.m
                   /\ space' = [space EXCEPT ![p].pte = c.up]
                   /\ UNCHANGED view
    /\ UNCHANGED <<data, fault>>

(* The address space of an exiting process, once TTBR0 no longer names it. *)
process_exit(p) ==
    /\ Running(p)
    /\ count' = mmu_destroy_user_pgd(count, space[p])
    /\ space' = [space EXCEPT ![p] = None]
    /\ data' = Scrubbed(data)
    /\ view' = [view EXCEPT ![p] = FreshView]
    /\ UNCHANGED fault

(* What mmap_handler undoes when a page cannot be had: every page of the region, and the
   region. *)
UnmapRun(b, base, pages) ==
    FoldLeft(LAMBDA c, i : mmu_user_unmap_page(c, base + i), b, [i \in 1 .. pages |-> i - 1])

(* The region is left reserved. *)
MmapUndoPages(b, base, pages) == UnmapRun(b, base, pages)

MmapUndo(b, base, pages) == UnmapRun([b EXCEPT !.sp.va = process_va_free(@, base)], base, pages)

OrUndo(b, base, pages) == IF b.ok THEN b ELSE MmapUndo(b, base, pages)

(* mmap_handler: anonymous memory, or the framebuffer, which is one page here (fb_mmap). *)
MapRequest(b, base, r) ==
    IF r.frame
    THEN mmu_user_map_page(b, base, [pfn |-> FrameBuffer, ro |-> r.ro, cow |-> FALSE, x |-> FALSE])
    ELSE MapRun(b, base, r.pages, r.ro)

mmap_handler(p, r) ==
    /\ Running(p)
    /\ \E got \in {process_va_alloc(space[p].va, r.pages)} \ {None} :
       \E b \in {OrUndo(MapRequest(Build(TRUE, count, [space[p] EXCEPT !.va = got.va]), got.base, r),
                        got.base, r.pages)} :
          /\ count' = b.m
          /\ space' = [space EXCEPT ![p] = b.sp]
          /\ data' = IF b.ok /\ ~r.frame THEN Cleared(b.sp, FreshPages(space[p])) ELSE data
          /\ view' = IF b.ok THEN [view EXCEPT ![p] = [v \in VPages |-> IF v \in got.base .. got.base + r.pages - 1
                                                                      THEN Fresh ELSE @[v]]]
                     ELSE view
    /\ UNCHANGED fault

----
(* Stores, and the faults they take. *)

Store(p, v, x) ==
    /\ Running(p)
    /\ space[p].pte[v] # None /\ ~space[p].pte[v].ro
    /\ data' = [q \in Pages |-> IF q = space[p].pte[v].pfn THEN x ELSE data[q]]
    /\ view' = [view EXCEPT ![p][v] = x]
    /\ UNCHANGED <<count, space, fault>>

(* The source is not held. *)
mmu_handle_cow_unheld(p, v) ==
    /\ Running(p)
    /\ LET e == space[p].pte[v]
       IN  /\ e # None /\ e.cow
           /\ IF ~Managed(e.pfn) \/ count[e.pfn] <= 1
              THEN /\ space' = [space EXCEPT ![p].pte[v].cow = FALSE, ![p].pte[v].ro = FALSE]
                   /\ UNCHANGED fault
              ELSE /\ fault' = [fault EXCEPT ![p] = [at |-> "alloc", v |-> v, old |-> e.pfn, new |-> None, owes |-> 0]]
                   /\ UNCHANGED space
    /\ UNCHANGED <<count, data, view>>

(* mmu_handle_cow, first part, under mmu_lock: a page nobody else refers to is made
   writable in place; any other is held while the lock is dropped. *)
mmu_handle_cow(p, v) ==
    /\ Running(p)
    /\ LET e == space[p].pte[v]
       IN  /\ e # None /\ e.cow
           /\ IF ~Managed(e.pfn) \/ count[e.pfn] <= 1
              THEN /\ space' = [space EXCEPT ![p].pte[v].cow = FALSE, ![p].pte[v].ro = FALSE]
                   /\ UNCHANGED <<count, fault>>
              ELSE /\ count' = HoldPage(count, e.pfn)
                   /\ fault' = [fault EXCEPT ![p] = [at |-> "alloc", v |-> v, old |-> e.pfn, new |-> None, owes |-> 1]]
                   /\ UNCHANGED space
    /\ UNCHANGED <<data, view>>

(* Without a page for the copy the fault is not resolved. *)
CowAlloc(p) ==
    /\ Alive(p) /\ fault[p] # None /\ fault[p].at = "alloc"
    /\ IF PageLeft(count)
       THEN /\ count' = TakePage(count)
            /\ fault' = [fault EXCEPT ![p].at = "copy", ![p].new = NextPage(count)]
       ELSE /\ count' = DropPage(count, fault[p].old)
            /\ fault' = [fault EXCEPT ![p] = None]
    /\ data' = Scrubbed(data)
    /\ UNCHANGED <<space, view>>

CowCopy(p) ==
    /\ Alive(p) /\ fault[p] # None /\ fault[p].at = "copy"
    /\ data' = [data EXCEPT ![fault[p].new] = data[fault[p].old]]
    /\ fault' = [fault EXCEPT ![p].at = "install"]
    /\ UNCHANGED <<count, space, view>>

(* The entry is read again under mmu_lock; if it is as it was, the copy replaces the page,
   whose mapping's reference is now ours to drop; if not, the copy is dropped. *)
CowInstall(p) ==
    /\ Alive(p) /\ fault[p] # None /\ fault[p].at = "install"
    /\ LET f == fault[p]
           e == space[p].pte[f.v]
       IN  IF e # None /\ e.cow /\ e.pfn = f.old
           THEN /\ space' = [space EXCEPT ![p].pte[f.v] = [e EXCEPT !.pfn = f.new, !.ro = FALSE, !.cow = FALSE]]
                /\ fault' = [fault EXCEPT ![p].at = "drop", ![p].new = None, ![p].owes = @ + 1]
                /\ UNCHANGED count
           ELSE /\ count' = DropPage(count, f.new)
                /\ fault' = [fault EXCEPT ![p].at = "drop", ![p].new = None]
                /\ UNCHANGED space
    /\ UNCHANGED <<data, view>>

CowDrop(p) ==
    /\ Alive(p) /\ fault[p] # None /\ fault[p].at = "drop"
    /\ count' = DropPage(count, fault[p].old)
    /\ fault' = [fault EXCEPT ![p] = IF @.owes = 1 THEN None ELSE [@ EXCEPT !.owes = @ - 1]]
    /\ data' = Scrubbed(data)
    /\ UNCHANGED <<space, view>>

----
UserInit ==
    /\ space = [p \in Procs |-> None]
    /\ count = [q \in Pages |-> 0]
    /\ data = [q \in Pages |-> Fresh]
    /\ view = [p \in Procs |-> FreshView]
    /\ fault = [p \in Procs |-> None]

UserNext ==
    \E p \in Procs :
        \/ process_create_from_file(p)
        \/ process_exec(p)
        \/ \E child \in Procs : process_fork(p, child)
        \/ process_exit(p)
        \/ \E r \in Requests : mmap_handler(p, r)
        \/ \E v \in VPages : mmu_handle_cow(p, v) \/ \E x \in Values \ {Fresh} : Store(p, v, x)
        \/ CowAlloc(p)
        \/ CowCopy(p)
        \/ CowInstall(p)
        \/ CowDrop(p)

----
(* The references that spaces and faults own, by page. *)
References ==
    LET InSpace(p, q) == IF space[p] = None THEN 0 ELSE RefsTo(space[p], q)
        InFault(p, q) == IF fault[p] = None THEN 0
                         ELSE (IF fault[p].old = q THEN fault[p].owes ELSE 0)
                                  + (IF fault[p].new = q THEN 1 ELSE 0)
    IN  [q \in Pages |-> FoldSet(LAMBDA p, n : n + InSpace(p, q) + InFault(p, q), 0, Procs)]

(* A page is referenced exactly as often as the address spaces map it or have it for a
   table, and the faults in progress hold it: none is freed under a mapping, and none is
   lost by a call that failed half way.  mmu.c, with elf_load, process_fork and mmap_handler
   undoing what they did. *)
PagesAccounted == count = References

(* Every page of private memory reads as its process left it: as it was loaded or mapped, as
   the parent had it when it forked, or as the process itself last wrote it, whatever the
   processes that share the page are doing, and however far the resolution of their faults
   has got.  mmu_copy_user_pgd and mmu_handle_cow. *)
PrivateMemory ==
    \A p \in Procs : Alive(p) =>
        \A v \in Mapped(space[p]) :
            Managed(space[p].pte[v].pfn) => data[space[p].pte[v].pfn] = view[p][v]

(* The regions of a process are in order and apart, the pages above USER_VA_BASE that are
   mapped are those of its regions, and none below it is touched by them, whichever
   allocations failed on the way: process_va_alloc, process_va_free, setup_user_stack and
   mmap_handler. *)
RegionsAreMapped ==
    \A p \in Procs : Alive(p) =>
        LET va == space[p].va
        IN  /\ \A i \in 1 .. Len(va) - 1 : RegionEnd(va[i]) <= va[i + 1].base
            /\ {v \in Mapped(space[p]) : v >= VaBase} =
                   UNION {va[i].base .. RegionEnd(va[i]) - 1 : i \in DOMAIN va}
====
