------------------------------ MODULE MCMemory ------------------------------
(***************************************************************************)
(* Instances for TLC of the memory modules, of the block cache, of the     *)
(* frames that signals leave on a user stack and of the spinlocks.  The    *)
(* six parts share no state: the initial state chooses which of them runs, *)
(* and the others stay as they are at boot.                                *)
(***************************************************************************)
EXTENDS KernelHeap, UserMemory, BlockCache, SignalFrames, Lockdep

VARIABLE part

(* In units of 1/PageUnits of a page: a page and a bit at the start, a bit inside the same
   page, an overlap of both and of what follows, and the last page but its last unit. *)
MCRanges == {<<0, 9>>, <<9, 3>>, <<6, 18>>, <<39, 7>>}

MCSlots == <<2>>

(* A text page that the data segment of the image shares, and an image that does not fit
   below VaBase. *)
MCImages == {<<[lo |-> 0, hi |-> 0, x |-> TRUE], [lo |-> 0, hi |-> 0, x |-> FALSE]>>,
             <<[lo |-> 0, hi |-> 1, x |-> FALSE]>>}

(* A page and two pages of anonymous memory, and the framebuffer. *)
MCRequests == [pages : {1, 2}, ro : {FALSE}, frame : {FALSE}]
                  \cup {[pages |-> 1, ro |-> FALSE, frame |-> TRUE]}

(* <<first, last>>: a run of two blocks, the second of them alone, and a third block. *)
MCExtents == {<<0, 1>>, <<1, 1>>, <<2, 2>>}

(* Only one part runs, so the same model values are the cores, processes and tasks of each. *)
MCSymmetry == Permutations(Cores)

(* The heap boots on a memory whose first page is the kernel's. *)
HeapMemory == pmm_init(pmm_reserve_range(PmmUnready, 0, 3))

NoLists == [k \in Classes |-> <<>>]
HeapNone ==
    /\ HeapIdle
    /\ slabPage = <<>> /\ partial = NoLists /\ full = NoLists
    /\ hfree = <<>> /\ pool = {}

(* SIGSEGV and SIGTSTP, and handlers with each of the flags. *)
MCDefault == <<"term", "stop">>
Catch(flags, sa_mask) == [handler |-> "CATCH", flags |-> flags, sa_mask |-> sa_mask]
MCSigActions ==
    {<<1, Catch({"ONSTACK"}, {})>>, <<1, [handler |-> "IGN"]>>,
     <<2, Catch({"RESTART", "ONSTACK"}, {})>>, <<2, Catch({"NODEFER", "RESETHAND"}, {1})>>}
MCSetMasks == {{}, {1, 2}}
MCStackRoom == [main |-> 1, alt |-> 2]

(* The program installs its handlers and its alternate stack before anything else. *)
SetUpFirst ==
    (frames # <<>> \/ posted # {} \/ clock > 0 \/ mask # {}) /\ mode = InUser =>
        UNCHANGED altstack /\ (UNCHANGED disp \/ user'.faulted)

Init ==
    /\ UserInit /\ BlockCacheInit /\ SigInit /\ LockInit
    /\ \/ part = "pages" /\ PmmInit /\ HeapNone
       \/ part = "heap" /\ HeapInit(HeapMemory) /\ HeapIdle /\ claimed = 0 .. 2
       \/ part \in {"spaces", "blocks", "frames", "locks"} /\ PmmInit /\ HeapNone

Next ==
    /\ UNCHANGED part
    /\ \/ part = "pages" /\ PmmNext /\ UNCHANGED <<heapVars, userVars, blkVars, sigVars, lockVars>>
       \/ part = "heap" /\ HeapNext /\ UNCHANGED <<userVars, blkVars, sigVars, lockVars>>
       \/ part = "spaces" /\ UserNext /\ UNCHANGED <<pmmVars, heapVars, blkVars, sigVars, lockVars>>
       \/ part = "blocks" /\ BlockCacheNext /\ UNCHANGED <<pmmVars, heapVars, userVars, sigVars, lockVars>>
       \/ /\ part = "frames" /\ SigNext /\ SetUpFirst
          /\ UNCHANGED <<pmmVars, heapVars, userVars, blkVars, lockVars>>
       \/ part = "locks" /\ LockNext /\ UNCHANGED <<pmmVars, heapVars, userVars, blkVars, sigVars>>

allVars == <<part, pmmVars, heapVars, userVars, blkVars, sigVars, lockVars>>
Spec == Init /\ [][Next]_allVars
=============================================================================
