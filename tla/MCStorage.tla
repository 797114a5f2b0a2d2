------------------------------ MODULE MCStorage ------------------------------
(***************************************************************************)
(* Instances of the file system modules for TLC.  The parts share no       *)
(* state: the initial state chooses which of them runs, and the others     *)
(* stay as they are at boot.                                               *)
(***************************************************************************)
EXTENDS PageCache, Fat32, Vfs, Readdir, TLC

CONSTANTS f1, t1, t2

VARIABLE part

(* Two pages of one file in one bucket; one task changes the file, the other reads it and
   runs sync. *)
MCBuckets == <<<<f1, 0>>, <<f1, 1>>>>
MCDuties == t1 :> {"write", "truncate", "unlink"} @@ t2 :> {"read", "sync"}

MCParent == [n \in {"d", "f", "g"} |-> IF n = "d" THEN TopDir ELSE "d"]
Path(absolute, toks) == [abs |-> absolute, toks |-> toks]
MCOpenPaths == {Path(TRUE, <<"d", "f">>), Path(FALSE, <<"d", "..", "m">>)}
MCDirPaths == {Path(FALSE, <<"d">>), Path(FALSE, <<"..">>)}
MCNewPaths == {Path(TRUE, <<"d", "f">>), Path(TRUE, <<"d">>)}
MCRenamePairs == {[abs |-> FALSE, toks |-> <<"f">>, new |-> Path(FALSE, <<"g">>)]}

(* The root, which is no child of itself, and the two mounts under it. *)
MCMountTable == <<"", "dev", "proc">>

MCSymmetry ==
    Permutations(Vnodes) \cup Permutations(VfsNodes \ {TopDir, Dev}) \cup Permutations(OpenFiles)

PartInit(p) ==
    /\ part = p
    /\ PageCacheInit /\ VfsInit /\ ReaddirInit /\ Fat32Init
    /\ p = "fat32" \/ vol = NewVolume(Blank)

Init == \E p \in {"pages", "fat32", "vfs", "listing"} : PartInit(p)

PagesStep(quiet) == part = "pages" /\ PageCacheNext(quiet) /\ UNCHANGED <<fatVars, vfsVars, dirVars>>

Next ==
    /\ UNCHANGED part
    /\ \/ PagesStep(TRUE)
       \/ part = "fat32" /\ Fat32Next /\ UNCHANGED <<pcVars, vfsVars, dirVars>>
       \/ part = "vfs" /\ VfsNext /\ UNCHANGED <<pcVars, fatVars, dirVars>>
       \/ part = "listing" /\ ReaddirNext /\ UNCHANGED <<pcVars, fatVars, vfsVars>>

allVars == <<part, pcVars, fatVars, vfsVars, dirVars>>

Spec == Init /\ [][Next]_allVars

(* The page cache alone, where a vnode may go while sync has one of its pages pinned. *)
ReleaseSpec == PartInit("pages") /\ [][UNCHANGED part /\ PagesStep(FALSE)]_allVars
=============================================================================
