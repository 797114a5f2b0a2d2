--------------------------------- MODULE Vfs ---------------------------------
(***************************************************************************)
(* The VFS layer (fs/vfs.c): descriptors, open files, vnodes and mounts,   *)
(* and the references between them.  A lookup makes a vnode of its own, a  *)
(* vnode holds its parent, a file holds its vnode, and the last reference  *)
(* of each releases what it held.  A call that resolves a path goes one    *)
(* component at a time, so other processes close, unlink, fork and exit in *)
(* between.  What a file contains is not modelled.                         *)
(***************************************************************************)
EXTENDS Integers, Sequences, FiniteSets

CONSTANTS
    Procs, Fds, OpenFiles, VfsNodes,
    TopDir, Dev,        \* members of VfsNodes: the roots of "/" and of the mount
    FsNames,            \* names below "/", each with its parent and its kind
    FsParent, FsDirs,
    MountName,          \* the name the second file system is mounted under
    OpenPaths, DirPaths, NewPaths, RenamePairs, \* what callers pass: [abs, toks]
    Callers,            \* the processes that make path calls (all make the others)
    None

VARIABLES
    nodes,      \* vnode -> what it names, its parent, its reference count
    files,      \* file -> its vnode and its reference count
    fd_table,   \* process -> descriptor -> file
    cwd,
    mounts,     \* the roots in the mount table
    present,    \* names that exist in the file system
    living,     \* processes
    call,       \* process -> the call it is in
    loose       \* a vnode was taken that was already freed

vfsVars == <<nodes, files, fd_table, cwd, mounts, present, living, call, loose>>

NotCalling == [op |-> "none", at |-> None, toks |-> <<>>, path |-> None, held |-> {}, file |-> None]
-----------------------------------------------------------------------------
(* References.                                                             *)

GetNode(ns, v) == [ns EXCEPT ![v].refs = @ + 1]

\* vfs_vnode_put: the last reference lets go of the parent's.
RECURSIVE vfs_vnode_put(_, _)
vfs_vnode_put(ns, v) ==
    IF v = None THEN ns
    ELSE IF ns[v].refs > 1 THEN [ns EXCEPT ![v].refs = @ - 1]
    ELSE vfs_vnode_put([ns EXCEPT ![v] = None], ns[v].up)

\* The set holds one reference of each member.
RECURSIVE PutAll(_, _)
PutAll(ns, S) ==
    IF S = {} THEN ns
    ELSE LET v == CHOOSE x \in S : TRUE IN PutAll(vfs_vnode_put(ns, v[2]), S \ {v})

\* vfs_file_put, on the pair of tables.
LastPut(fs, f) == fs[f].refs = 1
FilesAfterPut(fs, f) ==
    IF f = None THEN fs
    ELSE IF LastPut(fs, f) THEN [fs EXCEPT ![f] = None] ELSE [fs EXCEPT ![f].refs = @ - 1]
NodesAfterPut(ns, fs, f) ==
    IF f # None /\ LastPut(fs, f) THEN vfs_vnode_put(ns, fs[f].node) ELSE ns

FreeNodes == {v \in VfsNodes : nodes[v] = None}
FreeFiles == {f \in OpenFiles : files[f] = None}
IsDirNode(v) == nodes[v].what \in FsDirs \cup {TopDir, Dev}

\* The state a process is in between two calls.
Ready(p) == p \in living /\ call[p].op = "none"
Return(p) == call' = [call EXCEPT ![p] = NotCalling]
-----------------------------------------------------------------------------
(* vfs_resolve_path.                                                       *)

\* find_mount takes the longest prefix: the second mount if the path starts
\* with its name.
StartsAt(p, path) ==
    IF ~path.abs THEN cwd[p]
    ELSE IF Dev \in mounts /\ path.toks # <<>> /\ Head(path.toks) = MountName THEN Dev ELSE TopDir
Remaining(path, start) == IF path.abs /\ start = Dev THEN Tail(path.toks) ELSE path.toks

\* Begin resolving from, in a call about path that holds the vnodes in held.
Resolve(p, ns, op, path, from, held) ==
    \E start \in {StartsAt(p, from)} :
        /\ nodes' = GetNode(ns, start)
        /\ call' = [call EXCEPT ![p] =
               [op |-> op, at |-> start, path |-> path, held |-> held, file |-> None,
                toks |-> Remaining(from, start)]]

\* vfs_split_parent.
ParentOf(path) == [abs |-> path.abs, toks |-> SubSeq(path.toks, 1, Len(path.toks) - 1)]
LastName(path) == path.toks[Len(path.toks)]

\* A component that cannot be followed: the vnode reached so far goes, with
\* whatever else the call holds.  An open with O_CREAT that met a name that is
\* not there goes on to create its last one.
Missing(p) == ~IsDirNode(call[p].at) \/ call[p].op # "creat"
GiveUp(p) ==
    IF Missing(p)
    THEN /\ nodes' = PutAll(vfs_vnode_put(nodes, call[p].at), call[p].held)
         /\ Return(p)
    ELSE Resolve(p, vfs_vnode_put(nodes, call[p].at), "create_in", call[p].path,
                 ParentOf(call[p].path), {})

\* The next vnode, referenced before the one that led to it is put.
StepTo(p, ns, next) ==
    /\ nodes' = vfs_vnode_put(ns, call[p].at)
    /\ call' = [call EXCEPT ![p].at = next, ![p].toks = Tail(@)]

Token(p) == Head(call[p].toks)
Above(v) == IF nodes[v].up = None THEN v ELSE nodes[v].up
AtMount(p) == Dev \in mounts /\ nodes[Dev].up = call[p].at /\ Token(p) = MountName
Found(p) ==
    /\ Token(p) \in present /\ FreeNodes # {}
    /\ FsParent[Token(p)] = nodes[call[p].at].what
LookedUp(v, at, name) ==
    [GetNode(nodes, at) EXCEPT ![v] = [what |-> name, up |-> at, refs |-> 1]]

Walk(p) ==
    /\ call[p].at # None /\ call[p].toks # <<>>
    /\ IF ~IsDirNode(call[p].at) THEN GiveUp(p)
       ELSE IF Token(p) = "." THEN StepTo(p, GetNode(nodes, call[p].at), call[p].at)
       ELSE IF Token(p) = ".."
       THEN StepTo(p, GetNode(nodes, Above(call[p].at)), Above(call[p].at))
       ELSE IF AtMount(p) THEN StepTo(p, GetNode(nodes, Dev), Dev)
       ELSE IF Found(p)
       THEN \E v \in FreeNodes : StepTo(p, LookedUp(v, call[p].at, Token(p)), v)
       ELSE GiveUp(p)
    /\ UNCHANGED <<files, fd_table, cwd, mounts, present, living>>
-----------------------------------------------------------------------------
(* The calls that take a path.                                             *)

Enter(p, op, path, from) ==
    /\ Ready(p)
    /\ Resolve(p, nodes, op, path, from, {})
    /\ UNCHANGED <<files, fd_table, cwd, mounts, present, living>>
vfs_open(p) == \E path \in OpenPaths, op \in {"open", "creat"} : Enter(p, op, path, path)
vfs_chdir(p) == \E path \in DirPaths : Enter(p, "chdir", path, path)
\* vfs_resolve_parent first.
vfs_mkdir_or_remove(p) == \E path \in NewPaths, op \in {"mkdir", "remove"} :
    Enter(p, op, path, ParentOf(path))
vfs_rename(p) == \E path \in RenamePairs : Enter(p, "rename_from", path, ParentOf(path))

Arrived(p, op) == call[p].op = op /\ call[p].at # None /\ call[p].toks = <<>>

\* vfs_open_pid once the vnode is there: a file takes the reference over, and
\* the lowest free descriptor takes the file.
FreeFds(p) == {i \in Fds : fd_table[p][i] = None}
Lowest(S) == CHOOSE i \in S : \A j \in S : i <= j
OpenedFile(p, f) ==
    IF FreeFds(p) = {}
    THEN nodes' = vfs_vnode_put(nodes, call[p].at) /\ UNCHANGED <<files, fd_table>>
    ELSE /\ files' = [files EXCEPT ![f] = [node |-> call[p].at, refs |-> 1]]
         /\ fd_table' = [fd_table EXCEPT ![p][Lowest(FreeFds(p))] = f]
         /\ UNCHANGED nodes
\* Out of files, or O_TRUNC of a regular file that failed.
NotOpened(p) == FreeFiles = {} \/ ~IsDirNode(call[p].at)
OpenIt(p) ==
    /\ Arrived(p, "open") \/ Arrived(p, "creat")
    /\ \/ /\ NotOpened(p)
          /\ nodes' = vfs_vnode_put(nodes, call[p].at)
          /\ UNCHANGED <<files, fd_table>>
       \/ \E f \in FreeFiles : OpenedFile(p, f)
    /\ Return(p)
    /\ UNCHANGED <<cwd, mounts, present, living>>

\* The parent of a file to be created: create it, put the parent, look again.
CanHold(v, name) == IsDirNode(v) /\ name \in FsNames /\ FsParent[name] = nodes[v].what
CreateIt(p) ==
    /\ Arrived(p, "create_in")
    /\ \/ /\ CanHold(call[p].at, LastName(call[p].path))
          /\ present' = present \cup {LastName(call[p].path)}
          /\ Resolve(p, vfs_vnode_put(nodes, call[p].at), "open", call[p].path, call[p].path, {})
       \/ \* ENOTDIR, ENOTSUP, or what create returned
          /\ nodes' = vfs_vnode_put(nodes, call[p].at)
          /\ Return(p)
          /\ UNCHANGED present
    /\ UNCHANGED <<files, fd_table, cwd, mounts, living>>

ChdirIt(p) ==
    /\ Arrived(p, "chdir")
    /\ IF IsDirNode(call[p].at)
       THEN /\ cwd' = [cwd EXCEPT ![p] = call[p].at]
            /\ nodes' = vfs_vnode_put(nodes, cwd[p])
       ELSE /\ nodes' = vfs_vnode_put(nodes, call[p].at)
            /\ UNCHANGED cwd
    /\ Return(p)
    /\ UNCHANGED <<files, fd_table, mounts, present, living>>

\* A directory that has names in it is not removed.
MayRemove(name) == name \in present /\ \A n \in present : FsParent[n] # name
AlterIt(p) ==
    /\ \/ /\ Arrived(p, "mkdir")
          /\ present' = IF CanHold(call[p].at, LastName(call[p].path))
                        THEN present \cup {LastName(call[p].path)} ELSE present
       \/ /\ Arrived(p, "remove")
          /\ present' = IF CanHold(call[p].at, LastName(call[p].path))
                           /\ MayRemove(LastName(call[p].path))
                        THEN present \ {LastName(call[p].path)} ELSE present
    /\ nodes' = vfs_vnode_put(nodes, call[p].at)
    /\ Return(p)
    /\ UNCHANGED <<files, fd_table, cwd, mounts, living>>

\* vfs_rename holds both parents while it resolves the source itself.
Holding(p, tag) == call[p].held \cup {<<tag, call[p].at>>}
RenameOn(p) ==
    /\ \/ /\ Arrived(p, "rename_from") /\ IsDirNode(call[p].at)
          /\ Resolve(p, nodes, "rename_to", call[p].path, ParentOf(call[p].path.new), Holding(p, 1))
       \/ /\ Arrived(p, "rename_to") /\ IsDirNode(call[p].at)
          /\ Resolve(p, nodes, "rename", call[p].path, call[p].path, Holding(p, 2))
       \/ /\ Arrived(p, "rename_from") \/ Arrived(p, "rename_to")
          /\ ~IsDirNode(call[p].at)
          /\ nodes' = PutAll(vfs_vnode_put(nodes, call[p].at), call[p].held)
          /\ Return(p)
    /\ UNCHANGED <<files, fd_table, cwd, mounts, present, living>>
RenameIt(p) ==
    /\ Arrived(p, "rename")
    /\ present' \in {present, (present \ {LastName(call[p].path)}) \cup {LastName(call[p].path.new)}}
    /\ nodes' = PutAll(vfs_vnode_put(nodes, call[p].at), call[p].held)
    /\ Return(p)
    /\ UNCHANGED <<files, fd_table, cwd, mounts, living>>
-----------------------------------------------------------------------------
(* The calls that take a descriptor, and the process's life.               *)

\* Drop one reference of f.
PutFile(fs, f) ==
    /\ files' = FilesAfterPut(fs, f)
    /\ nodes' = NodesAfterPut(nodes, fs, f)

\* vfs_file_get, then whatever read, write, lseek, fstat, ftruncate, readdir or
\* fsync does, then vfs_file_put.
vfs_file_get(p) == \E i \in Fds :
    /\ Ready(p) /\ fd_table[p][i] # None
    /\ files' = [files EXCEPT ![fd_table[p][i]].refs = @ + 1]
    /\ call' = [call EXCEPT ![p] = [NotCalling EXCEPT !.op = "use", !.file = fd_table[p][i]]]
    /\ UNCHANGED <<nodes, fd_table, cwd, mounts, present, living>>
vfs_file_put(p) ==
    /\ call[p].op = "use"
    /\ PutFile(files, call[p].file)
    /\ Return(p)
    /\ UNCHANGED <<fd_table, cwd, mounts, present, living>>

vfs_close(p) == \E i \in Fds :
    /\ Ready(p) /\ fd_table[p][i] # None
    /\ fd_table' = [fd_table EXCEPT ![p][i] = None]
    /\ PutFile(files, fd_table[p][i])
    /\ UNCHANGED <<cwd, mounts, present, living, call>>

\* Mutant: the duplicate shares the original's reference.
DupUncounted(p) == \E old, new \in Fds :
    /\ Ready(p) /\ fd_table[p][old] # None /\ old # new
    /\ fd_table' = [fd_table EXCEPT ![p][new] = fd_table[p][old]]
    /\ PutFile(files, fd_table[p][new])
    /\ UNCHANGED <<cwd, mounts, present, living, call>>
\* The new reference before the old file of the descriptor is put.
vfs_dup2(p) == \E old, new \in Fds :
    /\ Ready(p) /\ fd_table[p][old] # None /\ old # new
    /\ fd_table' = [fd_table EXCEPT ![p][new] = fd_table[p][old]]
    /\ PutFile([files EXCEPT ![fd_table[p][old]].refs = @ + 1], fd_table[p][new])
    /\ UNCHANGED <<cwd, mounts, present, living, call>>

\* process_fork: the child has the cwd and every file of the parent.
Times(p, f) == Cardinality({i \in Fds : fd_table[p][i] = f})
process_clone_fds(p, q) ==
    /\ fd_table' = [fd_table EXCEPT ![q] = fd_table[p]]
    /\ files' = [f \in OpenFiles |->
           IF files[f] = None THEN None ELSE [files[f] EXCEPT !.refs = @ + Times(p, f)]]
Fork(p) == \E q \in Procs \ living :
    /\ Ready(p)
    /\ living' = living \cup {q}
    /\ cwd' = [cwd EXCEPT ![q] = cwd[p]]
    /\ nodes' = GetNode(nodes, cwd[p])
    /\ process_clone_fds(p, q)
    /\ UNCHANGED <<mounts, present, call>>

\* process_exit: close_all_fds one at a time, then the cwd, which the table
\* still names after its reference is gone.
StartExit(p) ==
    /\ Ready(p)
    /\ call' = [call EXCEPT ![p].op = "exit"]
    /\ UNCHANGED <<nodes, files, fd_table, cwd, mounts, present, living>>
OpenFds(p) == {i \in Fds : fd_table[p][i] # None}
CloseNext(p) ==
    /\ call[p].op = "exit" /\ OpenFds(p) # {}
    /\ fd_table' = [fd_table EXCEPT ![p][Lowest(OpenFds(p))] = None]
    /\ PutFile(files, fd_table[p][Lowest(OpenFds(p))])
    /\ UNCHANGED <<cwd, mounts, present, living, call>>
PutCwd(p) ==
    /\ call[p].op = "exit" /\ OpenFds(p) = {}
    /\ nodes' = vfs_vnode_put(nodes, cwd[p])
    /\ call' = [call EXCEPT ![p].op = "leaving"]
    /\ UNCHANGED <<files, fd_table, cwd, mounts, present, living>>
ClearCwd(p) ==
    /\ call[p].op = "leaving"
    /\ cwd' = [cwd EXCEPT ![p] = None]
    /\ living' = living \ {p}
    /\ Return(p)
    /\ UNCHANGED <<nodes, files, fd_table, mounts, present>>
\* /proc/<pid>/cwd and /proc/<pid>/fd/<n> take a reference to another process's
\* vnode under its fd_lock and put it when the path is printed.  PutCwd does
\* not take that lock: a reader that comes between it and ClearCwd, or has read
\* the pointer before and counts after, may count on a vnode that is gone.
Peek(p, v) ==
    /\ Ready(p)
    /\ nodes' = GetNode(nodes, v)
    /\ call' = [call EXCEPT ![p] = [NotCalling EXCEPT !.op = "peek", !.held = {<<0, v>>}]]
    /\ UNCHANGED <<files, fd_table, cwd, mounts, present, living>>
procfs_pid_cwd_read(p) == \E q \in living \ {p} :
    \/ nodes[cwd[q]] # None /\ Peek(p, cwd[q]) /\ UNCHANGED loose
    \/ /\ Ready(p) /\ nodes[cwd[q]] = None
       /\ loose' = TRUE
       /\ UNCHANGED <<nodes, files, fd_table, cwd, mounts, present, living, call>>
procfs_pid_fd_entry_read(p) == \E q \in living \ {p}, i \in Fds :
    fd_table[q][i] # None /\ Peek(p, files[fd_table[q][i]].node)
PeekDone(p) ==
    /\ call[p].op = "peek"
    /\ nodes' = PutAll(nodes, call[p].held)
    /\ Return(p)
    /\ UNCHANGED <<files, fd_table, cwd, mounts, present, living>>

\* The root keeps its parent; whoever made it keeps a reference for good.
vfs_mount(p) ==
    /\ Ready(p) /\ Dev \notin mounts /\ nodes[Dev].up = None
    /\ mounts' = mounts \cup {Dev}
    /\ nodes' = [GetNode(GetNode(nodes, TopDir), Dev) EXCEPT ![Dev].up = TopDir]
    /\ UNCHANGED <<files, fd_table, cwd, present, living, call>>
vfs_unmount(p) ==
    /\ Ready(p) /\ Dev \in mounts
    /\ mounts' = mounts \ {Dev}
    /\ nodes' = vfs_vnode_put(nodes, Dev)
    /\ UNCHANGED <<files, fd_table, cwd, present, living, call>>
-----------------------------------------------------------------------------
FirstProc == CHOOSE p \in Procs : TRUE
VfsInit ==
    /\ nodes = [v \in VfsNodes |->
           IF v = TopDir THEN [what |-> TopDir, up |-> None, refs |-> 3]
           ELSE IF v = Dev THEN [what |-> Dev, up |-> None, refs |-> 1] ELSE None]
    /\ files = [f \in OpenFiles |-> None]
    /\ fd_table = [p \in Procs |-> [i \in Fds |-> None]]
    /\ cwd = [p \in Procs |-> IF p = FirstProc THEN TopDir ELSE None]
    /\ mounts = {TopDir}
    /\ present = FsNames
    /\ living = {FirstProc}
    /\ call = [p \in Procs |-> NotCalling]
    /\ loose = FALSE

VfsStep ==
    \/ \E p \in Callers :
        \/ vfs_open(p) \/ vfs_mkdir_or_remove(p) \/ vfs_rename(p) \/ vfs_mount(p) \/ vfs_unmount(p)
    \/ \E p \in Procs :
        \/ Walk(p) \/ OpenIt(p) \/ CreateIt(p) \/ ChdirIt(p) \/ AlterIt(p) \/ RenameOn(p)
        \/ RenameIt(p) \/ vfs_chdir(p) \/ vfs_file_get(p) \/ vfs_file_put(p) \/ vfs_close(p)
        \/ vfs_dup2(p) \/ Fork(p) \/ StartExit(p) \/ CloseNext(p) \/ PutCwd(p) \/ ClearCwd(p)
        \/ procfs_pid_fd_entry_read(p) \/ PeekDone(p)
\* Nothing is said of what follows a reference to freed memory.
VfsNext ==
    /\ ~loose
    /\ \/ VfsStep /\ UNCHANGED loose
       \/ \E p \in Procs : procfs_pid_cwd_read(p)

\* The references to a vnode: its makers' and the mount table's for a root, its
\* children's, the files', the working directories' and the calls'.  The cwd of
\* a process that is leaving points to a vnode and no longer counts.
NodeRefs(v) ==
    (IF v \in {TopDir, Dev} THEN 1 ELSE 0) + (IF v \in mounts THEN 1 ELSE 0)
    + Cardinality({u \in VfsNodes : nodes[u] # None /\ nodes[u].up = v})
    + Cardinality({f \in OpenFiles : files[f] # None /\ files[f].node = v})
    + Cardinality({p \in Procs : cwd[p] = v /\ call[p].op # "leaving"})
    + Cardinality({p \in Procs : call[p].at = v})
    + Cardinality({<<p, h>> \in Procs \X ((0..2) \X {v}) : h \in call[p].held})
FileRefs(f) ==
    Cardinality({<<p, i>> \in Procs \X Fds : fd_table[p][i] = f})
    + Cardinality({p \in Procs : call[p].file = f})

\* On every path through the VFS, error paths included, each vnode and each open
\* file is counted exactly as often as something refers to it: it lives as long
\* as a reference does and no longer.  The one pointer that outlasts its
\* reference is set apart: process_exit puts p->cwd without the fd_lock and
\* clears it afterwards (process.c:741-743), and the reader of /proc/<pid>/cwd
\* that meets it then may count on a freed vnode (procfs.c:364-368).  Only there
\* can that happen (loose), and nothing is said of what follows.
RefsAccounted ==
    /\ \A v \in VfsNodes : NodeRefs(v) = IF nodes[v] = None THEN 0 ELSE nodes[v].refs
    /\ \A f \in OpenFiles : FileRefs(f) = IF files[f] = None THEN 0 ELSE files[f].refs
    /\ loose => \E p \in living : call[p].op = "leaving" /\ nodes[cwd[p]] = None
=============================================================================
