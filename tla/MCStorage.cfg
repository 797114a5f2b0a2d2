SPECIFICATION Spec
CONSTANTS
    f1 = f1
    t1 = t1
    t2 = t2
    CacheTasks = {t1, t2}
    Buckets <- MCBuckets
    Duties <- MCDuties
    CacheMax = 1
    Contents = {1}
    Nobody = Nobody
    MaxCluster = 5
    SlotsPerCluster = 3
    ShortNames = {a, e}
    LongNames = {b}
    FileNames = {a, b}
    DirNames = {e}
    MaxOps = 4
    Vnodes = {v1, v2}
    MaxPages = 2
    MaxFaults = 1
    NoVnode = NoVnode
    Procs = {p1, p2}
    Callers = {p1}
    Fds = {0, 1}
    OpenFiles = {o1, o2}
    VfsNodes = {r, m, n1, n2}
    TopDir = r
    Dev = m
    FsNames = {"d", "f", "g"}
    FsDirs = {"d"}
    MountName = "m"
    None = None
    FsParent <- MCParent
    OpenPaths <- MCOpenPaths
    DirPaths <- MCDirPaths
    NewPaths <- MCNewPaths
    RenamePairs <- MCRenamePairs
    EntryNames = {"a", "b", "c"}
    LongEntries = {"b"}
    MountTable <- MCMountTable
    ChildMounts = {"dev", "proc"}
    MaxSlots = 4
    ClusterSlots = 2
    MaxBatch = 3
INVARIANTS
    PageCachedOnce
    ReadsSeeWrites
    ChainsSound
    NothingLeaks
    NameKept
    RefsAccounted
    ListedOnce
SYMMETRY MCSymmetry
\* The FAT32 part stops after MaxOps operations.
CHECK_DEADLOCK FALSE
