SPECIFICATION Spec
CONSTANTS
    NumPages = 6
    MaxOrder = 2
    PageUnits = 8
    RefMax = 2
    Ranges <- MCRanges
    Cores = {c1, c2}
    Classes = {1}
    Slots <- MCSlots
    PoolSizes = {4, 6}
    MaxLive = 3
    None = None
    Frames = 8
    Procs = {c1, c2}
    VaBase = 1
    VaLimit = 4
    TableSpan = 2
    MaxRegions = 2
    StackPages = 1
    Images <- MCImages
    Requests <- MCRequests
    FrameBuffer = 0
    Values = {0, 1}
    BlockTasks = {c1, c2}
    Blocks = {0, 1, 2}
    Extents <- MCExtents
    BlockCacheSize = 2
    Sectors = {0, 1}
    Default <- MCDefault
    Fault = 1
    SigActions <- MCSigActions
    SetMasks <- MCSetMasks
    Naps = {2}
    StackRoom <- MCStackRoom
    LastTick = 3
    Core = {c1, c2, c3}
    Lock = {l1, l2, l3}
    NoCore = NoCore
    MaxHeld = 3
    MaxNodes = 3
INVARIANTS
    BuddySound
    HeapSound
    PagesAccounted
    PrivateMemory
    RegionsAreMapped
    BlockCacheCoherent
    HandlersReturn
    NoCircularWait
PROPERTY
    GrowthServes
SYMMETRY MCSymmetry
\* A machine whose memory is all reserved at boot, a process that was killed and a kernel that
\* panicked have nothing left to do.
CHECK_DEADLOCK FALSE
