SPECIFICATION StealFairSpec
CONSTANTS
    N = 2
    UserTask = {u1}
    KernelTask = {}
    Idle <- TwoIdle
    Boot <- TwoBoot
    NoTask = NoTask
    i0 = i0
    i1 = i1
    b0 = b0
    b1 = b1
PROPERTIES
    ReadyRuns
