SPECIFICATION BlockingSpec
CONSTANTS
    t1 = t1
    t2 = t2
    t3 = t3
    Size = 2
    Modulus = 4
    Counts <- PipeCounts
    Task <- PipeTasks
    Creator <- t1
    SdTasks = {s1, s2}
    BootTask = boot
    CardBlocks = 2
    SizeMod = 4
    Transfers <- MCTransfers
    CardValues = {0, 1}
    Tries = 2
    NoOwner = NoOwner
    Writers = {w1, w2}
    Readers = {r1}
    Uart = uart
    Printer = printer
    Writes <- MCWrites
    RingSize = 3
    FifoSize = 1
    Trigger = 0
    RxFifoSize = 1
    Unlocked = Unlocked
    Pids = {1, 2}
    MaxStages = 2
    Codes = {0, 1}
INVARIANTS
    SleepersHaveToWait
    LastCloseIsAlone
    TransfersAreReal
    MutexHandsOver
    TerminalWakes
    BackAtPrompt
PROPERTIES
    IsByteChannel
\* A pipe may have no file left, a card may never answer, and nobody has to call anything.
CHECK_DEADLOCK FALSE
