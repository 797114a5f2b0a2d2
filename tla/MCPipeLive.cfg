SPECIFICATION FairSpec
CONSTANTS
    t1 = t1
    t2 = t2
    t3 = t3
    Size = 2
    Modulus = 4
    Counts <- PipeCounts
    Task <- PipePair
    Creator <- t1
PROPERTIES
    CallsReturn
