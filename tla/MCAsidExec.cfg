SPECIFICATION TailSpec
CONSTANTS
    N = 2
    Process = {p1, p2, p3}
    Pgd = {g1, g2, g3, g4}
    Null = Null
    NoProcess = NoProcess
    MaxAsid = 2
    MaxGeneration = 2
    Speculation = FALSE
SYMMETRY Symmetry
INVARIANTS
    TlbIsolation
