SPECIFICATION FamilySpec
CONSTANTS
    Size = 5
    Task = {t1, t2, t3, t4}
    NoTask = NoTask
    Signals = {}
    Masks = {}
    Handled = {}
    WaitFor <- FamilyWaits
    MaxSends = 0
SYMMETRY Symmetry
INVARIANTS
    ParentLives
    WaiterNotified
