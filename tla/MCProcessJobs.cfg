SPECIFICATION JobSpec
CONSTANTS
    Size = 3
    Task = {t1, t2, t3}
    NoTask = NoTask
    Signals <- JobSignals
    Masks <- JobMasks
    Handled <- JobHandled
    WaitFor <- JobWaits
    MaxSends = 2
SYMMETRY Symmetry
INVARIANTS
    WaiterNotified
    SignalsGetThrough
    ContinueCancelsStop
CHECK_DEADLOCK FALSE
