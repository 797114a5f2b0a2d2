SPECIFICATION JobSpec
CONSTANTS
    Size = 3
    Task = {t1, t2, t3}
    NoTask = NoTask
    Signals <- JobSignals
    Masks <- JobMasks
    Handled <- IgnoringContinue
    WaitFor <- JobWaits
    MaxSends = 2
INVARIANTS
    ContinueCancelsStop
CHECK_DEADLOCK FALSE
