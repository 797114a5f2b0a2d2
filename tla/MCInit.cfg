SPECIFICATION MCSpec
CONSTANTS
    Size = 4
    Task = {t1, t2, t3}
    NoTask = NoTask
    Signals <- MCSignals
    Masks = {}
    Handled = {}
    WaitFor <- MCWaits
    MaxSends = 2
PROPERTIES
    InitReaps
    KillKills
\* A shell that stops itself leaves init waiting with nobody to continue it.
CHECK_DEADLOCK FALSE
