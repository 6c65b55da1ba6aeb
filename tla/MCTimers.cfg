CONSTANTS
    Rows = {t1, t2, bad}
    Bad = {bad}
    Schedulers = {s1, s2}
    BatchSize = 2
    MinSleep = 1
    MaxSleep = 2
    Retention = 1
    Deadlines = {0, 2}
    MaxPrunes = 1
    MaxTime = 6
    MaxFaults = 1
    MaxStops = 1
SPECIFICATION Spec
SYMMETRY Symmetry
INVARIANTS
    TypeOK
    NeverLate
    NoSpin
PROPERTY FiredThenPruned
CHECK_DEADLOCK FALSE
