CONSTANTS
    Seats = {a, b}
    Projectors = {w1, w2}
    Rebuilders = {r1}
    NoSeat = NoSeat
    MaxEvents = 2
    MaxRebuilds = 1
    MaxFaults = 1
    MaxDeadLetters = 1
SPECIFICATION FairSpec
INVARIANTS
    TypeOK
    VisibleUntilRebuilt
    BrowseIsCurrent
PROPERTIES
    NeverDraggedBack
    RebuildFinishes
    EveryEventVisible
CHECK_DEADLOCK FALSE
