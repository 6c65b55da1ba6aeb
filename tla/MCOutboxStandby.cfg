CONSTANTS
    Rows = {1, 2, 3}
    Events = {1, 2}
    Key <- OneStream
    Pollers = {p1, p2}
    Nobody = Nobody
    Ghost = Ghost
    BatchSize = 2
    MaxDisruptions = 1
SPECIFICATION FairSpec
PROPERTY StandbyTakesOver
CHECK_DEADLOCK FALSE
