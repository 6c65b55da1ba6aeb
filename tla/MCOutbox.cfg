CONSTANTS
    Rows = {1, 2, 3}
    Events = {1, 2}
    Key <- OneStream
    Pollers = {p1, p2}
    Nobody = Nobody
    Ghost = Ghost
    BatchSize = 2
    MaxDisruptions = 2
SPECIFICATION RestartingSpec
INVARIANTS
    TypeOK
    MarkedIsOnTopic
    StreamInOrder
PROPERTY EveryRowPublished
CHECK_DEADLOCK FALSE
