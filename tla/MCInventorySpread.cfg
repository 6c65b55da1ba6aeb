CONSTANTS
    Seats = {"A", "B"}
    NoSeat = ""
    Holds = {"h1", "h2", "h3"}
    Commands <- SpreadCommands
    Handlers = {n1}
    Schedulers = {t1, t2}
    ConflictRetries = 1
    BatchSize = 1
    MaxTime = 2
    MaxFaults = 1
SPECIFICATION FairSpec
PROPERTIES
    ReservationSpec
    HoldEnds
