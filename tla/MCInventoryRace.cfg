CONSTANTS
    Seats = {"A"}
    NoSeat = ""
    Holds = {"h1", "h2"}
    Commands <- RacingCommands
    Handlers = {n1, n2}
    Schedulers = {t1}
    ConflictRetries = 1
    BatchSize = 2
    MaxTime = 1
    MaxFaults = 1
SPECIFICATION Spec
SYMMETRY Symmetry
INVARIANTS
    TypeOK
    StreamAlternates
    EveryEventAnnounced
    ExpiryReachesHolder
    AnnouncedInOrder
    AppliedOnce
    AckedIsAnswered
    HoldNeverStranded
