CONSTANTS
    Members = {m1, m2}
    Partitions = {"p", "q"}
    Kind <- TwoPartitions
    NoPartition = NoPartition
    Nobody = Nobody
    MaxAttempts = 2
    PollBatch = 2
    MaxDisruptions = 2
SPECIFICATION FairSpec
INVARIANTS
    TypeOK
    NothingSkipped
    HandledInOrder
    ExclusiveBatch
PROPERTY EveryRecordSettled
CHECK_DEADLOCK FALSE
