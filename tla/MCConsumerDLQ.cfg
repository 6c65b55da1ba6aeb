CONSTANTS
    Members = {m1, m2}
    Partitions = {"p"}
    Kind <- OnePartition
    NoPartition = NoPartition
    Nobody = Nobody
    MaxAttempts = 2
    PollBatch = 2
    MaxDisruptions = 1
SPECIFICATION Spec
INVARIANT CommittedIsSettled
CHECK_DEADLOCK FALSE
