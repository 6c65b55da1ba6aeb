CONSTANTS
    Replicas = {r1, r2}
    Nobody = Nobody
    Migrations = 2
    MaxStarts = 2
    MaxFaults = 1
SPECIFICATION FairSpec
INVARIANTS
    TypeOK
    ServesWhenReady
    NoUseAfterClose
    NothingLeftOpen
    AllLoopsOrNone
PROPERTY Exits
CHECK_DEADLOCK FALSE
