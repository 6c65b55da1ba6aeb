CONSTANTS
    Senders = {booking}
    Services = {inventory}
    Commits = {1, 2}
    Proto <- ThenBroken
    MaxRuns = 2
    MaxStarts = 3
    MaxSends = 1
    MaxFaults = 1
    MaxRedrives = 1
SPECIFICATION Spec
INVARIANTS
    TypeOK
    NeverBreaks
    HandledAsSent
    SettledWhileUnchanged
    EnvelopeKept
CHECK_DEADLOCK FALSE
