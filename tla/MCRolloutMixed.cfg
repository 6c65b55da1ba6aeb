CONSTANTS
    Senders = {booking}
    Services = {inventory}
    Commits = {1, 2}
    Proto <- ThenExtended
    MaxRuns = 2
    MaxStarts = 3
    MaxSends = 1
    MaxFaults = 0
    MaxRedrives = 0
SPECIFICATION Spec
INVARIANT RegisteredIsReadable
CHECK_DEADLOCK FALSE
