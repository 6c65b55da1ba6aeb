CONSTANTS
    Seats = {a, b}
    Projectors = {w1}
    Rebuilders = {r1}
    NoSeat = NoSeat
    MaxEvents = 2
    MaxRebuilds = 1
    MaxFaults = 0
    MaxDeadLetters = 0
SPECIFICATION Spec
INVARIANT SettledIsVisible
