\* Two callers interleave with each other, with Close and with the monitors.
CONSTANTS
    Clients = {c1, c2}
    Profiles = {p1, p2}
    NoProfile = NoProfile
    MaxPrepares = 2
    MaxStarts = 3
    MaxRemoveFailures = 0
SPECIFICATION Spec
SYMMETRY Symmetry
INVARIANTS
    IInv
    StatusMatchesSession
PROPERTIES
    StopsForAReason
CHECK_DEADLOCK FALSE
