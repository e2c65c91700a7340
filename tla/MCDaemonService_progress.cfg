\* One caller replaces a session and gives up on it; fairness, so no symmetry.
CONSTANTS
    Clients = {c1}
    Profiles = {p1}
    NoProfile = NoProfile
    MaxPrepares = 2
    MaxStarts = 3
    MaxRemoveFailures = 0
SPECIFICATION FairSpec
PROPERTIES
    CallsReturn
    KilledIsRetired
    CloseCompletes
CHECK_DEADLOCK FALSE
