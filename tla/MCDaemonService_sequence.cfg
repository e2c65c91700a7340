\* One caller replaces sessions over and over: three configurations, five
\* starts, so that a roll-back can follow a roll-back.
CONSTANTS
    Clients = {c1}
    Profiles = {p1}
    NoProfile = NoProfile
    MaxPrepares = 3
    MaxStarts = 5
    MaxRemoveFailures = 0
SPECIFICATION Spec
INVARIANTS
    RollbackUsable
    ConnectOutcome
CHECK_DEADLOCK FALSE
PROPERTY ImplementsSlot
