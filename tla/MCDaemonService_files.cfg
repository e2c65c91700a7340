\* One configuration file resists removal.
CONSTANTS
    Clients = {c1}
    Profiles = {p1, p2}
    NoProfile = NoProfile
    MaxPrepares = 2
    MaxStarts = 3
    MaxRemoveFailures = 1
SPECIFICATION Spec
SYMMETRY Symmetry
INVARIANTS
    FilesAccounted
CHECK_DEADLOCK FALSE
