SPECIFICATION MCSpec
CONSTANTS
    Lists <- FourLists
    Keys <- AllKeys
    AutoTarget = auto
    NoServer = noServer
    MaxText = 1
    MaxGen = 2
    MaxEpoch = 3
INVARIANTS
    BusyIsOneAction
    ModelFits
PROPERTIES
    NeverShowsOlder
CHECK_DEADLOCK FALSE
