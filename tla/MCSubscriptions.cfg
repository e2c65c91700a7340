SPECIFICATION Spec
CONSTANTS
    p1 = p1
    p2 = p2
    c1 = c1
    c2 = c2
    Procs = {p1, p2}
    Calls = {c1, c2}
    ProcOf <- Separate
    Ids = {i1}
    NoKey = NoKey
    Ops = {"add", "refresh", "remove", "check"}
    MaxVersion = 2
    MaxBegins = 2
INVARIANTS
    EndpointsFit
    SecretKept
    OrphansExplained
PROPERTIES
    NeverOlder
