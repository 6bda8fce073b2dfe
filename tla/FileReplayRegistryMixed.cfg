CONSTANTS
    p1 = p1
    p2 = p2
    a = a
    b = b
    c = c
    None = None
    Procs = {p1, p2}
    Identities = {a, b, c}
    Malformed = {c}
    Capacity <- MixedCapacity
    MaximumCapacity = 2
    Home <- Digest
    Fragile <- AnyEntry
SPECIFICATION FairSpec
INVARIANTS
    OneCapacity
PROPERTIES
    EveryCallAnswered
