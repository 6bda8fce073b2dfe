CONSTANTS
    p1 = p1
    p2 = p2
    a = a
    b = b
    c = c
    None = None
    Procs = {p1, p2}
    Identities = {a, b, c}
    Malformed = {}
    Capacity <- SameCapacity
    MaximumCapacity = 2
    Home <- Digest
    Fragile <- SomeEntries
SYMMETRY ProcessSymmetry
SPECIFICATION Spec
INVARIANTS
    TypeOK
    AtMostOneGrant
    UniqueRecord
    GrantIsDurable
    AnswersLikeMemory
    ReadinessBracketed
PROPERTIES
    ImplementsRegistry
    ClaimsArePermanent
