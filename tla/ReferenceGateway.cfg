CONSTANTS
    None = None
    Torn = Torn
    Paths = {p1, p2}
    m1 = m1
    m2 = m2
    Proposals = {m1, m2}
    Size <- MCSize
    MaximumClaims = 2
    MaxDeliveries = 3
    MaxEntries = 2
    MaxBytes = 3
    DispatchReserve = 1
    Horizon = 1
    Skew0 = 1
    Skews = {0, 1}
    MaxJumps = 1
SPECIFICATION Spec
SYMMETRY PathSymmetry
INVARIANTS
    OneGoalPerProposal
    ToldNoTruthfully
    DispatchRecorded
    EvidenceReadable
    AcknowledgedStays
