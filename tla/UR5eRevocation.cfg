CONSTANTS
    None = None
    Reserved = Reserved
    Torn = Torn
    s1 = s1
    s2 = s2
    p1 = p1
    r1 = r1
    f1 = f1
    n1 = n1
    n2 = n2
    evidence = evidence
    Commands = {s1, p1, r1, f1}
    Setups = {s1}
    Preflights = {p1}
    Records = {r1}
    Finalizes = {f1}
    Names = {n1}
    Clouds = {"east"}
    Paths = {n1, evidence}
    Session = evidence
    Operators = {"ann"}
    CloudOf <- OnlyEast
    Terminals = 1
    MaxPolls = 1
    CopyChanges = {}
    ClaimsMayBeCleared = FALSE
SPECIFICATION UsedMachineSpec
CHECK_DEADLOCK FALSE
INVARIANT RevocationIsTheReason
