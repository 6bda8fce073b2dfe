CONSTANTS
    Unset = Unset
    None = None
    c1 = c1
    c2 = c2
    Calls = {c1, c2}
    MaxStateAge = 2
    MaxConfigurationAge = 4
    MaxAttestationAge = 4
    PermitCap = 2
    Expiry = 4
    Horizon = 3
    Skew0 = 1
    Skews = {0, 1, 2}
    MaxChanges = 1
    EditedInEvaluation = {"action", "hash"}
SPECIFICATION Spec
CHECK_DEADLOCK FALSE
SYMMETRY CallSymmetry
INVARIANTS
    DispatchOncePerPermit
    DispatchedAsBound
    EvidenceTruthful
    FreshAtDispatch
    NothingSentTooLate
