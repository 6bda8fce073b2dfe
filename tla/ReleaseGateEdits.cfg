CONSTANTS
    Unset = Unset
    None = None
    c1 = c1
    c2 = c2
    Calls = {c1}
    MaxStateAge = 2
    MaxConfigurationAge = 4
    MaxAttestationAge = 4
    PermitCap = 2
    Expiry = 9
    Horizon = 1
    Skew0 = 1
    Skews = {1}
    MaxChanges = 2
    EditedInEvaluation <- Fields
SPECIFICATION Spec
CHECK_DEADLOCK FALSE
INVARIANT DispatchedAsJudged
