CONSTANTS
    None = None
    Cases = {x1, x2}
    MaxCommands = 3
SYMMETRY CaseSymmetry
SPECIFICATION Spec
CHECK_DEADLOCK FALSE
INVARIANTS
    OneCommandAtWork
    SessionSurvives
