CONSTANTS
    p1 = p1
    p2 = p2
    a = a
    b = b
    None = None
    Procs = {p1, p2}
    Identities = {a, b}
    Capacity <- One
    Attempts = 2
    MaxRuns = 3
SPECIFICATION FairSpec
INVARIANTS
    OneGoalPerProposal
    GoalNeedsConsumedPermit
    NoGoalAfterRevocation
    FiledTruthfully
    NoSilentGoal
PROPERTIES
    EveryRunEnds
