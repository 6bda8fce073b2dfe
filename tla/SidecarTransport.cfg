CONSTANTS
    None = None
    Published = 3
    Observes = TRUE
    DiscoveryLimit = 2
    ShutdownLimit = 1
    GoalLimit = 1
    ResultLimit = 1
    Slack = 2
    MaxLag = 1
SPECIFICATION FairSpec
CHECK_DEADLOCK FALSE
INVARIANTS
    OutcomeTruthful
    HealthyChannelStays
PROPERTIES
    EveryProposalSettles
