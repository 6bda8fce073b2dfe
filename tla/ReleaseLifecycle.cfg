CONSTANTS
    Unset = Unset
    d1 = d1
    d2 = d2
    bound = bound
    alice = alice
    Specs <- AllSpecs
    Actors = {alice}
    Reports = {report}
    Devices = {d1, d2}
    LastInstant = 3
SPECIFICATION LifecycleSpec
CHECK_DEADLOCK FALSE
INVARIANTS
    EligibleAsApproved
PROPERTIES
    NeverEligibleInTwoStages
    RefusalIsFinal
