CONSTANTS
    None = None
    boundary = boundary
    move = move
    stop = stop
    here = here
    there = there
    Boundaries = {boundary}
    Actions = {move, stop}
    Settings = {here, there}
    Keys = {"current", "unknown"}
    TrustedKeys = {"current"}
    BindingOf <- MoveHere
    Lifetimes = {2, 3}
    MaxLifetime = 2
    MaxSkew = 1
    MaxClock = 3
    Offsets <- ClockErrors
    MaxEpoch = 1
    MaxIssued = 2
SPECIFICATION Spec
CHECK_DEADLOCK FALSE
INVARIANTS
    OneWritePerBoundary
    WrittenAsAuthorized
    RevocationTakesEffect
