\* Three presses of two users on one intent, two ticks to each deadline.
CONSTANTS
    u1 = u1
    u2 = u2
    cheap = cheap
    steep = steep
    Users = {u1, u2}
    Intents = {i1}
    Aggregators = {cheap, steep}
    Requests = {r1, r2, r3}
    Owner <- OwnedByFirst
    Route <- SmallRoutes
    Slippages = {1000}
    Preferences = {"zerox"}
    Typed = {0, 1000}
    QuoteTtl = 1
    ConfirmTtl = 1
    MaxTime = 2
    MaxCrashes = 1
SYMMETRY Symmetry
SPECIFICATION Spec
INVARIANTS
    TypeOK
    ExecutionByOwner
    RiskGate
    OneExecutionPerClaim
    ConfirmationIsFresh
    LastChoiceHolds
CHECK_DEADLOCK FALSE
