\* Two presses on one option race.
CONSTANTS
    u1 = u1
    u2 = u2
    cheap = cheap
    steep = steep
    Users = {u1, u2}
    Intents = {i1}
    Aggregators = {cheap, steep}
    Requests = {r1, r2}
    Owner <- OwnedByFirst
    Route <- SmallRoutes
    Slippages = {1000}
    Preferences = {"zerox"}
    Typed = {0, 1000}
    QuoteTtl = 1
    ConfirmTtl = 1
    MaxTime = 2
    MaxCrashes = 0
SYMMETRY Symmetry
SPECIFICATION Spec
INVARIANT OptionUsedOnce
CHECK_DEADLOCK FALSE
