\* One alert, set twice.
CONSTANTS
    u1 = u1
    Users = {u1}
    Owner <- OwnedByOne
    Favorites = {f1}
    Requests = {r1, r2}
    Targets = {2, 3}
    Prices = {1, 3}
    Ticks = {t1}
    None = None
    MaxPrompts = 2
    MaxActive = 1
    BatchSize = 1
    MaxFaults = 0
SPECIFICATION Spec
INVARIANT FiresOnItsTarget
