\* Two questions and two answers of one user on two favourites, overlapping ticks
\* that share batches of one, one fault.
CONSTANTS
    None = None
    u1 = u1
    Users = {u1}
    Owner <- OwnedByOne
    Favorites = {f1, f2}
    Requests = {r1, r2}
    Targets = {2}
    Prices = {1, 3}
    Ticks = {t1, t2}
    MaxPrompts = 2
    MaxActive = 1
    BatchSize = 1
    MaxFaults = 1
SPECIFICATION FairSpec
INVARIANTS
    TypeOK
    OneActivePerFavorite
    OneMessagePerAlert
    DecisionIsCurrent
    OneAnswerPerPrompt
PROPERTY FirstObservation
