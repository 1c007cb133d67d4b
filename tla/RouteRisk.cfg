\* Two requests of two users; three configurations and one that is refused.
\* Every boundary value of every figure of a route.
CONSTANTS
    u1 = u1
    u2 = u2
    r1 = r1
    r2 = r2
    Users = {u1, u2}
    Requests = {r1, r2}
    Pairs <- SomePairs
    SellAmount = 100
    Preferences = {"auto", "zerox"}
    Environments <- SomeEnvironments
    Bodies <- SomeBodies
    MaxRestarts = 1
    Commands = {r1, r2}
    Taps = {r1, r2}
    NamedPairs <- SomeNamedPairs
    Seeds <- SeedRows
    Listed <- ListedSymbols
    MaxPresets = 1
    Traders = {u1, u2}
    MaxSavedRestarts = 1
SYMMETRY Symmetry
CONSTRAINT SwapAlone
SPECIFICATION QuotesSpec
INVARIANTS
    LevelByThresholds
    OwnPreference
    BestIsFirst
    BooksBalance
    ChargedAsQuoted
    TradesWhatWasNamed
    OneRowPerButton
PROPERTY WorseIsNeverSafer
CHECK_DEADLOCK FALSE
