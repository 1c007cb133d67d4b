\* Two swaps, the second over the connection the first may leave behind, and three
\* callbacks; or one swap and four, so that its connect and its sign callback may each
\* come twice.  The wallet may bring another key or the same again.
CONSTANTS
    None = None
    Executions = {e1, e2}
    Calls = {c1, c2, c3, c4}
    Keys = {k1, k2}
    LastCall = c4
    MaxFaults = 1
SYMMETRY Symmetry
CONSTRAINT LastIsAlone
SPECIFICATION Spec
INVARIANTS
    TypeOK
    RecordedHashWasSent
    ReplayOnlyIfSavedAgain
    TrackedWasTold
    SentPageIsTracked
CHECK_DEADLOCK FALSE
