\* Three calls of two users on two chains, one fault.
CONSTANTS
    None = None
    Users = {u1, u2}
    Chains = {eth, arb}
    Calls = {c1, c2, c3}
    MaxFaults = 1
SYMMETRY Symmetry
SPECIFICATION Spec
INVARIANTS
    TypeOK
    AskedAsShown
    DroppedStaysOut
    FailedPairingUnused
CHECK_DEADLOCK FALSE
