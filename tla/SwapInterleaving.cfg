\* Two executions of one intent, overlapping ticks, no fault.
CONSTANTS
    Executions = {e1, e2}
    Intents = {i1}
    IntentOf <- OneIntent
    Ticks = {t1, t2}
    BatchSize = 1
    MaxFaults = 0
SYMMETRY Symmetry
SPECIFICATION Spec
INVARIANTS
    CompletedIntentHasHash
    ConfirmedIsOnChain
    NotifiedOnce
