\* One execution, up to three faults: rejected awaits and crashes at any step.
CONSTANTS
    Executions = {e1}
    Intents = {i1}
    IntentOf <- OneIntent
    Ticks = {t1, t2}
    BatchSize = 1
    MaxFaults = 3
SPECIFICATION FairSpec
INVARIANTS
    TypeOK
    OneWalletRequest
    RecordedHashWasSent
    TrackedHashIsRecorded
    AuditFollowsTracker
    RefusedNeverAsked
PROPERTIES
    ImplementsLifecycle
    RunnerEnds
