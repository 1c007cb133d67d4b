\* One execution, no fault at all.
CONSTANTS
    Executions = {e1}
    Intents = {i1}
    IntentOf <- OneIntent
    Ticks = {t1}
    BatchSize = 1
    MaxFaults = 0
SPECIFICATION Spec
INVARIANT HistoryShowsSuccess
