\* One swap, no fault: the node accepts the transaction and does not confirm it in time.
CONSTANTS
    None = None
    Executions = {e1}
    Calls = {c1, c2}
    Keys = {k1}
    LastCall = c2
    MaxFaults = 0
SPECIFICATION Spec
INVARIANT NotSentPageIsTrue
CHECK_DEADLOCK FALSE
