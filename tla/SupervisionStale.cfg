\* An update arrives while a worker is being started; nothing fails.
SPECIFICATION Spec
CONSTANTS
    Sets = {s1}
    MaxVersion = 2
    MaxFaults = 0
    Faults = {}
INVARIANT WorkersCurrent
CHECK_DEADLOCK FALSE
