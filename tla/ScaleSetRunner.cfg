SPECIFICATION FairSpec
CONSTANTS
    MaxFaults = 2
    MaxApi = 1
    MaxLag = 1
    MaxProvLag = 1
    Faults = {"provider", "forge", "client", "store", "crash"}
INVARIANTS TypeOK NoLeakByDelete CacheConverges
PROPERTIES BusyMachineKept FinishedRunnerRemoved
CHECK_DEADLOCK FALSE
