\* The process dies or is stopped once, anywhere.
SPECIFICATION FairSpec
CONSTANTS
    JIT = TRUE
    MaxCreateAttempts = 0
    MaxCrashes = 1
    Faults = {"losthook", "vanish"}
    Active = {"birth", "add", "del", "clean", "done", "boot"}
CHECK_DEADLOCK FALSE
INVARIANTS LockOwned BusyMachineKept
PROPERTIES InFlightResolved FinishedRunnerRemoved
