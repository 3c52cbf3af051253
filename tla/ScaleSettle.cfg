\* A pool that keeps one idle runner or none, one job that runs only on runners other jobs may
\* take, runners that may fail to come up, and loops that keep ticking.
SPECIFICATION FairSpec
CONSTANTS
    Names = {n1, n2}
    MaxRunners = 2
    MinIdles = {0, 1}
    Jobs = {j1}
    Faults = {"boot", "taken"}
CHECK_DEADLOCK FALSE
PROPERTIES PoolSettles JobServed
