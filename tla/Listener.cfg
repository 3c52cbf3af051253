\* A message that cannot be parsed, one with jobs to acquire and one that is not a
\* job message; restarts, failures, a crash.
SPECIFICATION FairSpec
CONSTANTS
    MaxMessages = 3
    Available = {2}
    Garbled = {1}
    Other = {3}
    Gens = {1, 2}
    MaxUpdates = 1
    MaxFaults = 1
    Faults = {"forge", "unauthorized", "store", "crash", "stop"}
CHECK_DEADLOCK FALSE
INVARIANTS TypeOK NoMessageSkipped CountIsLatest
PROPERTY MessageHandled
