\* Create, retry, delete and scale-down against the API, the webhooks and the agent.
SPECIFICATION Spec
CONSTANTS
    JIT = TRUE
    MaxCreateAttempts = 1
    MaxCrashes = 0
    Faults = {"provider", "forge", "unauthorized", "bypass", "vanish", "jobs"}
    Active = {"birth", "add", "del", "retry", "down", "api", "start", "done", "agent"}
CHECK_DEADLOCK FALSE
INVARIANTS TypeOK OneProviderCall NoLeakByDelete BusyMachineKept
PROPERTY OnlyRetryUndeletes
