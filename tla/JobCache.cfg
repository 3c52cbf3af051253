\* The caches against every order of commits, events, deletions and a restart, with webhooks
\* handled concurrently and events lost.
SPECIFICATION Spec
CONSTANTS
    Managers = {repo}
    Handlers = {h1, h2}
    MaxWrites = 4
    MaxSpare = 1
    MaxRows = 2
    MaxCrashes = 1
    Faults = {"lostevent", "otherjob"}
SYMMETRY Symmetry
CHECK_DEADLOCK FALSE
INVARIANTS TypeOK CacheAgrees
