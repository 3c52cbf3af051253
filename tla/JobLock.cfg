\* Two managers compete for the job.
SPECIFICATION Spec
CONSTANTS
    Managers = {repo, org}
    Handlers = {h1}
    MaxWrites = 4
    MaxSpare = 1
    MaxRows = 1
    MaxCrashes = 0
    Faults = {"lostevent", "otherjob"}
SYMMETRY Symmetry
CHECK_DEADLOCK FALSE
INVARIANTS OneCreator
