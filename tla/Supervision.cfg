\* One scale set, calls of everything outside fail up to two times.
SPECIFICATION FairSpec
CONSTANTS
    Sets = {s1}
    MaxVersion = 2
    MaxFaults = 2
    Faults = {"client", "store", "register", "forge"}
INVARIANTS TypeOK NoOrphan
PROPERTIES Stops Served Responsive
CHECK_DEADLOCK FALSE
