\* Three paths add instances at once, calls of the forge fail, runners do not
\* come up and webhooks are lost.
SPECIFICATION Spec
CONSTANTS
    Names = {n1, n2, n3}
    MaxRunners = 2
    MinIdles = {1}
    Jobs = {j1}
    Faults = {"forge", "boot", "losthook"}
SYMMETRY Symmetry
CHECK_DEADLOCK FALSE
INVARIANTS TypeOK RowsBounded RegistrationOwned
