\* Three goroutines, each of which may pass remove = true.
SPECIFICATION Spec
CONSTANTS
    Procs = {p1, p2, p3}
    Mux = {m1, m2, m3, m4}
    Removers = {p1, p2, p3}
    NoMux = NoMux
    NoProc = NoProc
SYMMETRY Symmetry
INVARIANTS TypeOK MutualExclusion NoFatalUnlock LockedByIsHolder
