\* Three concurrent calls of any kind, starts and ends that throw halfway, quits and crashes.
SPECIFICATION Spec
CONSTANTS
    k1 = k1  k2 = k2  k3 = k3
    None = None
    Calls <- ThreeCalls
    Faults = TRUE
SYMMETRY CallSymmetry
INVARIANTS RunsAlone WorkersAreProtected OnlyThrowsLeak
