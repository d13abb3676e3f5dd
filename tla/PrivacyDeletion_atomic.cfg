\* Two files of one claim, and a claim without; no orphan; the faults after which
\* files stay staged are left out.
SPECIFICATION Spec
CONSTANTS
    c1 = c1  c2 = c2  f1 = f1  f2 = f2  f3 = f3  o1 = o1  o2 = o2
    None = None
    Operations = {o1, o2}
    Claims = {c1, c2}
    Files = {f1, f2}
    Owner <- TwoOfOne
    Faults <- AtomicFaults
    Orphans = FALSE
SYMMETRY OperationSymmetry
INVARIANT NamedFilesAreKept
PROPERTY DeletionIsAtomic
