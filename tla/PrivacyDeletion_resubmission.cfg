\* Everything may fail, a worker may outlive its app; one file of each claim.
SPECIFICATION Spec
CONSTANTS
    c1 = c1  c2 = c2  f1 = f1  f2 = f2  f3 = f3  o1 = o1  o2 = o2
    None = None
    Operations = {o1, o2}
    Claims = {c1, c2}
    Files = {f1, f3}
    Owner <- OneEach
    Faults <- AnyFault
    Orphans = TRUE
SYMMETRY OperationSymmetry
PROPERTIES NoResubmissionAfterDeletion FilesFollowRows
