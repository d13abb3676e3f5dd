\* An installation over two updates, restores, workers and a crash.
SPECIFICATION Spec
CONSTANTS
    f1 = f1  f2 = f2
    None = None
    SchemaOf <- ThreeVersions
    Incoming <- Found
    Archives <- Brought
    Legacy = {0}
    Files = {f1, f2}
    MaxRecords = 1
    MaxUpdates = 2
    MaxFaults = 1
SYMMETRY FileSymmetry
INVARIANTS CommittedIsKept DatabaseIsWhole RollbackIsComplete UnprovenHasAWayBack
PROPERTY MigratedAfterBackup
