\* Two keys, two requests, three backups of which two are kept.
SPECIFICATION Spec
CONSTANTS
    f1 = f1
    f2 = f2
    r1 = r1
    r2 = r2
    Files = {f1, f2}
    Requests = {r1, r2}
    Stamps = {1, 2, 3}
    Keep = 2
    Idle = Idle
    NoSet = NoSet
CONSTRAINT Scenarios
SYMMETRY StoresSymmetry
CHECK_DEADLOCK FALSE
INVARIANTS
    RowHasBytes
    VerifiedIsSound
    BackupMissesOnlyDeleted
PROPERTIES
    CompleteSetsKept
