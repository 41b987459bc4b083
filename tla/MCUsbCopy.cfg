SPECIFICATION Spec
CONSTANTS
    Files = {f1}
    Copies = {c1, c2}
    Names = {sda, sdb}
    None = None
    Waits = TRUE
INVARIANTS
    TypeOK
    DoneMeansOnDrive
    UnmountedAtRest
PROPERTIES
    NothingOnCard
    CopyEnds
CHECK_DEADLOCK FALSE
