SPECIFICATION FairSpec
CONSTANTS
    a = a
    b = b
    c = c
    d = d
    e = e
    Names <- MCNames
    Kind <- MCKind
    Sources <- MCSources
    Volumes = {1, 2}
    Cap = 2
INVARIANTS
    TypeOK
    FinalizedIsIntact
    RecoveredIsIntact
    CheckpointLag
    WritesWhereQaLooks
PROPERTIES
    RecoveryTouchesOnlyDamage
    DrmStaysSkipped
    CommandsProgress
    CommandsEnd
