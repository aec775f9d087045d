SPECIFICATION Spec
CONSTANTS
    Tracks = {1, 2, 3}
    Kind <- MCKind
    Sources <- MCSources
    RootSpots = {r}
    VolSpots = {w}
    Unhashed <- MCUnhashed
    Nowhere = Nowhere
    Cap = 2
    Copied = {1}
    MaxVolume = 2
    MaxIndex = 3
INVARIANTS
    TypeOK
    QuarantineIsBackedUp
    IndicesAreUnique
    TracksAreUnique
    FoldersHoldCap
    InterruptedMoveIsFound
    CheckpointVouches
PROPERTY
    NothingVanishes
    IsShelf
    SyncsProgress
