SPECIFICATION UndisturbedSpec
CONSTANTS
    Tracks = {1, 2, 3}
    Kind <- MCKind
    Sources <- MCSources
    RootSpots = {r}
    VolSpots = {w}
    Unhashed = {}
    Nowhere = Nowhere
    Cap = 3
    Copied = {1, 2}
    MaxVolume = 1
    MaxIndex = 3
INVARIANT
    SyncConverges
