SPECIFICATION ManifestSpec
CONSTANTS
    Tracks = {1, 2, 3}
    Kind <- MCKind
    Sources <- MCSources
    RootSpots = {}
    VolSpots = {w}
    Unhashed = {}
    Nowhere = Nowhere
    Cap = 1
    Copied = {1}
    MaxVolume = 3
    MaxIndex = 3
INVARIANTS
    ManifestTypeOK
    ManifestIsBacked
    ManifestLeads
