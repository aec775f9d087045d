SPECIFICATION Spec
CONSTANTS
    a = a
    b = b
    c = c
    d = d
    e = e
    Names <- MCNames
    Kind <- MCKind
    Sources <- MCSources
    Volumes = {1, 2}
    Cap = 2
INVARIANTS
    CleanTracksDelivered
