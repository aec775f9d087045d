SPECIFICATION Spec
CONSTANTS
    a = a
    b = b
    c = c
    Tracks <- MCTracks
    Kind <- MCKind
    Stems <- MCStems
    Hashed <- MCHashed
    Clean <- MCClean
    Cut <- MCCut
    Doubled <- MCDoubled
    Layouts <- MCLayouts
    Cap = 2
INVARIANTS
    NothingLost
