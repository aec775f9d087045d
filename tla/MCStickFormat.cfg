SPECIFICATION Spec
CONSTANTS
    s1 = s1
    s2 = s2
    Sticks <- MCSticks
    Removable <- MCSticks
    Hardware <- MCHardware
    Sector <- MCSector
    UuidVisible = TRUE
    Paths = {p, lock}
    Transient = {lock}
    a = a
    b = b
    Data <- MCData
    Formats <- MCFormats
    Units = {0, 4096, 32768}
    MaxUuid = 3
SYMMETRY Alike
INVARIANTS
    TypeOK
    ErasedIsBackedUp
    ReadyMeansAccepted
    ErasesOnlyUnfit
