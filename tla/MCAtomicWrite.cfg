SPECIFICATION Spec
CONSTANTS
    v1 = v1
    v2 = v2
    None = None
    i1 = i1
    i2 = i2
    i3 = i3
    Values <- MCValues
    Inodes <- MCInodes
INVARIANTS
    TypeOK
    OkIsVisible
PROPERTIES
    IsRegister
