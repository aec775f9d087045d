SPECIFICATION Spec
CONSTANTS
    p1 = p1
    p2 = p2
    p3 = p3
    NoFile = NoFile
    Pids <- MCPids
    Overlapping = FALSE
INVARIANTS
    TypeOK
    MutualExclusion
    HolderIsNamed
