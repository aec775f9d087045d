SPECIFICATION Spec
CONSTANTS
    Walk <- MCWalk
    Base <- MCBase
    Data = {d1, d2}
INVARIANTS
    TypeOK
    EveryFileIsStaged
    RerunLeavesNoRest
