CONSTANTS
    f = f
    g = g
    h = h
    ftmp = ftmp
    gtmp = gtmp
    htmp = htmp
    Target = {f, g, h}
    Tmp <- TmpNames
    NoFile = NoFile
    Task = {t1, t2}
    Requests <- AllCalls
    MaxBytes = 2
    MayCross = TRUE
    MaxOps = 3
SPECIFICATION Spec
SYMMETRY Symmetry
INVARIANTS
    TypeOK
    WholeUnlessShared
    SizeBounded
    MoveKeepsFile
    MoveFindsRoom
