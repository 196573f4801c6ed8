CONSTANTS
    f = f
    g = g
    h = h
    ftmp = ftmp
    gtmp = gtmp
    htmp = htmp
    Target = {f, g, h}
    Tmp <- TmpNames
    NoFile = NoFile
    Task = {t1, t2}
    Requests <- AtomicCalls
    MaxBytes = 2
    MayCross = FALSE
    MaxOps = 2
SPECIFICATION Spec
SYMMETRY Symmetry
INVARIANT WritesAreAtomic
