CONSTANTS
    Dir = {d1, d2}
    Task = {t1, t2}
    NoSkill = NoSkill
    ReadMayFail = TRUE
    MaxEdits = 1
SPECIFICATION Spec
SYMMETRY Symmetry
INVARIANT ReloadTakesEffect
