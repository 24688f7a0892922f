CONSTANTS
    r1 = r1
    r2 = r2
    t1 = t1
    t2 = t2
    Run = {r1, r2}
    Trigger = {t1, t2}
    Part = {"db"}
    Available = {"db"}
    Scopes <- DbOnly
    Kept = 1
    LastSecond = 2
SPECIFICATION Spec
SYMMETRY BackupSymmetry
INVARIANT SuccessHasWholeDump
