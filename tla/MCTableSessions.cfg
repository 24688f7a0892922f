CONSTANTS
    t1 = t1
    s1 = s1
    s2 = s2
    s3 = s3
    p1 = p1
    j1 = j1
    j2 = j2
    j3 = j3
    Table = {t1}
    ActiveBranchTable = {t1}
    Session = {s1, s2, s3}
    Payment = {p1}
    Job = {j1, j2, j3}
    NoTable = NoTable
    NoSession = NoSession
    NoPayment = NoPayment
SPECIFICATION FairSpec
INVARIANTS
    TypeOK
    PaidBeforeClosed
    SoleOpenSession
    StatusTellsOccupancy
PROPERTIES
    ConfirmedLeavesActive
