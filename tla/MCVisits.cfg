CONSTANTS
    t1 = t1
    s1 = s1
    s2 = s2
    p1 = p1
    j1 = j1
    j2 = j2
    k1 = k1
    q1 = q1
    q2 = q2
    Table = {t1}
    ActiveBranchTable = {t1}
    Session = {s1, s2}
    Payment = {p1}
    Job = {j1, j2}
    NoTable = NoTable
    NoSession = NoSession
    NoPayment = NoPayment
    StaffCall = {k1}
    Status = {"sent", "done"}
    Request = {q1, q2}
    NoStaffCall = NoStaffCall
SPECIFICATION VisitSpec
SYMMETRY VisitSymmetry
VIEW RunView
INVARIANTS
    ScreensAgree
    ListedAreSeated
PROPERTIES
    CallsImplemented
