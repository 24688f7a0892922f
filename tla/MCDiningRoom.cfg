CONSTANTS
    t1 = t1
    s1 = s1
    s2 = s2
    p1 = p1
    j1 = j1
    j2 = j2
    c1 = c1
    c2 = c2
    r1 = r1
    i1 = i1
    Table = {t1}
    ActiveBranchTable = {t1}
    Session = {s1}
    Payment = {p1}
    Job = {j1, j2}
    NoTable = NoTable
    NoSession = NoSession
    NoPayment = NoPayment
    Call = {c1, c2}
    ReqId = {}
    Item = {i1}
    Cart <- MCCart
    MaxOrders = 1
    NoCall = NoCall
    NoReq = NoReq
SPECIFICATION RoomSpec
SYMMETRY RequestSymmetry
PROPERTIES
    OrdersImplemented
