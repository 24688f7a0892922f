CONSTANTS
    s1 = s1
    c1 = c1
    c2 = c2
    r1 = r1
    i1 = i1
    i2 = i2
    b1 = b1
    b2 = b2
    e1 = e1
    e2 = e2
    Session = {s1}
    Call = {c1}
    ReqId = {r1}
    Item = {i1, i2}
    Cart <- MCCart
    MaxOrders = 1
    NoCall = NoCall
    NoReq = NoReq
    NoSession = NoSession
    Edited = {i1}
    Branch = {b1, b2}
    Editor = {e1, e2}
    NoBranch = NoBranch
    NoItem = NoItem
SPECIFICATION Spec
SYMMETRY MenuSymmetry
INVARIANTS
    MenusAreTold
    OrdersShowWhole
PROPERTIES
    OrdersImplemented
