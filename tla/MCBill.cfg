CONSTANTS
    o1 = o1
    o2 = o2
    i1 = i1
    i2 = i2
    c1 = c1
    c2 = c2
    b1 = b1
    Order = {o1, o2}
    Item = {i1, i2}
    OrderOf <- MCOrderOf
    OrderStatus <- MCOrderStatus
    ItemStatus <- MCItemStatus
    Call = {c1, c2}
    Reader = {b1}
    Amount <- MCAmount
    None = None
SPECIFICATION BillSpec
SYMMETRY RequestSymmetry
INVARIANTS
    ScreenAgrees
    BillIsExact
    BillAddsUp
PROPERTIES
    CancelHeedsServed
