CONSTANTS
    s1 = s1
    s2 = s2
    c1 = c1
    c2 = c2
    r1 = r1
    i1 = i1
    Session = {s1, s2}
    Call = {c1, c2}
    ReqId = {r1}
    Item = {i1}
    Cart <- MCCart
    MaxOrders = 1
    NoCall = NoCall
    NoReq = NoReq
    NoSession = NoSession
SPECIFICATION SteadyMenuSpec
INVARIANTS
    TypeOK
    SeqIsPosition
    OneOrderPerRequest
    RetriesAgree
PROPERTIES
    EveryCallEnds
    OrdersBecomeFinal
