CONSTANTS
    Client = {l1, l2}
    Account = {a1, a2}
    Remote = {m1, m2}
    State = {x1, x2, x3}
    Request = {q1, q2}
    Default = m1
    NoClient = NoClient
    NoAccount = NoAccount
    NoRemote = NoRemote
SPECIFICATION Spec
SYMMETRY LoginSymmetry
INVARIANTS
    RedeemedOnce
    TokensFitTheirClients
    AccountTellsRemote
