CONSTANTS
    t1 = t1
    t2 = t2
    q1 = q1
    q2 = q2
    q3 = q3
    q4 = q4
    c1 = c1
    c2 = c2
    c3 = c3
    Table = {t1, t2}
    Code = {q1, q2, q3, q4}
    Request = {c1, c2, c3}
    NoTable = NoTable
    NoCode = NoCode
    NoRequest = NoRequest
SPECIFICATION CodeSpec
SYMMETRY RowSymmetry
PROPERTIES
    NeverWithoutCode
    SeenAreRetired
