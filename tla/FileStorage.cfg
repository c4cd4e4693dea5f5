SPECIFICATION Spec
CONSTANTS
    Requests = {r1, r2, r3, r4}
    Users = {u1, u2}
    Paths = {p1, p2}
    NoRequest = NoRequest
INVARIANTS
    TypeOK
    RecordIsBacked
    StoredIsThere
    CountIsSound
SYMMETRY Symmetry
CHECK_DEADLOCK FALSE
