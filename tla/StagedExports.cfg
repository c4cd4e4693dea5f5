SPECIFICATION Spec
CONSTANTS
    Exports = {e1, e2}
    Requests = {r1, r2}
    Data = {d1, d2}
    MaxFaults = 1
    NoData = NoData
    NoExport = NoExport
INVARIANTS
    TypeOK
    RowIsTrue
    TrailIsTrue
PROPERTY Gated
SYMMETRY Symmetry
CHECK_DEADLOCK FALSE
