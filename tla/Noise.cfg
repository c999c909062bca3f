CONSTANTS
    Nodes = {a, b}
    Workers = {v, w}
    Indices = {i, j, k}
    Nil = Nil
    MaxInitiations = 2
    MaxResponses = 2
    MaxZeroings = 1
SYMMETRY Interchangeable
SPECIFICATION Spec
INVARIANTS
    TypeOK
    IndexTableExact
    KeyConfirmed
    Paired
PROPERTY TimestampsAdvance
CHECK_DEADLOCK FALSE
