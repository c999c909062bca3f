CONSTANTS
    Octet = 16
    SubnetSize = 4
    Base <- LowBase
    Ids = {u1, u2}
    Procs = {p1, p2}
    Rates = {1}
    NoRow = NoRow
    NoId = NoId
    Absent = Absent
    Partial = Partial
    MaxPerUser = 2
    Faults = {}
    TcFaults = FALSE
SYMMETRY Interchangeable
SPECIFICATION Spec
INVARIANT NoOrphanPeer
