CONSTANTS
    Octet = 16
    SubnetSize = 8
    Base <- LowBase
    Ids = {u1, u2}
    Procs = {p1, p2}
    Rates = {1, 2}
    NoRow = NoRow
    NoId = NoId
    Absent = Absent
    Partial = Partial
    MaxPerUser = 1
    Faults = {"db", "ipc"}
    TcFaults = TRUE
SYMMETRY Interchangeable
SPECIFICATION MCSpec
INVARIANTS
    TypeOK
    NoOrphanPeer
    PeersMatchTable
    AddressesLeadHome
    SerialRules
