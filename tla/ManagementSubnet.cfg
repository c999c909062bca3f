CONSTANTS
    Octet = 16
    SubnetSize = 8
    Base <- HighBase
    Ids = {u1}
    Procs = {p1}
    Rates = {1}
    NoRow = NoRow
    NoId = NoId
    Absent = Absent
    Partial = Partial
    MaxPerUser = 1
    Faults = {}
    TcFaults = FALSE
SPECIFICATION Spec
INVARIANT InSubnet
