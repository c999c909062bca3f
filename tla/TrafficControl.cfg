CONSTANTS
    Users = {2, 3}
    Default = 10
    TenGbit = 9
    Rates = {4, 5}
    Partial = Partial
    NoJob = NoJob
    TcFaults = TRUE
SPECIFICATION Spec
INVARIANTS
    TypeOK
    Contract
    Repairs
    NothingToRemove
