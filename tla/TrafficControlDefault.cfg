CONSTANTS
    Users = {2, 10}
    Default = 10
    TenGbit = 9
    Rates = {4, 5}
    Partial = Partial
    NoJob = NoJob
    TcFaults = FALSE
SPECIFICATION Spec
INVARIANT UnlimitedByDefault
