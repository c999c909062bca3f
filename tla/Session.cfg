CONSTANTS
    Clients = {a, b}
    Idle = 2
    None = None
SPECIFICATION Spec
INVARIANTS
    TypeOK
    SecondDeviceBlocked
PROPERTIES
    MovesOnlyWhenIdle
    SilentIsFreed
