CONSTANTS
    Clients = {a, b}
    Idle = 2
    None = None
SPECIFICATION Spec
PROPERTY IdleSessionMoves
