CONSTANTS
    Width = 3
    Peers = {p, q}
    NoPeer = NoPeer
    Nil = Nil
    MaxEntries = 3
SYMMETRY Interchangeable
SPECIFICATION Spec
INVARIANTS
    Linked
    Compact
    LongestPrefix
PROPERTY ImplementsMap
