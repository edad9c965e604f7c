SPECIFICATION Spec
CONSTANTS
    Peers = {a, b}
    MaxSockets = 2
    MaxConns = 3
    MaxSent = 2
    MaxTogether = 4
    MaxCalls = 1
    MaxResets = 1
SYMMETRY PeersAlike
INVARIANTS WholeAndInOrder RightPeer OneSlot
CHECK_DEADLOCK FALSE
