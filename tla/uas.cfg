SPECIFICATION UasFairSpec
CONSTANTS
    Messages <- SignallingMessages
    Reliable <- NoneReliable
    SendMayFail = FALSE
    T1 = 1
    T2 = 2
    MaxTransactions = 3
    MaxCopies = 2
    MaxFifo = 3
    MaxWire = 2
    None = None
    Peers <- McPeers
    Ports <- McPorts
    PORT_RTP = 7076
    MaxRtp = 1
INVARIANTS TurnIsComplete OneFrameAfterBye
PROPERTIES ByeIsAnswered
