SPECIFICATION PairSpec
CONSTANTS
    Messages <- PairMessages
    Reliable <- ByeReliable
    SendMayFail = FALSE
    T1 = 1
    T2 = 2
    MaxTransactions = 2
    MaxCopies = 2
    MaxFifo = 2
    MaxWire = 2
    None = None
    Requests <- PairRequests
    ReliableRequests <- ByeReliable
    SendResults <- AnyResult
    MaxFlight = 1
    MaxEvents = 2
    MaxHeard = 2
    MaxStarted = 1
INVARIANTS RefusalWasHeard OneOutcome NoStrandedMessage OneTransactionPerRequest
CHECK_DEADLOCK FALSE
