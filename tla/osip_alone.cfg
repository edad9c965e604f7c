SPECIFICATION AloneSpec
CONSTANTS
    Messages <- LiveMessages
    Reliable <- NoneReliable
    SendMayFail = TRUE
    T1 = 1
    T2 = 2
    MaxTransactions = 1
    MaxCopies = 2
    MaxFifo = 3
    MaxWire = 3
    None = None
    Requests <- TwoRequests
    ReliableRequests <- ByeReliable
    SendResults <- AllResults
    MaxFlight = 1
    MaxEvents = 2
    MaxHeard = 3
    MaxStarted = 1
INVARIANTS WaitsOnTimer ClientWaitsOnTimer
PROPERTIES KeepsPromise CompletedEnds ClientKeepsPromise ClientEnds
CHECK_DEADLOCK FALSE
