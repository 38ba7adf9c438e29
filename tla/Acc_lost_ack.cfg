CONSTANTS
    Threads = {t1, t2}
    Events <- DistinctEvents
    RunId = "run"
    MaxEvents = 3
    Durable = TRUE
    Handlers = FALSE
    RetryFirst = FALSE
    SealArgs = {"complete"}
    MaxCalls = 3
    NoThread = NoThread
    NoCall = NoCall
    NoEvent = NoEvent
    NoEntry = NoEntry
    NoSnapshot = NoSnapshot
SPECIFICATION Spec
CHECK_DEADLOCK FALSE
INVARIANTS AcknowledgedAsStored
