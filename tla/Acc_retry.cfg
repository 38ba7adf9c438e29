CONSTANTS
    Threads = {t1, t2}
    Events <- MixedEvents
    RunId = "run"
    MaxEvents = 2
    Durable = TRUE
    Handlers = FALSE
    RetryFirst = TRUE
    SealArgs = {"complete", "done"}
    MaxCalls = 5
    NoThread = NoThread
    NoCall = NoCall
    NoEvent = NoEvent
    NoEntry = NoEntry
    NoSnapshot = NoSnapshot
SPECIFICATION Spec
CHECK_DEADLOCK FALSE
INVARIANTS TypeOK AcknowledgedAsStored SequenceWrittenOnce
PROPERTIES ImplementsEvidenceLog
