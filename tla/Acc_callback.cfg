CONSTANTS
    Threads = {t1, t2}
    Events <- DistinctEvents
    RunId = "run"
    MaxEvents = 2
    Durable = TRUE
    Handlers = FALSE
    RetryFirst = FALSE
    SealArgs = {"complete"}
    MaxCalls = 4
    NoThread = NoThread
    NoCall = NoCall
    NoEvent = NoEvent
    NoEntry = NoEntry
    NoSnapshot = NoSnapshot
SPECIFICATION FairSpec
CHECK_DEADLOCK FALSE
INVARIANTS LockDiscipline ReentrantMutationRefused SnapshotsVerify OncePerEvent SealedSnapshotIsFinal
PROPERTIES SnapshotsMoveForward ImplementsEvidenceLog EveryCallReturns
