CONSTANTS
    Workers = {"w1", "w2"}
    Batch <- RetriedBatches
    SpanOf <- Spans
    Mismatched = {}
    Shared = {}
    MaxTries = 2
    HasEvidence = TRUE
    HasLog = TRUE
    HasMetrics = TRUE
    Durable = TRUE
    MaxEvents = 7
    Sealable = FALSE
    MaxFailures = 2
SPECIFICATION FairSpec
CHECK_DEADLOCK FALSE
PROPERTIES RetryDelivers
