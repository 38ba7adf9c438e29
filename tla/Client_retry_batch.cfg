CONSTANTS
    Workers = {"w1"}
    Batch <- PairBatches
    SpanOf <- Spans
    Mismatched = {}
    Shared = {}
    MaxTries = 0
    HasEvidence = TRUE
    HasLog = FALSE
    HasMetrics = FALSE
    Durable = TRUE
    MaxEvents = 2
    Sealable = FALSE
    MaxFailures = 1
SPECIFICATION FairSpec
CHECK_DEADLOCK FALSE
PROPERTIES RetryDelivers
