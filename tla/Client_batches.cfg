CONSTANTS
    Workers = {"w1", "w2", "w3", "w4", "w5"}
    Batch <- MixedBatches
    SpanOf <- MixedSpans
    Mismatched = {"w5"}
    Shared = {"w2"}
    MaxTries = 1
    HasEvidence = TRUE
    HasLog = FALSE
    HasMetrics = TRUE
    Durable = TRUE
    MaxEvents = 2
    Sealable = TRUE
    MaxFailures = 1
SPECIFICATION Spec
CHECK_DEADLOCK FALSE
INVARIANTS TypeOK EvidenceIsValidated ProjectedIsEvidence ProjectedAtMostOnce SuccessIsWhole UnmappableDeliversNothing RefusedLeavesNoTrace
