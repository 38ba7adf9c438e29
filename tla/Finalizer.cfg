CONSTANTS
    Events <- MixedRun
    NoSnapshot = NoSnapshot
    NoRecord = NoRecord
    RunId = "run"
    Config <- Configuration
    Second = 2
    MaxEntries = 3
    MaxEdits = 1
SPECIFICATION Spec
CHECK_DEADLOCK FALSE
INVARIANTS ClaimsAreMeasured RecordCoversWholeRun RecordIsUpperBound
