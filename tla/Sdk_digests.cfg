CONSTANTS
    PolicyDecisions <- SomeDecisions
    ApprovalRequests <- SomeRequests
    ApprovalResolutions <- SomeResolutions
    AgtPolicyEvents <- SomePolicyEvents
    AuditRows <- SomeAuditRows
    OpaEntries <- SomeOpaEntries
    CedarAnswers <- SomeCedarAnswers
    Reversed <- ByOtherSdk
    OtherEvents <- Others
    Documents <- Evidence
SPECIFICATION Spec
CHECK_DEADLOCK FALSE
INVARIANTS SdksAgree
