CONSTANTS
    Documents <- SomeDocuments
    MaxEvents = 2
    MaxDepth = 4
SPECIFICATION Spec
INVARIANTS DraftIsNextEntry ProjectedIsEvidence
PROPERTIES ImplementsEvidenceLog
