SPECIFICATION Spec
CONSTANTS
    Appeals = {a1}
    Experts = {e1, e2}
    Nobody = Nobody
    MaxReturnsInput <- MCMaxReturnsInput
    ReturnBound <- MCReturnBound
INVARIANTS
    CrisisIsUrgent
    RecordsAgree
    WorkIsBacked
    ApplicantReturnsWithinLimit
PROPERTIES
    ArchiveIsFinal
    ImplementsLifecycle
