SPECIFICATION Spec
INVARIANTS
    TypeOK
    DrainNeedsOwnSignal
    FailureSurvivesShutdown
    CappedDeletionNeverSucceeds
    CompletedTransferKept
PROPERTIES
    ImplementsContract
