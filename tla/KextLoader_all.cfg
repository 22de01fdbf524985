\* Two devices are reported while a third is being worked on.
SPECIFICATION FairSpec
CONSTANTS
    Services = {s1, s2, s3}
    MaxTries = 2
    NoService = NoService
INVARIANTS TypeOK RemovalPending WakeupPending HandlesOwned
PROPERTIES ImplementsRegistry ExitLeavesTracked DestroyedOnlyWhenGone GoneForgotten ServesRegistry
\* The loader may leave its loop, and the attachments are finitely many.
CHECK_DEADLOCK FALSE
