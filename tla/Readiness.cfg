SPECIFICATION FairSpec
CONSTANTS
    StaleAfter = 1
    MaxLag = 1
INVARIANTS
    TypeOK
    DisposedAfterUse
    DisposedOnce
PROPERTIES
    ShutdownIsBounded
    EventuallyDisposed
    TroubleIsNamed
