\* One user whose two windows are marked in any order, one fault, a baseline of one step.
SPECIFICATION Spec
CONSTANTS
    User = {1}
    Window = {0, 7}
    Stamp = {1}
    QueueCapacity = 1
    ProjectionEnabled = TRUE
    BaselineSteps = 1
    MaxVersion = 2
    MaxFaults = 1
INVARIANT TypeOK FreshReads DurableWork
PROPERTY ImplementsSnapshotCache ImplementsSharedWork
