\* Liveness: two users on a queue and a page of one.
SPECIFICATION FairSpec
CONSTANTS
    User = {1, 2}
    Window = {0}
    Stamp = {1}
    QueueCapacity = 1
    ProjectionEnabled = TRUE
    BaselineSteps = 0
    MaxVersion = 1
    MaxFaults = 0
PROPERTY EventuallyAcknowledged SnapshotsConverge ReconciliationCompletes
