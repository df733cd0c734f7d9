\* Liveness: one user, two mutations, one fault.
SPECIFICATION FairSpec
CONSTANTS
    User = {1}
    Window = {0}
    Stamp = {1}
    QueueCapacity = 1
    ProjectionEnabled = TRUE
    BaselineSteps = 0
    MaxVersion = 2
    MaxFaults = 1
PROPERTY EventuallyAcknowledged SnapshotsConverge ReconciliationCompletes
