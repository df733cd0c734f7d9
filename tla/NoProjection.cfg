\* Liveness with STATS_PROJECTION_ENABLED=false.
SPECIFICATION FairSpec
CONSTANTS
    User = {1, 2}
    Window = {0}
    Stamp = {1}
    QueueCapacity = 1
    ProjectionEnabled = FALSE
    BaselineSteps = 0
    MaxVersion = 1
    MaxFaults = 0
PROPERTY SnapshotsConverge
