\* A user known only by its hint, and one fault.
SPECIFICATION Spec
CONSTANTS
    User = {1}
    Window = {0}
    Stamp = {1}
    QueueCapacity = 1
    ProjectionEnabled = TRUE
    BaselineSteps = 1
    MaxVersion = 1
    MaxFaults = 1
INVARIANT FailedUsersStayPending
