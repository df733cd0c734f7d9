\* Liveness: one user, three weeks, page of one, two mutations or seeds, one fault.
SPECIFICATION FairSpec
CONSTANTS
    User = {1}
    Window = {1, 2, 3}
    Stamp = {1}
    QueueCapacity = 1
    Payload = {0, 1}
    Version = {1}
    MaxChanges = 2
    MaxFaults = 1
PROPERTY EventuallyProjected EventuallyReady EventuallyDeveloped
