\* One user, three weeks, page of one, two mutations or seeds, one fault, two calculations.
SPECIFICATION Spec
CONSTANTS
    User = {1}
    Window = {1, 2, 3}
    Stamp = {1}
    QueueCapacity = 1
    Payload = {0, 1}
    Version = {1, 2}
    MaxChanges = 2
    MaxFaults = 1
INVARIANT TypeOK Faithful OneLifecycle ReadyMeansExact
PROPERTY BoundaryIsAtomic MismatchFreezes ImplementsDevelopedHistory ImplementsSharedWork
