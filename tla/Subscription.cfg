SPECIFICATION Spec
CONSTANTS
    Slots = {1, 2}
    QueueCapacity = 1
    MaxChanges = 2
    MaxFaults = 1
INVARIANTS ViewInOrder OneUpdateAfterRefusal
PROPERTIES CaughtUp ConnectionsEnd
