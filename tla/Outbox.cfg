SPECIFICATION FairOutboxSpec
CONSTANTS
    Writers = {t1, t2}
    Dispatchers = {d1, d2}
    NoOwner = NoOwner
    Subscribed = {1, 2, 3}
    BatchSize = 2
    MaxRetries = 1
    MaxSequence = 3
CHECK_DEADLOCK FALSE
INVARIANTS AckedDelivered
PROPERTIES DeliveredInOrder OffsetAdvances EventuallyAcked
