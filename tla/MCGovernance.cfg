CONSTANTS
    w1 = w1
    w2 = w2
    a1 = a1
    a2 = a2
    Holder = 1
    Operations <- MCOperations
    MaxServing = 2
    Users <- MCUsers
    Batches <- MCBatches
    Commands <- MCCommands
    Workers = {w1, w2}
    Callers = {a1, a2}
    Workloads <- MCWorkloads
SPECIFICATION Spec
INVARIANTS CountersMatch ReviewedSeatLeft AnswersAgree CodeOpensOnce DeletedSignedOut NeverLockedOut
PROPERTIES ImplementsPromise StopHonoured JobsClose ErasureEnds
CHECK_DEADLOCK FALSE
