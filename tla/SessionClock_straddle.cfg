SPECIFICATION Spec
CONSTANTS
    Workers = {w1, w2}
    Delay = 2
    MaxNow = 6
    MaxVersion = 4
SYMMETRY Symmetry
CHECK_DEADLOCK FALSE
INVARIANTS DeadlineKept
