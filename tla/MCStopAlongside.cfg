CONSTANTS
    x1 = x1
    Trap = {x1}
    MaxSignals = 2
SPECIFICATION Spec
INVARIANT NeverAlongside
CHECK_DEADLOCK FALSE
