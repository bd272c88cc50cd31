SPECIFICATION MCSpec
CONSTANTS
    Timer = {t1, t2}
    t1 = t1
    t2 = t2
    Bits = 3
    Horizon = 5
    Period = {2}
    CallbacksCancel = TRUE
INVARIANTS
    CancelIsSafe
SYMMETRY MCTimers
CHECK_DEADLOCK FALSE
