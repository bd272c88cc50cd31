SPECIFICATION MCSpec
CONSTANTS
    Timer = {t1, t2}
    t1 = t1
    t2 = t2
    Bits = 3
    Horizon = 4
    Period = {2}
    CallbacksCancel = TRUE
INVARIANTS
    TypeOK
    SetConsistent
PROPERTIES
    ImplementsAlarms
SYMMETRY MCTimers
CHECK_DEADLOCK FALSE
