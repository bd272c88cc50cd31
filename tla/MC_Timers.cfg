SPECIFICATION MCSpec
CONSTANTS
    Timer = {t1, t2}
    t1 = t1
    t2 = t2
    Bits = 3
    Horizon = 4
    Period = {3}
    CallbacksCancel = FALSE
INVARIANTS
    NoMissedDeadline
PROPERTIES
    ArmedTimersOfBothFire
CHECK_DEADLOCK FALSE
