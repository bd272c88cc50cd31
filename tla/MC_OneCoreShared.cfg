SPECIFICATION MCSpec
CONSTANTS
    Fiber = {f1, f2, f3}
    f1 = f1
    f2 = f2
    f3 = f3
    Initial = 2
    Nr = {0, 1, 2}
    Timeouts = TRUE
    MaxTotal = 3
    MaxDebt = 1
    MaxList = 3
    Core = {1, 2}
    Memory = {f1, f2, f3}
    Null = Null
    PageStructs = 4
    MaxLarge = 3
    Slots = 2
    MaxFree = 4
    Holder = {f1, f2, f3}
    Impl = {1, 2, 3}
    Resource = {o1, o2, o3}
INVARIANTS
    SharersAwaited
SYMMETRY MCSymmetry
