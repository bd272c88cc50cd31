SPECIFICATION MCSpec
CONSTANTS
    Fiber = {f1, f2, f3}
    f1 = f1
    f2 = f2
    f3 = f3
    Initial = 2
    Nr = {1, 2}
    Timeouts = FALSE
    MaxTotal = 3
    MaxDebt = 1
    MaxList = 3
    User = {f1, f2, f3}
    Reader = {f1, f2, f3}
    MaxPeers = 4
    Parts = 3
    r1 = r1
    r2 = r2
    r3 = r3
    r4 = r4
    c1 = c1
    c2 = c2
    Request = {r1, r2, r3, r4}
    Class = {c1, c2}
    Units = 3
    Capacity = 4
    a = a
    b = b
    Item = {a, b}
    NoItem = NoItem
    MaxAio = 2
    FlushAt = 2
    Cost = {0, 1}
    Infinite = 2
    Subscription = {f1, f2, f3}
    Nobody = Nobody
INVARIANTS
    ObjectsTypeOK
    NoIdleUnits
    OpensOnce
    PeersAnswered
    JoinAnswersOnce
    ReducedOnce
    ClassesAgree
    UnitsBalance
    EndsAgree
    NoDataRace
PROPERTIES
    EveryWaiterServed
    JoinAnswers
    Answered
    ImplementsFifo
