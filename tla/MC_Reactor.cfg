SPECIFICATION MCSpec
CONSTANTS
    Handle = {h1, h2}
    Pollfn = {fn1, fn2, fn3}
    SignalFn = S
    Null = Null
    MaxTasks = 3
    Event = {in, out}
    Thread = {th1, th2, th3}
    Group = {th1, th2}
    Unthreaded = U
    p1 = p1
    p2 = p2
    p3 = p3
    f1 = f1
    f2 = f2
    f3 = f3
    t1 = t1
    t2 = t2
    Promise = {p1, p2, p3}
    Future = {f1, f2, f3}
    Task = {t1, t2}
    None = None
INVARIANTS
    ReactorTypeOK
    PollersIntact
    SleepsWithoutWork
    WaitersInstalled
    SwitchesPair
    LinksAgree
PROPERTIES
    ImplementsChannels
SYMMETRY MCSymmetry
