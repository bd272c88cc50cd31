SPECIFICATION Spec
CONSTANTS
    Core <- MCCore
    Program <- MCBothWays
    Target <- MCTarget
    RingSize = 1
    BatchSize = 2
INVARIANTS
    TypeOK
    NoLostWakeup
    NothingLeftBehind
    QueueLengthExact
PROPERTIES
    ImplementsCalls
