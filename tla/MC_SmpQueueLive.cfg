SPECIFICATION Spec
CONSTANTS
    Core <- MCCore
    Program <- MCTwo
    Target <- MCTarget
    RingSize = 1
    BatchSize = 2
PROPERTIES
    EveryCallReturns
