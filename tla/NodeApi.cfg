CONSTANTS
    main = main  sig = sig  other = other
    Callers <- AnyCallers
    Calls <- AnyCalls
    MaxStarts = 3
    MaxServices = 1
SPECIFICATION NodeFairSpec
INVARIANTS
    NoPanic
    RunningIsStoppable
PROPERTY CallsReturn
CHECK_DEADLOCK FALSE
