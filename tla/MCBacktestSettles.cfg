SPECIFICATION RunFairSpec
CONSTANTS
    Runs = {r1}
    Capacity = 1
    NoOutcome = NoOutcome
CHECK_DEADLOCK FALSE
PROPERTIES
    CancelSettles
