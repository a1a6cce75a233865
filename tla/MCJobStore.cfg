SPECIFICATION Spec
CONSTANTS
    JobIds = {j1, j2}
    Owners = {o1, o2}
    CreateKeys = {k1}
    CancelKeys = {c1}
    MaxRetries = 2
    MaxVersion = 9
    MaxTime = 2
    None = None
CONSTRAINT PairBound
SYMMETRY JobOwnerSymmetry
INVARIANTS
    TypeOK
    LifecycleFields
    HistoryIsTrue
PROPERTIES
    LiveLeaseNotLost
    ImplementsLifecycle
