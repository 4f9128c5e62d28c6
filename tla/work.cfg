SPECIFICATION Spec
CONSTANTS
    Ids = {1, 2, 3}
    Record = 0
    OrderingOnly = {}
    Freeze = 0
    Sweep = 0
    Initial = {1}
    AttemptLimit = 2
    TopTier = 1
    ProgressMax = 1
    SplitMax = 1
    RepointMax = 1
    CureMax = 1
    MaxApproaches = 1
    StagnationMax = 2
    HeldMax = 1
    RepollMax = 1
    Iterations = 3
    Edits = 1
    SteerCalls = 1
    Features = {"faults", "secret", "splits", "deferral", "reports", "steering"}
INVARIANTS Schedulable SplitParentRests ForcedSplitIsEarned
