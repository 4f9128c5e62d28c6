SPECIFICATION Spec
CONSTANTS
    Ids = {1, 2, 3}
    Record = 0
    OrderingOnly = {}
    Freeze = 1
    Sweep = 1
    Initial = {1, 2}
    AttemptLimit = 1
    TopTier = 1
    ProgressMax = 1
    SplitMax = 2
    RepointMax = 1
    CureMax = 1
    MaxApproaches = 2
    StagnationMax = 2
    HeldMax = 1
    RepollMax = 1
    Iterations = 4
    Edits = 1
    SteerCalls = 1
    Features = {"petitions", "replacement", "deferral", "undefer", "breaker", "midplan", "rulings", "faults"}
PROPERTIES LeavesWorker
