SPECIFICATION Spec
CONSTANTS
    Ids = {1, 2, 3, 4}
    Record = 2
    OrderingOnly = {}
    Freeze = 0
    Sweep = 1
    Initial = {1, 2}
    AttemptLimit = 2
    TopTier = 2
    ProgressMax = 1
    SplitMax = 2
    RepointMax = 1
    CureMax = 1
    MaxApproaches = 1
    StagnationMax = 2
    HeldMax = 1
    RepollMax = 1
    Iterations = 9
    Edits = 1
    SteerCalls = 1
    Features = {"petitions", "cures", "killed", "faults"}
INVARIANTS RoundsAreRejections TierIsEarned CuresComeFirst NoEdgeToVoided
