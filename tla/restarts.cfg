SPECIFICATION Spec
CONSTANTS
    curable = curable  incurable = incurable  clauseless = clauseless
    c1 = c1  c2 = c2  noClause = noClause
    Findings <- MCFindings
    Curable <- MCCurable
    Clauses <- MCClauses
    NoClause <- noClause
    ClauseOf <- MCClauseOf
    MaxApproaches = 2
    Iterations = 5
    CureCeiling = 1
    PeerGate = TRUE
    Reflect = TRUE
    InputPause = TRUE
    Rejections <- TwoRungs
    Environment = {"abort", "steer", "input_timeout", "pause", "kill", "kill_opening", "patch_cures"}
    Patches = {}
    ApproachBound = 2
    BudgetBound = 6
    TopUpBound = 1
    FaultBound = 1
    SteerBound = 1
    BootBound = 1
INVARIANTS HeldInv SuccessIsJudged ParkHasItsQuestion
PROPERTIES NoSuccessOverCures SettledOutcomeSurvives HoldNamesASpentBudget ApproachChargedOnce ImplementsLifecycle
