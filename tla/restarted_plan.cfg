SPECIFICATION Spec
CONSTANTS
    curable = curable  incurable = incurable  clauseless = clauseless
    c1 = c1  c2 = c2  noClause = noClause
    Findings <- MCFindings
    Curable <- MCCurable
    Clauses <- MCClauses
    NoClause <- noClause
    ClauseOf <- MCClauseOf
    MaxApproaches = 2
    Iterations = 6
    CureCeiling = 1
    PeerGate = FALSE
    Reflect = FALSE
    InputPause = FALSE
    Rejections <- TwoRungs
    Environment = {"kill"}
    Patches = {}
    ApproachBound = 2
    BudgetBound = 6
    TopUpBound = 0
    FaultBound = 0
    SteerBound = 0
    BootBound = 1
INVARIANT WorksOnItsOwnPlan
