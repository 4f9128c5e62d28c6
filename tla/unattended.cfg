SPECIFICATION FairSpec
CONSTANTS
    curable = curable  incurable = incurable  clauseless = clauseless
    c1 = c1  c2 = c2  noClause = noClause
    Findings <- MCFindings
    Curable <- MCCurable
    Clauses <- MCClauses
    NoClause <- noClause
    ClauseOf <- MCClauseOf
    MaxApproaches = 2
    Iterations = 5
    CureCeiling = 1
    PeerGate = TRUE
    Reflect = TRUE
    InputPause = TRUE
    Rejections <- WithBare
    Environment = {"abort", "deadline", "input_timeout", "early_verdict", "judge_fault", "planning_death", "graph_fault", "kill", "kill_answered"}
    Patches = {}
    ApproachBound = 2
    BudgetBound = 5
    TopUpBound = 1
    FaultBound = 1
    SteerBound = 1
    BootBound = 1
PROPERTIES ComesToRest
