SPECIFICATION Spec
CONSTANTS
    curable = curable  incurable = incurable  clauseless = clauseless
    c1 = c1  c2 = c2  noClause = noClause
    Findings <- MCFindings
    Curable <- MCCurable
    Clauses <- MCClauses
    NoClause <- noClause
    ClauseOf <- MCClauseOf
    MaxApproaches = 2
    Iterations = 5
    CureCeiling = 1
    PeerGate = FALSE
    Reflect = FALSE
    InputPause = TRUE
    Rejections <- EveryRung
    Environment = {"abort", "pause", "steer", "deadline", "input_timeout", "judge_fault", "planning_death", "steer_unsettled", "steer_fault", "secret", "graph_fault", "patch"}
    Patches = {4}
    ApproachBound = 3
    BudgetBound = 5
    TopUpBound = 1
    FaultBound = 1
    SteerBound = 1
    BootBound = 0
INVARIANTS TypeOK ChargedWithinBudget CureRoundsWithinAllowance GateIsOnRecord WorksOnItsOwnPlan
PROPERTIES AbortIsSticky NoSuccessOverSteering StepsAreDeclared
