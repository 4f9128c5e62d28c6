SPECIFICATION Spec
CONSTANTS
    Obligations = {"o1"}
    Clauses <- MCClauses
    About <- MCAbout
    Iterations = 3
    JudgeRetryMax = 1
    FaultMax = 2
    CureMax = 1
    MaxApproaches = 2
    Reportable <- MCReportable
    Given = {"confirmed", "substance"}
    KeyStores = {TRUE}
    KillMax = 1
    Features = {"tree", "crossed"}
INVARIANTS AuditedInFull ChargedForJudgements
PROPERTIES ReviewConcludes
CHECK_DEADLOCK FALSE
