SPECIFICATION Spec
CONSTANTS
    o1 = o1
    o2 = o2
    Obligations = {o1, o2}
    Clauses <- MCClauses
    About <- MCAbout
    Iterations = 2
    JudgeRetryMax = 0
    FaultMax = 1
    CureMax = 1
    MaxApproaches = 1
    Reportable <- MCReportableFew
    Given = {"confirmed"}
    KeyStores = {TRUE, FALSE}
    KillMax = 1
    Features = {"disturbed", "midplan", "criteria"}
INVARIANTS RecordSpeaksTrue ExemptOnlyConfirmed
CHECK_DEADLOCK FALSE
SYMMETRY MCSymmetry
