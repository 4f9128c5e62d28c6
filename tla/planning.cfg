SPECIFICATION Spec
CONSTANTS
    Endings <- MCEndings
    Schedule <- MCSchedule
    RateWaits <- MCRateWaits
    Proposals <- MCProposals
    BackoffMax = 2
    OutageBudget = 2
    ReflectBudget = 1
    RetryMax = 0
    RateWaitMax = 1
    JobTime = 2
    MaxInstant = 2
    BellMax = 1
    Iterations = 5
    MaxApproaches = 2
    RevisionMax = 1
    ContractRetryMax = 1
    PeerReview = TRUE
    Blockers = {blocker}
    KillMax = 1
INVARIANTS DeadlineCountsOnlyWork HandedOver
PROPERTIES RecordedWorkSurvives PlanningConcludes
