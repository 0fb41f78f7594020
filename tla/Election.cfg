SPECIFICATION MCSpec
CONSTANTS
    NumNodes = 2
    Default <- FirstPod
    Views <- WholeView
    Choices <- AnyChoice
    Ranked = {1}
    MaxAttempts = 1
    DivergenceTerm = 1
    ClusterTerms = {1}
    PublishMayFail = TRUE
    MaxStarts = 2
    MaxPromotions = 1
    MaxRestarts = 1
    MaxResets = 1
CHECK_DEADLOCK FALSE
CONSTRAINT Bounded
INVARIANTS  CoordinatorLeadsItself
VIEW Uncounted
