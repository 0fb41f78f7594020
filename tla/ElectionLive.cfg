SPECIFICATION FairSpec
CONSTANTS
    NumNodes = 2
    Default <- NoPod
    Views <- WholeView
    Choices <- OnlyReported
    Ranked = {1}
    MaxAttempts = 2
    DivergenceTerm = 4
    ClusterTerms = {1, 3}
    PublishMayFail = FALSE
    MaxStarts = 1
    MaxPromotions = 0
    MaxRestarts = 0
    MaxResets = 0
CHECK_DEADLOCK FALSE
PROPERTIES ElectionsEnd  WinnersSendHeartbeats
