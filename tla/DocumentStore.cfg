SPECIFICATION FairSpec
CONSTANTS
    Key = {"x"}
    Raw <- Numbers
    Nothing = 0
    Replica = {1, 2}
    Caller = {"a", "b", "c"}
    Home <- HomeOf
    MaxEntries = 2
    MaxRestarts = 2
    MaxFailures = 1
INVARIANTS AcknowledgedSurvives StampsUnique
PROPERTIES WritesSpread
CHECK_DEADLOCK FALSE
