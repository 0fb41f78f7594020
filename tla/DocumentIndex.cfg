SPECIFICATION MCSpec
CONSTANTS
    Key = {"x", "y", "z"}
    Raw <- Documents
    Nothing = "none"
    Entry <- Six
    Field = {"type"}
    Text = {"A", "B"}
    Fields <- Texts
    NotJSON = {"d6"}
    Cost <- Costs
    DecodedMax = 2
    Reader = {r1, r2}
    c1 = c1
    c2 = c2
    c3 = c3
    Call = {c1, c2, c3}
    NoCall = none
    Main = main
    Jobs <- Plans
    Builtin <- Opened
    Dynamic = {"a"}
    MayCreate = TRUE
    MaxStarts = 2
    MaxFailures = 1
CHECK_DEADLOCK FALSE
INVARIANTS LastWriterWins FieldsExact CacheIsCurrent RestartKeepsPromises ListedStoresWork BackupIsComplete
