SPECIFICATION MCSpec
CONSTANTS
    Caller = {1, 2}
    Request = {1, 2, 3, 4}
    Docs <- FourDocs
    Key <- FourKeys
    Size <- FourSizes
    MaxDocs = 2
    MaxBytes = 3
    Outcomes = {"ok", "lost", "kept"}
    MayCancel = {1}
    Worker = {w1, w2}
    Attempt = {1, 2}
    Files <- SevenFiles
    Storer = {s1, s2, s3}
    Revoker = {v1}
    Verifier = {v2}
    Getter = {v3}
    Lister = {l1, l2, l3}
    Posted <- Posts
    Wanted <- Listings
    NoID = none
    MaxIOErrors = 1
    MaxRuns = 2
    s1 = s1
    s2 = s2
    s3 = s3
    l1 = l1
    l2 = l2
CHECK_DEADLOCK FALSE
INVARIANTS AnsweredIsStored ArrivalOrderKept UploadsAreDescribed CredentialsKept
PROPERTIES QueuedIsDecided
