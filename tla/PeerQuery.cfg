SPECIFICATION FairSpec
CONSTANTS
    Node = {1, 2, 3}
    Self = 1
    Store = {"default", "other"}
    Default = "default"
    Name = {"a"}
    Query = {q1, q2}
    May <- Calls2
    Client <- Clients2
    q1 = q1
    q2 = q2
    Hanging = {3}
    MaxWorkers = 1
    QuorumN = 1
    MaxWrites = 2
    Key <- Keys
    Raw <- Values
    Nothing = 0
CONSTRAINT InTurn
INVARIANTS AnswerComplete CalmReadsFillGaps
PROPERTY QueryEnds
CHECK_DEADLOCK FALSE
