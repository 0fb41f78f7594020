SPECIFICATION MCSpec
CONSTANTS
    Hash <- Entries
    Before <- History
    Known = {1}
    Announced <- Heads
    Slots = 2
    MaxFailures = 1
    NumberOf <- Numbers
    PartOf <- Parts
    Filter <- Filters
    Regex <- Expressions
    Respelled <- Spaces
    KeyField = "_id"
    IndexedFields = {"type", "name"}
    Fresh <- Ids
    Inserts <- Puts
    Changes <- Set
    Selectors <- Chosen
    Questions <- Asked2
    FewDocs = 2
    MaxDocs = 2
    MaxBytes = 7
    Node = {"n1", "n2", "n3"}
    Document = {"d1", "d2"}
    Content = {"c"}
    Clients <- PutOn
    Scores <- Similar
    Search = {"s"}
    Origin <- Asker
    TopK <- Wanted
    Backlog = 1
    MaxPuts = 2
INVARIANTS  SelectAlike BadOnesAlone SearchFindsBest
PROPERTIES EntriesArrive
