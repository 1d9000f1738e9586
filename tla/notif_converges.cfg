SPECIFICATION FairSpec
CONSTANTS
    Workers = {w1}
    Resources = {x}
    NoResource = NoResource
    Specs <- OneSpecs
    Anns <- NoAnns
    Ats <- IdAts
    Names = {"b"}
    Ids = {"i1", "i2"}
    Endpoints = {"e1", "e2"}
    EventLists <- OneList
    Filters = {"none", "empty", "f1"}
    KnownEvents = {"put", "get"}
    Foreign = {"add", "remove", "drop", "make"}
    FaultKinds = {"crash", "refused", "partial"}
    MaxFaults = 1
    MaxOps = 3
INVARIANTS
    TypeOK
    NoDuplicates
PROPERTIES
    KeepsOthers
    EntryGoesFirst
    Converges
    DeletionCompletes
    ReconcilerSpec
CHECK_DEADLOCK FALSE
