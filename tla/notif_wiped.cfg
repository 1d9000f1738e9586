SPECIFICATION SpecH
CONSTANTS
    Workers = {w1}
    Resources = {x}
    NoResource = NoResource
    Specs <- WipedSpecs
    Anns <- NoAnns
    Ats <- IdAts
    Names = {"b"}
    Ids = {"i1", "i2"}
    Endpoints = {"e1", "e2"}
    EventLists <- OneList
    Filters = {"none", "empty", "f1"}
    KnownEvents = {"put", "get"}
    Foreign = {"add"}
    FaultKinds = {"refused"}
    MaxFaults = 1
    MaxOps = 2
PROPERTIES
    StartsFresh
CHECK_DEADLOCK FALSE
