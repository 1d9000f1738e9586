SPECIFICATION FairSpec
CONSTANTS
    Workers = {w1}
    Resources = {x}
    NoResource = NoResource
    Specs <- SortedSpecs
    Anns <- UserAnns
    Ats <- UserAts
    Names = {"u", "v"}
    NameOf <- NameX
    PolicyOrder <- TwoPolicies
    Foreign = {"make", "remove", "disable", "rekey", "removePolicy", "dropSecret"}
    FaultKinds = {"crash", "refused", "partial"}
    MaxFaults = 1
    MaxOps = 3
INVARIANTS
    TypeOK
PROPERTIES
    ClaimsOwnUser
    UserGoesFirst
    Heals
    DeletionCompletes
    ReconcilerSpec
CHECK_DEADLOCK FALSE
