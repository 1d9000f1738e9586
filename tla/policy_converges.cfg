SPECIFICATION FairSpec
CONSTANTS
    Workers = {w1}
    Resources = {x}
    NoResource = NoResource
    Specs <- PolicySpecs
    Anns <- PolicyAnns
    Ats <- PolicyAts
    Names = {"p"}
    NameOf <- NameP
    Meaning <- MCMeaning
    BadPolicies = {"bad", "text"}
    NotJSON = {"text"}
    Buckets = {"b"}
    Foreign = {"make", "remove", "change", "attach"}
    FaultKinds = {"crash", "refused", "partial"}
    MaxFaults = 1
    MaxOps = 3
INVARIANTS
    TypeOK
PROPERTIES
    ClaimsOwnPolicy
    PolicyGoesFirst
    Converges
    DeletionCompletes
    ReconcilerSpec
    LifecycleSpec
CHECK_DEADLOCK FALSE
