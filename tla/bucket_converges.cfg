SPECIFICATION FairSpec
CONSTANTS
    Workers = {w1}
    Resources = {x}
    NoResource = NoResource
    Specs <- ConvergeSpecs
    Anns <- BucketAnns
    Ats <- AtsOne
    Names = {"b1"}
    Canonical <- MCCanonical
    BadPolicies = {"bad"}
    Foreign = {"put", "remove"}
    FaultKinds = {"crash", "refused", "partial"}
    MaxFaults = 1
    MaxOps = 4
PROPERTIES
    Converges
    DeletionCompletes
    DataSafety
    ReconcilerSpec
CHECK_DEADLOCK FALSE
