SPECIFICATION FairSpec
CONSTANTS
    Workers = {w1}
    Resources = {x}
    NoResource = NoResource
    Specs <- ConvergeSpecs
    Anns <- KeysAnn
    Ats <- KeysAnn
    Keys <- KeysOne
    Generated = {}
    NameOf <- NameX
    Canonical <- MCCanonical
    BadPolicies = {"bad", "text"}
    NotJSON = {"text"}
    Foreign = {"add", "remove", "disable"}
    FaultKinds = {"refused"}
    MaxFaults = 1
    MaxOps = 3
PROPERTIES
    Converges
    DeletionCompletes
    ReconcilerSpec
CHECK_DEADLOCK FALSE
