SPECIFICATION Spec
CONSTANTS
    Workers = {w1}
    Resources = {x, y}
    NoResource = NoResource
    Specs <- SharedSpecs
    Anns <- BucketAnns
    Ats <- AtsOne
    Names = {"b1"}
    Canonical <- MCCanonical
    BadPolicies = {"bad"}
    Foreign = {}
    FaultKinds = {}
    MaxFaults = 0
    MaxOps = 4
INVARIANTS
    OneOwner
CHECK_DEADLOCK FALSE
