SPECIFICATION Spec
CONSTANTS
    Workers = {w1}
    Resources = {x, y}
    NoResource = NoResource
    Specs <- OwnerSpecs
    Anns <- BucketAnns
    Ats <- AtsTwo
    Names = {"b1", "b2"}
    Canonical <- MCCanonical
    BadPolicies = {"bad"}
    Foreign = {"make"}
    FaultKinds = {"crash", "refused", "partial"}
    MaxFaults = 1
    MaxOps = 4
SYMMETRY ResourceSymmetry
INVARIANTS
    TypeOK
    StatusNamesSpec
PROPERTIES
    LockOnlyToMaker
    DeletedMeansRemoved
CHECK_DEADLOCK FALSE
