SPECIFICATION FairSpec
CONSTANTS
    Workers = {w1}
    Resources = {x}
    NoResource = NoResource
    Specs <- UnsortedSpecs
    Anns <- UserAnns
    Ats <- UserAts
    Names = {"u"}
    NameOf <- NameX
    PolicyOrder <- TwoPolicies
    Foreign = {}
    FaultKinds = {}
    MaxFaults = 0
    MaxOps = 2
PROPERTIES
    PoliciesStay
CHECK_DEADLOCK FALSE
