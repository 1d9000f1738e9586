SPECIFICATION Spec
CONSTANTS
    Workers = {w1, w2}
    Resources = {x}
    NoResource = NoResource
    Specs <- PlainSpecs
    Anns <- KeysAnn
    Ats <- KeysAnn
    Keys <- KeysGenerated
    Generated = {"g1", "g2", "g3", "g4", "g5"}
    NameOf <- NameX
    Canonical <- MCCanonical
    BadPolicies = {"bad", "text"}
    NotJSON = {"text"}
    Foreign = {"remove"}
    FaultKinds = {"crash", "refused", "partial"}
    MaxFaults = 1
    MaxOps = 3
SYMMETRY WorkerSymmetry
INVARIANTS
    TypeOK
    NoRunaway
    OneCreateInFlight
    SecretOfHolder
PROPERTIES
    DeletesOwn
    AccountGoesFirst
CHECK_DEADLOCK FALSE
