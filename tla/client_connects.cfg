SPECIFICATION FairSpec
CONSTANTS
    Controllers = {"user", "notification"}
    Configs <- MCConfigs
    Secrets = {"creds", "tls"}
    Maps = {"m"}
    Keys = {"id", "secret", "ca", "crt", "key"}
    Contents <- MCContents
    Certificates = {"ca1", "ca2"}
    Pairs <- MCPairs
    MaxOps = 2
INVARIANTS
    PairBelongs
PROPERTIES
    NoDowngrade
    PicksUp
