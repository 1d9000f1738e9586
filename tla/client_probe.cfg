SPECIFICATION Spec
CONSTANTS
    Controllers = {"user"}
    Configs <- ProbeConfigs
    Secrets = {"creds", "tls"}
    Maps = {"m"}
    Keys = {"id", "secret", "ca", "crt", "key"}
    Contents <- MCContents
    Certificates = {"ca1", "ca2"}
    Pairs <- MCPairs
    MaxOps = 3
INVARIANTS
    OneTrust
