SPECIFICATION FairSpec
CONSTANTS
    None = None
    Bad = Bad
    KeyIds = {1, 2}
    Keys <- MCKeys
    MaxTime = 1
    Workers = {w1, w2}
    Snapshots <- MCSnapshots
    Issuers <- MCIssuers
    Issuer = "ours"
    RootKeys = {"root", "intruder"}
    Roots = {"root"}
    MaxKills = 1
INVARIANTS
    TypeOK
    LoadedIsAdmitted
    SuccessIsInstalled
PROPERTIES
    RegistryIsRepaired
