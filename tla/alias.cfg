SPECIFICATION Spec
CONSTANTS
    None = None
    Bad = Bad
    s1 = s1
    s2 = s2
    d1 = d1
    d2 = d2
    KeyIds = {1, 2}
    Keys <- MCKeys
    Secrets = {s1, s2}
    Blobs = {d1, d2}
    MaxTime = 0
    Jobs <- AliasJobs
    MaxRuns = 1
INVARIANTS
    ManifestFilesAreThere
