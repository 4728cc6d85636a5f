SPECIFICATION Spec
CONSTANTS
    None = None
    Bad = Bad
    KeyIds = {1, 2}
    Keys <- MCKeys
    MaxTime = 1
    Inputs <- MCInputs
INVARIANTS
    TypeOK
    RevokedWins
    TrustIsNotInvented
