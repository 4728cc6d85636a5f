SPECIFICATION Spec
CONSTANTS
    None = None
    Bad = Bad
    s1 = s1
    s2 = s2
    d1 = d1
    d2 = d2
    KeyIds = {1}
    Keys <- MCKeys
    MaxTime = 1
    Secrets = {s1, s2}
    Blobs = {d1, d2}
    Authors = {"me", "you"}
    Padded <- Pads
    Made = {1}
    Drawn = {2, 3}
    Listing <- Blank
    Budgets <- Small
CHECK_DEADLOCK FALSE
INVARIANTS
    PackedIsAccepted
