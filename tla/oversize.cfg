SPECIFICATION Spec
CONSTANTS
    None = None
    a = a
    b = b
    c = c
    x = x
    Bodies <- MCBodies
    ErrorPage <- MCErrorPage
    MaxBytes = 3
    BufferSize = 1
    MaxFaults <- OneCrash
    MaxHandoffs = 2
INVARIANTS
    WithinLimit
