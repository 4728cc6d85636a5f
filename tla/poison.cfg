SPECIFICATION FairSpec
CONSTANTS
    None = None
    a = a
    b = b
    c = c
    x = x
    Bodies <- MCBodies
    ErrorPage <- MCErrorPage
    MaxBytes = 3
    BufferSize = 1
    MaxFaults <- Errors
    MaxHandoffs = 1
PROPERTIES
    EveryRetrySucceeds
