SPECIFICATION FairSpec
CONSTANTS
    None = None
    a = a
    b = b
    c = c
    x = x
    Bodies <- MCBodies
    ErrorPage <- MCErrorPage
    MaxBytes = 3
    BufferSize = 1
    MaxFaults <- MCFaults
    MaxHandoffs = 2
INVARIANTS
    TypeOK
    ReturnedIsWanted
    FileIsResult
    ResumeKeepsPrefix
    StreamIsPrefix
PROPERTIES
    RetrySucceeds
