CONSTANTS
    N = 2
    Stages = 2
    Workers = 2
    BufferSize = 1
SPECIFICATION FairSpec
INVARIANTS NoSendOnClosed JobsConserved
PROPERTY Unwinds
