SPECIFICATION FairSpec
CONSTANTS
    w1 = w1
    w2 = w2
    Workers = {w1, w2}
    Jobs <- MCJobs
    MaxPendingBytes = 800
    NoError <- MCNoError
    BadSize <- MCBadSize
    Work <- MCWork
    PlayerSlots = 2
    NumAxes = 3
    LongBits = 20
    CountBits = 2
    maxPlayerRunLength = 2
    Demos <- MCDemos
    Damages <- MCDamages
    ParseIntoChunks <- MCParse
    Profiles <- MCProfiles
    SymbolCost <- MCSymbolCost
    rangeChunkTargetSize = 100
    maxChunkSize = 400
INVARIANTS
    WorkersDoNotMatter
    FirstErrorWins
    RoundTrip
    DamageIsNoticed
    WrittenInOrder
    QueueBounded
    NothingLeftBehind
PROPERTIES
    CallsReturn
CHECK_DEADLOCK FALSE
