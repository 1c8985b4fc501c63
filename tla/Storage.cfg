CONSTANTS
    LogKeys = {k1, k2}
    LogValues = {v1, long}
    Oversized = {long}
    MaxAppends = 3
    LSMKeys = {1, 2}
    LSMValues = {0, 2}
    KeyLen = 1
    maxLevel = 2
    flushBytes = 4
    indexInterval = 1
    MaxTables = 2
    TreeKeys = {1, 2, 3, 4, 5, 6}
    TreeValues = {1, 2}
    order = 3
    Records = {1, 2}
    MaxRecords = 5
    ChunkSizes = {1, 2}
    MergeWidths = {2, 3}
    CacheKeys = {k1, k2, k3, k4}
    CacheValues = {v1, v2}
    capacity = 3
    Missing = Missing
    listHead = listHead
    listTail = listTail
    MaxGets = 3
    MaxFreq = 3
    Items = {x1, x2}
    HashBits = 3
    BloomBits = 5
    BloomHashes = 2
    Columns = 3
    Depth = 2
    Precision = 1
    Shards = {s1, s2}
    MaxTotal = 3
SPECIFICATION MCSpec
INVARIANTS DurableOnSoundLog ReplayIsOrdered SketchesErrOnOneSide
PROPERTIES ActsAsAStore EvictsTheRightKey TreeAndRunsAreSound
