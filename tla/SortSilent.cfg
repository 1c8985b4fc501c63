CONSTANTS
    Records = {1, 2}
    MaxRecords = 3
    ChunkSizes = {1}
    MergeWidths = {2}
SPECIFICATION Spec
INVARIANT SortsOrFails
