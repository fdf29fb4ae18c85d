\* Vec<u8> longer than a u32 can count, scaled down to 8.
CONSTANTS
    Radix = 2
    MaxGroups = 5
    LastGroup = 2
    Chunks <- MCChunks
    Tags <- MCTags
    Widths <- MCWidths
    Growable = TRUE
    Capacity = 10
    Stale <- MCZeroed
    MaxDepth = 3
    U32 = 8
SPECIFICATION Spec
INVARIANT StartInBuffer
