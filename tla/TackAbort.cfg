\* SliceBuf: a panic for lack of room must stay a panic.
CONSTANTS
    Radix = 2
    MaxGroups = 5
    LastGroup = 2
    Chunks <- MCChunks
    Tags <- MCTags
    Widths <- MCWidths
    Growable = FALSE
    Capacity = 5
    Stale <- MCStale
    MaxDepth = 3
    U32 = 64
SPECIFICATION Spec
INVARIANT ExhaustionPanics
