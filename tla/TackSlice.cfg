\* SliceBuf: a fixed slice whose unused bytes are arbitrary.
CONSTANTS
    Radix = 2
    MaxGroups = 5
    LastGroup = 2
    Chunks <- MCChunks
    Tags <- MCTags
    Widths <- MCWidths
    Growable = FALSE
    Capacity = 10
    Stale <- MCStale
    MaxDepth = 3
    U32 = 64
SPECIFICATION Spec
INVARIANTS TypeOK StartInBuffer Nested PlaceholdersKept
PROPERTY Framing
