\* Up to 9 bytes before the lengths grow; a slice one byte too small for some.
CONSTANTS
    Radix = 2
    MaxGroups = 5
    LastGroup = 2
    Chunks <- MCChunks
    Tags <- MCTags
    Widths = {1, 2}
    Stale = {3}
    Capacity = 10
    RevCapacity = 11
    MaxDepth = 3
    U32 = 64
SPECIFICATION Spec
INVARIANTS SameBytes VecPlaceholdersKept RevTypeOK
PROPERTIES RoomIsExact VecFraming RevFraming
