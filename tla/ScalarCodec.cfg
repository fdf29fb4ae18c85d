\* i32 is -4..3, i64 is -32..31; a u64 takes up to three groups of two bits.
CONSTANTS
    Radix = 4
    MaxGroups = 3
    LastGroup = 4
    Bytes32 = 1
    Bytes64 = 2
    KeyRadix = 8
    NotUtf8 <- MCNotUtf8
    MaxTail = 2
    Strings <- MCStrings
SPECIFICATION CodecSpec
INVARIANTS RoundTrips LenPredicts SkipsExactly Evolves
CHECK_DEADLOCK FALSE
