\* Six-bit bytes; keys of one byte and of two.
CONSTANTS
    Radix = 32
    MaxGroups = 4
    LastGroup = 8
    Bytes32 = 2
    Bytes64 = 3
    KeyRadix = 8
    NotUtf8 <- MCNotUtf8
    Schemas <- MCSchemas
    Inputs <- MCInputs
    Fields <- MCTextFields
    Values <- MCValues
    Lists <- MCLists
    Keys <- MCKeys
    Inner = 1
    MaxCalls = 2
SPECIFICATION RoundTripSpec
INVARIANT OutputBecomesValue
\* The decoder has returned None.
CHECK_DEADLOCK FALSE
