\* Six-bit bytes: numbers 1 to 3 have keys of one byte, 4 to 7 of two.
CONSTANTS
    Radix = 32
    MaxGroups = 3
    LastGroup = 4
    Bytes32 = 1
    Bytes64 = 2
    KeyRadix = 8
    NotUtf8 <- MCNotUtf8
    Schemas <- MCSchemas
    OldNrs <- MCOldNrs
    Inputs <- MCInputs
SPECIFICATION UpgradeSpec
INVARIANTS OldSeesLess CutSeesPrefix Concatenates
PROPERTIES Terminates StopsAtError
