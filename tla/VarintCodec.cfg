\* Groups of two bits, three groups, the last of one bit: a five-bit word.
CONSTANTS
    Radix = 4
    MaxGroups = 3
    LastGroup = 2
    MaxLen = 4
SPECIFICATION InputSpec
INVARIANTS DecodesWords SkipAgrees SelfDelimiting
PROPERTIES ReadersAgree RejectsOnlyUnfinished
CHECK_DEADLOCK FALSE
